---------------------------- MODULE MCPeriphery -----------------------------
(* The parts around the calls with three messages, one of them without a    *)
(* body, and as few addresses, threads and savers as make each part crowded; *)
(* the conversions of every 16-bit sample, of every day of 150 years, and    *)
(* of small files, descriptions and paths.                                   *)
EXTENDS Periphery

MCBody == <<1, 0, 2>>

Fmt(pcm, channels, bits, size) ==
    [id |-> "fmt", size |-> size, data |-> <<>>,
     format |-> [pcm |-> pcm, channels |-> channels, bits |-> bits]]
Data(bytes) == [id |-> "data", size |-> Len(bytes), data |-> bytes, format |-> NoFormat]
Other(size) == [id |-> "other", size |-> size, data |-> <<>>, format |-> NoFormat]

MCChunks ==
    {Fmt(TRUE, 1, 16, 16), Fmt(TRUE, 2, 16, 18), Fmt(TRUE, 2, 8, 17), Fmt(TRUE, 0, 8, 16),
     Fmt(TRUE, 1, 24, 16), Fmt(FALSE, 1, 16, 16), Fmt(TRUE, 1, 8, 14), Other(0), Other(3),
     Data(<<>>), Data(<<0, 128, 255, 127, 1, 0>>), Data(<<1, 255, 255, 0, 128>>)}

MCSections ==
    {<<MediaLine("audio", port, payloads)>> \o own \o said :
        port \in {"p1", "none"}, payloads \in {<<0, 8, 96>>, <<96, 101>>, <<111, 8, 8>>},
        own \in {<<>>, <<Connection("ip1")>>},
        said \in {<<>>, <<Direction("sendonly")>>, <<RtpMap(96, "h264")>>,
                  <<Direction("inactive"), RtpMap(96, "opus")>>}}
    \cup
    {<<MediaLine("video", "p2", <<97>>)>> \o own \o said :
        own \in {<<>>, <<Connection("ip2")>>},
        said \in {<<>>, <<Direction("recvonly"), RtpMap(97, "opus")>>}}

MCPreambles == {<<>>, <<Connection("ip3")>>,
                <<Direction("sendonly"), Connection("ip4"), SdpLine>>}

MCRoutes ==
    {<<"x">>, <<"<", "x", ",", ">", "x">>, <<"quote", "<", ",", "quote", "<", "x", ">">>,
     <<"<", "quote", ">", ",", "quote", ">">>}
=============================================================================
