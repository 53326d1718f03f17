---------------------------- MODULE Conversions -----------------------------
(***************************************************************************)
(* The conversions of Sound and Text on every input within bounds, each    *)
(* against a statement of its result that does not follow the code's way   *)
(* to it. `input` is what is converted; nothing changes it.                *)
(***************************************************************************)
EXTENDS Sound, Text, FiniteSets

CONSTANTS Stretch,     \* the samples and days one input stands for
          LastDay,     \* the latest day whose date is computed
          Chunks,      \* chunks of a WAV file: [id, size, format, data]
          MaxChunks,   \* the chunks of a file
          Cuts,        \* how many bytes are missing from its end
          Sections,    \* sequences of lines that make up a media section
          Preambles,   \* sequences of lines before the first section
          Routes,      \* well-formed header values
          MaxProxies   \* the proxies on a path

VARIABLE input

Upto(S, n) == UNION {[1 .. k -> S] : k \in 0 .. n}

ConversionsInit ==
    \/ \E c \in Codecs, k \in 0 .. 65536 \div Stretch - 1 :
           input = [what |-> "samples", codec |-> c, from |-> k * Stretch - 32768]
    \/ \E k \in 0 .. LastDay \div Stretch : input = [what |-> "days", from |-> k * Stretch]
    \/ \E chunks \in Upto(Chunks, MaxChunks), cut \in Cuts :
           input = [what |-> "wav", chunks |-> chunks, cut |-> cut]
    \/ \E preamble \in Preambles, sections \in Upto(Sections, 2) :
           input = [what |-> "sdp", preamble |-> preamble, sections |-> sections]
    \/ \E path \in Upto(Routes, MaxProxies), rows \in 1 .. MaxProxies :
           input = [what |-> "routes", path |-> path, rows |-> rows]

-----------------------------------------------------------------------------
(* Sound *)

Heard(codec, sample) == Decode(codec, Encode(codec, sample))

(* A sample is heard with its sign, at most a thirty-second of its size     *)
(* and eight off, no louder than a larger one, and coding what was heard    *)
(* again, as every hop of a call does, changes nothing more.                *)
SampleIsKept(codec, s) ==
    /\ Encode(codec, s) \in 0 .. 255
    /\ Heard(codec, s) \in Linear16
    /\ 32 * (Magnitude(Heard(codec, s) - s) - 8) <= Magnitude(Heard(codec, s))
    /\ s < 32767 => Heard(codec, s) <= Heard(codec, s + 1)
    /\ Heard(codec, Heard(codec, s)) = Heard(codec, s)

(* A file as programs write it: chunks of odd length are padded. *)
Bytes(c) ==
    LET body == [i \in 1 .. c.size |->
                    IF c.id = "fmt" /\ i = 1 THEN Formatted(c.format)
                    ELSE Byte(IF c.id = "data" THEN c.data[i] ELSE 0)]
    IN  Header(c.id, c.size) \o body \o (IF c.size % 2 = 1 THEN <<Byte(0)>> ELSE <<>>)
File(chunks) == FlattenSeq([i \in DOMAIN chunks |-> Bytes(chunks[i])])
Without(seq, n) == SubSeq(seq, 1, Len(seq) - n)

(* A word of two bytes in two's complement. *)
IsWord(w, low, high) == w \in Linear16 /\ (w - low - 256 * high) % 65536 = 0

(* Sample f of the result is the mean of its frame, rounded towards zero. *)
IsMean(m, words) ==
    LET sum == FoldSeq(LAMBDA a, b : a + b, 0, words)
    IN  /\ Magnitude(sum - m * Len(words)) < Len(words)
        /\ Magnitude(m * Len(words)) <= Magnitude(sum)
        /\ m # 0 => (m > 0) = (sum > 0)

(* The samples are those of the first data chunk, read by the format before *)
(* it, or nothing is read: without such a pair or with a format that cannot *)
(* be played or is cut short. A chunk between them does not matter.         *)
FileIsHeard(chunks, cut) ==
    LET file == Without(File(chunks), cut)
        result == ParseWav(file)
        whole == {i \in DOMAIN chunks : Len(File(SubSeq(chunks, 1, i - 1))) + 8 <= Len(file)}
        datas == {i \in whole : chunks[i].id = "data"}
        first == CHOOSE i \in datas : \A j \in datas : i <= j
        formats == {i \in whole : chunks[i].id = "fmt" /\ i < first}
        last == CHOOSE i \in formats : \A j \in formats : j <= i
        format == chunks[last].format
        start == Len(File(SubSeq(chunks, 1, first - 1))) + 8
        length == Smaller(chunks[first].size, Len(file) - start)
        width == (format.bits \div 8) * format.channels
        Word(i) == IF format.bits = 8 THEN (chunks[first].data[i] - 128) * 256
                   ELSE CHOOSE w \in {chunks[first].data[2 * i - 1] + 256 * chunks[first].data[2 * i] - k :
                                         k \in {0, 65536}} :
                            IsWord(w, chunks[first].data[2 * i - 1], chunks[first].data[2 * i])
    IN  IF \/ datas = {} \/ formats = {}
           \/ \E i \in formats : ~chunks[i].format.pcm \/ chunks[i].size < 16
           \/ ~Playable(format)
        THEN ~result.ok
        ELSE /\ result.ok
             /\ Len(result.samples) = length \div width
             /\ \A f \in DOMAIN result.samples :
                    IsMean(result.samples[f],
                           [c \in 1 .. format.channels |-> Word((f - 1) * format.channels + c)])

(* Samples and files are heard as they were recorded. Linear sound passes   *)
(* through G.711 in every call, and a file through parse_wav in every        *)
(* announcement; a tone of a test would not tell a wrong segment.           *)
SoundIsFaithful ==
    /\ input.what = "samples" =>
           \A s \in input.from .. input.from + Stretch - 1 : SampleIsKept(input.codec, s)
    /\ input.what = "wav" => FileIsHeard(input.chunks, input.cut)

-----------------------------------------------------------------------------
(* Text *)

NextDay(d) ==
    LET leap == d.year % 4 = 0 /\ (d.year % 100 # 0 \/ d.year % 400 = 0)
        length == CASE d.month = 2 -> (IF leap THEN 29 ELSE 28)
                    [] d.month \in {4, 6, 9, 11} -> 30 [] OTHER -> 31
    IN  CASE d.day < length -> [d EXCEPT !.day = @ + 1]
          [] d.day = length /\ d.month < 12 -> [d EXCEPT !.day = 1, !.month = @ + 1]
          [] OTHER -> [year |-> d.year + 1, month |-> 1, day |-> 1]

(* What a description with at most one audio section says of its audio: its *)
(* own address before the session's, its own port and direction, and the    *)
(* codecs of its payloads. Other sections have no say.                      *)
DescriptionIsRead(preamble, sections) ==
    LET result == ParseSdp(preamble \o FlattenSeq(sections))
        audio == {i \in DOMAIN sections : IsAudio(sections[i][1])}
        own == sections[CHOOSE i \in audio : TRUE]
        Said(lines, kind) == SelectSeq(lines, LAMBDA l : l.kind = kind)
        general == Said(preamble, "c")
        session == IF general = <<>> THEN "none" ELSE Last(general).ip
    IN  CASE audio = {} -> /\ result.ip = session /\ result.port = "none"
                           /\ result.direction = "sendrecv" /\ result.codecs = <<>>
          [] Cardinality(audio) = 1 ->
               /\ result.ip = IF Said(own, "c") = <<>> THEN session ELSE Said(own, "c")[1].ip
               /\ result.port = own[1].port
               /\ result.direction = IF Said(own, "direction") = <<>> THEN "sendrecv"
                                     ELSE Said(own, "direction")[1].direction
               /\ \A c \in {"pcmu", "pcma", "opus"} :
                      (\E i \in DOMAIN result.codecs : result.codecs[i] = c)
                        <=> \E p \in ToSet(own[1].payloads) :
                               \/ CodecOf(p) = c
                               \/ CodecOf(p) = "none"
                                    /\ \E l \in ToSet(Said(own, "rtpmap")) : l.payload = p /\ l.name = c
          [] OTHER -> TRUE

(* Each proxy of the path writes its value on top, in a header of its own   *)
(* or before the values of the topmost one.                                 *)
Recorded(path, rows) ==
    LET Row(values) == FoldLeft(LAMBDA text, v : IF text = <<>> THEN v ELSE text \o <<",">> \o v,
                                <<>>, values)
        seen == Reverse(path)
    IN  [r \in 1 .. (Len(seen) + rows - 1) \div rows |->
            Row(SubSeq(seen, (r - 1) * rows + 1, Smaller(r * rows, Len(seen))))]

(* The caller's requests go along the path, the callee's come back along it. *)
RouteIsKept(path, rows) ==
    /\ RouteSet("caller", Recorded(path, rows)) = path
    /\ RouteSet("callee", Recorded(path, rows)) = Reverse(path)

(* What is read from text is what it says: the days of the log follow each  *)
(* other as in the calendar, a session description gives the audio's own    *)
(* address, and a dialog's route goes through the proxies in their order,   *)
(* whatever stands between quotes and angle brackets.                       *)
TextIsFaithful ==
    /\ input.what = "days" =>
           /\ DateOf(0) = [year |-> 1970, month |-> 1, day |-> 1]
           /\ \A d \in input.from .. input.from + Stretch - 1 :
                  DateOf(d + 1) = NextDay(DateOf(d))
    /\ input.what = "sdp" => DescriptionIsRead(input.preamble, input.sections)
    /\ input.what = "routes" => RouteIsKept(input.path, input.rows)
=============================================================================
