-------------------------------- MODULE Text --------------------------------
(***************************************************************************)
(* What the program reads out of text and writes into it: session          *)
(* descriptions (sdp.rs), lists of header values (utils.rs), and the dates *)
(* of its log (logger.rs). Lines and characters stand for what the code    *)
(* tells apart.                                                            *)
(***************************************************************************)
EXTENDS Integers, Sequences, SequencesExt

-----------------------------------------------------------------------------
(* Session descriptions. A line of another kind, or one that cannot be      *)
(* parsed, changes nothing. "none" is an address or a port that is missing. *)
SdpLine == [kind |-> "other", media |-> "", ip |-> "none", port |-> "none",
            payloads |-> <<>>, direction |-> "", payload |-> 0, name |-> ""]
Connection(ip) == [SdpLine EXCEPT !.kind = "c", !.ip = ip]
MediaLine(media, port, payloads) ==
    [SdpLine EXCEPT !.kind = "m", !.media = media, !.port = port, !.payloads = payloads]
Direction(d) == [SdpLine EXCEPT !.kind = "direction", !.direction = d]
RtpMap(payload, name) == [SdpLine EXCEPT !.kind = "rtpmap", !.payload = payload, !.name = name]

CodecOf(payload) == CASE payload = 0 -> "pcmu" [] payload = 8 -> "pcma"
                      [] payload = 111 -> "opus" [] OTHER -> "none"

(* The names of all sections are in one table, where the last one counts. *)
NameOf(lines, payload) ==
    LET maps == {i \in DOMAIN lines : lines[i].kind = "rtpmap" /\ lines[i].payload = payload}
        name == lines[CHOOSE i \in maps : \A j \in maps : j <= i].name
    IN  IF maps # {} /\ name \in {"pcmu", "pcma", "opus"} THEN name ELSE "none"

WithoutRepetition(seq) ==
    FoldLeft(LAMBDA done, e : IF done # <<>> /\ Last(done) = e THEN done ELSE Append(done, e),
             <<>>, seq)

IsAudio(line) == line.kind = "m" /\ line.media = "audio"

(* The codecs of the first audio section. *)
ParseRemoteCodecs(lines) ==
    LET audio == SelectSeq(lines, IsAudio)
        Resolve(p) == IF CodecOf(p) # "none" THEN CodecOf(p) ELSE NameOf(lines, p)
        found == IF audio = <<>> THEN <<>>
                 ELSE [i \in DOMAIN Head(audio).payloads |-> Resolve(Head(audio).payloads[i])]
    IN  WithoutRepetition(SelectSeq(found, LAMBDA c : c # "none"))

Unread == [session |-> "none", media |-> "none", port |-> "none",
           direction |-> "sendrecv", inAudio |-> FALSE, seenMedia |-> FALSE]

(* Mutated: an address counts for the audio whatever section it is in. *)
ReadAnyConnection(state, line) ==
    CASE line.kind = "c" ->
            IF state.seenMedia THEN [state EXCEPT !.media = line.ip]
            ELSE [state EXCEPT !.session = line.ip]
      [] line.kind = "m" ->
            IF line.media = "audio"
            THEN [state EXCEPT !.seenMedia = TRUE, !.inAudio = TRUE, !.port = line.port]
            ELSE [state EXCEPT !.seenMedia = TRUE, !.inAudio = FALSE]
      [] line.kind = "direction" /\ state.inAudio -> [state EXCEPT !.direction = line.direction]
      [] OTHER -> state

ReadLine(state, line) ==
    CASE line.kind = "c" ->
            IF state.inAudio THEN [state EXCEPT !.media = line.ip]
            ELSE IF ~state.seenMedia THEN [state EXCEPT !.session = line.ip]
            ELSE state
      [] line.kind = "m" ->
            IF line.media = "audio"
            THEN [state EXCEPT !.seenMedia = TRUE, !.inAudio = TRUE, !.port = line.port]
            ELSE [state EXCEPT !.seenMedia = TRUE, !.inAudio = FALSE]
      [] line.kind = "direction" /\ state.inAudio -> [state EXCEPT !.direction = line.direction]
      [] OTHER -> state

ParseSdp(lines) ==
    LET read == FoldLeft(ReadLine, Unread, lines)
    IN  [ip |-> IF read.media # "none" THEN read.media ELSE read.session,
         port |-> read.port, direction |-> read.direction,
         codecs |-> ParseRemoteCodecs(lines)]

-----------------------------------------------------------------------------
(* Comma-separated header values, over the characters that matter to the    *)
(* code: a quote, angle brackets, a comma, and "x" for every other one.      *)

SplitFrom == [values |-> <<>>, item |-> <<>>, quoted |-> FALSE, angled |-> FALSE]

Flush(state) ==
    IF state.item = <<>> THEN state
    ELSE [state EXCEPT !.values = Append(@, state.item), !.item = <<>>]

TakeCharacter(state, char) ==
    IF char = "," /\ ~state.quoted /\ ~state.angled THEN Flush(state)
    ELSE [state EXCEPT !.item = Append(@, char),
                       !.quoted = (@ # (char = "quote")),
                       !.angled = IF state.quoted THEN @
                                  ELSE CASE char = "<" -> TRUE [] char = ">" -> FALSE
                                         [] OTHER -> @]

SplitHeaderValues(text) == Flush(FoldLeft(TakeCharacter, SplitFrom, text)).values

(* The Record-Route values of all headers of that name, in their order. *)
ExtractRecordRoutes(headers) == FlattenSeq([i \in DOMAIN headers |-> SplitHeaderValues(headers[i])])

(* The route set of a dialog: turned around by the caller of an INVITE. *)
RouteSet(role, headers) ==
    IF role = "caller" THEN Reverse(ExtractRecordRoutes(headers)) ELSE ExtractRecordRoutes(headers)

-----------------------------------------------------------------------------
(* The date of a day, counted from the first of January 1970. *)
DateOf(days) ==
    LET z == days + 719468
        era == z \div 146097
        doe == z - era * 146097
        yoe == (doe - doe \div 1460 + doe \div 36524 - doe \div 146096) \div 365
        doy == doe - (365 * yoe + yoe \div 4 - yoe \div 100)
        mp == (5 * doy + 2) \div 153
        month == IF mp < 10 THEN mp + 3 ELSE mp - 9
    IN  [year |-> yoe + era * 400 + (IF month <= 2 THEN 1 ELSE 0),
         month |-> month, day |-> doy - (153 * mp + 2) \div 5 + 1]
=============================================================================
