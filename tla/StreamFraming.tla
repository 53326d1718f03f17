--------------------------- MODULE StreamFraming ----------------------------
(***************************************************************************)
(* How messages are cut out of a TCP or TLS stream (sip/transport.rs,      *)
(* transport/tcp.rs, transport/tls.rs). The peer writes messages and, in   *)
(* between, keep-alives of CRLFs; they arrive in pieces of any size. Every *)
(* read of a message starts with what earlier reads left in the buffer,    *)
(* and a read that times out leaves there what it had.                     *)
(*                                                                         *)
(* A byte is <<m, i>>, the i-th of message m; a message's first Header(m)  *)
(* bytes are its header, the last of which ends the empty line. A          *)
(* keep-alive is CRLF CRLF, which would end a header, and has the number   *)
(* 0. One task reads at a time: it has the client's mutex.                 *)
(***************************************************************************)
EXTENDS Naturals, Sequences, SequencesExt

CONSTANTS LastMessage,   \* the messages the peer writes are 1 .. LastMessage
          Body           \* Body[m]: the length of m's body

Messages == 1 .. LastMessage

ASSUME FramingAssumption == LastMessage \in Nat /\ Body \in [Messages -> Nat]

VARIABLES written,     \* the last message the peer wrote
          garbled,     \* the messages whose header is not valid UTF-8
          wire,        \* what the peer wrote and has not arrived
          closed,      \* the peer closed the connection
          readBuf,     \* read_buf
          received     \* what was handed to the transaction layer, in order

streamVars == <<written, garbled, wire, closed, readBuf, received>>

HeaderSize == 2
KeepAlive == <<<<0, 0>>>>
Size(m) == HeaderSize + Body[m]
Whole(m) == [i \in 1 .. Size(m) |-> <<m, i>>]
IsCrlf(byte) == byte[1] = 0
StreamByte == {<<0, 0>>} \cup UNION {{<<m, i>> : i \in 1 .. Size(m)} : m \in Messages}

FramingTypeOK ==
    /\ written \in 0 .. LastMessage /\ garbled \subseteq 1 .. written /\ closed \in BOOLEAN
    /\ wire \in Seq(StreamByte) /\ readBuf \in Seq(StreamByte)
    /\ received \in Seq(Seq(StreamByte) \ {<<>>})

FramingInit ==
    /\ written = 0 /\ garbled = {} /\ wire = <<>> /\ closed = FALSE
    /\ readBuf = <<>> /\ received = <<>>

(* The peer writes its next message, in UTF-8 or not, after a pause with    *)
(* any keep-alives.                                                         *)
PeerWrites ==
    /\ ~closed /\ written < LastMessage
    /\ written' = written + 1
    /\ \E idle \in {<<>>, KeepAlive, KeepAlive \o KeepAlive} :
          wire' = wire \o (idle \o Whole(written + 1))
    /\ garbled' \in {garbled, garbled \cup {written + 1}}
    /\ UNCHANGED <<closed, readBuf, received>>

(* Mutated: keep-alives stay. *)
KeepLeading(buf) == buf

(* Leading CRLFs go. *)
SkipLeading(buf) ==
    IF \A i \in DOMAIN buf : IsCrlf(buf[i]) THEN <<>>
    ELSE LET first == CHOOSE i \in DOMAIN buf :
                          ~IsCrlf(buf[i]) /\ \A j \in 1 .. i - 1 : IsCrlf(buf[j])
         IN  SubSeq(buf, first, Len(buf))

(* The length of the header at the front of the buffer, 0 if it is not all  *)
(* there, and of the message, by its Content-Length.                        *)
HeaderEnd(buf) ==
    IF \E i \in DOMAIN buf : IsCrlf(buf[i]) \/ buf[i][2] = HeaderSize
    THEN CHOOSE i \in DOMAIN buf :
             /\ IsCrlf(buf[i]) \/ buf[i][2] = HeaderSize
             /\ \A j \in 1 .. i - 1 : ~IsCrlf(buf[j]) /\ buf[j][2] # HeaderSize
    ELSE 0

ContentLength(buf) == IF IsCrlf(buf[1]) THEN 0 ELSE Body[buf[1][1]]

(* extract_sip_message: how much of the buffer is a message, 0 for none. A  *)
(* header that is not UTF-8 is never one.                                   *)
Complete(buf) ==
    IF buf = <<>> \/ HeaderEnd(buf) = 0 \/ buf[1][1] \in garbled THEN 0
    ELSE LET total == HeaderEnd(buf) + ContentLength(buf)
         IN  IF Len(buf) >= total THEN total ELSE 0

(* A message is there: the read returns it and the rest stays. *)
Extract ==
    LET buf == SkipLeading(readBuf)
    IN  /\ Complete(buf) > 0
        /\ received' = Append(received, SubSeq(buf, 1, Complete(buf)))
        /\ readBuf' = SubSeq(buf, Complete(buf) + 1, Len(buf))
        /\ UNCHANGED <<written, garbled, wire, closed>>

(* None is: the next piece is added to what is there. Beyond the limit the  *)
(* read fails as one that times out does, and the next one goes on.         *)
ReadMore ==
    /\ Complete(SkipLeading(readBuf)) = 0
    /\ ~closed
    /\ \E n \in 1 .. Len(wire) :
          /\ readBuf' = SkipLeading(readBuf) \o SubSeq(wire, 1, n)
          /\ wire' = SubSeq(wire, n + 1, Len(wire))
    /\ UNCHANGED <<written, garbled, closed, received>>

(* At the end of the stream what is left is returned as a message, once. *)
ReadEnd ==
    /\ Complete(SkipLeading(readBuf)) = 0
    /\ closed /\ SkipLeading(readBuf) # <<>>
    /\ received' = Append(received, SkipLeading(readBuf))
    /\ readBuf' = <<>>
    /\ UNCHANGED <<written, garbled, wire, closed>>

PeerCloses ==
    /\ ~closed
    /\ closed' = TRUE
    /\ UNCHANGED <<written, garbled, wire, readBuf, received>>

FramingNext == PeerWrites \/ Extract \/ ReadMore \/ ReadEnd \/ PeerCloses

FramingSpec == FramingInit /\ [][FramingNext]_streamVars

-----------------------------------------------------------------------------
(* No message before this one, nor this one, blocks the buffer. *)
Readable(m) == \A j \in 1 .. m : j \notin garbled

(* However the bytes are cut into pieces, what is received are the messages *)
(* as they were written, in order, each once; only what the end of the      *)
(* stream left comes in pieces. Nothing is promised after a header that is  *)
(* no text, which blocks the buffer until the peer closes.                  *)
ReceivedAsWritten ==
    \A i \in DOMAIN received : Readable(i) =>
        \/ received[i] = Whole(i)
        \/ closed /\ i = Len(received) /\ IsPrefix(received[i], Whole(i))

(* What of the peer's messages `first' to `last' is in these bytes: each is  *)
(* there in one piece, and one comes after the other.                       *)
LiesAt(bytes, m, k) ==
    k + Size(m) <= Len(bytes) /\ \A i \in 1 .. Size(m) : bytes[k + i] = <<m, i>>
WrittenBefore(a, b) == a[1] < b[1] \/ (a[1] = b[1] /\ a[2] < b[2])
InOrder(bytes, first, last) ==
    /\ \A m \in first .. last : \E k \in 0 .. Len(bytes) : LiesAt(bytes, m, k)
    /\ \A i \in DOMAIN bytes : IsCrlf(bytes[i]) \/ bytes[i][1] \in first .. last
    /\ \A j \in DOMAIN bytes : \A i \in 1 .. j - 1 :
          IsCrlf(bytes[i]) \/ IsCrlf(bytes[j]) \/ WrittenBefore(bytes[i], bytes[j])

(* No byte of a message is lost or moved: the buffer and the wire hold the   *)
(* messages after those that were received whole. At the end of the stream   *)
(* the last thing received is what was in the buffer.                       *)
NothingIsSkipped ==
    LET last == Len(received)
    IN  /\ last <= written
        /\ \/ /\ \A i \in 1 .. last : received[i] = Whole(i)
              /\ InOrder(readBuf \o wire, last + 1, written)
           \/ /\ closed /\ readBuf = <<>> /\ last > 0
              /\ \A i \in 1 .. last - 1 : received[i] = Whole(i)
              /\ InOrder(received[last] \o wire, last, written)

(* A message that nothing blocks arrives, unless the peer closes. *)
EveryMessageArrives ==
    \A m \in Messages : written >= m /\ Readable(m) ~> Len(received) >= m \/ closed

(* The bytes of the stream become the messages that were written. *)
FramingIsFaithful == FramingTypeOK /\ ReceivedAsWritten /\ NothingIsSkipped
=============================================================================
