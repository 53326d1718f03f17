---------------------------- MODULE MediaStream -----------------------------
(***************************************************************************)
(* The RTP of one call, from the program at one end to the program at the  *)
(* other (rtp/receiver.rs): the outgoing stream, whose mutex keeps a key's *)
(* packets together, a network that loses and repeats packets, and the     *)
(* receive loop, which accepts the first source it hears and tells one key *)
(* from the next by its timestamp.                                         *)
(*                                                                         *)
(* The clock counts packets of 20 ms from the stream's random start; its   *)
(* 32 bits outlast any call. The network keeps the order of packets: one   *)
(* that is delayed past the next key, 160 ms later, would be heard as      *)
(* another key, because only the last timestamp is remembered.             *)
(***************************************************************************)
EXTENDS Naturals, Sequences, SequencesExt

CONSTANTS MaxTyped,      \* bounds the keys a user presses
          MaxAudio,      \* bounds the packets of audio
          MaxLost,       \* bounds the packets the network loses
          MaxRepeated,   \* bounds the packets it delivers once more
          MaxInFlight,   \* bounds the packets on their way
          MaxStray,      \* bounds the packets of another source
          MaxBuffered    \* MAX_DTMF_BUFFERED

ASSUME MediaAssumption == MaxTyped \in Nat /\ MaxBuffered \in Nat \ {0}

VARIABLES typed,         \* the keys the user pressed: 1 .. typed
          clock,         \* tx.timestamp
          step,          \* of the key being sent, 0: the mutex is free
          net,           \* the packets on their way
          faults,        \* what the network and the other source did so far
          peer,          \* the source the receive loop latched to
          lastEvent,     \* last_dtmf_timestamp, 0: none
          listening,     \* the receive loop runs
          digits,        \* dtmf_buffer
          pushed,        \* every key the loop accepted
          taken          \* how many of them were there when digits was taken

mediaVars == <<typed, clock, step, net, faults, peer, lastEvent, listening, digits, pushed, taken>>

Packet == [kind : {"audio", "event", "end"}, from : {"peer", "stray"},
           key : 0 .. MaxTyped, ts : Nat]

MediaTypeOK ==
    /\ typed \in 0 .. MaxTyped /\ step \in 0 .. 6
    /\ clock \in Nat /\ lastEvent \in Nat
    /\ net \in Seq(Packet)
    /\ peer \in {"none", "peer", "stray"} /\ listening \in BOOLEAN
    /\ Len(digits) <= MaxBuffered
    /\ taken \in 0 .. Len(pushed)

MediaInit ==
    /\ typed = 0 /\ clock = 1 /\ step = 0
    /\ net = <<>>
    /\ faults = [lost |-> 0, repeated |-> 0, stray |-> 0, audio |-> 0]
    /\ peer = "none" /\ lastEvent = 0 /\ listening = TRUE
    /\ digits = <<>> /\ pushed = <<>> /\ taken = 0

receiver == <<peer, lastEvent, listening, digits, pushed, taken>>

Send(kind, key) ==
    /\ Len(net) < MaxInFlight
    /\ net' = Append(net, [kind |-> kind, from |-> "peer", key |-> key, ts |-> clock])

(* send_dtmf: the keys of one request follow each other, and requests take  *)
(* the client's mutex. send_dtmf_digit takes the stream's.                  *)
TypeKey ==
    /\ step = 0 /\ typed < MaxTyped
    /\ typed' = typed + 1
    /\ step' = 1
    /\ UNCHANGED <<clock, net, faults, receiver>>

(* Three updates and three end packets, all with the timestamp at which the *)
(* key began; then the clock moves past the key and the gap after it.       *)
SendKey ==
    /\ step > 0
    /\ Send(IF step <= 3 THEN "event" ELSE "end", typed)
    /\ IF step < 6 THEN step' = step + 1 /\ UNCHANGED clock
       ELSE step' = 0 /\ clock' = clock + 8
    /\ UNCHANGED <<typed, faults, receiver>>

(* Samples of the microphone or of an in-band tone. *)
SendAudio ==
    /\ step = 0 /\ faults.audio < MaxAudio
    /\ Send("audio", 0)
    /\ clock' = clock + 1
    /\ faults' = [faults EXCEPT !.audio = @ + 1]
    /\ UNCHANGED <<typed, step, receiver>>

(* The network loses the next packet, or delivers it once more. *)
Lose ==
    /\ net # <<>> /\ faults.lost < MaxLost
    /\ net' = Tail(net)
    /\ faults' = [faults EXCEPT !.lost = @ + 1]
    /\ UNCHANGED <<typed, clock, step, receiver>>

Repeat ==
    /\ net # <<>> /\ faults.repeated < MaxRepeated
    /\ net' = <<Head(net)>> \o net
    /\ faults' = [faults EXCEPT !.repeated = @ + 1]
    /\ UNCHANGED <<typed, clock, step, receiver>>

(* Another source that reaches the port, with a key of its own. *)
Stray ==
    /\ faults.stray < MaxStray
    /\ net' = <<[kind |-> "end", from |-> "stray", key |-> 0, ts |-> 1]>> \o net
    /\ faults' = [faults EXCEPT !.stray = @ + 1]
    /\ UNCHANGED <<typed, clock, step, receiver>>

(* The oldest key gives way when the buffer is full. *)
Buffer(key) == IF Len(digits) >= MaxBuffered THEN Append(Tail(digits), key)
               ELSE Append(digits, key)

(* Mutated: a key counts each time its end is seen. *)
AcceptsEvery(p) == p.kind = "end"

(* Mutated: a key that follows the last one closely is taken for it. *)
AcceptsApart(p) == p.kind = "end" /\ p.ts > lastEvent + 8

(* The key counts when its end is seen, once. *)
Accepts(p) == p.kind = "end" /\ p.ts # lastEvent

(* Mutated: the source is not remembered. *)
LatchNever(p) == UNCHANGED peer

(* The first source heard owns the session. *)
Latch(p) == peer' = IF peer = "none" THEN p.from ELSE peer

(* One turn of the receive loop. *)
Receive ==
    /\ listening /\ net # <<>>
    /\ net' = Tail(net)
    /\ LET p == Head(net)
       IN  /\ Latch(p)
           /\ IF peer \in {"none", p.from} /\ Accepts(p)
              THEN /\ lastEvent' = p.ts
                   /\ digits' = Buffer(p.key)
                   /\ pushed' = Append(pushed, p.key)
              ELSE UNCHANGED <<lastEvent, digits, pushed>>
    /\ UNCHANGED <<typed, clock, step, faults, listening, taken>>

(* take_dtmf: the session takes what is there. *)
Take ==
    /\ digits # <<>>
    /\ digits' = <<>>
    /\ taken' = Len(pushed)
    /\ UNCHANGED <<typed, clock, step, net, faults, peer, lastEvent, listening, pushed>>

(* The loop ends with the call, or when its socket reports an error. *)
Deafen ==
    /\ listening
    /\ listening' = FALSE
    /\ UNCHANGED <<typed, clock, step, net, faults, peer, lastEvent, digits, pushed, taken>>

MediaNext == \/ TypeKey \/ SendKey \/ SendAudio \/ Lose \/ Repeat \/ Stray
             \/ Receive \/ Take \/ Deafen

-----------------------------------------------------------------------------
(* Each key is heard once, in order, whatever the network loses or repeats. *)
(* The keys of another source, when it owns the session, are not the user's. *)
Line == INSTANCE DigitLine WITH heard <- IF peer = "stray" THEN <<>> ELSE pushed
ImplementsDigitLine == Line!LineSpec

(* Only one end is heard during a call: the keys of another source are      *)
(* heard only if it was the first, and then the peer's are not.             *)
OneSpeaker == \A i \in DOMAIN pushed : pushed[i] = 0 <=> peer = "stray"

(* What waits for the session are the latest of the keys it has not taken,  *)
(* as many as there is room for.                                            *)
BufferIsRecent ==
    LET waiting == SubSeq(pushed, taken + 1, Len(pushed))
        kept == IF Len(waiting) > MaxBuffered THEN MaxBuffered ELSE Len(waiting)
    IN  digits = SubSeq(waiting, Len(waiting) - kept + 1, Len(waiting))

(* "The end packet is sent three times for robustness against loss": when   *)
(* fewer than three packets are lost every key is heard, unless the loop    *)
(* belongs to somebody else or is over.                                     *)
EveryKeyIsHeard ==
    \A key \in 1 .. MaxTyped :
        typed >= key ~> key \in Range(pushed) \/ peer = "stray" \/ ~listening

(* What the receive loop has accepted, from whom, and what waits. *)
OnlyItsPeersKeys == MediaTypeOK /\ OneSpeaker /\ BufferIsRecent
=============================================================================
