----------------------------- MODULE LogBuffers -----------------------------
(***************************************************************************)
(* The logger (service/logger.rs): each line goes into the ring of recent  *)
(* lines that the dashboard shows and then, under another lock, to the     *)
(* syslog server. Any thread logs. Over TCP the sender keeps a connection; *)
(* when a write fails it connects again and sends the line once more.      *)
(***************************************************************************)
EXTENDS Naturals, Sequences, SequencesExt

CONSTANTS Threads,
          MaxLines,     \* bounds the lines logged
          RingSize      \* 200 lines; 100 traces and 50 calls are kept likewise

ASSUME LogAssumption == MaxLines \in Nat /\ RingSize \in Nat \ {0}

VARIABLES protocol,     \* of the syslog server
          lines,        \* the number of lines logged
          ring,         \* the recent lines
          logged,       \* all lines, in the order in which they went into it
          forwarding,   \* the line each thread has yet to forward, 0: none
          stream,       \* the sender's connection
          onTheWire,    \* what was written to it and has not arrived
          arrived       \* what the syslog server has

logVars == <<protocol, lines, ring, logged, forwarding, stream, onTheWire, arrived>>

LogTypeOK ==
    /\ protocol \in {"tcp", "datagram"}
    /\ Len(ring) <= RingSize
    /\ forwarding \in [Threads -> 0 .. MaxLines]
    /\ stream \in {"none", "up", "broken"}
    /\ onTheWire \in Seq(1 .. MaxLines) /\ (stream # "up" => onTheWire = <<>>)

LogInit ==
    /\ protocol \in {"tcp", "datagram"}
    /\ lines = 0 /\ ring = <<>> /\ logged = <<>>
    /\ forwarding = [t \in Threads |-> 0]
    /\ stream = "none" /\ onTheWire = <<>> /\ arrived = <<>>

(* Mutated: the oldest goes before the newest comes, and once too often. *)
PushShort(buf, line) ==
    IF Len(buf) + 1 >= RingSize THEN Append(Tail(buf), line) ELSE Append(buf, line)

(* Every ring: the newest comes, then the oldest goes if it is too long. *)
Push(buf, line) ==
    LET more == Append(buf, line) IN IF Len(more) > RingSize THEN Tail(more) ELSE more

Log(t) ==
    /\ forwarding[t] = 0 /\ lines < MaxLines
    /\ lines' = lines + 1
    /\ ring' = Push(ring, lines + 1)
    /\ logged' = Append(logged, lines + 1)
    /\ forwarding' = [forwarding EXCEPT ![t] = lines + 1]
    /\ UNCHANGED <<protocol, stream, onTheWire, arrived>>

(* A new connection carries the line again, or there is none and the line   *)
(* is lost. A write that fails leaves nothing of the old connection.        *)
Reconnect(line) ==
    \/ stream' = "up" /\ onTheWire' = <<line>>
    \/ stream' = "none" /\ onTheWire' = <<>>

(* A broken connection takes the line and loses it, until it is noticed. *)
WriteTcp(line) ==
    \/ stream = "up" /\ onTheWire' = Append(onTheWire, line) /\ UNCHANGED stream
    \/ stream = "broken" /\ UNCHANGED <<stream, onTheWire>>
    \/ stream \in {"none", "broken"} /\ Reconnect(line)

(* SyslogSender::send, under its lock. A datagram arrives or does not. *)
Forward(t) ==
    LET line == forwarding[t]
    IN  /\ line # 0
        /\ forwarding' = [forwarding EXCEPT ![t] = 0]
        /\ IF protocol = "tcp" THEN WriteTcp(line) /\ UNCHANGED arrived
           ELSE /\ arrived' \in {arrived, Append(arrived, line)}
                /\ UNCHANGED <<stream, onTheWire>>
        /\ UNCHANGED <<protocol, lines, ring, logged>>

(* configure_syslog: a new sender, without a connection; what the old one's *)
(* connection carries still arrives.                                        *)
Configure ==
    /\ stream # "none"
    /\ stream' = "none"
    /\ arrived' = arrived \o onTheWire
    /\ onTheWire' = <<>>
    /\ UNCHANGED <<protocol, lines, ring, logged, forwarding>>

Arrive ==
    /\ onTheWire # <<>>
    /\ arrived' = Append(arrived, Head(onTheWire))
    /\ onTheWire' = Tail(onTheWire)
    /\ UNCHANGED <<protocol, lines, ring, logged, forwarding, stream>>

(* The syslog server goes, with what it has not read. *)
Break ==
    /\ stream = "up"
    /\ stream' = "broken"
    /\ onTheWire' = <<>>
    /\ UNCHANGED <<protocol, lines, ring, logged, forwarding, arrived>>

LogNext == Configure \/ Arrive \/ Break \/ \E t \in Threads : Log(t) \/ Forward(t)

LogSpec == LogInit /\ [][LogNext]_logVars

-----------------------------------------------------------------------------
(* The dashboard shows the latest lines, as many as there is room for. *)
RingIsRecent ==
    /\ ring = SubSeq(logged, Len(logged) - Len(ring) + 1, Len(logged))
    /\ (Len(ring) < RingSize => ring = logged)

(* A line reaches the syslog server at most once, reconnecting or not. *)
NoLineTwice ==
    \A i, j \in DOMAIN arrived : arrived[i] = arrived[j] => i = j

(* The lines that are kept and forwarded are the lines that were logged. *)
LogIsFaithful == LogTypeOK /\ RingIsRecent /\ NoLineTwice
=============================================================================
