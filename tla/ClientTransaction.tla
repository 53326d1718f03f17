-------------------------- MODULE ClientTransaction --------------------------
(***************************************************************************)
(* The client half of the transaction layer (src/sip/transaction.rs): the  *)
(* table of active transactions, the select! loop shared by                *)
(* execute_non_invite and execute_invite, the demultiplexer                *)
(* process_incoming, and a peer reached over a lossy network.              *)
(*                                                                         *)
(* Time is counted in ticks since the running transaction was sent.  The   *)
(* loop re-creates two futures on every iteration, the retransmission      *)
(* timer and transport.try_recv(Poll); only Timer F / Timer B is pinned    *)
(* outside of it.  The runtime polls a ready task at most MaxLate ticks    *)
(* late, and select! picks any branch that is ready.                       *)
(*                                                                         *)
(* One transaction runs at a time: every caller holds the mutex around     *)
(* SipClient for the whole exchange.                                       *)
(***************************************************************************)
EXTENDS Naturals, Sequences

CONSTANTS
    Txs,            \* transactions, one per (branch, method) key
    InviteTxs,      \* those run by execute_invite
    None,           \* no transaction
    Reliable,       \* TRUE for TCP and TLS, FALSE for UDP
    Poll,           \* duration of transport.try_recv in the loop (100 ms)
    T1,             \* first retransmission interval (T1_MS)
    T2,             \* largest retransmission interval (T2_MS)
    Lifetime,       \* Timer F and Timer B (64 * T1)
    MaxLate,        \* how late the runtime polls a ready task
    PeerCSeqs,      \* numbers that INVITEs of the peer carry
    MaxResponses    \* bound on what the peer sends per transaction

ASSUME ClientTransactionAssumption ==
    /\ InviteTxs \subseteq Txs
    /\ None \notin Txs
    /\ Reliable \in BOOLEAN
    /\ {Poll, T1, T2, Lifetime} \subseteq Nat \ {0}
    /\ Poll < T1 /\ T1 <= T2
    /\ {MaxLate, MaxResponses} \subseteq Nat
    /\ PeerCSeqs \subseteq Nat

VARIABLES
    running,    \* the transaction whose execute_* loop runs, or None
    state,      \* its TransactionState
    clientTxs,  \* keys of the client_txs table
    rx,         \* its response channel
    interval,   \* timer_e_ms / timer_a_ms
    waited,     \* ticks since the current loop iteration began
    elapsed,    \* ticks since Timer F / Timer B was created
    late,       \* ticks that passed although a branch was ready
    outcome,    \* what execute_* returned, per transaction
    sends,      \* how often the request was sent
    acks,       \* ACKs the transaction layer sent
    cseq,       \* the dialog-wide CSeq counter
    cseqOf,     \* the CSeq a request was built with, 0 before
    cancels,    \* the transactions that are CANCELs
    pracks,     \* CSeqs of the PRACKs sent, in order
    toPeer,     \* requests of which a copy is on its way to the peer
    toUs,       \* responses on their way to us, with multiplicity
    peer,       \* the peer's server transaction: "idle", "trying" or its final answer
    said        \* how many responses the peer and the network produced

txVars == <<running, state, clientTxs, rx, outcome, acks, cseq, cseqOf, cancels, pracks>>
timeVars == <<interval, waited, elapsed, late>>
netVars == <<sends, toPeer, toUs, peer, said>>
vars == <<txVars, timeVars, netVars>>

Finals == {"2xx", "failure"}
Provisionals == {"1xx", "reliable1xx"}
\* "garbled": begins with "SIP/2.0 " and carries the Via and CSeq of a
\* transaction, but parse_status_code cannot read its status.
Kinds == Finals \cup Provisionals \cup {"garbled"}
Responses == [tx : Txs, kind : Kinds]
Errors == {"timeout", "sendError", "garbled"}
Outcomes == {"none"} \cup Finals \cup Errors

InitialState(t) == IF t \in InviteTxs THEN "Calling" ELSE "Trying"

Init ==
    /\ running = None
    /\ state = "Idle"
    /\ clientTxs = {}
    /\ rx = <<>>
    /\ interval = 0 /\ waited = 0 /\ elapsed = 0 /\ late = 0
    /\ outcome = [t \in Txs |-> "none"]
    /\ sends = [t \in Txs |-> 0]
    /\ acks = [t \in Txs |-> 0]
    /\ cseq = 1
    /\ cseqOf = [t \in Txs |-> 0]
    /\ cancels = {}
    /\ pracks = <<>>
    /\ toPeer = {}
    /\ toUs = [m \in Responses |-> 0]
    /\ peer = [t \in Txs |-> "idle"]
    /\ said = [t \in Txs |-> 0]
------------------------------------------------------------------------------
(* Submitting a request. *)

\* Mutant: a retry under the key of a request that has ended.
DrawCSeqAgain(t) ==
    /\ running = None
    /\ cseqOf' = [cseqOf EXCEPT ![t] = cseq]
    /\ cseq' = cseq + 1
    /\ UNCHANGED cancels

\* next_cseq: every request but a CANCEL has a number of its own.
DrawCSeq(t) ==
    /\ running = None
    /\ outcome[t] = "none"
    /\ cseqOf' = [cseqOf EXCEPT ![t] = cseq]
    /\ cseq' = cseq + 1
    /\ UNCHANGED cancels

\* cancel(): the number of the INVITE of the call, which the client sent and
\* had answered, or which the peer sent.
RepeatCSeq(t) ==
    /\ running = None
    /\ outcome[t] = "none" /\ t \notin InviteTxs
    /\ \E n \in PeerCSeqs \cup {cseqOf[i] : i \in {j \in InviteTxs : outcome[j] = "2xx"}} :
          cseqOf' = [cseqOf EXCEPT ![t] = n]
    /\ cancels' = cancels \cup {t}
    /\ UNCHANGED cseq

Numbered(t) == DrawCSeq(t) \/ RepeatCSeq(t)

\* execute_*: the key enters the table, the request is sent, the loop begins.
Submit(t) ==
    /\ Numbered(t)
    /\ running' = t
    /\ state' = InitialState(t)
    /\ clientTxs' = clientTxs \cup {t}
    /\ sends' = [sends EXCEPT ![t] = 1]
    /\ toPeer' = toPeer \cup {t}
    /\ interval' = T1
    /\ UNCHANGED <<rx, waited, elapsed, late, outcome, acks, pracks, toUs, peer, said>>

\* transport.send_to fails: the key leaves the table again.
SubmitFails(t) ==
    /\ Numbered(t)
    /\ clientTxs' = clientTxs \ {t}
    /\ outcome' = [outcome EXCEPT ![t] = "sendError"]
    /\ UNCHANGED <<running, state, rx, acks, pracks>> /\ UNCHANGED timeVars /\ UNCHANGED netVars
------------------------------------------------------------------------------
(* The branches of the select! loop. *)

\* Mutant: Timer A outlives Calling.
TimerArmedWhileProceeding == ~Reliable

\* Timer E runs for a whole non-INVITE transaction, Timer A only in Calling.
TimerArmed ==
    /\ ~Reliable
    /\ running \in InviteTxs => state = "Calling"

TimerDue == TimerArmed /\ waited >= interval

\* Mutant: Timer F and Timer B re-created by every iteration.
LifetimeRestarted == waited >= Lifetime

LifetimeDue == elapsed >= Lifetime
PollDue == waited >= Poll
Ready == rx # <<>> \/ TimerDue \/ LifetimeDue \/ PollDue

NextIteration == waited' = 0

LongerInterval ==
    CASE running \in InviteTxs -> 2 * interval
      [] running \notin InviteTxs /\ state = "Trying" ->
            IF 2 * interval <= T2 THEN 2 * interval ELSE T2
      [] OTHER -> T2

Retransmit ==
    /\ running # None
    /\ TimerDue
    /\ sends' = [sends EXCEPT ![running] = @ + 1]
    /\ toPeer' = toPeer \cup {running}
    /\ interval' = LongerInterval
    /\ NextIteration
    /\ UNCHANGED <<elapsed, late, toUs, peer, said>> /\ UNCHANGED txVars

\* execute_* returns o and its channel and timers are dropped.
Return(o) ==
    /\ outcome' = [outcome EXCEPT ![running] = o]
    /\ running' = None
    /\ state' = "Idle"
    /\ rx' = <<>>
    /\ interval' = 0 /\ waited' = 0 /\ elapsed' = 0 /\ late' = 0

\* Mutants: the timers start over; the key stays in the table.
TimeOutStartsOver ==
    /\ running # None
    /\ LifetimeDue
    /\ interval' = T1 /\ waited' = 0 /\ elapsed' = 0 /\ late' = 0
    /\ UNCHANGED txVars /\ UNCHANGED netVars

TimeOutKeepsKey ==
    /\ running # None
    /\ LifetimeDue
    /\ Return("timeout")
    /\ UNCHANGED <<clientTxs, acks, cseq, cseqOf, cancels, pracks>> /\ UNCHANGED netVars

TimeOut ==
    /\ running # None
    /\ LifetimeDue
    /\ clientTxs' = clientTxs \ {running}
    /\ Return("timeout")
    /\ UNCHANGED <<acks, cseq, cseqOf, cancels, pracks>> /\ UNCHANGED netVars

\* transport.try_recv returned None: nothing came for as long as it waits, or
\* it failed, which a closed stream does at once and every time.
PollEnds ==
    /\ running # None
    /\ PollDue \/ Reliable
    /\ NextIteration
    /\ UNCHANGED <<interval, elapsed, late>> /\ UNCHANGED txVars /\ UNCHANGED netVars

\* Mutant: a PRACK numbered like its INVITE.
PrackReusesInvite == cseqOf[running]

\* The number of a PRACK comes from the counter.
PrackCSeq == cseq

\* A 1xx; the INVITE loop answers a reliable one with a PRACK of its own CSeq.
TakeProvisional ==
    /\ running # None /\ rx # <<>>
    /\ Head(rx).kind \in Provisionals
    /\ rx' = Tail(rx)
    /\ state' = "Proceeding"
    /\ IF running \in InviteTxs
          THEN UNCHANGED interval
          ELSE interval' = T2
    /\ IF running \in InviteTxs /\ Head(rx).kind = "reliable1xx"
          THEN pracks' = Append(pracks, PrackCSeq) /\ cseq' = cseq + 1
          ELSE UNCHANGED <<pracks, cseq>>
    /\ NextIteration
    /\ UNCHANGED <<running, clientTxs, outcome, acks, cseqOf, cancels, elapsed, late>> /\ UNCHANGED netVars

\* Mutant: the 2xx is acknowledged as well.
AckEveryFinal(k) == running \in InviteTxs

NeedsAck(k) == running \in InviteTxs /\ k = "failure"

\* Mutant: a reliable provisional response counts as final.
FinalsAndReliable1xx == Finals \cup {"reliable1xx"}

\* The status codes that end a transaction.
Ending == Finals

\* The INVITE loop acknowledges a failure; the ACK of a 2xx is the dialog's.
TakeFinal ==
    /\ running # None /\ rx # <<>>
    /\ Head(rx).kind \in Ending
    /\ clientTxs' = clientTxs \ {running}
    /\ IF NeedsAck(Head(rx).kind)
          THEN acks' = [acks EXCEPT ![running] = @ + 1]
          ELSE UNCHANGED acks
    /\ Return(Head(rx).kind)
    /\ UNCHANGED <<cseq, cseqOf, cancels, pracks>> /\ UNCHANGED netVars

\* parse_status_code(..)? returns at once, and the key stays in the table.
TakeGarbled ==
    /\ running # None /\ rx # <<>>
    /\ Head(rx).kind = "garbled"
    /\ Return("garbled")
    /\ UNCHANGED <<clientTxs, acks, cseq, cseqOf, cancels, pracks>> /\ UNCHANGED netVars

\* Mutant: the first packet that arrives is the answer.
MatchesAnything(m) == running # None

\* The key of a response is its Via branch and CSeq method.
Matches(m) == m.tx \in clientTxs /\ m.tx = running

\* process_incoming on a response, called from the loop or, while no
\* transaction runs, from the watcher's try_recv.  A key left in the table
\* leads to a closed channel; an unknown key is only logged.
Receive(m) ==
    /\ toUs[m] > 0
    /\ toUs' = [toUs EXCEPT ![m] = @ - 1]
    /\ IF Matches(m)
          THEN rx' = Append(rx, m)
          ELSE UNCHANGED rx
    /\ NextIteration
    /\ UNCHANGED <<running, state, clientTxs, outcome, acks, cseq, cseqOf, cancels, pracks,
                   interval, elapsed, late, sends, toPeer, peer, said>>

Tick ==
    /\ running # None
    /\ ~Ready \/ late < MaxLate
    /\ waited' = waited + 1
    /\ elapsed' = elapsed + 1
    /\ late' = IF Ready THEN late + 1 ELSE 0
    /\ UNCHANGED interval /\ UNCHANGED txVars /\ UNCHANGED netVars
------------------------------------------------------------------------------
(* The peer and the network. *)

PeerSends(t, k) ==
    /\ said[t] < MaxResponses
    /\ said' = [said EXCEPT ![t] = @ + 1]
    /\ toUs' = [toUs EXCEPT ![[tx |-> t, kind |-> k]] = @ + 1]

PeerReceives(t) ==
    /\ t \in toPeer
    /\ toPeer' = toPeer \ {t}
    /\ peer' = [peer EXCEPT ![t] = IF @ = "idle" THEN "trying" ELSE @]
    /\ UNCHANGED <<sends, toUs, said>> /\ UNCHANGED txVars /\ UNCHANGED timeVars

PeerIsBusy(t) ==
    /\ peer[t] = "trying"
    /\ \E k \in Provisionals \cup {"garbled"} : PeerSends(t, k)
    /\ UNCHANGED <<sends, toPeer, peer>> /\ UNCHANGED txVars /\ UNCHANGED timeVars

PeerAnswers(t, k) ==
    /\ peer[t] = "trying"
    /\ peer' = [peer EXCEPT ![t] = k]
    /\ PeerSends(t, k)
    /\ UNCHANGED <<sends, toPeer>> /\ UNCHANGED txVars /\ UNCHANGED timeVars

\* A retransmission of the final answer, or a copy the network made of it.
PeerRepeats(t) ==
    /\ peer[t] \in Finals
    /\ PeerSends(t, peer[t])
    /\ UNCHANGED <<sends, toPeer, peer>> /\ UNCHANGED txVars /\ UNCHANGED timeVars

LoseRequest(t) ==
    /\ ~Reliable /\ t \in toPeer
    /\ toPeer' = toPeer \ {t}
    /\ UNCHANGED <<sends, toUs, peer, said>> /\ UNCHANGED txVars /\ UNCHANGED timeVars

LoseResponse(m) ==
    /\ ~Reliable /\ toUs[m] > 0
    /\ toUs' = [toUs EXCEPT ![m] = @ - 1]
    /\ UNCHANGED <<sends, toPeer, peer, said>> /\ UNCHANGED txVars /\ UNCHANGED timeVars
------------------------------------------------------------------------------
Loop ==
    \/ Retransmit
    \/ TimeOut
    \/ PollEnds
    \/ TakeProvisional
    \/ TakeFinal
    \/ TakeGarbled

Client == \E t \in Txs : Submit(t) \/ SubmitFails(t)

Environment ==
    \/ \E t \in Txs :
          \/ PeerReceives(t)
          \/ PeerIsBusy(t)
          \/ \E k \in Finals : PeerAnswers(t, k)
          \/ PeerRepeats(t)
          \/ LoseRequest(t)
    \/ \E m \in Responses : LoseResponse(m)

Next ==
    \/ Client
    \/ Loop
    \/ Tick
    \/ \E m \in Responses : Receive(m)
    \/ Environment

Spec == Init /\ [][Next]_vars

\* The runtime keeps polling the task and the clock keeps advancing; nothing
\* is assumed of the peer, the network or the callers.
FairSpec == Spec /\ WF_vars(Loop) /\ WF_vars(Tick)
------------------------------------------------------------------------------
(* Properties. *)

TypeTx ==
    /\ running \in Txs \cup {None}
    /\ state \in {"Idle", "Calling", "Trying", "Proceeding"}
    /\ clientTxs \subseteq Txs
    /\ rx \in Seq(Responses)
    /\ outcome \in [Txs -> Outcomes]
    /\ acks \in [Txs -> Nat]
    /\ cseq \in Nat /\ cseqOf \in [Txs -> Nat] /\ cancels \subseteq Txs
    /\ pracks \in Seq(Nat)

TypeTime ==
    /\ interval \in Nat /\ elapsed \in Nat
    /\ waited \in 0 .. Poll + MaxLate
    /\ late \in 0 .. MaxLate

TypeNet ==
    /\ sends \in [Txs -> Nat]
    /\ toPeer \subseteq Txs
    /\ toUs \in [Responses -> Nat]
    /\ peer \in [Txs -> {"idle", "trying"} \cup Finals]
    /\ said \in [Txs -> 0 .. MaxResponses]

\* Types, and the loop never waits longer than one try_recv plus the lateness
\* of the runtime before it looks at its branches again.
TypeOK == TypeTx /\ TypeTime /\ TypeNet

\* Demultiplexing: an answer handed to a caller is the answer the peer gave to
\* that very request, however responses are delayed, repeated or reordered.
AnswersMatch ==
    \A t \in Txs : outcome[t] \in Finals => peer[t] = outcome[t]

\* The table holds only the running transaction and those whose status line
\* could not be parsed.
NoStaleKeys ==
    clientTxs \subseteq {running} \cup {t \in Txs : outcome[t] = "garbled"}

\* A refused INVITE is acknowledged exactly once by this layer, and nothing
\* else is.
FailureAcked ==
    \A t \in Txs :
        acks[t] = IF t \in InviteTxs /\ outcome[t] = "failure" THEN 1 ELSE 0

\* No two requests of the client share a CSeq, PRACKs sent from inside an
\* INVITE transaction included. A CANCEL is no request in this sense: it has the
\* number of the INVITE it cancels, which may be one that the peer chose.
FreshCSeqs ==
    /\ \A t, u \in Txs \ cancels : cseqOf[t] = cseqOf[u] /\ cseqOf[t] # 0 => t = u
    /\ \A i, j \in DOMAIN pracks : pracks[i] = pracks[j] => i = j
    /\ \A i \in DOMAIN pracks, t \in Txs \ cancels : pracks[i] # cseqOf[t]

\* A caller is blocked, with the client mutex held, for at most Timer F.
BoundedWait == elapsed <= Lifetime + MaxLate

\* Once the peer has shown it has the INVITE, the INVITE is not repeated.
QuietAfterProvisional ==
    [][\A t \in InviteTxs :
          sends'[t] > sends[t] => state = "Calling" \/ running # t]_vars

\* Every submitted request comes to an end, whatever the peer and the network do.
EveryRequestEnds == \A t \in Txs : running = t ~> running # t

\* The layer implements RequestResponse.
RR == INSTANCE RequestResponse WITH
    Answers <- Finals,
    status <- [t \in Txs |-> IF running = t THEN "pending"
                             ELSE IF outcome[t] = "none" THEN "new" ELSE outcome[t]],
    decision <- [t \in Txs |-> IF peer[t] \in Finals THEN peer[t] ELSE "none"]

ImplementsRequestResponse == RR!Spec

\* transaction.rs on execute_non_invite: over UDP a request "Retransmits with
\* Timer E (500ms, doubling up to 4s)": one that is given up after 64 * T1 must
\* have been sent more than once.
RetransmittedBeforeGivingUp ==
    \A t \in Txs : ~Reliable /\ outcome[t] = "timeout" => sends[t] > 1
==============================================================================
