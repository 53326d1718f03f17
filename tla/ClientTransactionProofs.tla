----------------------- MODULE ClientTransactionProofs -----------------------
(***************************************************************************)
(* Proofs about ClientTransaction for every set of transactions, every     *)
(* value of the timers and every lateness of the runtime.                  *)
(***************************************************************************)
EXTENDS ClientTransaction, SequenceTheorems, TLAPS

\* While the loop is late it is late for the branch that is overdue.
Punctual ==
    /\ waited <= Poll + late
    /\ elapsed <= Lifetime + late

\* The channel belongs to the running transaction, which has not returned.
Channel ==
    /\ running = None => rx = <<>>
    /\ running # None => outcome[running] = "none"
    /\ \A i \in 1 .. Len(rx) : rx[i].tx = running

\* Every final answer under way is the one the peer decided on.
Honest ==
    /\ \A m \in Responses : toUs[m] > 0 /\ m.kind \in Finals => peer[m.tx] = m.kind
    /\ \A i \in 1 .. Len(rx) : rx[i].kind \in Finals => peer[rx[i].tx] = rx[i].kind

\* The peer only hears of requests that were submitted.
Heard ==
    \A t \in Txs : t \in toPeer \/ peer[t] # "idle" => t = running \/ outcome[t] # "none"

IInv == TypeOK /\ Punctual /\ Channel /\ Honest /\ Heard /\ AnswersMatch

LEMMA InitIInv == Init => IInv
BY ClientTransactionAssumption
   DEF Init, IInv, TypeOK, TypeTx, TypeTime, TypeNet, Punctual, Channel, Honest, Heard, AnswersMatch,
       Responses, Kinds, Finals, Provisionals, Outcomes, Errors

\* What the steps that shorten the response channel do to it.
LEMMA ChannelHead ==
  ASSUME TypeTx, rx # <<>>
  PROVE  /\ Head(rx) \in Responses
         /\ Tail(rx) \in Seq(Responses)
         /\ Head(rx) = rx[1] /\ 1 \in 1 .. Len(rx)
         /\ Len(Tail(rx)) = Len(rx) - 1
         /\ \A i \in 1 .. Len(Tail(rx)) : Tail(rx)[i] = rx[i + 1] /\ i + 1 \in 1 .. Len(rx)
BY HeadTailProperties DEF TypeTx

\* What a request's number is drawn from, or repeats.
LEMMA NumberedTypes ==
  ASSUME TypeTx, NEW t \in Txs, Numbered(t)
  PROVE  /\ running = None /\ outcome[t] = "none"
         /\ cseq' \in Nat /\ cseqOf' \in [Txs -> Nat] /\ cancels' \subseteq Txs
<1> USE ClientTransactionAssumption
<1>1. CASE DrawCSeq(t)
  BY <1>1 DEF DrawCSeq, TypeTx
<1>2. CASE RepeatCSeq(t)
  <2>1. PICK n \in PeerCSeqs \cup {cseqOf[i] : i \in {j \in InviteTxs : outcome[j] = "2xx"}} :
           cseqOf' = [cseqOf EXCEPT ![t] = n]
    BY <1>2 DEF RepeatCSeq
  <2>2. n \in Nat
    BY <2>1 DEF TypeTx
  <2> QED BY <1>2, <2>1, <2>2 DEF RepeatCSeq, TypeTx
<1> QED BY <1>1, <1>2 DEF Numbered

LEMMA TypeTxStep == TypeTx /\ [Next]_vars => TypeTx'
<1> SUFFICES ASSUME TypeTx, [Next]_vars PROVE TypeTx'
    OBVIOUS
<1> USE ClientTransactionAssumption
<1>1. ASSUME NEW t \in Txs, Submit(t) PROVE TypeTx'
  BY <1>1, NumberedTypes DEF TypeTx, Submit, InitialState
<1>2. ASSUME NEW t \in Txs, SubmitFails(t) PROVE TypeTx'
  BY <1>2, NumberedTypes DEF TypeTx, SubmitFails, Outcomes, Errors
<1>3. ASSUME running # None, NEW o \in Outcomes, Return(o), clientTxs' \subseteq Txs,
             acks' \in [Txs -> Nat], UNCHANGED <<cseq, cseqOf, cancels, pracks>>
      PROVE  TypeTx'
  BY <1>3 DEF TypeTx, Return
<1>4. CASE TimeOut
  BY <1>3, <1>4 DEF TypeTx, TimeOut, Outcomes, Errors
<1>5. CASE TakeGarbled
  BY <1>3, <1>5 DEF TypeTx, TakeGarbled, Outcomes, Errors
<1>6. CASE TakeFinal
  <2>1. Head(rx).kind \in Outcomes
    BY <1>6 DEF TakeFinal, Ending, Outcomes
  <2>2. clientTxs' \subseteq Txs /\ acks' \in [Txs -> Nat]
    <3>1. \/ acks' = [acks EXCEPT ![running] = @ + 1]
          \/ acks' = acks
      BY <1>6 DEF TakeFinal
    <3>2. clientTxs' = clientTxs \ {running} /\ running # None
      BY <1>6 DEF TakeFinal
    <3> QED BY <3>1, <3>2 DEF TypeTx
  <2>3. Return(Head(rx).kind) /\ running # None /\ UNCHANGED <<cseq, cseqOf, cancels, pracks>>
    BY <1>6 DEF TakeFinal
  <2> QED BY <1>3, <2>1, <2>2, <2>3
<1>7. CASE TakeProvisional
  <2>1. rx' \in Seq(Responses)
    BY <1>7, ChannelHead DEF TakeProvisional
  <2>2. pracks \in Seq(Nat) /\ cseq \in Nat /\ cseq + 1 \in Nat
    BY DEF TypeTx
  <2>3. Append(pracks, cseq) \in Seq(Nat)
    BY <2>2, AppendProperties
  <2>4. \/ pracks' = Append(pracks, cseq) /\ cseq' = cseq + 1
        \/ UNCHANGED <<pracks, cseq>>
    BY <1>7 DEF TakeProvisional, PrackCSeq
  <2>5. state' = "Proceeding" /\ UNCHANGED <<running, clientTxs, outcome, acks, cseqOf, cancels>>
    BY <1>7 DEF TakeProvisional
  <2> QED BY <2>1, <2>2, <2>3, <2>4, <2>5 DEF TypeTx
<1>8. ASSUME NEW m \in Responses, Receive(m) PROVE TypeTx'
  <2>1. rx \in Seq(Responses)
    BY DEF TypeTx
  <2>2. Append(rx, m) \in Seq(Responses)
    BY <2>1, AppendProperties
  <2>3. \/ rx' = Append(rx, m)
        \/ rx' = rx
    BY <1>8 DEF Receive
  <2>4. UNCHANGED <<running, state, clientTxs, outcome, acks, cseq, cseqOf, cancels, pracks>>
    BY <1>8 DEF Receive
  <2> QED BY <2>1, <2>2, <2>3, <2>4 DEF TypeTx
<1>9. CASE UNCHANGED txVars
  BY <1>9 DEF TypeTx, txVars
<1>10. Retransmit \/ PollEnds \/ Tick \/ Environment \/ UNCHANGED vars => UNCHANGED txVars
  BY DEF Retransmit, PollEnds, Tick, Environment, PeerReceives, PeerIsBusy, PeerAnswers,
         PeerRepeats, LoseRequest, LoseResponse, vars
<1> QED
  BY <1>1, <1>2, <1>4, <1>5, <1>6, <1>7, <1>8, <1>9, <1>10 DEF Next, Client, Loop

LEMMA TypeNetStep == TypeTx /\ TypeNet /\ [Next]_vars => TypeNet'
<1> SUFFICES ASSUME TypeTx, TypeNet, [Next]_vars PROVE TypeNet'
    OBVIOUS
<1> USE ClientTransactionAssumption
<1>1. ASSUME NEW t \in Txs, NEW k \in Kinds, PeerSends(t, k)
      PROVE  toUs' \in [Responses -> Nat] /\ said' \in [Txs -> 0 .. MaxResponses]
  <2>1. PICK r \in Responses : toUs' = [toUs EXCEPT ![r] = @ + 1]
    BY <1>1 DEF PeerSends, Responses
  <2>2. toUs' \in [Responses -> Nat]
    BY <2>1 DEF TypeNet
  <2>3. MaxResponses \in Nat /\ said[t] \in 0 .. MaxResponses /\ said[t] < MaxResponses
    BY <1>1 DEF PeerSends, TypeNet
  <2>4. said[t] + 1 \in 0 .. MaxResponses
    BY <2>3
  <2>5. said' \in [Txs -> 0 .. MaxResponses]
    BY <1>1, <2>4 DEF PeerSends, TypeNet
  <2> QED BY <2>2, <2>5
<1>2. ASSUME NEW t \in Txs, Submit(t) PROVE TypeNet'
  BY <1>2 DEF TypeNet, Submit
<1>3. CASE Retransmit
  <2>1. running \in Txs
    BY <1>3 DEF Retransmit, TypeTx
  <2> QED BY <1>3, <2>1 DEF TypeNet, Retransmit
<1>4. ASSUME NEW m \in Responses, Receive(m) \/ LoseResponse(m) PROVE TypeNet'
  <2>1. toUs[m] > 0 /\ toUs' = [toUs EXCEPT ![m] = @ - 1]
    BY <1>4 DEF Receive, LoseResponse
  <2>2. UNCHANGED <<sends, toPeer, peer, said>>
    BY <1>4 DEF Receive, LoseResponse
  <2> QED BY <2>1, <2>2 DEF TypeNet
<1>5. ASSUME NEW t \in Txs, PeerReceives(t) PROVE TypeNet'
  BY <1>5 DEF TypeNet, PeerReceives
<1>6. ASSUME NEW t \in Txs, PeerIsBusy(t) PROVE TypeNet'
  BY <1>1, <1>6 DEF TypeNet, PeerIsBusy, Kinds
<1>7. ASSUME NEW t \in Txs, NEW k \in Finals, PeerAnswers(t, k) PROVE TypeNet'
  BY <1>1, <1>7 DEF TypeNet, PeerAnswers, Kinds
<1>8. ASSUME NEW t \in Txs, PeerRepeats(t) PROVE TypeNet'
  BY <1>1, <1>8 DEF TypeNet, PeerRepeats, Kinds
<1>9. ASSUME NEW t \in Txs, LoseRequest(t) PROVE TypeNet'
  BY <1>9 DEF TypeNet, LoseRequest
<1>10. CASE UNCHANGED netVars
  BY <1>10 DEF TypeNet, netVars
<1>11. ASSUME NEW t \in Txs, SubmitFails(t) PROVE UNCHANGED netVars
  BY <1>11 DEF SubmitFails
<1>12. \/ TimeOut \/ PollEnds \/ TakeProvisional \/ TakeFinal \/ TakeGarbled \/ Tick
       \/ UNCHANGED vars
       => UNCHANGED netVars
  BY DEF TimeOut, PollEnds, TakeProvisional, TakeFinal, TakeGarbled, Tick, vars
<1> QED
  BY <1>2, <1>3, <1>4, <1>5, <1>6, <1>7, <1>8, <1>9, <1>10, <1>11, <1>12
  DEF Next, Client, Loop, Environment

\* The clock: an overdue branch stops the clock once it is MaxLate ticks late.
LEMMA TimeStep ==
  TypeTx /\ TypeTime /\ Punctual /\ [Next]_vars => TypeTime' /\ Punctual'
<1> SUFFICES ASSUME TypeTx, TypeTime, Punctual, [Next]_vars
             PROVE  TypeTime' /\ Punctual'
    OBVIOUS
<1> USE ClientTransactionAssumption DEF TypeTime, Punctual
<1>1. ASSUME NEW t \in Txs, Submit(t) PROVE TypeTime' /\ Punctual'
  BY <1>1 DEF Submit
<1>2. CASE Retransmit
  <2>1. LongerInterval \in Nat
    BY DEF LongerInterval
  <2> QED BY <1>2, <2>1 DEF Retransmit, NextIteration
<1>3. ASSUME NEW o, Return(o) PROVE TypeTime' /\ Punctual'
  BY <1>3 DEF Return
<1>4. CASE TimeOut \/ TakeFinal \/ TakeGarbled
  BY <1>3, <1>4 DEF TimeOut, TakeFinal, TakeGarbled
<1>5. ASSUME waited' = 0, UNCHANGED <<elapsed, late>>, interval' \in Nat
      PROVE  TypeTime' /\ Punctual'
  BY <1>5
<1>6. CASE PollEnds
  BY <1>5, <1>6 DEF PollEnds, NextIteration
<1>7. CASE TakeProvisional
  <2>1. interval' \in {interval, T2}
    BY <1>7 DEF TakeProvisional
  <2> QED BY <1>5, <1>7, <2>1 DEF TakeProvisional, NextIteration
<1>8. ASSUME NEW m \in Responses, Receive(m) PROVE TypeTime' /\ Punctual'
  BY <1>5, <1>8 DEF Receive, NextIteration
<1>9. CASE Tick
  <2>1. CASE Ready /\ late < MaxLate
    BY <1>9, <2>1 DEF Tick
  <2>2. CASE ~Ready
    BY <1>9, <2>2 DEF Tick, Ready, PollDue, LifetimeDue
  <2> QED BY <1>9, <2>1, <2>2 DEF Tick
<1>10. CASE UNCHANGED timeVars
  BY <1>10 DEF timeVars
<1>11. ASSUME NEW t \in Txs, SubmitFails(t) PROVE UNCHANGED timeVars
  BY <1>11 DEF SubmitFails
<1>12. Environment \/ UNCHANGED vars => UNCHANGED timeVars
  BY DEF Environment, PeerReceives, PeerIsBusy, PeerAnswers, PeerRepeats, LoseRequest,
         LoseResponse, vars
<1> QED
  BY <1>1, <1>2, <1>4, <1>6, <1>7, <1>8, <1>9, <1>10, <1>11, <1>12 DEF Next, Client, Loop

LEMMA ChannelStep == TypeTx /\ Channel /\ [Next]_vars => Channel'
<1> SUFFICES ASSUME TypeTx, Channel, [Next]_vars PROVE Channel'
    OBVIOUS
<1> USE ClientTransactionAssumption
<1>1. ASSUME NEW t \in Txs, Submit(t) PROVE Channel'
  BY <1>1 DEF TypeTx, Channel, Submit, Numbered, DrawCSeq, RepeatCSeq
<1>2. ASSUME NEW t \in Txs, SubmitFails(t) PROVE Channel'
  BY <1>2 DEF Channel, SubmitFails, Numbered, DrawCSeq, RepeatCSeq
<1>3. ASSUME NEW o, Return(o) PROVE Channel'
  BY <1>3 DEF Channel, Return
<1>4. CASE TimeOut \/ TakeFinal \/ TakeGarbled
  BY <1>3, <1>4 DEF TimeOut, TakeFinal, TakeGarbled
<1>5. CASE TakeProvisional
  <2>1. running # None /\ rx # <<>> /\ rx' = Tail(rx) /\ UNCHANGED <<running, outcome>>
    BY <1>5 DEF TakeProvisional
  <2> QED BY <2>1, ChannelHead DEF Channel
<1>6. ASSUME NEW m \in Responses, Receive(m) PROVE Channel'
  <2>1. UNCHANGED <<running, outcome>>
    BY <1>6 DEF Receive
  <2>2. CASE Matches(m)
    <3>1. rx' = Append(rx, m) /\ m.tx = running /\ running # None
      BY <1>6, <2>2 DEF Receive, Matches, TypeTx
    <3>2. rx \in Seq(Responses)
      BY DEF TypeTx
    <3>3. ASSUME NEW i \in 1 .. Len(rx') PROVE rx'[i].tx = running
      <4>1. Len(rx') = Len(rx) + 1 /\ rx'[Len(rx) + 1] = m
            /\ \A j \in 1 .. Len(rx) : rx'[j] = rx[j]
        BY <3>1, <3>2, AppendProperties
      <4> QED BY <3>1, <3>2, <3>3, <4>1 DEF Channel
    <3> QED BY <2>1, <3>1, <3>3 DEF Channel
  <2>3. CASE ~Matches(m)
    BY <1>6, <2>1, <2>3 DEF Receive, Channel
  <2> QED BY <2>2, <2>3
<1>7. CASE UNCHANGED txVars
  BY <1>7 DEF Channel, txVars
<1>8. Retransmit \/ PollEnds \/ Tick \/ Environment \/ UNCHANGED vars => UNCHANGED txVars
  BY DEF Retransmit, PollEnds, Tick, Environment, PeerReceives, PeerIsBusy, PeerAnswers,
         PeerRepeats, LoseRequest, LoseResponse, vars
<1> QED
  BY <1>1, <1>2, <1>4, <1>5, <1>6, <1>7, <1>8 DEF Next, Client, Loop

\* A peer that has decided does not change its mind.
LEMMA DecisionStable ==
  ASSUME [Next]_vars, TypeNet, NEW t \in Txs, peer[t] \in Finals
  PROVE  peer'[t] = peer[t]
<1>1. ASSUME NEW u \in Txs, PeerReceives(u) PROVE peer'[t] = peer[t]
  BY <1>1 DEF PeerReceives, TypeNet, Finals
<1>2. ASSUME NEW u \in Txs, NEW k \in Finals, PeerAnswers(u, k) PROVE peer'[t] = peer[t]
  BY <1>2 DEF PeerAnswers, TypeNet, Finals
<1>3. ASSUME NEW u \in Txs,
             Submit(u) \/ SubmitFails(u) \/ PeerIsBusy(u) \/ PeerRepeats(u) \/ LoseRequest(u)
      PROVE  peer' = peer
  BY <1>3 DEF Submit, SubmitFails, PeerIsBusy, PeerRepeats, LoseRequest, netVars
<1>4. ASSUME NEW m \in Responses, Receive(m) \/ LoseResponse(m) PROVE peer' = peer
  BY <1>4 DEF Receive, LoseResponse
<1>5. Loop \/ Tick \/ UNCHANGED vars => peer' = peer
  BY DEF Loop, Tick, Retransmit, TimeOut, PollEnds, TakeProvisional, TakeFinal, TakeGarbled,
         netVars, vars
<1> QED
  BY <1>1, <1>2, <1>3, <1>4, <1>5 DEF Next, Client, Environment

\* A response that enters the network is either no final answer or the peer's.
LEMMA WireStep ==
  ASSUME [Next]_vars, TypeTx, TypeNet, Honest
  PROVE  \A m \in Responses : toUs'[m] > 0 /\ m.kind \in Finals => peer'[m.tx] = m.kind
<1> USE DEF Honest
<1>1. SUFFICES ASSUME NEW m \in Responses, toUs'[m] > 0, m.kind \in Finals
               PROVE  peer'[m.tx] = m.kind
  OBVIOUS
<1>2. m.tx \in Txs
  BY DEF Responses
<1>3. CASE toUs'[m] <= toUs[m]
  <2>1. toUs[m] > 0
    BY <1>1, <1>3, TypeNetStep DEF TypeNet
  <2>2. peer[m.tx] = m.kind
    BY <1>1, <2>1
  <2> QED BY <1>1, <1>2, <2>2, DecisionStable
<1>4. ASSUME NEW t \in Txs, NEW k, PeerSends(t, k), ~(toUs'[m] <= toUs[m])
      PROVE  m.tx = t /\ m.kind = k
  BY <1>4 DEF PeerSends, TypeNet
<1>5. ASSUME NEW t \in Txs, PeerIsBusy(t), ~(toUs'[m] <= toUs[m]) PROVE FALSE
  BY <1>1, <1>4, <1>5 DEF PeerIsBusy, Provisionals, Finals
<1>6. ASSUME NEW t \in Txs, NEW k \in Finals, PeerAnswers(t, k), ~(toUs'[m] <= toUs[m])
      PROVE  peer'[m.tx] = m.kind
  BY <1>4, <1>6 DEF PeerAnswers, TypeNet
<1>7. ASSUME NEW t \in Txs, PeerRepeats(t), ~(toUs'[m] <= toUs[m])
      PROVE  peer'[m.tx] = m.kind
  BY <1>4, <1>7 DEF PeerRepeats
<1>8. ASSUME NEW n \in Responses, Receive(n) \/ LoseResponse(n) PROVE toUs'[m] <= toUs[m]
  <2>1. toUs' = [toUs EXCEPT ![n] = @ - 1]
    BY <1>8 DEF Receive, LoseResponse
  <2> QED BY <2>1 DEF TypeNet
<1>9. ASSUME UNCHANGED toUs PROVE toUs'[m] <= toUs[m]
  BY <1>9 DEF TypeNet
<1>10. ASSUME NEW t \in Txs, Submit(t) \/ SubmitFails(t) \/ PeerReceives(t) \/ LoseRequest(t)
       PROVE  UNCHANGED toUs
  BY <1>10 DEF Submit, SubmitFails, PeerReceives, LoseRequest, netVars
<1>11. Loop \/ Tick \/ UNCHANGED vars => UNCHANGED toUs
  BY DEF Loop, Tick, Retransmit, TimeOut, PollEnds, TakeProvisional, TakeFinal, TakeGarbled,
         netVars, vars
<1> QED
  BY <1>3, <1>5, <1>6, <1>7, <1>8, <1>9, <1>10, <1>11 DEF Next, Client, Environment

LEMMA HonestStep ==
  TypeTx /\ TypeNet /\ Channel /\ Honest /\ [Next]_vars => Honest'
<1> SUFFICES ASSUME TypeTx, TypeNet, Channel, Honest, [Next]_vars PROVE Honest'
    OBVIOUS
<1>1. \A m \in Responses : toUs'[m] > 0 /\ m.kind \in Finals => peer'[m.tx] = m.kind
  BY WireStep
<1>2. ASSUME NEW r \in Responses, r.kind \in Finals, peer[r.tx] = r.kind
      PROVE  peer'[r.tx] = r.kind
  BY <1>2, DecisionStable DEF Responses
<1>3. \A i \in 1 .. Len(rx) : rx[i] \in Responses
  BY DEF TypeTx
<1>4. CASE UNCHANGED rx
  BY <1>1, <1>2, <1>3, <1>4 DEF Honest
<1>5. CASE rx' = <<>>
  BY <1>1, <1>5 DEF Honest
<1>6. CASE rx # <<>> /\ rx' = Tail(rx)
  BY <1>1, <1>2, <1>3, <1>6, ChannelHead DEF Honest
<1>7. ASSUME NEW m \in Responses, toUs[m] > 0, rx' = Append(rx, m) PROVE Honest'
  <2>1. m.kind \in Finals => peer[m.tx] = m.kind
    BY <1>7 DEF Honest
  <2>2. \A i \in 1 .. Len(rx') : rx'[i] \in Responses
                             /\ (rx'[i].kind \in Finals => peer[rx'[i].tx] = rx'[i].kind)
    BY <1>3, <1>7, <2>1 DEF TypeTx, Honest
  <2> QED BY <1>1, <1>2, <2>2 DEF Honest
<1>8. ASSUME NEW m \in Responses, Receive(m) PROVE Honest'
  BY <1>4, <1>7, <1>8 DEF Receive
<1>9. TimeOut \/ TakeFinal \/ TakeGarbled => rx' = <<>>
  BY DEF TimeOut, TakeFinal, TakeGarbled, Return
<1>10. TakeProvisional => rx # <<>> /\ rx' = Tail(rx)
  BY DEF TakeProvisional
<1>11. Client \/ Retransmit \/ PollEnds \/ Tick \/ Environment \/ UNCHANGED vars => UNCHANGED rx
  BY DEF Client, Submit, SubmitFails, Retransmit, PollEnds, Tick, Environment, PeerReceives,
         PeerIsBusy, PeerAnswers, PeerRepeats, LoseRequest, LoseResponse, txVars, vars
<1> QED
  BY <1>4, <1>5, <1>6, <1>8, <1>9, <1>10, <1>11 DEF Next, Loop

LEMMA HeardStep ==
  TypeTx /\ TypeNet /\ Heard /\ [Next]_vars => Heard'
<1> SUFFICES ASSUME TypeTx, TypeNet, Heard, [Next]_vars PROVE Heard'
    OBVIOUS
<1> USE ClientTransactionAssumption
<1>1. ASSUME NEW t \in Txs, Submit(t) PROVE Heard'
  BY <1>1 DEF Heard, Submit, Numbered, DrawCSeq, RepeatCSeq
<1>2. ASSUME NEW t \in Txs, SubmitFails(t) PROVE Heard'
  BY <1>2 DEF Heard, SubmitFails, Numbered, DrawCSeq, RepeatCSeq, netVars, TypeTx
<1>3. CASE Retransmit
  BY <1>3 DEF Heard, Retransmit, txVars
<1>4. ASSUME NEW o, o # "none", running # None, Return(o), UNCHANGED netVars PROVE Heard'
  BY <1>4 DEF Heard, Return, netVars, TypeTx
<1>5. CASE TimeOut \/ TakeGarbled
  BY <1>4, <1>5 DEF TimeOut, TakeGarbled
<1>6. CASE TakeFinal
  BY <1>4, <1>6 DEF TakeFinal, Ending, Finals
<1>7. CASE TakeProvisional \/ PollEnds \/ Tick
  BY <1>7 DEF Heard, TakeProvisional, PollEnds, Tick, txVars, netVars
<1>8. ASSUME NEW m \in Responses, Receive(m) \/ LoseResponse(m) PROVE Heard'
  BY <1>8 DEF Heard, Receive, LoseResponse, txVars
<1>9. ASSUME NEW t \in Txs, PeerReceives(t) PROVE Heard'
  BY <1>9 DEF Heard, PeerReceives, txVars, TypeNet
<1>10. ASSUME NEW t \in Txs, NEW k \in Finals, PeerAnswers(t, k) PROVE Heard'
  BY <1>10 DEF Heard, PeerAnswers, txVars, TypeNet
<1>11. ASSUME NEW t \in Txs, PeerIsBusy(t) \/ PeerRepeats(t) \/ LoseRequest(t) PROVE Heard'
  BY <1>11 DEF Heard, PeerIsBusy, PeerRepeats, LoseRequest, txVars
<1>12. CASE UNCHANGED vars
  BY <1>12 DEF Heard, vars, txVars, netVars
<1> QED
  BY <1>1, <1>2, <1>3, <1>5, <1>6, <1>7, <1>8, <1>9, <1>10, <1>11, <1>12
  DEF Next, Client, Loop, Environment

LEMMA AnswersStep ==
  TypeTx /\ TypeNet /\ Channel /\ Honest /\ AnswersMatch /\ [Next]_vars => AnswersMatch'
<1> SUFFICES ASSUME TypeTx, TypeNet, Channel, Honest, AnswersMatch, [Next]_vars,
                    NEW t \in Txs, outcome'[t] \in Finals
             PROVE  peer'[t] = outcome'[t]
    BY DEF AnswersMatch
<1> USE ClientTransactionAssumption
<1>1. CASE outcome'[t] = outcome[t]
  BY <1>1, DecisionStable DEF AnswersMatch
<1>2. CASE outcome'[t] # outcome[t]
  <2>1. ASSUME NEW o, running # None, Return(o) PROVE t = running /\ outcome'[t] = o
    BY <1>2, <2>1 DEF Return, TypeTx
  <2>2. CASE TakeFinal
    <3>1. t = running /\ outcome'[t] = Head(rx).kind
      BY <2>1, <2>2 DEF TakeFinal
    <3>2. peer[t] = Head(rx).kind
      BY <2>2, <3>1, ChannelHead DEF TakeFinal, Ending, Channel, Honest
    <3> QED BY <2>2, <3>1, <3>2 DEF TakeFinal, netVars
  <2>3. ~TimeOut /\ ~TakeGarbled
    BY <2>1 DEF TimeOut, TakeGarbled, Finals
  <2>4. ASSUME NEW u \in Txs, SubmitFails(u) PROVE FALSE
    BY <1>2, <2>4 DEF SubmitFails, TypeTx, Finals
  <2>5. ASSUME NEW m \in Responses, Receive(m) PROVE FALSE
    BY <1>2, <2>5 DEF Receive
  <2>6. ASSUME NEW u \in Txs, Submit(u) PROVE FALSE
    BY <1>2, <2>6 DEF Submit
  <2>7. ~(Retransmit \/ PollEnds \/ TakeProvisional \/ Tick \/ Environment \/ UNCHANGED vars)
    BY <1>2 DEF Retransmit, PollEnds, TakeProvisional, Tick, Environment, PeerReceives,
         PeerIsBusy, PeerAnswers, PeerRepeats, LoseRequest, LoseResponse, txVars, vars
  <2> QED BY <2>2, <2>3, <2>4, <2>5, <2>6, <2>7 DEF Next, Client, Loop
<1> QED BY <1>1, <1>2

LEMMA Inductive == IInv /\ [Next]_vars => IInv'
BY TypeTxStep, TypeNetStep, TimeStep, ChannelStep, HonestStep, HeardStep, AnswersStep
DEF IInv, TypeOK

\* The inductive invariant holds in every reachable state.
THEOREM InvariantHolds == Spec => []IInv
BY InitIInv, Inductive, PTL DEF Spec

\* Type correctness, and the loop looks at its branches at least every
\* Poll + MaxLate ticks.
THEOREM TypeCorrect == Spec => []TypeOK
<1>1. IInv => TypeOK
  BY DEF IInv
<1> QED BY <1>1, InvariantHolds, PTL

\* A caller gets the answer the peer gave to its own request, for any number of
\* requests, losses, repetitions and reorderings.
THEOREM DemultiplexingCorrect == Spec => []AnswersMatch
<1>1. IInv => AnswersMatch
  BY DEF IInv
<1> QED BY <1>1, InvariantHolds, PTL

\* No transaction outlives Timer F / Timer B by more than the runtime's lateness.
THEOREM WaitIsBounded == Spec => []BoundedWait
<1>1. IInv => BoundedWait
  BY ClientTransactionAssumption DEF IInv, TypeOK, TypeTime, Punctual, BoundedWait
<1> QED BY <1>1, InvariantHolds, PTL

------------------------------------------------------------------------------
(* What the client keeps of its requests: keys, ACKs and numbers.  A request *)
(* that ends had no outcome before (Channel), so an entry of one request is  *)
(* never made or lost on behalf of another.                                  *)

\* Every number but those of CANCELs was drawn from the counter, which never
\* goes back.
Drawn ==
    /\ cseq > 0
    /\ \A t \in Txs \ cancels : cseqOf[t] < cseq
    /\ \A i \in DOMAIN pracks : 0 < pracks[i] /\ pracks[i] < cseq

Books == NoStaleKeys /\ FailureAcked /\ Drawn /\ FreshCSeqs

LEMMA InitBooks == Init => Books
BY ClientTransactionAssumption
   DEF Init, Books, NoStaleKeys, FailureAcked, Drawn, FreshCSeqs

LEMMA KeysStep == TypeTx /\ Channel /\ NoStaleKeys /\ [Next]_vars => NoStaleKeys'
<1> SUFFICES ASSUME TypeTx, Channel, NoStaleKeys, [Next]_vars PROVE NoStaleKeys'
    OBVIOUS
<1> USE ClientTransactionAssumption DEF NoStaleKeys, TypeTx
<1>1. ASSUME NEW t \in Txs, Submit(t) PROVE NoStaleKeys'
  BY <1>1 DEF Submit, Numbered, DrawCSeq, RepeatCSeq
<1>2. ASSUME NEW t \in Txs, SubmitFails(t) PROVE NoStaleKeys'
  BY <1>2 DEF SubmitFails, Numbered, DrawCSeq, RepeatCSeq
<1>3. ASSUME running # None, NEW o, Return(o), clientTxs' = clientTxs \ {running}
      PROVE  NoStaleKeys'
  <2>1. outcome' = [outcome EXCEPT ![running] = o] /\ running \in Txs
    BY <1>3 DEF Return
  <2>2. \A u \in Txs \ {running} : outcome'[u] = outcome[u]
    BY <2>1
  <2>3. \A u \in clientTxs' : u \in Txs /\ outcome'[u] = "garbled"
    BY <1>3, <2>2
  <2> QED BY <2>3
<1>4. CASE TimeOut
  <2>1. running # None /\ Return("timeout") /\ clientTxs' = clientTxs \ {running}
    BY <1>4 DEF TimeOut
  <2> QED BY ONLY <1>3, <2>1
<1>8. CASE TakeFinal
  <2>1. running # None /\ Return(Head(rx).kind) /\ clientTxs' = clientTxs \ {running}
    BY <1>8 DEF TakeFinal
  <2> QED BY ONLY <1>3, <2>1
<1>9. CASE TakeGarbled
  <2>1. /\ running # None /\ running \in Txs /\ clientTxs' = clientTxs
        /\ outcome' = [outcome EXCEPT ![running] = "garbled"]
    BY <1>9 DEF TakeGarbled, Return
  <2>2. \A u \in clientTxs' : u \in Txs /\ outcome'[u] = "garbled"
    BY <2>1
  <2> QED BY <2>2
<1>5. ASSUME UNCHANGED <<running, clientTxs, outcome>> PROVE NoStaleKeys'
  BY <1>5
<1>6. ASSUME NEW m \in Responses, Receive(m) PROVE UNCHANGED <<running, clientTxs, outcome>>
  BY <1>6 DEF Receive
<1>7. Retransmit \/ PollEnds \/ TakeProvisional \/ Tick \/ Environment \/ UNCHANGED vars
      => UNCHANGED <<running, clientTxs, outcome>>
  BY DEF Retransmit, PollEnds, TakeProvisional, Tick, Environment, PeerReceives, PeerIsBusy,
         PeerAnswers, PeerRepeats, LoseRequest, LoseResponse, txVars, vars
<1> QED BY <1>1, <1>2, <1>4, <1>5, <1>6, <1>7, <1>8, <1>9 DEF Next, Client, Loop

LEMMA AcksStep == TypeTx /\ Channel /\ FailureAcked /\ [Next]_vars => FailureAcked'
<1> SUFFICES ASSUME TypeTx, Channel, FailureAcked, [Next]_vars PROVE FailureAcked'
    OBVIOUS
<1> USE ClientTransactionAssumption DEF FailureAcked, TypeTx
<1>1. ASSUME NEW t \in Txs, SubmitFails(t) PROVE FailureAcked'
  BY <1>1 DEF SubmitFails, Numbered, DrawCSeq, RepeatCSeq
<1>2. ASSUME running # None, NEW o, Return(o), o = "failure" => running \notin InviteTxs,
             UNCHANGED acks
      PROVE  FailureAcked'
  BY <1>2 DEF Return, Channel
<1>3. CASE TimeOut \/ TakeGarbled
  BY <1>2, <1>3 DEF TimeOut, TakeGarbled
<1>4. CASE TakeFinal
  <2>1. running \in Txs /\ running # None /\ Return(Head(rx).kind)
    BY <1>4 DEF TakeFinal
  <2>2. CASE NeedsAck(Head(rx).kind)
    <3>1. acks' = [acks EXCEPT ![running] = @ + 1] /\ running \in InviteTxs
          /\ outcome' = [outcome EXCEPT ![running] = "failure"]
      BY <1>4, <2>2 DEF TakeFinal, NeedsAck, Return
    <3>2. acks[running] = 0
      BY <2>1 DEF Channel
    <3> QED BY <2>1, <3>1, <3>2
  <2>3. CASE ~NeedsAck(Head(rx).kind)
    BY <1>2, <1>4, <2>1, <2>3 DEF TakeFinal, NeedsAck
  <2> QED BY <2>2, <2>3
<1>5. ASSUME UNCHANGED <<outcome, acks>> PROVE FailureAcked'
  BY <1>5
<1>6. ASSUME NEW m \in Responses, Receive(m) PROVE UNCHANGED <<outcome, acks>>
  BY <1>6 DEF Receive
<1>7. ASSUME NEW t \in Txs, Submit(t) PROVE UNCHANGED <<outcome, acks>>
  BY <1>7 DEF Submit
<1>8. Retransmit \/ PollEnds \/ TakeProvisional \/ Tick \/ Environment \/ UNCHANGED vars
      => UNCHANGED <<outcome, acks>>
  BY DEF Retransmit, PollEnds, TakeProvisional, Tick, Environment, PeerReceives, PeerIsBusy,
         PeerAnswers, PeerRepeats, LoseRequest, LoseResponse, txVars, vars
<1> QED BY <1>1, <1>3, <1>4, <1>5, <1>6, <1>7, <1>8 DEF Next, Client, Loop

LEMMA NumbersStep ==
  TypeTx /\ Drawn /\ FreshCSeqs /\ [Next]_vars => Drawn' /\ FreshCSeqs'
<1> SUFFICES ASSUME TypeTx, Drawn, FreshCSeqs, [Next]_vars PROVE Drawn' /\ FreshCSeqs'
    OBVIOUS
<1> USE ClientTransactionAssumption
<1>0. /\ cseq \in Nat /\ cseqOf \in [Txs -> Nat] /\ pracks \in Seq(Nat)
      /\ DOMAIN pracks = 1 .. Len(pracks) /\ Len(pracks) \in Nat
      /\ \A i \in DOMAIN pracks : pracks[i] \in Nat
  BY DEF TypeTx
\* A request draws its number.
<1>1. ASSUME NEW t \in Txs, DrawCSeq(t), UNCHANGED pracks PROVE Drawn' /\ FreshCSeqs'
  <2>1. /\ cseq' = cseq + 1 /\ cseqOf'[t] = cseq /\ cancels' = cancels
        /\ \A u \in Txs \ {t} : cseqOf'[u] = cseqOf[u]
    BY <1>0, <1>1 DEF DrawCSeq
  <2>2. Drawn'
    <3>1. ASSUME NEW u \in Txs \ cancels PROVE cseqOf'[u] < cseq + 1
      <4>1. cseqOf[u] < cseq /\ cseqOf[u] \in Nat
        BY <1>0 DEF Drawn
      <4>2. cseqOf'[u] = cseqOf[u] \/ cseqOf'[u] = cseq
        BY <2>1
      <4> QED BY <1>0, <4>1, <4>2
    <3>2. \A i \in DOMAIN pracks : 0 < pracks[i] /\ pracks[i] < cseq + 1
      BY <1>0 DEF Drawn
    <3> QED BY <1>0, <1>1, <2>1, <3>1, <3>2 DEF Drawn
  <2>3. ASSUME NEW u \in Txs \ cancels, NEW v \in Txs \ cancels,
               cseqOf'[u] = cseqOf'[v], cseqOf'[u] # 0
        PROVE  u = v
    <3>1. cseqOf[u] # cseq /\ cseqOf[v] # cseq
      BY <1>0 DEF Drawn
    <3>2. CASE u # t /\ v # t
      BY <2>1, <2>3, <3>2 DEF FreshCSeqs
    <3> QED BY <2>1, <2>3, <3>1, <3>2
  <2>4. ASSUME NEW i \in DOMAIN pracks, NEW u \in Txs \ cancels PROVE pracks[i] # cseqOf'[u]
    BY <1>0, <2>1 DEF Drawn, FreshCSeqs
  <2> QED BY <1>1, <2>1, <2>2, <2>3, <2>4 DEF FreshCSeqs
\* A PRACK draws its number.
<1>2. ASSUME pracks' = Append(pracks, cseq), cseq' = cseq + 1, UNCHANGED <<cseqOf, cancels>>
      PROVE  Drawn' /\ FreshCSeqs'
  <2>1. /\ DOMAIN pracks' = 1 .. Len(pracks) + 1
        /\ pracks'[Len(pracks) + 1] = cseq
        /\ \A i \in 1 .. Len(pracks) : pracks'[i] = pracks[i]
    <3>1. pracks' \in Seq(Nat) /\ Len(pracks') = Len(pracks) + 1
          /\ pracks'[Len(pracks) + 1] = cseq
          /\ \A i \in 1 .. Len(pracks) : pracks'[i] = pracks[i]
      BY <1>0, <1>2, AppendProperties
    <3> QED BY <3>1
  <2>2. ASSUME NEW i \in DOMAIN pracks'
        PROVE  \/ i \in DOMAIN pracks /\ pracks'[i] = pracks[i]
               \/ i = Len(pracks) + 1 /\ pracks'[i] = cseq
    <3>1. CASE i = Len(pracks) + 1
      BY <2>1, <3>1
    <3>2. CASE i # Len(pracks) + 1
      <4>1. i \in 1 .. Len(pracks)
        BY <1>0, <2>1, <3>2
      <4> QED BY <1>0, <2>1, <4>1
    <3> QED BY <3>1, <3>2
  <2>3. Drawn'
    BY <1>0, <1>2, <2>2 DEF Drawn
  <2>4. ASSUME NEW i \in DOMAIN pracks', NEW j \in DOMAIN pracks', pracks'[i] = pracks'[j]
        PROVE  i = j
    <3>1. \A k \in DOMAIN pracks : pracks[k] < cseq
      BY DEF Drawn
    <3>2. \A k, l \in DOMAIN pracks : pracks[k] = pracks[l] => k = l
      BY DEF FreshCSeqs
    <3> QED BY <1>0, <2>2, <2>4, <3>1, <3>2
  <2>5. ASSUME NEW i \in DOMAIN pracks', NEW u \in Txs \ cancels PROVE pracks'[i] # cseqOf[u]
    <3>1. cseqOf[u] < cseq /\ cseqOf[u] \in Nat
      BY <1>0 DEF Drawn
    <3>2. CASE i \in DOMAIN pracks /\ pracks'[i] = pracks[i]
      BY <3>2 DEF FreshCSeqs
    <3>3. CASE pracks'[i] = cseq
      BY <1>0, <3>1, <3>3
    <3> QED BY <2>2, <3>2, <3>3
  <2> QED BY <1>2, <2>3, <2>4, <2>5 DEF FreshCSeqs
<1>3. ASSUME UNCHANGED <<cseq, cseqOf, cancels, pracks>> PROVE Drawn' /\ FreshCSeqs'
  BY <1>3 DEF Drawn, FreshCSeqs
<1>4. CASE TakeProvisional
  BY <1>2, <1>3, <1>4 DEF TakeProvisional, PrackCSeq
\* A CANCEL leaves the counter alone, and is not counted among the requests.
<1>8. ASSUME NEW t \in Txs, RepeatCSeq(t), UNCHANGED pracks PROVE Drawn' /\ FreshCSeqs'
  <2>1. /\ cseq' = cseq /\ cancels' = cancels \cup {t}
        /\ \A u \in Txs \ {t} : cseqOf'[u] = cseqOf[u]
    BY <1>0, <1>8 DEF RepeatCSeq
  <2>2. \A u \in Txs \ cancels' : u \in Txs \ cancels /\ cseqOf'[u] = cseqOf[u]
    BY <2>1
  <2> QED BY <1>8, <2>1, <2>2 DEF Drawn, FreshCSeqs
<1>5. ASSUME NEW t \in Txs, Submit(t) \/ SubmitFails(t) PROVE Drawn' /\ FreshCSeqs'
  BY <1>1, <1>5, <1>8 DEF Submit, SubmitFails, Numbered
<1>6. ASSUME NEW m \in Responses, Receive(m) PROVE UNCHANGED <<cseq, cseqOf, cancels, pracks>>
  BY <1>6 DEF Receive
<1>7. \/ TimeOut \/ TakeFinal \/ TakeGarbled \/ Retransmit \/ PollEnds \/ Tick
      \/ Environment \/ UNCHANGED vars
      => UNCHANGED <<cseq, cseqOf, cancels, pracks>>
  BY DEF TimeOut, TakeFinal, TakeGarbled, Retransmit, PollEnds, Tick, Environment,
         PeerReceives, PeerIsBusy, PeerAnswers, PeerRepeats, LoseRequest, LoseResponse, txVars, vars
<1> QED BY <1>3, <1>4, <1>5, <1>6, <1>7 DEF Next, Client, Loop

LEMMA BooksHold == Spec => []Books
<1>1. IInv /\ Books /\ [Next]_vars => Books'
  BY KeysStep, AcksStep, NumbersStep DEF IInv, TypeOK, Books
<1> QED BY InitBooks, InvariantHolds, <1>1, PTL DEF Spec

\* The table of client transactions holds the running one and those whose
\* answer could not be parsed: every other way out of the loop removes its key.
THEOREM TableIsSwept == Spec => []NoStaleKeys
<1>1. Books => NoStaleKeys
  BY DEF Books
<1> QED BY <1>1, BooksHold, PTL

\* Each refused INVITE is acknowledged once, and nothing else is, however often
\* the peer repeats its refusal.
THEOREM FailuresAreAcked == Spec => []FailureAcked
<1>1. Books => FailureAcked
  BY DEF Books
<1> QED BY <1>1, BooksHold, PTL

\* No CSeq is used twice, by requests or by the PRACKs sent from inside them,
\* CANCELs excepted: cancel() repeats the number of the INVITE.
THEOREM CSeqsAreFresh == Spec => []FreshCSeqs
<1>1. Books => FreshCSeqs
  BY DEF Books
<1> QED BY <1>1, BooksHold, PTL

\* Timer A is silent once the peer has shown that it has the INVITE.
THEOREM InviteFallsSilent == Spec => QuietAfterProvisional
<1>1. ASSUME TypeOK, [Next]_vars, NEW t \in InviteTxs, sends'[t] > sends[t]
      PROVE  state = "Calling" \/ running # t
  <2> USE ClientTransactionAssumption
  <2>1. sends \in [Txs -> Nat] /\ t \in Txs
    BY <1>1 DEF TypeOK, TypeNet
  <2>2. CASE Retransmit
    BY <1>1, <2>2 DEF Retransmit, TimerDue, TimerArmed
  <2>3. ASSUME NEW u \in Txs, Submit(u) PROVE running = None
    BY <2>3 DEF Submit, Numbered, DrawCSeq, RepeatCSeq
  <2>4. ASSUME UNCHANGED sends PROVE FALSE
    BY <1>1, <2>1, <2>4
  <2>5. ASSUME NEW u \in Txs, SubmitFails(u) PROVE UNCHANGED sends
    BY <2>5 DEF SubmitFails, netVars
  <2>6. ASSUME NEW m \in Responses, Receive(m) PROVE UNCHANGED sends
    BY <2>6 DEF Receive
  <2>7. \/ TimeOut \/ PollEnds \/ TakeProvisional \/ TakeFinal \/ TakeGarbled \/ Tick
        \/ Environment \/ UNCHANGED vars
        => UNCHANGED sends
    BY DEF TimeOut, PollEnds, TakeProvisional, TakeFinal, TakeGarbled, Tick, Environment,
           PeerReceives, PeerIsBusy, PeerAnswers, PeerRepeats, LoseRequest, LoseResponse,
           netVars, vars
  <2> QED
    BY <1>1, <2>2, <2>3, <2>4, <2>5, <2>6, <2>7 DEF Next, Client, Loop
<1>2. TypeOK /\ [Next]_vars =>
        [\A t \in InviteTxs : sends'[t] > sends[t] => state = "Calling" \/ running # t]_vars
  BY <1>1
<1> QED BY <1>2, TypeCorrect, PTL DEF Spec, QuietAfterProvisional

------------------------------------------------------------------------------
(* The refinement mapping, named so that its two halves can be cited. *)

Status ==
    [t \in Txs |-> IF running = t THEN "pending"
                   ELSE IF outcome[t] = "none" THEN "new" ELSE outcome[t]]
Decision == [t \in Txs |-> IF peer[t] \in Finals THEN peer[t] ELSE "none"]

\* A step that leaves the two halves alone is a stutter of RequestResponse.
LEMMA SameMapping ==
  ASSUME UNCHANGED <<running, outcome, peer>>
  PROVE  Status' = Status /\ Decision' = Decision
BY DEF Status, Decision

\* No request is pending while none runs.
LEMMA NoneNew ==
  ASSUME TypeTx, running = None, NEW u \in Txs
  PROVE  Status[u] # "pending"
BY ClientTransactionAssumption DEF TypeTx, Status, Outcomes, Finals, Errors

LEMMA ReturnMapping ==
  ASSUME TypeTx, Channel, running # None, NEW o, o # "none", Return(o)
  PROVE  /\ running \in Txs /\ Status[running] = "pending"
         /\ Status' = [Status EXCEPT ![running] = o]
BY ClientTransactionAssumption DEF TypeTx, Channel, Return, Status

LEMMA DecisionSame ==
  ASSUME UNCHANGED peer
  PROVE  Decision' = Decision
BY DEF Decision

LEMMA RefinementStep ==
  IInv /\ [Next]_vars => [RR!Next]_(RR!vars)
<1> SUFFICES ASSUME IInv, [Next]_vars PROVE [RR!Next]_(RR!vars)
    OBVIOUS
<1> USE ClientTransactionAssumption
<1>0. TypeTx /\ TypeNet /\ Channel /\ Honest /\ Heard
  BY DEF IInv, TypeOK
<1>1. ASSUME NEW t \in Txs, Status[t] = "pending" \/ Status[t] = "new",
             Status[t] = "new" => \A u \in Txs : Status[u] # "pending",
             NEW e \in Errors, Status' = [Status EXCEPT ![t] = e], Decision' = Decision
      PROVE  RR!Next
  BY <1>1 DEF RR!Next, RR!GiveUp, Status, Decision
<1>2. ASSUME NEW t \in Txs, Status[t] = "pending", Decision[t] \in Finals,
             Status' = [Status EXCEPT ![t] = Decision[t]], Decision' = Decision
      PROVE  RR!Next
  BY <1>2 DEF RR!Next, RR!Return, Status, Decision
<1>3. ASSUME NEW t \in Txs, Status[t] = "new", \A u \in Txs : Status[u] # "pending",
             Status' = [Status EXCEPT ![t] = "pending"], Decision' = Decision
      PROVE  RR!Next
  BY <1>3 DEF RR!Next, RR!Submit, Status, Decision
<1>4. ASSUME NEW t \in Txs, NEW k \in Finals, Decision[t] = "none", Status[t] # "new",
             Decision' = [Decision EXCEPT ![t] = k], Status' = Status
      PROVE  RR!Next
  BY <1>4 DEF RR!Next, RR!Decide, Status, Decision
<1>5. ASSUME Status' = Status, Decision' = Decision
      PROVE  UNCHANGED RR!vars
  BY <1>5 DEF RR!vars, Status, Decision
<1>6. ASSUME NEW t \in Txs, Submit(t) PROVE RR!Next
  <2>1. running = None /\ outcome[t] = "none" /\ running' = t /\ UNCHANGED <<outcome, peer>>
    BY <1>6 DEF Submit, Numbered, DrawCSeq, RepeatCSeq
  <2>2. Status[t] = "new" /\ Status' = [Status EXCEPT ![t] = "pending"]
    BY <2>1 DEF Status
  <2> QED BY <1>0, <1>3, <2>1, <2>2, NoneNew, DecisionSame
<1>7. ASSUME NEW t \in Txs, SubmitFails(t) PROVE RR!Next
  <2>1. /\ running = None /\ outcome[t] = "none" /\ running' = running /\ UNCHANGED peer
        /\ outcome' = [outcome EXCEPT ![t] = "sendError"]
    BY <1>7 DEF SubmitFails, Numbered, DrawCSeq, RepeatCSeq, netVars
  <2>2. Status[t] = "new" /\ Status' = [Status EXCEPT ![t] = "sendError"]
    BY <1>0, <2>1 DEF Status, TypeTx
  <2> QED BY <1>0, <1>1, <2>1, <2>2, NoneNew, DecisionSame DEF Errors
<1>8. CASE TimeOut \/ TakeGarbled
  <2>1. PICK e \in Errors : Return(e)
    BY <1>8 DEF TimeOut, TakeGarbled, Errors
  <2>2. running # None /\ UNCHANGED peer /\ e # "none"
    BY <1>8 DEF TimeOut, TakeGarbled, netVars, Errors
  <2> QED BY <1>0, <1>1, <2>1, <2>2, ReturnMapping, DecisionSame
<1>9. CASE TakeFinal
  <2>1. /\ running # None /\ rx # <<>> /\ Return(Head(rx).kind)
        /\ Head(rx).kind \in Finals /\ UNCHANGED peer
    BY <1>9 DEF TakeFinal, Ending, netVars
  <2>2. Decision[running] = Head(rx).kind /\ running \in Txs
    BY <1>0, <2>1, ChannelHead DEF Channel, Honest, Decision, TypeTx
  <2> QED BY <1>0, <1>2, <2>1, <2>2, ReturnMapping, DecisionSame DEF Finals
<1>10. ASSUME NEW t \in Txs, NEW k \in Finals, PeerAnswers(t, k) PROVE RR!Next
  <2>1. /\ peer[t] = "trying" /\ peer' = [peer EXCEPT ![t] = k]
        /\ UNCHANGED <<running, outcome>>
    BY <1>10 DEF PeerAnswers, txVars
  <2>2. Decision[t] = "none" /\ Decision' = [Decision EXCEPT ![t] = k]
    BY <1>0, <2>1 DEF Decision, TypeNet, Finals
  <2>3. Status[t] # "new" /\ Status' = Status
    BY <1>0, <2>1 DEF Status, Heard, TypeTx, Outcomes, Finals, Errors
  <2> QED BY <1>4, <2>2, <2>3
<1>11. ASSUME NEW t \in Txs, PeerReceives(t) PROVE Status' = Status /\ Decision' = Decision
  BY <1>0, <1>11 DEF PeerReceives, Status, Decision, txVars, TypeNet, Finals
<1>12. ASSUME NEW t \in Txs, PeerIsBusy(t) \/ PeerRepeats(t) \/ LoseRequest(t)
       PROVE  UNCHANGED <<running, outcome, peer>>
  BY <1>12 DEF PeerIsBusy, PeerRepeats, LoseRequest, txVars
<1>13. ASSUME NEW m \in Responses, Receive(m) \/ LoseResponse(m)
       PROVE  UNCHANGED <<running, outcome, peer>>
  BY <1>13 DEF Receive, LoseResponse, txVars
<1>14. Retransmit \/ PollEnds \/ TakeProvisional \/ Tick \/ UNCHANGED vars
       => UNCHANGED <<running, outcome, peer>>
  BY DEF Retransmit, PollEnds, TakeProvisional, Tick, vars, txVars, netVars
<1> QED
  BY <1>5, <1>6, <1>7, <1>8, <1>9, <1>10, <1>11, <1>12, <1>13, <1>14, SameMapping
  DEF Next, Client, Loop, Environment

\* Whatever the network does, the select! loop and its table behave like an
\* exchange of one request at a time with its own answer.
THEOREM Refinement == Spec => ImplementsRequestResponse
<1>1. Init => RR!Init
  BY ClientTransactionAssumption DEF Init, RR!Init, Finals
<1> QED BY <1>1, RefinementStep, InvariantHolds, PTL DEF Spec, RR!Spec, ImplementsRequestResponse
==============================================================================
