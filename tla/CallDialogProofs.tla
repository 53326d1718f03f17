--------------------------- MODULE CallDialogProofs ---------------------------
(***************************************************************************)
(* Proofs about CallDialog for every set of calls.  The first and the      *)
(* third part hold for every account and every user; the second and the    *)
(* refinement for accounts without auto-answer whose users keep to one     *)
(* call at a time.  What they say of ringing calls and of calls that are   *)
(* over excepts the calls whose INVITE was queued more than once (again).  *)
(***************************************************************************)
EXTENDS CallDialog, SequenceTheorems, TLAPS

\* An operation under way works on some call.
Working == op.kind # "none" => op.call \in Calls

IInv == TypeOK /\ Working /\ OpOwnsItsCall

LEMMA InitIInv == Init => IInv
<1> SUFFICES ASSUME Init PROVE IInv
  OBVIOUS
<1>1. op \in [kind : Kinds, call : MaybeCall, task : MaybeCall, reply : Replies] /\ op.kind = "none"
  BY DEF Init, Free, Kinds, MaybeCall, Replies
<1>2. watcher \in [at : Stops, call : MaybeCall] /\ watcher.at = "poll" /\ watcher.call = NoCall
  BY DEF Init, Polling, Stops, MaybeCall
<1>3. history \in [Calls -> Records] /\ leg \in [Calls -> Legs]
  BY DEF Init, Records, Legs
<1>4. queue \in Seq(Requests)
  BY DEF Init
<1>5. answered \subseteq Calls /\ again \subseteq Calls /\ offers \in 0 .. MaxOffers
  BY CallAssumption DEF Init
<1>6. TypeOK
  BY <1>1, <1>2, <1>3, <1>4, <1>5 DEF Init, TypeOK, MaybeCall
<1> QED BY <1>1, <1>6 DEF IInv, Working, OpOwnsItsCall

\* Writing a record keeps the history a history.
LEMMA RecordedType ==
  ASSUME history \in [Calls -> Records], NEW c, NEW state \in Records, Recorded(c, state)
  PROVE  history' \in [Calls -> Records]
BY DEF Recorded

LEMMA QueueType ==
  ASSUME queue \in Seq(Requests), queue # <<>>
  PROVE  Head(queue) \in Requests /\ Tail(queue) \in Seq(Requests)
BY HeadTailProperties

\* The variables that only the watcher, the peers and the refreshers change.
TypeRest ==
    /\ op \in [kind : Kinds, call : MaybeCall, task : MaybeCall, reply : Replies]
    /\ refreshers \subseteq Calls
    /\ watcher \in [at : Stops, call : MaybeCall]
    /\ (watcher.at = "poll") = (watcher.call = NoCall)
    /\ queue \in Seq(Requests)
    /\ leg \in [Calls -> Legs]

TypeDialog ==
    /\ call \in MaybeCall
    /\ remoteUri \in MaybeCall
    /\ held \in BOOLEAN
    /\ ringing \in MaybeCall
    /\ rtp \subseteq Calls
    /\ history \in [Calls -> Records]

TypeCopies == answered \subseteq Calls /\ again \subseteq Calls /\ offers \in 0 .. MaxOffers

LEMMA TypeSplit == TypeOK <=> TypeDialog /\ TypeRest /\ TypeCopies
BY DEF TypeOK, TypeDialog, TypeRest, TypeCopies

\* Calls are offered again by their peers alone.
LEMMA AgainStep ==
  ASSUME [Next]_vars
  PROVE  \/ again' = again
         \/ \E c \in Calls : again' = again \cup {c} /\ UNCHANGED <<dialog, op, watcher>>
<1>1. CASE Finish
  BY <1>1
     DEF Finish, InviteFails, InviteRefused, InviteUnchallenged, InviteAnswered, InviteUnacked,
         ByeAnswered, ByeFails, CancelAccepted, RequestUnsuccessful, ReinviteAccepted,
         RefreshFails, RefreshRefused, copies
<1>2. CASE Watch
  BY <1>2
     DEF Watch, TakeRequest, CleanUpAfterBye, ClearRinging, TerminateInvite, CheckBusy,
         SendBusy, AutoAnswerCall, AnswerIncoming, AutoAnswerFails, Ring, copies
<1>3. ASSUME NEW c \in Calls, NEW method, Repeated(c, method)
      PROVE  again' = again \/ (again' = again \cup {c} /\ UNCHANGED <<dialog, op, watcher>>)
  BY <1>3 DEF Repeated
<1>4. CASE Peers
  BY <1>3, <1>4
     DEF Peers, PeerInvites, PeerCancels, PeerHangsUp, PeerRepeats, PeerReinvites, PeerReplies,
         PeerAnswersLate, copies
<1> QED
  BY <1>1, <1>2, <1>4
     DEF Next, Invite, InviteWithoutPort, Answer, AnswerIncoming, Reject, InDialog,
         RefresherExits, RefresherWakes, vars, copies

LEMMA CopiesStep == IInv /\ [Next]_vars => TypeCopies'
<1> SUFFICES ASSUME IInv, [Next]_vars PROVE TypeCopies'
  OBVIOUS
<1>0. TypeDialog /\ TypeRest /\ TypeCopies
  BY TypeSplit DEF IInv
<1>1. again' \subseteq Calls
  BY <1>0, AgainStep DEF TypeCopies
<1>2. answered' \subseteq Calls
  <2>1. answered' \subseteq answered \cup ({ringing, watcher.call} \cap Calls)
    <3>1. CASE Finish
      BY <3>1
         DEF Finish, InviteFails, InviteRefused, InviteUnchallenged, InviteAnswered,
             InviteUnacked, ByeAnswered, ByeFails, CancelAccepted, RequestUnsuccessful,
             ReinviteAccepted, RefreshFails, RefreshRefused, copies
    <3>2. CASE Watch
      <4>1. CASE AutoAnswerCall \/ Ring
        <5>1. watcher.call \in Calls
          BY <1>0, <4>1 DEF AutoAnswerCall, Ring, TypeRest, MaybeCall
        <5> QED BY <4>1, <5>1 DEF AutoAnswerCall, AnswerIncoming, Ring
      <4>2. CASE ~AutoAnswerCall /\ ~Ring
        BY <3>2, <4>2
           DEF Watch, TakeRequest, CleanUpAfterBye, ClearRinging, TerminateInvite, CheckBusy,
               SendBusy, AutoAnswerFails, copies
      <4> QED BY <4>1, <4>2
    <3>3. CASE Peers
      BY <3>3
         DEF Peers, PeerInvites, PeerCancels, PeerHangsUp, PeerRepeats, PeerReinvites,
             PeerReplies, PeerAnswersLate, copies
    <3>4. CASE Answer \/ Reject
      <4>1. ringing \in Calls
        BY <1>0, <3>4 DEF Answer, Reject, TypeDialog, MaybeCall
      <4> QED BY <3>4, <4>1 DEF Answer, AnswerIncoming, Reject
    <3> QED
      BY <3>1, <3>2, <3>3, <3>4
         DEF Next, Invite, InviteWithoutPort, InDialog, RefresherExits, RefresherWakes, vars,
             copies
  <2> QED BY <1>0, <2>1 DEF TypeCopies
<1>3. offers' \in 0 .. MaxOffers
  <2>1. offers' = offers \/ Counted
    <3>1. CASE Finish
      BY <3>1
         DEF Finish, InviteFails, InviteRefused, InviteUnchallenged, InviteAnswered,
             InviteUnacked, ByeAnswered, ByeFails, CancelAccepted, RequestUnsuccessful,
             ReinviteAccepted, RefreshFails, RefreshRefused, copies
    <3>2. CASE Watch
      BY <3>2
         DEF Watch, TakeRequest, CleanUpAfterBye, ClearRinging, TerminateInvite, CheckBusy,
             SendBusy, AutoAnswerCall, AnswerIncoming, AutoAnswerFails, Ring, copies
    <3>3. CASE Peers
      BY <3>3
         DEF Peers, PeerInvites, PeerCancels, PeerHangsUp, PeerRepeats, PeerReinvites, Repeated,
             PeerReplies, PeerAnswersLate, copies
    <3> QED
      BY <3>1, <3>2, <3>3
         DEF Next, Invite, InviteWithoutPort, Answer, AnswerIncoming, Reject, InDialog,
             RefresherExits, RefresherWakes, vars, copies
  <2> QED BY <1>0, <2>1, CallAssumption DEF TypeCopies, Counted
<1> QED BY <1>1, <1>2, <1>3 DEF TypeCopies

LEMMA DialogStep == IInv /\ [Next]_vars => TypeDialog'
<1> SUFFICES ASSUME IInv, [Next]_vars PROVE TypeDialog'
  OBVIOUS
<1> USE CallAssumption DEF MaybeCall, Calls
<1>0. TypeDialog /\ TypeRest /\ Working
  BY TypeSplit DEF IInv
<1>1. ASSUME UNCHANGED dialog PROVE TypeDialog'
  BY <1>0, <1>1 DEF TypeDialog, dialog
<1>2. ASSUME NEW c, NEW state \in Records, Recorded(c, state), call' \in MaybeCall,
             remoteUri' \in MaybeCall, held' \in BOOLEAN, ringing' \in MaybeCall, rtp' \subseteq Calls
      PROVE  TypeDialog'
  BY <1>0, <1>2, RecordedType DEF TypeDialog
<1>3. {"Dialing", "Connected", "Completed", "Failed", "Cancelled", "Rejected"} \subseteq Records
  BY DEF Records
<1>4. ASSUME NEW c \in OutCalls, Invite(c) PROVE TypeDialog'
  BY <1>0, <1>2, <1>3, <1>4 DEF Invite, TypeDialog
<1>5. ASSUME NEW c \in OutCalls, InviteWithoutPort(c) PROVE TypeDialog'
  BY <1>0, <1>5 DEF InviteWithoutPort, TypeDialog
<1>6. ASSUME NEW c \in Calls, AnswerIncoming(c) PROVE TypeDialog'
  BY <1>0, <1>2, <1>3, <1>6 DEF AnswerIncoming, TypeDialog
<1>7. CASE Answer
  <2>1. ringing \in Calls
    BY <1>0, <1>7 DEF Answer, TypeDialog
  <2> QED BY <1>6, <1>7, <2>1 DEF Answer
<1>8. CASE Reject
  BY <1>0, <1>2, <1>3, <1>8 DEF Reject, TypeDialog
<1>9. CASE Finish
  <2>1. CASE InviteFails
    BY <1>0, <1>2, <1>3, <2>1 DEF InviteFails, TypeDialog
  <2>2. CASE InviteRefused
    BY <1>0, <1>2, <1>3, <2>2 DEF InviteRefused, ClearDialog, DropReceiver, TypeDialog
  <2>3. CASE InviteAnswered
    <3>1. op.call \in Calls
      BY <1>0, <2>3 DEF InviteAnswered, Working
    <3> QED BY <1>0, <1>2, <1>3, <2>3, <3>1 DEF InviteAnswered, TypeDialog
  <2>4. CASE InviteUnacked
    <3>1. op.call \in Calls
      BY <1>0, <2>4 DEF InviteUnacked, Working
    <3> QED BY <1>0, <2>4, <3>1 DEF InviteUnacked, TypeDialog
  <2>5. CASE ByeAnswered
    BY <1>0, <1>2, <1>3, <2>5 DEF ByeAnswered, ClearDialog, StopRtp, TypeDialog
  <2>6. CASE CancelAccepted
    BY <1>0, <1>2, <1>3, <2>6 DEF CancelAccepted, ClearDialog, StopRtp, TypeDialog
  <2>7. CASE ReinviteAccepted
    <3>1. held' \in BOOLEAN
      BY <1>0, <2>7 DEF ReinviteAccepted, Reinviting, HeldAfter, TypeDialog
    <3> QED BY <1>0, <2>7, <3>1 DEF ReinviteAccepted, TypeDialog
  <2>8. CASE InviteUnchallenged \/ ByeFails \/ RequestUnsuccessful \/ RefreshFails \/ RefreshRefused
    BY <1>1, <2>8
       DEF InviteUnchallenged, ByeFails, RequestUnsuccessful, RefreshFails, RefreshRefused
  <2> QED BY <1>9, <2>1, <2>2, <2>3, <2>4, <2>5, <2>6, <2>7, <2>8 DEF Finish
<1>10. CASE Watch
  <2>1. CASE TakeRequest \/ SendBusy \/ AutoAnswerFails
    BY <1>1, <2>1 DEF TakeRequest, SendBusy, AutoAnswerFails
  <2>2. CASE CleanUpAfterBye
    BY <1>0, <1>2, <1>3, <2>2 DEF CleanUpAfterBye, ClearDialog, StopRtp, TypeDialog
  <2>3. CASE ClearRinging
    BY <1>0, <2>3 DEF ClearRinging, TypeDialog
  <2>4. CASE TerminateInvite
    BY <1>0, <1>2, <1>3, <2>4 DEF TerminateInvite, TypeDialog
  <2>5. CASE CheckBusy
    <3>1. history' = history \/ Recorded(watcher.call, "Dialing")
      BY <2>5 DEF CheckBusy
    <3> QED BY <1>0, <1>2, <1>3, <2>5, <3>1 DEF CheckBusy, TypeDialog
  <2>6. CASE AutoAnswerCall
    <3>1. watcher.call \in Calls
      BY <1>0, <2>6 DEF AutoAnswerCall, TypeRest
    <3> QED BY <1>6, <2>6, <3>1 DEF AutoAnswerCall
  <2>7. CASE Ring
    BY <1>0, <2>7 DEF Ring, TypeDialog, TypeRest
  <2> QED BY <1>10, <2>1, <2>2, <2>3, <2>4, <2>5, <2>6, <2>7 DEF Watch
<1>11. CASE Peers
  BY <1>1, <1>11
     DEF Peers, PeerInvites, PeerCancels, PeerHangsUp, PeerSends, PeerRepeats, PeerReinvites,
         Repeated, PeerReplies, PeerAnswersLate
<1>12. ASSUME NEW kind, InDialog(kind) PROVE TypeDialog'
  BY <1>1, <1>12 DEF InDialog
<1>13. ASSUME NEW c, RefresherExits(c) \/ RefresherWakes(c) PROVE TypeDialog'
  BY <1>1, <1>13 DEF RefresherExits, RefresherWakes
<1>14. CASE UNCHANGED vars
  BY <1>1, <1>14 DEF vars
<1> QED BY <1>4, <1>5, <1>7, <1>8, <1>9, <1>10, <1>11, <1>12, <1>13, <1>14 DEF Next

\* Who holds the mutex, for which call, and what the peer answered.
TypeOp == op \in [kind : Kinds, call : MaybeCall, task : MaybeCall, reply : Replies]

LEMMA OpStep == IInv /\ [Next]_vars => TypeOp' /\ Working' /\ OpOwnsItsCall'
<1> SUFFICES ASSUME IInv, [Next]_vars PROVE TypeOp' /\ Working' /\ OpOwnsItsCall'
  OBVIOUS
<1> USE CallAssumption DEF MaybeCall, Calls, LockFree, InCall
<1>0. TypeDialog /\ TypeRest /\ Working /\ OpOwnsItsCall /\ TypeOp
  BY TypeSplit DEF IInv, TypeRest, TypeOp
<1>1. ASSUME UNCHANGED <<op, call>> PROVE TypeOp' /\ Working' /\ OpOwnsItsCall'
  BY <1>0, <1>1 DEF TypeOp, Working, OpOwnsItsCall
<1>2. ASSUME op' = Free PROVE TypeOp' /\ Working' /\ OpOwnsItsCall'
  BY <1>2 DEF TypeOp, Working, OpOwnsItsCall, Free, Kinds, Replies
<1>3. ASSUME UNCHANGED op, LockFree PROVE TypeOp' /\ Working' /\ OpOwnsItsCall'
  BY <1>0, <1>3 DEF TypeOp, Working, OpOwnsItsCall
<1>4. ASSUME NEW c \in OutCalls, Invite(c) PROVE TypeOp' /\ Working' /\ OpOwnsItsCall'
  BY <1>4 DEF Invite, Hold, TypeOp, Working, OpOwnsItsCall, Free, Kinds, Replies
<1>5. ASSUME NEW c \in OutCalls, InviteWithoutPort(c) PROVE TypeOp' /\ Working' /\ OpOwnsItsCall'
  BY <1>3, <1>5 DEF InviteWithoutPort
<1>6. CASE Answer \/ Reject
  BY <1>3, <1>6 DEF Answer, Reject
<1>7. ASSUME NEW kind \in {"bye", "cancel", "hold", "resume"}, InDialog(kind)
      PROVE  TypeOp' /\ Working' /\ OpOwnsItsCall'
  BY <1>0, <1>7
     DEF InDialog, Hold, dialog, TypeDialog, TypeOp, Working, OpOwnsItsCall, Free, Kinds, Replies
<1>8. ASSUME NEW c \in refreshers, RefresherExits(c) PROVE TypeOp' /\ Working' /\ OpOwnsItsCall'
  BY <1>3, <1>8 DEF RefresherExits
<1>9. ASSUME NEW c \in refreshers, RefresherWakes(c) PROVE TypeOp' /\ Working' /\ OpOwnsItsCall'
  BY <1>0, <1>9
     DEF RefresherWakes, dialog, TypeDialog, TypeRest, TypeOp, Working, OpOwnsItsCall, Kinds, Replies
<1>10. CASE Finish
  <2>1. CASE RefreshFails
    BY <1>0, <2>1
       DEF RefreshFails, dialog, TypeOp, Working, OpOwnsItsCall, Kinds, Replies
  <2>2. ASSUME ~RefreshFails PROVE op' = Free
    BY <1>10, <2>2
       DEF Finish, InviteFails, InviteRefused, InviteUnchallenged, InviteAnswered, InviteUnacked,
           ByeAnswered, ByeFails, CancelAccepted, RequestUnsuccessful, ReinviteAccepted,
           RefreshRefused
  <2> QED BY <1>2, <2>1, <2>2
<1>11. CASE Watch
  BY <1>3, <1>11
     DEF Watch, TakeRequest, CleanUpAfterBye, ClearRinging, TerminateInvite, CheckBusy,
         SendBusy, AutoAnswerCall, AutoAnswerFails, Ring
<1>12. CASE Peers
  <2>1. ASSUME NEW reply \in Replies, PeerReplies(reply)
        PROVE  TypeOp' /\ Working' /\ OpOwnsItsCall'
    BY <1>0, <2>1 DEF PeerReplies, dialog, TypeOp, Working, OpOwnsItsCall
  <2>2. ASSUME UNCHANGED <<dialog, op>> PROVE TypeOp' /\ Working' /\ OpOwnsItsCall'
    BY <1>1, <2>2 DEF dialog
  <2> QED
    BY <1>12, <2>1, <2>2
       DEF Peers, PeerInvites, PeerCancels, PeerHangsUp, PeerSends, PeerRepeats, PeerReinvites,
           Repeated, PeerAnswersLate
<1>13. CASE UNCHANGED vars
  BY <1>1, <1>13 DEF vars, dialog
<1> QED
  BY <1>4, <1>5, <1>6, <1>7, <1>8, <1>9, <1>10, <1>11, <1>12, <1>13 DEF Next

LEMMA RestStep == IInv /\ [Next]_vars => TypeRest'
<1> SUFFICES ASSUME IInv, [Next]_vars PROVE TypeRest'
  OBVIOUS
<1> USE CallAssumption DEF MaybeCall, Calls
<1>0. TypeDialog /\ TypeRest /\ Working
  BY TypeSplit DEF IInv
<1>1. TypeOp'
  BY OpStep
<1>2. refreshers' \subseteq Calls
  <2>1. CASE InviteAnswered
    BY <1>0, <2>1 DEF InviteAnswered, TypeRest, Working
  <2>2. CASE Answer
    BY <1>0, <2>2 DEF Answer, TypeDialog, TypeRest
  <2>3. ASSUME ~InviteAnswered, ~Answer PROVE refreshers' \subseteq refreshers
    BY <2>3
       DEF Next, Finish, Watch, Peers, vars, Invite, InviteWithoutPort, Reject, InDialog,
           RefresherExits, RefresherWakes, InviteFails, InviteRefused, InviteUnchallenged,
           InviteUnacked, ByeAnswered, ByeFails, RefreshersLeft, CancelAccepted,
           RequestUnsuccessful, ReinviteAccepted, RefreshFails, RefreshRefused, TakeRequest,
           CleanUpAfterBye, ClearRinging, TerminateInvite, CheckBusy, SendBusy, AutoAnswerCall,
           AutoAnswerFails, Ring, PeerInvites, PeerCancels, PeerHangsUp, PeerSends, PeerRepeats,
           PeerReinvites, Repeated, PeerReplies, PeerAnswersLate
  <2> QED BY <1>0, <2>1, <2>2, <2>3 DEF TypeRest
<1>3. watcher' \in [at : Stops, call : MaybeCall] /\ (watcher'.at = "poll") = (watcher'.call = NoCall)
  <2>1. CASE UNCHANGED watcher
    BY <1>0, <2>1 DEF TypeRest
  <2>2. CASE watcher' = Polling
    BY <2>2 DEF Polling, Stops
  <2>3. ASSUME NEW at \in Stops \ {"poll"}, watcher.at # "poll", GoTo(at)
        PROVE  /\ watcher' \in [at : Stops, call : MaybeCall]
               /\ (watcher'.at = "poll") = (watcher'.call = NoCall)
    BY <1>0, <2>3 DEF GoTo, TypeRest
  <2>4. CASE TakeRequest
    BY <1>0, <2>4, QueueType DEF TakeRequest, Requests, Stops, TypeRest
  <2>5. CASE ClearRinging
    BY <2>3, <2>5 DEF ClearRinging, Stops
  <2>6. CASE CheckBusy
    <3>1. watcher.at = "INVITE" /\ (GoTo("busy") \/ GoTo("answer") \/ GoTo("ring"))
      BY <2>6 DEF CheckBusy
    <3> QED BY <2>3, <3>1 DEF Stops
  <2>7. ASSUME ~TakeRequest, ~ClearRinging, ~CheckBusy
        PROVE  UNCHANGED watcher \/ watcher' = Polling
    BY <2>7
       DEF Next, Finish, Watch, Peers, vars, Invite, InviteWithoutPort, Answer, Reject, InDialog,
           RefresherExits, RefresherWakes, InviteFails, InviteRefused, InviteUnchallenged,
           InviteAnswered, InviteUnacked, ByeAnswered, ByeFails, CancelAccepted,
           RequestUnsuccessful, ReinviteAccepted, RefreshFails, RefreshRefused,
           CleanUpAfterBye, TerminateInvite, SendBusy, AutoAnswerCall, AutoAnswerFails, Ring,
           PeerInvites, PeerCancels, PeerHangsUp, PeerSends, PeerRepeats, PeerReinvites, Repeated,
           PeerReplies, PeerAnswersLate
  <2> QED BY <2>1, <2>2, <2>4, <2>5, <2>6, <2>7
<1>4. queue' \in Seq(Requests)
  <2>1. CASE TakeRequest
    BY <1>0, <2>1, QueueType DEF TakeRequest, TypeRest
  <2>2. ASSUME NEW r \in Requests, queue' = Append(queue, r) PROVE queue' \in Seq(Requests)
    BY <1>0, <2>2 DEF TypeRest
  <2>3. CASE Peers
    BY <1>0, <2>2, <2>3
       DEF Peers, PeerInvites, PeerCancels, PeerHangsUp, PeerSends, PeerRepeats, PeerReinvites,
           Repeated, PeerReplies, PeerAnswersLate, Requests, TypeRest
  <2>4. ASSUME ~TakeRequest, ~Peers PROVE UNCHANGED queue
    BY <2>4
       DEF Next, Finish, Watch, vars, Invite, InviteWithoutPort, Answer, Reject, InDialog,
           RefresherExits, RefresherWakes, InviteFails, InviteRefused, InviteUnchallenged,
           InviteAnswered, InviteUnacked, ByeAnswered, ByeFails, CancelAccepted,
           RequestUnsuccessful, ReinviteAccepted, RefreshFails, RefreshRefused,
           CleanUpAfterBye, ClearRinging, TerminateInvite, CheckBusy, SendBusy, AutoAnswerCall,
           AutoAnswerFails, Ring
  <2> QED BY <1>0, <2>1, <2>3, <2>4 DEF TypeRest
<1>5. leg' \in [Calls -> Legs]
  <2> USE DEF Legs
  <2>1. leg \in [Calls -> Legs]
    BY <1>0 DEF TypeRest
  <2>2. \A c : leg[c] \in Legs \/ c \notin Calls
    BY <2>1
  <2>3. ASSUME NEW c, AnswerIncoming(c) PROVE leg' \in [Calls -> Legs]
    BY <2>1, <2>3 DEF AnswerIncoming
  <2>4. CASE Answer \/ Reject
    BY <2>1, <2>3, <2>4 DEF Answer, Reject
  <2>5. CASE Watch
    BY <2>1, <2>3, <2>5
       DEF Watch, TakeRequest, CleanUpAfterBye, ClearRinging, TerminateInvite, CheckBusy,
           SendBusy, AutoAnswerCall, AutoAnswerFails, Ring
  <2>6. ASSUME NEW reply, PeerReplies(reply) PROVE leg' \in [Calls -> Legs]
    BY <2>1, <2>6 DEF PeerReplies
  <2>7. CASE Peers
    BY <2>1, <2>6, <2>7
       DEF Peers, PeerInvites, PeerCancels, PeerHangsUp, PeerSends, PeerRepeats, PeerReinvites,
           Repeated, PeerAnswersLate
  <2>8. ASSUME NEW c \in OutCalls, Invite(c) \/ InviteWithoutPort(c) PROVE leg' \in [Calls -> Legs]
    BY <2>1, <2>8 DEF Invite, InviteWithoutPort
  <2>9. CASE Finish
    BY <2>1, <2>9
       DEF Finish, InviteFails, InviteRefused, InviteUnchallenged, InviteAnswered, InviteUnacked,
           ByeAnswered, ByeFails, CancelAccepted, RequestUnsuccessful, ReinviteAccepted,
           RefreshFails, RefreshRefused
  <2> QED
    BY <2>1, <2>4, <2>5, <2>7, <2>8, <2>9
       DEF Next, vars, InDialog, RefresherExits, RefresherWakes
<1> QED BY <1>1, <1>2, <1>3, <1>4, <1>5 DEF TypeRest, TypeOp

LEMMA Inductive == IInv /\ [Next]_vars => IInv'
<1> SUFFICES ASSUME IInv, [Next]_vars PROVE IInv'
  OBVIOUS
<1>1. TypeDialog' /\ TypeRest' /\ TypeCopies' /\ Working' /\ OpOwnsItsCall'
  BY DialogStep, RestStep, CopiesStep, OpStep
<1>2. TypeOK'
  BY <1>1 DEF TypeOK, TypeDialog, TypeRest, TypeCopies
<1> QED BY <1>1, <1>2 DEF IInv

\* The invariant holds in every reachable state.
THEOREM InvariantHolds == Spec => []IInv
BY InitIInv, Inductive, PTL DEF Spec

\* Every variable keeps its type, whatever users, watcher, refreshers and peers do.
THEOREM TypeCorrect == Spec => []TypeOK
<1>1. IInv => TypeOK
  BY DEF IInv
<1> QED BY InvariantHolds, <1>1, PTL

\* No call goes away beneath a request that is under way for it: the mutex that
\* bye, cancel, hold_resume and the refresher keep across their exchange keeps
\* out the watcher and each other, for any number of calls and refreshers.
LEMMA RequestsOwnTheirCall == Spec => []OpOwnsItsCall
<1>1. IInv => OpOwnsItsCall
  BY DEF IInv
<1> QED BY InvariantHolds, <1>1, PTL

(***************************************************************************)
(* An account without auto-answer whose users keep to one call at a time.  *)
(***************************************************************************)
SimpleUse == OneCallAtATime /\ ~AutoAnswer

\* Nothing is placed or answered during a call, so the receiver that is running
\* and the record that reads "Connected" are those of the call that is up.
LineInv ==
    /\ op.kind = "invite" => call = NoCall
    /\ watcher.at # "answer"
    /\ RtpFollowsTheCall
    /\ ConnectedIsCurrent

LEMMA InitLine == Init => LineInv
BY CallAssumption
   DEF Init, LineInv, Free, Polling, RtpFollowsTheCall, ConnectedIsCurrent, Calls

\* A record is closed or opened, but none reads "Connected" that did not before.
LEMMA ClosingRecord ==
  ASSUME history \in [Calls -> Records], NEW c, NEW state, state # "Connected", Recorded(c, state)
  PROVE  \A d \in Calls : history'[d] = "Connected" => history[d] = "Connected" /\ d # c
<1> SUFFICES ASSUME NEW d \in Calls, history'[d] = "Connected"
             PROVE  history[d] = "Connected" /\ d # c
  OBVIOUS
<1>1. CASE history' = history /\ history[c] = "none"
  BY <1>1
<1>2. CASE history' = [history EXCEPT ![c] = state]
  BY <1>2
<1> QED BY <1>1, <1>2 DEF Recorded

\* The only record that may newly read "Connected" is c's.
LEMMA ConnectingRecord ==
  ASSUME history \in [Calls -> Records], NEW c, Recorded(c, "Connected")
  PROVE  \A d \in Calls : history'[d] = "Connected" => history[d] = "Connected" \/ d = c
BY DEF Recorded

LEMMA LineStep == SimpleUse /\ IInv /\ LineInv /\ [Next]_vars => LineInv'
<1> SUFFICES ASSUME SimpleUse, IInv, LineInv, [Next]_vars PROVE LineInv'
  OBVIOUS
<1> USE CallAssumption DEF Calls, InCall, LockFree, SimpleUse
<1>0. TypeDialog /\ TypeRest /\ Working /\ OpOwnsItsCall
  BY TypeSplit DEF IInv
<1>1. history \in [Calls -> Records] /\ rtp \subseteq Calls
  BY <1>0 DEF TypeDialog
\* No call, or the same call, and nothing newly connected.
<1>2. ASSUME call' = call, rtp' = rtp, op'.kind # "invite" \/ op' = op, watcher'.at # "answer",
             \/ history' = history
             \/ \E c, state : state # "Connected" /\ Recorded(c, state)
      PROVE  LineInv'
  <2>1. \A d \in Calls : history'[d] = "Connected" => history[d] = "Connected"
    BY <1>1, <1>2, ClosingRecord
  <2> QED BY <1>2, <2>1 DEF LineInv, RtpFollowsTheCall, ConnectedIsCurrent
\* The call is over: its receiver is stopped and its record closed.
<1>3. ASSUME StopRtp \/ (UNCHANGED rtp /\ call = NoCall), ClearDialog, op' = Free \/ op' = op,
             watcher'.at # "answer",
             NEW c, NEW state, state # "Connected", Recorded(c, state), call # NoCall => c = call
      PROVE  LineInv'
  <2>1. \A d \in Calls : history'[d] = "Connected" => history[d] = "Connected" /\ d # c
    BY <1>1, <1>3, ClosingRecord
  <2>2. \A d \in Calls : history'[d] # "Connected"
    BY <2>1, <1>3 DEF LineInv, ConnectedIsCurrent
  <2>3. rtp' = {}
    BY <1>1, <1>3 DEF StopRtp, LineInv, RtpFollowsTheCall
  <2>4. call' = NoCall
    BY <1>3 DEF ClearDialog
  <2> QED BY <1>3, <2>2, <2>3, <2>4 DEF LineInv, RtpFollowsTheCall, ConnectedIsCurrent
\* A call is set up, and there was none before.
<1>4. ASSUME NEW c \in Calls, call = NoCall, call' = c, rtp' \subseteq rtp \cup {c},
             Recorded(c, "Connected") \/ history' = history, op'.kind # "invite", watcher' = watcher
      PROVE  LineInv'
  <2>1. \A d \in Calls : history'[d] = "Connected" => history[d] = "Connected" \/ d = c
    BY <1>1, <1>4, ConnectingRecord
  <2>2. \A d \in Calls : history'[d] = "Connected" => d = c
    BY <2>1, <1>4 DEF LineInv, ConnectedIsCurrent
  <2>3. rtp = {}
    BY <1>1, <1>4 DEF LineInv, RtpFollowsTheCall
  <2> QED BY <1>4, <2>2, <2>3 DEF LineInv, RtpFollowsTheCall, ConnectedIsCurrent
<1>5. ASSUME UNCHANGED <<call, rtp, history, op, watcher>> PROVE LineInv'
  BY <1>2, <1>5 DEF LineInv
<1>6. ASSUME NEW c \in OutCalls, Invite(c) PROVE LineInv'
  <2>1. call = NoCall /\ rtp' = rtp /\ call' = call /\ watcher' = watcher
    BY <1>6 DEF Invite, MayCall
  <2>2. \A d \in Calls : history'[d] = "Connected" => history[d] = "Connected"
    BY <1>1, <1>6, ClosingRecord DEF Invite
  <2> QED BY <2>1, <2>2 DEF LineInv, RtpFollowsTheCall, ConnectedIsCurrent
<1>7. ASSUME NEW c \in OutCalls, InviteWithoutPort(c) PROVE LineInv'
  BY <1>5, <1>7 DEF InviteWithoutPort
<1>8. CASE Answer
  <2>1. ringing \in Calls
    BY <1>0, <1>8 DEF Answer, TypeDialog, MaybeCall
  <2> QED BY <1>4, <1>8, <2>1 DEF Answer, AnswerIncoming
<1>9. CASE Reject
  BY <1>2, <1>9 DEF Reject, LineInv
<1>10. ASSUME NEW kind \in {"bye", "cancel", "hold", "resume"}, InDialog(kind) PROVE LineInv'
  BY <1>2, <1>10 DEF InDialog, Hold, Free, dialog, LineInv
<1>11. ASSUME NEW c \in refreshers, RefresherExits(c) \/ RefresherWakes(c) PROVE LineInv'
  BY <1>2, <1>11 DEF RefresherExits, RefresherWakes, dialog, LineInv
<1>12. CASE Finish
  <2>0. Free.kind # "invite"
    BY DEF Free
  <2>1. CASE InviteFails
    BY <1>2, <2>0, <2>1 DEF InviteFails, LineInv
  <2>2. CASE InviteRefused
    <3>1. Recorded(op.call, "Failed") /\ ClearDialog /\ op' = Free /\ watcher' = watcher
      BY <2>2 DEF InviteRefused
    <3>2. UNCHANGED rtp /\ call = NoCall
      BY <2>2 DEF InviteRefused, DropReceiver, LineInv
    <3>3. watcher'.at # "answer"
      BY <3>1 DEF LineInv
    <3> QED BY <1>3, <3>1, <3>2, <3>3
  <2>3. CASE InviteUnchallenged \/ ByeFails \/ RequestUnsuccessful \/ RefreshFails \/ RefreshRefused
    <3>1. op'.kind # "invite"
      BY <1>0, <2>0, <2>3
         DEF InviteUnchallenged, ByeFails, RequestUnsuccessful, RefreshFails, RefreshRefused, TypeRest
    <3>2. UNCHANGED <<call, rtp, history, watcher>>
      BY <2>3
         DEF InviteUnchallenged, ByeFails, RequestUnsuccessful, RefreshFails, RefreshRefused, dialog
    <3> QED BY <1>2, <3>1, <3>2 DEF LineInv
  <2>4. CASE InviteAnswered
    <3>1. op.call \in Calls /\ call = NoCall
      BY <1>0, <2>4 DEF InviteAnswered, Working, LineInv
    <3> QED BY <1>4, <2>0, <2>4, <3>1 DEF InviteAnswered
  <2>5. CASE InviteUnacked
    <3>1. op.call \in Calls /\ call = NoCall
      BY <1>0, <2>5 DEF InviteUnacked, Working, LineInv
    <3> QED BY <1>4, <2>0, <2>5, <3>1 DEF InviteUnacked
  <2>6. CASE ByeAnswered
    <3>1. op.call = call
      BY <1>0, <2>6 DEF ByeAnswered, Ending, OpOwnsItsCall
    <3>2. Recorded(op.call, "Completed") /\ ClearDialog /\ StopRtp /\ op' = Free
      BY <2>6 DEF ByeAnswered
    <3>3. watcher'.at # "answer"
      BY <2>6 DEF ByeAnswered, LineInv
    <3> QED BY <1>3, <3>1, <3>2, <3>3
  <2>7. CASE CancelAccepted
    <3>1. op.call = call
      BY <1>0, <2>7 DEF CancelAccepted, OpOwnsItsCall
    <3>2. Recorded(op.call, "Cancelled") /\ ClearDialog /\ StopRtp /\ op' = Free
      BY <2>7 DEF CancelAccepted
    <3>3. watcher'.at # "answer"
      BY <2>7 DEF CancelAccepted, LineInv
    <3> QED BY <1>3, <3>1, <3>2, <3>3
  <2>8. CASE ReinviteAccepted
    BY <1>2, <2>0, <2>8 DEF ReinviteAccepted, LineInv
  <2> QED BY <1>12, <2>1, <2>2, <2>3, <2>4, <2>5, <2>6, <2>7, <2>8 DEF Finish
<1>13. CASE Watch
  <2> USE DEF Polling, GoTo
  <2>1. CASE CleanUpAfterBye
    BY <1>3, <2>1 DEF CleanUpAfterBye, ClosedByBye
  <2>2. CASE TakeRequest
    <3>1. watcher'.at \in {"INVITE", "CANCEL", "BYE"}
      BY <1>0, <2>2, QueueType DEF TakeRequest, TypeRest, Requests
    <3> QED BY <1>2, <2>2, <3>1 DEF TakeRequest, dialog
  <2>3. CASE ClearRinging
    <3>1. watcher'.at = "cancelled"
      BY <1>0, <2>3 DEF ClearRinging, TypeRest
    <3> QED BY <1>2, <2>3, <3>1 DEF ClearRinging
  <2>4. CASE CheckBusy
    <3>1. watcher'.at \in {"busy", "ring"}
      BY <1>0, <2>4 DEF CheckBusy, TypeRest
    <3>2. history' = history \/ Recorded(watcher.call, "Dialing")
      BY <2>4 DEF CheckBusy
    <3> QED BY <1>2, <2>4, <3>1, <3>2 DEF CheckBusy
  <2>5. CASE TerminateInvite
    BY <1>2, <2>5 DEF TerminateInvite
  <2>6. CASE SendBusy \/ AutoAnswerFails \/ Ring
    BY <1>2, <2>6 DEF SendBusy, AutoAnswerFails, Ring, dialog
  <2>7. CASE AutoAnswerCall
    BY <2>7 DEF AutoAnswerCall, LineInv
  <2> QED BY <1>13, <2>1, <2>2, <2>3, <2>4, <2>5, <2>6, <2>7 DEF Watch
<1>14. CASE Peers
  <2>1. op'.kind = op.kind \/ op' = op
    BY <1>0, <1>14
       DEF Peers, PeerInvites, PeerCancels, PeerHangsUp, PeerSends, PeerRepeats, PeerReinvites,
           Repeated, PeerReplies, PeerAnswersLate, TypeRest
  <2>2. UNCHANGED <<call, rtp, history, watcher>>
    BY <1>14
       DEF Peers, PeerInvites, PeerCancels, PeerHangsUp, PeerSends, PeerRepeats, PeerReinvites,
           Repeated, PeerReplies, PeerAnswersLate, dialog
  <2> QED BY <2>1, <2>2 DEF LineInv, RtpFollowsTheCall, ConnectedIsCurrent
<1>15. CASE UNCHANGED vars
  BY <1>5, <1>15 DEF vars, dialog
<1> QED
  BY <1>6, <1>7, <1>8, <1>9, <1>10, <1>11, <1>12, <1>13, <1>14, <1>15 DEF Next

LEMMA LineHolds == SimpleUse => (Spec => [](IInv /\ LineInv))
<1> SUFFICES ASSUME SimpleUse PROVE Spec => [](IInv /\ LineInv)
  OBVIOUS
<1>1. IInv /\ LineInv /\ [Next]_vars => (IInv /\ LineInv)'
  BY Inductive, LineStep
<1> QED BY InitIInv, InitLine, <1>1, PTL DEF Spec

\* RTP is received for the call that is up and for no other, and not at all when
\* there is none: every way a call can end stops its receiver.
LEMMA OneReceiver == SimpleUse => (Spec => []RtpFollowsTheCall)
<1>1. LineInv => RtpFollowsTheCall
  BY DEF LineInv
<1> QED BY LineHolds, <1>1, PTL

\* The call history shows no call as connected but the one that is up: whoever
\* ends a call closes its record.
LEMMA HistoryFollowsTheCall == SimpleUse => (Spec => []ConnectedIsCurrent)
<1>1. LineInv => ConnectedIsCurrent
  BY DEF LineInv
<1> QED BY LineHolds, <1>1, PTL

\* An active call is not replaced by another one.
LEMMA CallIsKept ==
  ASSUME SimpleUse, IInv, LineInv, [Next]_vars, call # NoCall
  PROVE  call' \in {call, NoCall}
<1> USE CallAssumption DEF SimpleUse, InCall
<1>1. CASE Finish
  BY <1>1
     DEF Finish, InviteFails, InviteRefused, InviteUnchallenged, InviteAnswered, InviteUnacked,
         ByeAnswered, ByeFails, CancelAccepted, RequestUnsuccessful, ReinviteAccepted,
         RefreshFails, RefreshRefused, ClearDialog, dialog, LineInv
<1>2. CASE Watch
  BY <1>2
     DEF Watch, TakeRequest, CleanUpAfterBye, ClearRinging, TerminateInvite, CheckBusy,
         SendBusy, AutoAnswerCall, AutoAnswerFails, Ring, ClearDialog, dialog, LineInv
<1>3. CASE Peers
  BY <1>3
     DEF Peers, PeerInvites, PeerCancels, PeerHangsUp, PeerSends, PeerRepeats, PeerReinvites,
         Repeated, PeerReplies, PeerAnswersLate, dialog
<1>4. CASE UNCHANGED vars
  BY <1>4 DEF vars, dialog
<1> QED
  BY <1>1, <1>2, <1>3, <1>4
     DEF Next, Invite, InviteWithoutPort, Answer, Reject, InDialog, RefresherExits,
         RefresherWakes, dialog

\* While an INVITE is under way the URI is that of its callee.
PeerInv == PeerIsTheCalls /\ (op.kind = "invite" => remoteUri = op.call)

LEMMA PeerKept ==
  ASSUME SimpleUse, IInv, LineInv, PeerInv, [Next]_vars
  PROVE  PeerInv'
<1> USE CallAssumption DEF Calls, MaybeCall, InCall, LockFree, PeerIsTheCalls, PeerInv
<1>0. TypeDialog /\ TypeRest /\ Working /\ OpOwnsItsCall
  BY TypeSplit DEF IInv
\* Nothing is dialled any more, and the call and its peer are as they were.
<1>1. ASSUME UNCHANGED <<call, remoteUri>>, op'.kind # "invite" \/ op' = op PROVE PeerInv'
  BY <1>1
<1>2. ASSUME NEW c \in OutCalls, Invite(c) \/ InviteWithoutPort(c) PROVE PeerInv'
  <2>1. call = NoCall /\ call' = call /\ remoteUri' = c
    BY <1>2 DEF Invite, InviteWithoutPort, MayCall, SimpleUse
  <2>2. op'.kind = "invite" => op'.call = c
    BY <1>2 DEF Invite, InviteWithoutPort, Hold, Free
  <2> QED BY <2>1, <2>2
<1>3. ASSUME NEW c, AnswerIncoming(c), op' = op, LockFree PROVE PeerInv'
  BY <1>3 DEF AnswerIncoming
<1>4. CASE Finish
  <2>1. op'.kind # "invite"
    <3>1. CASE RefreshFails
      BY <1>0, <3>1 DEF RefreshFails, TypeRest
    <3>2. CASE ~RefreshFails
      <4>1. op' = Free
        BY <1>4, <3>2
           DEF Finish, InviteFails, InviteRefused, InviteUnchallenged, InviteAnswered,
               InviteUnacked, ByeAnswered, ByeFails, CancelAccepted, RequestUnsuccessful,
               ReinviteAccepted, RefreshRefused
      <4> QED BY <4>1 DEF Free
    <3> QED BY <3>1, <3>2
  <2>2. \/ UNCHANGED <<call, remoteUri>>
        \/ call' = NoCall
        \/ op.kind = "invite" /\ call' = op.call /\ remoteUri' = remoteUri
        \/ op.kind = "invite" /\ call' = call
    BY <1>4
       DEF Finish, InviteFails, InviteRefused, InviteUnchallenged, InviteAnswered, InviteUnacked,
           ByeAnswered, ByeFails, CancelAccepted, RequestUnsuccessful, ReinviteAccepted,
           RefreshFails, RefreshRefused, ClearDialog, dialog
  <2>3. op.kind = "invite" => call = NoCall
    BY DEF LineInv
  <2> QED BY <1>1, <2>1, <2>2, <2>3
<1>5. CASE Watch
  <2>1. ~AutoAnswerCall
    BY DEF AutoAnswerCall, LineInv
  <2>2. LockFree \/ UNCHANGED <<call, remoteUri>>
    BY <1>5
       DEF Watch, TakeRequest, CleanUpAfterBye, ClearRinging, TerminateInvite, CheckBusy,
           SendBusy, AutoAnswerCall, AutoAnswerFails, Ring, dialog
  <2>3. op' = op /\ (call' = NoCall \/ UNCHANGED <<call, remoteUri>>)
    BY <1>5, <2>1
       DEF Watch, TakeRequest, CleanUpAfterBye, ClearRinging, TerminateInvite, CheckBusy,
           SendBusy, AutoAnswerFails, Ring, ClearDialog, dialog
  <2> QED BY <1>1, <2>2, <2>3
<1>6. CASE Peers
  <2>1. UNCHANGED <<call, remoteUri>> /\ op'.kind = op.kind /\ op'.call = op.call
    BY <1>0, <1>6
       DEF Peers, PeerInvites, PeerCancels, PeerHangsUp, PeerSends, PeerRepeats, PeerReinvites,
           Repeated, PeerReplies, PeerAnswersLate, dialog, TypeRest
  <2> QED BY <2>1
<1>7. CASE Answer
  BY <1>3, <1>7 DEF Answer
<1>8. ASSUME NEW kind \in {"bye", "cancel", "hold", "resume"}, InDialog(kind) PROVE PeerInv'
  BY <1>1, <1>8 DEF InDialog, Hold, Free, dialog
<1>9. ASSUME NEW c, RefresherExits(c) \/ RefresherWakes(c) PROVE PeerInv'
  BY <1>1, <1>9 DEF RefresherExits, RefresherWakes, dialog
<1> QED
  BY <1>1, <1>2, <1>4, <1>5, <1>6, <1>7, <1>8, <1>9 DEF Next, Reject, vars, dialog

\* Holds, refreshes, cancels and hangups are addressed to the peer of the call that
\* is up, whatever calls failed, rang or ended before it.
LEMMA RequestsReachThePeer == SimpleUse => (Spec => []PeerIsTheCalls)
<1> SUFFICES ASSUME SimpleUse PROVE Spec => []PeerIsTheCalls
  OBVIOUS
<1>1. Init => PeerInv
  BY DEF Init, PeerInv, PeerIsTheCalls, InCall, Free
<1>2. IInv /\ LineInv /\ PeerInv /\ [Next]_vars => PeerInv'
  BY PeerKept
<1>3. PeerInv => PeerIsTheCalls
  BY DEF PeerInv
<1> QED BY LineHolds, <1>1, <1>2, <1>3, PTL DEF Spec

\* Receivers, history and URI follow the call that is up, for any number of calls
\* and refreshers and whichever way calls fail, ring, end or follow one another
\* (call.rs, incoming_call.rs).
THEOREM TracesAreOfTheCall == SimpleUse => (Spec => []TracesFollowTheCall)
<1>1. RtpFollowsTheCall /\ ConnectedIsCurrent /\ PeerIsTheCalls => TracesFollowTheCall
  BY DEF TracesFollowTheCall
<1> QED BY OneReceiver, HistoryFollowsTheCall, RequestsReachThePeer, <1>1, PTL

\* Every refresh repeats the hold state it found, and nobody else gets at `held`
\* while it is under way: for any account and any user.
THEOREM RefreshesKeepHold == Spec => RefreshKeepsHold
<1>1. ASSUME Next, op.kind = "refresh" PROVE held' = held
  <2> USE <1>1 DEF LockFree
  <2>1. CASE Finish
    BY <2>1
       DEF Finish, InviteFails, InviteRefused, InviteUnchallenged, InviteAnswered, InviteUnacked,
           ByeAnswered, ByeFails, Ending, CancelAccepted, RequestUnsuccessful, ReinviteAccepted,
           HeldAfter, RefreshFails, RefreshRefused, dialog
  <2>2. CASE Peers
    BY <2>2
       DEF Peers, PeerInvites, PeerCancels, PeerHangsUp, PeerSends, PeerRepeats, PeerReinvites,
           Repeated, PeerReplies, PeerAnswersLate, dialog
  <2>3. ~Watch
    BY DEF Watch, TakeRequest, CleanUpAfterBye, ClearRinging, TerminateInvite, CheckBusy,
           SendBusy, AutoAnswerCall, AutoAnswerFails, Ring
  <2> QED
    BY <2>1, <2>2, <2>3
       DEF Next, Invite, InviteWithoutPort, Answer, Reject, InDialog, RefresherExits,
           RefresherWakes, dialog
<1>2. ASSUME UNCHANGED vars PROVE held' = held
  BY <1>2 DEF vars, dialog
<1>3. [Next]_vars => [op.kind = "refresh" => held' = held]_vars
  BY <1>1, <1>2
<1> QED BY <1>3, PTL DEF Spec, RefreshKeepsHold

(***************************************************************************)
(* For every account and every user: the record of a call that comes up is *)
(* open, and one that was closed stays closed, unless the call's INVITE    *)
(* was queued more than once.                                              *)
(***************************************************************************)

\* Nobody has had to do with the call yet.
Untouched(c) == history[c] = "none" /\ c \notin {call, ringing, op.call, watcher.call}

\* A call that was not placed has left no trace.
NewInv ==
    \A c \in Calls : leg[c] = "new" =>
        Untouched(c) /\ \A j \in DOMAIN queue : queue[j].call # c

\* An INVITE in the queue is the first that is heard of its call.
QueueInv ==
    \A i \in DOMAIN queue : queue[i].method = "INVITE" /\ queue[i].call \notin again =>
        /\ queue[i].call \in InCalls
        /\ Untouched(queue[i].call)
        /\ \A j \in 1 .. (i - 1) : queue[j].call # queue[i].call

\* The call the watcher is about to offer is offered by nobody else.
WatchInv ==
    /\ watcher.at \in {"INVITE", "ring", "answer"} /\ watcher.call \notin again =>
          /\ watcher.call \in InCalls
          /\ watcher.call \notin {call, ringing, op.call}
          /\ history[watcher.call] = IF watcher.at = "INVITE" THEN "none" ELSE "Dialing"
    /\ watcher.at \in {"ring", "answer"} => history[watcher.call] # "none"
    /\ watcher.at = "cancelled" => ringing = NoCall

\* What rings, is dialled or is up has a record, open unless it is up.
RecordInv ==
    /\ ringing # NoCall => history[ringing] # "none"
    /\ ringing \notin again \cup {NoCall} =>
          ringing \in InCalls /\ ringing # call /\ history[ringing] = "Dialing"
    /\ op.kind = "invite" => op.call \in OutCalls /\ history[op.call] = "Dialing"
    /\ call # NoCall => history[call] # "none"

OfferInv == NewInv /\ QueueInv /\ WatchInv /\ RecordInv

LEMMA InitOffer == Init => OfferInv
BY CallAssumption
   DEF Init, OfferInv, NewInv, QueueInv, WatchInv, RecordInv, Untouched, Free, Polling, Calls

\* The calls somebody has to do with.
Carried == {call, ringing, op.call}
Touched == Carried \cup {watcher.call}

\* Most steps concern only calls that somebody has to do with already, and so
\* leave alone those that nobody has.
Quiet(S) ==
    /\ {call', ringing', op'.call} \subseteq S \cup {NoCall}
    /\ watcher'.call \in {watcher.call, NoCall}
    /\ \A c \in Calls \ S : history'[c] = history[c]
    /\ \A c \in Calls : leg'[c] = "new" => leg[c] = "new"
    /\ queue' = queue

LEMMA QuietKeeps ==
  ASSUME NewInv, QueueInv, Quiet(Touched), again \subseteq again'
  PROVE  NewInv' /\ QueueInv'
<1>1. ASSUME NEW c \in Calls, Untouched(c) PROVE Untouched(c)'
  BY <1>1, CallAssumption DEF Untouched, Quiet, Touched, Carried, Calls
<1>2. NewInv'
  BY <1>1 DEF NewInv, Quiet
<1>3. QueueInv'
  BY <1>1 DEF QueueInv, Quiet, Calls
<1> QED BY <1>2, <1>3

LEMMA RecordedOnly ==
  ASSUME history \in [Calls -> Records], NEW c, NEW state, Recorded(c, state)
  PROVE  /\ \A d \in Calls \ {c} : history'[d] = history[d]
         /\ \A d \in Calls : history[d] # "none" /\ state # "none" => history'[d] # "none"
BY DEF Recorded

\* What is left of a step when its calls are named.
LEMMA QuietStep ==
  ASSUME history \in [Calls -> Records], NEW S, NEW c \in S,
         {call', ringing', op'.call} \subseteq S \cup {NoCall},
         watcher'.call \in {watcher.call, NoCall},
         history' = history \/ \E state : Recorded(c, state),
         \A d \in Calls : leg'[d] = "new" => leg[d] = "new",
         queue' = queue
  PROVE  Quiet(S)
<1>1. \A d \in Calls \ S : history'[d] = history[d]
  BY RecordedOnly
<1> QED BY <1>1 DEF Quiet

\* Users, refreshers and peers concern the calls the account carries, and let
\* nothing ring that did not.
LEMMA CarriedSteps ==
  ASSUME TypeOK,
         \/ Answer \/ Reject \/ Finish
         \/ \E c : InviteWithoutPort(c)
         \/ \E kind : InDialog(kind)
         \/ \E c : RefresherExits(c) \/ RefresherWakes(c)
         \/ \E c : PeerAnswersLate(c)
         \/ \E reply : PeerReplies(reply)
  PROVE  Quiet(Carried) /\ watcher' = watcher /\ ringing' \in {ringing, NoCall}
<1> DEFINE Goal == Quiet(Carried) /\ watcher' = watcher /\ ringing' \in {ringing, NoCall}
<1> SUFFICES Goal
  OBVIOUS
<1>0. /\ history \in [Calls -> Records] /\ leg \in [Calls -> Legs]
      /\ op \in [kind : Kinds, call : MaybeCall, task : MaybeCall, reply : Replies]
  BY DEF TypeOK
<1>1. call \in Carried /\ ringing \in Carried /\ op.call \in Carried
  BY DEF Carried
<1>2. CASE Answer
  <2>1. \A d \in Calls : leg'[d] = "new" => leg[d] = "new"
    BY <1>0, <1>2 DEF Answer, AnswerIncoming
  <2> QED BY <1>0, <1>1, <1>2, <2>1, QuietStep DEF Answer, AnswerIncoming
<1>3. CASE Reject
  <2>1. \A d \in Calls : leg'[d] = "new" => leg[d] = "new"
    BY <1>0, <1>3 DEF Reject
  <2> QED BY <1>0, <1>1, <1>3, <2>1, QuietStep DEF Reject
<1>4. CASE Finish
  <2>1. leg' = leg /\ queue' = queue /\ watcher' = watcher
    BY <1>4
       DEF Finish, InviteFails, InviteRefused, InviteUnchallenged, InviteAnswered, InviteUnacked,
           ByeAnswered, ByeFails, CancelAccepted, RequestUnsuccessful, ReinviteAccepted,
           RefreshFails, RefreshRefused
  <2>2. op'.call \in {op.call, NoCall}
    <3>1. CASE RefreshFails
      BY <1>0, <3>1 DEF RefreshFails
    <3>2. CASE ~RefreshFails
      <4>1. op' = Free
        BY <1>4, <3>2
           DEF Finish, InviteFails, InviteRefused, InviteUnchallenged, InviteAnswered,
               InviteUnacked, ByeAnswered, ByeFails, CancelAccepted, RequestUnsuccessful,
               ReinviteAccepted, RefreshRefused
      <4> QED BY <4>1 DEF Free
    <3> QED BY <3>1, <3>2
  <2>3. call' \in {call, op.call, NoCall} /\ ringing' \in {ringing, NoCall}
    BY <1>4
       DEF Finish, InviteFails, InviteRefused, InviteUnchallenged, InviteAnswered, InviteUnacked,
           ByeAnswered, ByeFails, CancelAccepted, RequestUnsuccessful, ReinviteAccepted,
           RefreshFails, RefreshRefused, ClearDialog, dialog
  <2>4. history' = history \/ \E state : Recorded(op.call, state)
    BY <1>4
       DEF Finish, InviteFails, InviteRefused, InviteUnchallenged, InviteAnswered, InviteUnacked,
           ByeAnswered, ByeFails, CancelAccepted, RequestUnsuccessful, ReinviteAccepted,
           RefreshFails, RefreshRefused, dialog
  <2> QED BY <1>0, <1>1, <2>1, <2>2, <2>3, <2>4, QuietStep
<1>5. ASSUME NEW c, InviteWithoutPort(c) PROVE Goal
  <2>1. \A d \in Calls : leg'[d] = "new" => leg[d] = "new"
    BY <1>0, <1>5 DEF InviteWithoutPort
  <2> QED BY <1>0, <1>1, <1>5, <2>1, QuietStep DEF InviteWithoutPort
<1>6. ASSUME NEW kind, InDialog(kind) PROVE Goal
  BY <1>0, <1>1, <1>6, QuietStep DEF InDialog, Hold, Free, dialog
<1>7. ASSUME NEW c, RefresherExits(c) \/ RefresherWakes(c) PROVE Goal
  BY <1>0, <1>1, <1>7, QuietStep DEF RefresherExits, RefresherWakes, dialog
<1>8. ASSUME NEW c, PeerAnswersLate(c) PROVE Goal
  <2>1. \A d \in Calls : leg'[d] = "new" => leg[d] = "new"
    BY <1>0, <1>8 DEF PeerAnswersLate
  <2> QED BY <1>0, <1>1, <1>8, <2>1, QuietStep DEF PeerAnswersLate, dialog
<1>9. ASSUME NEW reply, PeerReplies(reply) PROVE Goal
  <2>1. op'.call = op.call
    BY <1>0, <1>9 DEF PeerReplies
  <2>2. UNCHANGED <<call, ringing, history, watcher, queue>>
    BY <1>9 DEF PeerReplies, dialog
  <2>3. \A d \in Calls : leg'[d] = "new" => leg[d] = "new"
    BY <1>0, <1>9 DEF PeerReplies, Ending
  <2> QED BY <1>1, <2>1, <2>2, <2>3 DEF Quiet
<1> QED BY <1>2, <1>3, <1>4, <1>5, <1>6, <1>7, <1>8, <1>9

\* The watcher concerns these and the call of its message.
LEMMA WatchSteps ==
  ASSUME TypeOK, Watch, ~TakeRequest
  PROVE  Quiet(Touched) /\ op' = op
<1>0. history \in [Calls -> Records] /\ leg \in [Calls -> Legs]
  BY DEF TypeOK
<1>1. watcher.call \in Touched /\ ClosedByBye \in Touched /\ Carried \subseteq Touched
  BY DEF Touched, Carried, ClosedByBye
<1>2. op' = op /\ queue' = queue
  BY DEF Watch, CleanUpAfterBye, ClearRinging, TerminateInvite, CheckBusy, SendBusy,
         AutoAnswerCall, AutoAnswerFails, Ring
<1>3. call' \in {call, watcher.call, NoCall} /\ ringing' \in {ringing, watcher.call, NoCall}
  BY DEF Watch, CleanUpAfterBye, ClearRinging, TerminateInvite, CheckBusy, SendBusy,
         AutoAnswerCall, AnswerIncoming, AutoAnswerFails, Ring, ClearDialog, dialog
<1>4. watcher'.call \in {watcher.call, NoCall}
  <2>1. watcher \in [at : Stops, call : MaybeCall]
    BY DEF TypeOK
  <2> QED
    BY <2>1
       DEF Watch, CleanUpAfterBye, ClearRinging, TerminateInvite, CheckBusy, SendBusy,
           AutoAnswerCall, AutoAnswerFails, Ring, GoTo, Polling
<1>5. history' = history \/ \E c \in Touched : \E state : Recorded(c, state)
  BY <1>1
     DEF Watch, CleanUpAfterBye, ClearRinging, TerminateInvite, CheckBusy, SendBusy,
         AutoAnswerCall, AnswerIncoming, AutoAnswerFails, Ring, dialog
<1>6. \A d \in Calls : leg'[d] = "new" => leg[d] = "new"
  BY <1>0
     DEF Watch, CleanUpAfterBye, ClearRinging, TerminateInvite, CheckBusy, SendBusy,
         AutoAnswerCall, AnswerIncoming, AutoAnswerFails, Ring
<1>7. \A d \in Calls \ Touched : history'[d] = history[d]
  BY <1>0, <1>5, RecordedOnly
<1> QED BY <1>1, <1>2, <1>3, <1>4, <1>6, <1>7 DEF Quiet, Touched, Carried

\* The steps that place a call, send a message or take one.
LEMMA InviteKeeps ==
  ASSUME TypeOK, NewInv, QueueInv, NEW c \in OutCalls, Invite(c)
  PROVE  NewInv' /\ QueueInv'
<1> USE CallAssumption DEF Calls
<1>1. \A d \in Calls \ {c} : history'[d] = history[d]
  BY RecordedOnly DEF Invite, TypeOK
<1>2. op'.call = c /\ UNCHANGED <<call, ringing, watcher, queue, again>>
  BY DEF Invite, Hold, Free, copies
<1>3. \A d \in Calls \ {c} : Untouched(d) => Untouched(d)'
  BY <1>1, <1>2 DEF Untouched
<1>4. \A d \in Calls : leg'[d] = "new" => leg[d] = "new" /\ d # c
  BY DEF Invite, TypeOK
<1>5. NewInv'
  BY <1>2, <1>3, <1>4 DEF NewInv
<1>6. QueueInv'
  BY <1>2, <1>3 DEF QueueInv
<1> QED BY <1>5, <1>6

LEMMA SendingKeeps ==
  ASSUME TypeOK, NewInv, QueueInv, NEW c \in Calls, NEW method,
         queue' = Append(queue, [method |-> method, call |-> c]),
         UNCHANGED <<dialog, op, watcher>>, again \subseteq again',
         \A d \in Calls : leg'[d] = "new" => leg[d] = "new" /\ d # c,
         method = "INVITE" /\ c \notin again' => c \in InCalls /\ leg[c] = "new"
  PROVE  NewInv' /\ QueueInv'
<1> USE CallAssumption DEF Calls
<1> DEFINE r == [method |-> method, call |-> c]
<1>1. queue' = Append(queue, r) /\ queue \in Seq(Requests)
  BY DEF TypeOK
<1>2. /\ DOMAIN queue = 1 .. Len(queue) /\ DOMAIN queue' = 1 .. (Len(queue) + 1)
      /\ \A i \in 1 .. Len(queue) : queue'[i] = queue[i]
      /\ queue'[Len(queue) + 1] = r /\ Len(queue) \in Nat
  BY <1>1
<1>3. \A d \in Calls : Untouched(d) => Untouched(d)'
  BY DEF dialog, Untouched
<1>4. NewInv'
  <2> SUFFICES ASSUME NEW d \in Calls, leg'[d] = "new"
               PROVE  Untouched(d)' /\ \A j \in DOMAIN queue' : queue'[j].call # d
    BY DEF NewInv
  <2>1. Untouched(d)' /\ d # c /\ \A j \in DOMAIN queue : queue[j].call # d
    BY <1>3 DEF NewInv
  <2> QED BY <1>2, <2>1
<1>5. QueueInv'
  <2> SUFFICES ASSUME NEW i \in DOMAIN queue', queue'[i].method = "INVITE",
                      queue'[i].call \notin again'
               PROVE  /\ queue'[i].call \in InCalls
                      /\ Untouched(queue[i].call)'
                      /\ \A j \in 1 .. (i - 1) : queue'[j].call # queue'[i].call
    BY DEF QueueInv
  <2>1. CASE i \in DOMAIN queue
    <3>1. queue[i].method = "INVITE" /\ queue[i].call \notin again /\ queue'[i] = queue[i]
      BY <1>2, <2>1
    <3>2. /\ queue[i].call \in InCalls /\ Untouched(queue[i].call)
          /\ \A j \in 1 .. (i - 1) : queue[j].call # queue[i].call
      BY <2>1, <3>1 DEF QueueInv
    <3> QED BY <1>2, <1>3, <2>1, <3>1, <3>2
  <2>2. CASE i = Len(queue) + 1
    <3>1. queue'[i] = r /\ c \in InCalls /\ leg[c] = "new"
      BY <1>2, <2>2
    <3>2. Untouched(c)' /\ \A j \in DOMAIN queue : queue[j].call # c
      BY <1>3, <3>1 DEF NewInv
    <3> QED BY <1>2, <2>2, <3>1, <3>2
  <2> QED BY <1>2, <2>1, <2>2
<1> QED BY <1>4, <1>5

LEMMA TakingKeeps ==
  ASSUME TypeOK, NewInv, QueueInv, TakeRequest
  PROVE  NewInv' /\ QueueInv'
<1> USE CallAssumption DEF Calls
<1>1. queue \in Seq(Requests) /\ queue # <<>> /\ queue' = Tail(queue)
  BY DEF TakeRequest, TypeOK
<1>2. /\ Len(queue) \in Nat \ {0} /\ DOMAIN queue = 1 .. Len(queue)
      /\ DOMAIN queue' = 1 .. (Len(queue) - 1)
      /\ \A i \in 1 .. (Len(queue) - 1) : queue'[i] = queue[i + 1]
      /\ Head(queue) = queue[1]
  BY <1>1
<1>3. watcher'.call = queue[1].call /\ UNCHANGED <<call, ringing, op, history, leg, again>>
  BY <1>2 DEF TakeRequest, dialog, copies
<1>4. \A d \in Calls : Untouched(d) /\ queue[1].call # d => Untouched(d)'
  BY <1>3 DEF Untouched
<1>5. NewInv'
  BY <1>2, <1>3, <1>4 DEF NewInv
<1>6. QueueInv'
  <2> SUFFICES ASSUME NEW i \in DOMAIN queue', queue'[i].method = "INVITE",
                      queue'[i].call \notin again'
               PROVE  /\ queue'[i].call \in InCalls
                      /\ Untouched(queue[i].call)'
                      /\ \A j \in 1 .. (i - 1) : queue'[j].call # queue'[i].call
    BY DEF QueueInv
  <2>1. i + 1 \in DOMAIN queue /\ queue'[i] = queue[i + 1] /\ 1 \in 1 .. ((i + 1) - 1)
    BY <1>2
  <2>2. /\ queue[i + 1].call \in InCalls /\ Untouched(queue[i + 1].call)
        /\ \A j \in 1 .. ((i + 1) - 1) : queue[j].call # queue[i + 1].call
    BY <1>3, <2>1 DEF QueueInv
  <2>3. \A j \in 1 .. (i - 1) : j + 1 \in 1 .. ((i + 1) - 1) /\ queue'[j] = queue[j + 1]
    BY <1>2
  <2> QED BY <1>4, <2>1, <2>2, <2>3
<1> QED BY <1>5, <1>6

LEMMA OffersKept ==
  ASSUME IInv, NewInv, QueueInv, [Next]_vars
  PROVE  NewInv' /\ QueueInv'
<1>0. TypeOK /\ again \subseteq again'
  BY AgainStep DEF IInv
<1>1. ASSUME Quiet(Carried) PROVE NewInv' /\ QueueInv'
  <2>1. Quiet(Touched)
    BY <1>1 DEF Quiet, Touched
  <2> QED BY <1>0, <2>1, QuietKeeps
<1>2. ASSUME NEW c \in OutCalls, Invite(c) PROVE NewInv' /\ QueueInv'
  BY <1>0, <1>2, InviteKeeps
<1>3. CASE Watch
  BY <1>0, <1>3, TakingKeeps, WatchSteps, QuietKeeps
<1>4. ASSUME NEW c \in Calls, (PeerInvites(c) /\ c \in InCalls) \/ PeerCancels(c) \/ PeerHangsUp(c)
      PROVE  NewInv' /\ QueueInv'
  <2>1. PICK method, from, to :
           /\ PeerSends(c, method, from, to) /\ to \in Legs \ {"new"}
           /\ method = "INVITE" => c \in InCalls /\ from = "new"
    BY <1>4 DEF PeerInvites, PeerCancels, PeerHangsUp, Legs
  <2>2. \A d \in Calls : leg'[d] = "new" => leg[d] = "new" /\ d # c
    BY <1>0, <2>1 DEF PeerSends, TypeOK
  <2> QED BY <1>0, <2>1, <2>2, SendingKeeps DEF PeerSends
<1>7. ASSUME NEW c \in Calls, NEW method,
             PeerRepeats(c, method) \/ (PeerReinvites(c) /\ method = "INVITE")
      PROVE  NewInv' /\ QueueInv'
  <2>1. Repeated(c, method)
    BY <1>7 DEF PeerRepeats, PeerReinvites
  <2>2. leg[c] # "new"
    BY <1>7 DEF PeerRepeats, PeerReinvites, NewInv
  <2>3. \A d \in Calls : leg'[d] = "new" => leg[d] = "new" /\ d # c
    BY <2>1, <2>2 DEF Repeated
  <2>4. method = "INVITE" => c \in again'
    BY <2>1 DEF Repeated
  <2> QED BY <1>0, <2>1, <2>3, <2>4, SendingKeeps DEF Repeated
<1>5. CASE UNCHANGED vars
  BY <1>5 DEF vars, dialog, copies, NewInv, QueueInv, Untouched
<1>6. CASE Peers
  BY <1>0, <1>1, <1>4, <1>6, <1>7, CarriedSteps DEF Peers, Calls
<1> QED BY <1>0, <1>1, <1>2, <1>3, <1>5, <1>6, CarriedSteps DEF Next

\* Once there is a record of a call there always is.
LEMMA RecordsStay ==
  ASSUME IInv, [Next]_vars, NEW c \in Calls, history[c] # "none"
  PROVE  history'[c] # "none"
<1>0. history \in [Calls -> Records]
  BY DEF IInv, TypeOK
<1>1. history' = history \/ \E d, state : state # "none" /\ Recorded(d, state)
  <2>1. ASSUME NEW d, Invite(d) \/ InviteWithoutPort(d)
        PROVE  history' = history \/ \E e, state : state # "none" /\ Recorded(e, state)
    BY <2>1 DEF Invite, InviteWithoutPort
  <2>2. CASE Answer \/ Reject \/ UNCHANGED vars
    BY <2>2 DEF Answer, AnswerIncoming, Reject, vars, dialog
  <2>3. CASE Finish
    BY <2>3
       DEF Finish, InviteFails, InviteRefused, InviteUnchallenged, InviteAnswered, InviteUnacked,
           ByeAnswered, ByeFails, CancelAccepted, RequestUnsuccessful, ReinviteAccepted,
           RefreshFails, RefreshRefused, dialog
  <2>4. CASE Watch
    BY <2>4
       DEF Watch, TakeRequest, CleanUpAfterBye, ClearRinging, TerminateInvite, CheckBusy,
           SendBusy, AutoAnswerCall, AnswerIncoming, AutoAnswerFails, Ring, dialog
  <2>5. CASE Peers
    BY <2>5
       DEF Peers, PeerInvites, PeerCancels, PeerHangsUp, PeerSends, PeerRepeats, PeerReinvites,
           Repeated, PeerReplies, PeerAnswersLate, dialog
  <2> QED
    BY <2>1, <2>2, <2>3, <2>4, <2>5
       DEF Next, InDialog, RefresherExits, RefresherWakes, dialog
<1> QED BY <1>0, <1>1, RecordedOnly

LEMMA WatchKept ==
  ASSUME IInv, OfferInv, [Next]_vars
  PROVE  WatchInv'
<1> USE CallAssumption DEF Calls
<1>0. /\ TypeOK /\ history \in [Calls -> Records] /\ watcher \in [at : Stops, call : MaybeCall]
      /\ NewInv /\ QueueInv /\ WatchInv /\ RecordInv /\ again \subseteq again'
  BY AgainStep DEF IInv, TypeOK, OfferInv
\* Nobody but the watcher changes the call it is about to offer.
<1>1. ASSUME Quiet(Carried), watcher' = watcher, ringing' \in {ringing, NoCall} PROVE WatchInv'
  <2>1. ASSUME watcher.at \in {"INVITE", "ring", "answer"}, watcher.call \notin again
        PROVE  /\ watcher.call \in InCalls
               /\ watcher.call \notin {call', ringing', op'.call}
               /\ history'[watcher.call] = history[watcher.call]
    <3>1. watcher.call \in InCalls /\ watcher.call \notin Carried
      BY <1>0, <2>1 DEF WatchInv, Carried
    <3> QED BY <1>1, <3>1 DEF Quiet
  <2>2. watcher.at \in {"ring", "answer"} => history'[watcher.call] # "none"
    <3>1. watcher.at \in {"ring", "answer"} => watcher.call \in Calls
      BY <1>0 DEF TypeOK, MaybeCall
    <3> QED BY <1>0, <3>1, RecordsStay DEF WatchInv
  <2> QED BY <1>0, <1>1, <2>1, <2>2 DEF WatchInv
<1>2. ASSUME NEW c \in OutCalls, Invite(c) PROVE WatchInv'
  <2>1. \A d \in Calls \ {c} : history'[d] = history[d]
    BY <1>0, <1>2, RecordedOnly DEF Invite
  <2>2. op'.call = c /\ UNCHANGED <<call, ringing, watcher>>
    BY <1>2 DEF Invite, Hold, Free
  <2>3. watcher.at \in {"ring", "answer"} => history'[watcher.call] # "none"
    <3>1. watcher.at \in {"ring", "answer"} => watcher.call \in Calls
      BY <1>0 DEF TypeOK, MaybeCall
    <3> QED BY <1>0, <3>1, RecordsStay DEF WatchInv
  <2> QED BY <1>0, <2>1, <2>2, <2>3 DEF WatchInv
<1>3. CASE Watch
  <2>1. CASE TakeRequest
    <3>1. /\ watcher' = [at |-> queue[1].method, call |-> queue[1].call]
          /\ 1 \in DOMAIN queue /\ queue[1] \in Requests
      BY <1>0, <2>1, QueueType DEF TakeRequest, TypeOK
    <3>2. watcher'.at \in {"INVITE", "CANCEL", "BYE"}
      BY <3>1 DEF Requests
    <3>3. ASSUME watcher'.at = "INVITE", watcher'.call \notin again'
          PROVE  queue[1].call \in InCalls /\ Untouched(queue[1].call)
      BY <1>0, <3>1, <3>3 DEF QueueInv
    <3>4. UNCHANGED <<call, ringing, op, history>>
      BY <2>1 DEF TakeRequest, dialog
    <3> QED BY <1>0, <3>1, <3>2, <3>3, <3>4 DEF WatchInv, Untouched
  <2>2. CASE CheckBusy
    <3>1. UNCHANGED <<call, ringing, op>> /\ watcher.at = "INVITE" /\ watcher'.call = watcher.call
      BY <1>0, <2>2 DEF CheckBusy, GoTo
    <3>2. \/ watcher'.at = "busy"
          \/ watcher'.at \in {"answer", "ring"} /\ Recorded(watcher.call, "Dialing")
      <4>1. CASE InCall
        BY <1>0, <2>2, <4>1 DEF CheckBusy, GoTo
      <4>2. CASE ~InCall
        <5>1. (GoTo("answer") \/ GoTo("ring")) /\ Recorded(watcher.call, "Dialing")
          BY <2>2, <4>2 DEF CheckBusy
        <5> QED BY <1>0, <5>1 DEF GoTo
      <4> QED BY <4>1, <4>2
    <3>3. ASSUME Recorded(watcher.call, "Dialing"), watcher.call \in Calls
          PROVE  history'[watcher.call] = "Dialing"
      BY <1>0, <3>3 DEF Recorded
    <3>4. watcher.call \in Calls
      BY <1>0, <3>1 DEF TypeOK, MaybeCall
    <3> QED BY <1>0, <3>1, <3>2, <3>3, <3>4 DEF WatchInv
  <2>3. CASE ClearRinging
    BY <1>0, <2>3 DEF ClearRinging, GoTo, WatchInv
  <2>4. CASE ~TakeRequest /\ ~CheckBusy /\ ~ClearRinging
    <3>1. watcher' = Polling
      BY <1>3, <2>4
         DEF Watch, CleanUpAfterBye, TerminateInvite, SendBusy, AutoAnswerCall, AutoAnswerFails, Ring
    <3> QED BY <3>1 DEF Polling, WatchInv
  <2> QED BY <2>1, <2>2, <2>3, <2>4
<1>4. ASSUME UNCHANGED <<dialog, op, watcher>> PROVE WatchInv'
  BY <1>0, <1>4 DEF dialog, WatchInv
<1>6. ASSUME NEW c, NEW method,
             \/ PeerInvites(c) \/ PeerCancels(c) \/ PeerHangsUp(c)
             \/ PeerRepeats(c, method) \/ PeerReinvites(c)
      PROVE  WatchInv'
  BY <1>4, <1>6
     DEF PeerInvites, PeerCancels, PeerHangsUp, PeerSends, PeerRepeats, PeerReinvites, Repeated
<1>5. CASE UNCHANGED vars
  BY <1>0, <1>5 DEF vars, dialog, WatchInv
<1> QED BY <1>0, <1>1, <1>2, <1>3, <1>5, <1>6, CarriedSteps DEF Next, Peers

\* The call that is up stays, ends, or gives way to one on offer: dialled, ringing
\* or about to be answered.
LEMMA NewCall ==
  ASSUME [Next]_vars
  PROVE  \/ call' \in {call, NoCall}
         \/ call' = op.call /\ op.kind = "invite" /\ UNCHANGED ringing
         \/ call' = ringing /\ ringing # NoCall /\ ringing' = NoCall
         \/ call' = watcher.call /\ watcher.at = "answer" /\ ringing' = NoCall
<1>1. CASE Finish
  BY <1>1
     DEF Finish, InviteFails, InviteRefused, InviteUnchallenged, InviteAnswered,
         InviteUnacked, ByeAnswered, ByeFails, CancelAccepted, RequestUnsuccessful,
         ReinviteAccepted, RefreshFails, RefreshRefused, ClearDialog, dialog
<1>2. CASE Watch
  BY <1>2
     DEF Watch, TakeRequest, CleanUpAfterBye, ClearRinging, TerminateInvite, CheckBusy,
         SendBusy, AutoAnswerCall, AnswerIncoming, AutoAnswerFails, Ring, ClearDialog, dialog
<1>3. CASE Peers
  BY <1>3
     DEF Peers, PeerInvites, PeerCancels, PeerHangsUp, PeerSends, PeerRepeats, PeerReinvites,
         Repeated, PeerReplies, PeerAnswersLate, dialog
<1> QED
  BY <1>1, <1>2, <1>3
     DEF Next, Invite, InviteWithoutPort, Answer, AnswerIncoming, Reject, InDialog,
         RefresherExits, RefresherWakes, vars, dialog

\* A call on offer has a record, and an open one if it is offered once.
LEMMA NewCallIsOpen ==
  ASSUME IInv, OfferInv, [Next]_vars, call' \notin {call, NoCall}
  PROVE  /\ call' \in Calls /\ history[call'] # "none"
         /\ call' \notin again => history[call'] = "Dialing"
<1>1. call' \in Calls
  BY DialogStep DEF TypeDialog, MaybeCall
<1> QED BY <1>1, NewCall, CallAssumption DEF OfferInv, RecordInv, WatchInv, Calls

\* Nothing starts to ring but the call of the watcher.
LEMMA OnlyRingRings ==
  ASSUME [Next]_vars, ~Ring
  PROVE  ringing' \in {ringing, NoCall}
<1>1. CASE Finish
  BY <1>1
     DEF Finish, InviteFails, InviteRefused, InviteUnchallenged, InviteAnswered,
         InviteUnacked, ByeAnswered, ByeFails, CancelAccepted, RequestUnsuccessful,
         ReinviteAccepted, RefreshFails, RefreshRefused, ClearDialog, dialog
<1>2. CASE Watch
  BY <1>2
     DEF Watch, TakeRequest, CleanUpAfterBye, ClearRinging, TerminateInvite, CheckBusy,
         SendBusy, AutoAnswerCall, AnswerIncoming, AutoAnswerFails, ClearDialog, dialog
<1>3. CASE Peers
  BY <1>3
     DEF Peers, PeerInvites, PeerCancels, PeerHangsUp, PeerSends, PeerRepeats, PeerReinvites,
         Repeated, PeerReplies, PeerAnswersLate, dialog
<1> QED
  BY <1>1, <1>2, <1>3
     DEF Next, Invite, InviteWithoutPort, Answer, AnswerIncoming, Reject, InDialog,
         RefresherExits, RefresherWakes, vars, dialog

LEMMA RecordKept ==
  ASSUME IInv, OfferInv, [Next]_vars
  PROVE  RecordInv'
<1> USE CallAssumption DEF Calls, MaybeCall, LockFree
<1>0. /\ TypeDialog /\ TypeRest /\ Working /\ history \in [Calls -> Records]
      /\ WatchInv /\ RecordInv /\ again \subseteq again'
  BY TypeSplit, AgainStep DEF IInv, TypeDialog, OfferInv
\* What rings, and what rings and was offered once.
<1>5. ringing' # NoCall => history'[ringing'] # "none"
  <2>1. CASE Ring
    BY <1>0, <2>1 DEF Ring, WatchInv
  <2>2. CASE ~Ring
    BY <1>0, <2>2, OnlyRingRings, RecordsStay DEF TypeDialog, RecordInv
  <2> QED BY <2>1, <2>2
<1>1. ASSUME ringing' \notin again'
      PROVE  ringing' # NoCall => ringing' \in InCalls /\ history'[ringing'] = "Dialing"
  <2>0. ringing' \notin again
    BY <1>0, <1>1
  <2>1. ASSUME ringing' = ringing, ringing # NoCall,
               \/ history' = history
               \/ \E c, state : c # ringing /\ Recorded(c, state)
        PROVE  ringing' \in InCalls /\ history'[ringing'] = "Dialing"
    <3>1. ringing \in InCalls /\ history[ringing] = "Dialing"
      BY <1>0, <2>0, <2>1 DEF RecordInv
    <3>2. history'[ringing] = history[ringing]
      BY <1>0, <2>1, <3>1, RecordedOnly
    <3> QED BY <2>1, <3>1, <3>2
  <2>2. ASSUME NEW c \in OutCalls, Invite(c)
        PROVE  \/ ringing' = NoCall
               \/ ringing' = ringing /\ \E d, state : d # ringing /\ Recorded(d, state)
    BY <1>0, <2>0, <2>2 DEF Invite, RecordInv
  <2>3. CASE Finish
    <3>1. \/ ringing' = NoCall
          \/ ringing' = ringing /\ history' = history
          \/ ringing' = ringing /\ op.kind = "invite" /\ \E state : Recorded(op.call, state)
      BY <2>3
         DEF Finish, InviteFails, InviteRefused, InviteUnchallenged, InviteAnswered,
             InviteUnacked, ByeAnswered, ByeFails, CancelAccepted, RequestUnsuccessful,
             ReinviteAccepted, RefreshFails, RefreshRefused, ClearDialog, dialog
    <3>2. op.kind = "invite" /\ ringing' = ringing /\ ringing # NoCall => op.call # ringing
      BY <1>0, <2>0 DEF RecordInv
    <3> QED BY <2>1, <3>1, <3>2
  <2>4. CASE Watch
    <3>1. CASE Ring
      BY <1>0, <2>0, <3>1 DEF Ring, WatchInv
    <3>2. CASE TerminateInvite
      BY <1>0, <3>2 DEF TerminateInvite, WatchInv
    <3>3. CASE CheckBusy
      <4>1. ringing' = ringing
        BY <3>3 DEF CheckBusy
      <4>3. watcher.call # ringing
        BY <1>0, <2>0, <3>3, <4>1 DEF CheckBusy, WatchInv
      <4>2. history' = history \/ Recorded(watcher.call, "Dialing")
        BY <3>3 DEF CheckBusy
      <4> QED BY <2>1, <4>1, <4>2, <4>3
    <3>4. CASE ~Ring /\ ~TerminateInvite /\ ~CheckBusy
      <4>1. ringing' = NoCall \/ (ringing' = ringing /\ history' = history)
        BY <2>4, <3>4
           DEF Watch, TakeRequest, CleanUpAfterBye, ClearRinging, SendBusy, AutoAnswerCall,
               AnswerIncoming, AutoAnswerFails, ClearDialog, dialog
      <4> QED BY <2>1, <4>1
    <3> QED BY <3>1, <3>2, <3>3, <3>4
  <2>5. CASE Peers
    <3>1. ringing' = ringing /\ history' = history
      BY <2>5
         DEF Peers, PeerInvites, PeerCancels, PeerHangsUp, PeerSends, PeerRepeats, PeerReinvites,
             Repeated, PeerReplies, PeerAnswersLate, dialog
    <3> QED BY <2>1, <3>1
  <2>6. ASSUME ~Finish, ~Watch, ~Peers, \A c \in OutCalls : ~Invite(c)
        PROVE  ringing' = NoCall \/ (ringing' = ringing /\ history' = history)
    BY <2>6
       DEF Next, InviteWithoutPort, Answer, AnswerIncoming, Reject, InDialog, RefresherExits,
           RefresherWakes, vars, dialog
  <2> QED BY <2>1, <2>2, <2>3, <2>4, <2>5, <2>6
\* What is dialled.
<1>2. op'.kind = "invite" => op'.call \in OutCalls /\ history'[op'.call] = "Dialing"
  <2>1. ASSUME op.kind = "invite", op'.call = op.call, history' = history
        PROVE  op'.call \in OutCalls /\ history'[op'.call] = "Dialing"
    BY <1>0, <2>1 DEF RecordInv
  <2>2. ASSUME NEW c \in OutCalls, Invite(c)
        PROVE  op'.call \in OutCalls /\ history'[op'.call] = "Dialing"
    BY <1>0, <2>2 DEF Invite, Hold, Free, Recorded
  <2>3. CASE Finish
    <3>1. op'.kind # "invite"
      <4>1. CASE RefreshFails
        BY <1>0, <4>1 DEF RefreshFails, TypeRest
      <4>2. CASE ~RefreshFails
        <5>1. op' = Free
          BY <2>3, <4>2
             DEF Finish, InviteFails, InviteRefused, InviteUnchallenged, InviteAnswered,
                 InviteUnacked, ByeAnswered, ByeFails, CancelAccepted, RequestUnsuccessful,
                 ReinviteAccepted, RefreshRefused
        <5> QED BY <5>1 DEF Free
      <4> QED BY <4>1, <4>2
    <3> QED BY <3>1
  <2>4. CASE Peers
    <3>1. op'.kind = op.kind /\ op'.call = op.call /\ history' = history
      BY <1>0, <2>4
         DEF Peers, PeerInvites, PeerCancels, PeerHangsUp, PeerSends, PeerRepeats, PeerReinvites,
             Repeated, PeerReplies, PeerAnswersLate, dialog, TypeRest
    <3> QED BY <2>1, <3>1
  <2>5. CASE Watch \/ Answer \/ Reject
    <3>1. op' = op /\ op.kind = "none"
      BY <2>5
         DEF Watch, TakeRequest, CleanUpAfterBye, ClearRinging, TerminateInvite, CheckBusy,
             SendBusy, AutoAnswerCall, AutoAnswerFails, Ring, Answer, Reject
    <3> QED BY <3>1
  <2>6. CASE UNCHANGED vars
    BY <2>1, <2>6 DEF vars, dialog
  <2>7. ASSUME NEW c, InviteWithoutPort(c) \/ RefresherExits(c) \/ RefresherWakes(c)
        PROVE  op'.kind # "invite"
    BY <2>7 DEF InviteWithoutPort, RefresherExits, RefresherWakes
  <2>8. ASSUME NEW kind \in {"bye", "cancel", "hold", "resume"}, InDialog(kind)
        PROVE  op'.kind # "invite"
    BY <2>8 DEF InDialog, Hold, Free
  <2> QED BY <2>2, <2>3, <2>4, <2>5, <2>6, <2>7, <2>8 DEF Next
\* What is up.
<1>3. call' # NoCall => history'[call'] # "none"
  <2>1. call' \in Calls \/ call' = NoCall
    BY DialogStep DEF TypeDialog
  <2>2. call' # NoCall => history[call'] # "none"
    BY <1>0, NewCallIsOpen DEF RecordInv
  <2> QED BY <2>1, <2>2, RecordsStay
\* What rings is not up.
<1>4. ASSUME ringing' \notin again', ringing' # NoCall PROVE ringing' # call'
  <2>0. ringing' \notin again
    BY <1>0, <1>4
  <2>1. CASE Ring
    BY <1>0, <2>0, <2>1 DEF Ring, WatchInv
  <2>2. CASE ~Ring
    <3>1. ringing' = ringing
      BY <1>4, <2>2, OnlyRingRings
    <3>2. ringing \in InCalls /\ ringing # call
      BY <1>0, <1>4, <2>0, <3>1 DEF RecordInv
    <3> QED BY <1>0, <1>4, <3>1, <3>2, NewCall DEF RecordInv
  <2> QED BY <2>1, <2>2
<1> QED BY <1>1, <1>2, <1>3, <1>4, <1>5 DEF RecordInv

LEMMA OfferHolds == Spec => [](IInv /\ OfferInv)
<1>1. IInv /\ OfferInv /\ [Next]_vars => (IInv /\ OfferInv)'
  <2> SUFFICES ASSUME IInv, OfferInv, [Next]_vars PROVE (IInv /\ OfferInv)'
    OBVIOUS
  <2>1. IInv'
    BY Inductive
  <2>2. NewInv' /\ QueueInv'
    BY OffersKept DEF OfferInv
  <2>3. WatchInv' /\ RecordInv'
    BY WatchKept, RecordKept
  <2> QED BY <2>1, <2>2, <2>3 DEF OfferInv
<1> QED BY InitIInv, InitOffer, <1>1, PTL DEF Spec

\* What rings is a call that nobody has answered, rejected or cancelled, or one
\* whose INVITE was queued more than once: for any account, any user, and any order
\* in which INVITEs and CANCELs arrive.
LEMMA RingingCallsAreOpen == Spec => []RingingIsOpen
<1>1. OfferInv => RingingIsOpen
  BY DEF OfferInv, RecordInv, RingingIsOpen
<1> QED BY OfferHolds, <1>1, PTL

\* A record is written to close it, or to move on a call that is on offer.
Moves(c, state) == state \in Closed \/ c \in again \/ history[c] \in {"none", "Dialing"}

LEMMA RecordsMove ==
  ASSUME IInv, OfferInv, [Next]_vars
  PROVE  history' = history \/ \E c, state : Recorded(c, state) /\ Moves(c, state)
<1> DEFINE Goal == history' = history \/ \E c, state : Recorded(c, state) /\ Moves(c, state)
<1> SUFFICES Goal
  OBVIOUS
<1>0. TypeDialog /\ TypeRest /\ Working /\ NewInv /\ WatchInv /\ RecordInv
  BY TypeSplit DEF IInv, OfferInv
<1>1. ASSUME NEW c \in OutCalls, Invite(c) PROVE Goal
  <2>1. Recorded(c, "Dialing") /\ history[c] = "none"
    BY <1>0, <1>1 DEF Invite, NewInv, Untouched, Calls
  <2> QED BY <2>1 DEF Moves
<1>2. CASE Answer
  <2>1. Recorded(ringing, "Connected") /\ (ringing \in again \/ history[ringing] = "Dialing")
    BY <1>0, <1>2 DEF Answer, AnswerIncoming, RecordInv
  <2> QED BY <2>1 DEF Moves
<1>3. CASE Reject
  BY <1>3 DEF Reject, Moves, Closed
<1>4. CASE Finish
  <2>1. CASE InviteAnswered
    <3>1. Recorded(op.call, "Connected") /\ history[op.call] = "Dialing"
      BY <1>0, <2>1 DEF InviteAnswered, RecordInv
    <3> QED BY <3>1 DEF Moves
  <2>2. CASE ~InviteAnswered
    <3>1. history' = history \/ \E c : \E state \in Closed : Recorded(c, state)
      BY <1>4, <2>2
         DEF Finish, InviteFails, InviteRefused, InviteUnchallenged, InviteUnacked,
             ByeAnswered, ByeFails, CancelAccepted, RequestUnsuccessful, ReinviteAccepted,
             RefreshFails, RefreshRefused, dialog, Closed
    <3> QED BY <3>1 DEF Moves
  <2> QED BY <2>1, <2>2
<1>5. CASE Watch
  <2>1. CASE AutoAnswerCall
    <3>1. /\ Recorded(watcher.call, "Connected")
          /\ watcher.call \in again \/ history[watcher.call] = "Dialing"
      BY <1>0, <2>1 DEF AutoAnswerCall, AnswerIncoming, WatchInv
    <3> QED BY <3>1 DEF Moves
  <2>2. CASE CheckBusy
    <3>1. /\ watcher.call \in again \/ history[watcher.call] = "none"
          /\ history' = history \/ Recorded(watcher.call, "Dialing")
      BY <1>0, <2>2 DEF CheckBusy, WatchInv
    <3> QED BY <3>1 DEF Moves
  <2>3. CASE ~AutoAnswerCall /\ ~CheckBusy
    <3>1. history' = history \/ \E c : \E state \in Closed : Recorded(c, state)
      BY <1>5, <2>3
         DEF Watch, TakeRequest, CleanUpAfterBye, ClearRinging, TerminateInvite, SendBusy,
             AutoAnswerFails, Ring, dialog, Closed
    <3> QED BY <3>1 DEF Moves
  <2> QED BY <2>1, <2>2, <2>3
<1>6. CASE Peers
  BY <1>6
     DEF Peers, PeerInvites, PeerCancels, PeerHangsUp, PeerSends, PeerRepeats, PeerReinvites,
         Repeated, PeerReplies, PeerAnswersLate, dialog
<1>7. ASSUME NEW c, InviteWithoutPort(c) \/ RefresherExits(c) \/ RefresherWakes(c) PROVE Goal
  BY <1>7 DEF InviteWithoutPort, RefresherExits, RefresherWakes, dialog
<1> QED
  BY <1>1, <1>2, <1>3, <1>4, <1>5, <1>6, <1>7 DEF Next, InDialog, vars, dialog

\* Nothing that still arrives for a call that is over, in whatever order, brings
\* it up again or opens its record, but a second copy of its INVITE or a re-INVITE
\* (transaction.rs, incoming_call.rs): for any account and any user.
THEOREM CallsThatEndedStayEnded == Spec => OverStaysOver
<1>1. ASSUME IInv, OfferInv, [Next]_vars, NEW c \in Calls \ again, call # c, history[c] \in Closed
      PROVE  call' # c /\ history'[c] \in Closed
  <2>1. history \in [Calls -> Records]
    BY <1>1 DEF IInv, TypeOK
  <2>2. call' # c
    BY <1>1, NewCallIsOpen, CallAssumption DEF Closed, Calls
  <2>3. ASSUME NEW d, NEW state, Recorded(d, state), Moves(d, state) PROVE history'[c] \in Closed
    <3>1. CASE d = c
      BY <1>1, <2>1, <2>3, <3>1 DEF Recorded, Moves, Closed
    <3>2. CASE d # c
      BY <1>1, <2>1, <2>3, <3>2, RecordedOnly
    <3> QED BY <3>1, <3>2
  <2>4. history' = history => history'[c] \in Closed
    BY <1>1
  <2> QED BY <1>1, <2>2, <2>3, <2>4, RecordsMove
<1>2. IInv /\ OfferInv /\ [Next]_vars =>
        [\A c \in Calls \ again : call # c /\ history[c] \in Closed =>
             call' # c /\ history'[c] \in Closed]_vars
  BY <1>1
<1> QED BY <1>2, OfferHolds, PTL DEF Spec, OverStaysOver

\* A hold is granted to the call that is up, and every way to end a call ends it.
HoldNeedsACall == held => InCall

LEMMA HoldKept ==
  ASSUME IInv, HoldNeedsACall, [Next]_vars
  PROVE  HoldNeedsACall'
<1> USE CallAssumption DEF Calls, MaybeCall, InCall, HoldNeedsACall
<1>0. TypeDialog /\ TypeRest /\ Working /\ OpOwnsItsCall
  BY TypeSplit DEF IInv
<1>1. ASSUME held' = held, call' = call \/ call' \in Calls PROVE HoldNeedsACall'
  BY <1>1
<1>2. CASE Finish
  <2>1. CASE InviteAnswered \/ InviteUnacked
    BY <1>0, <1>1, <2>1 DEF InviteAnswered, InviteUnacked, Working
  <2>2. CASE ReinviteAccepted
    BY <1>0, <2>2 DEF ReinviteAccepted, Reinviting, Working, OpOwnsItsCall
  <2>3. CASE ~InviteAnswered /\ ~InviteUnacked /\ ~ReinviteAccepted
    BY <1>1, <1>2, <2>3
       DEF Finish, InviteFails, InviteRefused, InviteUnchallenged, ByeAnswered, ByeFails,
           CancelAccepted, RequestUnsuccessful, RefreshFails, RefreshRefused, ClearDialog, dialog
  <2> QED BY <2>1, <2>2, <2>3
<1>3. CASE Watch
  <2>1. CASE AutoAnswerCall
    BY <1>0, <1>1, <2>1 DEF AutoAnswerCall, AnswerIncoming, TypeRest
  <2>2. CASE ~AutoAnswerCall
    BY <1>1, <1>3, <2>2
       DEF Watch, TakeRequest, CleanUpAfterBye, ClearRinging, TerminateInvite, CheckBusy,
           SendBusy, AutoAnswerFails, Ring, ClearDialog, dialog
  <2> QED BY <2>1, <2>2
<1>4. CASE Peers
  BY <1>1, <1>4
     DEF Peers, PeerInvites, PeerCancels, PeerHangsUp, PeerSends, PeerRepeats, PeerReinvites,
         Repeated, PeerReplies, PeerAnswersLate, dialog
<1>5. CASE Answer
  BY <1>0, <1>1, <1>5 DEF Answer, AnswerIncoming, TypeDialog
<1> QED
  BY <1>1, <1>2, <1>3, <1>4, <1>5
     DEF Next, Invite, InviteWithoutPort, Reject, InDialog, RefresherExits, RefresherWakes,
         vars, dialog

\* A step that puts the call on hold, or keeps it there, leaves the call alone.
LEMMA HoldStep ==
  ASSUME [Next]_vars, call' # call
  PROVE  held' = held \/ ~held'
<1>1. CASE Finish
  BY <1>1
     DEF Finish, InviteFails, InviteRefused, InviteUnchallenged, InviteAnswered, InviteUnacked,
         ByeAnswered, ByeFails, CancelAccepted, RequestUnsuccessful, ReinviteAccepted,
         RefreshFails, RefreshRefused, ClearDialog, dialog
<1>2. CASE Watch
  BY <1>2
     DEF Watch, TakeRequest, CleanUpAfterBye, ClearRinging, TerminateInvite, CheckBusy,
         SendBusy, AutoAnswerCall, AnswerIncoming, AutoAnswerFails, Ring, ClearDialog, dialog
<1>3. CASE Peers
  BY <1>3
     DEF Peers, PeerInvites, PeerCancels, PeerHangsUp, PeerSends, PeerRepeats, PeerReinvites,
         Repeated, PeerReplies, PeerAnswersLate, dialog
<1> QED
  BY <1>1, <1>2, <1>3
     DEF Next, Invite, InviteWithoutPort, Answer, AnswerIncoming, Reject, InDialog,
         RefresherExits, RefresherWakes, vars, dialog

\* Whichever way calls end and follow one another, a hold ends with the call it was
\* granted to and none begins on hold (call.rs, hold_transfer.rs, clear_dialog_state):
\* for any number of calls and refreshers.
THEOREM HoldsEndWithTheirCall == SimpleUse => (Spec => HoldEndsWithItsCall)
<1> SUFFICES ASSUME SimpleUse PROVE Spec => HoldEndsWithItsCall
  OBVIOUS
<1>1. Init => HoldNeedsACall
  BY DEF Init, HoldNeedsACall
<1>2. IInv /\ HoldNeedsACall /\ [Next]_vars => HoldNeedsACall'
  BY HoldKept
<1>3. IInv /\ LineInv /\ HoldNeedsACall /\ HoldNeedsACall' /\ [Next]_vars =>
        [call' # call => ~held']_vars
  <2> SUFFICES ASSUME IInv, LineInv, HoldNeedsACall, HoldNeedsACall', [Next]_vars, call' # call
               PROVE  ~held'
    OBVIOUS
  <2>1. CASE call = NoCall
    BY <2>1, HoldStep DEF HoldNeedsACall, InCall
  <2>2. CASE call # NoCall
    BY <2>2, CallIsKept DEF HoldNeedsACall, InCall
  <2> QED BY <2>1, <2>2
<1> QED BY LineHolds, <1>1, <1>2, <1>3, PTL DEF Spec, HoldEndsWithItsCall

\* No request under way outlives the call it was begun for, and no ringing that of
\* an INVITE queued once (call.rs, hold_transfer.rs, incoming_call.rs): for any
\* account, any user and any number of calls and refreshers.
THEOREM CallsEndWholly == Spec => []NothingOutlivesItsCall
<1>1. OpOwnsItsCall /\ RingingIsOpen => NothingOutlivesItsCall
  BY DEF NothingOutlivesItsCall
<1> QED BY RequestsOwnTheirCall, RingingCallsAreOpen, <1>1, PTL

(***************************************************************************)
(* An account without auto-answer whose users keep to one call at a time   *)
(* is a PhoneLine.                                                         *)
(***************************************************************************)
LineStutter == UNCHANGED <<call, Ended \ {call}, again>>

\* What the steps of the line are, seen from the records.
LEMMA Closing ==
  ASSUME history \in [Calls -> Records], NEW c \in Calls, NEW state \in Closed, Recorded(c, state)
  PROVE  Ended' = Ended \/ Ended' = Ended \cup {c}
BY DEF Ended, Recorded, Closed

LEMMA ClosingOpen ==
  ASSUME history \in [Calls -> Records], NEW c \in Calls, NEW state \in Closed, Recorded(c, state),
         history[c] # "none"
  PROVE  Ended' = Ended \cup {c}
BY DEF Ended, Recorded, Closed

LEMMA Recording ==
  ASSUME history \in [Calls -> Records], NEW c \in Calls, NEW state, Recorded(c, state)
  PROVE  Ended' \ {c} = Ended \ {c}
BY DEF Ended, Recorded

LEMMA Opening ==
  ASSUME history \in [Calls -> Records], NEW c \in Calls, NEW state \in {"Dialing", "Connected"},
         Recorded(c, state), history[c] \in {"none", "Dialing"}
  PROVE  Ended' = Ended
BY DEF Ended, Recorded, Closed

LEMMA LineRefinementStep ==
  ASSUME SimpleUse, IInv, LineInv, OfferInv, [Next]_vars
  PROVE  Line!Next \/ LineStutter
<1> USE CallAssumption DEF Calls, MaybeCall, LockFree, InCall, SimpleUse
<1>0. /\ TypeDialog /\ TypeRest /\ Working /\ OpOwnsItsCall /\ history \in [Calls -> Records]
      /\ NewInv /\ WatchInv /\ RecordInv
  BY TypeSplit DEF IInv, TypeDialog, OfferInv
<1>12. CASE again' # again
  <2>1. PICK c \in Calls : again' = again \cup {c} /\ UNCHANGED <<dialog, op, watcher>>
    BY <1>12, AgainStep
  <2>2. Line!Offer(c)
    BY <2>1 DEF Line!Offer, Ended, dialog
  <2> QED BY <2>2 DEF Line!Next
<1> SUFFICES ASSUME again' = again PROVE Line!Next \/ LineStutter
  BY <1>12
<1>1. ASSUME call' = call, Ended' = Ended PROVE LineStutter
  BY <1>1 DEF LineStutter
<1>2. ASSUME call' = call, NEW c \in Calls, NEW state \in Closed, Recorded(c, state)
      PROVE  Line!Next \/ LineStutter
  <2>1. CASE Ended' \ {call'} = Ended \ {call}
    BY <1>2, <2>1 DEF LineStutter
  <2>2. CASE Ended' \ {call'} # Ended \ {call}
    <3>1. Ended' = Ended \cup {c} /\ c # call
      BY <1>0, <1>2, <2>2, Closing
    <3>2. Line!Miss(c)
      BY <1>2, <3>1 DEF Line!Miss
    <3> QED BY <3>2 DEF Line!Next
  <2> QED BY <2>1, <2>2
<1>3. ASSUME call \in Calls, call' = NoCall, NEW state \in Closed, Recorded(call, state)
      PROVE  Line!Next
  <2>1. Ended' = Ended \cup {call}
    BY <1>0, <1>3, ClosingOpen DEF RecordInv
  <2>2. NoCall \notin Ended'
    BY DEF Ended
  <2>3. Line!HangUp
    BY <1>3, <2>1, <2>2 DEF Line!HangUp
  <2> QED BY <2>3 DEF Line!Next
<1>4. ASSUME NEW c \in Calls, call = NoCall, call' = c, history[c] = "Dialing" \/ c \in again,
             history' = history \/ Recorded(c, "Connected")
      PROVE  Line!Next
  <2>1. Ended' \ {c} = Ended \ {c}
    BY <1>0, <1>4, Recording DEF Ended
  <2>2. NoCall \notin Ended /\ (c \in Ended => c \in again)
    BY <1>4 DEF Ended, Closed
  <2>3. Line!Connect(c)
    BY <1>4, <2>1, <2>2 DEF Line!Connect
  <2> QED BY <2>3 DEF Line!Next
<1>5. ASSUME UNCHANGED <<call, history>> PROVE LineStutter
  BY <1>1, <1>5 DEF Ended
<1>6. ASSUME NEW c \in OutCalls, Invite(c) PROVE LineStutter
  BY <1>0, <1>1, <1>6, Opening DEF Invite, NewInv, Untouched
<1>7. CASE Answer
  <2>1. /\ ringing \in Calls /\ call = NoCall
        /\ history[ringing] = "Dialing" \/ ringing \in again
    BY <1>0, <1>7 DEF Answer, TypeDialog, RecordInv
  <2> QED BY <1>4, <1>7, <2>1 DEF Answer, AnswerIncoming
<1>8. CASE Reject
  BY <1>0, <1>2, <1>8 DEF Reject, TypeDialog, Closed
<1>9. CASE Finish
  <2>1. CASE InviteFails \/ InviteRefused
    <3>1. op.call \in Calls /\ call = NoCall /\ call' = NoCall /\ Recorded(op.call, "Failed")
      BY <1>0, <2>1 DEF InviteFails, InviteRefused, ClearDialog, Working, LineInv
    <3> QED BY <1>2, <3>1 DEF Closed
  <2>2. CASE InviteAnswered \/ InviteUnacked
    <3>1. op.call \in Calls /\ call = NoCall /\ call' = op.call /\ history[op.call] = "Dialing"
      BY <1>0, <2>2 DEF InviteAnswered, InviteUnacked, RecordInv, LineInv
    <3>2. history' = history \/ Recorded(op.call, "Connected")
      BY <2>2 DEF InviteAnswered, InviteUnacked
    <3> QED BY <1>4, <3>1, <3>2
  <2>3. CASE ByeAnswered \/ CancelAccepted
    <3>1. op.call = call /\ call \in Calls
      BY <1>0, <2>3 DEF ByeAnswered, CancelAccepted, Ending, OpOwnsItsCall, Working
    <3>2. call' = NoCall /\ (Recorded(call, "Completed") \/ Recorded(call, "Cancelled"))
      BY <2>3, <3>1 DEF ByeAnswered, CancelAccepted, ClearDialog
    <3> QED BY <1>3, <3>1, <3>2 DEF Closed
  <2>4. CASE InviteUnchallenged \/ ByeFails \/ RequestUnsuccessful \/ ReinviteAccepted
             \/ RefreshFails \/ RefreshRefused
    BY <1>5, <2>4
       DEF InviteUnchallenged, ByeFails, RequestUnsuccessful, ReinviteAccepted, RefreshFails,
           RefreshRefused, dialog
  <2> QED BY <1>9, <2>1, <2>2, <2>3, <2>4 DEF Finish
<1>10. CASE Watch
  <2>0. watcher.at # "poll" => watcher.call \in Calls
    BY <1>0 DEF TypeRest
  <2>1. CASE CleanUpAfterBye
    <3>1. CASE InCall
      <4>1. call \in Calls /\ Recorded(call, "Completed") /\ call' = NoCall
        BY <1>0, <2>1, <3>1 DEF CleanUpAfterBye, ClosedByBye, ClearDialog, TypeDialog
      <4> QED BY <1>3, <4>1 DEF Closed
    <3>2. CASE ~InCall
      <4>1. watcher.call \in Calls /\ Recorded(watcher.call, "Completed") /\ call' = call
        BY <2>0, <2>1, <3>2 DEF CleanUpAfterBye, ClosedByBye, ClearDialog
      <4> QED BY <1>2, <4>1 DEF Closed
    <3> QED BY <3>1, <3>2
  <2>2. CASE TerminateInvite
    BY <1>2, <2>0, <2>2 DEF TerminateInvite, Closed
  <2>3. CASE CheckBusy
    <3>1. call' = call /\ watcher.call \in Calls
      BY <2>0, <2>3 DEF CheckBusy
    <3>2. history' = history \/ (Recorded(watcher.call, "Dialing") /\ call = NoCall)
      BY <2>3 DEF CheckBusy
    <3>3. CASE watcher.call \notin again
      <4>1. history[watcher.call] = "none"
        BY <1>0, <2>3, <3>3 DEF CheckBusy, WatchInv
      <4> QED BY <1>0, <1>1, <1>5, <3>1, <3>2, <4>1, Opening
    <3>4. CASE watcher.call \in again /\ history' # history
      <4>1. Ended' = Ended \ {watcher.call} /\ NoCall \notin Ended /\ call = NoCall
        BY <1>0, <3>1, <3>2, <3>4 DEF Ended, Recorded, Closed
      <4>2. Line!Reopen(watcher.call)
        BY <3>1, <3>4, <4>1 DEF Line!Reopen
      <4> QED BY <3>1, <4>2 DEF Line!Next
    <3> QED BY <1>5, <3>1, <3>3, <3>4
  <2>4. ~AutoAnswerCall
    BY DEF AutoAnswerCall, LineInv
  <2>5. CASE TakeRequest \/ ClearRinging \/ SendBusy \/ AutoAnswerFails \/ Ring
    BY <1>5, <2>5 DEF TakeRequest, ClearRinging, SendBusy, AutoAnswerFails, Ring, dialog
  <2> QED BY <1>10, <2>1, <2>2, <2>3, <2>4, <2>5 DEF Watch
<1>11. CASE Peers
  BY <1>5, <1>11
     DEF Peers, PeerInvites, PeerCancels, PeerHangsUp, PeerSends, PeerRepeats, PeerReinvites,
         Repeated, PeerReplies, PeerAnswersLate, dialog
<1> QED
  BY <1>5, <1>6, <1>7, <1>8, <1>9, <1>10, <1>11
     DEF Next, InviteWithoutPort, InDialog, RefresherExits, RefresherWakes, vars, dialog

\* With users who keep to one call at a time, and without automatic answers, the
\* account behaves like a telephone line whatever the peers, the network, the
\* watcher and the refreshers do: a call in progress is not replaced, and a call
\* that ended, failed, was missed or rejected does not come up again unless its
\* peer offers it again (incoming_call.rs takes its INVITE for a new call).
THEOREM Refinement == SimpleUse => (Spec => ImplementsPhoneLine)
<1> SUFFICES ASSUME SimpleUse PROVE Spec => ImplementsPhoneLine
  OBVIOUS
<1>1. Init => Line!Init
  BY DEF Init, Line!Init, Ended, Closed
<1>2. IInv /\ LineInv /\ OfferInv /\ [Next]_vars => [Line!Next]_<<call, Ended \ {call}, again>>
  BY LineRefinementStep DEF LineStutter
<1> QED BY <1>1, <1>2, LineHolds, OfferHolds, PTL DEF Spec, Line!Spec, ImplementsPhoneLine
===============================================================================
