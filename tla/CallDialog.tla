------------------------------ MODULE CallDialog ------------------------------
(***************************************************************************)
(* The call state of one account (src/sip/client.rs) and everything that   *)
(* works on it: the call operations behind the dashboard and the control   *)
(* socket (src/sip/operations/call.rs and hold_transfer.rs, the handlers), *)
(* the background watcher of incoming requests                             *)
(* (src/service/watcher/incoming_call.rs) and the session refreshers       *)
(* (src/service/managed_client.rs).                                        *)
(*                                                                         *)
(* One tokio mutex guards the client.  An operation that sends a request   *)
(* keeps it until the transaction layer returns, so `op` is both the       *)
(* operation under way and the lock; the watcher takes and releases it     *)
(* several times for one message, which is where it can be overtaken.      *)
(* Requests that arrive while somebody else holds the mutex wait in the    *)
(* transaction layer's queue.                                              *)
(***************************************************************************)
EXTENDS Naturals, Sequences

CONSTANTS
    OutCalls,       \* the Call-IDs of the calls users place (Uuid::new_v4)
    InCalls,        \* the Call-IDs of the calls peers place
    NoCall,         \* None
    AutoAnswer,     \* Account::auto_answer
    SessionTimers,  \* SipSettings::session_timers
    OneCallAtATime, \* users neither place nor answer a call during another one
    PortsRunOut,    \* bind_range may find no free RTP port
    MaxOffers       \* bounds the INVITEs and copies peers send; they have no such bound

ASSUME CallAssumption ==
    /\ OutCalls \cap InCalls = {}
    /\ NoCall \notin OutCalls \cup InCalls
    /\ {AutoAnswer, SessionTimers, OneCallAtATime, PortsRunOut} \subseteq BOOLEAN
    /\ MaxOffers \in Nat

Calls == OutCalls \cup InCalls
MaybeCall == Calls \cup {NoCall}

VARIABLES
    call,       \* call_id, set and cleared together with in_call and rtp_receiver
    remoteUri,  \* the call whose peer remote_uri names
    held,       \* SipClient::held
    ringing,    \* the call in ringing_invite_msg; `ringing` is set with it
    rtp,        \* the calls whose RtpReceiver loop has not been stopped
    history,    \* the state of each call's record in the call history
    op,         \* the operation that holds the mutex across a request
    refreshers, \* the calls whose spawn_session_refresher task is alive
    watcher,    \* where incoming_call_watcher is, and its message
    queue,      \* incoming_requests
    leg,        \* the peer's view of each call
    answered,   \* the calls whose last INVITE has an answer in server_txs
    again,      \* the calls whose INVITE was queued more than once
    offers      \* how many INVITEs and copies peers have sent

dialog == <<call, remoteUri, held, ringing, rtp, history>>
copies == <<answered, again, offers>>
vars == <<dialog, op, refreshers, watcher, queue, leg, copies>>

Requests == [method : {"INVITE", "CANCEL", "BYE"}, call : Calls]
Free == [kind |-> "none", call |-> NoCall, task |-> NoCall, reply |-> "none"]
Polling == [at |-> "poll", call |-> NoCall]

Kinds == {"none", "invite", "bye", "cancel", "hold", "resume", "refresh", "refreshBye"}
Replies == {"none", "ok", "refused", "unchallenged"}
Records == {"none", "Dialing", "Connected", "Completed", "Failed", "Cancelled", "Rejected"}
Legs == {"new", "trying", "cancelled", "up", "over"}
Stops == {"poll", "BYE", "CANCEL", "cancelled", "INVITE", "busy", "answer", "ring"}

\* Every variable holds a value of its kind, and the watcher works on a call
\* exactly when it is not polling.
TypeOK ==
    /\ call \in MaybeCall
    /\ remoteUri \in MaybeCall
    /\ held \in BOOLEAN
    /\ ringing \in MaybeCall
    /\ rtp \subseteq Calls
    /\ history \in [Calls -> Records]
    /\ op \in [kind : Kinds, call : MaybeCall, task : MaybeCall, reply : Replies]
    /\ refreshers \subseteq Calls
    /\ watcher \in [at : Stops, call : MaybeCall]
    /\ (watcher.at = "poll") = (watcher.call = NoCall)
    /\ queue \in Seq(Requests)
    /\ leg \in [Calls -> Legs]
    /\ answered \subseteq Calls /\ again \subseteq Calls /\ offers \in 0 .. MaxOffers

Init ==
    /\ call = NoCall
    /\ remoteUri = NoCall
    /\ held = FALSE
    /\ ringing = NoCall
    /\ rtp = {}
    /\ history = [c \in Calls |-> "none"]
    /\ op = Free
    /\ refreshers = {}
    /\ watcher = Polling
    /\ queue = <<>>
    /\ leg = [c \in Calls |-> "new"]
    /\ answered = {} /\ again = {} /\ offers = 0

InCall == call # NoCall
LockFree == op.kind = "none"
Hold(kind, c) == op' = [Free EXCEPT !.kind = kind, !.call = c]

\* Mutant: the hold is not cleared.
ClearAllButHold ==
    /\ call' = NoCall
    /\ remoteUri' = NoCall
    /\ ringing' = NoCall
    /\ UNCHANGED held

\* clear_dialog_state, except that it drops the receiver without stopping it.
ClearDialog ==
    /\ call' = NoCall
    /\ remoteUri' = NoCall
    /\ held' = FALSE
    /\ ringing' = NoCall

\* The receiver is dropped, which does not stop its loop.
DropReceiver == UNCHANGED rtp

\* rx.stop() on the current call's receiver, when there is one.
StopRtp == rtp' = rtp \ {call}

\* record_call_start, record_call_connect and record_call_end: the last two
\* change a record only if it exists.
Recorded(c, state) ==
    history' = IF state = "Dialing" \/ history[c] # "none"
               THEN [history EXCEPT ![c] = state] ELSE history

(***************************************************************************)
(* Placing a call: invite() and the handlers that start RTP and the        *)
(* refresher when it succeeds.                                             *)
(***************************************************************************)
MayCall == OneCallAtATime => (~InCall /\ ringing = NoCall)

Invite(c) ==
    /\ LockFree /\ MayCall
    /\ leg[c] = "new"
    /\ remoteUri' = c
    /\ Recorded(c, "Dialing")
    /\ Hold("invite", c)
    /\ leg' = [leg EXCEPT ![c] = "trying"]
    /\ UNCHANGED <<call, held, ringing, rtp, refreshers, watcher, queue, copies>>

\* bind_range fails after remote_uri was set; nothing is sent.
InviteWithoutPort(c) ==
    /\ PortsRunOut
    /\ LockFree /\ MayCall
    /\ leg[c] = "new"
    /\ remoteUri' = c
    /\ leg' = [leg EXCEPT ![c] = "over"]
    /\ UNCHANGED <<call, held, ringing, rtp, history, op, refreshers, watcher, queue, copies>>

\* send() returns an error: Timer B, or the transport.  The peer may have the
\* INVITE all the same.
InviteFails ==
    /\ op.kind = "invite"
    /\ Recorded(op.call, "Failed")
    /\ remoteUri' = NoCall
    /\ op' = Free
    /\ UNCHANGED <<call, held, ringing, rtp, refreshers, watcher, queue, leg, copies>>

\* A final answer other than 200, or a challenge after which every
\* authenticated attempt was refused or timed out.
InviteRefused ==
    /\ op.kind = "invite"
    /\ op.reply = "refused"
    /\ Recorded(op.call, "Failed")
    /\ ClearDialog
    /\ DropReceiver
    /\ op' = Free
    /\ UNCHANGED <<refreshers, watcher, queue, leg, copies>>

\* A 401 or 407 with no challenge in it: invite() bails out as it stands.
InviteUnchallenged ==
    /\ op.kind = "invite"
    /\ op.reply = "unchallenged"
    /\ op' = Free
    /\ UNCHANGED <<dialog, refreshers, watcher, queue, leg, copies>>

InviteAnswered ==
    /\ op.kind = "invite"
    /\ op.reply = "ok"
    /\ call' = op.call
    /\ Recorded(op.call, "Connected")
    /\ rtp' = rtp \cup {op.call}
    /\ refreshers' = refreshers \cup {c \in {op.call} : SessionTimers}
    /\ op' = Free
    /\ UNCHANGED <<remoteUri, held, ringing, watcher, queue, leg, copies>>

\* The 200 arrives but the ACK cannot be sent: the dialog is set up, and the
\* error keeps the handler from starting RTP and the refresher.
InviteUnacked ==
    /\ op.kind = "invite"
    /\ op.reply = "ok"
    /\ call' = op.call
    /\ op' = Free
    /\ UNCHANGED <<remoteUri, held, ringing, rtp, history, refreshers, watcher, queue, leg, copies>>

(***************************************************************************)
(* Answering and rejecting a ringing call.                                 *)
(***************************************************************************)

\* answer_incoming: replaces whatever dialog there is, and leaves `held` alone.
AnswerIncoming(c) ==
    /\ call' = c
    /\ remoteUri' = c
    /\ ringing' = NoCall
    /\ rtp' = rtp \cup {c}
    /\ Recorded(c, "Connected")
    /\ leg' = [leg EXCEPT ![c] = IF @ \in {"trying", "cancelled"} THEN "up" ELSE @]
    /\ answered' = answered \cup {c}
    /\ UNCHANGED <<held, again, offers>>

\* answer_account; when answer_incoming fails nothing changes.
Answer ==
    /\ LockFree
    /\ ringing # NoCall
    /\ OneCallAtATime => ~InCall
    /\ AnswerIncoming(ringing)
    /\ refreshers' = refreshers \cup {c \in {ringing} : SessionTimers}
    /\ UNCHANGED <<op, watcher, queue>>

\* reject_account, and hangup_account while a call rings.
Reject ==
    /\ LockFree
    /\ ringing # NoCall
    /\ Recorded(ringing, "Rejected")
    /\ leg' = [leg EXCEPT ![ringing] = IF @ = "trying" THEN "over" ELSE @]
    /\ ringing' = NoCall
    /\ answered' = answered \cup {ringing}
    /\ UNCHANGED <<call, remoteUri, held, rtp, op, refreshers, watcher, queue, again, offers>>

(***************************************************************************)
(* Ending a call: bye() and cancel(), and hold_resume() on it.             *)
(***************************************************************************)

\* An in-dialog request goes out; without a remote_uri hold_resume and cancel
\* fail before they send anything.
InDialog(kind) ==
    /\ LockFree
    /\ InCall
    /\ kind # "bye" => remoteUri # NoCall
    /\ Hold(kind, call)
    /\ UNCHANGED <<dialog, refreshers, watcher, queue, leg, copies>>

Ending == op.kind \in {"bye", "refreshBye"}
Reinviting == op.kind \in {"hold", "resume", "refresh"}

\* The refresher's loop breaks after its BYE, however that went.
RefreshersLeft == refreshers \ IF op.kind = "refreshBye" THEN {op.task} ELSE {}

\* Any answer to the BYE ends the call.
ByeAnswered ==
    /\ Ending
    /\ op.reply # "none"
    /\ StopRtp
    /\ Recorded(op.call, "Completed")
    /\ ClearDialog
    /\ op' = Free
    /\ refreshers' = RefreshersLeft
    /\ UNCHANGED <<watcher, queue, leg, copies>>

ByeFails ==
    /\ Ending
    /\ op' = Free
    /\ refreshers' = RefreshersLeft
    /\ UNCHANGED <<dialog, watcher, queue, leg, copies>>

\* 200 or 487.
CancelAccepted ==
    /\ op.kind = "cancel"
    /\ op.reply = "ok"
    /\ StopRtp
    /\ Recorded(op.call, "Cancelled")
    /\ ClearDialog
    /\ op' = Free
    /\ UNCHANGED <<refreshers, watcher, queue, leg, copies>>

\* Refused, or an error: the call stays as it is.
RequestUnsuccessful ==
    /\ op.kind \in {"cancel", "hold", "resume"}
    /\ op' = Free
    /\ UNCHANGED <<dialog, refreshers, watcher, queue, leg, copies>>

\* Mutant: a refresh is sent as a resume.
HeldUnlessHolding == op.kind = "hold"

\* refresh_session repeats the present hold state.
HeldAfter ==
    CASE op.kind = "hold" -> TRUE
      [] op.kind = "resume" -> FALSE
      [] op.kind = "refresh" -> held

ReinviteAccepted ==
    /\ Reinviting
    /\ op.reply = "ok"
    /\ held' = HeldAfter
    /\ op' = Free
    /\ UNCHANGED <<call, remoteUri, ringing, rtp, history, refreshers, watcher, queue, leg, copies>>

(***************************************************************************)
(* The session refresher spawned for call c.  It refreshes whatever call   *)
(* there is when it wakes up, and ends only when it finds none.            *)
(***************************************************************************)
RefresherExits(c) ==
    /\ c \in refreshers
    /\ LockFree
    /\ ~InCall
    /\ refreshers' = refreshers \ {c}
    /\ UNCHANGED <<dialog, op, watcher, queue, leg, copies>>

\* Without a remote_uri the refresh fails at once, and the BYE follows.
RefresherWakes(c) ==
    /\ c \in refreshers
    /\ LockFree
    /\ InCall
    /\ op' = [kind |-> IF remoteUri = NoCall THEN "refreshBye" ELSE "refresh",
              call |-> call, task |-> c, reply |-> "none"]
    /\ UNCHANGED <<dialog, refreshers, watcher, queue, leg, copies>>

\* Err: terminate the call, still under the same lock.
RefreshFails ==
    /\ op.kind = "refresh"
    /\ op' = [op EXCEPT !.kind = "refreshBye", !.reply = "none"]
    /\ UNCHANGED <<dialog, refreshers, watcher, queue, leg, copies>>

\* Ok(false): any answer but 200.
RefreshRefused ==
    /\ op.kind = "refresh"
    /\ op.reply \in {"refused", "unchallenged"}
    /\ op' = Free
    /\ UNCHANGED <<dialog, refreshers, watcher, queue, leg, copies>>

(***************************************************************************)
(* incoming_call_watcher.  Each action is one stretch under the mutex.     *)
(* Answering a BYE or a CANCEL with 200 touches no call state and is part  *)
(* of the step that takes the message.                                     *)
(***************************************************************************)
GoTo(at) == watcher' = [watcher EXCEPT !.at = at]

\* Mutant: the watcher listens only while there is no call.
TakeRequestWhenIdle ==
    /\ LockFree
    /\ ~InCall
    /\ watcher.at = "poll"
    /\ queue # <<>>
    /\ watcher' = [at |-> Head(queue).method, call |-> Head(queue).call]
    /\ queue' = Tail(queue)
    /\ UNCHANGED <<dialog, op, refreshers, leg, copies>>

TakeRequest ==
    /\ LockFree
    /\ watcher.at = "poll"
    /\ queue # <<>>
    /\ watcher' = [at |-> Head(queue).method, call |-> Head(queue).call]
    /\ queue' = Tail(queue)
    /\ UNCHANGED <<dialog, op, refreshers, leg, copies>>

\* The record of the call the client has is closed, else of the one named.
ClosedByBye == IF InCall THEN call ELSE watcher.call

\* Mutant: the cleanup does not wait for the mutex.
CleanUpUnlocked ==
    /\ watcher.at = "BYE"
    /\ Recorded(ClosedByBye, "Completed")
    /\ StopRtp
    /\ ClearDialog
    /\ watcher' = Polling
    /\ UNCHANGED <<op, refreshers, queue, leg, copies>>

CleanUpAfterBye ==
    /\ watcher.at = "BYE"
    /\ LockFree
    /\ Recorded(ClosedByBye, "Completed")
    /\ StopRtp
    /\ ClearDialog
    /\ watcher' = Polling
    /\ UNCHANGED <<op, refreshers, queue, leg, copies>>

\* Mutant: the cancelled INVITE stays on offer.
KeepRinging ==
    /\ watcher.at = "CANCEL"
    /\ LockFree
    /\ GoTo("cancelled")
    /\ UNCHANGED <<dialog, op, refreshers, queue, leg, copies>>

ClearRinging ==
    /\ watcher.at = "CANCEL"
    /\ LockFree
    /\ ringing' = NoCall
    /\ GoTo("cancelled")
    /\ UNCHANGED <<call, remoteUri, held, rtp, history, op, refreshers, queue, leg, copies>>

\* 487 for the INVITE; sent whatever has become of it, and put on no record.
TerminateInvite ==
    /\ watcher.at = "cancelled"
    /\ LockFree
    /\ leg' = [leg EXCEPT ![watcher.call] = IF @ = "cancelled" THEN "over" ELSE @]
    /\ Recorded(watcher.call, "Cancelled")
    /\ watcher' = Polling
    /\ UNCHANGED <<call, remoteUri, held, ringing, rtp, op, refreshers, queue, copies>>

CheckBusy ==
    /\ watcher.at = "INVITE"
    /\ LockFree
    /\ IF InCall
       THEN GoTo("busy") /\ UNCHANGED history
       ELSE /\ GoTo(IF AutoAnswer THEN "answer" ELSE "ring")
            /\ Recorded(watcher.call, "Dialing")
    /\ UNCHANGED <<call, remoteUri, held, ringing, rtp, op, refreshers, queue, leg, copies>>

\* Mutant: back to polling with the message still in hand.
SendBusyKeepsMessage ==
    /\ watcher.at = "busy"
    /\ LockFree
    /\ leg' = [leg EXCEPT ![watcher.call] = IF @ \in {"trying", "cancelled"} THEN "over" ELSE @]
    /\ GoTo("poll")
    /\ UNCHANGED <<dialog, op, refreshers, queue, copies>>

\* Mutant: a busy account ignores the INVITE.
SendNothing ==
    /\ watcher.at = "busy"
    /\ LockFree
    /\ watcher' = Polling
    /\ UNCHANGED <<dialog, op, refreshers, queue, leg, copies>>

\* 486, and no record of it.
SendBusy ==
    /\ watcher.at = "busy"
    /\ LockFree
    /\ leg' = [leg EXCEPT ![watcher.call] = IF @ \in {"trying", "cancelled"} THEN "over" ELSE @]
    /\ watcher' = Polling
    /\ UNCHANGED <<dialog, op, refreshers, queue, copies>>

\* No refresher is spawned for a call that is answered automatically.
AutoAnswerCall ==
    /\ watcher.at = "answer"
    /\ LockFree
    /\ AnswerIncoming(watcher.call)
    /\ watcher' = Polling
    /\ UNCHANGED <<op, refreshers, queue>>

AutoAnswerFails ==
    /\ PortsRunOut
    /\ watcher.at = "answer"
    /\ LockFree
    /\ watcher' = Polling
    /\ UNCHANGED <<dialog, op, refreshers, queue, leg, copies>>

\* 180; the previous ringing call, if any, is forgotten.
Ring ==
    /\ watcher.at = "ring"
    /\ LockFree
    /\ ringing' = watcher.call
    /\ answered' = answered \cup {watcher.call}
    /\ watcher' = Polling
    /\ UNCHANGED <<call, remoteUri, held, rtp, history, op, refreshers, queue, leg, again, offers>>

Watch ==
    \/ TakeRequest \/ CleanUpAfterBye \/ ClearRinging \/ TerminateInvite
    \/ CheckBusy \/ SendBusy \/ AutoAnswerCall \/ AutoAnswerFails \/ Ring

(***************************************************************************)
(* The peers.                                                              *)
(***************************************************************************)
PeerSends(c, method, from, to) ==
    /\ leg[c] = from
    /\ leg' = [leg EXCEPT ![c] = to]
    /\ queue' = Append(queue, [method |-> method, call |-> c])
    /\ UNCHANGED <<dialog, op, refreshers, watcher>>

Counted == offers < MaxOffers /\ offers' = offers + 1

PeerInvites(c) ==
    PeerSends(c, "INVITE", "new", "trying") /\ Counted /\ UNCHANGED <<answered, again>>
PeerCancels(c) == PeerSends(c, "CANCEL", "trying", "cancelled") /\ UNCHANGED copies
PeerHangsUp(c) == PeerSends(c, "BYE", "up", "over") /\ UNCHANGED copies

\* A request is queued once more.
Repeated(c, method) ==
    /\ Counted
    /\ queue' = Append(queue, [method |-> method, call |-> c])
    /\ again' = again \cup {d \in {c} : method = "INVITE"}
    /\ UNCHANGED <<dialog, op, refreshers, watcher, leg>>

\* A copy of a request arrives, sent again for want of an answer or late on its
\* way. The transaction layer queues it unless it has an answer on record: that
\* of a CANCEL or a BYE is recorded when the watcher takes it, that of an INVITE
\* when it rings or is answered or rejected, and never when it is refused.
PeerRepeats(c, method) ==
    /\ IF method = "INVITE" THEN c \in InCalls /\ leg[c] # "new" /\ c \notin answered
       ELSE \E i \in DOMAIN queue : queue[i] = [method |-> method, call |-> c]
    /\ Repeated(c, method)
    /\ UNCHANGED answered

\* A re-INVITE for a call that the peer has up, maybe one that ended here: the
\* watcher does not tell it from a new call.
PeerReinvites(c) ==
    /\ leg[c] = "up"
    /\ Repeated(c, "INVITE")
    /\ answered' = answered \ {c}

\* The final answer to the request under way, as the client will see it.
\* A BYE ends the peer's leg; an INVITE that is answered sets it up.
PeerReplies(reply) ==
    /\ ~LockFree
    /\ op.reply = "none"
    /\ reply = "unchallenged" => op.kind \notin {"bye", "refreshBye", "cancel"}
    /\ op.kind = "invite" => leg[op.call] = "trying"
    /\ op' = [op EXCEPT !.reply = reply]
    /\ leg' = [leg EXCEPT ![op.call] =
                CASE op.kind = "invite" -> IF reply = "ok" THEN "up" ELSE "over"
                  [] Ending -> "over"
                  [] OTHER -> @]
    /\ UNCHANGED <<dialog, refreshers, watcher, queue, copies>>

\* An INVITE the client has given up on is still answered by the callee.
PeerAnswersLate(c) ==
    /\ leg[c] = "trying"
    /\ op.call # c
    /\ leg' = [leg EXCEPT ![c] = "up"]
    /\ UNCHANGED <<dialog, op, refreshers, watcher, queue, copies>>

Finish ==
    \/ InviteFails \/ InviteRefused \/ InviteUnchallenged \/ InviteAnswered
    \/ InviteUnacked \/ ByeAnswered \/ ByeFails \/ CancelAccepted
    \/ RequestUnsuccessful \/ ReinviteAccepted \/ RefreshFails \/ RefreshRefused

Peers ==
    \/ \E c \in InCalls : PeerInvites(c) \/ PeerCancels(c)
    \/ \E c \in OutCalls : PeerAnswersLate(c)
    \/ \E c \in Calls : PeerHangsUp(c) \/ PeerReinvites(c)
    \/ \E c \in Calls, method \in {"INVITE", "CANCEL", "BYE"} : PeerRepeats(c, method)
    \/ \E reply \in Replies \ {"none"} : PeerReplies(reply)

Next ==
    \/ \E c \in OutCalls : Invite(c) \/ InviteWithoutPort(c)
    \/ Answer \/ Reject
    \/ \E kind \in {"bye", "cancel", "hold", "resume"} : InDialog(kind)
    \/ \E c \in refreshers : RefresherExits(c) \/ RefresherWakes(c)
    \/ Finish \/ Watch \/ Peers

Spec == Init /\ [][Next]_vars

(***************************************************************************)
(* A request always ends, with an answer or by Timer B or F.  The mutex is *)
(* a queue (tokio::sync::Mutex is first come, first served), so a watcher  *)
(* or a refresher that keeps asking for it gets it between operations.     *)
(***************************************************************************)
Fairness == WF_vars(Finish) /\ SF_vars(Watch)
FairSpec == Spec /\ Fairness

(***************************************************************************)
(* Properties.                                                             *)
(***************************************************************************)

\* The records that say how a call ended.
Closed == {"Completed", "Failed", "Cancelled", "Rejected"}

\* While a request of a call is under way the call cannot go away beneath it:
\* no BYE or CANCEL from the peer, no other operation and no refresher changes
\* the client until the operation lets go of the mutex.
OpOwnsItsCall == op.kind \notin {"none", "invite"} => call = op.call

\* RTP is received for the current call only, and not at all without one: no
\* way a call ends leaves its receiver running on its port.
RtpFollowsTheCall == rtp \subseteq {call}

\* A call the history shows as connected is the call that is up.
ConnectedIsCurrent == \A c \in Calls : history[c] = "Connected" => call = c

\* Requests inside a call go to the peer of the call that is up: no call that
\* failed, rang or ended leaves the URI of another peer behind, nor takes it away.
PeerIsTheCalls == InCall => remoteUri = call

\* With users who keep to one call at a time and no automatic answers, whichever
\* way calls fail, ring, end or follow one another, what a call leaves in three
\* places agrees with it: the receivers on their ports, the history and the URI.
TracesFollowTheCall == RtpFollowsTheCall /\ ConnectedIsCurrent /\ PeerIsTheCalls

\* A refresh never takes a call off hold, nor puts it there (hold_transfer.rs,
\* refresh_session).
RefreshKeepsHold == [][op.kind = "refresh" => held' = held]_vars

\* A hold ends with its call: with users who keep to one call at a time and no
\* automatic answers, whichever way calls end and follow one another, none begins
\* on hold. (An answered call that takes the place of another, or an INVITE placed
\* during one, finds the hold of the call before it and keeps it.)
HoldEndsWithItsCall == [][call' # call => ~held']_vars

\* What rings is a call nobody has answered, rejected or cancelled, however
\* INVITEs and CANCELs overtake one another between the watcher's stretches
\* under the mutex and whatever users do meanwhile; but a repeated INVITE rings
\* whatever has become of its call.
RingingIsOpen ==
    ringing \notin again \cup {NoCall} => ringing # call /\ history[ringing] = "Dialing"

\* Nothing outlives the call it was begun for, for any user and with automatic
\* answers: no request under way and no ringing.
NothingOutlivesItsCall == OpOwnsItsCall /\ RingingIsOpen

\* A call that is over stays over: no late answer, ringing INVITE, automatic
\* answer, repeated CANCEL or BYE brings back a call the history shows as ended,
\* nor opens its record. Only its own INVITE does, queued once more.
OverStaysOver ==
    [][\A c \in Calls \ again : call # c /\ history[c] \in Closed =>
           call' # c /\ history'[c] \in Closed]_vars

\* The peer of the call that is up hung up, and its BYE has arrived.
HungUp ==
    /\ InCall
    /\ \/ watcher = [at |-> "BYE", call |-> call]
       \/ \E i \in DOMAIN queue : queue[i] = [method |-> "BYE", call |-> call]

\* Once the BYE of a peer that hung up has arrived its call does not stay up,
\* whatever operations and refreshers compete with the watcher for the mutex.
HangupIsNoticed == HungUp ~> ~HungUp

\* An automatic answer found no port: the call is on record, and its INVITE has
\* left the program's hands.
GivenUpForPort(c) ==
    /\ PortsRunOut
    /\ history[c] = "Dialing"
    /\ watcher.call # c
    /\ \A i \in DOMAIN queue : queue[i].call # c

\* Every peer that calls an account with auto-answer gets a final answer, also
\* when users place calls on the same account, unless there is no port for it.
EveryCallerIsAnswered ==
    \A c \in InCalls : leg[c] \in {"trying", "cancelled"} ~>
                           leg[c] \in {"up", "over"} \/ GivenUpForPort(c)

(***************************************************************************)
(* What the line promises.                                                 *)
(***************************************************************************)
Ended == {c \in Calls : history[c] \in Closed}

Line == INSTANCE PhoneLine WITH active <- call, over <- Ended \ {call}

\* With users who keep to one call at a time, an account is a phone line.
ImplementsPhoneLine == Line!Spec
===============================================================================
