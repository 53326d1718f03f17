----------------------------- MODULE IvrSession -----------------------------
(***************************************************************************)
(* The attendant that answers calls (ivr/session.rs), with the watcher     *)
(* that starts and aborts it (service/watcher/incoming_call.rs) and the    *)
(* scripts and web services it asks what to do (plugins/).                 *)
(*                                                                         *)
(* A session is a task of its own. It keeps the RTP receiver of the call   *)
(* it was started for, but all else it knows of the call it reads from the *)
(* client each time it has the client's mutex: whether SOME call is up,    *)
(* and the dialog its next message belongs to. Only a BYE from a peer      *)
(* aborts it; when a user ends the call, or the session itself does, it    *)
(* finds out the next time it looks at in_call, if it looks, and when      *)
(* another call takes the place of its own it never does.                  *)
(*                                                                         *)
(* Every step below runs from one await to the next. A message is built in *)
(* one step and sent in the next: the mutex is given up in between. Only   *)
(* the first key of what was collected decides, so the receiver's buffer   *)
(* is the first key in it.                                                 *)
(***************************************************************************)
EXTENDS Naturals, FiniteSets

CONSTANTS MaxCalls,    \* bounds the calls; the program has no such bound
          Keys,        \* what the caller may press
          Menu,        \* the actions of the keys the menu has
          Default,     \* the action without a key, or None
          None

VARIABLES call,        \* the call the client is in, 0: none
          endedBy,     \* what ended each call so far, "-": nothing
          task,        \* the session whose handle the watcher has, 0: none
          session,     \* where each call's session is
          buffered,    \* the first key in each call's receiver
          sent         \* what each session sent last, and for which call

vars == <<call, endedBy, task, session, buffered, sent>>

Calls == 1 .. MaxCalls

(* A record action with a number of seconds that no call lasts is "endless". *)
Actions == {"transfer", "playback", "record", "endless", "hold", "hangup",
            "webhook", "script"}

(* What becomes of the action a program answers with. The length of a       *)
(* recording is optional; the Rhai runner casts a negative one to an        *)
(* enormous one, Lua falls back to ten seconds, and in JSON it is a         *)
(* malformed answer. "none" is no action, and every failure.                *)
Rhai(a, secs) == IF a = "record" /\ secs \in {"huge", "negative"} THEN "endless" ELSE a
Lua(a, secs) == IF a = "record" /\ secs = "huge" THEN "endless" ELSE a
Webhook(a, secs) == IF a = "record" /\ secs = "negative" THEN "none" ELSE Lua(a, secs)

Answers(act) ==
    LET Answer == {"transfer", "playback", "record", "hold", "hangup", "none"}
        Length == {"some", "huge", "negative"}
    IN  IF act = "webhook" THEN {Webhook(a, secs) : a \in Answer, secs \in Length}
        ELSE {Rhai(a, secs) : a \in Answer, secs \in Length}
             \cup {Lua(a, secs) : a \in Answer, secs \in Length}

ASSUME IvrAssumption ==
    /\ MaxCalls \in Nat
    /\ DOMAIN Menu \subseteq Keys /\ None \notin Keys
    /\ \A key \in DOMAIN Menu : Menu[key] \in Actions
    /\ Default \in Actions \cup {None}

Places == {"-", "welcome", "menu", "collect", "poll", "extra", "act", "send",
           "held", "play", "record", "ask", "done"}

NoSession == [at |-> "-", act |-> "none", key |-> None, heeded |-> FALSE,
              for |-> 0, aborted |-> FALSE]

(* Of a message: the call it belongs to, and whether it is a transfer that   *)
(* ends the session.                                                        *)
Nothing == [for |-> None, final |-> FALSE]

TypeOK ==
    /\ call \in 0 .. MaxCalls
    /\ endedBy \in [Calls -> {"-", "peer", "user", "ivr", "replaced"}]
    /\ task \in 0 .. MaxCalls
    /\ session \in [Calls -> [at : Places, act : Actions \cup {"none", "resume"},
                              key : Keys \cup {None}, heeded : BOOLEAN,
                              for : 0 .. MaxCalls, aborted : BOOLEAN]]
    /\ buffered \in [Calls -> Keys \cup {None}]
    /\ sent \in [Calls -> {Nothing} \cup [for : 0 .. MaxCalls, final : BOOLEAN]]

Init ==
    /\ call = 0
    /\ endedBy = [k \in Calls |-> "-"]
    /\ task = 0
    /\ session = [k \in Calls |-> NoSession]
    /\ buffered = [k \in Calls |-> None]
    /\ sent = [k \in Calls |-> Nothing]

-----------------------------------------------------------------------------
(* The calls *)

(* The call that is up, if one is, is over. *)
Ends(how) == endedBy' = [k \in Calls |-> IF k = call THEN how ELSE endedBy[k]]

(* A call comes up: it is the next number. Neither invite nor answer_incoming *)
(* looks at in_call, so it may take the place of one that is up, whose       *)
(* session and receiver go on: a user places or answers a call during        *)
(* another, or while the watcher, which did look, waits for the mutex.       *)
Begins(k) ==
    /\ k # call /\ endedBy[k] = "-"
    /\ \A j \in Calls : j < k => j = call \/ endedBy[j] # "-"
    /\ Ends("replaced")
    /\ call' = k

(* The watcher answers and starts a session. The handle of an earlier one   *)
(* is dropped, which does not stop it.                                      *)
AutoAnswer(k) ==
    /\ Begins(k)
    /\ session' = [session EXCEPT ![k].at = "welcome"]
    /\ task' = k
    /\ UNCHANGED <<buffered, sent>>

(* A call without a session: one that a user places, or an answered one     *)
(* without an address for its media.                                        *)
PlainCall(k) ==
    /\ Begins(k)
    /\ UNCHANGED <<task, session, buffered, sent>>

(* The peer of call k presses a key, which the receiver of the call buffers *)
(* for its session to take; that of a replaced call still does.             *)
Press(k, key) ==
    /\ k = call \/ endedBy[k] = "replaced"
    /\ session[k].at \notin {"-", "done"}
    /\ buffered' = [buffered EXCEPT ![k] = IF @ = None THEN key ELSE @]
    /\ UNCHANGED <<call, endedBy, task, session, sent>>

(* Mutated: the watcher drops the session's handle only. *)
AbortNothing(k) == session

(* A session that is aborted stops where it awaits something. A script runs *)
(* without awaiting anything: its session goes on to its next await.        *)
Abort(k) ==
    IF session[k].at = "ask" /\ session[k].act = "script"
    THEN [session EXCEPT ![k].aborted = TRUE]
    ELSE [session EXCEPT ![k] = [NoSession EXCEPT !.at = "done"]]

(* A peer hangs up: the watcher aborts its session and clears the call,     *)
(* without a look at whose BYE it is. It may come from the peer of a call   *)
(* that was replaced, or cross the BYE of this side.                        *)
PeerBye ==
    /\ call # 0 \/ \E k \in Calls : endedBy[k] \in {"user", "ivr", "replaced"}
    /\ session' = IF task = 0 THEN session ELSE Abort(task)
    /\ task' = 0
    /\ Ends("peer")
    /\ call' = 0
    /\ UNCHANGED <<buffered, sent>>

(* A user hangs up, here: nothing tells the session. *)
UserBye ==
    /\ call # 0
    /\ Ends("user")
    /\ call' = 0
    /\ UNCHANGED <<task, session, buffered, sent>>

-----------------------------------------------------------------------------
(* The session of call k *)

At(k, place) == session[k].at = place

(* The session goes on elsewhere; between actions it has nothing in mind. *)
Go(k, place) ==
    session' = [session EXCEPT ![k] =
                   IF place \in {"menu", "done"}
                   THEN [NoSession EXCEPT !.at = place, !.aborted = session[k].aborted]
                   ELSE [@ EXCEPT !.at = place]]

(* A step that waits first is not taken by an aborted session. *)
Waits(k, place) == At(k, place) /\ ~session[k].aborted

(* Mutated: the result of every action is dropped. *)
AfterAlways(k, shouldEnd) == "menu"

(* What follows an action that may end the session: only the action of a    *)
(* key that is a transfer or a hangup, or the default action, is heeded.    *)
After(k, shouldEnd) == IF shouldEnd /\ session[k].heeded THEN "done" ELSE "menu"

(* The welcome ends, is cut short by the end of the call, or has no file. *)
Welcome(k) ==
    /\ Waits(k, "welcome")
    /\ Go(k, "menu")
    /\ UNCHANGED <<call, endedBy, task, buffered, sent>>

(* Mutated: the menu starts again without looking at the call. *)
MenuLoopBlind(k) ==
    /\ At(k, "menu")
    /\ Go(k, "collect")
    /\ UNCHANGED <<call, endedBy, task, buffered, sent>>

MenuLoop(k) ==
    /\ At(k, "menu")
    /\ Go(k, IF call = 0 THEN "done" ELSE "collect")
    /\ UNCHANGED <<call, endedBy, task, buffered, sent>>

(* The action of a key, of the default, or the end of the session. *)
Chosen(s, key) ==
    IF key \in DOMAIN Menu
    THEN [s EXCEPT !.at = "act", !.key = None, !.act = Menu[key],
                   !.heeded = Menu[key] \in {"transfer", "hangup"}]
    ELSE IF Default # None
    THEN [s EXCEPT !.at = "act", !.key = None, !.act = Default, !.heeded = TRUE]
    ELSE [NoSession EXCEPT !.at = "done"]

(* When the call is over nothing was collected, and nothing is an input     *)
(* like any other. ivr_timeout is at least a second: with 0 no key would    *)
(* ever be collected.                                                       *)
Collect(k) ==
    /\ Waits(k, "collect")
    /\ session' = [session EXCEPT ![k] = IF call = 0 THEN Chosen(@, None)
                                         ELSE [@ EXCEPT !.at = "poll"]]
    /\ UNCHANGED <<call, endedBy, task, buffered, sent>>

(* Without a key the session goes on collecting, until the time is up. *)
TakeKeys(k) ==
    /\ Waits(k, "poll")
    /\ IF buffered[k] # None
       THEN session' = [session EXCEPT ![k].at = "extra", ![k].key = buffered[k]]
       ELSE Go(k, "collect") \/ session' = [session EXCEPT ![k] = Chosen(@, None)]
    /\ buffered' = [buffered EXCEPT ![k] = None]
    /\ UNCHANGED <<call, endedBy, task, sent>>

(* Keys that follow the first within two seconds belong to the same input. *)
TakeMore(k) ==
    /\ Waits(k, "extra")
    /\ session' = [session EXCEPT ![k] = Chosen(@, @.key)]
    /\ \E rest \in {buffered[k], None} : buffered' = [buffered EXCEPT ![k] = rest]
    /\ UNCHANGED <<call, endedBy, task, sent>>

Does(k, acts) == At(k, "act") /\ session[k].act \in acts

(* Transfer, hold and resume: the message is built from the client's call. *)
Build(k) ==
    /\ Does(k, {"transfer", "hold", "resume"})
    /\ session' = [session EXCEPT ![k].at = "send", ![k].for = call]
    /\ UNCHANGED <<call, endedBy, task, buffered, sent>>

Sends(k, what, for) ==
    sent' = [sent EXCEPT ![k] =
                [for |-> for, final |-> what = "transfer" /\ session[k].heeded]]

(* The message is sent; without an answer the session fails. *)
Send(k) ==
    /\ At(k, "send")
    /\ Sends(k, session[k].act, session[k].for)
    /\ Go(k, IF session[k].aborted THEN "done"
             ELSE IF session[k].act = "hold" THEN "held"
             ELSE After(k, session[k].act = "transfer"))
       \/ Go(k, "done")
    /\ UNCHANGED <<call, endedBy, task, buffered>>

(* On hold, until a key: nothing else ends this loop. *)
Held(k) ==
    /\ Waits(k, "held") /\ buffered[k] # None
    /\ buffered' = [buffered EXCEPT ![k] = None]
    /\ session' = [session EXCEPT ![k].at = "act", ![k].act = "resume", ![k].for = 0]
    /\ UNCHANGED <<call, endedBy, task, sent>>

(* SipClient::bye for whichever call is up, its result ignored. When the    *)
(* BYE has no answer, or its sender is aborted, the call is not cleared.    *)
Hangup(k) ==
    /\ Does(k, {"hangup"})
    /\ IF call = 0 THEN UNCHANGED <<call, endedBy, sent>>
       ELSE /\ Sends(k, "hangup", call)
            /\ \/ ~session[k].aborted /\ call' = 0 /\ Ends("ivr")
               \/ UNCHANGED <<call, endedBy>>
    /\ Go(k, IF session[k].aborted THEN "done" ELSE After(k, TRUE))
    /\ UNCHANGED <<task, buffered>>

(* A file that does not load ends the session. *)
Playback(k) ==
    /\ Does(k, {"playback"})
    /\ Go(k, "play") \/ Go(k, "done")
    /\ UNCHANGED <<call, endedBy, task, buffered, sent>>

Record(k) ==
    /\ Does(k, {"record", "endless"})
    /\ Go(k, "record")
    /\ UNCHANGED <<call, endedBy, task, buffered, sent>>

PlayEnds(k) ==
    /\ Waits(k, "play")
    /\ Go(k, After(k, FALSE))
    /\ UNCHANGED <<call, endedBy, task, buffered, sent>>

(* Mutated: a recording waits for the end of the call only. *)
RecordToTheEnd(k) ==
    /\ Waits(k, "record") /\ call = 0
    /\ Go(k, After(k, FALSE)) \/ Go(k, "done")
    /\ UNCHANGED <<call, endedBy, task, buffered, sent>>

(* The seconds are over or the call is; the file may not be writable. *)
RecordEnds(k) ==
    /\ Waits(k, "record")
    /\ session[k].act = "record" \/ call = 0
    /\ Go(k, After(k, FALSE)) \/ Go(k, "done")
    /\ UNCHANGED <<call, endedBy, task, buffered, sent>>

Ask(k) ==
    /\ Does(k, {"webhook", "script"})
    /\ Go(k, "ask")
    /\ UNCHANGED <<call, endedBy, task, buffered, sent>>

(* The answer is carried out as if it were the key's action. *)
Answered(k) ==
    /\ At(k, "ask")
    /\ \E answer \in Answers(session[k].act) :
          IF answer = "none" THEN Go(k, After(k, FALSE))
          ELSE session' = [session EXCEPT ![k].at = "act", ![k].act = answer]
    /\ UNCHANGED <<call, endedBy, task, buffered, sent>>

(* An aborted session reaches an await. *)
Stopped(k) ==
    /\ session[k].aborted /\ session[k].at \notin {"ask", "done"}
    /\ Go(k, "done")
    /\ UNCHANGED <<call, endedBy, task, buffered, sent>>

-----------------------------------------------------------------------------
Step(k) ==
    \/ Welcome(k) \/ MenuLoop(k) \/ Collect(k) \/ TakeKeys(k) \/ TakeMore(k)
    \/ Build(k) \/ Send(k) \/ Held(k) \/ Hangup(k) \/ Playback(k) \/ Record(k)
    \/ PlayEnds(k) \/ RecordEnds(k) \/ Ask(k) \/ Stopped(k)

Next ==
    \/ \E k \in Calls : AutoAnswer(k) \/ PlainCall(k) \/ Step(k) \/ Answered(k)
    \/ \E k \in Calls, key \in Keys : Press(k, key)
    \/ PeerBye \/ UserBye

Spec == Init /\ [][Next]_vars

(* A session's task runs on. Nothing bounds the time of a script or of a    *)
(* web service (the HTTP client has no timeout): Answered is not fair.      *)
FairSpec == Spec /\ \A k \in Calls : WF_vars(Step(k))

-----------------------------------------------------------------------------
(* Properties *)

(* A session whose call was hung up by a peer sends nothing more: what it   *)
(* sends for another call, or for none, is sent by a session that outlived  *)
(* its call, because a user or a session itself ended it, because another   *)
(* call took its place, or because a script kept the session from being     *)
(* aborted. (The module's first line in the source has it "stopping on      *)
(* hangup" of either kind; a session whose user hung up still collects      *)
(* keys, and may act on the next call.)                                     *)
ActsOnItsCall ==
    \A k \in Calls : \/ sent[k] = Nothing \/ sent[k].for = k
                     \/ endedBy[k] \in {"user", "ivr", "replaced"}
                     \/ session[k].aborted

(* The sessions, and what they sent, are as the program means them to be. *)
SessionInv == TypeOK /\ ActsOnItsCall

(* Once a transfer was sent that the menu or the default asked for, the     *)
(* session leaves the caller alone.                                         *)
TransferIsLast ==
    [][\A k \in Calls : sent[k].final => session'[k] = session[k]]_vars

(* The session of a call that is over ends, unless it is on hold, where it  *)
(* does not look at the call, waits for a program, or meets another call.   *)
SessionEnds ==
    \A k \in Calls :
        endedBy[k] # "-" ~> session[k].at \in {"-", "held", "ask", "done"} \/ call # 0

(* A key that the caller presses is taken, unless the session is over, asks *)
(* a program, or records without end.                                       *)
KeysAreTaken ==
    \A k \in Calls :
        buffered[k] # None ~>
            \/ buffered[k] = None \/ call # k
            \/ session[k].at \in {"-", "ask", "done"}
            \/ session[k].at = "record" /\ session[k].act = "endless"
=============================================================================
