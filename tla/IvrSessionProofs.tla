-------------------------- MODULE IvrSessionProofs --------------------------
(***************************************************************************)
(* A session that a hangup of a peer aborted sends nothing more, and one    *)
(* that sent the caller elsewhere leaves it alone, for any number of calls, *)
(* any menu, and whatever users and programs do.                            *)
(***************************************************************************)
EXTENDS IvrSession, TLAPS

Sessions == [at : Places, act : Actions \cup {"none", "resume"}, key : Keys \cup {None},
             heeded : BOOLEAN, for : 0 .. MaxCalls, aborted : BOOLEAN]
Endings == {"-", "peer", "user", "ivr", "replaced"}
Messages == [for : 0 .. MaxCalls, final : BOOLEAN]

Live(k) == session[k].at \notin {"-", "done"}

(* Nothing keeps a session from outliving its call. *)
Lost(k) == endedBy[k] \in {"user", "ivr", "replaced"} \/ session[k].aborted

(* Calls that are still to come have no session yet. *)
Untouched == \A k \in Calls : endedBy[k] = "-" /\ call # k => session[k].at = "-"

(* A session is that of the call that is up, and then the watcher can abort *)
(* it, or it is lost already.                                               *)
Attached == \A k \in Calls : Live(k) => \/ call = k /\ task = k
                                        \/ Lost(k)

(* A session that is over has nothing in mind. *)
Forgets(s) == s.at = "done" => s = [NoSession EXCEPT !.at = "done", !.aborted = s.aborted]

(* The session that sent a transfer it was to end with is over. *)
Transferred == \A k \in Calls : sent[k].final => session[k].at = "done"

IInv ==
    /\ SessionInv
    /\ call # 0 => endedBy[call] = "-"
    /\ Untouched
    /\ Attached
    /\ \A k \in Calls : session[k].aborted \/ task = k => session[k].at # "-"
    /\ \A k \in Calls : ~(session[k].aborted /\ task = k)
    /\ \A k \in Calls : session[k].at = "send" => session[k].for = k \/ Lost(k)
    /\ \A k \in Calls : Forgets(session[k])
    /\ Transferred

(* The session of call k goes on as s: as aborted as before, with a message *)
(* in mind only for the call that is up.                                    *)
Becomes(k, s) ==
    /\ session' = [session EXCEPT ![k] = s]
    /\ s.at # "-" /\ s.aborted = session[k].aborted
    /\ s.at = "send" => s.for = call
    /\ Forgets(s)

(* What one step of the session of call k may do: go on to another place;   *)
(* end the call that is up; and send a message for that call or the one in  *)
(* mind, after a final one of which it is over.                             *)
SessionStep(k) ==
    /\ Live(k) /\ task' = task
    /\ buffered' \in [Calls -> Keys \cup {None}]
    /\ \E s \in Sessions :
          /\ Becomes(k, s)
          /\ \/ sent' = sent
             \/ \E m \in Messages : /\ sent' = [sent EXCEPT ![k] = m]
                                    /\ \/ m.for = call
                                       \/ session[k].at = "send" /\ m.for = session[k].for
                                    /\ m.final => s.at = "done"
    /\ \/ call' = call /\ endedBy' = endedBy
       \/ call # 0 /\ call' = 0 /\ Ends("ivr")

-----------------------------------------------------------------------------
LEMMA NoSessionType == NoSession \in Sessions
  BY IvrAssumption DEF NoSession, Sessions, Places

(* Wherever a session goes, it is a session, and as aborted as it was. *)
LEMMA GoStep ==
    ASSUME TypeOK, NEW k \in Calls, NEW place \in Places \ {"-", "send"}, Go(k, place)
    PROVE  \E s \in Sessions : Becomes(k, s) /\ s.at = place
  <1>1. session \in [Calls -> Sessions]
    BY DEF TypeOK, Sessions
  <1>2. CASE place \in {"menu", "done"}
    <2> DEFINE s == [NoSession EXCEPT !.at = place, !.aborted = session[k].aborted]
    <2>1. s \in Sessions /\ s.at = place /\ s.aborted = session[k].aborted
      BY <1>1, NoSessionType DEF Sessions
    <2>2. session' = [session EXCEPT ![k] = s]
      BY <1>2 DEF Go
    <2>3. Forgets(s)
      BY <2>1 DEF Forgets, NoSession
    <2> HIDE DEF s
    <2> QED
      BY <1>2, <2>1, <2>2, <2>3 DEF Becomes
  <1>3. CASE place \notin {"menu", "done"}
    <2> DEFINE s == [session[k] EXCEPT !.at = place]
    <2>1. s \in Sessions /\ s.at = place /\ s.aborted = session[k].aborted
      BY <1>1 DEF Sessions
    <2>2. session' = [session EXCEPT ![k] = s]
      BY <1>3 DEF Go
    <2> HIDE DEF s
    <2> QED
      BY <1>3, <2>1, <2>2 DEF Becomes, Forgets
  <1> QED
    BY <1>2, <1>3

(* The choice of an action makes a session out of one that is not aborted. *)
LEMMA ChosenType ==
    ASSUME NEW s \in Sessions, NEW key, ~s.aborted
    PROVE  /\ Chosen(s, key) \in Sessions /\ ~Chosen(s, key).aborted
           /\ Chosen(s, key).at \in {"act", "done"} /\ Forgets(Chosen(s, key))
  <1>1. CASE key \in DOMAIN Menu
    <2>1. Menu[key] \in Actions
      BY <1>1, IvrAssumption
    <2> DEFINE h == Menu[key] \in {"transfer", "hangup"}
    <2>2. h \in BOOLEAN
      OBVIOUS
    <2>3. Chosen(s, key) = [s EXCEPT !.at = "act", !.key = None, !.act = Menu[key], !.heeded = h]
      BY <1>1 DEF Chosen
    <2> HIDE DEF h
    <2> QED
      BY <2>1, <2>2, <2>3 DEF Sessions, Places, Forgets
  <1>2. CASE key \notin DOMAIN Menu /\ Default # None
    <2>1. Default \in Actions
      BY <1>2, IvrAssumption
    <2> QED
      BY <1>2, <2>1 DEF Chosen, Sessions, Places, Forgets
  <1>3. CASE key \notin DOMAIN Menu /\ Default = None
    BY <1>3, NoSessionType DEF Chosen, Sessions, Places, NoSession, Forgets
  <1> QED
    BY <1>1, <1>2, <1>3

(* A program answers with an action or with none. *)
LEMMA AnswersType == \A act : Answers(act) \subseteq Actions \cup {"none"}
  BY DEF Answers, Rhai, Lua, Webhook, Actions

-----------------------------------------------------------------------------
(* Every action of a session is such a step. *)
LEMMA ActionsAreSteps ==
    ASSUME IInv, NEW k \in Calls, Step(k) \/ Answered(k)
    PROVE  SessionStep(k)
  <1> USE DEF Live, At, Waits, Does
  <1>0. TypeOK /\ session \in [Calls -> Sessions] /\ session[k] \in Sessions
    BY DEF IInv, SessionInv, TypeOK, Sessions
  <1>1. /\ buffered \in [Calls -> Keys \cup {None}] /\ buffered[k] \in Keys \cup {None}
        /\ call \in 0 .. MaxCalls
    BY <1>0 DEF TypeOK
  <1>2. None \in Keys \cup {None}
    OBVIOUS
  \* Steps that only move on.
  <1>3. ASSUME Live(k), UNCHANGED <<call, endedBy, task, sent>>,
               buffered' \in [Calls -> Keys \cup {None}],
               NEW place \in Places \ {"-", "send"}, Go(k, place)
        PROVE  SessionStep(k)
    BY <1>0, <1>3, GoStep DEF SessionStep
  \* Steps that change the session without a message in mind.
  <1>4. ASSUME Live(k), UNCHANGED <<call, endedBy, task, sent>>,
               buffered' \in [Calls -> Keys \cup {None}],
               NEW s \in Sessions, session' = [session EXCEPT ![k] = s],
               s.at # "-", s.aborted = session[k].aborted, s.at = "send" => s.for = call,
               Forgets(s)
        PROVE  SessionStep(k)
    BY <1>4 DEF SessionStep, Becomes
  <1>5. {"menu", "done", "collect", "play", "record", "ask", "held"} \subseteq Places \ {"-", "send"}
    BY DEF Places
  <1>6. \A b \in BOOLEAN : After(k, b) \in {"menu", "done"}
    BY DEF After
  <1>7. CASE Welcome(k)
    BY <1>1, <1>3, <1>5, <1>7 DEF Welcome
  <1>8. CASE MenuLoop(k)
    BY <1>1, <1>3, <1>5, <1>8 DEF MenuLoop
  <1>9. CASE Collect(k)
    <2>1. CASE call = 0
      <3> DEFINE s == Chosen(session[k], None)
      <3>1. s \in Sessions /\ ~s.aborted /\ s.at \in {"act", "done"} /\ Forgets(s)
        BY <1>0, <1>9, ChosenType DEF Collect
      <3>2. session' = [session EXCEPT ![k] = s]
        BY <1>9, <2>1 DEF Collect
      <3>3. ~session[k].aborted
        BY <1>9 DEF Collect
      <3> HIDE DEF s
      <3> QED
        BY <1>0, <1>1, <1>4, <1>9, <3>1, <3>2, <3>3 DEF Collect, Sessions
    <2>2. CASE call # 0
      <3> DEFINE s == [session[k] EXCEPT !.at = "poll"]
      <3>1. s \in Sessions /\ s.at = "poll" /\ s.aborted = session[k].aborted /\ Forgets(s)
        BY <1>0 DEF Sessions, Places, Forgets
      <3>2. session' = [session EXCEPT ![k] = s]
        BY <1>9, <2>2 DEF Collect
      <3> HIDE DEF s
      <3> QED
        BY <1>1, <1>4, <1>9, <3>1, <3>2 DEF Collect
    <2> QED
      BY <2>1, <2>2
  <1>10. CASE TakeKeys(k)
    <2>1. buffered' \in [Calls -> Keys \cup {None}]
      BY <1>1, <1>2, <1>10 DEF TakeKeys
    <2>2. CASE buffered[k] # None
      <3> DEFINE s == [session[k] EXCEPT !.at = "extra", !.key = buffered[k]]
      <3>1. s \in Sessions /\ s.at = "extra" /\ s.aborted = session[k].aborted /\ Forgets(s)
        BY <1>0, <1>1 DEF Sessions, Places, Forgets
      <3>2. session' = [session EXCEPT ![k] = s]
        BY <1>0, <1>10, <2>2 DEF TakeKeys
      <3> HIDE DEF s
      <3> QED
        BY <1>4, <1>10, <2>1, <3>1, <3>2 DEF TakeKeys
    <2>3. CASE Go(k, "collect")
      BY <1>3, <1>5, <1>10, <2>1, <2>3 DEF TakeKeys
    <2>4. CASE session' = [session EXCEPT ![k] = Chosen(@, None)]
      <3> DEFINE s == Chosen(session[k], None)
      <3>1. s \in Sessions /\ ~s.aborted /\ s.at \in {"act", "done"} /\ Forgets(s)
        BY <1>0, <1>10, ChosenType DEF TakeKeys
      <3>2. session' = [session EXCEPT ![k] = s] /\ ~session[k].aborted
        BY <1>10, <2>4 DEF TakeKeys
      <3> HIDE DEF s
      <3> QED
        BY <1>0, <1>4, <1>10, <2>1, <3>1, <3>2 DEF TakeKeys, Sessions
    <2> QED
      BY <1>10, <2>2, <2>3, <2>4 DEF TakeKeys
  <1>11. CASE TakeMore(k)
    <2>1. buffered' \in [Calls -> Keys \cup {None}]
      BY <1>1, <1>2, <1>11 DEF TakeMore
    <2> DEFINE s == Chosen(session[k], session[k].key)
    <2>2. s \in Sessions /\ ~s.aborted /\ s.at \in {"act", "done"} /\ Forgets(s)
      BY <1>0, <1>11, ChosenType DEF TakeMore
    <2>3. session' = [session EXCEPT ![k] = s] /\ ~session[k].aborted
      BY <1>11 DEF TakeMore
    <2> HIDE DEF s
    <2> QED
      BY <1>0, <1>4, <1>11, <2>1, <2>2, <2>3 DEF TakeMore, Sessions
  <1>12. CASE Build(k)
    <2> DEFINE s == [session[k] EXCEPT !.at = "send", !.for = call]
    <2>1. /\ s \in Sessions /\ s.at = "send" /\ s.for = call
          /\ s.aborted = session[k].aborted /\ Forgets(s)
      BY <1>0, <1>1 DEF Sessions, Places, Forgets
    <2>2. session' = [session EXCEPT ![k] = s]
      BY <1>0, <1>12 DEF Build
    <2> HIDE DEF s
    <2> QED
      BY <1>1, <1>4, <1>12, <2>1, <2>2 DEF Build
  <1>13. CASE Send(k)
    <2> DEFINE m == [for |-> session[k].for,
                     final |-> session[k].act = "transfer" /\ session[k].heeded]
    <2>1. m \in Messages
      BY <1>0 DEF Messages, Sessions
    <2>2. sent' = [sent EXCEPT ![k] = m] /\ m.for = session[k].for
      BY <1>13 DEF Send, Sends
    <2>3. PICK place \in Places \ {"-", "send"} :
             Go(k, place) /\ (m.final => place = "done")
      BY <1>5, <1>13 DEF Send, After
    <2> HIDE DEF m
    <2> QED
      BY <1>0, <1>1, <1>13, <2>1, <2>2, <2>3, GoStep DEF Send, SessionStep
  <1>14. CASE Held(k)
    <2>1. buffered' \in [Calls -> Keys \cup {None}]
      BY <1>1, <1>2, <1>14 DEF Held
    <2> DEFINE s == [session[k] EXCEPT !.at = "act", !.act = "resume", !.for = 0]
    <2>2. s \in Sessions /\ s.at = "act" /\ s.aborted = session[k].aborted /\ Forgets(s)
      <3>1. 0 \in 0 .. MaxCalls
        BY IvrAssumption
      <3> QED
        BY <1>0, <3>1 DEF Sessions, Places, Forgets
    <2>3. session' = [session EXCEPT ![k] = s]
      BY <1>0, <1>14 DEF Held
    <2> HIDE DEF s
    <2> QED
      BY <1>4, <1>14, <2>1, <2>2, <2>3 DEF Held
  <1>15. CASE Hangup(k)
    <2>1. PICK place \in Places \ {"-", "send"} : Go(k, place)
      BY <1>5, <1>6, <1>15 DEF Hangup
    <2>2. CASE call = 0
      BY <1>1, <1>3, <1>15, <2>1, <2>2 DEF Hangup
    <2>3. CASE call # 0
      <3> DEFINE m == [for |-> call, final |-> "hangup" = "transfer" /\ session[k].heeded]
      <3>1. m \in Messages /\ ~m.final
        BY <1>1 DEF Messages
      <3>2. sent' = [sent EXCEPT ![k] = m] /\ m.for = call
        BY <1>15, <2>3 DEF Hangup, Sends
      <3> HIDE DEF m
      <3>3. \/ call' = call /\ endedBy' = endedBy
            \/ call # 0 /\ call' = 0 /\ Ends("ivr")
        BY <1>15, <2>3 DEF Hangup
      <3> QED
        BY <1>0, <1>1, <1>15, <2>1, <3>1, <3>2, <3>3, GoStep DEF Hangup, SessionStep
    <2> QED
      BY <2>2, <2>3
  <1>16. CASE Playback(k) \/ Record(k) \/ PlayEnds(k) \/ RecordEnds(k) \/ Ask(k) \/ Stopped(k)
    <2>1. PICK place \in Places \ {"-", "send"} : Go(k, place)
      BY <1>5, <1>6, <1>16 DEF Playback, Record, PlayEnds, RecordEnds, Ask, Stopped
    <2>2. Live(k)
      BY <1>16 DEF Playback, Record, PlayEnds, RecordEnds, Ask, Stopped, IInv
    <2> QED
      BY <1>1, <1>3, <1>16, <2>1, <2>2
      DEF Playback, Record, PlayEnds, RecordEnds, Ask, Stopped
  <1>17. CASE Answered(k)
    <2>1. PICK answer \in Answers(session[k].act) :
             IF answer = "none" THEN Go(k, After(k, FALSE))
             ELSE session' = [session EXCEPT ![k].at = "act", ![k].act = answer]
      BY <1>17 DEF Answered
    <2>2. CASE answer = "none"
      BY <1>1, <1>3, <1>5, <1>6, <1>17, <2>1, <2>2 DEF Answered
    <2>3. CASE answer # "none"
      <3> DEFINE s == [session[k] EXCEPT !.at = "act", !.act = answer]
      <3>1. answer \in Actions
        BY <2>1, <2>3, AnswersType
      <3>2. s \in Sessions /\ s.at = "act" /\ s.aborted = session[k].aborted /\ Forgets(s)
        BY <1>0, <3>1 DEF Sessions, Places, Forgets
      <3>3. session' = [session EXCEPT ![k] = s]
        BY <1>0, <2>1, <2>3
      <3> HIDE DEF s
      <3> QED
        BY <1>1, <1>4, <1>17, <3>2, <3>3 DEF Answered
    <2> QED
      BY <2>2, <2>3
  <1> QED
    BY <1>7, <1>8, <1>9, <1>10, <1>11, <1>12, <1>13, <1>14, <1>15, <1>16, <1>17 DEF Step

-----------------------------------------------------------------------------
(* What such a step does to the session keeps the invariant. *)
LEMMA StepKeeps ==
    ASSUME IInv, NEW k \in Calls, SessionStep(k)
    PROVE  IInv'
  <1> USE DEF IInv, SessionInv, Live, Lost, Untouched, Attached
  <1>1. /\ session \in [Calls -> Sessions]
        /\ endedBy \in [Calls -> Endings]
        /\ call \in 0 .. MaxCalls /\ 0 \notin Calls
        /\ sent \in [Calls -> {Nothing} \cup Messages]
    BY DEF TypeOK, Sessions, Messages, Calls, Endings
  <1>2. PICK s \in Sessions :
           /\ session' = [session EXCEPT ![k] = s]
           /\ s.at # "-" /\ s.aborted = session[k].aborted
           /\ s.at = "send" => s.for = call
           /\ Forgets(s)
           /\ \/ sent' = sent
              \/ \E m \in Messages : /\ sent' = [sent EXCEPT ![k] = m]
                                     /\ \/ m.for = call
                                        \/ session[k].at = "send" /\ m.for = session[k].for
                                     /\ m.final => s.at = "done"
    BY DEF SessionStep, Becomes
  <1>3. /\ session' \in [Calls -> Sessions] /\ session'[k] = s
        /\ \A j \in Calls : session'[j].aborted = session[j].aborted
        /\ \A j \in Calls \ {k} : session'[j] = session[j]
    BY <1>1, <1>2
  <1>4. /\ call' \in {0, call}
        /\ endedBy' \in [Calls -> Endings]
        /\ \A j \in Calls : \/ endedBy'[j] = endedBy[j] /\ (j = call => call' = call)
                            \/ j = call /\ call' = 0 /\ endedBy'[j] = "ivr"
    <2>1. CASE call' = call /\ endedBy' = endedBy
      <3>1. endedBy' \in [Calls -> Endings]
        BY <1>1, <2>1
      <3>2. call' \in {0, call}
        BY <2>1
      <3>3. \A j \in Calls : endedBy'[j] = endedBy[j] /\ (j = call => call' = call)
        BY <2>1
      <3> QED
        BY <3>1, <3>2, <3>3
    <2>2. CASE call # 0 /\ call' = 0 /\ Ends("ivr")
      <3>1. endedBy' \in [Calls -> Endings]
        BY <1>1, <2>2 DEF Ends, Endings
      <3>2. \A j \in Calls : endedBy'[j] = IF j = call THEN "ivr" ELSE endedBy[j]
        BY <2>2 DEF Ends
      <3>3. call' \in {0, call}
        BY <2>2
      <3>4. ASSUME NEW j \in Calls
            PROVE  \/ endedBy'[j] = endedBy[j] /\ j # call
                   \/ j = call /\ call' = 0 /\ endedBy'[j] = "ivr"
        BY <2>2, <3>2
      <3> QED
        BY <3>1, <3>3, <3>4
    <2> QED
      BY <2>1, <2>2 DEF SessionStep
  <1>5. \A j \in Calls : Lost(j) => Lost(j)'
    BY <1>3, <1>4
  <1>6. call = k \/ Lost(k)
    BY DEF SessionStep
  <1>7. /\ sent' \in [Calls -> {Nothing} \cup Messages]
        /\ \A j \in Calls \ {k} : sent'[j] = sent[j]
        /\ sent'[k] = sent[k] \/ sent'[k].for = k \/ Lost(k)
        /\ sent'[k] = sent[k] \/ (sent'[k].final => s.at = "done")
    BY <1>1, <1>2, <1>6
  <1>8. TypeOK'
    <2>1. call' \in 0 .. MaxCalls
      BY <1>1, <1>4, IvrAssumption
    <2> QED
      BY <1>3, <1>4, <1>7, <2>1 DEF TypeOK, SessionStep, Sessions, Messages
  <1>9. ActsOnItsCall'
    <2> SUFFICES ASSUME NEW j \in Calls, sent'[j] # Nothing, sent'[j].for # j
                 PROVE  Lost(j)'
      BY DEF ActsOnItsCall
    <2>1. sent'[j] = sent[j] => Lost(j)
      BY DEF ActsOnItsCall
    <2> QED
      BY <1>5, <1>7, <2>1
  <1>10. (call # 0 => endedBy[call] = "-")'
    BY <1>1, <1>4 DEF TypeOK, Calls
  <1>11. Untouched'
    BY <1>3, <1>4 DEF SessionStep
  <1>12. Attached'
    <2> SUFFICES ASSUME NEW j \in Calls, Live(j)'
                 PROVE  (call' = j /\ task' = j) \/ Lost(j)'
      OBVIOUS
    <2>1. Live(j)
      BY <1>3 DEF SessionStep
    <2>2. CASE Lost(j)
      BY <1>5, <2>2
    <2>3. CASE call = j /\ task = j
      BY <1>4, <2>3 DEF SessionStep
    <2> QED
      BY <2>1, <2>2, <2>3
  <1>13. \A j \in Calls : /\ session'[j].aborted \/ task' = j => session'[j].at # "-"
                          /\ ~(session'[j].aborted /\ task' = j)
    BY <1>2, <1>3 DEF SessionStep
  <1>14. \A j \in Calls : session'[j].at = "send" => session'[j].for = j \/ Lost(j)'
    BY <1>2, <1>3, <1>5, <1>6
  <1>15. \A j \in Calls : Forgets(session'[j])
    BY <1>2, <1>3
  <1>16. Transferred'
    <2>1. ~sent[k].final
      BY DEF SessionStep, Transferred
    <2> QED
      BY <1>3, <1>7, <2>1 DEF Transferred
  <1> QED
    BY <1>8, <1>9, <1>10, <1>11, <1>12, <1>13, <1>14, <1>15, <1>16

(* An aborted session is over, or aborted when it goes on. *)
LEMMA AbortType ==
    ASSUME TypeOK, NEW k \in Calls
    PROVE  /\ Abort(k) \in [Calls -> Sessions]
           /\ \A j \in Calls \ {k} : Abort(k)[j] = session[j]
           /\ \/ Abort(k)[k].at = "done" /\ ~Abort(k)[k].aborted
              \/ Abort(k)[k].at = "ask" /\ Abort(k)[k].aborted
           /\ Forgets(Abort(k)[k])
           /\ session[k].at = "done" => Abort(k)[k] = [NoSession EXCEPT !.at = "done"]
  <1>1. session \in [Calls -> Sessions]
    BY DEF TypeOK, Sessions
  <1>2. CASE session[k].at = "ask" /\ session[k].act = "script"
    <2> DEFINE s == [session[k] EXCEPT !.aborted = TRUE]
    <2>1. s \in Sessions /\ s.at = "ask" /\ s.aborted
      BY <1>1, <1>2 DEF Sessions
    <2>2. Abort(k) = [session EXCEPT ![k] = s]
      BY <1>2 DEF Abort
    <2> HIDE DEF s
    <2> QED
      BY <1>1, <1>2, <2>1, <2>2 DEF Forgets
  <1>3. CASE ~(session[k].at = "ask" /\ session[k].act = "script")
    <2> DEFINE s == [NoSession EXCEPT !.at = "done"]
    <2>1. s \in Sessions /\ s.at = "done" /\ ~s.aborted
      BY NoSessionType DEF NoSession, Sessions, Places
    <2>2. Abort(k) = [session EXCEPT ![k] = s]
      BY <1>3 DEF Abort
    <2>3. Forgets(s)
      BY DEF Forgets, NoSession
    <2>4. Abort(k)[k] = s /\ s = [NoSession EXCEPT !.at = "done"]
      BY <1>1, <2>2
    <2> HIDE DEF s
    <2> QED
      BY <1>1, <2>1, <2>2, <2>3, <2>4
  <1> QED
    BY <1>2, <1>3

-----------------------------------------------------------------------------
(* The invariant holds in every reachable state. *)
LEMMA Invariant == Spec => []IInv
  <1>1. Init => IInv
    <2> SUFFICES ASSUME Init PROVE IInv
      OBVIOUS
    <2>1. \A k \in Calls : session[k] = NoSession /\ session[k].at = "-" /\ ~session[k].aborted
      BY DEF Init, NoSession
    <2>2. TypeOK
      <3>1. 0 \in 0 .. MaxCalls
        BY IvrAssumption
      <3> QED
        BY <3>1, NoSessionType DEF Init, TypeOK, Sessions
    <2>3. ActsOnItsCall
      BY DEF Init, ActsOnItsCall
    <2>4. call = 0 /\ task = 0 /\ 0 \notin Calls
      BY DEF Init, Calls
    <2>5. Transferred /\ \A k \in Calls : Forgets(session[k])
      BY <2>1 DEF Init, Transferred, Nothing, Forgets
    <2> QED
      BY <2>1, <2>2, <2>3, <2>4, <2>5 DEF IInv, SessionInv, Untouched, Attached, Live
  <1>2. IInv /\ [Next]_vars => IInv'
    <2> SUFFICES ASSUME IInv, [Next]_vars PROVE IInv'
      OBVIOUS
    <2> USE DEF IInv, SessionInv, Live, Lost, Untouched, Attached
    <2>0. /\ session \in [Calls -> Sessions]
          /\ endedBy \in [Calls -> Endings]
          /\ call \in 0 .. MaxCalls /\ task \in 0 .. MaxCalls
          /\ 0 \notin Calls /\ Calls \subseteq 0 .. MaxCalls /\ 0 \in 0 .. MaxCalls
          /\ call # 0 => call \in Calls
          /\ task # 0 => task \in Calls
      BY IvrAssumption DEF TypeOK, Sessions, Calls, Endings
    <2>1. ASSUME NEW k \in Calls, AutoAnswer(k) PROVE IInv'
      <3> DEFINE s == [session[k] EXCEPT !.at = "welcome"]
      <3>1. s \in Sessions /\ s.at = "welcome" /\ s.aborted = session[k].aborted
        BY <2>0 DEF Sessions, Places
      <3>2. session' = [session EXCEPT ![k] = s] /\ endedBy[k] = "-" /\ call # k /\ call' = k
            /\ task' = k /\ Ends("replaced") /\ sent' = sent /\ buffered' = buffered
        BY <2>1 DEF AutoAnswer, Begins
      <3>3. session[k].at = "-" /\ ~session[k].aborted
        BY <2>0, <3>2
      <3> HIDE DEF s
      <3>4. /\ session' \in [Calls -> Sessions] /\ session'[k] = s
            /\ \A j \in Calls \ {k} : session'[j] = session[j]
        BY <2>0, <3>1, <3>2
      <3>11. endedBy' \in [Calls -> Endings] /\ endedBy'[k] = "-"
             /\ \A j \in Calls : endedBy'[j] = IF j = call THEN "replaced" ELSE endedBy[j]
        BY <2>0, <3>2 DEF Ends, Endings
      <3>5. TypeOK'
        BY <2>0, <3>2, <3>4, <3>11 DEF TypeOK, Sessions, Endings
      <3>6. \A j \in Calls : Lost(j) \/ j = call => Lost(j)'
        BY <3>1, <3>2, <3>3, <3>4, <3>11
      <3>7. ActsOnItsCall'
        BY <3>2, <3>6 DEF ActsOnItsCall
      <3>8. Attached'
        BY <2>0, <3>2, <3>4, <3>6
      <3>9. Transferred' /\ \A j \in Calls : Forgets(session'[j])
        BY <3>1, <3>2, <3>3, <3>4 DEF Transferred, Forgets
      <3> QED
        BY <2>0, <3>1, <3>2, <3>3, <3>4, <3>5, <3>6, <3>7, <3>8, <3>9, <3>11
    <2>2. ASSUME NEW k \in Calls, PlainCall(k) PROVE IInv'
      <3>1. /\ endedBy[k] = "-" /\ call # k /\ call' = k /\ Ends("replaced")
            /\ UNCHANGED <<task, session, buffered, sent>>
        BY <2>2 DEF PlainCall, Begins
      <3>2. endedBy' \in [Calls -> Endings] /\ endedBy'[k] = "-"
            /\ \A j \in Calls : endedBy'[j] = IF j = call THEN "replaced" ELSE endedBy[j]
        BY <2>0, <3>1 DEF Ends, Endings
      <3>3. \A j \in Calls : Lost(j) \/ j = call => Lost(j)'
        BY <3>1, <3>2
      <3>4. TypeOK' /\ ActsOnItsCall' /\ Transferred'
        BY <2>0, <3>1, <3>2, <3>3 DEF TypeOK, ActsOnItsCall, Transferred, Endings
      <3>5. Attached'
        BY <2>0, <3>1, <3>3
      <3>6. Untouched'
        BY <2>0, <3>1, <3>2
      <3> QED
        BY <2>0, <3>1, <3>2, <3>3, <3>4, <3>5, <3>6
    <2>3. ASSUME NEW i \in Calls, NEW key \in Keys, Press(i, key) PROVE IInv'
      <3>1. UNCHANGED <<call, endedBy, task, session, sent>>
            /\ buffered' \in [Calls -> Keys \cup {None}]
        BY <2>0, <2>3 DEF Press, TypeOK
      <3>2. TypeOK' /\ ActsOnItsCall' /\ Transferred'
        BY <2>0, <3>1 DEF TypeOK, ActsOnItsCall, Transferred
      <3> QED
        BY <2>0, <3>1, <3>2
    <2>4. CASE PeerBye
      <3>1. /\ call' = 0 /\ task' = 0 /\ buffered' = buffered /\ sent' = sent
            /\ Ends("peer")
            /\ session' = IF task = 0 THEN session ELSE Abort(task)
        BY <2>4 DEF PeerBye
      <3>2. /\ session' \in [Calls -> Sessions]
            /\ \A j \in Calls : j # task => session'[j] = session[j]
            /\ task # 0 => \/ session'[task].at = "done" /\ ~session'[task].aborted
                           \/ session'[task].at = "ask" /\ session'[task].aborted
            /\ task # 0 => Forgets(session'[task])
            /\ task # 0 /\ session[task].at = "done" => session'[task].at = "done"
        <4>1. CASE task = 0
          BY <2>0, <3>1, <4>1
        <4>2. CASE task # 0
          <5>1. [NoSession EXCEPT !.at = "done"].at = "done"
            BY DEF NoSession
          <5>2. session' = Abort(task) /\ task \in Calls
            BY <2>0, <3>1, <4>2
          <5> QED
            BY <2>0, <5>1, <5>2, AbortType
        <4> QED
          BY <4>1, <4>2
      <3>3. endedBy' \in [Calls -> Endings]
            /\ \A j \in Calls : endedBy'[j] = IF j = call THEN "peer" ELSE endedBy[j]
        BY <2>0, <3>1 DEF Ends, Endings
      <3>4. TypeOK'
        BY <2>0, <3>1, <3>2, <3>3 DEF TypeOK, Sessions, Endings
      <3>5. \A j \in Calls : endedBy[j] \in {"user", "ivr", "replaced"} => j # call
        BY <2>0
      <3>6. \A j \in Calls : Lost(j) => Lost(j)'
        BY <3>2, <3>3, <3>5
      <3>7. ActsOnItsCall'
        BY <3>1, <3>6 DEF ActsOnItsCall
      <3>8. Attached'
        <4> SUFFICES ASSUME NEW j \in Calls, session'[j].at \notin {"-", "done"}
                     PROVE  Lost(j)'
          OBVIOUS
        <4>1. CASE j = task
          BY <2>0, <3>2, <4>1
        <4>2. CASE j # task
          <5>1. Lost(j)
            BY <3>2, <4>2
          <5> QED
            BY <3>6, <5>1
        <4> QED
          BY <4>1, <4>2
      <3>9. Untouched'
        <4> SUFFICES ASSUME NEW j \in Calls, endedBy'[j] = "-"
                     PROVE  session'[j].at = "-"
          OBVIOUS
        <4>1. j # call /\ session[j].at = "-"
          BY <3>3
        <4>2. j # task
          BY <2>0, <4>1
        <4> QED
          BY <3>2, <4>1, <4>2
      <3>10. \A j \in Calls : /\ session'[j].aborted \/ task' = j => session'[j].at # "-"
                              /\ ~(session'[j].aborted /\ task' = j)
        BY <2>0, <3>1, <3>2
      <3>11. ASSUME NEW j \in Calls, session'[j].at = "send"
             PROVE  session'[j].for = j \/ Lost(j)'
        <4>1. session'[j] = session[j]
          BY <2>0, <3>2, <3>11
        <4>2. session[j].for = j \/ Lost(j)
          BY <3>11, <4>1
        <4> QED
          BY <3>6, <4>1, <4>2
      <3>12. Transferred' /\ \A j \in Calls : Forgets(session'[j])
        BY <2>0, <3>1, <3>2 DEF Transferred
      <3> QED
        BY <3>1, <3>4, <3>7, <3>8, <3>9, <3>10, <3>11, <3>12
    <2>5. CASE UserBye
      <3>1. /\ call # 0 /\ call' = 0 /\ UNCHANGED <<task, session, buffered, sent>>
            /\ Ends("user")
        BY <2>5 DEF UserBye
      <3>2. endedBy' \in [Calls -> Endings]
            /\ \A j \in Calls : endedBy'[j] = IF j = call THEN "user" ELSE endedBy[j]
        BY <2>0, <3>1 DEF Ends, Endings
      <3>3. TypeOK' /\ \A j \in Calls : Lost(j) => Lost(j)'
        BY <2>0, <3>1, <3>2 DEF TypeOK, Endings
      <3>4. ActsOnItsCall' /\ Transferred'
        BY <3>1, <3>3 DEF ActsOnItsCall, Transferred
      <3> QED
        BY <2>0, <3>1, <3>2, <3>3, <3>4
    <2>6. ASSUME NEW k \in Calls, Step(k) \/ Answered(k) PROVE IInv'
      <3>1. SessionStep(k)
        BY <2>6, ActionsAreSteps
      <3> QED
        BY <3>1, StepKeeps
    <2>7. CASE UNCHANGED vars
      BY <2>7 DEF vars, TypeOK, ActsOnItsCall, Transferred
    <2> QED
      BY <2>1, <2>2, <2>3, <2>4, <2>5, <2>6, <2>7 DEF Next
  <1> QED
    BY <1>1, <1>2, PTL DEF Spec

(* The sessions keep to their calls, but for those whose call a user or a  *)
(* session ended or another call replaced, and those that a script kept     *)
(* from being aborted.                                                      *)
THEOREM SessionsKeepToTheirCalls == Spec => []SessionInv
  <1>1. IInv => SessionInv
    BY DEF IInv
  <1> QED
    BY <1>1, Invariant, PTL

(* Once a session sent the transfer it was to end with, nothing it does, and *)
(* nothing the peer, a user or another session does, changes it any more.    *)
THEOREM TransferEndsTheSession == Spec => TransferIsLast
  <1>1. IInv /\ [Next]_vars => [\A k \in Calls : sent[k].final => session'[k] = session[k]]_vars
    <2> SUFFICES ASSUME IInv, Next, NEW k \in Calls, sent[k].final
                 PROVE  session'[k] = session[k]
      BY DEF vars
    <2>1. /\ session[k].at = "done" /\ session \in [Calls -> Sessions] /\ TypeOK
          /\ session[k] = [NoSession EXCEPT !.at = "done", !.aborted = session[k].aborted]
      BY DEF IInv, SessionInv, TypeOK, Sessions, Transferred, Forgets
    <2>2. ASSUME NEW j \in Calls, Step(j) \/ Answered(j) PROVE session'[k] = session[k]
      <3>1. SessionStep(j)
        BY <2>2, ActionsAreSteps
      <3>2. j # k
        BY <2>1, <3>1 DEF SessionStep, Live
      <3> QED
        BY <2>1, <3>1, <3>2 DEF SessionStep, Becomes
    <2>3. ASSUME NEW j \in Calls, AutoAnswer(j) PROVE session'[k] = session[k]
      <3>1. j # k
        <4>1. endedBy[j] = "-" /\ call # j
          BY <2>3 DEF AutoAnswer, Begins, Calls
        <4> QED
          BY <2>1, <4>1 DEF IInv, Untouched
      <3> QED
        BY <2>1, <2>3, <3>1 DEF AutoAnswer
    <2>4. ASSUME PeerBye PROVE session'[k] = session[k]
      <3>1. CASE task = k
        <4>1. /\ session' = Abort(k)
              /\ Abort(k)[k] = [NoSession EXCEPT !.at = "done"]
          BY <2>1, <2>4, <3>1, AbortType DEF PeerBye, Calls
        <4>2. session[k].aborted = FALSE
          BY <2>1, <3>1 DEF IInv, Sessions
        <4> QED
          BY <2>1, <4>1, <4>2 DEF NoSession
      <3>2. CASE task # k
        <4>1. task = 0 \/ task \in Calls
          BY <2>1, IvrAssumption DEF TypeOK, Calls
        <4> QED
          BY <2>1, <2>4, <3>2, <4>1, AbortType DEF PeerBye
      <3> QED
        BY <3>1, <3>2
    <2>5. ASSUME NEW j \in Calls, PlainCall(j) PROVE session'[k] = session[k]
      BY <2>5 DEF PlainCall
    <2>6. ASSUME NEW i \in Calls, NEW key \in Keys, Press(i, key) PROVE session'[k] = session[k]
      BY <2>6 DEF Press
    <2>7. ASSUME UserBye PROVE session'[k] = session[k]
      BY <2>7 DEF UserBye
    <2> QED
      BY <2>2, <2>3, <2>4, <2>5, <2>6, <2>7 DEF Next
  <1> QED
    BY <1>1, Invariant, PTL DEF Spec, TransferIsLast
=============================================================================
