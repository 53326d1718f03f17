------------------------- MODULE RegistrationProofs -------------------------
(***************************************************************************)
(* Registration for any intervals: the watcher and the users of an account *)
(* share the client's mutex without mistaking each other's exchanges.      *)
(***************************************************************************)
EXTENDS Registration, TLAPS

(* The flags, one by one, and how far the account's end has come. *)
Flags ==
    /\ wanted \in BOOLEAN /\ registered \in BOOLEAN
    /\ bound \in BOOLEAN /\ believed \in BOOLEAN
    /\ life \in {"active", "deactivated", "stopping", "gone"}

Clocks ==
    /\ sinceTry \in 0 .. Longest \cup {Never}
    /\ sinceAlive \in 0 .. KeepAlive \cup {Never}

(* Whoever runs the exchange is where it waits for its reply. *)
Mutex ==
    /\ op \in [by : {"none", "watcher", "user"}, kind : Exchanges,
               reply : {"none", "ok", "refused"}]
    /\ pending \subseteq Exchanges
    /\ at \in Stops
    /\ at \in {"busy", "lastBusy"} <=> op.by = "watcher"

LEMMA TypeParts == TypeOK <=> Flags /\ Clocks /\ Mutex
  BY DEF TypeOK, Flags, Clocks, Mutex

(* No step takes a flag out of the Booleans. *)
LEMMA FlagsStep == ASSUME Flags, [Next]_vars PROVE Flags'
  <1> USE DEF Flags
  <1>1. CASE \E kind \in Exchanges : UserAsks(kind) \/ UserBegins(kind)
    BY <1>1 DEF UserAsks, UserBegins
  <1>2. CASE Step
    BY <1>2 DEF Step, LoopTop, BeginRegister, ForceFlag, CheckFlag, BeginUnregister,
                NoKeepAlive, SendKeepAlive, Sleep, Leave, BeginLast
  <1>3. CASE End
    BY <1>3 DEF End, UserEnds, RegisterEnds, UnregisterEnds, EndLast, Succeeds, Refused, Errs
  <1>4. CASE Tick \/ Deactivate \/ Shutdown \/ ProcessEnds \/ RegistrarForgets
    BY <1>4 DEF Tick, Deactivate, Shutdown, ProcessEnds, RegistrarForgets
  <1>5. CASE \E reply \in {"ok", "refused"} : RegistrarReplies(reply)
    BY <1>5 DEF RegistrarReplies
  <1>6. CASE UNCHANGED vars
    BY <1>6 DEF vars
  <1> QED
    BY <1>1, <1>2, <1>3, <1>4, <1>5, <1>6 DEF Next

(* The clocks stop at the intervals they are compared with. *)
LEMMA ClocksStep == ASSUME Clocks, [Next]_vars PROVE Clocks'
  <1> USE RegistrationAssumption DEF Clocks
  <1>1. Longest \in Nat \ {0} /\ KeepAlive \in Nat \ {0}
    BY DEF Longest
  <1>2. CASE \E kind \in Exchanges : UserAsks(kind) \/ UserBegins(kind)
    BY <1>2 DEF UserAsks, UserBegins, clocks
  <1>3. CASE Step
    <2>1. CASE NoKeepAlive \/ SendKeepAlive
      BY <1>1, <2>1 DEF NoKeepAlive, SendKeepAlive
    <2>2. CASE UNCHANGED clocks
      BY <2>2 DEF clocks
    <2> QED
      BY <1>3, <2>1, <2>2 DEF Step, LoopTop, BeginRegister, ForceFlag, CheckFlag,
                              BeginUnregister, Sleep, Leave, BeginLast
  <1>4. CASE End
    BY <1>1, <1>4 DEF End, UserEnds, RegisterEnds, UnregisterEnds, EndLast, clocks
  <1>5. CASE Tick
    <2>1. sinceTry' \in 0 .. Longest \cup {Never}
      BY <1>1, <1>5 DEF Tick
    <2>2. sinceAlive' \in 0 .. KeepAlive \cup {Never}
      BY <1>1, <1>5 DEF Tick
    <2> QED
      BY <2>1, <2>2 DEF Longest
  <1>6. CASE Deactivate \/ Shutdown \/ ProcessEnds \/ RegistrarForgets
    BY <1>6 DEF Deactivate, Shutdown, ProcessEnds, RegistrarForgets, clocks
  <1>7. CASE \E reply \in {"ok", "refused"} : RegistrarReplies(reply)
    BY <1>7 DEF RegistrarReplies, clocks
  <1>8. CASE UNCHANGED vars
    BY <1>8 DEF vars, clocks
  <1> QED
    BY <1>2, <1>3, <1>4, <1>5, <1>6, <1>7, <1>8 DEF Next

(* An exchange begins when the mutex is free and ends where it is awaited. *)
LEMMA MutexStep == ASSUME Mutex, [Next]_vars PROVE Mutex'
  <1> USE DEF Mutex, Exchanges, Free
  <1>1. ASSUME NEW kind \in Exchanges, UserAsks(kind) \/ UserBegins(kind) PROVE Mutex'
    <2>1. CASE UserAsks(kind)
      BY <2>1 DEF UserAsks
    <2>2. CASE UserBegins(kind)
      BY <2>2 DEF UserBegins, Begin, LockFree
    <2> QED
      BY <1>1, <2>1, <2>2
  <1>2. CASE Step
    <2>1. CASE BeginRegister \/ BeginUnregister \/ BeginLast
      <3>1. /\ LockFree /\ UNCHANGED pending /\ at' \in {"busy", "lastBusy"}
            /\ \E kind \in Exchanges : op' = [by |-> "watcher", kind |-> kind, reply |-> "none"]
        BY <2>1 DEF BeginRegister, BeginUnregister, BeginLast, Begin, GoTo
      <3> QED
        BY <3>1 DEF Stops
    <2>2. CASE LoopTop \/ ForceFlag \/ CheckFlag \/ Sleep \/ Leave \/ NoKeepAlive \/ SendKeepAlive
      <3>1. /\ UNCHANGED <<op, pending>> /\ at \notin {"busy", "lastBusy"}
            /\ at' \in Stops \ {"busy", "lastBusy"}
        BY <2>2 DEF LoopTop, ForceFlag, CheckFlag, Sleep, Leave, NoKeepAlive, SendKeepAlive, GoTo, Stops
      <3> QED
        BY <3>1
    <2> QED
      BY <1>2, <2>1, <2>2 DEF Step
  <1>3. CASE End
    <2>1. CASE UserEnds
      BY <2>1 DEF UserEnds
    <2>2. CASE RegisterEnds
      BY <2>2 DEF RegisterEnds, GoTo, Stops
    <2>3. CASE UnregisterEnds
      BY <2>3 DEF UnregisterEnds, GoTo, Stops
    <2>4. CASE EndLast
      BY <2>4 DEF EndLast, GoTo, Stops
    <2> QED
      BY <1>3, <2>1, <2>2, <2>3, <2>4 DEF End
  <1>4. CASE Tick \/ Deactivate \/ Shutdown \/ ProcessEnds \/ RegistrarForgets
    BY <1>4 DEF Tick, Deactivate, Shutdown, ProcessEnds, RegistrarForgets
  <1>5. ASSUME NEW reply \in {"ok", "refused"}, RegistrarReplies(reply) PROVE Mutex'
    BY <1>5 DEF RegistrarReplies
  <1>6. CASE UNCHANGED vars
    BY <1>6 DEF vars
  <1> QED
    BY <1>1, <1>2, <1>3, <1>4, <1>5, <1>6 DEF Next

(* The watcher waits for a reply exactly while the exchange under way is    *)
(* its own, however users' requests come between: what ends is what it      *)
(* began. The clocks stay within the intervals they are compared with.      *)
THEOREM TypeCorrect == Spec => []TypeOK
  <1>1. Init => Flags /\ Clocks /\ Mutex
    <2> SUFFICES ASSUME Init PROVE Flags /\ Clocks /\ Mutex
      OBVIOUS
    <2>1. Flags /\ Clocks
      BY DEF Init, Flags, Clocks
    <2>2. Mutex
      <3>1. op = Free /\ pending = {} /\ at = "top"
        BY DEF Init
      <3> QED
        BY <3>1 DEF Mutex, Free, Exchanges, Stops
    <2> QED
      BY <2>1, <2>2
  <1>2. Flags /\ Clocks /\ Mutex /\ [Next]_vars => (Flags /\ Clocks /\ Mutex)'
    BY FlagsStep, ClocksStep, MutexStep
  <1> QED
    BY <1>1, <1>2, TypeParts, PTL DEF Spec
=============================================================================
