----------------------------- MODULE Registration -----------------------------
(***************************************************************************)
(* How an account stays registered: the background registration_watcher    *)
(* (src/service/watcher/registration.rs), the register and unregister      *)
(* requests of users (handlers/registration.rs, web_handlers/accounts.rs), *)
(* the two exchanges themselves (src/sip/operations/register.rs), the      *)
(* shutdown of the service (src/service.rs) and a registrar that may       *)
(* refuse, lose an answer or forget the binding.                           *)
(*                                                                         *)
(* `op` is the exchange under way and with it the client's mutex.  The     *)
(* watcher keeps its own idea of being registered, beside the flag in the  *)
(* client that users and the dashboard see.                                *)
(***************************************************************************)
EXTENDS Naturals

CONSTANTS
    Refresh,    \* ticks from a registration to its refresh (half its expiry)
    Retry,      \* ticks from a failed attempt to the next
    KeepAlive,  \* ticks between two NAT keep-alives
    Never       \* an Instant that is None

ASSUME RegistrationAssumption ==
    {Refresh, Retry, KeepAlive} \subseteq Nat \ {0} /\ Never \notin Nat

VARIABLES
    wanted,      \* should_register
    life,        \* the client is active or deactivated, the service is told to
                 \* shut down (`active` matters no more), or the process has ended
    registered,  \* SipClient::registered
    bound,       \* the registrar has a binding for the account
    op,          \* the exchange under way
    pending,     \* user requests that wait for the mutex
    at,          \* where the watcher is
    believed,    \* its is_currently_registered
    sinceTry,    \* ticks since last_register_time
    sinceAlive   \* ticks since last_keepalive_time

clocks == <<sinceTry, sinceAlive>>
vars == <<wanted, life, registered, bound, op, pending, at, believed, clocks>>

Longest == IF Refresh > Retry THEN Refresh ELSE Retry
Exchanges == {"register", "unregister"}
Free == [by |-> "none", kind |-> "register", reply |-> "none"]
Stops == {"top", "register", "force", "check", "unregister", "busy",
          "keepalive", "sleep", "leaving", "lastUnregister", "lastBusy", "done"}

\* Every variable holds a value of its kind, and the watcher waits for an
\* exchange exactly while it is the one that runs it.
TypeOK ==
    /\ {wanted, registered, bound, believed} \subseteq BOOLEAN
    /\ life \in {"active", "deactivated", "stopping", "gone"}
    /\ op \in [by : {"none", "watcher", "user"}, kind : Exchanges,
               reply : {"none", "ok", "refused"}]
    /\ pending \subseteq Exchanges
    /\ at \in Stops
    /\ sinceTry \in 0 .. Longest \cup {Never}
    /\ sinceAlive \in 0 .. KeepAlive \cup {Never}
    /\ (at \in {"busy", "lastBusy"}) = (op.by = "watcher")

Init ==
    /\ wanted \in BOOLEAN
    /\ life = "active"
    /\ registered = FALSE
    /\ bound \in BOOLEAN
    /\ op = Free
    /\ pending = {}
    /\ at = "top"
    /\ believed = FALSE
    /\ sinceTry = Never
    /\ sinceAlive = Never

Running == life # "gone"
Staying == life = "active"
LockFree == op.by = "none"
Begin(by, kind) == LockFree /\ op' = [by |-> by, kind |-> kind, reply |-> "none"]

(***************************************************************************)
(* register() and unregister().  An error, which is a lost request, a lost *)
(* answer or one that makes no sense, leaves the flag as it was; so does a *)
(* refusal to unregister.                                                  *)
(***************************************************************************)
Succeeds ==
    /\ op.reply = "ok"
    /\ registered' = (op.kind = "register")

Refused ==
    /\ op.reply = "refused"
    /\ registered' = (registered /\ op.kind = "unregister")

Errs == UNCHANGED registered

RegistrarReplies(reply) ==
    /\ ~LockFree
    /\ op.reply = "none"
    /\ op' = [op EXCEPT !.reply = reply]
    /\ bound' = IF reply = "ok" THEN op.kind = "register" ELSE bound
    /\ UNCHANGED <<wanted, life, registered, pending, at, believed, clocks>>

RegistrarForgets ==
    /\ bound
    /\ bound' = FALSE
    /\ UNCHANGED <<wanted, life, registered, op, pending, at, believed, clocks>>

(***************************************************************************)
(* Users.                                                                  *)
(***************************************************************************)

\* The flag is set first; the exchange waits for the mutex.
UserAsks(kind) ==
    /\ Running /\ kind \notin pending
    /\ wanted' = (kind = "register")
    /\ pending' = pending \cup {kind}
    /\ UNCHANGED <<life, registered, bound, op, at, believed, clocks>>

UserBegins(kind) ==
    /\ Running /\ kind \in pending
    /\ Begin("user", kind)
    /\ pending' = pending \ {kind}
    /\ UNCHANGED <<wanted, life, registered, bound, at, believed, clocks>>

UserEnds ==
    /\ op.by = "user"
    /\ Succeeds \/ Refused \/ Errs
    /\ op' = Free
    /\ UNCHANGED <<wanted, life, bound, pending, at, believed, clocks>>

\* edit_account and delete_account.
Deactivate ==
    /\ life = "active"
    /\ life' = "deactivated"
    /\ UNCHANGED <<wanted, registered, bound, op, pending, at, believed, clocks>>

\* The shutdown command, over the control socket or the REST command server.
Shutdown ==
    /\ life \in {"active", "deactivated"}
    /\ life' = "stopping"
    /\ UNCHANGED <<wanted, registered, bound, op, pending, at, believed, clocks>>

\* The accept loop sees it, run() returns and main() with it: the runtime drops
\* every task at the await it is at.
ProcessEnds ==
    /\ life = "stopping"
    /\ life' = "gone"
    /\ UNCHANGED <<wanted, registered, bound, op, pending, at, believed, clocks>>

(***************************************************************************)
(* The watcher.                                                            *)
(***************************************************************************)
GoTo(stop) == at' = stop

\* Mutant: a registration is never refreshed.
DueUnlessBelieved == ~believed /\ sinceTry \notin 0 .. Retry - 1

\* Never tried, or long enough ago.
Due == sinceTry \notin 0 .. (IF believed THEN Refresh ELSE Retry) - 1

LoopTop ==
    /\ at = "top"
    /\ GoTo(IF ~Staying THEN IF wanted THEN "leaving" ELSE "done"
            ELSE IF ~wanted THEN "check"
            ELSE IF Due THEN "register" ELSE "keepalive")
    /\ UNCHANGED <<wanted, life, registered, bound, op, pending, believed, clocks>>

BeginRegister ==
    /\ at = "register"
    /\ Begin("watcher", "register")
    /\ GoTo("busy")
    /\ UNCHANGED <<wanted, life, registered, bound, pending, believed, clocks>>

RegisterEnds ==
    /\ at = "busy"
    /\ op.kind = "register"
    /\ \/ Succeeds /\ believed' = TRUE /\ GoTo("keepalive")
       \/ (Refused \/ Errs) /\ believed' = FALSE /\ GoTo("force")
    /\ sinceTry' = 0
    /\ op' = Free
    /\ UNCHANGED <<wanted, life, bound, pending, sinceAlive>>

\* "Force register flag in client to false", under the mutex once more.
ForceFlag ==
    /\ at = "force"
    /\ LockFree
    /\ registered' = FALSE
    /\ GoTo("keepalive")
    /\ UNCHANGED <<wanted, life, bound, op, pending, believed, clocks>>

\* Mutant: the watcher goes by its own idea of being registered.
ByBelief == believed
ByFlag == registered

CheckFlag ==
    /\ at = "check"
    /\ LockFree
    /\ GoTo(IF ByFlag THEN "unregister" ELSE "keepalive")
    /\ UNCHANGED <<wanted, life, registered, bound, op, pending, believed, clocks>>

BeginUnregister ==
    /\ at = "unregister"
    /\ Begin("watcher", "unregister")
    /\ GoTo("busy")
    /\ UNCHANGED <<wanted, life, registered, bound, pending, believed, clocks>>

UnregisterEnds ==
    /\ at = "busy"
    /\ op.kind = "unregister"
    /\ Succeeds \/ Refused \/ Errs
    /\ op' = Free
    /\ believed' = FALSE
    /\ sinceTry' = Never
    /\ GoTo("keepalive")
    /\ UNCHANGED <<wanted, life, bound, pending, sinceAlive>>

KeepAliveDue == sinceAlive \notin 0 .. KeepAlive - 1

NoKeepAlive ==
    /\ at = "keepalive"
    /\ ~believed \/ ~KeepAliveDue
    /\ sinceAlive' = IF believed THEN sinceAlive ELSE Never
    /\ GoTo("sleep")
    /\ UNCHANGED <<wanted, life, registered, bound, op, pending, believed, sinceTry>>

SendKeepAlive ==
    /\ at = "keepalive"
    /\ believed /\ KeepAliveDue
    /\ LockFree
    /\ \/ /\ sinceAlive' = 0
          /\ UNCHANGED <<registered, believed, sinceTry>>
       \/ /\ registered' = FALSE
          /\ believed' = FALSE
          /\ sinceTry' = Never
          /\ sinceAlive' = Never
    /\ GoTo("sleep")
    /\ UNCHANGED <<wanted, life, bound, op, pending>>

Sleep ==
    /\ at = "sleep"
    /\ GoTo("top")
    /\ UNCHANGED <<wanted, life, registered, bound, op, pending, believed, clocks>>

\* The last unregister before the task ends.
Leave ==
    /\ at = "leaving"
    /\ LockFree
    /\ GoTo(IF registered THEN "lastUnregister" ELSE "done")
    /\ UNCHANGED <<wanted, life, registered, bound, op, pending, believed, clocks>>

\* Mutant: the task ends without waiting for its last exchange.
BeginLastAndGo ==
    /\ at = "lastUnregister"
    /\ Begin("watcher", "unregister")
    /\ GoTo("done")
    /\ UNCHANGED <<wanted, life, registered, bound, pending, believed, clocks>>

BeginLast ==
    /\ at = "lastUnregister"
    /\ Begin("watcher", "unregister")
    /\ GoTo("lastBusy")
    /\ UNCHANGED <<wanted, life, registered, bound, pending, believed, clocks>>

\* Mutant: an unregister that did not succeed is tried again.
RetryLast ==
    /\ at = "lastBusy"
    /\ Succeeds \/ Refused \/ Errs
    /\ op' = Free
    /\ GoTo(IF registered' THEN "lastUnregister" ELSE "done")
    /\ UNCHANGED <<wanted, life, bound, pending, believed, clocks>>

EndLast ==
    /\ at = "lastBusy"
    /\ Succeeds \/ Refused \/ Errs
    /\ op' = Free
    /\ GoTo("done")
    /\ UNCHANGED <<wanted, life, bound, pending, believed, clocks>>

\* Time passes; the clocks stop counting where nothing depends on them.
Tick ==
    /\ Running /\ at # "done"
    /\ sinceTry' = IF sinceTry \in 0 .. Longest - 1 THEN sinceTry + 1 ELSE sinceTry
    /\ sinceAlive' = IF sinceAlive \in 0 .. KeepAlive - 1 THEN sinceAlive + 1 ELSE sinceAlive
    /\ UNCHANGED <<wanted, life, registered, bound, op, pending, at, believed>>

Step ==
    /\ Running
    /\ \/ LoopTop \/ BeginRegister \/ ForceFlag \/ CheckFlag \/ BeginUnregister
       \/ NoKeepAlive \/ SendKeepAlive \/ Sleep \/ Leave \/ BeginLast
End ==
    /\ Running
    /\ UserEnds \/ RegisterEnds \/ UnregisterEnds \/ EndLast

Next ==
    \/ \E kind \in Exchanges : UserAsks(kind) \/ UserBegins(kind)
    \/ Step \/ End \/ Tick \/ Deactivate \/ Shutdown \/ ProcessEnds
    \/ \E reply \in {"ok", "refused"} : RegistrarReplies(reply)
    \/ RegistrarForgets

Spec == Init /\ [][Next]_vars

(***************************************************************************)
(* Exchanges end (Timer F), the mutex is first come first served, and the  *)
(* clock advances.  Nothing is assumed of users, and of the registrar and  *)
(* the transport only what a property says.                                *)
(***************************************************************************)
FairSpec ==
    /\ Spec
    /\ SF_vars(Step)
    /\ WF_vars(End)
    /\ WF_vars(Tick)
    /\ \A kind \in Exchanges : SF_vars(UserBegins(kind))

\* Exchanges of a kind keep succeeding as long as they keep being tried.
GoodRegistrar ==
    \A kind \in Exchanges :
        /\ SF_vars(op.kind = kind /\ RegistrarReplies("ok"))
        /\ SF_vars(op.kind = kind /\ op.reply = "ok" /\ End /\ Succeeds)

(***************************************************************************)
(* Properties.                                                             *)
(***************************************************************************)

\* With a registrar that answers often enough, an account that users leave
\* registered is registered again and again, whatever they asked before, and
\* after the registrar lost its binding.
StaysRegistered ==
    GoodRegistrar /\ <>[](wanted /\ Staying) => []<>registered /\ []<>bound

\* With such a registrar, an account that users leave unregistered ends up
\* unregistered, although a watcher that read the flag earlier, or a user's
\* request that waited for the mutex, registers it once more.
EndsUnregistered ==
    GoodRegistrar /\ <>[](~wanted /\ Staying) => <>[]~registered

\* A watcher whose account is deactivated ends, whatever the registrar does, which
\* edit_account waits for; so does one that is told to shut down, unless the
\* process ends first.
WatcherLeaves == ~Staying ~> at = "done" \/ ~Running
===============================================================================
