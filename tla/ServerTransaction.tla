-------------------------- MODULE ServerTransaction --------------------------
(***************************************************************************)
(* The server half of the transaction layer (src/sip/transaction.rs):      *)
(* requests that peers repeat until they are answered, the cache of        *)
(* answers, the queue of requests for the application, and the tasks that  *)
(* empty the cache.  The application is                                    *)
(* src/service/watcher/incoming_call.rs with answer_incoming and           *)
(* reject_incoming, reduced to the answers it records.                     *)
(***************************************************************************)
EXTENDS Naturals, Sequences

CONSTANTS
    Keys,       \* transactions of peers, one per (branch, method) key
    None,       \* no key
    Reliable,   \* TRUE for TCP and TLS, FALSE for UDP
    TimerJ,     \* TIMER_J_MS in ticks
    MaxCopies   \* bound on the transmissions of a request

Finals == {"200", "486"}
Answers == {"180"} \cup Finals

VARIABLES
    sent,       \* how often the peer and the network sent each request
    arriving,   \* copies under way
    queue,      \* incoming_requests
    handling,   \* the request the watcher works on, or None
    ringing,    \* the INVITE that waits for a user, or None
    cache,      \* last_response in server_txs, "none" without an entry
    removers,   \* the sleeping removal tasks: how many, of a key with so many ticks left
    sinceFirst, \* ticks since an answer was first recorded, None before
    sinceFinal  \* ticks since a final answer was last recorded, None before

peerVars == <<sent, arriving>>
appVars == <<handling, ringing>>
cacheVars == <<cache, removers, sinceFirst, sinceFinal>>
vars == <<peerVars, queue, appVars, cacheVars>>

Init ==
    /\ sent = [k \in Keys |-> 0]
    /\ arriving = [k \in Keys |-> 0]
    /\ queue = <<>>
    /\ handling = None
    /\ ringing = None
    /\ cache = [k \in Keys |-> "none"]
    /\ removers = [k \in Keys |-> [left \in 0 .. TimerJ |-> 0]]
    /\ sinceFirst = [k \in Keys |-> None]
    /\ sinceFinal = [k \in Keys |-> None]

(***************************************************************************)
(* The peer repeats its request on an unreliable transport, and the        *)
(* network may copy it.                                                    *)
(***************************************************************************)
PeerSends(k) ==
    /\ sent[k] < IF Reliable THEN 1 ELSE MaxCopies
    /\ sent' = [sent EXCEPT ![k] = @ + 1]
    /\ arriving' = [arriving EXCEPT ![k] = @ + 1]
    /\ UNCHANGED <<queue, appVars, cacheVars>>

Lose(k) ==
    /\ ~Reliable
    /\ arriving[k] > 0
    /\ arriving' = [arriving EXCEPT ![k] = @ - 1]
    /\ UNCHANGED <<sent, queue, appVars, cacheVars>>

\* process_incoming on a request: a cached answer is sent again, anything else
\* is queued, also when a copy of it is queued or being handled already.
Receive(k) ==
    /\ arriving[k] > 0
    /\ arriving' = [arriving EXCEPT ![k] = @ - 1]
    /\ queue' = IF cache[k] # "none" THEN queue ELSE Append(queue, k)
    /\ UNCHANGED <<sent, appVars, cacheVars>>

(***************************************************************************)
(* record_server_response.  Over UDP each call spawns a task of its own    *)
(* that removes the entry, whatever it then holds.                         *)
(***************************************************************************)

\* Mutant: the entry is removed at once, as RFC 3261 has it for TCP.
SpawnedAtOnce(k) == [removers EXCEPT ![k][0] = @ + 1]
Spawned(k) == IF Reliable THEN removers ELSE [removers EXCEPT ![k][TimerJ] = @ + 1]

Record(k, answer) ==
    /\ cache' = [cache EXCEPT ![k] = answer]
    /\ removers' = Spawned(k)
    /\ sinceFirst' = [sinceFirst EXCEPT ![k] = IF @ = None THEN 0 ELSE @]
    /\ sinceFinal' = [sinceFinal EXCEPT ![k] = IF answer \in Finals THEN 0 ELSE @]

\* Mutant: an answer given meanwhile keeps the entry alive.
RemoveIfProvisional(k) == IF cache[k] = "180" THEN "none" ELSE cache[k]
Removed(k) == "none"

Remove(k) ==
    /\ removers[k][0] > 0
    /\ removers' = [removers EXCEPT ![k][0] = @ - 1]
    /\ cache' = [cache EXCEPT ![k] = Removed(k)]
    /\ UNCHANGED <<peerVars, queue, appVars, sinceFirst, sinceFinal>>

(***************************************************************************)
(* The application.                                                        *)
(***************************************************************************)
Take ==
    /\ handling = None
    /\ queue # <<>>
    /\ handling' = Head(queue)
    /\ queue' = Tail(queue)
    /\ UNCHANGED <<peerVars, ringing, cacheVars>>

\* 180; an INVITE that was ringing is forgotten.
Ring ==
    /\ handling # None
    /\ Record(handling, "180")
    /\ ringing' = handling
    /\ handling' = None
    /\ UNCHANGED <<peerVars, queue>>

\* 200, to a BYE, a CANCEL or an INVITE that is answered automatically.
AnswerNow ==
    /\ handling # None
    /\ Record(handling, "200")
    /\ handling' = None
    /\ UNCHANGED <<peerVars, queue, ringing>>

\* The 486 of a busy account is sent but not recorded.
SayBusy ==
    /\ handling # None
    /\ handling' = None
    /\ UNCHANGED <<peerVars, queue, ringing, cacheVars>>

\* A user answers or rejects.
UserDecides(answer) ==
    /\ ringing # None
    /\ Record(ringing, answer)
    /\ ringing' = None
    /\ UNCHANGED <<peerVars, queue, handling>>

(***************************************************************************)
(* Time.                                                                   *)
(***************************************************************************)
Older(n) == IF n \in 0 .. TimerJ - 1 THEN n + 1 ELSE n
Aged(tasks) ==
    [left \in 0 .. TimerJ |-> (IF left = 0 THEN tasks[0] ELSE 0)
                               + (IF left < TimerJ THEN tasks[left + 1] ELSE 0)]

Tick ==
    /\ removers' = [k \in Keys |-> Aged(removers[k])]
    /\ sinceFirst' = [k \in Keys |-> Older(sinceFirst[k])]
    /\ sinceFinal' = [k \in Keys |-> Older(sinceFinal[k])]
    /\ UNCHANGED <<peerVars, queue, appVars, cache>>

Next ==
    \/ \E k \in Keys : PeerSends(k) \/ Lose(k) \/ Receive(k) \/ Remove(k)
    \/ Take \/ Ring \/ AnswerNow \/ SayBusy
    \/ \E answer \in Finals : UserDecides(answer)
    \/ Tick

Spec == Init /\ [][Next]_vars

\* The clock advances and a removal task that is due runs.
FairSpec ==
    /\ Spec
    /\ WF_vars(Tick)
    /\ WF_vars(\E k \in Keys : Remove(k))

(***************************************************************************)
(* Properties.                                                             *)
(***************************************************************************)

\* Every variable holds a value of its kind, and no answer is cached without a
\* task that will remove it, unless the transport is reliable.
TypeOK ==
    /\ sent \in [Keys -> 0 .. MaxCopies]
    /\ arriving \in [Keys -> 0 .. MaxCopies]
    /\ queue \in Seq(Keys)
    /\ {handling, ringing} \subseteq Keys \cup {None}
    /\ cache \in [Keys -> Answers \cup {"none"}]
    /\ removers \in [Keys -> [0 .. TimerJ -> Nat]]
    /\ {sinceFirst, sinceFinal} \subseteq [Keys -> 0 .. TimerJ \cup {None}]
    /\ \A k \in Keys : cache[k] # "none" /\ ~Reliable =>
          \E left \in 0 .. TimerJ : removers[k][left] > 0

\* From the first answer to a request on, and for Timer J, its repetitions find
\* an answer in the cache.
CachedForTimerJ ==
    \A k \in Keys : sinceFirst[k] \in 0 .. TimerJ - 1 => cache[k] # "none"

\* Over UDP no answer stays cached for ever.
CacheDrains == \A k \in Keys : cache[k] # "none" ~> cache[k] = "none"

\* "Record a response [...] so that any future duplicate request can be answered
\* automatically" (transaction.rs): a duplicate that arrives less than Timer J
\* after the final answer was recorded is not queued.
DuplicateAnsweredByCache ==
    [][\A k \in Keys : Receive(k) /\ sinceFinal[k] \in 0 .. TimerJ - 1 => queue' = queue]_vars
==============================================================================
