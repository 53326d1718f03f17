--------------------------- MODULE RequestResponse ---------------------------
(***************************************************************************)
(* What the transaction layer promises its callers: requests are submitted *)
(* one at a time, and a request ends either with the final answer the peer *)
(* decided on for that very request, or with a local error.                *)
(***************************************************************************)
CONSTANTS
    Txs,        \* the requests a client submits
    Answers,    \* the final answers a peer can decide on
    Errors      \* the local ways to end without an answer

VARIABLES
    status,     \* "new", "pending", an answer or an error, per request
    decision    \* the peer's final answer per request, "none" before it decides

vars == <<status, decision>>

Init ==
    /\ status = [t \in Txs |-> "new"]
    /\ decision = [t \in Txs |-> "none"]

Submit(t) ==
    /\ status[t] = "new"
    /\ \A u \in Txs : status[u] # "pending"
    /\ status' = [status EXCEPT ![t] = "pending"]
    /\ UNCHANGED decision

Decide(t, a) ==
    /\ decision[t] = "none"
    /\ status[t] # "new"
    /\ decision' = [decision EXCEPT ![t] = a]
    /\ UNCHANGED status

Return(t) ==
    /\ status[t] = "pending"
    /\ decision[t] \in Answers
    /\ status' = [status EXCEPT ![t] = decision[t]]
    /\ UNCHANGED decision

\* A request may fail before it was ever sent, or while it is pending.
GiveUp(t, e) ==
    /\ status[t] = "pending" \/ (status[t] = "new" /\ \A u \in Txs : status[u] # "pending")
    /\ status' = [status EXCEPT ![t] = e]
    /\ UNCHANGED decision

Next ==
    \E t \in Txs :
        \/ Submit(t)
        \/ Return(t)
        \/ \E a \in Answers : Decide(t, a)
        \/ \E e \in Errors : GiveUp(t, e)

Spec == Init /\ [][Next]_vars
==============================================================================
