------------------------------ MODULE PhoneLine ------------------------------
(***************************************************************************)
(* What an account's telephone line promises its user: it carries at most  *)
(* one call at a time, a call in progress is never replaced by another one *)
(* without first being ended, and a call that is over stays over unless    *)
(* its peer offers it again.                                               *)
(***************************************************************************)
CONSTANTS Calls, NoCall

VARIABLES
    active, \* the call the line carries, or NoCall
    over,   \* the calls that ended, were missed, or failed
    again   \* the calls that were offered again

TypeOK == active \in Calls \cup {NoCall} /\ over \subseteq Calls /\ again \subseteq Calls

Init == active = NoCall /\ over = {} /\ again = {}

Connect(c) ==
    /\ active = NoCall
    /\ c \in over => c \in again
    /\ active' = c
    /\ over' = over \ {c}
    /\ UNCHANGED again

HangUp ==
    /\ active # NoCall
    /\ active' = NoCall
    /\ over' = over \cup {active}
    /\ UNCHANGED again

\* A call that never got through: refused, unanswered, cancelled.
Miss(c) == c # active /\ over' = over \cup {c} /\ UNCHANGED <<active, again>>

\* The peer offers a call again, and the line takes it for a new one.
Offer(c) == again' = again \cup {c} /\ UNCHANGED <<active, over>>
Reopen(c) == c \in again /\ over' = over \ {c} /\ UNCHANGED <<active, again>>

Next == HangUp \/ \E c \in Calls : Connect(c) \/ Miss(c) \/ Offer(c) \/ Reopen(c)

Spec == Init /\ [][Next]_<<active, over, again>>
==============================================================================
