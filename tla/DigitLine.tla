----------------------------- MODULE DigitLine ------------------------------
(***************************************************************************)
(* What a user may expect of the keys pressed during a call: the other end *)
(* hears them in the order in which they were pressed and none of them     *)
(* twice. Some may not be heard at all.                                    *)
(***************************************************************************)
EXTENDS Naturals, Sequences

VARIABLES typed,       \* the number of keys pressed; they are 1 .. typed
          heard        \* those the other end heard

lineVars == <<typed, heard>>

LineInit == typed = 0 /\ heard = <<>>

Type ==
    /\ typed' = typed + 1
    /\ UNCHANGED heard

Hear ==
    /\ \E key \in 1 .. typed :
          /\ \A i \in DOMAIN heard : heard[i] < key
          /\ heard' = Append(heard, key)
    /\ UNCHANGED typed

LineSpec == LineInit /\ [][Type \/ Hear]_lineVars
=============================================================================
