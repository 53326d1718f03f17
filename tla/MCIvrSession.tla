---------------------------- MODULE MCIvrSession ----------------------------
(* IvrSession with a key that ends the session and one that asks a program, *)
(* which may answer with any other action: hold, a recording, a hangup.     *)
EXTENDS IvrSession, TLC

CONSTANTS one, two

MCMenu == (one :> "transfer") @@ (two :> "script")
=============================================================================
