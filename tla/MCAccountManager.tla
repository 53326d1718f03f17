-------------------------- MODULE MCAccountManager --------------------------
(* AccountManager with an account that may change its port and a second one *)
(* that may want the first one's, and room for a replaced client beside     *)
(* them.                                                                     *)
EXTENDS AccountManager

CONSTANTS alice, bob

Account(n, p) == [name |-> n, port |-> p]
MCAccounts == {Account(alice, 0), Account(alice, 5060), Account(bob, 5060), Account(bob, 0)}
MCBroken == {Account(bob, 0)}
MCSubmitted == {{Account(alice, 0), Account(bob, 5060)}}
MCAutoAnswer == {bob}
=============================================================================
