------------------------- MODULE MCServerTransaction -------------------------
(* ServerTransaction with one request that is sent more than once.           *)
EXTENDS ServerTransaction

CONSTANTS k1

OneKey == {k1}
==============================================================================
