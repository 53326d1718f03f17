------------------------- MODULE MCClientTransaction -------------------------
\* One INVITE and one non-INVITE transaction on small timers.
EXTENDS ClientTransaction

CONSTANTS invite, register
MCTxs == {invite, register}
MCInviteTxs == {invite}
==============================================================================
