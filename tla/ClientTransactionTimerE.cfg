CONSTANTS
    invite = invite
    register = register
    None = None
    Txs <- MCTxs
    InviteTxs <- MCInviteTxs
    Poll = 1
    T1 = 2
    T2 = 3
    Lifetime = 4
    MaxLate = 0
    MaxResponses = 1
    PeerCSeqs = {1}
    Reliable = FALSE
SPECIFICATION Spec
INVARIANT RetransmittedBeforeGivingUp
CHECK_DEADLOCK FALSE
