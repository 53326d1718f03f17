CONSTANTS
    invite = invite
    register = register
    None = None
    Txs <- MCTxs
    InviteTxs <- MCInviteTxs
    Poll = 1
    T1 = 2
    T2 = 3
    Lifetime = 4
    MaxLate = 1
    MaxResponses = 2
    PeerCSeqs = {1}
    Reliable = TRUE
SPECIFICATION FairSpec
INVARIANT FreshCSeqs
PROPERTY EveryRequestEnds
CHECK_DEADLOCK FALSE
