CONSTANTS
    invite = invite
    register = register
    None = None
    Txs <- MCTxs
    InviteTxs <- MCInviteTxs
    Poll = 1
    T1 = 2
    T2 = 3
    Lifetime = 4
    MaxLate = 1
    MaxResponses = 2
    PeerCSeqs = {}
    Reliable = FALSE
SPECIFICATION Spec
INVARIANTS
    TypeOK
    AnswersMatch
    NoStaleKeys
    FailureAcked
    BoundedWait
PROPERTIES
    QuietAfterProvisional
    ImplementsRequestResponse
CHECK_DEADLOCK FALSE
