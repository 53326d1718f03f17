SPECIFICATION Spec
CONSTANTS
    o1 = o1
    o2 = o2
    i1 = i1
    i2 = i2
    NoCall = NoCall
    OutCalls <- OneOut
    InCalls <- TwoIn
    AutoAnswer = FALSE
    SessionTimers = TRUE
    OneCallAtATime = TRUE
    PortsRunOut = TRUE
    MaxOffers = 2
SYMMETRY Symmetry
INVARIANTS
    TypeOK
    TracesFollowTheCall
PROPERTIES
    HoldEndsWithItsCall
    ImplementsPhoneLine
CHECK_DEADLOCK FALSE
