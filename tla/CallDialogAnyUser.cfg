SPECIFICATION Spec
CONSTANTS
    o1 = o1
    o2 = o2
    i1 = i1
    i2 = i2
    NoCall = NoCall
    OutCalls <- OneOut
    InCalls <- TwoIn
    AutoAnswer = FALSE
    SessionTimers = TRUE
    OneCallAtATime = FALSE
    PortsRunOut = TRUE
    MaxOffers = 2
SYMMETRY Symmetry
INVARIANT NothingOutlivesItsCall
PROPERTIES
    RefreshKeepsHold
    OverStaysOver
CHECK_DEADLOCK FALSE
