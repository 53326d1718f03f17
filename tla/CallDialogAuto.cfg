SPECIFICATION FairSpec
CONSTANTS
    o1 = o1
    o2 = o2
    i1 = i1
    i2 = i2
    NoCall = NoCall
    OutCalls <- OneOut
    InCalls <- TwoIn
    AutoAnswer = TRUE
    SessionTimers = FALSE
    OneCallAtATime = TRUE
    PortsRunOut = TRUE
    MaxOffers = 2
PROPERTIES
    EveryCallerIsAnswered
    HangupIsNoticed
CHECK_DEADLOCK FALSE
