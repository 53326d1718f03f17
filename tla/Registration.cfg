SPECIFICATION FairSpec
CONSTANTS
    Never = Never
    Refresh = 2
    Retry = 1
    KeepAlive = 1
INVARIANT TypeOK
PROPERTIES
    WatcherLeaves
    StaysRegistered
    EndsUnregistered
CHECK_DEADLOCK FALSE
