SPECIFICATION Spec
CONSTANTS
    k1 = k1
    None = None
    Keys <- OneKey
    Reliable = FALSE
    TimerJ = 2
    MaxCopies = 2
PROPERTY DuplicateAnsweredByCache
