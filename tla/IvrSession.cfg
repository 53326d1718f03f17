SPECIFICATION FairSpec
CONSTANTS
    one = one
    two = two
    MaxCalls = 2
    Keys = {one, two}
    Menu <- MCMenu
    Default = "playback"
    None = None
INVARIANTS
    SessionInv
PROPERTIES
    TransferIsLast
    SessionEnds
    KeysAreTaken
CHECK_DEADLOCK FALSE
