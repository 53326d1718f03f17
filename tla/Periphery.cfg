SPECIFICATION FairSpec
CONSTANTS
    MaxTyped = 3
    MaxAudio = 1
    MaxLost = 2
    MaxRepeated = 1
    MaxInFlight = 4
    MaxStray = 1
    MaxBuffered = 2
    LastMessage = 3
    Body <- MCBody
    Hosts = {server, h1, h2, h3, h4}
    Server = server
    NoAddress = NoAddress
    MaxLearned = 2
    Addresses = {a1, a2, a3}
    Requests = {r1, r2}
    MaxFailures = 2
    Lockout = 2
    MaxTracked = 2
    EndOfTime = 5
    NoOne = NoOne
    Threads = {t1, t2}
    MaxLines = 5
    RingSize = 2
    Savers = {s1, s2}
    MaxSaves = 3
    MaxCrashes = 1
    Keys = {k1, k2}
    None = None
    Reliable = FALSE
    TimerJ = 2
    MaxCopies = 2
    Stretch = 64
    LastDay = 54787
    Chunks <- MCChunks
    MaxChunks = 3
    Cuts = {0, 1, 4}
    Sections <- MCSections
    Preambles <- MCPreambles
    Routes <- MCRoutes
    MaxProxies = 4
INVARIANTS
    OnlyItsPeersKeys
    FramingIsFaithful
    LoginIsLimited
    LogIsFaithful
    FileIsWhole
    RepetitionsAreAnswered
    SoundIsFaithful
    TextIsFaithful
PROPERTIES
    ImplementsDigitLine
    StreamsDeliver
    TrustIsEarned
    AnswersGo
CHECK_DEADLOCK FALSE
