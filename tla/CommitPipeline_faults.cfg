SPECIFICATION Spec
CONSTANTS
    h1 = h1
    h2 = h2
    p1 = p1
    p2 = p2
    Hubs  <- TwoHubs
    Paths <- TwoPaths
    MaxCommitAttempts = 3
    MaxEvents = 4
    MaxMutations = 3
    MaxFails = 1
    MaxLost = 1
    MaxCrashes = 1
    MidCommit = TRUE
    MidLoad = FALSE
    LargeTree = FALSE
    FreshReads = FALSE
CONSTRAINT FewEvents
SYMMETRY Symmetric
INVARIANTS CachesSound NothingLost
PROPERTY IndexContract
CHECK_DEADLOCK FALSE
