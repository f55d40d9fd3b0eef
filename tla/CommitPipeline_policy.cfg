SPECIFICATION Spec
CONSTANTS
    h1 = h1
    h2 = h2
    p1 = p1
    p2 = p2
    Hubs  <- TwoHubs
    Paths <- TwoPaths
    MaxCommitAttempts = 3
    MaxEvents = 4
    MaxMutations = 3
    MaxFails = 1
    MaxLost = 0
    MaxCrashes = 0
    MidCommit = FALSE
    MidLoad = FALSE
    LargeTree = FALSE
    FreshReads = FALSE
SYMMETRY Symmetric
PROPERTY RebasePolicy
CHECK_DEADLOCK FALSE
