SPECIFICATION FairSpec
CONSTANTS
    h1 = h1
    h2 = h2
    p1 = p1
    p2 = p2
    Hubs  <- TwoHubs
    Paths <- OnePath
    MaxCommitAttempts = 2
    MaxEvents = 4
    MaxMutations = 3
    MaxFails = 1
    MaxLost = 0
    MaxCrashes = 0
    MidCommit = TRUE
    MidLoad = FALSE
    LargeTree = TRUE
    FreshReads = FALSE
PROPERTY EventuallyCommitted
CHECK_DEADLOCK FALSE
