SPECIFICATION Spec
CONSTANTS
    Handles = {h1, h2}
    Owners = {p, q}
    LastByte = 2
    MaxLockCalls = 3
    Names = {"a", "b"}
    ChunkSize = 2
    Page = 2
    MaxDirtyRanges = 2
    Scenarios <- Cases
    Writes <- Spans
    Sizes <- Lengths
    Races = {}
SYMMETRY Symmetric
INVARIANTS OverlayExact NothingLost CalmCommits LocksSound
PROPERTY OthersSafe
CHECK_DEADLOCK FALSE
