CONSTANTS
    Callers = {c1, c2}
    Handles = {h1, h2, h3}
    Names = {a, b}
    None = None
    Hole = Hole
    Foreign = Foreign
    Windows = {}
    Kinds = {"scratch", "linked", "create", "append", "truncate", "update", "moved"}
    OpenKinds = {"append", "create"}
    Cap = 2
    TTL = 0
    MaxLen = 3
    MaxInode = 4
    MaxClock = 1
    MaxCalls = 3
    MaxEvents = 1
SPECIFICATION Spec
SYMMETRY CallerSymmetry
INVARIANTS HandlesSound CommitLands NoCallsDeadlock
PROPERTY CallsFaithful
CHECK_DEADLOCK FALSE
