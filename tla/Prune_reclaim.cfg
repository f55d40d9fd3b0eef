SPECIFICATION Spec
CONSTANTS
    Races = {}
    Threshold = 1
    Owners = {"loop", "w1", "w2", "p", "q"}
    Writers = {"w1", "w2"}
    Pruners = {"p", "q"}
    Cap = 3
    MaxRotations = 1
    Cases <- AllCases
INVARIANTS PruneSafe ContentKept Reclaims
PROPERTY AllEnd
CHECK_DEADLOCK FALSE
