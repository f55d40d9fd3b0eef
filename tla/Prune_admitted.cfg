SPECIFICATION Spec
CONSTANTS
    Races = {"admitted"}
    Threshold = 1
    Owners = {"loop", "w1", "w2", "p", "q"}
    Writers = {"w1", "w2"}
    Pruners = {"p", "q"}
    Cap = 3
    MaxRotations = 1
    Cases <- Overtaken
INVARIANT NothingDangling
CHECK_DEADLOCK FALSE
