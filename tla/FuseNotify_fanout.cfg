SPECIFICATION NotifySpec
CONSTANTS
    Paths = {"a", "b"}
    RingSize = 1
    NotifySlots = 2
    MaxPublishes = 2
    MaxLookups = 2
    MaxMutations = 1
    Present = {"a"}
    Races = {}
INVARIANTS FanoutSound 
PROPERTIES CacheFresh
CHECK_DEADLOCK FALSE
