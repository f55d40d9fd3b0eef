SPECIFICATION FairSpec
CONSTANTS
    m1 = m1
    m2 = m2
    m3 = m3
    Mutators <- Two
    MaxEntries = 2
    MaxChans = 4
    MaxEvictions = 3
    MaxFails = 1
    MaxTimeouts = 1
    MaxShutdowns = 2
    LateEvictions = FALSE
    LateTimeouts = FALSE
INVARIANTS NeverStranded LoopsSound ShutdownConverges
PROPERTY EventuallySettled
CHECK_DEADLOCK FALSE
