CONSTANTS
    Paths = {"a", "b"}
    Requests = {"r1", "r2"}
    MaxCommitAttempts = 2
    Races = {}
    Cases <- GateCases
SPECIFICATION Spec
INVARIANTS GateSound RequestsSound SeenBeforeWritten
PROPERTIES CommitsKept GateLives
