SPECIFICATION Spec
CONSTANTS
    Calls = {"a", "b", "c"}
    Reserve = 1
    PointsPerMin = 11
    ContentPerMin = 2
    Concurrency = 2
    Window = 2
    Hour = 3
    Slack = 1
    Jitter = 1
    Limit = 8
    MaxRetries = 1
    UrlLife = 3
    UrlMargin = 1
    UrlCap = 1
    BackoffCap = 3
    MaxRetryDelay = 1
    Races = {}
    Cases <- AllCases
INVARIANTS SlotsSound LimitsKept FloorKept RetriesHarmless
PROPERTY CallsEnd
CHECK_DEADLOCK FALSE
