SPECIFICATION MCSpec
CONSTANTS
    Rooms = {"a"}
    Custom = {}
    Callers = {"c1", "c2"}
    Objects = 2
    Interval = 1
    Jitter = 0
    Gaps = {0, 2}
    Generations = 2
    Changes = 1
    Requests = {"q1", "q2"}
    Kinds = {"remove", "room", "append"}
    MaxRetries = 1
    Crashes = 1
    Recordings = {"r"}
    OptionSets <- TaskOptions
    Storages = {"s1", "s2"}
    Concurrency = 1
    MaxRuns = 2
    Migrators = {"p"}
    Settings = {"critical", "normal"}
    Latest = 2
    Times = {1, 2, 3}
    MaxBackupCount = 2
    MaxRows = 2
    MaxCrashes = 3
    StatRooms = {"a", "b"}
    MaxTime = 4
    MaxRequests = 3
    MaxBytes = 2
    Gap = 2
    Bucket = 3
    Retention = 2
    Tokens = {"t1", "t2", "t3"}
    Players = {"p1"}
    MaxSessions = 2
    SessionTTL = 1
    CacheTTL = 0
    MaxStreams = 3
CHECK_DEADLOCK FALSE
INVARIANTS  NothingLost  
PROPERTIES RequestsApart EditsSurvive LeastUsedGoes
