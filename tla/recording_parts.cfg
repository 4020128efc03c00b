SPECIFICATION MCSpec
CONSTANTS
    Attempts = 2
    Kinds = {"ffmpeg", "recorder", "native"}
    MaxReconnect = 2
    Lanes = 2
    Durations = {1, 3}
    Dials = 3
    Clients = {"c1", "c2"}
    MaxProbeTags = 3
    StreamLength = 7
    Length = 4
    Connections = {"a", "b"}
    Capacity = 1
    Size = 3
    MaxBytes = 7
    MaxPending = 2
CHECK_DEADLOCK FALSE
INVARIANTS NothingLeftRunning RecordedIsSummed NothingSkipped  NoClosedChannelUsed
PROPERTIES LanesShared 
