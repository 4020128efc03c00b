SPECIFICATION Spec
CONSTANTS
    Handlers = {h1, h2}
    Orders = {TRUE}
    MaxSessions = 1
    MaxTime = 1
    MaxRestarts = 1
    MaxExits = 0
SYMMETRY Symmetry
CHECK_DEADLOCK FALSE
INVARIANTS HeartbeatWhileRecording
