SPECIFICATION Spec
CONSTANTS
    Handlers = {h1, h2}
    Orders = {TRUE, FALSE}
    MaxSessions = 2
    MaxTime = 2
    MaxRestarts = 1
    MaxExits = 2
SYMMETRY Symmetry
CHECK_DEADLOCK FALSE
INVARIANTS TypeOK  RecordingStateAgrees
PROPERTIES SessionsEndOnce
