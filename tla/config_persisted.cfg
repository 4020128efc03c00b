SPECIFICATION Spec
CONSTANTS
    Rooms = {"r1"}
    Requests = {"q1", "q2"}
    MaxRetries = 1
    Kinds = {"remove", "room", "cookie"}
    Crashes = 0
INVARIANT UpdatesPersisted
CHECK_DEADLOCK FALSE
