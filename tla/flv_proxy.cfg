SPECIFICATION Spec
CONSTANTS
    MinInterval = 2
    Requests = 1
PROPERTY StreamReachesFfmpeg
CHECK_DEADLOCK FALSE
