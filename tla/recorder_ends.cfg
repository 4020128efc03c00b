SPECIFICATION FairSpec
CONSTANTS
    MaxRecs = 2
    Handlers = {h1}
    Splitting = TRUE
    Panics = TRUE
    NoRec = NoRec
CHECK_DEADLOCK FALSE
PROPERTIES   LongRecordingsSplit
