SPECIFICATION Spec
CONSTANTS
    MaxRecs = 3
    Handlers = {h1}
    Splitting = TRUE
    Panics = FALSE
    NoRec = NoRec
CHECK_DEADLOCK FALSE
INVARIANTS TypeOK SegmentsAccounted  SplitChainAlive ActiveNeverMissed NoLeakedRecorder
