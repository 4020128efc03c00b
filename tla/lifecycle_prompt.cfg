SPECIFICATION LifecycleSpec
CONSTANTS
    MaxRecs = 2
    Handlers = {h1, h2}
    Splitting = TRUE
    Panics = FALSE
    NoRec = NoRec
    MaxListeners = 2
    Prompt = TRUE
    Interrupts = FALSE
    OtherEnds = TRUE
SYMMETRY Symmetry
CHECK_DEADLOCK FALSE
INVARIANTS NoZombieRecorder 
