SPECIFICATION FairSpec
CONSTANTS
    t1 = t1
    t2 = t2
    t3 = t3
    Tasks = {t1}
    Size <- SizeOf
    Poll = poll
    Kicks = {k1}
    Workers = {w1, w2}
    Clients = {c1, c2}
    MaxConcurrent = 1
    StoreFaults = FALSE
    StagePanics = FALSE
    Budget = 2
    NoTask = NoTask
    NoWorker = NoWorker
INVARIANTS NoOrphanRow
PROPERTIES EverySettles
