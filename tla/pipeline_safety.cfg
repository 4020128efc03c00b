SPECIFICATION Spec
CONSTANTS
    t1 = t1
    t2 = t2
    t3 = t3
    Tasks = {t1, t2}
    Size <- SizeOf
    Poll = poll
    Kicks = {k1}
    Workers = {w1, w2, w3}
    Clients = {c1}
    MaxConcurrent = 1
    StoreFaults = TRUE
    StagePanics = TRUE
    Budget = 1
    NoTask = NoTask
    NoWorker = NoWorker
SYMMETRY Symmetry
INVARIANTS TypeOK SingleExecutor RegistryExact
PROPERTIES DeletedIsFinal ImplementsTaskLease
