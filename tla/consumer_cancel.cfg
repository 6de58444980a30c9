SPECIFICATION Spec
CONSTANTS
    MessageCount = 2
    Prefetch = 2
    Parallelism = 1
    MaxWorkers = 1
    HasDLX = FALSE
    Poison <- NoPoison
    FaultKinds <- Stops
    MaxFaults = 1
    MaxDatabaseErrors = 0
INVARIANT
    NoUnrefusedLoss
CHECK_DEADLOCK FALSE
