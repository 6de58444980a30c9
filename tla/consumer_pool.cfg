SPECIFICATION FairSpec
CONSTANTS
    MessageCount = 4
    Prefetch = 3
    Parallelism = 1
    MaxWorkers = 4
    HasDLX = FALSE
    Poison <- FirstIsPoison
    FaultKinds <- Stops
    MaxFaults = 1
    MaxDatabaseErrors = 0
INVARIANT
    PoolBound
PROPERTIES
    HealthySettled
    ShutdownCompletes
CHECK_DEADLOCK FALSE
