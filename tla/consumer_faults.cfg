SPECIFICATION Spec
CONSTANTS
    MessageCount = 3
    Prefetch = 2
    Parallelism = 2
    MaxWorkers = 2
    HasDLX = TRUE
    Poison <- NoPoison
    FaultKinds <- HardFaults
    MaxFaults = 2
    MaxDatabaseErrors = 1
INVARIANTS
    TypeOK
    OneLiveCopy
    NoUnrefusedLoss
    NoLostWakeup
PROPERTY
    ImplementsContract
CHECK_DEADLOCK FALSE
