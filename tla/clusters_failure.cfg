SPECIFICATION Spec
CONSTANTS
    doi = doi
    hal = hal
    Identifier <- Identifiers
    RecordCount = 3
    Worker = {"w1"}
    MaxDocuments = 6
    MaxEvents = 1
    MaxErrors = 1
INVARIANTS
    DetachedAreTreated
CHECK_DEADLOCK FALSE
