SPECIFICATION FairSpec
CONSTANTS
    doi = doi
    hal = hal
    Identifier = {doi}
    RecordCount = 2
    Worker = {"w1", "w2"}
    MaxDocuments = 4
    MaxEvents = 2
    MaxErrors = 1
INVARIANTS
    TypeOK
    MetadataAreFresh
PROPERTIES
    UpdateEnds
CHECK_DEADLOCK FALSE
