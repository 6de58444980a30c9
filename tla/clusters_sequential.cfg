SPECIFICATION Spec
CONSTANTS
    doi = doi
    hal = hal
    Identifier <- Identifiers
    RecordCount = 4
    Worker = {"w1"}
    MaxDocuments = 8
    MaxEvents = 2
    MaxErrors = 0
SYMMETRY Symmetry
INVARIANTS
    LinksFollowIdentifiers
    DocumentsAreClusters
    EmptiedHaveAnHeir
CHECK_DEADLOCK FALSE
