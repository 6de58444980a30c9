SPECIFICATION Spec
CONSTANTS
    ChangeCount = 2
    Element = {"article", "book"}
    ElementOf <- TwoTypes
    Adding <- FirstTwo
    DocumentType <- Types
    Malformed <- None
    Poison <- None
    Handler = {"h1", "h2"}
    Recomputation = {"r1", "r2"}
    FaultKinds <- Concurrency
    MaxFaults = 2
    MaxRecomputations = 2
INVARIANTS
    TypeOK
    EditsSurvive
CHECK_DEADLOCK FALSE
