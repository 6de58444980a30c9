SPECIFICATION Spec
CONSTANTS
    ChangeCount = 1
    Element = {"title"}
    ElementOf <- TitleOnly
    Adding <- First
    DocumentType <- None
    Malformed <- None
    Poison <- None
    Handler = {"h1", "h2"}
    Recomputation = {"r1"}
    FaultKinds <- Outages
    MaxFaults = 1
    MaxRecomputations = 1
INVARIANTS
    FailedIsRetried
CHECK_DEADLOCK FALSE
