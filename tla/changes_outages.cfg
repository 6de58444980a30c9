SPECIFICATION FairSpec
CONSTANTS
    ChangeCount = 4
    Element = {"title", "article", "book"}
    ElementOf <- TitlesAndTypes
    Adding <- ButFirst
    DocumentType <- Types
    Malformed <- Fourth
    Poison <- Third
    Handler = {"h1"}
    Recomputation = {"r1"}
    FaultKinds <- Outages
    MaxFaults = 1
    MaxRecomputations = 1
INVARIANTS
    ReplayIsFaithful
    AckedIsDecided
PROPERTIES
    EveryMessageLeaves
    RecomputationEnds
CHECK_DEADLOCK FALSE
