SPECIFICATION FairSpec
CONSTANTS
    SourceRecord = {"r", "s", "t", "u", "v"}
    Document = {"d", "e"}
    Recorded <- MCRecorded
    Person = {"ann"}
    SourcePerson = {"a", "b", "c"}
    Rank <- MCRank
    Identifiers <- MCIdentifiers
    Similar <- MCSimilar
    Distance <- MCDistance
    Reluctance = 1
    SourceOrganization = {"lab", "unit", "old", "name", "blank"}
    Described <- MCDescribed
    NameLength <- MCNameLength
    Unlocatable = {"old"}
    Event <- MCEvent
    Worker = {w1, w2}
    Past <- MCPast
    w1 = w1
    w2 = w2
CHECK_DEADLOCK FALSE
INVARIANTS TypeOK ContributorsFollowRecords GhostsComeFromRaces AffiliationsAreStated StatesAreConsistent OneRootPerState
PROPERTY RecomputationsEnd
