SPECIFICATION FairSpec
CONSTANTS
    SourceRecord = {"r", "q"}
    Person = {"ann", "bob"}
    SourcePerson = {"a", "b"}
    SourceOrganization = {"o"}
    Concept = {"c", "k"}
    WithUri = {"c"}
    SourceJournal = {"s"}
    Issn = {"p", "e", "n"}
    Journal = {"j"}
    Portal <- MCPortal
    Issue = {"v1", "v2"}
    Message <- MCMessage
    Worker = {w1, w2}
    MaxMessages = 2
    MaxErrors = 1
    w1 = w1
    w2 = w2
CHECK_DEADLOCK FALSE
INVARIANTS TypeOK RecordFollowsItsMessage ToldAfterLastChange DroppedHaveARecord OneLabelPerLanguage CheckedHaveAJournal
PROPERTY MessagesEnd
