SPECIFICATION FairSpec
CONSTANTS
    Person <- MCPerson
    Unit <- MCUnit
    Institution <- MCInstitution
    Identifier <- MCIdentifier
    Message <- MCMessage
    Worker = {w1, w2}
    MaxMessages = 3
    MaxFailures = 1
    w1 = w1
    w2 = w2
CHECK_DEADLOCK FALSE
INVARIANTS TypeOK HarvestFollowsIdentifiers CreatedOnce DirectoryIsStored LossHasAReason
PROPERTY MessagesEnd
