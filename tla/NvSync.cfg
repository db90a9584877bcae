SPECIFICATION FairSpec
CONSTANTS
    Requests <- MCRequests
    PartIds = {1, 2}
    SectNum = 2
    SectWords = 2
    PacketWords = 11
    CutKinds = {"data", "item"}
    Channels = {TRUE, FALSE}
    MaxGroup = 1
INVARIANTS TypeOK LastAckMeansCommitted
PROPERTIES CommitIsWhole RequestCommitted
CHECK_DEADLOCK FALSE
