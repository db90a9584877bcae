SPECIFICATION FairSpec
CONSTANTS
    Requests <- MCRequests
    PartIds = {1, 2}
    SectNum = 2
    SectWords = 2
    PacketWords = 11
    CutKinds = {"data", "token"}
    Channels = {TRUE}
    MaxGroup = 1
PROPERTY RequestCommitted
CHECK_DEADLOCK FALSE
