SPECIFICATION FairSpec
CONSTANTS
    PartNum = 1
    Sectors = {1, 2}
    Values = {0, 1}
    WriteFaults = TRUE
    Spurious = {FALSE}
INVARIANTS DiskIsACommit NothingForgotten FailedRequestLeavesNoTrace CaliAckIsDurable
PROPERTIES CommitReachesDisk
