SPECIFICATION FairSpec
CHECK_DEADLOCK FALSE
CONSTANTS
    Frames = 1
    Errors = 1
    FdQueue = 2
    Toggles = 0
    RecoverCount = 2
    Scopes = {{"errors"}, {"faces"}, {"flood", "late"}}
INVARIANTS TypeOK QuietAfterStop FrameHeld NothingDangling BusyMeansWorking
PROPERTIES CallsReturn GivesUp
