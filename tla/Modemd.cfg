SPECIFICATION FairSpec
CONSTANT MaxFaults = 3
INVARIANTS
    TypeOK
    ReadyIsRunning
    NotReadyIsHandled
    WaitIsTimed
PROPERTIES
    Recovers
CHECK_DEADLOCK FALSE
