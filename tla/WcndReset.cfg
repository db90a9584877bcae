SPECIFICATION FairSpec
CHECK_DEADLOCK FALSE
CONSTANTS
    MaxFaults = 2
    SlogEnabled = TRUE
    IoFaults = TRUE
    MaxCmds = 1
    RESET_FAIL_RETRY_COUNT = 1
    MAX_LOOP_TEST_COUNT = 1
INVARIANTS
    AliveMeansAnswered
    NoSilentError
PROPERTIES
    Recovers
