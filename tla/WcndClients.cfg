SPECIFICATION FairSpec
CONSTANTS
    MaxConns = 3
    Commanders = {2}
    WCND_MAX_CLIENT_NUM = 2
    Fds = {1, 2, 3}
INVARIANTS
    TypeOK
    OwnDescriptors
    NoOrphan
    NotifiedAll
PROPERTIES
    DisplacedOnlyIfFull
    CommandServed
CHECK_DEADLOCK FALSE
