\* The threads of start() that differ from each other.
SPECIFICATION FairDaemonSpec
CONSTANTS
    Order <- StartOrder
    Groups = 2
    Validity = 1
    Duration = 1
INVARIANTS
    StragglersKnown
PROPERTIES
    WarningsRight
    StopReturns
    ReadsResume
CHECK_DEADLOCK FALSE
