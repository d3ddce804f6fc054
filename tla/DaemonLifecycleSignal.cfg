\* A signal comes while the main thread enters its wait for the stop event.
SPECIFICATION FairDaemonSpec
CONSTANTS
    Order <- StartOrder
    Groups = 1
    Validity = 0
    Duration = 0
PROPERTIES
    StopTakesEffect
CHECK_DEADLOCK FALSE
