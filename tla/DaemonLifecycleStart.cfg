\* start() fails or is interrupted before it has made the API thread.
SPECIFICATION FairDaemonSpec
CONSTANTS
    Order <- StartOrder
    Groups = 1
    Validity = 0
    Duration = 0
PROPERTIES
    StopAlwaysReturns
CHECK_DEADLOCK FALSE
