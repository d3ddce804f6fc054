\* The intervals are those of asw.py in seconds, one group of each kind.  An exchange takes
\* up to two of the fast group's intervals, so that groups become overdue.
SPECIFICATION FairSpec
CONSTANTS
    IdentityGroups <- IdentityOrder
    PollGroups <- PollOrder
    Critical = {inverter_power}
    Shape <- Shapes
    Interval <- Intervals
    MaxExchange = 2
    MaxBackoff = 4
    None = none
    MaxUnplugs = 1
    device_header = device_header
    machine_identity = machine_identity
    inverter_power = inverter_power
    storage_mode = storage_mode
    meter_state = meter_state
    inverter_status = inverter_status
INVARIANTS
    PublishedGenuine
    BoundedLateness
PROPERTIES
    GroupsPolled
\* the thread may end
CHECK_DEADLOCK FALSE
