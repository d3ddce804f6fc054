\* The adapter is never pulled out: only what the inverter answers varies.
SPECIFICATION FairSpec
CONSTANTS
    IdentityGroups <- IdentityOrder
    PollGroups <- PollOrder
    Critical = {inverter_power}
    Shape <- Shapes
    Interval <- Intervals
    MaxExchange = 1
    MaxBackoff = 4
    None = none
    MaxUnplugs = 0
    device_header = device_header
    machine_identity = machine_identity
    inverter_power = inverter_power
    storage_mode = storage_mode
    meter_state = meter_state
    inverter_status = inverter_status
PROPERTY CriticalPolled
CHECK_DEADLOCK FALSE
