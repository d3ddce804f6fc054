\* The ratio has no result when the load is zero; its inputs expire while it is served.
SPECIFICATION Spec
CONSTANTS
    Inputs = {grid, asw_power}
    Signals = {load_power, self_sufficiency_ratio}
    NoResult <- NoLoad
    Publishers = {eastron, asw}
    Groups <- PublishedTogether
    Values <- MeterReadings
    NoValue = none
    MaxAge <- Ages
    FreshnessFloor = 1
    ReportPeriod = 3
    Clients = {c1}
    Absent = absent
    MaxTime = 3
    MaxPublish <- PublishBound
    eastron = eastron
    asw = asw
    none = none
    grid = grid
    asw_power = asw_power
    load_power = load_power
    self_sufficiency_ratio = self_sufficiency_ratio
INVARIANTS
    AllWithdrawn
\* the clock stops at MaxTime
CHECK_DEADLOCK FALSE
