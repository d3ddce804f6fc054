\* The grid meter reading expires while the inverter's is fresh; what was derived from the
\* first readings is stale when the monitor reports a second time.
SPECIFICATION Spec
CONSTANTS
    Inputs = {grid, asw_power}
    Signals = {load_power, self_sufficiency_ratio}
    NoResult <- NoLoad
    Publishers = {eastron, asw}
    Groups <- PublishedTogether
    Values <- MeterReadings
    NoValue = none
    MaxAge <- Ages
    FreshnessFloor = 1
    ReportPeriod = 2
    Clients = {c1}
    Absent = absent
    MaxTime = 2
    MaxPublish <- PublishBound
    eastron = eastron
    asw = asw
    none = none
    grid = grid
    asw_power = asw_power
    load_power = load_power
    self_sufficiency_ratio = self_sufficiency_ratio
INVARIANTS
    DerivedIffUsable
    ViewConsistent
PROPERTIES
    ClientsCatchUp
    StaleWithdrawn
\* the clock stops at MaxTime
CHECK_DEADLOCK FALSE
