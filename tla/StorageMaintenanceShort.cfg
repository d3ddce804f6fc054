\* Raw rows are kept for two of the longest periods (raw_retention_days = 2), nothing is
\* silent, late or failing and a pass runs every tick.
SPECIFICATION Spec
CONSTANTS
    Levels <- TwoLevels
    Retention = 4
    RollupRetention <- LongerThanRaw
    SliceSize = 1
    MaxLate = 0
    MaxGap = 1
    MaxInterval = 1
    MaxFailures = 0
    MaxTime = 10
PROPERTIES
    RollupsNeverShrink
