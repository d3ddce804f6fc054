\* Raw rows are deleted from tick 8 on; devices are silent, rows are late and passes are
\* apart for less than the retention leaves room for.
SPECIFICATION Spec
CONSTANTS
    Levels <- TwoLevels
    Retention = 8
    RollupRetention <- LongerThanRaw
    SliceSize = 1
    MaxLate = 1
    MaxGap = 2
    MaxInterval = 2
    MaxFailures = 1
    MaxTime = 10
INVARIANTS
    NoSampleLost
PROPERTIES
    RollupsNeverShrink
    BacklogCleared
