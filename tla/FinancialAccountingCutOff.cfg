\* The first run has a whole day to price and fails once
SPECIFICATION Spec
CONSTANTS
    DayLength = 2
    HourLength = 1
    WindowHours = {1}
    Cap = 3
    Allowance = 1
    Retention = 5
    Powers <- Imports
    Parts = {1}
    MaxLate = 0
    MaxInterval = 3
    MaxFailures = 1
    MaxTime = 5
PROPERTIES
    SupplyCharged
\* the clock stops at MaxTime
CHECK_DEADLOCK FALSE
