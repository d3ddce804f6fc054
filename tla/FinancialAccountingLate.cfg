\* Two rows a minute, each committed while its minute lasts or in the next one
SPECIFICATION Spec
CONSTANTS
    DayLength = 3
    HourLength = 2
    WindowHours = {0}
    Cap = 3
    Allowance = 1
    Retention = 5
    Powers <- Imports
    Parts = {1, 2}
    MaxLate = 1
    MaxInterval = 2
    MaxFailures = 0
    MaxTime = 3
INVARIANTS
    CompleteMinutes
\* the clock stops at MaxTime
CHECK_DEADLOCK FALSE
