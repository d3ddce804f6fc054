\* Two days of three minutes, the first two the window; the cap is reached in the middle
\* of a minute, one minute of import keeps the credit and two lose it.
SPECIFICATION Spec
CONSTANTS
    DayLength = 3
    HourLength = 2
    WindowHours = {0}
    Cap = 3
    Allowance = 1
    Retention = 5
    Powers <- ExportAndImport
    Parts = {1}
    MaxLate = 1
    MaxInterval = 2
    MaxFailures = 1
    MaxTime = 5
INVARIANTS
    CapRespected
    CreditEarned
PROPERTIES
    LedgerAppendOnly
    RowsAccounted
\* the clock stops at MaxTime
CHECK_DEADLOCK FALSE
