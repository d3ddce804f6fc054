\* Days of two ticks: a forecast issued in the middle of a day.
SPECIFICATION Spec
CONSTANTS
    None = none
    MaxAge = 1
    DayLength = 2
    LongSamples = 2
    LongDays = 2
    ScoredSamples = 1
    ScoredDays = 2
    Horizons = {0, 1}
    MaxTime = 1
INVARIANTS
    ScoredAhead
