\* A thread that ended on an exception: its health stays as it was over data that go stale.
SPECIFICATION FairSpec
CONSTANTS
    None = none
    MaxAge = 0
    DayLength = 1
    LongSamples = 2
    LongDays = 2
    ScoredSamples = 1
    ScoredDays = 2
    Horizons = {0, 1}
    MaxTime = 1
PROPERTIES
    StaleShown
