\* A tick a day: on the third a forecast gets ready and what was fetched on the first is stale.
SPECIFICATION FairSpec
CONSTANTS
    None = none
    MaxAge = 1
    DayLength = 1
    LongSamples = 2
    LongDays = 2
    ScoredSamples = 1
    ScoredDays = 2
    Horizons = {0, 1}
    MaxTime = 2
INVARIANTS
    CorrectedHasBase
    OkMeansArchived
PROPERTIES
    WeatherNotWithheld
    StaleReported
