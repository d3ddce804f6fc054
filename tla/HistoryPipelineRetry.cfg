\* The instance of HistoryPipeline.cfg; a batch fails while the sentinel is queued.
SPECIFICATION Spec
CONSTANTS
    Workers = {w1, w2}
    Writer = writer
    None = none
    Capacity = 2
    BatchLimit = 2
    MaxPublish <- PublishBound
    MaxFailures = 1
    w1 = w1
    w2 = w2
INVARIANT RetriedNotAbandoned
CHECK_DEADLOCK FALSE
