\* The instance of HistoryPipeline.cfg; the history thread may die.
SPECIFICATION Spec
CONSTANTS
    Workers = {w1, w2}
    Writer = writer
    None = none
    Capacity = 2
    BatchLimit = 2
    MaxPublish <- PublishBound
    MaxFailures = 1
    w1 = w1
    w2 = w2
PROPERTY StopTerminates
CHECK_DEADLOCK FALSE
