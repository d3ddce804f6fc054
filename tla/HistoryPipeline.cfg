\* Two workers, a queue and batches of two: the queue overflows while a worker puts
\* and while a batch is requeued, and a batch takes measurements of both workers.
SPECIFICATION Spec
CONSTANTS
    Workers = {w1, w2}
    Writer = writer
    None = none
    Capacity = 2
    BatchLimit = 2
    MaxPublish <- PublishBound
    w1 = w1
    w2 = w2
    MaxFailures = 1
INVARIANTS
    ExactlyOnce
    OnlyLateOrRetriedAbandoned
    OrderWithoutFailures
PROPERTIES
    LossReported
    BacklogSettles
    StopCompletes
    ImplementsLog
\* the process exits, and a dead history thread may leave stop() waiting for ever
CHECK_DEADLOCK FALSE
