--------------------------- MODULE HistoryPipeline --------------------------
(***************************************************************************)
(* The persistence path of the daemon: device and service workers publish  *)
(* measurements, a sink of PlantState puts each on a bounded queue         *)
(* (model.py, MeasurementQueue), one history thread moves them to SQLite   *)
(* in batches (storage.py, HistoryWriter.run), the monitor thread reports  *)
(* the path's health and stop() winds it all down (daemon.py).             *)
(*                                                                         *)
(* A measurement is the pair <<worker, n>>: the n-th one this worker       *)
(* published.  MaxPublish and MaxFailures bound how many measurements each *)
(* worker publishes and how many batches fail.                             *)
(***************************************************************************)
EXTENDS Naturals, Sequences, Functions

CONSTANTS Workers,      \* threads that publish measurements
          Writer,       \* the history thread
          None,         \* the sentinel stop() puts on the queue
          Capacity,     \* maxsize of the queue (10000 in the code)
          BatchLimit,   \* most measurements in one transaction (100 in the code)
          MaxPublish,   \* bound: measurements per worker
          MaxFailures   \* bound: batches that fail

ASSUME PipelineAssumption ==
    /\ Writer \notin Workers
    /\ None \notin Workers \X Nat
    /\ Capacity \in Nat \ {0}
    /\ BatchLimit \in Nat \ {0}
    /\ MaxPublish \in [Workers -> Nat]
    /\ MaxFailures \in Nat

VARIABLES
    queue,                  \* Queue: measurements and the sentinel
    dropped,                \* MeasurementQueue.dropped
    register,               \* per thread: value read in the middle of dropped += 1, else 0
    published,              \* per worker: how many measurements it has published
    worker,                 \* per worker: where the thread is
    writer,                 \* where the history thread is
    batch,                  \* HistoryWriter.run: batch
    rows,                   \* the committed rows of table measurements, by id
    failures,               \* HistoryWriter.failures
    consecutive_failures,   \* HistoryWriter.consecutive_failures
    shutdown_requested,     \* HistoryWriter.run: shutdown_requested
    stop_event,             \* Daemon.stop_event
    main,                   \* where the main thread is
    storage_status,         \* health of component "storage", as last reported
    \* history variables: no guard reads them
    lost,                   \* measurements counted, or about to be, in dropped
    retried,                \* measurements of batches that were rolled back
    late                    \* measurements a worker put on the queue after the sentinel
                            \* or after the history thread had ended

queueVars  == <<queue, dropped, register>>
workerVars == <<published, worker>>
writerVars == <<writer, batch, rows, failures, consecutive_failures, shutdown_requested>>
mainVars   == <<stop_event, main>>
ghostVars  == <<lost, retried, late>>
vars == <<queueVars, workerVars, writerVars, mainVars, storage_status, ghostVars>>

Measurements == UNION {{w} \X (1..MaxPublish[w]) : w \in Workers}
Threads      == Workers \cup {Writer}
Running      == main # "exited"
Queued       == Range(queue) \ {None}
Backlog      == Queued \cup Range(batch)
Ended        == writer \in {"done", "dead"}

Init ==
    /\ queue = <<>>
    /\ dropped = 0
    /\ register = [t \in Threads |-> 0]
    /\ published = [w \in Workers |-> 0]
    /\ worker = [w \in Workers |-> "loop"]
    /\ writer = "start"
    /\ batch = <<>>
    /\ rows = <<>>
    /\ failures = 0
    /\ consecutive_failures = 0
    /\ shutdown_requested = FALSE
    /\ stop_event = FALSE
    /\ main = "running"
    /\ storage_status = "starting"
    /\ lost = {}
    /\ retried = {}
    /\ late = {}
-----------------------------------------------------------------------------
(***************************************************************************)
(* Publishing.  put_nowait never blocks; on a full queue the measurement   *)
(* is dropped and counted.  dropped += 1 is a read and a write, which the  *)
(* language does not make atomic: threads may interleave between them.     *)
(*                                                                         *)
(* A definition whose name starts with Mutant_ is never used by the        *)
(* specification: it is a plausible mistake in the definition after it.    *)
(***************************************************************************)

HasRoom == Len(queue) < Capacity

PutNowait(m) ==
    /\ HasRoom
    /\ queue' = Append(queue, m)
    /\ UNCHANGED <<dropped, register, lost>>

Full(t, m) ==
    /\ ~HasRoom
    /\ register' = [register EXCEPT ![t] = dropped]
    /\ lost' = lost \cup {m}
    /\ UNCHANGED <<queue, dropped>>

CountDrop(t) ==
    /\ dropped' = register[t] + 1
    /\ register' = [register EXCEPT ![t] = 0]
    /\ UNCHANGED <<queue, lost>>

\* An iteration of a worker's loop: it checks stop, then reads its device and
\* publishes, however long that takes.
StartPublish(w) ==
    /\ Running
    /\ worker[w] = "loop"
    /\ ~stop_event
    /\ published[w] < MaxPublish[w]
    /\ published' = [published EXCEPT ![w] = @ + 1]
    /\ worker' = [worker EXCEPT ![w] = "put"]
    /\ UNCHANGED <<queueVars, writerVars, mainVars, storage_status, ghostVars>>

Put(w) ==
    LET m == <<w, published[w]>>
    IN  /\ worker[w] = "put"
        /\ \/ /\ PutNowait(m)
              /\ worker' = [worker EXCEPT ![w] = "loop"]
              /\ late' = IF main = "join_history" \/ Ended THEN late \cup {m} ELSE late
           \/ /\ Full(w, m)
              /\ worker' = [worker EXCEPT ![w] = "count"]
              /\ UNCHANGED late

FinishPut(w) ==
    /\ worker[w] = "count"
    /\ CountDrop(w)
    /\ worker' = [worker EXCEPT ![w] = "loop"]
    /\ UNCHANGED late

EndWorker(w) ==
    /\ worker[w] = "loop"
    /\ stop_event
    /\ worker' = [worker EXCEPT ![w] = "done"]
    /\ UNCHANGED <<queueVars, lost, late>>

\* What a worker does without waiting for anything outside the process
WorkerStep(w) ==
    /\ Running
    /\ Put(w) \/ FinishPut(w) \/ EndWorker(w)
    /\ UNCHANGED <<published, retried, writerVars, mainVars, storage_status>>
-----------------------------------------------------------------------------
(***************************************************************************)
(* HistoryWriter.run.                                                      *)
(***************************************************************************)

\* initialize_database: an exception here leaves run() and ends the thread
WriterStart ==
    /\ writer = "start"
    /\ writer' \in {"check", "dead"}
    /\ UNCHANGED <<queue, batch, rows, failures, consecutive_failures, shutdown_requested>>

Mutant_LoopCondition == ~stop_event

LoopCondition == ~stop_event \/ queue # <<>>

WriterCheck ==
    /\ writer = "check"
    /\ writer' = IF LoopCondition THEN "get" ELSE "done"
    /\ UNCHANGED <<queue, batch, rows, failures, consecutive_failures, shutdown_requested>>

\* queue.get(timeout=0.5)
WriterGet ==
    /\ writer = "get"
    /\ queue # <<>>
    /\ queue' = Tail(queue)
    /\ IF Head(queue) = None
         THEN writer' = "done" /\ UNCHANGED batch
         ELSE writer' = "fill" /\ batch' = <<Head(queue)>>
    /\ UNCHANGED <<rows, failures, consecutive_failures, shutdown_requested>>

WriterGetTimeout ==
    /\ writer = "get"
    /\ queue = <<>>
    /\ writer' = "check"
    /\ UNCHANGED <<queue, batch, rows, failures, consecutive_failures, shutdown_requested>>

Mutant_Gathered == <<Head(queue)>> \o batch

Gathered == Append(batch, Head(queue))

Mutant_OnSentinel == "done"

\* break out of the filling loop, and still write what was gathered
OnSentinel == "commit"

\* get_nowait, until the batch is full, the queue is empty or the sentinel is taken
WriterFill ==
    /\ writer = "fill"
    /\ Len(batch) < BatchLimit
    /\ queue # <<>>
    /\ queue' = Tail(queue)
    /\ IF Head(queue) = None
         THEN /\ shutdown_requested' = TRUE
              /\ writer' = OnSentinel
              /\ UNCHANGED batch
         ELSE /\ batch' = Gathered
              /\ UNCHANGED <<writer, shutdown_requested>>
    /\ UNCHANGED <<rows, failures, consecutive_failures>>

WriterFilled ==
    /\ writer = "fill"
    /\ Len(batch) = BatchLimit \/ queue = <<>>
    /\ writer' = "commit"
    /\ UNCHANGED <<queue, batch, rows, failures, consecutive_failures, shutdown_requested>>

\* executemany and commit succeed
WriterCommit ==
    /\ writer = "commit"
    /\ rows' = rows \o batch
    /\ batch' = <<>>
    /\ consecutive_failures' = 0
    /\ writer' = IF shutdown_requested THEN "done" ELSE "check"
    /\ UNCHANGED <<queue, failures, shutdown_requested>>

Mutant_RolledBack == Append(rows, Head(batch))

\* connection.rollback(): none of the batch stays in the table
RolledBack == rows

Mutant_AfterRollback == "check"

\* what follows the rollback: requeue the batch
AfterRollback == "requeue"

\* sqlite3.Error: rollback; if that raises too, the exception leaves run() and the
\* batch dies with the thread
WriterFails ==
    /\ writer = "commit"
    /\ failures < MaxFailures
    /\ rows' = RolledBack
    /\ \/ /\ failures' = failures + 1
          /\ consecutive_failures' = consecutive_failures + 1
          /\ writer' = AfterRollback
       \/ /\ writer' = "dead"
          /\ UNCHANGED <<failures, consecutive_failures>>
    /\ UNCHANGED <<queue, batch, shutdown_requested>>

\* for measurement in batch: put_nowait, at the tail
WriterRequeue ==
    /\ writer = "requeue"
    /\ batch # <<>>
    /\ \/ PutNowait(Head(batch)) /\ UNCHANGED writer
       \/ Full(Writer, Head(batch)) /\ writer' = "count"
    /\ retried' = retried \cup {Head(batch)}
    /\ batch' = Tail(batch)
    /\ UNCHANGED <<late, rows, failures, consecutive_failures, shutdown_requested>>

WriterCountDrop ==
    /\ writer = "count"
    /\ CountDrop(Writer)
    /\ writer' = "requeue"
    /\ UNCHANGED <<retried, late, batch, rows, failures, consecutive_failures, shutdown_requested>>

WriterRequeued ==
    /\ writer = "requeue"
    /\ batch = <<>>
    /\ shutdown_requested' = FALSE
    /\ writer' = "check"
    /\ UNCHANGED <<queue, batch, rows, failures, consecutive_failures>>

WriterStep ==
    /\ Running
    /\ \/ /\ \/ WriterStart \/ WriterCheck \/ WriterGet \/ WriterGetTimeout
             \/ WriterFill \/ WriterFilled \/ WriterCommit \/ WriterFails
             \/ WriterRequeued
          /\ UNCHANGED <<dropped, register, ghostVars>>
       \/ WriterRequeue
       \/ WriterCountDrop
    /\ UNCHANGED <<workerVars, mainVars, storage_status>>
-----------------------------------------------------------------------------
(***************************************************************************)
(* The monitor thread's report, and Daemon.stop().                         *)
(***************************************************************************)

Mutant_persistence_degraded == consecutive_failures # 0

persistence_degraded == consecutive_failures # 0 \/ dropped # 0

Monitor ==
    /\ Running
    /\ ~stop_event
    /\ storage_status' = IF persistence_degraded THEN "degraded" ELSE "ok"
    /\ UNCHANGED <<queueVars, workerVars, writerVars, mainVars, ghostVars>>

\* SIGTERM or SIGINT: request_stop calls stop(), which does nothing the second time
RequestStop ==
    /\ main = "running"
    /\ stop_event' = TRUE
    /\ main' = "join_workers"
    /\ UNCHANGED <<queueVars, workerVars, writerVars, storage_status, ghostVars>>

\* join(timeout=5) of every thread but the history thread: returns when the thread
\* has ended or when the time is up, whichever comes first
JoinWorkers ==
    /\ main = "join_workers"
    /\ main' = "put_sentinel"
    /\ UNCHANGED queue

\* queue.put(None): blocks while the queue is full
PutSentinel ==
    /\ main = "put_sentinel"
    /\ HasRoom
    /\ queue' = Append(queue, None)
    /\ main' = "join_history"

\* join(timeout=5) of the history thread; the process then exits, and the threads
\* still running, which are daemon threads, exit with it
JoinHistory ==
    /\ main = "join_history"
    /\ main' = "exited"
    /\ UNCHANGED queue

StopStep ==
    /\ JoinWorkers \/ PutSentinel \/ JoinHistory
    /\ UNCHANGED <<dropped, register, workerVars, writerVars, stop_event, storage_status, ghostVars>>

Next ==
    \/ \E w \in Workers : StartPublish(w) \/ WorkerStep(w)
    \/ WriterStep
    \/ Monitor
    \/ RequestStop
    \/ StopStep

\* Every thread that can run is scheduled: a put in progress, the history thread's
\* loop, the monitor's next report and a stop in progress all advance.  Nothing
\* promises that a worker reads another measurement or that a stop is requested.
Fairness ==
    /\ \A w \in Workers : WF_vars(WorkerStep(w))
    /\ WF_vars(WriterStep)
    /\ WF_vars(Monitor)
    /\ WF_vars(StopStep)

Spec == Init /\ [][Next]_vars /\ Fairness
-----------------------------------------------------------------------------
(***************************************************************************)
(* Properties.                                                             *)
(***************************************************************************)

\* Type invariant; the queue and a batch never exceed their limits (maxsize, the 100 of
\* HistoryWriter.run), whatever is requeued.
TypeOK ==
    /\ queue \in Seq(Measurements \cup {None}) /\ Len(queue) <= Capacity
    /\ dropped \in Nat
    /\ register \in [Threads -> Nat]
    /\ published \in [Workers -> Nat] /\ \A w \in Workers : published[w] <= MaxPublish[w]
    /\ worker \in [Workers -> {"loop", "put", "count", "done"}]
    /\ writer \in {"start", "check", "get", "fill", "commit", "requeue", "count", "done", "dead"}
    /\ batch \in Seq(Measurements) /\ Len(batch) <= BatchLimit
    /\ rows \in Seq(Measurements)
    /\ failures \in 0..MaxFailures
    /\ consecutive_failures \in 0..failures
    /\ shutdown_requested \in BOOLEAN
    /\ stop_event \in BOOLEAN
    /\ main \in {"running", "join_workers", "put_sentinel", "join_history", "exited"}
    /\ storage_status \in {"starting", "ok", "degraded"}
    /\ lost \subseteq Measurements
    /\ retried \subseteq Measurements
    /\ late \subseteq Measurements

InHand == {<<w, published[w]>> : w \in {v \in Workers : worker[v] = "put"}}
Issued == {m \in Measurements : m[2] <= published[m[1]]}

\* A measurement is never duplicated and never vanishes, through batching, rollback,
\* requeueing and overflow: each one published is in exactly one place, once - about to
\* be put, queued, in the history thread's batch, in the table, or dropped.
ExactlyOnce ==
    /\ IsInjective(queue) /\ IsInjective(batch) /\ IsInjective(rows)
    /\ Issued = InHand \cup Queued \cup Range(batch) \cup Range(rows) \cup lost
    /\ InHand \cap (Queued \cup Range(batch) \cup Range(rows) \cup lost) = {}
    /\ Queued \cap (Range(batch) \cup Range(rows) \cup lost) = {}
    /\ Range(batch) \cap (Range(rows) \cup lost) = {}
    /\ Range(rows) \cap lost = {}

\* The history thread leaves its loop having written everything it was given: what is
\* left unwritten when it ends normally arrived after it, or after the sentinel, or
\* belongs to a batch that was rolled back.
OnlyLateOrRetriedAbandoned ==
    writer = "done" => Backlog \subseteq late \cup retried

\* Until a batch fails, the row ids of one worker's measurements are in the order the
\* worker published them: the rollups take the row with the largest id as the latest.
OrderWithoutFailures ==
    failures = 0 =>
        \A i, j \in DOMAIN rows :
            i < j /\ rows[i][1] = rows[j][1] => rows[i][2] < rows[j][2]

\* However the threads' increments of dropped overwrite each other, a dropped
\* measurement degrades the reported health of storage for good.
LossReported == lost # {} ~> (stop_event \/ [](storage_status = "degraded"))

\* While the daemon runs, transient write failures delay the backlog but strand none of
\* it: all of it is eventually written, or dropped - unless the thread has died.
BacklogSettles == Backlog # {} ~> (Backlog = {} \/ stop_event \/ writer = "dead")

\* stop() returns, unless queue.put(None) finds the queue full and nobody to empty it:
\* the history thread died, or it ended at a moment when the queue was empty and the
\* workers still being joined have filled the queue since.
Abandoned == writer = "dead" \/ (writer = "done" /\ Queued \subseteq late)
StopCompletes == stop_event ~> (main = "exited" \/ (Abandoned /\ ~HasRoom))

\* The persistence path implements the telemetry log.
Log == INSTANCE TelemetryLog
         WITH pending <- Backlog, history <- rows, discarded <- lost
ImplementsLog == Log!Spec
=============================================================================
