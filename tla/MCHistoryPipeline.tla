--------------------------- MODULE MCHistoryPipeline ------------------------
(***************************************************************************)
(* HistoryPipeline for TLC, and the properties TLC refutes.                *)
(***************************************************************************)
EXTENDS HistoryPipeline, TLC

CONSTANTS w1, w2

\* two measurements from each worker
PublishBound == w1 :> 2 @@ w2 :> 2

\* storage.py:303: "A transient SQLite writer collision must not silently discard
\* telemetry."  When the history thread ends normally, no measurement of a rolled-back
\* batch that was neither written nor dropped is left behind in the queue.
RetriedNotAbandoned == writer = "done" => Queued \cap retried = {}

\* daemon-plan.md:171 lists "clean shutdown": stop() always returns.
StopTerminates == stop_event ~> main = "exited"
=============================================================================
