---------------------------- MODULE TelemetryLog ----------------------------
(***************************************************************************)
(* What the persistence path promises about telemetry, with no queue, no   *)
(* threads and no database: a measurement handed to it is pending until    *)
(* the history holds it or it has been counted as dropped; the history is  *)
(* append-only and takes a group of measurements all at once; nothing is   *)
(* written twice and nothing counted as dropped is ever written.           *)
(* HistoryPipeline implements this specification.                          *)
(***************************************************************************)
EXTENDS Naturals, Sequences, Functions

CONSTANT Measurements

VARIABLES pending,    \* accepted, neither written nor dropped yet
          history,    \* the rows of the measurements table, in commit order
          discarded   \* counted as dropped: the history never holds them

vars == <<pending, history, discarded>>

Init ==
    /\ pending = {}
    /\ history = <<>>
    /\ discarded = {}

Accept(m) ==
    /\ m \notin pending \cup Range(history) \cup discarded
    /\ pending' = pending \cup {m}
    /\ UNCHANGED <<history, discarded>>

\* Refused at the door, or given up while pending
Discard(m) ==
    /\ m \notin Range(history) \cup discarded
    /\ pending' = pending \ {m}
    /\ discarded' = discarded \cup {m}
    /\ UNCHANGED history

\* The group is what the step appends to the history
Persist ==
    LET group == SubSeq(history', Len(history) + 1, Len(history'))
    IN  /\ history' = history \o group
        /\ IsInjective(group)
        /\ Range(group) \subseteq pending
        /\ pending' = pending \ Range(group)
        /\ UNCHANGED discarded

Next ==
    \/ \E m \in Measurements : Accept(m) \/ Discard(m)
    \/ Persist

Spec == Init /\ [][Next]_vars

=============================================================================
