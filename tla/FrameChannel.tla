----------------------------- MODULE FrameChannel ---------------------------
(***************************************************************************)
(* What a listener on a serial bus promises about the frames that reach    *)
(* its port undamaged: each is delivered at most once, in the order they   *)
(* were sent, and only a flushed or unplugged port loses any.              *)
(***************************************************************************)
EXTENDS Integers, Sequences, SequencesExt

CONSTANT Frames

VARIABLES queue,      \* undamaged frames that have reached the port, not yet delivered
          delivered   \* what the listener has been given, in order

vars == <<queue, delivered>>

Init ==
    /\ queue = <<>>
    /\ delivered = <<>>

Send ==
    /\ Len(queue') = Len(queue) + 1
    /\ IsPrefix(queue, queue')
    /\ Last(queue') \in Frames
    /\ UNCHANGED delivered

\* A read may complete several frames.
Deliver ==
    /\ Len(delivered') > Len(delivered)
    /\ delivered' \o queue' = delivered \o queue

\* The port is flushed or unplugged: what the listener has not read is lost.
Lose ==
    /\ IsStrictPrefix(queue', queue)
    /\ UNCHANGED delivered

Next == Send \/ Deliver \/ Lose

Spec == Init /\ [][Next]_vars
=============================================================================
