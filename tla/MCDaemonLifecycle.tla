------------------------- MODULE MCDaemonLifecycle -------------------------
(* DaemonLifecycle for TLC. *)
EXTENDS DaemonLifecycle

StartOrder == <<"history", "api", "monitor", "solis">>
=============================================================================
