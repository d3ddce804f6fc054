------------------------- MODULE MCStorageMaintenance -----------------------
(***************************************************************************)
(* StorageMaintenance for TLC.                                             *)
(***************************************************************************)
EXTENDS StorageMaintenance

\* Two of the three levels, the second twice as long.
TwoLevels == <<1, 2>>

\* Both rollups outlive the raw rows, the coarse one longer, as configured by default.
LongerThanRaw == <<9, 12>>
=============================================================================
