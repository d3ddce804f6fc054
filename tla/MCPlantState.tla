----------------------------- MODULE MCPlantState ---------------------------
(***************************************************************************)
(* PlantState for TLC.                                                     *)
(***************************************************************************)
EXTENDS PlantState, TLC

CONSTANTS eastron, asw, grid, asw_power, none, load_power, self_sufficiency_ratio

\* The Eastron thread publishes the grid meter, the ASW thread its inverter's registers.
PublishedTogether == eastron :> {{grid}} @@ asw :> {{asw_power}}

\* The Eastron decoder publishes nothing for a register without a value, the ASW worker
\* publishes that it has none.
MeterReadings == grid :> {0, 1} @@ asw_power :> {0, none}

\* site.load_power always has a result, site.self_sufficiency_ratio none without a load.
NoLoad ==
    load_power :> {} @@
    self_sufficiency_ratio :> {v \in [Inputs -> {0, 1, none}] : \A i \in Inputs : v[i] = 0}
PublishBound == eastron :> 1 @@ asw :> 2
Ages == grid :> 1 @@ asw_power :> 2
=============================================================================
