----------------------------- MODULE MCPassiveBus ---------------------------
(***************************************************************************)
(* PassiveBus for TLC.                                                     *)
(***************************************************************************)
EXTENDS PassiveBus, TLC

CONSTANTS power, energy

\* Distinct, as the observed blocks' 6, 90, 10 and 40 registers are.
Registers == power :> 1 @@ energy :> 2
=============================================================================
