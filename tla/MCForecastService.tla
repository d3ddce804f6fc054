-------------------------- MODULE MCForecastService -------------------------
(***************************************************************************)
(* ForecastService for TLC.                                                *)
(***************************************************************************)
EXTENDS ForecastService
=============================================================================
