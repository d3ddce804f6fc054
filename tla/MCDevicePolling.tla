--------------------------- MODULE MCDevicePolling --------------------------
(***************************************************************************)
(* DevicePolling for TLC.                                                  *)
(***************************************************************************)
EXTENDS DevicePolling, TLC

CONSTANTS device_header, machine_identity, inverter_power, storage_mode, meter_state,
          inverter_status

IdentityOrder == <<device_header, machine_identity>>
PollOrder     == <<inverter_power, storage_mode, meter_state, inverter_status>>

\* The functions and counts of asw.py: inverter_power and inverter_status are read alike.
Shapes == device_header :> <<4, 2>> @@ machine_identity :> <<4, 32>>
          @@ inverter_power :> <<4, 9>> @@ storage_mode :> <<3, 4>>
          @@ meter_state :> <<3, 8>> @@ inverter_status :> <<4, 9>>

Intervals == inverter_power :> 1 @@ storage_mode :> 5 @@ meter_state :> 2
             @@ inverter_status :> 5
=============================================================================
