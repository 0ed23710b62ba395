---------------------------- MODULE DeviceUpdateMC ----------------------------
(* Values for DeviceUpdate: an accuracy that rises and falls with the steps. *)
EXTENDS DeviceUpdate

RiseAndFall == [s \in 0..MaxStep |-> IF s % 3 = 1 THEN 0 ELSE 1]
=============================================================================
