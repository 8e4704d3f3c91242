----------------------------- MODULE MCSensors -----------------------------
(* Sensors for TLC: the instance is given by the .cfg files. *)
EXTENDS Sensors
=============================================================================
