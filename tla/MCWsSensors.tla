---------------------------- MODULE MCWsSensors ----------------------------
(* WsSensors for TLC: descriptors are model values. *)
EXTENDS WsSensors
CONSTANTS d1, d2, d3
MCSocks3 == {d1, d2, d3}
MCSocks2 == {d1, d2}
=============================================================================
