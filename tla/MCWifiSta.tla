----------------------------- MODULE MCWifiSta -----------------------------
(* WifiSta for TLC: the instance is given by the .cfg files. *)
EXTENDS WifiSta
=============================================================================
