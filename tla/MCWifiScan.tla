----------------------------- MODULE MCWifiScan -----------------------------
(* WifiScan for TLC: the instance is given by the .cfg file. *)
EXTENDS WifiScan
=============================================================================
