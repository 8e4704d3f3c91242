----------------------------- MODULE MCLocation -----------------------------
(* Location for TLC: chains of fetches are model values. *)
EXTENDS Location
CONSTANTS c1, c2
MCChains == {c1, c2}
=============================================================================
