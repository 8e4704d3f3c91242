-------------------------- MODULE MCPostHandlers --------------------------
(* PostHandlers for TLC: request tags are interchangeable model values. *)
EXTENDS PostHandlers, TLC
CONSTANTS p1, p2, p3
MCPosts == {p1, p2, p3}
MCSymmetry == Permutations(Posts)
=============================================================================
