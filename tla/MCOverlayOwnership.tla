-------------------------- MODULE MCOverlayOwnership --------------------------
(* Instances of OverlayOwnership: two popup footprints that differ in every *)
(* cell, interchangeable.                                                   *)
EXTENDS OverlayOwnership, TLC

CONSTANTS s1, s2

TwoShapes == {s1, s2}
Symmetry  == Permutations(TwoShapes)
=============================================================================
