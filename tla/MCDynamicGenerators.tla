------------------------- MODULE MCDynamicGenerators -------------------------
(* Instances of DynamicGenerators: one completion site beside the empty    *)
(* command line, with one word or two interchangeable ones.                *)
EXTENDS DynamicGenerators, TLC

CONSTANTS site, v, w

OneSite  == {site}
OneWord  == {w}
TwoWords == {v, w}
Symmetry == Permutations(TwoWords)
=============================================================================
