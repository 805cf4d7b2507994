------------------------------- MODULE MCFrecency ------------------------------
(* Two shells that share a file. *)
EXTENDS Frecency, TLC
ShellSymmetry == Permutations(Shells)
=============================================================================
