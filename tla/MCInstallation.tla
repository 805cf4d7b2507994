------------------------------ MODULE MCInstallation ------------------------------
(* A spec that changes with every release and one that does not. *)
EXTENDS Installation

TwoFiles == <<"git", "ls">>
OneScript == <<"ghost-complete.zsh">>
Bodies == [git |-> <<"git 1", "git 2", "git 3">>, ls |-> <<"ls 1", "ls 1", "ls 1">>]
=============================================================================
