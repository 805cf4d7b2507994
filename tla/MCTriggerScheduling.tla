--------------------------- MODULE MCTriggerScheduling ---------------------------
(* Every key the handler tells apart. *)
EXTENDS TriggerScheduling
=============================================================================
