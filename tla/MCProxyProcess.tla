------------------------------ MODULE MCProxyProcess ------------------------------
(* Eleven pids: a wrapper that fails again and again after one that starts. *)
EXTENDS ProxyProcess
=============================================================================
