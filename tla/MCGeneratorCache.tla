---------------------------- MODULE MCGeneratorCache ----------------------------
(* Three callers and a cache that holds one of two keys. *)
EXTENDS GeneratorCache
=============================================================================
