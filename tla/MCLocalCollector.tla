-------------------------- MODULE MCLocalCollector --------------------------
(* Small instances of LocalCollector: the user has two accounts. *)
EXTENDS LocalCollector

CONSTANTS anna, bela
=============================================================================
