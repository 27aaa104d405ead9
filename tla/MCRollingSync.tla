---------------------------- MODULE MCRollingSync ----------------------------
(* Small instances of RollingSync: two accounts, a month of two days. *)
EXTENDS RollingSync

MCNever == -1
=============================================================================
