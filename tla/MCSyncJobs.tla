----------------------------- MODULE MCSyncJobs -----------------------------
(* Small instances of SyncJobs: every comment belongs to one of the notes.  *)
EXTENDS SyncJobs, TLC

MCNoteOf == [k \in Comments |-> CHOOSE n \in Notes : TRUE]

Symmetry == Permutations(Jobs) \cup Permutations(Slots) \cup Permutations(Cursors) \cup Permutations(Comments)
=============================================================================
