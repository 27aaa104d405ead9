--------------------------- MODULE MCBackfillOutbox ---------------------------
(* Small instances of BackfillOutbox: the daily reports of dates 1 and 2 and *)
(* the weekly report of both; date 0 comes before them.                      *)
EXTENDS BackfillOutbox, TLC

CONSTANTS daily1, daily2, weekly

MCFirst == [s \in Scopes |-> IF s = daily2 THEN 2 ELSE 1]
MCLast  == [s \in Scopes |-> IF s = daily1 THEN 1 ELSE 2]

Symmetry == Permutations(Dispatchers) \cup Permutations(Workers)
=============================================================================
