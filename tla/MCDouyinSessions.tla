-------------------------- MODULE MCDouyinSessions --------------------------
(* Small instances of DouyinSessions: two sessions, two accounts. *)
EXTENDS DouyinSessions, TLC

CONSTANTS s1, s2, anna, bela

\* The sessions meet in the session file only: one of them opens a browser and collects.
OneSignsIn == Cardinality({s \in Sessions : s \in open \/ manager[s].payload # None \/ run[s].id > 0}) <= 1
\* Two requests at once, of the three.
TwoAtOnce == Cardinality(tasks) <= 2
\* Once two updates of the file overlapped, nothing is promised of its entries.
NoOverlap == ~overlap
Symmetry == Permutations(Sessions) \cup Permutations(Accounts)
=============================================================================
