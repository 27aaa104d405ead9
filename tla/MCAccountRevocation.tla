------------------------ MODULE MCAccountRevocation ------------------------
\* Requests of one account are interchangeable, and so are operation ids.
EXTENDS AccountRevocation, TLC

Symmetry == Permutations(Requests) \cup Permutations(Operations)
=============================================================================
