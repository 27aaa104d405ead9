--------------------------- MODULE MCMetricEvidence ---------------------------
(* Small instances of MetricEvidence: two keys, two capture times, two values. *)
EXTENDS MetricEvidence, TLC

CONSTANTS s1, s2, c1, c2, cli, a, b

\* One observation, two in either order, and two of one identity (a rolling window).
MCSaves == {<<[at |-> 1, val |-> a]>>, <<[at |-> 2, val |-> b]>>,
            <<[at |-> 2, val |-> a], [at |-> 1, val |-> b]>>,
            <<[at |-> 1, val |-> a], [at |-> 1, val |-> b]>>}
MCKeys == <<"views", "likes">>
OnePlatform == [w \in Writers |-> "xiaohongshu"]
TwoPlatforms == [w \in Writers |-> IF w = c2 THEN "douyin" ELSE "xiaohongshu"]

Line(kind, at, val) == [kind |-> kind, at |-> at, val |-> val]
MCFiles == {<<Line("valid", 1, a), Line("invalid", 1, a), Line("valid", 2, b)>>,
            <<Line("valid", 1, b), Line("valid", 1, a)>>,
            <<Line("valid", 1, a), Line("fatal", 1, a)>>}

\* Rows, locks, intervals and events of sync jobs and of imports have different
\* sources: behaviours of the two groups are explored one group at a time.
Still(w) == tx[w] = NoTx /\ fate[w] = "none"
OneGroup == (\A w \in Savers : Still(w)) \/ ((\A w \in Imports : Still(w)) /\ command = NoRun)
Symmetry == Permutations(Savers)
===============================================================================
