\* Requests of two sessions at once, one fault.
CONSTANTS
  s1 = s1
  s2 = s2
  anna = anna
  bela = bela
  Sessions = {s1, s2}
  Accounts = {anna, bela}
  MaxRequests = 3
  MaxRuns = 1
  MaxFaults = 1
SPECIFICATION Spec
SYMMETRY Symmetry
CONSTRAINTS OneSignsIn TwoAtOnce NoOverlap
INVARIANTS TypeOK FileMatchesDisk OwnerWasBound RestoredKeepsAccount
\* The bounds on requests, runs and faults end every behaviour.
CHECK_DEADLOCK FALSE
