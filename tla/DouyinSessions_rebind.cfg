\* The status of a session whose account has been imported.
CONSTANTS
  s1 = s1
  s2 = s2
  anna = anna
  bela = bela
  Sessions = {s1}
  Accounts = {anna}
  MaxRequests = 2
  MaxRuns = 1
  MaxFaults = 0
SPECIFICATION Spec
INVARIANTS BindingSucceeds
\* The bounds on requests, runs and faults end every behaviour.
CHECK_DEADLOCK FALSE
