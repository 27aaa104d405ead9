\* Two session requests and two clicks at a time, one fault, two runs.
CONSTANTS
  anna = anna
  bela = bela
  Accounts = {anna, bela}
  NoteCount = 2
  MaxBrowsers = 2
  MaxRequests = 3
  MaxRuns = 2
  MaxPolls = 2
  MaxFaults = 1
SPECIFICATION Spec
PROPERTIES ImportsSettle
INVARIANTS SessionHonest WholeRunStored RightAccount 
\* The bounds on requests, runs and faults end every behaviour.
CHECK_DEADLOCK FALSE
