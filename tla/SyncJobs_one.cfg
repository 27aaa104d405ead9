\* One job: every page structure, failure and crash point, to its end.
CONSTANTS
  Jobs = {j1}
  Slots = {s1, s2}
  Notes = {n1, n2}
  Comments = {k1}
  Cursors = {c1, c2}
  Account = account
  Absent = absent
  Done = done
  Nobody = nobody
  NoteOf <- MCNoteOf
  MaxAttempts = 2
  MaxStalls = 1
  MaxCrashes = 2
  MaxFaults = 1
SPECIFICATION FairSpec
INVARIANTS TypeOK ResumePoint SucceededIsComplete RowAgreesWithQueue
PROPERTIES StageForward DoneStaysDone JobsSettle
\* Everything created may be finished: the system stops there.
CHECK_DEADLOCK FALSE
