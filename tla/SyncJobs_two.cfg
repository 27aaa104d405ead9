\* Two jobs of the account in two slots, interleaved.
CONSTANTS
  Jobs = {j1, j2}
  Slots = {s1, s2}
  Notes = {n1}
  Comments = {k1}
  Cursors = {c1}
  Account = account
  Absent = absent
  Done = done
  Nobody = nobody
  NoteOf <- MCNoteOf
  MaxAttempts = 1
  MaxStalls = 1
  MaxCrashes = 0
  MaxFaults = 0
SPECIFICATION Spec
SYMMETRY Symmetry
INVARIANTS ExclusiveRun HonestCompleteness
\* Everything created may be finished: the system stops there.
CHECK_DEADLOCK FALSE
