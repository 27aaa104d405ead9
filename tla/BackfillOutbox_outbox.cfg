\* Overlapping dispatchers and two report slots, lapsed leases, a crash, two faults.
CONSTANTS
  daily1 = daily1
  daily2 = daily2
  weekly = weekly
  Dates = {0, 1}
  Open = {1}
  Values = {v1, v2}
  Settled = v1
  NoData = nodata
  Scopes = {daily1}
  First <- MCFirst
  Last <- MCLast
  Reported = {}
  OnlyAwaiting = FALSE
  MayRevert = FALSE
  Dispatchers = {p1, p2}
  Workers = {w1, w2}
  Nobody = nobody
  MaxAttempts = 1
  MaxStalls = 1
  MaxSaves = 1
  MaxCrashes = 1
  MaxFaults = 2
SPECIFICATION Spec
SYMMETRY Symmetry
INVARIANTS TypeOK VersionsInOrder
PROPERTIES DispatchedIsFinal ImplementsOutbox
\* Everything observed may be reported: the system stops there.
CHECK_DEADLOCK FALSE
