\* Every observation ends in a report, or is known to be missed: values that return, two report
\* slots, a crash that uses up the stalls, a failing call that is retried.
CONSTANTS
  daily1 = daily1
  daily2 = daily2
  weekly = weekly
  Dates = {0, 1}
  Open = {1}
  Values = {v1, v2}
  Settled = v1
  NoData = nodata
  Scopes = {daily1}
  First <- MCFirst
  Last <- MCLast
  Reported = {daily1}
  OnlyAwaiting = FALSE
  MayRevert = TRUE
  Dispatchers = {p1}
  Workers = {w1, w2}
  Nobody = nobody
  MaxAttempts = 2
  MaxStalls = 0
  MaxSaves = 3
  MaxCrashes = 1
  MaxFaults = 1
SPECIFICATION FairSpec
INVARIANTS CaughtUp
PROPERTIES ReportsCatchUp
\* Everything observed may be reported: the system stops there.
CHECK_DEADLOCK FALSE
