SPECIFICATION Spec
CONSTANTS
  Events = {e1}
  Endpoints = {p1, p2}
  Slots = {s1, s2}
  None = none
  MaxAttempts = 3
  MaxStalls = 1
  MaxLosses = 1
  MaxFaults = 2
  MaxCycles = 2
INVARIANTS PushOnce
PROPERTIES NotificationAppears
CHECK_DEADLOCK FALSE
