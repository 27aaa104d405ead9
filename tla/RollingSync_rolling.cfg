\* The last day of a month and the first of the next, accounts that come and go.
CONSTANTS
  Accounts = {1, 2}
  LastDay = 2
  Firsts = {0, 2}
  PageSize = 1
  None = none
  Never <- MCNever
  MaxAttempts = 2
  MaxTicks = 2
  MaxChanges = 1
  MaxFaults = 1
SPECIFICATION Spec
INVARIANTS TickCovers NeverRejected MonthRechecked
\* The bounds on days and ticks end every behaviour.
CHECK_DEADLOCK FALSE
