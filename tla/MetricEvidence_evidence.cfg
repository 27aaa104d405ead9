\* Two sync jobs, a collector's import and the import command of one platform.
CONSTANTS
  s1 = s1
  s2 = s2
  c1 = c1
  c2 = c2
  cli = cli
  a = a
  b = b
  Savers = {s1, s2}
  Collectors = {c1}
  Cli = cli
  PlatformOf <- OnePlatform
  Keys <- MCKeys
  Horizon = 2
  Values = {a, b}
  Versions = {v1, v2}
  Saves <- MCSaves
  Files <- MCFiles
  MaxTx = 3
  MaxFaults = 1
SPECIFICATION Spec
SYMMETRY Symmetry
CONSTRAINT OneGroup
INVARIANTS TypeOK SaversNeverCollide NoIdleRevision DefinitionsTile ImportsCaughtUp FileIsWhole
\* The bounds on transactions and faults end every behaviour.
CHECK_DEADLOCK FALSE
