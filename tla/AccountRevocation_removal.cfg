SPECIFICATION Spec
CONSTANTS
  Requests = {r1, r2, r3}
  Operations = {o1, o2}
  Secrets = {k1, k2}
  First = k1
  None = none
SYMMETRY Symmetry
INVARIANTS NothingKeptIsDeleted
PROPERTIES DeletesItsOwn
CHECK_DEADLOCK FALSE
