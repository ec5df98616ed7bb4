CONSTANTS
  Workers = {w1, w2}
  UserOps = {"receive", "send", "reply", "delete", "batch", "drop"}
  MaxMessages = 3
  MaxParts = 1
  MaxCalls = 5
  MaxMixed = 3
  MaxFaults = 1
  Quota = 9
SPECIFICATION Spec
SYMMETRY Symmetry
INVARIANTS
  RowsHaveObjects
  CountsAddUp
  OneAtATimeIsConsistent
CHECK_DEADLOCK FALSE
