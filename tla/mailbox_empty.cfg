CONSTANTS
  Workers = {w1, w2}
  UserOps = {"receive", "batch"}
  MaxMessages = 2
  MaxParts = 0
  MaxCalls = 4
  MaxMixed = 4
  MaxFaults = 0
  Quota = 9
SPECIFICATION Spec
SYMMETRY Symmetry
INVARIANTS
  NoThreadLeftEmpty
CHECK_DEADLOCK FALSE
