CONSTANTS
  Workers = {w1, w2}
  UserOps = {"receive", "batch"}
  MaxMessages = 2
  MaxParts = 0
  MaxCalls = 3
  MaxMixed = 3
  MaxFaults = 0
  Quota = 9
SPECIFICATION Spec
SYMMETRY Symmetry
PROPERTIES
  OnlyNamedIsDeleted
CHECK_DEADLOCK FALSE
