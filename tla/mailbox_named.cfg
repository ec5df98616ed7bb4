CONSTANTS
  Workers = {w1, w2}
  UserOps = {"receive", "send", "reply", "delete", "batch", "drop"}
  MaxMessages = 2
  MaxParts = 0
  MaxCalls = 5
  MaxMixed = 3
  MaxFaults = 1
  Quota = 9
SPECIFICATION Spec
SYMMETRY Symmetry
PROPERTIES
  UnnamedLossNeedsOverlap
CHECK_DEADLOCK FALSE
