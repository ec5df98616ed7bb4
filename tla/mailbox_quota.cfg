CONSTANTS
  Workers = {w1}
  UserOps = {"receive"}
  MaxMessages = 1
  MaxParts = 1
  MaxCalls = 1
  MaxMixed = 1
  MaxFaults = 0
  Quota = 1
SPECIFICATION Spec
PROPERTIES
  ReceiveKeepsQuota
CHECK_DEADLOCK FALSE
