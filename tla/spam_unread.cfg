CONSTANTS
  Owner = {a1, op}
  OperatorAccount = op
  Box = {b1}
  Client = {c1}
  Nobody = Nobody
  Roles <- NoOrg
  MaxKeys = 2
  MaxCodes = 0
  MaxKilled = 0
  Recipients = 1
  Reply = {220, 250}
  MaxHangups = 0
  Report = {r1}
  Receiver = {w1}
  MaxRecords = 1
  MaxMails = 1
  MaxFailures = 0
  Thresholds <- DefaultThresholds
  MaxAttachments = 1
SPECIFICATION Spec
INVARIANT SpamIsNotUnread
CHECK_DEADLOCK FALSE
