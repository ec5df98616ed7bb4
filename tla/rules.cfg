CONSTANTS
  Owner = {a1, op}
  OperatorAccount = op
  Box = {b1}
  Client = {c1, c2}
  Nobody = Nobody
  Roles <- OrgOfOperator
  MaxKeys = 3
  MaxCodes = 1
  MaxKilled = 1
  Recipients = 2
  Reply = {0, 220, 221, 235, 250, 334, 354, 450, 550}
  MaxHangups = 1
  Report = {r1, r2}
  Receiver = {w1, w2}
  MaxRecords = 2
  MaxMails = 2
  MaxFailures = 1
  Thresholds <- DefaultThresholds
  MaxAttachments = 2
SPECIFICATION Spec
SYMMETRY Symmetry
INVARIANTS
  SurvivorNeedsOverlap
  CredentialsStayInTls
  FailedMailNeedsHangup
  CountedOnce
PROPERTIES
  AttachmentsOnlyAdd
CHECK_DEADLOCK FALSE
