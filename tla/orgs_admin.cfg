CONSTANTS
  a1 = a1
  a2 = a2
  Account = {a1, a2}
  Request = {p1, p2}
  Operator = op
  None = None
  Allowed = {}
  OtpTtl = 1
  OtpWindow = 1
  OtpAttempts = 1
  OtpPerHour = 1
  SessionTtl = 2
  GrantTtl = 1
  Scenarios <- OrgsOnly
  MaxSessions = 1
  MaxInvites = 1
SPECIFICATION Spec
SYMMETRY Symmetry
INVARIANTS
  OrgHasAdmin
CHECK_DEADLOCK FALSE
