CONSTANTS
  Drafts = {1}
  Requests = {r1}
  Crons = {c1}
  UserOps = {"create"}
  MaxFiles = 1
  MaxTime = 1
  MaxCalls = 1
  MaxKills = 0
  DrainBatch = 1
SPECIFICATION Spec
INVARIANTS
  FailedWasNotSent
CHECK_DEADLOCK FALSE
