CONSTANTS
  Drafts = {1}
  Requests = {r1}
  Crons = {c1}
  UserOps = {"create", "delete"}
  MaxFiles = 0
  MaxTime = 1
  MaxCalls = 2
  MaxKills = 0
  DrainBatch = 1
SPECIFICATION Spec
PROPERTIES
  SendingIsNotDeleted
CHECK_DEADLOCK FALSE
