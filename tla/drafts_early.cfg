CONSTANTS
  Drafts = {1}
  Requests = {r1}
  Crons = {c1}
  UserOps = {"create", "update"}
  MaxFiles = 0
  MaxTime = 2
  MaxCalls = 2
  MaxKills = 0
  DrainBatch = 1
SPECIFICATION Spec
PROPERTIES
  NeverEarly
CHECK_DEADLOCK FALSE
