CONSTANTS
  Drafts = {1, 2}
  Requests = {r1}
  Crons = {c1}
  UserOps = {"create", "update", "send"}
  MaxFiles = 0
  MaxTime = 2
  MaxCalls = 3
  MaxKills = 0
  DrainBatch = 1
SPECIFICATION FairSpec
PROPERTIES
  DueIsTaken
  ClaimIsResolved
CHECK_DEADLOCK FALSE
