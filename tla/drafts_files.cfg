CONSTANTS
  Drafts = {1}
  Requests = {r1}
  Crons = {c1}
  UserOps = {"create", "update", "send"}
  MaxFiles = 1
  MaxTime = 1
  MaxCalls = 3
  MaxKills = 0
  DrainBatch = 1
SPECIFICATION Spec
INVARIANTS
  MailCarriesFiles
CHECK_DEADLOCK FALSE
