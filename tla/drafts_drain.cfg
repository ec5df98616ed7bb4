CONSTANTS
  Drafts = {1, 2}
  Requests = {r1}
  Crons = {c1, c2}
  UserOps = {"create", "send"}
  MaxFiles = 2
  MaxTime = 1
  MaxCalls = 3
  MaxKills = 1
  DrainBatch = 2
SPECIFICATION Spec
SYMMETRY Symmetry
INVARIANTS
  OpenDraftHasFiles
  MailCarriesFiles
CHECK_DEADLOCK FALSE
