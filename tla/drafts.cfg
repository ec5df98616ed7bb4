CONSTANTS
  Drafts = {1}
  Requests = {r1, r2}
  Crons = {c1, c2}
  UserOps = {"create", "update", "delete", "send"}
  MaxFiles = 1
  MaxTime = 1
  MaxCalls = 3
  MaxKills = 1
  DrainBatch = 1
SPECIFICATION Spec
SYMMETRY Symmetry
INVARIANTS
  TypeOK
  OneMailPerOpening
  DrainOnlySendsScheduled
  SendingIsHeld
  SentIsStored
  ClaimInvariant
PROPERTIES
  DeliverySpec
CHECK_DEADLOCK FALSE
