CONSTANTS
  Mail = {m1, m2}
  Client = {c1}
  Timeout = 2
  WaitBatch = 1
  MaxTime = 4
  MaxAsks = 3
  MaxBreaks = 1
  Hook = {w1, w2}
  Report = {r1}
  Editor = {e1, e2}
  MaxHooks = 2
  MaxRetries = 1
  MaxEdits = 2
  Address = {x1}
  Sender = {s1, s2}
  Reporter = {b1}
  SendQuota = 1
  MaxMonth = 2
  MaxSends = 3
  MaxReports = 2
  MaxLost = 1
  Letter = {l1, l2}
  Label = {red, blue}
  Tagger = {t1, t2}
  MaxLabels = 1
  MaxChanges = 2
SPECIFICATION Spec
INVARIANTS
  BlocksUntilDeadline
CHECK_DEADLOCK FALSE
