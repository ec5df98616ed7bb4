CONSTANTS
  Caller = {p1, p2}
  Rec = {mx, spf}
  Replaceable = {spf}
  Own = {o1}
  Custom = {c1}
  InboxLimit = 2
  MaxCalls = 3
  MaxFaults = 1
  MaxRules = 2
  MaxSetups = 1
SPECIFICATION Spec
SYMMETRY Symmetry
INVARIANTS
  LeftoversNeedFault
  StrandedNeedsOverlap
  UnreachableNeedsFault
PROPERTIES
  SetupReconciles
CHECK_DEADLOCK FALSE
