CONSTANTS
  Caller = {p1, p2}
  Rec = {mx, spf}
  Replaceable = {spf}
  Own = {o1}
  Custom = {c1}
  InboxLimit = 2
  MaxCalls = 1
  MaxFaults = 0
  MaxRules = 2
  MaxSetups = 1
SPECIFICATION Spec
SYMMETRY Symmetry
INVARIANT RowNamesRuleOfItsZone
CHECK_DEADLOCK FALSE
