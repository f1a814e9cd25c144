SPECIFICATION FairSpec
CONSTANTS
  Workers = {w1}
  RuleIds = {r1, r2}
  CfIds = {c1, c2}
  Emails = {e1, e2}
  Dests = {d1}
  None = None
  Faults = {}
INVARIANTS RemoteMatchesRows
PROPERTIES DeleteTakesEffect
CHECK_DEADLOCK FALSE
