SPECIFICATION FairSpec
CONSTANTS
  Workers = {w1}
  RuleIds = {r1}
  CfIds = {c1, c2}
  Emails = {e1}
  Dests = {d1}
  None = None
  Faults = {"lost"}
PROPERTIES DeleteTakesEffect
CHECK_DEADLOCK FALSE
