SPECIFICATION ApartSpec
CONSTANTS
  Workers = {w1, w2}
  RuleIds = {r1, r2}
  CfIds = {c1, c2, c3}
  Emails = {e1, e2}
  Dests = {d1}
  None = None
  Faults = {"refused", "lost", "crash"}
SYMMETRY Symmetry
INVARIANTS TypeOK RowsNameTheirOwnRemote SourceBoundOnce DeletedRuleForwardsNothing
PROPERTIES OnlyItsOwnRequestsRemove CreatedOnlyWhenVerified ContractSpec
CHECK_DEADLOCK FALSE
