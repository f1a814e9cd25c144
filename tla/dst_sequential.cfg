SPECIFICATION FairSpec
CONSTANTS
  Workers = {w1}
  RowIds = {1, 2}
  CfIds = {c1, c2}
  Emails = {e1, e2}
  None = None
  Faults = {"refused", "lost", "crash"}
INVARIANTS TypeOK RowsNameTheirOwnAddress VerifiedByItsOwner 
PROPERTIES VerifiedShowsUp
CHECK_DEADLOCK FALSE
