SPECIFICATION Spec
CONSTANTS
  Workers = {w1, w2}
  RowIds = {1}
  Tokens = {"t1", "t2"}
  CfAccounts = {"k1", "k2"}
  Prefix <- ThePrefix
  UserTokens = {"t1"}
  Granted <- TheGranted
  Revocable <- TheRevocable
  None = None
  Faults = {"odd", "unfiltered", "crash"}
  UpsetBound = 1
SYMMETRY Symmetry
INVARIANTS TypeOK   ReportOfStoredToken
CHECK_DEADLOCK FALSE
