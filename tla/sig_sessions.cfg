SPECIFICATION Spec
CONSTANTS
  Requests = {r1, r2}
  Limit = 1
  Window = 2
  Access = 2
  Short = 3
  Long = 4
  MaxTime = 4
SYMMETRY Symmetry
INVARIANTS TypeOK TwiceTheLimitAtMost JarMatchesSession
PROPERTY ServedInTime
CHECK_DEADLOCK FALSE
