SPECIFICATION Spec
CONSTANTS
  Workers = {w1}
  RowIds = {1, 2}
  CfIds = {c1, c2}
  Emails = {e1}
  None = None
  Faults = {}
SYMMETRY Symmetry
INVARIANTS AddFindsAtMostOne
CHECK_DEADLOCK FALSE
