SPECIFICATION Spec
CONSTANTS
  Syncers = {s1, s2}
  MaxZone = 3
  PageSize = 1
  Copies = 2
  Faults = {"refused", "crash"}
  ChangeBound = 2
SYMMETRY Symmetry
INVARIANTS TypeOK OneRowPerZone UnavailableWasMissing
PROPERTIES WritesWhatIsThere
CHECK_DEADLOCK FALSE
