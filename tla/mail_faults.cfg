SPECIFICATION Spec
CONSTANTS
  Workers = {w1, w2}
  Keys = {k1}
  Messages = {m1}
  Letters = {l1}
  MaxTries = 2
  None = None
  Faults = {"refused", "lost", "crash"}
SYMMETRY Symmetry
INVARIANTS TypeOK TwiceOnlyInDoubt  TakenLettersAreStored
PROPERTY KeyOffStaysOff
CHECK_DEADLOCK FALSE
