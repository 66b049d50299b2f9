SPECIFICATION Spec
CONSTANTS
  Batches = {b1, b2, b3}
  Writers = {w1, w2}
  SegMax = 1
  TotalMax = 2
  MaxTime = 0
  MaxSeq = 3
  RestartGap = 1
  Faults = {"sync", "count"}
  LockedFiles = TRUE
  None = None
SYMMETRY Symmetric
INVARIANT NoSilentLoss
PROPERTIES ImplementsLog NoSecondHandover
