SPECIFICATION Spec
CONSTANTS
  Batches = {b1, b2, b3}
  Writers = {w1}
  SegMax = 2
  TotalMax = 2
  MaxTime = 1
  MaxSeq = 2
  RestartGap = 1
  Faults = {}
  LockedFiles = FALSE
  None = None
SYMMETRY Symmetric
INVARIANT BufferInv
PROPERTY ImplementsLog
