SPECIFICATION Spec
CONSTANTS
  Batches = {b1, b2}
  Writers = {w1}
  SegMax = 1
  TotalMax = 1
  MaxTime = 1
  MaxSeq = 2
  RestartGap = 1
  Faults = {"open", "append", "mark", "reopen", "read"}
  LockedFiles = FALSE
  None = None
SYMMETRY Symmetric
INVARIANT DamageInv
PROPERTY FreshNames
