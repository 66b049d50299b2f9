SPECIFICATION FairSpec
CONSTANTS
  Batches = {b1, b2}
  Writers = {w1}
  SegMax = 1
  TotalMax = 1
  MaxTime = 0
  MaxSeq = 3
  RestartGap = 1
  Faults = {}
  LockedFiles = TRUE
  None = None
PROPERTIES EventuallyDrained WriteComesBack
