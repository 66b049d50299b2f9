SPECIFICATION FairSpec
CONSTANTS
  Outputs = 2
  Rpcs = {"r1", "r2"}
  Observations = {"o1", "o2"}
  IngestCap = 1
INVARIANTS LifecycleInv ReadyIsTruthful OnlyFanOutPanics AckedIsKept
PROPERTY StopReturns
CHECK_DEADLOCK FALSE
