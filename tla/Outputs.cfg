SPECIFICATION Spec
CONSTANTS
  Workers = {w1, w2}
  Inputs <- MCInputs
  Batches <- MCBatches
  MaxSends = 2
  MaxFaults = 2
SYMMETRY Symmetric
CONSTRAINT FewToRepeat
INVARIANTS AckIsTruthful FailureEndsTheBatch FaultsDoNotLinger DryRunPredicts
CHECK_DEADLOCK FALSE
