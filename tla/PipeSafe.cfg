SPECIFICATION PipelineFairSpec
CONSTANTS
  Sources = {b1, b2}
  Groups <- BothGroups
  Workers = {w1}
  Capacity = 1
  IngestCap = 1
  WalMayFail = TRUE
  MayFail = {}
  CtxBlind = {c1}
  Jobs <- MCJobs
  Producers <- MCProducers
  TargetsOf <- MCTargets
  Connectors = {c1, c2}
  Registered = {c1, c2}
  native = native
  ocsf = ocsf
  c1 = c1
  c2 = c2
  None = None
INVARIANTS PipelineInv NoLossBeforeClose FlushedMeansEmpty
PROPERTIES StopComesBack EventuallyAttempted
