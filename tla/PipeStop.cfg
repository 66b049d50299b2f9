SPECIFICATION PipelineSpec
CONSTANTS
  Sources = {b1, b2}
  Groups <- OneGroup
  Workers = {w1}
  Capacity = 1
  IngestCap = 1
  WalMayFail = FALSE
  MayFail = {}
  CtxBlind = {}
  Jobs <- MCJobs
  Producers <- MCProducers
  TargetsOf <- MCTargets
  Connectors = {c1, c2}
  Registered = {c1, c2}
  native = native
  ocsf = ocsf
  c1 = c1
  c2 = c2
  None = None
INVARIANT AtLeastOnce
