SPECIFICATION FairSpec
CONSTANTS
  j1 = j1
  j2 = j2
  j3 = j3
  c1 = c1
  c2 = c2
  gone = gone
  Jobs = {j1, j2, j3}
  Producers = {p1, p2}
  Workers = {w1, w2}
  Connectors = {c1, c2, gone}
  Registered = {c1, c2}
  TargetsOf <- MCTargets
  Capacity = 2
  MayFail = {c1}
  CtxBlind = {c2}
  None = None
INVARIANTS DispatcherInv OnePlace Accounting CloseProcessesEarly
PROPERTY EventuallyProcessed
