CONSTANTS
  k1 = k1
  k2 = k2
  c1 = c1
  c2 = c2
  None = None
  Keys = {k1, k2}
  Clients = {c1, c2}
  Workload <- TwoKeys
  FlushThreshold = 1
  QueueSize = 1
  MaxWorkers = 1
  L0Trigger = 2
  LogFaults = {}
  FlushMayFail = TRUE
  CompactionOn = FALSE
  TickPerOp = TRUE
  MaxTime = 1
  MaxOps = 3
  MaxCrashes = 0
SPECIFICATION Spec
INVARIANTS NothingForgotten
