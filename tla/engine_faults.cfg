CONSTANTS
  k1 = k1
  k2 = k2
  c1 = c1
  c2 = c2
  None = None
  Keys = {k1, k2}
  Clients = {c1, c2}
  Workload <- Contended
  FlushThreshold = 1
  QueueSize = 1
  MaxWorkers = 1
  L0Trigger = 2
  LogFaults = {"refused", "torn", "sync"}
  FlushMayFail = TRUE
  CompactionOn = TRUE
  TickPerOp = TRUE
  MaxTime = 2
  MaxOps = 3
  MaxCrashes = 1
SPECIFICATION Spec
INVARIANTS TornDamageBounded
PROPERTIES RecoveryKeepsAcked
