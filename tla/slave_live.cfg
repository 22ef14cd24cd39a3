SPECIFICATION FairSpec
CONSTANTS
  Insts = {i1}
  Procs = {p}
  MaxQueue = 1
  MaxSignals = 1
  RelaunchCount = 1
  MaxLoad = 1
  Secured = FALSE
  IsApp = TRUE
  LimitToTtl = FALSE
  LateHello = FALSE
  Rare = {"term", "pause", "reuse"}
INVARIANTS UsedSlaveIsAlive
PROPERTIES ProcessesSettle RequestsSettle
CHECK_DEADLOCK FALSE
