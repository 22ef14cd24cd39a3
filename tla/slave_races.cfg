SPECIFICATION Spec
CONSTANTS
  Insts = {i1, i2}
  Procs = {p, q}
  MaxQueue = 2
  MaxSignals = 0
  RelaunchCount = 1
  MaxLoad = 1
  Secured = FALSE
  IsApp = FALSE
  LimitToTtl = FALSE
  LateHello = FALSE
  Rare = {"update"}
SYMMETRY Symmetry
INVARIANTS TypeOK RefCountExact ReleasedOnce ProcessIsOwned RequestsAreSafe
CHECK_DEADLOCK FALSE
