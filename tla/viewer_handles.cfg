SPECIFICATION Spec
CONSTANTS
  H = {h1, h2}
  NoH = NoH
  MaxCommon = 2
  Shared = TRUE
  Viewers <- Each
  Ttl = 2
  MaxFaults = 1
  MaxEvents = 1
  Rare = {}
SYMMETRY Symmetry
INVARIANTS   NoMissedUpdate
CHECK_DEADLOCK FALSE
