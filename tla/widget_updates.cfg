SPECIFICATION FairSpec
CONSTANTS
  w1 = w1
  w2 = w2
  Widgets = {w1, w2}
  Addrs = {a1}
  NoAddr = NoAddr
  Packagings <- Kinds
  Uses <- Each
  MaxCount = 2
  MaxPaths = 2
  Rare = {}
INVARIANTS  UpdateIsWatched ResumedRuns 
PROPERTIES UpdateServed
CHECK_DEADLOCK FALSE
