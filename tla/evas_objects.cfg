SPECIFICATION TSpec
CONSTANTS
  x1 = x1
  x2 = x2
  Objs = {o1, o2}
  Handles = {x1, x2}
  None = None
  Kinds = {"pixmap", "buffer"}
  Ways <- Feeds
  Uses <- Each
  Rare = {}
  MaxTaps = 1
INVARIANTS TouchTold HandlesCounted  
CHECK_DEADLOCK FALSE
