SPECIFICATION Spec
CONSTANTS
  b1 = b1
  b2 = b2
  c1 = c1
  c2 = c2
  Bufs = {b1, b2}
  Canvases = {c1, c2}
  None = None
  Kinds = {"pixmap", "file"}
  Skip = 2
  Extras = 1
  Uses <- Each
  Rare = {}
  MaxHeld = 2
  MaxTime = 2
SYMMETRY Symmetry
INVARIANTS  PressBalanced 
