SPECIFICATION Spec
CONSTANTS
  c1 = c1
  c2 = c2
  Clients = {c1, c2}
  Sizes = {1, 2}
  First = 1
  Types = {"pixmap", "shm"}
  Uses <- Each
  Rare = {}
  MaxPixmaps = 4
  MaxHeld = 2
SYMMETRY Symmetry
INVARIANTS PixmapsCounted GrantKept ExtraTold
