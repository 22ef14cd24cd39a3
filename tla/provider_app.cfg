SPECIFICATION Spec
CONSTANTS
  i1 = i1
  i2 = i2
  a1 = a1
  a2 = a2
  Items = {i1, i2}
  Addrs = {a1, a2}
  NoAddr = NoAddr
  Uses <- Each
  MaxPaths = 3
SYMMETRY Symmetry
INVARIANTS RunStateTold LinksAreHeld OwnerServed
