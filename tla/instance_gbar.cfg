SPECIFICATION Spec
CONSTANTS
  Clients = {c1, c2}
  NoClient = NoClient
  MaxOut = 2
  Rare = {}
INVARIANTS HeldExactly RequestUnderWay  ViewersAgree
