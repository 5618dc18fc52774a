SPECIFICATION Spec
CONSTANTS
  Cards = {c1, c2}
  NoCard = NoCard
  Users = {u1, u2}
  MAX_PCI_DEVICES = 1
  MaxCalls = 5
  MaxFaults = 1
INVARIANTS RegistersMapped BuffersAlive CleanUnload OneUser
SYMMETRY Symmetric
CHECK_DEADLOCK FALSE
