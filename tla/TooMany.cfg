SPECIFICATION Spec
CONSTANTS
  Cards = {c1, c2}
  NoCard = NoCard
  Users = {u1}
  MAX_PCI_DEVICES = 1
  MaxCalls = 3
  MaxFaults = 0
INVARIANTS SlotInArray
SYMMETRY Symmetric
CHECK_DEADLOCK FALSE
