SPECIFICATION Spec
CONSTANTS
  Bufs = {b1, b2, b3}
  NoBuf = NoBuf
INVARIANTS TypeOK NoCollision NoAliasing NoLeak
PROPERTY StaysReadable
