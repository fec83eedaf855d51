CONSTANTS
  Writers = {u1, u2}
  Admins = {u1}
  MaxPins = 1
  MaxMessages = 2
  MaxFiles = 1
  MaxTurns = 4
  Pages = {p1, p2}
  Browsers = {w1, w2}
  None = None
  MaxDevices = 2
  MaxKeys = 5
  MaxEvents = 4
SYMMETRY Symmetric
SPECIFICATION AllSpec
INVARIANTS
  StoreInv
  VaultInv
  IdentityKept
CHECK_DEADLOCK FALSE
