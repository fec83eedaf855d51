CONSTANTS
  a1 = a1
  a2 = a2
  b1 = b1
  alice = alice
  bob = bob
  Tabs = {a1, a2, b1}
  Users = {alice, bob}
  Owner <- OwnerOf
  Connected = {a1, b1}
  MaxOps = 3
  MaxConvs = 2
  Chats = {p, n, g, s}
  Peers = {p, n}
  Groups = {g}
  NoV2 = {n}
  Nobody = Nobody
  MaxFiles = 2
  MaxTouches = 3
SPECIFICATION AllSpec
INVARIANTS
  DirectoryInv
  MediaInv
PROPERTY OwnerStays
CHECK_DEADLOCK FALSE
