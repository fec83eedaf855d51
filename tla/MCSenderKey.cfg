CONSTANTS
  Members = {m1, m2}
  NoReceiver = NoReceiver
  MaxSkip = 1
  MaxMessages = 4
  Threads = {c1, c2}
  Words = {a, b}
  Short = Short
  NoLoad = NoLoad
  PageSize = 1
  MaxTexts = 2
  MaxLoads = 2
  a1 = a1
  b1 = b1
  b2 = b2
  alice = alice
  bob = bob
  Tabs = {a1, b1, b2}
  Users = {alice, bob}
  Owner <- ThreeTabs
  MaxCalls = 1
  Fragile = {b1}
SPECIFICATION AllSpec
INVARIANTS
  KeysDeletedAfterUse
  OutOfOrderWithinWindow
  NoKeysBeforeJoining
  SearchInv
  HangUpReachesEveryPage
PROPERTIES
  KeyMaterialOnlyShrinks
  OpensOnce
SYMMETRY Symmetric
CHECK_DEADLOCK FALSE
