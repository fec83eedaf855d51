CONSTANTS
  a1 = a1
  b1 = b1
  alice = alice
  bob = bob
  Tabs = {a1, b1}
  Users = {alice, bob}
  Owner <- TwoTabs
  MaxCalls = 2
  Fragile = {b1}
SPECIFICATION FairSpec
INVARIANT CallInv
PROPERTY RingingEnds
CHECK_DEADLOCK FALSE
