CONSTANTS
  Source = src
  Targets = {t1, t2}
  None = None
  Records = 1
  MaxSessions = 1
  MaxScans = 2
  Fragile = {src}
  Users = {u1, u2}
  Nobody = Nobody
  Jobs = {j1, j2}
  MaxEndpoints = 2
  Tabs = {p1, p2}
  Rooms = {r1, r2}
  Throttle = 1
  StopAfter = 2
  ClearAfter = 3
  Limit = 2
  Ttl = 3
  MaxWire = 2
SPECIFICATION AllSpec
INVARIANTS
  SyncInv
  
  PushInv
  TypingInv
SYMMETRY Symmetric
CHECK_DEADLOCK FALSE
