CONSTANTS
  Members = {alice, bob}
  Sender = alice
  Tabs = {t1}
  Slots = {s1, s2}
  NoKey = NoKey
  Clear = Clear
  MaxKeys = 2
  MaxSent = 3
  MaxResets = 1
  Calls = {c1, c2, c3}
  NoReceiver = NoReceiver
  MaxSkip = 2
  MaxMessages = 3
  Files = {f, g}
  Images = {i}
  NoUrl = NoUrl
  Lifetime = 4
  Buffer = 2
  Delay = 1
  MaxClock = 5
  MaxAsks = 2
  Take = 1
  MaxForms = 2
  MaxSubmits = 2
  MaxFetches = 2
  MaxPatches = 2
  MaxTogether = 5
SPECIFICATION GroupsSpec
INVARIANTS
  KeysInv
  UnreadStaysReadable
  UrlInv
  ReportInv
PROPERTY EntriesMoveForward
SYMMETRY Symmetric
CHECK_DEADLOCK FALSE
