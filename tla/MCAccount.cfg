CONSTANTS
  Devices = {d1, d2}
  None = None
  MaxSessions = 1
  MaxSerials = 7
  Chats = {c}
  MaxPosts = 2
  MaxClicks = 2
  Peers = {p, q}
  Texts = {ab, cd}
  Short = Short
  MaxOps = 3
SPECIFICATION AllSpec
SYMMETRY Symmetric
INVARIANTS
  AccountInv
  
  ContactsInv
PROPERTY ResetSpendsLink
CHECK_DEADLOCK FALSE
