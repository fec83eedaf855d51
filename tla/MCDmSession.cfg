CONSTANTS
  Users = {alice, bob}
  Rereads = FALSE
  NoSession = NoSession
  MaxSkip = 1
  MaxMessages = 5
  MaxKeys = 9
  MaxResets = 1
  Theirs = {r}
  Mine = {o}
  MaxTexts = 2
  MaxLoads = 1
  MaxFailures = 1
SPECIFICATION AllSpec
INVARIANTS
  DmInv
  UnopenedReadable
  FanoutInv
CHECK_DEADLOCK FALSE
