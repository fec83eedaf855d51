CONSTANTS
  Tabs = {t1, t2}
  Nobody = Nobody
  Attempts = 2
  MaxTokens = 2
  MaxLate = 1
SPECIFICATION FairSpec
INVARIANT
  SessionInv
PROPERTIES
  NotSignedOutNeedlessly
  RefreshEnds
CHECK_DEADLOCK FALSE
