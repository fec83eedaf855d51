CONSTANTS
  Source = src
  Targets = {t1, t2}
  None = None
  Records = 2
  MaxSessions = 1
  MaxScans = 2
  Fragile = {src}
SPECIFICATION Spec
INVARIANT NothingImportedUnverified
CHECK_DEADLOCK FALSE
