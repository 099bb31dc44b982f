CONSTANTS
  r1 = r1  r2 = r2  r3 = r3  t1 = t1  t2 = t2
  Requests = {r1, r2, r3}
  Kind <- LockKinds
  Targets = {t1, t2}
  Backups = {t2}
  Down = {}
  Clientless = {t2}
  Answers = {"ok", "okVary", "badGateway", "xaccel", "refused"}
  MaxTries = 2
  MaxConns = 0
  MaxFails = 0
  Checker = FALSE
  CacheEnabled = TRUE
  CacheLock = TRUE
  LockTimeout = TRUE
  Background = TRUE
  Revalidate = TRUE
  MinUses = 0
  MaxAge = 0
  ErrorAge = 0
  StaleTime = 1
  StaleIfError = 0
  StaleIfTimeout = 0
  None = None
SPECIFICATION FairSpec
CHECK_DEADLOCK FALSE
INVARIANTS LockOwned WaitersReachable
PROPERTIES RequestsComplete
