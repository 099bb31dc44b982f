CONSTANTS
  r1 = r1  r2 = r2  r3 = r3  t1 = t1  t2 = t2
  Requests = {r1, r2, r3}
  Kind <- FailoverKinds
  Targets = {t1, t2}
  Backups = {t2}
  Down = {}
  Clientless = {}
  Answers = {"ok", "okVary", "notFound", "badGateway", "xaccel", "timeout"}
  MaxTries = 2
  MaxConns = 1
  MaxFails = 1
  Checker = TRUE
  CacheEnabled = TRUE
  CacheLock = TRUE
  LockTimeout = FALSE
  Background = TRUE
  Revalidate = FALSE
  MinUses = 2
  MaxAge = 0
  ErrorAge = 0
  StaleTime = 1
  StaleIfError = 0
  StaleIfTimeout = 1
  None = None
SPECIFICATION Spec
SYMMETRY FailoverSymmetry
CHECK_DEADLOCK FALSE
INVARIANTS ConnectionsConserved
