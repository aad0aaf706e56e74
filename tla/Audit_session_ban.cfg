SPECIFICATION Spec
CONSTANTS
  w1 = w1
  w2 = w2
  c1 = c1
  Workers <- MCWorkers
  Clients = {c1}
  Allowlisted = FALSE
  Settings <- MCSettings
  Emitters <- MCWorkers
  Sentinel = Sentinel
  Nothing = Nothing
  CloseCap = 2
  PutCap = 3
  LockMayFail = TRUE
INVARIANT BannedSessionIsDenied
CHECK_DEADLOCK FALSE
