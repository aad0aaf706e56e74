SPECIFICATION FairSpec
CONSTANTS
  w1 = w1
  w2 = w2
  c1 = c1
  Workers <- MCWorkers
  Clients = {c1}
  Allowlisted = TRUE
  Settings <- MCSettings
  Emitters <- MCWorkers
  Sentinel = Sentinel
  Nothing = Nothing
  CloseCap = 2
  PutCap = 3
  LockMayFail = TRUE
INVARIANT TypeOK
INVARIANT OneRequestOneId
INVARIANT ResponsesAreReported
INVARIANT BannedSessionIsDenied
INVARIANT WrittenInOrder
INVARIANT CloseFlushes
PROPERTY PutIsWritten
PROPERTY EveryRequestEnds
CHECK_DEADLOCK FALSE
