SPECIFICATION StoresSpec
CONSTANTS
  ip1 = ip1
  ip2 = ip2
  ip3 = ip3
  Ips <- ThreeIps
  Threshold = 3
  Window = 3
  MaxKeys = 2
  PruneInterval = 3
  Faults = {"redis_error"}
  MaxNow = 5
  Burst = 2
  Workers = {w1, w2}
  Keys = {k1, k2}
  HistoryMaxKeys = 1
  MaxEvents = 2
  StoreWindow = 2
  Slack = 1
  RuleWindow = 2
  RuleLimit = 2
  HistoryEnds = 3
  EventCap = 3
SYMMETRY StoresSymmetry
INVARIANT StoresTypeOK
INVARIANT AlarmIsRecent
INVARIANT ThrottleIsRecent
INVARIANT FewGoUnmatched
INVARIANT SeenUnlessCrowdedOut
PROPERTY EvictsTheColdest
PROPERTY EvictsTheFirstInserted
