SPECIFICATION Spec
CONSTANTS
  ip1 = ip1
  ip2 = ip2
  ip3 = ip3
  Ips <- OneIp
  Threshold = 2
  Window = 2
  MaxKeys = 2
  PruneInterval = 3
  Faults = {}
  MaxNow = 5
  Burst = 1
INVARIANT NeverStale
