SPECIFICATION FairSpec
CONSTANTS
  ip1 = ip1
  ip2 = ip2
  Scopes = {ip1}
  TypeOf <- OneType
  Paths <- OnePath
  Workers = {w1, w2}
  EmbedCap = 1
  None = None
  Error = Error
  Faults = {"drop_key", "drop_warm", "redis_error", "crash", "flush"}
PROPERTIES EveryCallReturns
BanIsEnforcedInTheEnd
RevocationIsHeard
