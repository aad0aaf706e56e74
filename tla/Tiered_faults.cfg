SPECIFICATION Spec
CONSTANTS
  ip1 = ip1
  ip2 = ip2
  Scopes = {ip1, ip2}
  TypeOf <- SameTypes
  Paths <- SamePaths
  Workers = {w1, w2}
  EmbedCap = 1
  None = None
  Error = Error
  Faults = {"drop_key", "drop_warm", "redis_error", "pg_error", "crash"}
INVARIANTS
  TypeOK
  NoBanOverlooked
  NothingInvented
  StaleOnlyIfRecached
  IInv
  NoBanLostInARace
SYMMETRY Symmetry
