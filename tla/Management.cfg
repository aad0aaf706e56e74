SPECIFICATION Spec
CONSTANTS
  s1 = s1
  s2 = s2
  o1 = o1
  o2 = o2
  Scopes = {s1, s2}
  Operators = {o1, o2}
  Batches <- MCBatches
  Ttl = 1
  CacheTtl = 2
  Forever = Forever
  Faults = {"store_error"}
  Listed = {s1}
  CallCap = 3
SYMMETRY Symmetry
INVARIANT TypeOK
INVARIANT TrailHasTheLastWord
INVARIANT RevokedOncePerBlock
INVARIANT PageShowsWhatIsEnforced
PROPERTY KeepsTheLedger
CHECK_DEADLOCK FALSE
