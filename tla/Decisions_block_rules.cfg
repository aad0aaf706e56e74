SPECIFICATION DecisionsSpec
CONSTANTS
  w1 = w1
  ip = ip
  user = user
  brute = brute
  enum = enum
  throttle = throttle
  Scopes <- MCScopes
  TypeOf <- MCTypeOf
  Paths <- MCPaths
  Workers = {w1}
  Rules <- MCRules
  RuleOrder <- MCOrder
  Safe <- MCSafe
  Action <- MCAction
  EvalSafeOnIngress = TRUE
  SinkTypes = {"ip", "session"}
  EventCap = 1
  Faults = {"store_error"}
  Trusted <- MCTrusted
  Addresses <- MCAddresses
  Blank = "blank"
  Setups <- MCSetups
  Threshold = 2
  DefaultTtl = 300
  VisitCap = 3
  Height = 4
  MaxDepth = 3
  MaxEntries = 3
  MaxAttributes = 4
  MaxLength = 3
  SensitiveNames <- MCSensitiveNames
  AllowedNames <- MCAllowedNames
  BodyFields <- MCBodyFields
  HiddenKeys <- MCHiddenKeys
  ShownKeys <- MCShownKeys
  Sources <- MCSources
INVARIANT BlockRulesSetTheTtl
