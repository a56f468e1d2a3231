SPECIFICATION MCSpec
CONSTANTS
  Parts = {"token", "catalog", "copy"}
  Requests = {r1, r2}
  Accounts = {a}
  Lifetimes = {1, 3}
  Buffer = 1
  Interval = 1
  SlowDown = 1
  ExpiresIn = 1
  MaxClock = 3
  Torn = Torn
  None = None
  UnsafeBases = {".."}
  MaxPages = 2
  Workers = {w1, w2}
  importBatchSize = 1
  MaxImports = 2
  MaxErrors = 1
  Instances <- MCInstances
CHECK_DEADLOCK FALSE
INVARIANTS
  ChainsMatchReference
  DiscoveryKeepsConfig
  
  
PROPERTIES
  OneExchangePerLifetime
  WaitersServed
