SPECIFICATION MCSpec
CONSTANTS
  Parts = {"limiter", "keys", "budgets", "calendar", "stamps"}
  Burst = 4
  Cost = 2
  Keys = {k1, k2}
  Callers = {c1, c2}
  KeyCallers = {c1, c2}
  Slots = {c1, c2}
  IdleTTL = 6
  CleanupEvery = 2
  MaxSkew = 1
  MaxClock = 9
  GlobalBurst = 2
  GlobalCost = 1
  KeyBurst = 2
  KeyCost = 2
  TTL = 2
  SweepEvery = 3
  StaleAfter = 2
  KeyMaxClock = 3
  b1 = b1
  BudgetKeys = {b1}
  Scopes <- MCScopes
  Members <- MCMembers
  Budgets <- MCBudgets
  Limit <- MCLimit
  PeriodLength = 2
  Retention = 2
  BatchSize = 1
  BufferSize = 1
  MaxEntries = 5
  MaxEntriesOnError = 3
  MaxErrors = 1
  BudgetMaxClock = 3
  Periods = {"daily", "weekly", "monthly", "unknown"}
  FirstYear = 2027
  LastYear = 2028
  Base = 3
  Digits = 2
  MaxRows = 2
  MaxSeconds = 3
SYMMETRY LimitsSymmetry
CHECK_DEADLOCK FALSE
INVARIANTS
  WithinRate
  LimitForcedAfterTTL
  
  
PROPERTIES
  
  ResetsAsAnnounced
