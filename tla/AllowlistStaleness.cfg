SPECIFICATION CheckerSpec
CONSTANTS
  small = small
  large = large
  Callers = {c1, c2}
  Keys = {k1}
  Models <- MCModels
  Allowlists <- MCAllowlists
  TTL = 2
  SweepEvery = 3
  StaleAfter = 2
  MaxClock = 4
SYMMETRY CallerSymmetry
CHECK_DEADLOCK FALSE
INVARIANTS
  BoundedStaleness
