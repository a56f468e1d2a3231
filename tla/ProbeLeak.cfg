SPECIFICATION MCSpec
CONSTANTS
  p1 = p1
  p2 = p2
  p3 = p3
  Slots = {s1}
  Providers = {p1, p2, p3}
  Names = {p1, p2, p3}
  Configured = {p1, p2}
  Translating = {p1}
  Chains <- ChainsShared
  FailureThreshold = 1
  Cooldown = 1
  Callers = {c1}
  Readers = {r1}
INVARIANTS
  ProbeAlwaysHasOwner
