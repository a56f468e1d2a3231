SPECIFICATION ShutdownFairSpec
CONSTANTS
  Entries = {e1, e2, e3}
  BufferSize = 1
  Closers = {main}
  main = main
CHECK_DEADLOCK FALSE
INVARIANTS
  DrainedBeforeClose
  CountersAddUp
  StoreOutlivesWriter
  GracefulLosesNothing
PROPERTIES
  LogReturns
  ShutdownEnds
