SPECIFICATION AllSpec
CONSTANTS
  Parts = {"expression", "statistics"}
  IntBits = 4
  AddrBits = 5
  QwordBits = 6
  LongBits = 4
  HTAB_SZ = 2
  HTAB_SHIFT = 2
  Simulators <- MCSimulators
INVARIANTS Documented StatisticsExact
CHECK_DEADLOCK FALSE
