SPECIFICATION Spec
CONSTANTS
  EMULATE_STEPS = 2
  MAX_EMULATE = 3
  COVERAGE_STEPS = 1
  COVERAGE_DISABLE = TRUE
  Snapshot = FALSE
  Exits <- NoExits
  Faults <- AllFaults
  Inhibits = FALSE
  MaxTicks = 1
INVARIANTS NoPanic
