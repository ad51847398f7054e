SPECIFICATION Spec
CONSTANTS
  EMULATE_STEPS = 2
  MAX_EMULATE = 3
  COVERAGE_STEPS = 1
  COVERAGE_DISABLE = TRUE
  Snapshot = FALSE
  Exits <- HaltExits
  Faults <- CpuFaults
  Inhibits = FALSE
  MaxTicks = 1
INVARIANTS SleepHolds
