SPECIFICATION Spec
CONSTANTS
  EMULATE_STEPS = 2
  MAX_EMULATE = 3
  COVERAGE_STEPS = 2
  COVERAGE_DISABLE = FALSE
  Snapshot = TRUE
  Exits <- MixedExits
  Faults <- CpuFaults
  Inhibits = TRUE
  MaxTicks = 2
INVARIANTS TypeOK NoPanic FreshRegisters
