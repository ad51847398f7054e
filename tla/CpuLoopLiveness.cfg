SPECIFICATION FairSpec
CONSTANTS
  EMULATE_STEPS = 2
  MAX_EMULATE = 3
  COVERAGE_STEPS = 1
  COVERAGE_DISABLE = TRUE
  Snapshot = FALSE
  Exits <- MixedExits
  Faults <- AllFaults
  Inhibits = FALSE
  MaxTicks = 1
PROPERTIES DevicesKeepTicking InterruptDelivered CanceledDelivers
