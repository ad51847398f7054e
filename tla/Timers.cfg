CONSTANTS
  MaxTimers = 3
  NullInterval = 3
  Periods = {1, 5}
  Deltas = {1, 4}
  MaxTime = 7
  MaxOps = 2
SPECIFICATION Spec
INVARIANTS TypeOK NoneMissed
PROPERTY ImplementsTimers
