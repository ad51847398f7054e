CONSTANTS
  Top = 7
  Params <- MCParams
  UsedAt = 2
  Derived = {5}
  Blocks = 3
  OptRam = {0}
  MaxWrites = 3
SPECIFICATION Spec
INVARIANTS TypeOK SavedExactly NoSharing
PROPERTIES RestoreExact GuestRestored
