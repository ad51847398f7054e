SPECIFICATION Spec
CONSTANTS
  FpuRegs = 4
  Controls <- MCControls
  TagWords <- MCTagWords
  Values = {0, 1}
  MaxSteps = 3
INVARIANTS TypeOK DerivedCoherent OnlyKnownGaps
