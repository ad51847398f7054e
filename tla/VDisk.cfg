SPECIFICATION Spec
CONSTANTS
  Sectors = 3
  Data = {a, b}
  None = None
  LbaSpan = 4
  Chs <- ChsNumbers
  ChsSpan = 8
  MaxCount = 2
INVARIANTS TypeOK NoPanic
PROPERTIES ImplementsDisk
