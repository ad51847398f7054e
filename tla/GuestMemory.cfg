SPECIFICATION Spec
CONSTANTS
  Pages = 10
  E = 2
  BlockPages = 4
  Kind <- PcKind
  Touched <- BlockOrders
  Contents <- GuestTables
  Cr3 <- PlainCr3
  MaxLen = 3
INVARIANTS MapExact ReadCorrect
