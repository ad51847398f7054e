SPECIFICATION Spec
CONSTANTS
  Pages = 2
  PageLen = 3
  LineLen = 1
  MaxTrace = 3
  PoolLen = 6
  Slots = 3
  SplitEntries = 1
  MaxStamp = 3
  MaxSwitches = 1
  AddressSpaces = {"as1", "as2"}
  EntryPoints = {0, 5}
  StackPages = {1}
  Target <- MCTarget
  Original <- MCOriginal
  Writes <- MCWrites
INVARIANTS TypeOK NoStaleCode TracesDisjoint
