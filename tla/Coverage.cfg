CONSTANTS
  Users <- MCUsers
  Kernel <- MCKernel
  Entries <- MCEntries
  Entry <- MCEntry
  Initial <- MCInitial
  Code <- MCCode
  MaxOps = 3
SPECIFICATION CoverageSpec
INVARIANTS TypeOK OrdinalsAgree CreditedRight HangsOnlyIfTorn
