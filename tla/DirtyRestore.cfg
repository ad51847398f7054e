SPECIFICATION Spec
CONSTANTS
  Pages = 12
  BitmapPages = 16
  QwordPages = 2
  L1Pages = 4
  Legacy <- LegacyPages
  Regions <- PcRegions
  CpuWrites <- CpuPages
  CpuTouches <- TouchPages
  DmaWrites <- DmaPages
  VmWrites <- VmPages
INVARIANTS TypeOK LevelsAgree
PROPERTIES OnlyEscapesSurvive
