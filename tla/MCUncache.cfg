SPECIFICATION UncacheSpec
CONSTANTS
  PageWords = 4
  NewBase = 8
  NextLimit = 4
  OrdinalLimit = 16
  BranchReach = 32
  Targets = {102, 143, 146, 200, 201, 202, 203, 204}
  Images <- MCImages
  Sym <- MCSym
  CStr <- MCCStr
  SymbolAt <- MCSymbolAt
INVARIANTS
  
  SelectorsUniqued
  LayoutSound
  
