SPECIFICATION FairSpec
CONSTANTS
  Names = {x, y}
  NoName = NoName
  MaxAttempts = 2
  MaxDeaths = 1
  MaxCancels = 1
INVARIANTS
  CompleteIsInstalled
  OneBundlePerName
PROPERTIES
  SheetEnds
  
CHECK_DEADLOCK FALSE
