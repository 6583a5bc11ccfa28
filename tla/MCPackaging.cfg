CONSTANTS
  HeaderWords = 7
  CaveAt = 5
  MaxGrowth = 1
  MaxRuns = 2
  Variants <- MCVariants
SPECIFICATION Spec
INVARIANTS PatchesStick DeploymentSound
PROPERTIES RerunStable
CHECK_DEADLOCK FALSE
