SPECIFICATION FairSpec
CONSTANTS
  Bundles = {a, b}
  NoBundle = NoBundle
  MaxBoots = 2
INVARIANTS
  OneMachineOnMain
  TornDownStopped
  ActiveIsRunning
  ForceStopHonest
  NoDeadScreen
PROPERTIES
  BootSettles
  ForceStopAnswered
