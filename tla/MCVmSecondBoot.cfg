SPECIFICATION BackgroundSpec
CONSTANTS
  Bundles = {a, b}
  NoBundle = NoBundle
  MaxBoots = 2
INVARIANTS
  OneMachine
