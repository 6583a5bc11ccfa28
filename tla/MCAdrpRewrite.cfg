CONSTANTS
  Programs <- MCPrograms
  Regs <- MCRegs
  CallerSaved <- MCCallerSaved
  Deltas <- MCDeltas
  TextDelta = 16
  GotSlots <- MCGotSlots
  PageSize = 4
  AdrpSpan = 64
SPECIFICATION Spec
 
PROPERTIES PatchedOnce Terminates
