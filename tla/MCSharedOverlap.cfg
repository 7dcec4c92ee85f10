SPECIFICATION Spec
CONSTANTS
  Owner = owner
  Linked = {c1, c2}
  Artifacts <- ExeAndDll
  Overlap = TRUE
  MaxCrashes = 0
  MaxFaults = 0
  MaxForeign = 0
  NoCase = NoCase
  NoDoc = NoDoc
INVARIANTS
  RestoredIsFree
