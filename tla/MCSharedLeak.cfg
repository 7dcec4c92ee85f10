SPECIFICATION Spec
CONSTANTS
  Owner = owner
  Linked = {c1, c2}
  Artifacts <- ExeAndDll
  Overlap = FALSE
  MaxCrashes = 0
  MaxFaults = 1
  MaxForeign = 0
  NoCase = NoCase
  NoDoc = NoDoc
INVARIANTS
  SettledHoldsNothing
