SPECIFICATION RetrySpec
CONSTANTS
  Owner = owner
  Linked = {c1, c2}
  Artifacts <- ExeAndDll
  Overlap = FALSE
  MaxCrashes = 2
  MaxFaults = 1
  MaxForeign = 1
  NoCase = NoCase
  NoDoc = NoDoc
INVARIANTS
  ReferenceKnown
  RestoredIsFree
  RestoreGapReported
  DeathsLeakNothing
PROPERTIES
  ImplementsSharedArtifact
  RetrySucceeds
