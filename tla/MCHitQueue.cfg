SPECIFICATION Spec
CONSTANTS
  Hits = {h1, h2, h3}
  Workers = {w1, w2}
  MaxSamples = 1
  NoHit = NoHit
INVARIANTS
  TypeOK
  HitsConserved
  NoSubmitAfterClose
  ReturnedIsQuiet
PROPERTIES
  EveryHitHandled
  ShutdownCompletes
  ImplementsLedger
