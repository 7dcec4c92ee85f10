SPECIFICATION FairSpec
CONSTANTS
  Window = 2
  Interval = 1
  MaxTime = 4
  MaxCommands = 2
  MaxTrouble = 1
  MaxChanges = 1
  NoDoc = NoDoc
INVARIANTS
  TypeOK
  CompletedIsEarned
  VerdictIsTold
  UnfinishedCommitTold
PROPERTIES
  RestoredStays
  ObservationEnds
