SPECIFICATION FairSpec
CONSTANTS
  Window = 2
  Interval = 1
  MaxTime = 3
  MaxCommands = 1
  MaxTrouble = 0
  MaxChanges = 0
  NoDoc = NoDoc
PROPERTIES
  RestoredIsKept
