SPECIFICATION Spec
CONSTANTS
  Cases = {c1, c2}
  Bytes = {ad, other}
  NoCase = NoCase
  NoBytes = NoBytes
  NoFile = NoFile
  NoDoc = NoDoc
  NoRecord = NoRecord
  MaxFiles = 3
  MaxTrouble = 3
INVARIANTS
  TypeOK
  NothingLost
  QuarantinedIsTrue
  DeletionAccounted
  ScheduledIsTold
PROPERTIES
  NoDeleteOverOpenWork
  ImplementsCustody
