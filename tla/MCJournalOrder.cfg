SPECIFICATION Spec
CONSTANTS
  Writers = {agent, command}
  Ids = {o1, o2, o3, o4, o5}
  Legacy = {o1}
  MaxSeq = 3
  Nobody = Nobody
  NoOp = NoOp
INVARIANTS
  TypeOK
  JournalReadable
  UnfinishedAreReported
PROPERTIES
  SequencesGrow
