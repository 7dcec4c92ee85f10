-------------------------- MODULE JournalOrder_proofs --------------------------
(***************************************************************************)
(* Proofs about JournalOrder, for any number of processes and operations.    *)
(* JournalReadable is not inductive: a number is given in one step and       *)
(* written in a later one, and that it is still the next one then is because  *)
(* the process holds the lock (LockInv, NumberInv).                         *)
(***************************************************************************)
EXTENDS JournalOrder, TLAPS

\* An operation belongs to one process, and its files follow where that process is.
OpsInv ==
  /\ intents \subseteq used /\ acted \subseteq intents /\ results \subseteq intents
  /\ \A w \in Writers : At(w, "idle") <=> writer[w].op = NoOp
  /\ \A w \in Writers : writer[w].op # NoOp => writer[w].op \in used
  /\ \A v, w \in Writers : v # w /\ writer[v].op # NoOp => writer[v].op # writer[w].op
  /\ \A w \in Writers : writer[w].pc \in {"lock", "number", "write"} => writer[w].op \notin intents
  /\ \A w \in Writers : writer[w].pc \in {"act", "result"} =>
       writer[w].op \in intents \ results

LockInv == \A w \in Writers : writer[w].pc \in {"number", "write"} <=> lock = w

DenseInv == \E n \in 0 .. MaxSeq : Dense(n)

NumberInv ==
  \A w \in Writers : At(w, "write") => writer[w].number \in 1 .. MaxSeq /\ Dense(writer[w].number - 1)

\* What the reader owes is nobody's any more, and stays so.
ReaderInv ==
  /\ reader.pc # "refused"
  /\ reader.owed \subseteq intents \ results /\ reader.settled \subseteq results
  /\ \A i \in reader.owed : \A w \in Writers : writer[w].op # i
  /\ reader.pc = "done" => reader.owed \subseteq reader.report /\ reader.settled \intersect reader.report = {}

IInv == TypeOK /\ OpsInv /\ LockInv /\ DenseInv /\ NumberInv /\ ReaderInv

-------------------------------------------------------------------------------
LEMMA InitInv == Init => IInv
<1> SUFFICES ASSUME Init PROVE IInv
  OBVIOUS
<1> USE JournalAssumption
<1>1. TypeOK
  BY DEF Init, TypeOK, Free, Asleep, States
<1>2. OpsInv
  BY DEF Init, OpsInv, At, Free
<1>3. LockInv /\ NumberInv
  BY DEF Init, LockInv, NumberInv, At, Free
<1>4. DenseInv
  <2>1. Numbers = {}
    BY DEF Init, Numbers
  <2>2. Unique
    BY DEF Init, Unique
  <2>3. 0 \in 0 .. MaxSeq /\ 1 .. 0 = {}
    OBVIOUS
  <2> QED BY <2>1, <2>2, <2>3 DEF DenseInv, Dense
<1>5. ReaderInv
  BY DEF Init, ReaderInv, Asleep
<1> QED BY <1>1, <1>2, <1>3, <1>4, <1>5 DEF IInv

\* A number is within the range, and the numbers before it are all there.
LEMMA NextIsNext ==
  ASSUME NEW n \in NextSequence
  PROVE  n \in 1 .. MaxSeq /\ Dense(n - 1)
BY JournalAssumption DEF NextSequence

\* A process that is at work has an operation.
LEMMA Busy ==
  ASSUME TypeOK, OpsInv, NEW w \in Writers, ~At(w, "idle")
  PROVE  writer[w].op \in Ids /\ writer[w].op \in used
BY DEF TypeOK, OpsInv

LEMMA TypeNext == TypeOK /\ OpsInv /\ Next => TypeOK'
<1> SUFFICES ASSUME TypeOK, OpsInv, Next PROVE TypeOK'
  OBVIOUS
<1> USE JournalAssumption DEF TypeOK, States, Free, SetWriter, At, Goto, Unlocked
<1>1. ASSUME NEW w \in Writers, Journaled(w) PROVE TypeOK'
  <2>1. CASE \E i \in Ids : Begin(w, i)
    BY <2>1 DEF Begin
  <2>2. CASE Lock(w)
    BY <2>2 DEF Lock
  <2>3. CASE Number(w)
    <3>1. CASE NextSequence = {} /\ SetWriter(w, Free) /\ lock' = Unlocked(w)
      BY <2>3, <3>1 DEF Number
    <3>2. ASSUME NEW n \in NextSequence,
                 SetWriter(w, [pc |-> "write", op |-> writer[w].op, number |-> n]), UNCHANGED lock
          PROVE  TypeOK'
      <4>1. n \in 0 .. MaxSeq
        BY NextIsNext
      <4>2. writer' \in [Writers -> [pc : States, op : Ids \union {NoOp}, number : 0 .. MaxSeq]]
        BY <3>2, <4>1
      <4> QED BY <2>3, <3>2, <4>2 DEF Number
    <3> QED BY <2>3, <3>1, <3>2 DEF Number
  <2>4. CASE WriteIntent(w)
    <3>1. writer[w].op \in Ids /\ writer[w].number \in 0 .. MaxSeq
      BY <2>4, Busy DEF WriteIntent
    <3> QED BY <2>4, <3>1 DEF WriteIntent
  <2>5. CASE IntentFails(w)
    BY <2>5 DEF IntentFails
  <2>6. CASE Act(w)
    BY <2>6, Busy DEF Act
  <2>7. CASE WriteResult(w) \/ ResultFails(w)
    BY <2>7, Busy DEF WriteResult, ResultFails
  <2>8. CASE Die(w)
    BY <2>8 DEF Die
  <2> QED BY <1>1, <2>1, <2>2, <2>3, <2>4, <2>5, <2>6, <2>7, <2>8 DEF Journaled
<1>2. CASE StartReading
  BY <1>2 DEF StartReading, Asleep, Abandoned
<1>3. CASE Validate \/ Walk
  BY <1>3 DEF Validate, Walk, Unfinished
<1> QED BY <1>1, <1>2, <1>3 DEF Next

\* The two outcomes of nextOperationSequence.
LEMMA NumberSteps ==
  ASSUME TypeOK, NEW w \in Writers, Number(w)
  PROVE  /\ At(w, "number")
         /\ UNCHANGED <<intents, results, seq, used, acted, reader>>
         /\ \/ writer' = [writer EXCEPT ![w] = Free] /\ lock' = Unlocked(w)
            \/ /\ \E n \in 1 .. MaxSeq :
                    /\ Dense(n - 1)
                    /\ writer' = [writer EXCEPT ![w] =
                                    [pc |-> "write", op |-> writer[w].op, number |-> n]]
               /\ lock' = lock
<1>1. CASE NextSequence = {} /\ SetWriter(w, Free) /\ lock' = Unlocked(w)
  BY <1>1 DEF Number, SetWriter
<1>2. CASE \E n \in NextSequence :
             SetWriter(w, [pc |-> "write", op |-> writer[w].op, number |-> n]) /\ UNCHANGED lock
  BY <1>2, NextIsNext DEF Number, SetWriter
<1> QED BY <1>1, <1>2 DEF Number

-------------------------------------------------------------------------------
LEMMA OpsNext == TypeOK /\ OpsInv /\ Next => OpsInv'
<1> SUFFICES ASSUME TypeOK, OpsInv, Next PROVE OpsInv'
  OBVIOUS
<1> USE JournalAssumption DEF SetWriter, At, Goto, Free
<1>1. ASSUME NEW w \in Writers, Journaled(w) PROVE OpsInv'
  <2>0. /\ writer \in [Writers -> [pc : States, op : Ids \union {NoOp}, number : 0 .. MaxSeq]]
        /\ intents \subseteq Ids /\ used \subseteq Ids
    BY DEF TypeOK
  <2>1. CASE \E i \in Ids : Begin(w, i)
    BY <2>0, <2>1 DEF Begin, OpsInv
  <2>2. CASE Lock(w)
    BY <2>0, <2>2 DEF Lock, OpsInv
  <2>3. CASE Number(w)
    BY <2>0, <2>3, NumberSteps DEF OpsInv
  <2>4. CASE WriteIntent(w)
    BY <2>0, <2>4 DEF WriteIntent, OpsInv
  <2>5. CASE IntentFails(w)
    BY <2>0, <2>5 DEF IntentFails, OpsInv
  <2>6. CASE Act(w)
    BY <2>0, <2>6 DEF Act, OpsInv
  <2>7. CASE WriteResult(w)
    BY <2>0, <2>7 DEF WriteResult, OpsInv
  <2>8. CASE ResultFails(w) \/ Die(w)
    BY <2>0, <2>8 DEF ResultFails, Die, OpsInv
  <2> QED BY <1>1, <2>1, <2>2, <2>3, <2>4, <2>5, <2>6, <2>7, <2>8 DEF Journaled
<1>2. CASE StartReading \/ Validate \/ Walk
  BY <1>2 DEF StartReading, Validate, Walk, OpsInv
<1> QED BY <1>1, <1>2 DEF Next

LEMMA LockNext == TypeOK /\ LockInv /\ Next => LockInv'
<1> SUFFICES ASSUME TypeOK, LockInv, Next PROVE LockInv'
  OBVIOUS
<1> USE JournalAssumption DEF SetWriter, At, Goto, Free, Unlocked, LockInv
<1>0. writer \in [Writers -> [pc : States, op : Ids \union {NoOp}, number : 0 .. MaxSeq]]
  BY DEF TypeOK
<1>1. ASSUME NEW w \in Writers, Journaled(w) PROVE LockInv'
  <2>1. CASE (\E i \in Ids : Begin(w, i)) \/ Lock(w)
    BY <1>0, <2>1 DEF Begin, Lock
  <2>2. CASE Number(w)
    BY <1>0, <2>2, NumberSteps
  <2>3. CASE WriteIntent(w) \/ IntentFails(w)
    BY <1>0, <2>3 DEF WriteIntent, IntentFails
  <2>4. CASE Act(w) \/ WriteResult(w) \/ ResultFails(w) \/ Die(w)
    BY <1>0, <2>4 DEF Act, WriteResult, ResultFails, Die
  <2> QED BY <1>1, <2>1, <2>2, <2>3, <2>4 DEF Journaled
<1>2. CASE StartReading \/ Validate \/ Walk
  BY <1>2 DEF StartReading, Validate, Walk
<1> QED BY <1>1, <1>2 DEF Next

-------------------------------------------------------------------------------
\* A new intent with the next number extends the numbers by it.
LEMMA DenseExtends ==
  ASSUME TypeOK, OpsInv, NumberInv, NEW w \in Writers, WriteIntent(w)
  PROVE  /\ writer[w].number \in 1 .. MaxSeq
         /\ Numbers' = 1 .. writer[w].number
         /\ Unique'
<1> DEFINE o == writer[w].op
<1> DEFINE n == writer[w].number
<1>1. /\ n \in 1 .. MaxSeq /\ Numbers = 1 .. (n - 1) /\ Unique
  BY DEF WriteIntent, NumberInv, Dense
<1>2. o \in Ids /\ o \notin intents
  BY Busy DEF WriteIntent, OpsInv, At
<1>3. /\ intents' = intents \union {o}
      /\ seq' \in [Ids -> 0 .. MaxSeq] /\ seq'[o] = n
      /\ \A i \in intents : seq'[i] = seq[i]
  BY <1>1, <1>2 DEF WriteIntent, TypeOK
<1>4. Numbers' = Numbers \union {n}
  BY <1>1, <1>3 DEF Numbers
<1>5. Numbers' = 1 .. n
  BY <1>1, <1>4, JournalAssumption
<1>6. \A i \in intents : seq[i] # n
  BY <1>1, JournalAssumption DEF Numbers
<1>7. Unique'
  BY <1>1, <1>3, <1>6 DEF Unique
<1> QED BY <1>1, <1>5, <1>7

-------------------------------------------------------------------------------
\* Steps that leave the intents alone leave the numbers alone.
LEMMA SameNumbers ==
  ASSUME UNCHANGED <<intents, seq>>
  PROVE  Numbers' = Numbers /\ (Unique' <=> Unique)
BY DEF Numbers, Unique

LEMMA NumberNext == TypeOK /\ OpsInv /\ LockInv /\ DenseInv /\ NumberInv /\ Next => DenseInv' /\ NumberInv'
<1> SUFFICES ASSUME TypeOK, OpsInv, LockInv, DenseInv, NumberInv, Next
             PROVE  DenseInv' /\ NumberInv'
  OBVIOUS
<1>0. writer \in [Writers -> [pc : States, op : Ids \union {NoOp}, number : 0 .. MaxSeq]]
  BY DEF TypeOK
<1>1. ASSUME UNCHANGED <<intents, seq>>,
             \A w \in Writers : writer'[w].pc = "write" =>
               \/ writer'[w] = writer[w]
               \/ writer'[w].number \in 1 .. MaxSeq /\ Dense(writer'[w].number - 1)
      PROVE  DenseInv' /\ NumberInv'
  BY <1>1, SameNumbers DEF DenseInv, NumberInv, Dense, At
<1>2. ASSUME NEW w \in Writers, Journaled(w) PROVE DenseInv' /\ NumberInv'
  <2>1. CASE (\E i \in Ids : Begin(w, i)) \/ Lock(w) \/ Act(w)
    BY <1>0, <1>1, <2>1 DEF Begin, Lock, Act, SetWriter, Goto
  <2>2. CASE Number(w)
    BY <1>0, <1>1, <2>2, NumberSteps DEF Free
  <2>3. CASE WriteIntent(w)
    <3>1. /\ writer[w].number \in 1 .. MaxSeq
          /\ Numbers' = 1 .. writer[w].number
          /\ Unique'
      BY <2>3, DenseExtends
    <3>2. DenseInv'
      BY <3>1, JournalAssumption DEF DenseInv, Dense
    <3>3. \A v \in Writers : writer'[v].pc # "write"
      BY <1>0, <2>3 DEF WriteIntent, LockInv, At, Goto, SetWriter
    <3> QED BY <3>2, <3>3 DEF NumberInv, At
  <2>4. CASE IntentFails(w) \/ WriteResult(w) \/ ResultFails(w) \/ Die(w)
    BY <1>0, <1>1, <2>4 DEF IntentFails, WriteResult, ResultFails, Die, SetWriter, Free
  <2> QED BY <1>2, <2>1, <2>2, <2>3, <2>4 DEF Journaled
<1>3. CASE StartReading \/ Validate \/ Walk
  BY <1>1, <1>3 DEF StartReading, Validate, Walk
<1> QED BY <1>2, <1>3 DEF Next

-------------------------------------------------------------------------------
\* The reader: nobody gets back to an abandoned operation, since its ID is used.
LEMMA ReaderNext == TypeOK /\ OpsInv /\ DenseInv /\ ReaderInv /\ Next => ReaderInv'
<1> SUFFICES ASSUME TypeOK, OpsInv, DenseInv, ReaderInv, Next PROVE ReaderInv'
  OBVIOUS
<1>0. /\ writer \in [Writers -> [pc : States, op : Ids \union {NoOp}, number : 0 .. MaxSeq]]
      /\ intents \subseteq Ids /\ results \subseteq Ids
      /\ reader \in [pc : {"idle", "validate", "walk", "done", "refused"}, owed : SUBSET Ids,
                     settled : SUBSET Ids, report : SUBSET Ids]
  BY DEF TypeOK
<1>1. ASSUME NEW w \in Writers, Journaled(w) PROVE ReaderInv'
  <2>1. UNCHANGED reader /\ results \subseteq results' /\ intents \subseteq intents'
    BY <1>1, NumberSteps DEF Journaled, Begin, Lock, Number, WriteIntent, IntentFails, Act,
                             WriteResult, ResultFails, Die
  <2>2. \A v \in Writers : writer'[v].op \in {writer[v].op, NoOp} \union (Ids \ used)
    BY <1>0, <1>1, NumberSteps DEF Journaled, Begin, Lock, WriteIntent, IntentFails, Act,
         WriteResult, ResultFails, Die, SetWriter, Goto, Free
  <2>3. results' \subseteq results \union {writer[w].op}
    BY <1>1, NumberSteps DEF Journaled, Begin, Lock, Number, WriteIntent, IntentFails, Act,
                             WriteResult, ResultFails, Die
  <2>4. \A i \in reader.owed : i \in used /\ i # NoOp
    BY <1>0, JournalAssumption DEF ReaderInv, OpsInv
  <2> QED BY <2>1, <2>2, <2>3, <2>4 DEF ReaderInv
<1>2. CASE StartReading
  BY <1>0, <1>2 DEF StartReading, Asleep, Abandoned, ReaderInv, OpsInv
<1>3. CASE Validate
  <2>1. Valid
    BY DEF Valid, DenseInv, OpsInv
  <2> QED BY <1>0, <1>3, <2>1 DEF Validate, ReaderInv
<1>4. CASE Walk
  BY <1>0, <1>4 DEF Walk, Unfinished, ReaderInv
<1> QED BY <1>1, <1>2, <1>3, <1>4 DEF Next

LEMMA Stutter == IInv /\ UNCHANGED vars => IInv'
BY DEF IInv, vars, TypeOK, OpsInv, LockInv, DenseInv, NumberInv, ReaderInv, Dense, Numbers, Unique, At

\* The invariant of the journal, with the lock's and the reader's part.
THEOREM Inductive == Spec => []IInv
<1>1. IInv /\ [Next]_vars => IInv'
  BY TypeNext, OpsNext, LockNext, NumberNext, ReaderNext, Stutter DEF IInv
<1> QED BY InitInv, <1>1, PTL DEF Spec

\* Types (TypeOK), for any writers, operations and numbers.
THEOREM TypesHold == Spec => []TypeOK
<1>1. IInv => TypeOK
  BY DEF IInv
<1> QED BY Inductive, <1>1, PTL

\* No process, death or interleaving makes an honest journal unreadable.
THEOREM JournalStaysReadable == Spec => []JournalReadable
<1>1. IInv => JournalReadable
  BY DEF IInv, DenseInv, OpsInv, ReaderInv, JournalReadable, Valid
<1> QED BY Inductive, <1>1, PTL

\* UnfinishedOperations reports what was given up, and nothing that was settled.
THEOREM AbandonedAreReported == Spec => []UnfinishedAreReported
<1>1. IInv => UnfinishedAreReported
  BY DEF IInv, ReaderInv, UnfinishedAreReported
<1> QED BY Inductive, <1>1, PTL

\* Numbers follow time across processes, and no file is changed again.
THEOREM NumbersFollowTime == Spec => SequencesGrow
<1>1. IInv /\ [Next]_vars => [Grow]_vars
  <2> SUFFICES ASSUME IInv, Next PROVE Grow
    BY DEF Grow
  <2>0. IInv'
    BY TypeNext, OpsNext, LockNext, NumberNext, ReaderNext DEF IInv
  <2>1. ASSUME UNCHANGED <<intents, seq>>, results \subseteq results' PROVE Grow
    BY <2>1 DEF Grow
  <2>2. ASSUME NEW w \in Writers, Journaled(w) PROVE Grow
    <3>1. CASE WriteIntent(w)
      <4>1. writer[w].number \in 1 .. MaxSeq /\ Numbers = 1 .. (writer[w].number - 1)
        BY <3>1 DEF IInv, NumberInv, WriteIntent, Dense
      <4>2. writer[w].op \notin intents /\ writer[w].op \in Ids
        BY <3>1, Busy DEF IInv, OpsInv, WriteIntent, At
      <4>3. \A j \in intents : seq[j] \in 0 .. MaxSeq /\ (seq[j] = 0 \/ seq[j] \in Numbers)
        BY DEF IInv, TypeOK, Numbers
      <4>4. \A j \in intents : seq[j] < writer[w].number
        BY <4>1, <4>3, JournalAssumption
      <4>5. /\ intents' = intents \union {writer[w].op} /\ results' = results
            /\ seq'[writer[w].op] = writer[w].number
            /\ \A i \in intents : seq'[i] = seq[i]
        BY <3>1, <4>2 DEF WriteIntent, IInv, TypeOK
      <4> QED BY <4>4, <4>5 DEF Grow
    <3>2. CASE ~WriteIntent(w)
      BY <2>1, <2>2, <3>2, NumberSteps DEF Journaled, Begin, Lock, Number, IntentFails, Act,
                                           WriteResult, ResultFails, Die
    <3> QED BY <3>1, <3>2
  <2>3. CASE StartReading \/ Validate \/ Walk
    BY <2>1, <2>3 DEF StartReading, Validate, Walk
  <2> QED BY <2>2, <2>3 DEF Next
<1> QED BY Inductive, <1>1, PTL DEF Spec, SequencesGrow
================================================================================
