----------------------------- MODULE JournalOrder -----------------------------
(***************************************************************************)
(* The journal of one case: files <id>-intent.json, <id>-committed.json and  *)
(* <id>-failed.json.  Several processes write it, the agent and the restore  *)
(* command, and give their intents consecutive numbers under a file lock;    *)
(* each may die anywhere, which releases the lock.  A reader validates the   *)
(* journal and then walks it again for the operations without a result.  A   *)
(* listing of the directory is one step: a file appears by a rename and is   *)
(* never changed again.                                                     *)
(***************************************************************************)
EXTENDS Naturals

CONSTANTS
  Writers,      \* processes that write the journal
  Ids,          \* operation IDs, random and never used twice
  Legacy,       \* operations journaled before there were numbers
  MaxSeq,       \* the greatest number
  Nobody, NoOp

ASSUME JournalAssumption ==
  /\ Legacy \subseteq Ids /\ MaxSeq \in Nat
  /\ Nobody \notin Writers /\ NoOp \notin Ids

VARIABLES
  intents, results,   \* operations with an intent file, with a result file
  seq,                \* the number in the intent, 0 for a legacy operation
  lock,               \* holder of .sequence.lock
  writer,             \* each writer's operation, where it is, the number it got
  used,               \* IDs that were given out
  acted,              \* history: operations whose action may have had an effect
  reader              \* the inspection: what it owes and what it reports

vars == <<intents, results, seq, lock, writer, used, acted, reader>>

Free == [pc |-> "idle", op |-> NoOp, number |-> 0]
Asleep == [pc |-> "idle", owed |-> {}, settled |-> {}, report |-> {}]

Init ==
  /\ intents = Legacy /\ results \in SUBSET Legacy
  /\ seq = [i \in Ids |-> 0]
  /\ lock = Nobody
  /\ writer = [w \in Writers |-> Free]
  /\ used = Legacy /\ acted = Legacy
  /\ reader = Asleep

SetWriter(w, r) == writer' = [writer EXCEPT ![w] = r]
At(w, pc) == writer[w].pc = pc
Goto(w, pc) == SetWriter(w, [writer[w] EXCEPT !.pc = pc])
Unlocked(w) == IF lock = w THEN Nobody ELSE lock

-------------------------------------------------------------------------------
(* runJournaledResult *)

Begin(w, i) ==
  /\ At(w, "idle") /\ i \in Ids \ used
  /\ used' = used \union {i}
  /\ SetWriter(w, [pc |-> "lock", op |-> i, number |-> 0])
  /\ UNCHANGED <<intents, results, seq, lock, acted, reader>>

LockShared(w) ==
  /\ At(w, "lock")
  /\ lock' = w /\ Goto(w, "number")
  /\ UNCHANGED <<intents, results, seq, used, acted, reader>>

\* LockFileEx without FAIL_IMMEDIATELY: an exclusive lock, waited for.
Lock(w) ==
  /\ At(w, "lock") /\ lock = Nobody
  /\ lock' = w /\ Goto(w, "number")
  /\ UNCHANGED <<intents, results, seq, used, acted, reader>>

Numbers == {seq[i] : i \in intents} \ {0}
Unique == \A i, j \in intents : seq[i] = seq[j] /\ seq[i] # 0 => i = j

\* The numbers in the directory are 1 .. n, each once.
Dense(n) == Unique /\ Numbers = 1 .. n

NextSequenceUnbounded == {n + 1 : n \in {m \in 0 .. MaxSeq : Dense(m)}}

\* What nextOperationSequence returns; it fails on a duplicate, a gap and when
\* the numbers are used up.
NextSequence == {n + 1 : n \in {m \in 0 .. MaxSeq : Dense(m) /\ m < MaxSeq}}

Number(w) ==
  /\ At(w, "number")
  /\ \/ \E n \in NextSequence :
          SetWriter(w, [pc |-> "write", op |-> writer[w].op, number |-> n]) /\ UNCHANGED lock
     \/ NextSequence = {} /\ SetWriter(w, Free) /\ lock' = Unlocked(w)
  /\ UNCHANGED <<intents, results, seq, used, acted, reader>>

\* The intent is renamed into place; the deferred calls release the lock.
WriteIntent(w) ==
  /\ At(w, "write")
  /\ intents' = intents \union {writer[w].op}
  /\ seq' = [seq EXCEPT ![writer[w].op] = writer[w].number]
  /\ lock' = Nobody /\ Goto(w, "act")
  /\ UNCHANGED <<results, used, acted, reader>>

\* The lock, the directory or the intent fails: the action is not taken.
IntentFails(w) ==
  /\ writer[w].pc \in {"lock", "number", "write"}
  /\ lock' = Unlocked(w) /\ SetWriter(w, Free)
  /\ UNCHANGED <<intents, results, seq, used, acted, reader>>

Act(w) ==
  /\ At(w, "act")
  /\ acted' = acted \union {writer[w].op}
  /\ Goto(w, "result")
  /\ UNCHANGED <<intents, results, seq, lock, used, reader>>

WriteResultInPlace(w) ==
  /\ At(w, "result")
  /\ results' = results \union {writer[w].op}
  /\ intents' = intents \ {writer[w].op}
  /\ SetWriter(w, Free)
  /\ UNCHANGED <<seq, lock, used, acted, reader>>

\* "committed" or "failed", in a file of its own.
WriteResult(w) ==
  /\ At(w, "result")
  /\ results' = results \union {writer[w].op}
  /\ SetWriter(w, Free)
  /\ UNCHANGED <<intents, seq, lock, used, acted, reader>>

\* The result cannot be written: the operation stays unfinished.
ResultFails(w) ==
  /\ At(w, "result")
  /\ SetWriter(w, Free)
  /\ UNCHANGED <<intents, results, seq, lock, used, acted, reader>>

\* Windows releases the lock of a process that dies.
Die(w) ==
  /\ ~At(w, "idle")
  /\ SetWriter(w, Free)
  /\ lock' = Unlocked(w)
  /\ UNCHANGED <<intents, results, seq, used, acted, reader>>

-------------------------------------------------------------------------------
(* UnfinishedOperations *)

\* Operations nobody is at any more.
Abandoned == {i \in acted : \A w \in Writers : writer[w].op # i} \ results

StartReading ==
  /\ reader.pc \in {"idle", "done", "refused"}
  /\ reader' = [Asleep EXCEPT !.pc = "validate", !.owed = Abandoned, !.settled = results]
  /\ UNCHANGED <<intents, results, seq, lock, writer, used, acted>>

\* ValidateJournalOrder: numbers 1 .. n, each once, and every result has its intent.
Valid == (\E n \in 0 .. MaxSeq : Dense(n)) /\ results \subseteq intents

Validate ==
  /\ reader.pc = "validate"
  /\ reader' = [reader EXCEPT !.pc = IF Valid THEN "walk" ELSE "refused"]
  /\ UNCHANGED <<intents, results, seq, lock, writer, used, acted>>

UnfinishedNumbered == {i \in intents : seq[i] # 0} \ results

\* Intents without a result, numbered or not.
Unfinished == intents \ results

Walk ==
  /\ reader.pc = "walk"
  /\ reader' = [reader EXCEPT !.pc = "done", !.report = Unfinished]
  /\ UNCHANGED <<intents, results, seq, lock, writer, used, acted>>

-------------------------------------------------------------------------------
\* One process through one operation.
Journaled(w) ==
  \/ \E i \in Ids : Begin(w, i)
  \/ Lock(w) \/ Number(w) \/ WriteIntent(w) \/ IntentFails(w)
  \/ Act(w) \/ WriteResult(w) \/ ResultFails(w) \/ Die(w)

Next ==
  \/ \E w \in Writers : Journaled(w)
  \/ StartReading \/ Validate \/ Walk

Spec == Init /\ [][Next]_vars

-------------------------------------------------------------------------------
(* Properties *)

States == {"idle", "lock", "number", "write", "act", "result"}

\* Types of all variables.
TypeOK ==
  /\ intents \subseteq Ids /\ results \subseteq Ids /\ used \subseteq Ids /\ acted \subseteq Ids
  /\ seq \in [Ids -> 0 .. MaxSeq]
  /\ lock \in Writers \union {Nobody}
  /\ writer \in [Writers -> [pc : States, op : Ids \union {NoOp}, number : 0 .. MaxSeq]]
  /\ reader \in [pc : {"idle", "validate", "walk", "done", "refused"}, owed : SUBSET Ids,
                 settled : SUBSET Ids, report : SUBSET Ids]

\* An honest journal is never refused: whatever processes write it and die, the
\* numbers stay consecutive and every result has its intent, so that the next
\* start of the agent is not blocked (ValidateJournalOrder "rejects missing or
\* conflicting durable steps").
JournalReadable == Valid /\ reader.pc # "refused"

\* A later operation has the greater number, for all processes together, and what
\* was written stays: sorting by number is sorting by time.
Grow ==
  /\ \A i \in intents' \ intents : \A j \in intents : seq[j] < seq'[i]
  /\ \A i \in intents : i \in intents' /\ seq'[i] = seq[i]
  /\ results \subseteq results'
SequencesGrow == [][Grow]_vars

\* The report of UnfinishedOperations ("an interrupted action remains visible
\* after a crash"): every operation that acted and was given up before the
\* reading is in it, and none that had its result then.
UnfinishedAreReported ==
  reader.pc = "done" => reader.owed \subseteq reader.report /\ reader.settled \intersect reader.report = {}
===============================================================================
