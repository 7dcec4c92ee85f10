-------------------------- MODULE Quarantine_proofs --------------------------
(***************************************************************************)
(* Proofs about Quarantine for any cases, contents, number of file         *)
(* identities and number of disturbances: its types, that nothing the      *)
(* agent deletes is lost, that a case called quarantined is, that every    *)
(* deletion is accounted for and none is done over open work, and that it  *)
(* implements Custody.                                                     *)
(*                                                                         *)
(* ControlInv ties the operation being done to its stage and to the data   *)
(* of the case, CopyInv says at which operation the copy is known to be    *)
(* good, and CustodyInv is Custody's own argument: while an authorisation  *)
(* stands, what is at the path is kept or is late.  On top of these,       *)
(* RecordInv follows the identities of the files into the ownership        *)
(* records, and JournalInv the cases into the journal, the plans and the   *)
(* case files.                                                             *)
(***************************************************************************)
EXTENDS Quarantine, TLAPS

\* Operations that have a HIGH artifact; those reached only once its bytes are in
\* the store.
CopyOps == {"quarantine_copy", "quarantine_hash_verify"}
StoredOps == {"recheck", "enumerate_lockers", "terminate_locker", "schedule_reboot_delete",
              "record_ownership"} \union Deletes
ArtifactOps == {"match", "quarantine_publish"} \union CopyOps \union StoredOps

ControlInv ==
  /\ cur = NoCase <=> op = "none"
  /\ stage \in {"intent", "result"} => op \in Journaled
  /\ stage \in {"remove", "confirm"} => op \in Deletes
  /\ stage = "schedule" => op = "schedule_reboot_delete"
  /\ \A c \in taken : hit[c] \in Ids
  /\ cur # NoCase => cur \in taken
  /\ op \in {"contain_known", "share"} => record[hit[cur]] # NoRecord
  /\ (op = "plan" /\ status = "pending") \/ op \in ArtifactOps => art \in Files

CopyInv ==
  /\ \A b \in Bytes : store[b] \in {NoBytes, b}
  /\ op = "quarantine_hash_verify" /\ stage = "result" /\ res = "ok" => tmp = art.bytes
  /\ op = "quarantine_publish" => tmp = art.bytes
  /\ op = "quarantine_publish" /\ stage = "result" /\ res = "ok" => Intact(art.bytes)
  /\ op \in StoredOps => Intact(art.bytes)

CustodyInv ==
  /\ \A f \in scheduled : Intact(f.bytes)
  /\ Authorised # {} /\ path # NoFile => Intact(path.bytes) \/ path \in late
  /\ NothingLost

IInv == TypeOK /\ ControlInv /\ CopyInv /\ CustodyInv
-------------------------------------------------------------------------------
LEMMA FileParts ==
  ASSUME NEW f \in Files
  PROVE  f.id \in Ids /\ f.bytes \in Bytes /\ f # NoFile
BY ConstantsAssumption DEF Files

\* Custody is kept by a step that changes nothing of it and authorises nothing.
LEMMA CustodyFrame ==
  ASSUME CustodyInv, UNCHANGED <<path, store, late, removed, scheduled>>,
         Authorised = {} => Authorised' = {}
  PROVE  CustodyInv'
BY DEF CustodyInv, NothingLost, Kept, Intact

LEMMA EditInv ==
  ASSUME IInv, NEW b \in Bytes, Edit(b)
  PROVE  IInv'
<1> USE ConstantsAssumption DEF machine, files, journal, run, case, control, Edit, Arrives, Trouble
<1>1. TypeOK'
  <2>1. path' \in Files
    BY DEF IInv, TypeOK, Files
  <2>2. late' \subseteq Files
    BY <2>1 DEF IInv, TypeOK
  <2> QED BY <2>1, <2>2 DEF IInv, TypeOK, Ops, Journaled, Statuses, Verdicts, Lockers, Docs, ControlInv, Deletes
<1>2. ControlInv'
  BY DEF IInv, TypeOK, ControlInv, ArtifactOps, CopyOps, StoredOps, Deletes, Journaled
<1>3. CopyInv'
  BY DEF IInv, TypeOK, ControlInv, CopyInv, ArtifactOps, CopyOps, StoredOps, Deletes, Journaled, Intact
<1>4. CustodyInv'
  BY DEF IInv, TypeOK, ControlInv, CopyInv, CustodyInv, NothingLost, Kept, Authorised, Examined, Intact
<1> QED BY <1>1, <1>2, <1>3, <1>4 DEF IInv

LEMMA ReplaceInv ==
  ASSUME IInv, NEW b \in Bytes, Replace(b)
  PROVE  IInv'
<1> USE ConstantsAssumption DEF machine, files, journal, run, case, control, Replace, Arrives, Trouble
<1>1. TypeOK'
  <2>1. path' \in Files /\ nextId' \in 1 .. MaxFiles + 1
    BY DEF IInv, TypeOK, Files, Ids
  <2>2. late' \subseteq Files
    BY <2>1 DEF IInv, TypeOK
  <2> QED BY <2>1, <2>2 DEF IInv, TypeOK, Ops, Journaled, Statuses, Verdicts, Lockers, Docs, ControlInv, Deletes
<1>2. ControlInv'
  BY DEF IInv, TypeOK, ControlInv, ArtifactOps, CopyOps, StoredOps, Deletes, Journaled
<1>3. CopyInv'
  BY DEF IInv, TypeOK, ControlInv, CopyInv, ArtifactOps, CopyOps, StoredOps, Deletes, Journaled, Intact
<1>4. CustodyInv'
  BY DEF IInv, TypeOK, ControlInv, CopyInv, CustodyInv, NothingLost, Kept, Authorised, Examined, Intact
<1> QED BY <1>1, <1>2, <1>3, <1>4 DEF IInv

LEMMA VanishInv ==
  ASSUME IInv, Vanish
  PROVE  IInv'
<1> USE ConstantsAssumption DEF machine, files, journal, run, case, control, Vanish, Arrives, Trouble
<1>1. TypeOK'
  BY DEF IInv, TypeOK, Ops, Journaled, Statuses, Verdicts, Lockers, Docs, ControlInv, Deletes
<1>2. ControlInv'
  BY DEF IInv, TypeOK, ControlInv, ArtifactOps, CopyOps, StoredOps, Deletes, Journaled
<1>3. CopyInv'
  BY DEF IInv, TypeOK, ControlInv, CopyInv, ArtifactOps, CopyOps, StoredOps, Deletes, Journaled, Intact
<1>4. CustodyInv'
  BY DEF IInv, TypeOK, ControlInv, CopyInv, CustodyInv, NothingLost, Kept, Authorised, Examined, Intact
<1> QED BY <1>1, <1>2, <1>3, <1>4 DEF IInv

LEMMA LockerChangesInv ==
  ASSUME IInv, NEW k \in Lockers, LockerChanges(k)
  PROVE  IInv'
<1> USE ConstantsAssumption DEF machine, files, journal, run, case, control, LockerChanges, Trouble, Lockers
<1>1. TypeOK'
  BY DEF IInv, TypeOK, Ops, Journaled, Statuses, Verdicts, Lockers, Docs, ControlInv, Deletes
<1>2. ControlInv'
  BY DEF IInv, TypeOK, ControlInv, ArtifactOps, CopyOps, StoredOps, Deletes, Journaled
<1>3. CopyInv'
  BY DEF IInv, TypeOK, ControlInv, CopyInv, ArtifactOps, CopyOps, StoredOps, Deletes, Journaled, Intact
<1>4. CustodyInv'
  BY DEF IInv, TypeOK, ControlInv, CopyInv, CustodyInv, NothingLost, Kept, Authorised, Examined, Intact
<1> QED BY <1>1, <1>2, <1>3, <1>4 DEF IInv

LEMMA DetectInv ==
  ASSUME IInv, NEW c \in Cases, Detect(c)
  PROVE  IInv'
<1> USE ConstantsAssumption DEF machine, files, journal, run, case, control, Detect, Calm
<1>1. TypeOK'
  <2>1. hit' \in [Cases -> Ids \union {0}]
    BY FileParts DEF IInv, TypeOK
  <2> QED BY <2>1 DEF IInv, TypeOK, Ops, Journaled, Statuses, Verdicts, Lockers, Docs, ControlInv, Deletes
<1>2. ControlInv'
  BY DEF IInv, TypeOK, ControlInv, ArtifactOps, CopyOps, StoredOps, Deletes, Journaled
<1>3. CopyInv'
  BY DEF IInv, TypeOK, ControlInv, CopyInv, ArtifactOps, CopyOps, StoredOps, Deletes, Journaled, Intact
<1>4. CustodyInv'
  BY DEF IInv, TypeOK, ControlInv, CopyInv, CustodyInv, NothingLost, Kept, Authorised, Examined, Intact
<1> QED BY <1>1, <1>2, <1>3, <1>4 DEF IInv

LEMMA TakeInv ==
  ASSUME IInv, NEW c \in Cases, Take(c)
  PROVE  IInv'
<1> USE ConstantsAssumption DEF machine, files, journal, run, case, control, Take, Idle, Calm
<1>1. TypeOK'
  BY DEF IInv, TypeOK, Ops, Journaled, Statuses, Verdicts, Lockers, Docs, ControlInv, Deletes
<1>2. ControlInv'
  BY DEF IInv, TypeOK, ControlInv, ArtifactOps, CopyOps, StoredOps, Deletes, Journaled
<1>3. CopyInv'
  BY DEF IInv, TypeOK, ControlInv, CopyInv, ArtifactOps, CopyOps, StoredOps, Deletes, Journaled, Intact
<1>4. CustodyInv'
  BY DEF IInv, TypeOK, ControlInv, CopyInv, CustodyInv, NothingLost, Kept, Authorised, Examined, Intact
<1> QED BY <1>1, <1>2, <1>3, <1>4 DEF IInv

LEMMA ContainInv ==
  ASSUME IInv, Contain
  PROVE  IInv'
<1> USE ConstantsAssumption DEF machine, files, journal, run, case, control, Contain, Goto, Calm
<1>1. TypeOK'
  BY DEF IInv, TypeOK, Ops, Journaled, Statuses, Verdicts, Lockers, Docs, ControlInv, Deletes
<1>2. ControlInv'
  BY DEF IInv, TypeOK, ControlInv, ArtifactOps, CopyOps, StoredOps, Deletes, Journaled
<1>3. CopyInv'
  BY DEF IInv, TypeOK, ControlInv, CopyInv, ArtifactOps, CopyOps, StoredOps, Deletes, Journaled, Intact
<1>4. CustodyInv'
  BY DEF IInv, TypeOK, ControlInv, CopyInv, CustodyInv, NothingLost, Kept, Authorised, Examined, Intact
<1> QED BY <1>1, <1>2, <1>3, <1>4 DEF IInv

LEMMA ShareInv ==
  ASSUME IInv, Share
  PROVE  IInv'
<1> USE ConstantsAssumption DEF machine, files, journal, run, case, control, Share, Goto, Calm
<1>1. TypeOK'
  <2>1. cur \in Cases /\ hit[cur] \in Ids
    BY DEF IInv, TypeOK, ControlInv
  <2>2. record[hit[cur]] \in [owner : Cases, bytes : Bytes]
    BY <2>1 DEF IInv, TypeOK, ControlInv
  <2>3. art' \in Files \union {NoFile}
    BY <2>1, <2>2 DEF IInv, TypeOK, Files
  <2> QED BY <2>1, <2>2, <2>3 DEF IInv, TypeOK, Ops, Journaled, Statuses, Verdicts, Lockers, Docs, ControlInv, Deletes
<1>2. ControlInv'
  BY DEF IInv, TypeOK, ControlInv, ArtifactOps, CopyOps, StoredOps, Deletes, Journaled
<1>3. CopyInv'
  BY DEF IInv, TypeOK, ControlInv, CopyInv, ArtifactOps, CopyOps, StoredOps, Deletes, Journaled, Intact
<1>4. CustodyInv'
  BY DEF IInv, TypeOK, ControlInv, CopyInv, CustodyInv, NothingLost, Kept, Authorised, Examined, Intact
<1> QED BY <1>1, <1>2, <1>3, <1>4 DEF IInv

LEMMA EvidenceInv ==
  ASSUME IInv, Evidence
  PROVE  IInv'
<1> USE ConstantsAssumption DEF machine, files, journal, run, case, control, Evidence, Goto, Calm
<1>1. TypeOK'
  BY DEF IInv, TypeOK, Ops, Journaled, Statuses, Verdicts, Lockers, Docs, ControlInv, Deletes
<1>2. ControlInv'
  BY DEF IInv, TypeOK, ControlInv, ArtifactOps, CopyOps, StoredOps, Deletes, Journaled
<1>3. CopyInv'
  BY DEF IInv, TypeOK, ControlInv, CopyInv, ArtifactOps, CopyOps, StoredOps, Deletes, Journaled, Intact
<1>4. CustodyInv'
  BY DEF IInv, TypeOK, ControlInv, CopyInv, CustodyInv, NothingLost, Kept, Authorised, Examined, Intact
<1> QED BY <1>1, <1>2, <1>3, <1>4 DEF IInv

LEMMA PlanInv ==
  ASSUME IInv, Plan
  PROVE  IInv'
<1> USE ConstantsAssumption DEF machine, files, journal, run, case, control, Plan, Goto, Calm, Trouble
<1>1. TypeOK'
  BY DEF IInv, TypeOK, Ops, Journaled, Statuses, Verdicts, Lockers, Docs, ControlInv, Deletes
<1>2. ControlInv'
  BY DEF IInv, TypeOK, ControlInv, ArtifactOps, CopyOps, StoredOps, Deletes, Journaled
<1>3. CopyInv'
  BY DEF IInv, TypeOK, ControlInv, CopyInv, ArtifactOps, CopyOps, StoredOps, Deletes, Journaled, Intact
<1>4. CustodyInv'
  BY DEF IInv, TypeOK, ControlInv, CopyInv, CustodyInv, NothingLost, Kept, Authorised, Examined, Intact
<1> QED BY <1>1, <1>2, <1>3, <1>4 DEF IInv

LEMMA MatchInv ==
  ASSUME IInv, Match
  PROVE  IInv'
<1> USE ConstantsAssumption DEF machine, files, journal, run, case, control, Match, Goto, Settle, Calm
<1>1. TypeOK'
  BY DEF IInv, TypeOK, Ops, Journaled, Statuses, Verdicts, Lockers, Docs, ControlInv, Deletes
<1>2. ControlInv'
  BY DEF IInv, TypeOK, ControlInv, ArtifactOps, CopyOps, StoredOps, Deletes, Journaled
<1>3. CopyInv'
  BY DEF IInv, TypeOK, ControlInv, CopyInv, ArtifactOps, CopyOps, StoredOps, Deletes, Journaled, Intact
<1>4. CustodyInv'
  BY DEF IInv, TypeOK, ControlInv, CopyInv, CustodyInv, NothingLost, Kept, Authorised, Examined, Intact
<1> QED BY <1>1, <1>2, <1>3, <1>4 DEF IInv

LEMMA RecheckInv ==
  ASSUME IInv, Recheck
  PROVE  IInv'
<1> USE ConstantsAssumption DEF machine, files, journal, run, case, control, Recheck, Goto, Settle, Calm, Trouble
<1>1. TypeOK'
  BY DEF IInv, TypeOK, Ops, Journaled, Statuses, Verdicts, Lockers, Docs, ControlInv, Deletes
<1>2. ControlInv'
  BY DEF IInv, TypeOK, ControlInv, ArtifactOps, CopyOps, StoredOps, Deletes, Journaled
<1>3. CopyInv'
  BY DEF IInv, TypeOK, ControlInv, CopyInv, ArtifactOps, CopyOps, StoredOps, Deletes, Journaled, Intact
<1>4. CustodyInv'
  BY DEF IInv, TypeOK, ControlInv, CopyInv, CustodyInv, NothingLost, Kept, Authorised, Examined, Intact
<1> QED BY <1>1, <1>2, <1>3, <1>4 DEF IInv

LEMMA WriteIntentInv ==
  ASSUME IInv, WriteIntent
  PROVE  IInv'
<1> USE ConstantsAssumption DEF machine, files, journal, run, case, control, WriteIntent, Calm
<1>1. TypeOK'
  BY DEF IInv, TypeOK, Ops, Journaled, Statuses, Verdicts, Lockers, Docs, ControlInv, Deletes
<1>2. ControlInv'
  BY DEF IInv, TypeOK, ControlInv, ArtifactOps, CopyOps, StoredOps, Deletes, Journaled
<1>3. CopyInv'
  BY DEF IInv, TypeOK, ControlInv, CopyInv, ArtifactOps, CopyOps, StoredOps, Deletes, Journaled, Intact
<1>4. CustodyInv'
  BY DEF IInv, TypeOK, ControlInv, CopyInv, CustodyInv, NothingLost, Kept, Authorised, Examined, Intact
<1> QED BY <1>1, <1>2, <1>3, <1>4 DEF IInv

LEMMA ActionFailsInv ==
  ASSUME IInv, ActionFails
  PROVE  IInv'
<1> USE ConstantsAssumption DEF machine, files, journal, run, case, control, ActionFails, Outcome, Trouble
<1>1. TypeOK'
  BY DEF IInv, TypeOK, Ops, Journaled, Statuses, Verdicts, Lockers, Docs, ControlInv, Deletes
<1>2. ControlInv'
  BY DEF IInv, TypeOK, ControlInv, ArtifactOps, CopyOps, StoredOps, Deletes, Journaled
<1>3. CopyInv'
  BY DEF IInv, TypeOK, ControlInv, CopyInv, ArtifactOps, CopyOps, StoredOps, Deletes, Journaled, Intact
<1>4. CustodyInv'
  BY DEF IInv, TypeOK, ControlInv, CopyInv, CustodyInv, NothingLost, Kept, Authorised, Examined, Intact
<1> QED BY <1>1, <1>2, <1>3, <1>4 DEF IInv

LEMMA QuarantineCopyInv ==
  ASSUME IInv, QuarantineCopy
  PROVE  IInv'
<1> USE ConstantsAssumption DEF machine, files, journal, run, case, control, QuarantineCopy, Acts, Outcome, Calm
<1>1. TypeOK'
  <2>1. tmp' \in Bytes \union {NoBytes}
    BY FileParts DEF IInv, TypeOK
  <2> QED BY <2>1 DEF IInv, TypeOK, Ops, Journaled, Statuses, Verdicts, Lockers, Docs, ControlInv, Deletes
<1>2. ControlInv'
  BY DEF IInv, TypeOK, ControlInv, ArtifactOps, CopyOps, StoredOps, Deletes, Journaled
<1>3. CopyInv'
  BY DEF IInv, TypeOK, ControlInv, CopyInv, ArtifactOps, CopyOps, StoredOps, Deletes, Journaled, Intact
<1>4. CustodyInv'
  BY DEF IInv, TypeOK, ControlInv, CopyInv, CustodyInv, NothingLost, Kept, Authorised, Examined, Intact
<1> QED BY <1>1, <1>2, <1>3, <1>4 DEF IInv

LEMMA QuarantineHashVerifyInv ==
  ASSUME IInv, QuarantineHashVerify
  PROVE  IInv'
<1> USE ConstantsAssumption DEF machine, files, journal, run, case, control, QuarantineHashVerify, Acts, Outcome, Calm
<1>1. TypeOK'
  BY DEF IInv, TypeOK, Ops, Journaled, Statuses, Verdicts, Lockers, Docs, ControlInv, Deletes
<1>2. ControlInv'
  BY DEF IInv, TypeOK, ControlInv, ArtifactOps, CopyOps, StoredOps, Deletes, Journaled
<1>3. CopyInv'
  BY DEF IInv, TypeOK, ControlInv, CopyInv, ArtifactOps, CopyOps, StoredOps, Deletes, Journaled, Intact
<1>4. CustodyInv'
  BY DEF IInv, TypeOK, ControlInv, CopyInv, CustodyInv, NothingLost, Kept, Authorised, Examined, Intact
<1> QED BY <1>1, <1>2, <1>3, <1>4 DEF IInv

LEMMA QuarantinePublishInv ==
  ASSUME IInv, QuarantinePublish
  PROVE  IInv'
<1> USE ConstantsAssumption DEF machine, files, journal, run, case, control, QuarantinePublish, Acts, Outcome, Calm
<1>1. TypeOK'
  <2>1. art \in Files /\ tmp = art.bytes
    BY DEF IInv, ControlInv, CopyInv, ArtifactOps
  <2>2. store' \in [Bytes -> Bytes \union {NoBytes}]
    BY <2>1, FileParts DEF IInv, TypeOK
  <2> QED BY <2>1, <2>2 DEF IInv, TypeOK, Ops, Journaled, Statuses, Verdicts, Lockers, Docs, ControlInv, Deletes
<1>2. ControlInv'
  BY DEF IInv, TypeOK, ControlInv, ArtifactOps, CopyOps, StoredOps, Deletes, Journaled
<1>3. CopyInv'
  <2>1. art \in Files /\ tmp = art.bytes /\ art.bytes \in Bytes
    BY FileParts DEF IInv, ControlInv, CopyInv, ArtifactOps
  <2>2. \A b \in Bytes : store'[b] = IF b = art.bytes THEN art.bytes ELSE store[b]
    BY <2>1 DEF IInv, TypeOK
  <2> QED BY <2>1, <2>2 DEF IInv, CopyInv, StoredOps, Deletes, Intact
<1>4. CustodyInv'
  BY DEF IInv, TypeOK, ControlInv, CopyInv, CustodyInv, NothingLost, Kept, Authorised, Examined, Intact
<1> QED BY <1>1, <1>2, <1>3, <1>4 DEF IInv

LEMMA CheckOriginalInv ==
  ASSUME IInv, CheckOriginal
  PROVE  IInv'
<1> USE ConstantsAssumption DEF machine, files, journal, run, case, control, CheckOriginal, Acts, Outcome, Calm
<1>1. TypeOK'
  BY DEF IInv, TypeOK, Ops, Journaled, Statuses, Verdicts, Lockers, Docs, ControlInv, Deletes
<1>2. ControlInv'
  BY DEF IInv, TypeOK, ControlInv, ArtifactOps, CopyOps, StoredOps, Deletes, Journaled
<1>3. CopyInv'
  BY DEF IInv, TypeOK, ControlInv, CopyInv, ArtifactOps, CopyOps, StoredOps, Deletes, Journaled, Intact
<1>4. CustodyInv'
  <2>1. op \in StoredOps /\ Intact(art.bytes) /\ UNCHANGED <<path, store, late, removed, scheduled, art>>
    BY DEF StoredOps, IInv, CopyInv
  <2>2. CASE path = art
    BY <2>1, <2>2 DEF IInv, CustodyInv, NothingLost, Kept, Intact
  <2>3. CASE path # art
    BY <2>1, <2>3, CustodyFrame DEF IInv, Authorised, Examined
  <2> QED BY <2>2, <2>3
<1> QED BY <1>1, <1>2, <1>3, <1>4 DEF IInv

LEMMA RemoveOriginalInv ==
  ASSUME IInv, RemoveOriginal
  PROVE  IInv'
<1> USE ConstantsAssumption DEF machine, files, journal, run, case, control, RemoveOriginal, Acts, Outcome, Calm
<1>1. TypeOK'
  BY DEF IInv, TypeOK, Ops, Journaled, Statuses, Verdicts, Lockers, Docs, ControlInv, Deletes
<1>2. ControlInv'
  BY DEF IInv, TypeOK, ControlInv, ArtifactOps, CopyOps, StoredOps, Deletes, Journaled
<1>3. CopyInv'
  BY DEF IInv, TypeOK, ControlInv, CopyInv, ArtifactOps, CopyOps, StoredOps, Deletes, Journaled, Intact
<1>4. CustodyInv'
  <2>1. UNCHANGED <<store, late, scheduled, art>> /\ Authorised # {}
    BY DEF Authorised, Examined
  <2>2. CASE UNCHANGED <<path, removed>>
    <3>1. Authorised = {} => Authorised' = {}
      BY <2>1
    <3> QED BY <2>1, <2>2, <3>1, CustodyFrame DEF IInv
  <2>3. CASE path' = NoFile /\ removed' = removed \union {path} /\ path # NoFile
    <3>1. path.bytes \in Bytes /\ (Intact(path.bytes) \/ path \in late)
      BY <2>1, <2>3, FileParts DEF IInv, TypeOK, CustodyInv
    <3> QED BY <2>1, <2>3, <3>1 DEF IInv, CustodyInv, NothingLost, Kept, Intact
  <2> QED BY <2>2, <2>3
<1> QED BY <1>1, <1>2, <1>3, <1>4 DEF IInv

LEMMA ConfirmRemovedInv ==
  ASSUME IInv, ConfirmRemoved
  PROVE  IInv'
<1> USE ConstantsAssumption DEF machine, files, journal, run, case, control, ConfirmRemoved, Acts, Outcome, Calm
<1>1. TypeOK'
  BY DEF IInv, TypeOK, Ops, Journaled, Statuses, Verdicts, Lockers, Docs, ControlInv, Deletes
<1>2. ControlInv'
  BY DEF IInv, TypeOK, ControlInv, ArtifactOps, CopyOps, StoredOps, Deletes, Journaled
<1>3. CopyInv'
  BY DEF IInv, TypeOK, ControlInv, CopyInv, ArtifactOps, CopyOps, StoredOps, Deletes, Journaled, Intact
<1>4. CustodyInv'
  BY DEF IInv, TypeOK, ControlInv, CopyInv, CustodyInv, NothingLost, Kept, Authorised, Examined, Intact
<1> QED BY <1>1, <1>2, <1>3, <1>4 DEF IInv

LEMMA EnumerateLockersInv ==
  ASSUME IInv, EnumerateLockers
  PROVE  IInv'
<1> USE ConstantsAssumption DEF machine, files, journal, run, case, control, EnumerateLockers, Acts, Outcome, Calm
<1>1. TypeOK'
  BY DEF IInv, TypeOK, Ops, Journaled, Statuses, Verdicts, Lockers, Docs, ControlInv, Deletes
<1>2. ControlInv'
  BY DEF IInv, TypeOK, ControlInv, ArtifactOps, CopyOps, StoredOps, Deletes, Journaled
<1>3. CopyInv'
  BY DEF IInv, TypeOK, ControlInv, CopyInv, ArtifactOps, CopyOps, StoredOps, Deletes, Journaled, Intact
<1>4. CustodyInv'
  BY DEF IInv, TypeOK, ControlInv, CopyInv, CustodyInv, NothingLost, Kept, Authorised, Examined, Intact
<1> QED BY <1>1, <1>2, <1>3, <1>4 DEF IInv

LEMMA TerminateLockerInv ==
  ASSUME IInv, TerminateLocker
  PROVE  IInv'
<1> USE ConstantsAssumption DEF machine, files, journal, run, case, control, TerminateLocker, Acts, Outcome, Calm
<1>1. TypeOK'
  BY DEF IInv, TypeOK, Ops, Journaled, Statuses, Verdicts, Lockers, Docs, ControlInv, Deletes
<1>2. ControlInv'
  BY DEF IInv, TypeOK, ControlInv, ArtifactOps, CopyOps, StoredOps, Deletes, Journaled
<1>3. CopyInv'
  BY DEF IInv, TypeOK, ControlInv, CopyInv, ArtifactOps, CopyOps, StoredOps, Deletes, Journaled, Intact
<1>4. CustodyInv'
  BY DEF IInv, TypeOK, ControlInv, CopyInv, CustodyInv, NothingLost, Kept, Authorised, Examined, Intact
<1> QED BY <1>1, <1>2, <1>3, <1>4 DEF IInv

LEMMA CheckScheduledInv ==
  ASSUME IInv, CheckScheduled
  PROVE  IInv'
<1> USE ConstantsAssumption DEF machine, files, journal, run, case, control, CheckScheduled, Acts, Outcome, Calm
<1>1. TypeOK'
  BY DEF IInv, TypeOK, Ops, Journaled, Statuses, Verdicts, Lockers, Docs, ControlInv, Deletes
<1>2. ControlInv'
  BY DEF IInv, TypeOK, ControlInv, ArtifactOps, CopyOps, StoredOps, Deletes, Journaled
<1>3. CopyInv'
  BY DEF IInv, TypeOK, ControlInv, CopyInv, ArtifactOps, CopyOps, StoredOps, Deletes, Journaled, Intact
<1>4. CustodyInv'
  <2>1. op \in StoredOps /\ Intact(art.bytes) /\ UNCHANGED <<path, store, late, removed, scheduled, art>>
    BY DEF StoredOps, IInv, CopyInv
  <2>2. CASE path = art
    BY <2>1, <2>2 DEF IInv, CustodyInv, NothingLost, Kept, Intact
  <2>3. CASE path # art
    BY <2>1, <2>3, CustodyFrame DEF IInv, Authorised, Examined
  <2> QED BY <2>2, <2>3
<1> QED BY <1>1, <1>2, <1>3, <1>4 DEF IInv

LEMMA ScheduleDeleteInv ==
  ASSUME IInv, ScheduleDelete
  PROVE  IInv'
<1> USE ConstantsAssumption DEF machine, files, journal, run, case, control, ScheduleDelete, Acts, Outcome, Calm
<1>1. TypeOK'
  <2>1. art \in Files
    BY DEF IInv, ControlInv, ArtifactOps, StoredOps
  <2>2. scheduled' \subseteq Files
    BY <2>1 DEF IInv, TypeOK
  <2> QED BY <2>1, <2>2 DEF IInv, TypeOK, Ops, Journaled, Statuses, Verdicts, Lockers, Docs, ControlInv, Deletes
<1>2. ControlInv'
  BY DEF IInv, TypeOK, ControlInv, ArtifactOps, CopyOps, StoredOps, Deletes, Journaled
<1>3. CopyInv'
  BY DEF IInv, TypeOK, ControlInv, CopyInv, ArtifactOps, CopyOps, StoredOps, Deletes, Journaled, Intact
<1>4. CustodyInv'
  <2>1. Intact(art.bytes) /\ UNCHANGED <<path, store, late, removed, art>>
    BY DEF StoredOps, IInv, CopyInv, ControlInv
  <2>2. Authorised # {} /\ scheduled' = scheduled \union {art}
    BY DEF Authorised, Examined
  <2> QED BY <2>1, <2>2 DEF IInv, CustodyInv, NothingLost, Kept, Intact
<1> QED BY <1>1, <1>2, <1>3, <1>4 DEF IInv

LEMMA RecordOwnershipInv ==
  ASSUME IInv, RecordOwnership
  PROVE  IInv'
<1> USE ConstantsAssumption DEF machine, files, journal, run, case, control, RecordOwnership, Acts, Outcome, Calm
<1>1. TypeOK'
  <2>1. art \in Files /\ cur \in Cases
    BY DEF IInv, TypeOK, ControlInv, ArtifactOps, StoredOps
  <2>2. record' \in [Ids -> [owner : Cases, bytes : Bytes] \union {NoRecord}]
    BY <2>1, FileParts DEF IInv, TypeOK
  <2> QED BY <2>1, <2>2 DEF IInv, TypeOK, Ops, Journaled, Statuses, Verdicts, Lockers, Docs, ControlInv, Deletes
<1>2. ControlInv'
  BY DEF IInv, TypeOK, ControlInv, ArtifactOps, CopyOps, StoredOps, Deletes, Journaled
<1>3. CopyInv'
  BY DEF IInv, TypeOK, ControlInv, CopyInv, ArtifactOps, CopyOps, StoredOps, Deletes, Journaled, Intact
<1>4. CustodyInv'
  BY DEF IInv, TypeOK, ControlInv, CopyInv, CustodyInv, NothingLost, Kept, Authorised, Examined, Intact
<1> QED BY <1>1, <1>2, <1>3, <1>4 DEF IInv

LEMMA LinkReferenceInv ==
  ASSUME IInv, LinkReference
  PROVE  IInv'
<1> USE ConstantsAssumption DEF machine, files, journal, run, case, control, LinkReference, Acts, Outcome, Calm
<1>1. TypeOK'
  BY DEF IInv, TypeOK, Ops, Journaled, Statuses, Verdicts, Lockers, Docs, ControlInv, Deletes
<1>2. ControlInv'
  BY DEF IInv, TypeOK, ControlInv, ArtifactOps, CopyOps, StoredOps, Deletes, Journaled
<1>3. CopyInv'
  BY DEF IInv, TypeOK, ControlInv, CopyInv, ArtifactOps, CopyOps, StoredOps, Deletes, Journaled, Intact
<1>4. CustodyInv'
  BY DEF IInv, TypeOK, ControlInv, CopyInv, CustodyInv, NothingLost, Kept, Authorised, Examined, Intact
<1> QED BY <1>1, <1>2, <1>3, <1>4 DEF IInv

LEMMA VerifyProcessInv ==
  ASSUME IInv, VerifyProcess
  PROVE  IInv'
<1> USE ConstantsAssumption DEF machine, files, journal, run, case, control, VerifyProcess, Acts, Outcome, Calm
<1>1. TypeOK'
  BY DEF IInv, TypeOK, Ops, Journaled, Statuses, Verdicts, Lockers, Docs, ControlInv, Deletes
<1>2. ControlInv'
  BY DEF IInv, TypeOK, ControlInv, ArtifactOps, CopyOps, StoredOps, Deletes, Journaled
<1>3. CopyInv'
  BY DEF IInv, TypeOK, ControlInv, CopyInv, ArtifactOps, CopyOps, StoredOps, Deletes, Journaled, Intact
<1>4. CustodyInv'
  BY DEF IInv, TypeOK, ControlInv, CopyInv, CustodyInv, NothingLost, Kept, Authorised, Examined, Intact
<1> QED BY <1>1, <1>2, <1>3, <1>4 DEF IInv

LEMMA VerifyFileAbsenceInv ==
  ASSUME IInv, VerifyFileAbsence
  PROVE  IInv'
<1> USE ConstantsAssumption DEF machine, files, journal, run, case, control, VerifyFileAbsence, Acts, Outcome, Calm
<1>1. TypeOK'
  BY DEF IInv, TypeOK, Ops, Journaled, Statuses, Verdicts, Lockers, Docs, ControlInv, Deletes
<1>2. ControlInv'
  BY DEF IInv, TypeOK, ControlInv, ArtifactOps, CopyOps, StoredOps, Deletes, Journaled
<1>3. CopyInv'
  BY DEF IInv, TypeOK, ControlInv, CopyInv, ArtifactOps, CopyOps, StoredOps, Deletes, Journaled, Intact
<1>4. CustodyInv'
  BY DEF IInv, TypeOK, ControlInv, CopyInv, CustodyInv, NothingLost, Kept, Authorised, Examined, Intact
<1> QED BY <1>1, <1>2, <1>3, <1>4 DEF IInv

LEMMA CommitCaseInv ==
  ASSUME IInv, CommitCase
  PROVE  IInv'
<1> USE ConstantsAssumption DEF machine, files, journal, run, case, control, CommitCase, Acts, Outcome, Calm, CaseStatus
<1>1. TypeOK'
  BY DEF IInv, TypeOK, Ops, Journaled, Statuses, Verdicts, Lockers, Docs, ControlInv, Deletes
<1>2. ControlInv'
  BY DEF IInv, TypeOK, ControlInv, ArtifactOps, CopyOps, StoredOps, Deletes, Journaled
<1>3. CopyInv'
  BY DEF IInv, TypeOK, ControlInv, CopyInv, ArtifactOps, CopyOps, StoredOps, Deletes, Journaled, Intact
<1>4. CustodyInv'
  BY DEF IInv, TypeOK, ControlInv, CopyInv, CustodyInv, NothingLost, Kept, Authorised, Examined, Intact
<1> QED BY <1>1, <1>2, <1>3, <1>4 DEF IInv

LEMMA CrashInv ==
  ASSUME IInv, Crash
  PROVE  IInv'
<1> USE ConstantsAssumption DEF machine, files, journal, run, case, control, Crash, Stopped, Trouble
<1>1. TypeOK'
  <2>1. hit' \in [Cases -> Ids \union {0}]
    BY DEF IInv, TypeOK
  <2>2. /\ alive' = FALSE /\ blocked' = FALSE
        /\ cur' = NoCase /\ op' = "none" /\ stage' = "none" /\ res' = "ok"
        /\ art' = NoFile /\ status' = "none" /\ exited' = FALSE /\ verdict' = "none"
        /\ tmp' = NoBytes /\ listed' = "none"
        /\ trouble < MaxTrouble /\ trouble' = trouble + 1
        /\ UNCHANGED <<store, record, planned, doc, unfinished, committed, taken, old>>
        /\ UNCHANGED <<path, nextId, locker, late, scheduled, removed>>
    OBVIOUS
  <2>3. path' \in Files \union {NoFile} /\ removed' \subseteq Files
    BY DEF IInv, TypeOK
  <2>4. trouble' \in 0 .. MaxTrouble
    BY <2>2 DEF IInv, TypeOK
  <2>5. /\ cur' \in Cases \union {NoCase} /\ op' \in Ops
        /\ stage' \in {"none", "intent", "act", "remove", "confirm", "schedule", "result"}
        /\ res' \in {"ok", "error", "sharing", "present"}
        /\ art' \in Files \union {NoFile} /\ status' \in Statuses
        /\ verdict' \in Verdicts /\ tmp' \in Bytes \union {NoBytes} /\ listed' \in Lockers
        /\ locker' \in Lockers /\ scheduled' \subseteq Files
    BY <2>2 DEF IInv, TypeOK, Ops, Statuses, Verdicts, Lockers
  <2>6. alive' \in BOOLEAN /\ blocked' \in BOOLEAN /\ exited' \in BOOLEAN
    BY <2>2
  <2> HIDE DEF Crash, Stopped, Trouble
  <2> QED BY <2>1, <2>2, <2>3, <2>4, <2>5, <2>6 DEF IInv, TypeOK
<1>2. ControlInv'
  BY DEF IInv, TypeOK, ControlInv, ArtifactOps, CopyOps, StoredOps, Deletes, Journaled
<1>3. CopyInv'
  BY DEF IInv, TypeOK, ControlInv, CopyInv, ArtifactOps, CopyOps, StoredOps, Deletes, Journaled, Intact
<1>4. CustodyInv'
  BY DEF IInv, TypeOK, ControlInv, CopyInv, CustodyInv, NothingLost, Kept, Authorised, Examined, Intact
<1> QED BY <1>1, <1>2, <1>3, <1>4 DEF IInv

LEMMA RebootInv ==
  ASSUME IInv, Reboot
  PROVE  IInv'
<1> USE ConstantsAssumption DEF machine, files, journal, run, case, control, Reboot, Stopped, Trouble
<1>1. TypeOK'
  <2>1. hit' \in [Cases -> Ids \union {0}]
    BY DEF IInv, TypeOK
  <2>2. /\ alive' = FALSE /\ blocked' = FALSE
        /\ cur' = NoCase /\ op' = "none" /\ stage' = "none" /\ res' = "ok"
        /\ art' = NoFile /\ status' = "none" /\ exited' = FALSE /\ verdict' = "none"
        /\ tmp' = NoBytes /\ listed' = "none"
        /\ trouble < MaxTrouble /\ trouble' = trouble + 1
        /\ UNCHANGED <<store, record, planned, doc, unfinished, committed, taken, old>>
        /\ locker' = "none" /\ scheduled' = {} /\ UNCHANGED <<nextId, late>>
    OBVIOUS
  <2>3. path' \in Files \union {NoFile} /\ removed' \subseteq Files
    BY DEF IInv, TypeOK
  <2>4. trouble' \in 0 .. MaxTrouble
    BY <2>2 DEF IInv, TypeOK
  <2>5. /\ cur' \in Cases \union {NoCase} /\ op' \in Ops
        /\ stage' \in {"none", "intent", "act", "remove", "confirm", "schedule", "result"}
        /\ res' \in {"ok", "error", "sharing", "present"}
        /\ art' \in Files \union {NoFile} /\ status' \in Statuses
        /\ verdict' \in Verdicts /\ tmp' \in Bytes \union {NoBytes} /\ listed' \in Lockers
        /\ locker' \in Lockers /\ scheduled' \subseteq Files
    BY <2>2 DEF IInv, TypeOK, Ops, Statuses, Verdicts, Lockers
  <2>6. alive' \in BOOLEAN /\ blocked' \in BOOLEAN /\ exited' \in BOOLEAN
    BY <2>2
  <2> HIDE DEF Reboot, Stopped, Trouble
  <2> QED BY <2>1, <2>2, <2>3, <2>4, <2>5, <2>6 DEF IInv, TypeOK
<1>2. ControlInv'
  BY DEF IInv, TypeOK, ControlInv, ArtifactOps, CopyOps, StoredOps, Deletes, Journaled
<1>3. CopyInv'
  BY DEF IInv, TypeOK, ControlInv, CopyInv, ArtifactOps, CopyOps, StoredOps, Deletes, Journaled, Intact
<1>4. CustodyInv'
  <2>1. UNCHANGED <<store, late>> /\ Authorised' = {}
    BY DEF Authorised, Examined
  <2>2. CASE UNCHANGED <<path, removed>>
    BY <2>1, <2>2 DEF IInv, CustodyInv, NothingLost, Kept, Intact
  <2>3. CASE path # NoFile /\ scheduled # {} /\ path' = NoFile /\ removed' = removed \union {path}
    <3>1. path.bytes \in Bytes /\ (Intact(path.bytes) \/ path \in late)
      BY <2>3, FileParts DEF IInv, TypeOK, CustodyInv, Authorised
    <3> QED BY <2>1, <2>3, <3>1 DEF IInv, CustodyInv, NothingLost, Kept, Intact
  <2> QED BY <2>2, <2>3
<1> QED BY <1>1, <1>2, <1>3, <1>4 DEF IInv

LEMMA RestartInv ==
  ASSUME IInv, Restart
  PROVE  IInv'
<1> USE ConstantsAssumption DEF machine, files, journal, run, case, control, Restart, Calm
<1>1. TypeOK'
  BY DEF IInv, TypeOK, Ops, Journaled, Statuses, Verdicts, Lockers, Docs, ControlInv, Deletes
<1>2. ControlInv'
  BY DEF IInv, TypeOK, ControlInv, ArtifactOps, CopyOps, StoredOps, Deletes, Journaled
<1>3. CopyInv'
  BY DEF IInv, TypeOK, ControlInv, CopyInv, ArtifactOps, CopyOps, StoredOps, Deletes, Journaled, Intact
<1>4. CustodyInv'
  BY DEF IInv, TypeOK, ControlInv, CopyInv, CustodyInv, NothingLost, Kept, Authorised, Examined, Intact
<1> QED BY <1>1, <1>2, <1>3, <1>4 DEF IInv

\* What follows an operation: another one of the same case, never one that an
\* earlier operation had to prepare, or the end of the case.
LEMMA AfterSteps ==
  ASSUME IInv, stage \in {"intent", "result"}, NEW r, After(r)
  PROVE  /\ op \in Journaled /\ cur \in Cases
         /\ \/ /\ cur' = cur /\ op' \in Journaled \union {"recheck"} /\ res' = "ok"
               /\ stage' = IF op' \in Journaled THEN "intent" ELSE "act"
            \/ cur' = NoCase /\ op' = "none" /\ stage' = "none" /\ res' = "ok"
         /\ status' \in Statuses /\ verdict' \in Verdicts
         /\ op' \in ArtifactOps => op \in ArtifactOps
         /\ op' = "quarantine_publish" => op = "quarantine_hash_verify" /\ r = "ok"
         /\ op' \in StoredOps => \/ op \in StoredOps
                                 \/ op = "quarantine_publish" /\ r = "ok"
                                 \/ /\ op = "quarantine_hash_verify" /\ r = "ok"
                                    /\ store[art.bytes] = art.bytes
<1> USE DEF After, Then, Fails, IfOk, Goto, Settle
<1>1. op \in Journaled /\ cur \in Cases /\ status \in Statuses /\ verdict \in Verdicts
  BY DEF IInv, TypeOK, ControlInv, Journaled
<1>2. CASE op \in {"quarantine_copy", "quarantine_publish"}
  BY <1>1, <1>2 DEF Statuses, ArtifactOps, CopyOps, StoredOps, Deletes, Journaled
<1>3. CASE op = "quarantine_hash_verify"
  <2>1. CASE r = "ok" /\ store[art.bytes] \notin {NoBytes, art.bytes}
    BY <1>1, <1>3, <2>1 DEF Statuses, ArtifactOps, CopyOps, StoredOps, Deletes, Journaled
  <2>2. CASE r = "ok" /\ store[art.bytes] = NoBytes
    BY <1>1, <1>3, <2>2 DEF Statuses, ArtifactOps, CopyOps, StoredOps, Deletes, Journaled
  <2>3. CASE r = "ok" /\ store[art.bytes] # NoBytes /\ store[art.bytes] = art.bytes
    BY <1>1, <1>3, <2>3 DEF Statuses, ArtifactOps, CopyOps, StoredOps, Deletes, Journaled
  <2>4. CASE r # "ok"
    BY <1>1, <1>3, <2>4 DEF Statuses, ArtifactOps, CopyOps, StoredOps, Deletes, Journaled
  <2> QED BY <2>1, <2>2, <2>3, <2>4
<1>4. CASE op \in Deletes \union {"enumerate_lockers", "terminate_locker"}
  BY <1>1, <1>4 DEF AfterDelete, Statuses, ArtifactOps, CopyOps, StoredOps, Deletes, Journaled
<1>5. CASE op \in {"schedule_reboot_delete", "record_ownership", "link_reference"}
  BY <1>1, <1>5 DEF Statuses, ArtifactOps, CopyOps, StoredOps, Deletes, Journaled
<1>6. CASE op \in {"verify_process", "verify_file_absence"}
  BY <1>1, <1>6 DEF Judge, Verdicts, ArtifactOps, CopyOps, StoredOps, Deletes, Journaled
<1>7. CASE op = "case_commit"
  BY <1>1, <1>7 DEF ArtifactOps, CopyOps, StoredOps, Deletes, Journaled
<1> QED BY <1>1, <1>2, <1>3, <1>4, <1>5, <1>6, <1>7 DEF Journaled, Deletes

\* A result, or the failure to write the intent or the result, keeps the control
\* and the copy consistent and authorises nothing.
LEMMA AfterInv ==
  ASSUME IInv, stage \in {"intent", "result"}, NEW r, r = "ok" => res = "ok" /\ stage = "result",
         After(r),
         UNCHANGED <<path, nextId, locker, late, scheduled, removed, store, record, planned, doc,
                     alive, blocked, hit, taken, old, art, exited, tmp, listed>>,
         unfinished' \subseteq Cases \X Journaled, committed' \subseteq Cases \X Journaled,
         trouble' \in 0 .. MaxTrouble
  PROVE  IInv'
<1>1. /\ op \in Journaled /\ cur \in Cases
      /\ \/ /\ cur' = cur /\ op' \in Journaled \union {"recheck"} /\ res' = "ok"
            /\ stage' = IF op' \in Journaled THEN "intent" ELSE "act"
         \/ cur' = NoCase /\ op' = "none" /\ stage' = "none" /\ res' = "ok"
      /\ status' \in Statuses /\ verdict' \in Verdicts
      /\ op' \in ArtifactOps => op \in ArtifactOps
      /\ op' = "quarantine_publish" => op = "quarantine_hash_verify" /\ r = "ok"
      /\ op' \in StoredOps => \/ op \in StoredOps
                              \/ op = "quarantine_publish" /\ r = "ok"
                              \/ /\ op = "quarantine_hash_verify" /\ r = "ok"
                                 /\ store[art.bytes] = art.bytes
  BY AfterSteps
<1>2. TypeOK'
  BY <1>1 DEF IInv, TypeOK, Ops
<1>3. ControlInv'
  BY <1>1, ConstantsAssumption DEF IInv, TypeOK, ControlInv, ArtifactOps, CopyOps, StoredOps, Deletes, Journaled
<1>4. CopyInv'
  BY <1>1 DEF IInv, CopyInv, Intact
<1>5. CustodyInv'
  <2>1. stage' \notin {"remove", "schedule"}
    BY <1>1
  <2> QED BY <2>1, CustodyFrame DEF IInv, Authorised, Examined
<1> QED BY <1>2, <1>3, <1>4, <1>5 DEF IInv

LEMMA IntentFailsInv ==
  ASSUME IInv, IntentFails
  PROVE  IInv'
<1> USE DEF machine, files, journal, run
<1>1. PICK f \in Faults : After(f)
  BY DEF IntentFails
<1>2. f # "ok" /\ stage = "intent"
  BY DEF IntentFails, Faults
<1>3. trouble' \in 0 .. MaxTrouble /\ UNCHANGED <<unfinished, committed>>
  BY ConstantsAssumption DEF IntentFails, Trouble, IInv, TypeOK
<1> QED BY <1>1, <1>2, <1>3, AfterInv DEF IntentFails, IInv, TypeOK

LEMMA WriteResultInv ==
  ASSUME IInv, WriteResult
  PROVE  IInv'
<1> USE DEF machine, files, journal, run
<1>1. op \in Journaled /\ cur \in Cases
  BY DEF WriteResult, IInv, TypeOK, ControlInv, Journaled
<1>2. unfinished' \subseteq Cases \X Journaled /\ committed' \subseteq Cases \X Journaled
  BY <1>1 DEF WriteResult, IInv, TypeOK
<1>3. trouble' \in 0 .. MaxTrouble
  BY DEF WriteResult, Calm, IInv, TypeOK
<1> QED BY <1>2, <1>3, AfterInv DEF WriteResult

LEMMA ResultFailsInv ==
  ASSUME IInv, ResultFails
  PROVE  IInv'
<1> USE DEF machine, files, journal, run
<1>1. PICK f \in Faults : After(Joined(res, f))
  BY DEF ResultFails
<1>2. Joined(res, f) # "ok" /\ stage = "result"
  BY DEF ResultFails, Joined
<1>3. trouble' \in 0 .. MaxTrouble /\ UNCHANGED <<unfinished, committed>>
  BY ConstantsAssumption DEF ResultFails, Trouble, IInv, TypeOK
<1> QED BY <1>1, <1>2, <1>3, AfterInv DEF ResultFails, IInv, TypeOK

-------------------------------------------------------------------------------
LEMMA InitInv == Init => IInv
<1> SUFFICES ASSUME Init PROVE IInv
  OBVIOUS
<1> USE ConstantsAssumption DEF Init
<1>1. path \in Files /\ nextId \in 1 .. MaxFiles + 1
  BY DEF Files, Ids
<1>2. TypeOK
  <2>1. /\ store \in [Bytes -> Bytes \union {NoBytes}]
        /\ record \in [Ids -> [owner : Cases, bytes : Bytes] \union {NoRecord}]
        /\ doc \in [Cases -> Docs \union {NoDoc}]
        /\ hit \in [Cases -> Ids \union {0}]
    OBVIOUS
  <2>2. /\ scheduled \subseteq Files /\ removed \subseteq Files /\ late \subseteq Files
        /\ planned \subseteq Cases /\ taken \subseteq Cases /\ old \subseteq Cases
        /\ unfinished \subseteq Cases \X Journaled /\ committed \subseteq Cases \X Journaled
        /\ trouble \in 0 .. MaxTrouble
    OBVIOUS
  <2>3. /\ cur = NoCase /\ op \in Ops /\ stage = "none" /\ res = "ok" /\ art = NoFile
        /\ status \in Statuses /\ verdict \in Verdicts /\ listed \in Lockers /\ locker \in Lockers
        /\ tmp = NoBytes /\ alive = TRUE /\ blocked = FALSE /\ exited = FALSE
    BY DEF Ops, Statuses, Verdicts, Lockers
  <2> HIDE DEF Init
  <2> QED BY <1>1, <2>1, <2>2, <2>3 DEF TypeOK
<1>3. ControlInv
  BY <1>1 DEF ControlInv, ArtifactOps, CopyOps, StoredOps, Deletes, Journaled
<1>4. CopyInv
  BY DEF CopyInv, StoredOps, Deletes
<1>5. CustodyInv
  BY DEF CustodyInv, NothingLost, Authorised, Examined
<1> QED BY <1>2, <1>3, <1>4, <1>5 DEF IInv

LEMMA NextInv == IInv /\ [Next]_vars => IInv'
<1> SUFFICES ASSUME IInv, [Next]_vars PROVE IInv'
  OBVIOUS
<1>1. CASE World
  BY <1>1, EditInv, ReplaceInv, VanishInv, LockerChangesInv, DetectInv DEF World, Lockers
<1>2. CASE Perform
  BY <1>2, QuarantineCopyInv, QuarantineHashVerifyInv, QuarantinePublishInv, CheckOriginalInv,
     RemoveOriginalInv, ConfirmRemovedInv, EnumerateLockersInv, TerminateLockerInv,
     CheckScheduledInv, ScheduleDeleteInv, RecordOwnershipInv, LinkReferenceInv,
     VerifyProcessInv, VerifyFileAbsenceInv, CommitCaseInv DEF Perform
<1>3. CASE Agent /\ ~Perform
  BY <1>3, ContainInv, ShareInv, EvidenceInv, PlanInv, MatchInv, RecheckInv, WriteIntentInv,
     IntentFailsInv, ActionFailsInv, WriteResultInv, ResultFailsInv DEF Agent
<1>4. ASSUME NEW c \in Cases, Take(c) PROVE IInv'
  BY <1>4, TakeInv
<1>5. CASE Crash \/ Reboot \/ Restart
  BY <1>5, CrashInv, RebootInv, RestartInv
<1>6. CASE UNCHANGED vars
  <2>1. CustodyInv'
    BY <1>6, CustodyFrame DEF vars, machine, files, run, case, control, IInv, Authorised, Examined
  <2>2. TypeOK' /\ ControlInv' /\ CopyInv'
    BY <1>6 DEF vars, machine, files, journal, run, case, control, IInv, TypeOK, ControlInv, CopyInv, Intact
  <2> QED BY <2>1, <2>2 DEF IInv
<1> QED BY <1>1, <1>2, <1>3, <1>4, <1>5, <1>6 DEF Next, Waits

LEMMA Invariance == Spec => []IInv
BY InitInv, NextInv, PTL DEF Spec

-------------------------------------------------------------------------------
(* Identities, ownership records and the cases called quarantined *)

\* Operations after which handle only verifies and saves; those that deal with a
\* file nobody has recorded yet.
FinalOps == {"verify_process", "verify_file_absence", "case_commit"}
UnrecordedOps == {"contain", "evidence", "plan"} \union (ArtifactOps \ {"record_ownership"})

\* The file with this identity is no longer at the path.
Gone(i) == path = NoFile \/ path.id # i

\* Identities are given out once, so a file that left the path does not come
\* back; ownership is recorded once, for a file that is gone and kept; and a case
\* is called quarantined only on a record of its own.
RecordInv ==
  /\ path # NoFile => path.id < nextId
  /\ art # NoFile => art.id < nextId
  /\ \A c \in Cases : hit[c] < nextId
  /\ \A i \in Ids : record[i] # NoRecord => i < nextId /\ Gone(i) /\ Intact(record[i].bytes)
  /\ (op = "plan" /\ status = "pending") \/ op \in ArtifactOps => art.id = hit[cur]
  /\ op \in UnrecordedOps \/ (op = "record_ownership" /\ stage # "result") => record[hit[cur]] = NoRecord
  /\ op \in Deletes /\ stage = "result" /\ res = "ok" => Gone(art.id)
  /\ op = "record_ownership" => Gone(art.id)
  /\ (op = "record_ownership" /\ stage = "result" /\ res = "ok") =>
       record[art.id] = [owner |-> cur, bytes |-> art.bytes]
  /\ status = "quarantined" /\ cur # NoCase =>
       op \in FinalOps /\ art # NoFile /\ record[art.id] = [owner |-> cur, bytes |-> art.bytes]
  /\ \A c \in Cases : doc[c] # NoDoc /\ doc[c].artifact = "quarantined" =>
       LET f == doc[c].file
       IN f # NoFile /\ record[f.id] = [owner |-> c, bytes |-> f.bytes]

\* What follows an operation, for the artifact and its status: what is being
\* done to it ends before it is saved, ownership is recorded only after a
\* deletion that was confirmed, and the status changes only on the way to the end.
LEMMA AfterEnds ==
  ASSUME IInv, stage \in {"intent", "result"}, NEW r, After(r)
  PROVE  /\ op' \notin {"plan", "contain", "contain_known", "share", "evidence"}
         /\ op' \in ArtifactOps => op \in ArtifactOps \ {"record_ownership", "schedule_reboot_delete"}
         /\ op' = "record_ownership" => op \in Deletes /\ r = "ok"
         /\ op = "schedule_reboot_delete" =>
              cur' = cur /\ op' \in FinalOps /\ (r = "ok" => status' = "pending_reboot")
         /\ op = "case_commit" <=> cur' = NoCase
         /\ op \in FinalOps => status' = status /\ (op' \in FinalOps \/ cur' = NoCase)
         /\ status' = status \/ op' \in FinalOps
         /\ status' = "quarantined" => status = "quarantined" \/ (op = "record_ownership" /\ r = "ok")
<1> USE DEF After, Then, Fails, IfOk, Goto, Settle, FinalOps
<1>1. op \in Journaled /\ cur \in Cases /\ cur # NoCase
  BY ConstantsAssumption DEF IInv, TypeOK, ControlInv, Journaled
<1>2. CASE op \in {"quarantine_copy", "quarantine_publish"}
  BY <1>1, <1>2 DEF ArtifactOps, CopyOps, StoredOps, Deletes
<1>3. CASE op = "quarantine_hash_verify"
  <2>1. CASE r = "ok" /\ store[art.bytes] \notin {NoBytes, art.bytes}
    BY <1>1, <1>3, <2>1 DEF ArtifactOps, CopyOps, StoredOps, Deletes
  <2>2. CASE ~(r = "ok" /\ store[art.bytes] \notin {NoBytes, art.bytes})
    BY <1>1, <1>3, <2>2 DEF ArtifactOps, CopyOps, StoredOps, Deletes
  <2> QED BY <2>1, <2>2
<1>4. CASE op \in Deletes \union {"enumerate_lockers", "terminate_locker"}
  BY <1>1, <1>4 DEF AfterDelete, ArtifactOps, CopyOps, StoredOps, Deletes
<1>5. CASE op \in {"schedule_reboot_delete", "record_ownership", "link_reference"}
  BY <1>1, <1>5 DEF ArtifactOps, CopyOps, StoredOps, Deletes
<1>6. CASE op \in {"verify_process", "verify_file_absence"}
  BY <1>1, <1>6 DEF ArtifactOps, CopyOps, StoredOps, Deletes
<1>7. CASE op = "case_commit"
  BY <1>1, <1>7 DEF ArtifactOps, CopyOps, StoredOps, Deletes
<1> QED BY <1>1, <1>2, <1>3, <1>4, <1>5, <1>6, <1>7 DEF Journaled, Deletes

\* The operation goes on to another stage and has not just come out well.
LEMMA RecordFrame ==
  ASSUME RecordInv, UNCHANGED <<path, nextId, store, record, doc, hit, art, status, cur, op>>,
         \/ UNCHANGED <<stage, res>>
         \/ stage' # "result" /\ stage # "result"
         \/ stage' = "result" /\ (res' # "ok" \/ op \notin Deletes \union {"record_ownership"})
  PROVE  RecordInv'
BY DEF RecordInv, Gone, Intact

LEMMA RecordWorld ==
  ASSUME IInv, RecordInv, World
  PROVE  RecordInv'
<1> USE DEF machine, files, journal, run, case, control, Arrives
<1>1. ASSUME NEW b \in Bytes, Edit(b) PROVE RecordInv'
  <2>1. path # NoFile /\ path' # NoFile /\ path'.id = path.id
    BY <1>1, FileParts DEF Edit, IInv, TypeOK, Files
  <2> QED BY <1>1, <2>1 DEF Edit, RecordInv, Gone, Intact
<1>2. ASSUME NEW b \in Bytes, Replace(b) PROVE RecordInv'
  <2>1. path'.id = nextId /\ nextId' = nextId + 1 /\ nextId \in Nat /\ \A i \in Ids : i \in Nat
    BY <1>2 DEF Replace, IInv, TypeOK, Ids
  <2>2. art # NoFile => art.id \in Nat
    BY <2>1, FileParts DEF IInv, TypeOK
  <2>3. \A c \in Cases : hit[c] \in Nat
    <3>1. hit \in [Cases -> Ids \union {0}]
      BY DEF IInv, TypeOK
    <3> QED BY <2>1, <3>1
  <2>4. UNCHANGED <<store, record, doc, hit, art, status, cur, op, stage, res>>
    BY <1>2 DEF Replace
  <2>5. \A i \in Ids : record[i] # NoRecord => i < nextId' /\ Gone(i)' /\ Intact(record[i].bytes)'
    BY <2>1, <2>4 DEF RecordInv, Gone, Intact
  <2>6. (art # NoFile => art.id < nextId') /\ \A c \in Cases : hit[c] < nextId'
    BY <2>1, <2>2, <2>3 DEF RecordInv
  <2>7. op \in Deletes \union {"record_ownership"} => art.id # path'.id
    <3>1. op \in Deletes \union {"record_ownership"} => art # NoFile
      BY FileParts DEF IInv, ControlInv, ArtifactOps, StoredOps
    <3> QED BY <2>1, <2>2, <3>1 DEF RecordInv
  <2> QED BY <2>1, <2>4, <2>5, <2>6, <2>7 DEF RecordInv, Gone
<1>3. CASE Vanish
  BY <1>3 DEF Vanish, RecordInv, Gone, Intact
<1>4. ASSUME NEW k \in Lockers, LockerChanges(k) PROVE RecordInv'
  BY <1>4, RecordFrame DEF LockerChanges
<1>5. ASSUME NEW c \in Cases, Detect(c) PROVE RecordInv'
  <2>1. \A d \in Cases : hit'[d] < nextId
    BY <1>5 DEF Detect, RecordInv, IInv, TypeOK
  <2>2. cur # NoCase => hit'[cur] = hit[cur]
    BY <1>5 DEF Detect, IInv, TypeOK, ControlInv
  <2>3. op # "none" => cur # NoCase
    BY DEF IInv, ControlInv
  <2> QED BY <1>5, <2>1, <2>2, <2>3 DEF Detect, RecordInv, Gone, Intact,
        UnrecordedOps, ArtifactOps, CopyOps, StoredOps, Deletes
<1> QED BY <1>1, <1>2, <1>3, <1>4, <1>5 DEF World, Lockers

LEMMA RecordTake ==
  ASSUME IInv, RecordInv, NEW c \in Cases, Take(c)
  PROVE  RecordInv'
BY DEF machine, files, Take, RecordInv, Gone, Intact, UnrecordedOps, ArtifactOps, CopyOps,
   StoredOps, Deletes

LEMMA RecordHandle ==
  ASSUME IInv, RecordInv, Contain \/ Share \/ Evidence \/ Plan \/ Match \/ Recheck
  PROVE  RecordInv'
<1> USE DEF machine, files, run, Goto, Settle, UnrecordedOps, ArtifactOps, CopyOps, StoredOps,
        Deletes, FinalOps
<1>1. UNCHANGED <<path, nextId, store, record, doc, hit, cur>> /\ stage' # "result"
  BY DEF Contain, Share, Evidence, Plan, Match, Recheck
<1>2. cur # NoCase /\ cur \in Cases
  BY DEF Contain, Share, Evidence, Plan, Match, Recheck, IInv, TypeOK, ControlInv
<1>3. CASE Contain
  BY <1>1, <1>2, <1>3 DEF Contain, RecordInv, Gone, Intact
<1>4. CASE Share
  BY <1>1, <1>2, <1>4 DEF Share, RecordInv, Gone, Intact
<1>5. CASE Evidence
  BY <1>1, <1>2, <1>5 DEF Evidence, RecordInv, Gone, Intact
<1>6. CASE Plan
  BY <1>1, <1>2, <1>6 DEF Plan, RecordInv, Gone, Intact
<1>7. CASE Match
  BY <1>1, <1>2, <1>7 DEF Match, RecordInv, Gone, Intact
<1>8. CASE Recheck
  BY <1>1, <1>2, <1>8 DEF Recheck, RecordInv, Gone, Intact
<1> QED BY <1>3, <1>4, <1>5, <1>6, <1>7, <1>8

LEMMA RecordPerform ==
  ASSUME IInv, RecordInv, Perform \/ WriteIntent \/ ActionFails
  PROVE  RecordInv'
<1> USE DEF machine, files, run, case, control, Outcome, Acts
<1>1. CASE WriteIntent
  BY <1>1, RecordFrame DEF WriteIntent
<1>2. CASE \/ QuarantineCopy \/ QuarantineHashVerify \/ CheckOriginal \/ EnumerateLockers
           \/ TerminateLocker \/ CheckScheduled \/ ScheduleDelete \/ LinkReference
           \/ VerifyProcess \/ VerifyFileAbsence \/ ActionFails
  <2>1. UNCHANGED <<path, nextId, store, record, doc, hit, art, status, cur, op>>
    BY <1>2 DEF QuarantineCopy, QuarantineHashVerify, CheckOriginal, EnumerateLockers,
       TerminateLocker, CheckScheduled, ScheduleDelete, LinkReference, VerifyProcess,
       VerifyFileAbsence, ActionFails
  <2>2. \/ stage' # "result" /\ stage # "result"
        \/ stage' = "result" /\ (res' # "ok" \/ op \notin Deletes \union {"record_ownership"})
    BY <1>2 DEF QuarantineCopy, QuarantineHashVerify, CheckOriginal, EnumerateLockers,
       TerminateLocker, CheckScheduled, ScheduleDelete, LinkReference, VerifyProcess,
       VerifyFileAbsence, ActionFails, IInv, ControlInv, Deletes
  <2> QED BY <2>1, <2>2, RecordFrame
<1>3. CASE QuarantinePublish
  <2>1. art \in Files /\ tmp = art.bytes /\ art.bytes \in Bytes
    BY <1>3, FileParts DEF QuarantinePublish, IInv, ControlInv, CopyInv, ArtifactOps
  <2>2. \A b \in Bytes : Intact(b) => Intact(b)'
    BY <1>3, <2>1 DEF QuarantinePublish, Intact, IInv, TypeOK
  <2>3. \A i \in Ids : record[i] # NoRecord => record[i].bytes \in Bytes
    BY DEF IInv, TypeOK
  <2> QED BY <1>3, <2>2, <2>3 DEF QuarantinePublish, RecordInv, Gone, Deletes
<1>4. CASE RemoveOriginal
  BY <1>4 DEF RemoveOriginal, RecordInv, Gone, Intact, IInv, ControlInv, Deletes
<1>5. CASE ConfirmRemoved
  BY <1>5 DEF ConfirmRemoved, RecordInv, Gone, Intact, IInv, ControlInv, Deletes
<1>6. CASE RecordOwnership
  <2>1. art \in Files /\ art.id \in Ids /\ art # NoFile
    BY <1>6, FileParts DEF RecordOwnership, IInv, ControlInv, ArtifactOps, StoredOps
  <2>2. /\ record[art.id] = NoRecord /\ art.id < nextId /\ Gone(art.id) /\ Intact(art.bytes)
        /\ status # "quarantined" \/ cur = NoCase
    BY <1>6, <2>1 DEF RecordOwnership, RecordInv, IInv, CopyInv, StoredOps, ArtifactOps, FinalOps
  <2>3. /\ record'[art.id] = [owner |-> cur, bytes |-> art.bytes]
        /\ \A i \in Ids \ {art.id} : record'[i] = record[i]
    BY <1>6, <2>1 DEF RecordOwnership, IInv, TypeOK
  <2>4. \A i \in Ids : record'[i] # NoRecord => i < nextId /\ Gone(i) /\ Intact(record'[i].bytes)
    BY <2>2, <2>3 DEF RecordInv
  <2>5. \A c \in Cases : doc[c] # NoDoc /\ doc[c].artifact = "quarantined" =>
          LET f == doc[c].file
          IN f # NoFile /\ record'[f.id] = [owner |-> c, bytes |-> f.bytes]
    <3>1. \A c \in Cases : doc[c] # NoDoc => doc[c].file \in Files \union {NoFile}
      BY DEF IInv, TypeOK, Docs
    <3>2. \A c \in Cases, f \in Files : NoRecord # [owner |-> c, bytes |-> f.bytes]
      BY FileParts, ConstantsAssumption
    <3> QED BY <2>2, <2>3, <3>1, <3>2, FileParts DEF RecordInv
  <2>6. /\ UNCHANGED <<path, nextId, store, doc, hit, art, status, cur, op>>
        /\ op = "record_ownership" /\ stage' = "result"
    BY <1>6 DEF RecordOwnership
  <2> QED BY <2>1, <2>2, <2>3, <2>4, <2>5, <2>6
      DEF RecordInv, Gone, Intact, UnrecordedOps, Deletes
<1>7. CASE CommitCase
  <2>1. cur \in Cases /\ cur # NoCase
    BY <1>7, ConstantsAssumption DEF CommitCase, IInv, TypeOK, ControlInv
  <2>2. /\ doc'[cur].artifact = status /\ doc'[cur].file = art
        /\ \A c \in Cases \ {cur} : doc'[c] = doc[c]
    BY <1>7, <2>1 DEF CommitCase, IInv, TypeOK
  <2> QED BY <1>7, <2>1, <2>2 DEF CommitCase, RecordInv, Gone, Intact, Deletes
<1> QED BY <1>1, <1>2, <1>3, <1>4, <1>5, <1>6, <1>7 DEF Perform

LEMMA RecordAfter ==
  ASSUME IInv, RecordInv, stage \in {"intent", "result"}, NEW r,
         r = "ok" => res = "ok" /\ stage = "result", After(r),
         UNCHANGED <<path, nextId, store, record, doc, hit, art>>
  PROVE  RecordInv'
<1>1. /\ cur' = cur \/ cur' = NoCase
      /\ stage' # "result"
  BY AfterSteps DEF Journaled
<1>2. op' = "record_ownership" => Gone(art.id) /\ record[hit[cur]] = NoRecord
  BY AfterEnds DEF RecordInv, UnrecordedOps, ArtifactOps, StoredOps, Deletes
<1>3. status' = "quarantined" /\ cur' # NoCase =>
        op' \in FinalOps /\ art # NoFile /\ record[art.id] = [owner |-> cur, bytes |-> art.bytes]
  <2>1. CASE op = "record_ownership" /\ r = "ok"
    <3>1. art # NoFile
      BY <2>1, FileParts DEF IInv, ControlInv, ArtifactOps, StoredOps
    <3>2. op' \in FinalOps
      BY <2>1 DEF After, Settle, Goto, FinalOps, Deletes
    <3> QED BY <2>1, <3>1, <3>2 DEF RecordInv
  <2>2. CASE status = "quarantined"
    BY <1>1, <2>2, AfterEnds DEF RecordInv
  <2> QED BY <2>1, <2>2, AfterEnds
<1>4. /\ op' \in ArtifactOps => art.id = hit[cur] /\ cur' = cur
      /\ op' \in UnrecordedOps => record[hit[cur]] = NoRecord /\ cur' = cur
      /\ op' = "record_ownership" => cur' = cur
  BY <1>1, AfterSteps, AfterEnds DEF RecordInv, UnrecordedOps, ArtifactOps, CopyOps, StoredOps, Deletes
<1> QED BY <1>1, <1>2, <1>3, <1>4, AfterEnds DEF RecordInv, Gone, Intact

LEMMA RecordStops ==
  ASSUME IInv, RecordInv, Crash \/ Reboot \/ Restart
  PROVE  RecordInv'
<1> USE DEF machine, files, run, case, control, Stopped
<1>1. CASE Restart
  BY <1>1, RecordFrame DEF Restart
<1>2. CASE Crash \/ Reboot
  <2>1. /\ UNCHANGED <<nextId, store, record, doc>> /\ path' \in {path, NoFile}
        /\ cur' = NoCase /\ op' = "none" /\ art' = NoFile /\ status' = "none"
    BY <1>2 DEF Crash, Reboot
  <2>2. \A c \in Cases : hit'[c] < nextId
    <3>1. nextId \in Nat /\ nextId > 0 /\ \A c \in Cases : hit'[c] \in {hit[c], 0}
      BY <1>2, ConstantsAssumption DEF Crash, Reboot, IInv, TypeOK
    <3> QED BY <3>1 DEF RecordInv
  <2> QED BY <2>1, <2>2 DEF RecordInv, Gone, Intact, UnrecordedOps, ArtifactOps, CopyOps,
        StoredOps, Deletes
<1> QED BY <1>1, <1>2

LEMMA RecordNext == IInv /\ RecordInv /\ [Next]_vars => RecordInv'
<1> SUFFICES ASSUME IInv, RecordInv, [Next]_vars PROVE RecordInv'
  OBVIOUS
<1> USE DEF machine, files, run, case, control
<1>1. CASE World
  BY <1>1, RecordWorld
<1>2. CASE IntentFails
  <2>1. PICK f \in Faults : After(f)
    BY <1>2 DEF IntentFails
  <2> QED BY <1>2, <2>1, RecordAfter DEF IntentFails, Faults
<1>3. CASE WriteResult
  BY <1>3, RecordAfter DEF WriteResult
<1>4. CASE ResultFails
  <2>1. PICK f \in Faults : After(Joined(res, f))
    BY <1>4 DEF ResultFails
  <2> QED BY <1>4, <2>1, RecordAfter DEF ResultFails, Joined
<1>5. CASE Agent /\ ~(IntentFails \/ WriteResult \/ ResultFails)
  BY <1>5, RecordHandle, RecordPerform DEF Agent
<1>6. ASSUME NEW c \in Cases, Take(c) PROVE RecordInv'
  BY <1>6, RecordTake
<1>7. CASE Crash \/ Reboot \/ Restart
  BY <1>7, RecordStops
<1>8. CASE UNCHANGED vars
  BY <1>8, RecordFrame DEF vars
<1> QED BY <1>1, <1>2, <1>3, <1>4, <1>5, <1>6, <1>7, <1>8 DEF Next, Waits

LEMMA RecordInit == Init => RecordInv
BY ConstantsAssumption DEF Init, RecordInv, UnrecordedOps, ArtifactOps, CopyOps, StoredOps, Deletes

\* A case file that says quarantined stays true: the file it names has left the
\* path and does not come back, whatever else takes the path, its bytes stay in
\* the store, and no later case records it as its own.
THEOREM QuarantinedCasesAreTrue == Spec => []QuarantinedIsTrue
<1>1. IInv /\ RecordInv => QuarantinedIsTrue
  <2> SUFFICES ASSUME IInv, RecordInv, NEW c \in Cases, doc[c] # NoDoc,
                      doc[c].artifact = "quarantined"
               PROVE  LET f == doc[c].file
                      IN /\ f # NoFile
                         /\ Intact(f.bytes)
                         /\ record[f.id] = [owner |-> c, bytes |-> f.bytes]
                         /\ (path = NoFile \/ path.id # f.id)
    BY DEF QuarantinedIsTrue
  <2> DEFINE f == doc[c].file
  <2>1. f # NoFile /\ record[f.id] = [owner |-> c, bytes |-> f.bytes]
    BY DEF RecordInv
  <2>2. f \in Files /\ f.id \in Ids /\ f.bytes \in Bytes
    BY <2>1, FileParts DEF IInv, TypeOK, Docs
  <2>3. record[f.id] # NoRecord
    BY <2>1, <2>2, ConstantsAssumption
  <2> QED BY <2>1, <2>2, <2>3 DEF RecordInv, Gone
<1> QED BY <1>1, RecordInit, RecordNext, Invariance, PTL DEF Spec

-------------------------------------------------------------------------------
(* The journal, the plans and the case files *)

\* A case the next start will find, if the deletion it registered is not done by
\* then: its operation has no result, or its case file is missing or waits for
\* the reboot.  While it is being handled it is past the registration.
Registered(c) == <<c, "schedule_reboot_delete">> \in unfinished \union committed
Told(c) ==
  /\ c \in planned /\ Registered(c)
  /\ c = cur => \/ op = "schedule_reboot_delete" /\ stage = "result" /\ res = "ok"
                \/ op \in FinalOps
  /\ \/ <<c, "schedule_reboot_delete">> \in unfinished
     \/ /\ doc[c] = NoDoc \/ doc[c].artifact = "pending_reboot"
        /\ c = cur => status = "pending_reboot"

\* The journal, the plans and the case files name cases in the order handle
\* writes them, once per case; and an unblocked agent found none of the cases of
\* earlier runs open.
JournalInv ==
  /\ \A c \in Cases, o \in Journaled : <<c, o>> \in unfinished \union committed => c \in taken
  /\ planned \subseteq taken
  /\ \A c \in Cases : doc[c] # NoDoc => c \in taken
  /\ op \in Journaled /\ stage # "intent" => <<cur, op>> \in unfinished
  /\ op \in ArtifactOps => cur \in planned
  /\ \A c \in Cases, o \in Deletes : <<c, o>> \in unfinished \union committed => c \in planned
  /\ cur # NoCase /\ ~(op = "case_commit" /\ stage = "result") => doc[cur] = NoDoc
  /\ scheduled # {} => \E c \in Cases : Told(c)
  /\ old \subseteq taken /\ cur \notin old
  /\ cur # NoCase => alive
  /\ cur # NoCase /\ op # "case_commit" => ~blocked
  /\ alive /\ ~blocked => \A c \in old : ~Finding(c)
  /\ \A c \in Cases : doc[c] # NoDoc /\ doc[c].state = "pending_reboot" => doc[c].artifact = "pending_reboot"

\* A step that leaves the journal, the plans, the case files and the registered
\* deletions alone, and stays in its operation.
LEMMA JournalFrame ==
  ASSUME JournalInv,
         UNCHANGED <<scheduled, planned, doc, unfinished, committed, alive, blocked, taken, old,
                     cur, op, status>>,
         stage = "intent" => stage' = "intent",
         op = "schedule_reboot_delete" /\ stage = "result" => UNCHANGED <<stage, res>>,
         op = "case_commit" /\ stage = "result" => UNCHANGED stage
  PROVE  JournalInv'
BY DEF JournalInv, Told, Registered, Finding

\* A step to another operation of the same case, before anything was deleted.
LEMMA JournalGoto ==
  ASSUME IInv, JournalInv, cur # NoCase, op \notin FinalOps \union {"schedule_reboot_delete"},
         UNCHANGED <<scheduled, doc, unfinished, committed, alive, blocked, taken, old, cur>>,
         planned' \in {planned, planned \union {cur}},
         op' \in Ops, stage' = IF op' \in Journaled THEN "intent" ELSE "act",
         op' \in ArtifactOps => cur \in planned'
  PROVE  JournalInv'
<1>1. cur \in Cases /\ cur \in taken
  BY DEF IInv, TypeOK, ControlInv
<1>2. \A c \in Cases \ {cur} : Told(c) => Told(c)'
  BY DEF Told, Registered
<1>3. ~Told(cur)
  BY DEF Told
<1>4. \A c \in old : Finding(c)' => Finding(c)
  BY DEF JournalInv, Finding
<1> QED BY <1>1, <1>2, <1>3, <1>4 DEF JournalInv, FinalOps

LEMMA JournalTake ==
  ASSUME IInv, JournalInv, NEW c \in Cases, Take(c)
  PROVE  JournalInv'
<1> USE DEF machine, files, journal, run
<1>1. /\ UNCHANGED <<scheduled, planned, doc, unfinished, committed, alive, blocked, old>>
      /\ alive /\ cur = NoCase /\ c \notin taken /\ taken' = taken \union {c} /\ cur' = c
      /\ op' \in {"contain", "contain_known", "case_commit"} /\ (blocked => op' = "case_commit")
      /\ stage' = IF op' \in Journaled THEN "intent" ELSE "act"
  BY DEF Take, Idle
<1>2. \A d \in Cases : Told(d) => d \in taken
  BY DEF JournalInv, Told
<1>3. \A d \in Cases \ {c} : Told(d) => Told(d)'
  BY <1>1 DEF Told, Registered
<1>4. \A d \in Cases : Finding(d)' <=> Finding(d)
  BY <1>1 DEF Finding
<1>5. taken \subseteq Cases /\ op' \notin ArtifactOps
  BY <1>1 DEF IInv, TypeOK, ArtifactOps, CopyOps, StoredOps, Deletes
<1> QED BY <1>1, <1>2, <1>3, <1>4, <1>5 DEF JournalInv

LEMMA JournalHandle ==
  ASSUME IInv, JournalInv, Contain \/ Share \/ Evidence \/ Plan \/ Match \/ Recheck
  PROVE  JournalInv'
<1> USE DEF machine, files, journal, run
<1>1. /\ op \in {"contain", "contain_known", "share", "evidence", "plan", "match", "recheck"}
      /\ cur # NoCase
  BY DEF Contain, Share, Evidence, Plan, Match, Recheck, IInv, ControlInv
<1>2. /\ UNCHANGED <<scheduled, doc, unfinished, committed, alive, blocked, taken, old, cur>>
      /\ op' \in Ops /\ stage' = IF op' \in Journaled THEN "intent" ELSE "act"
  BY DEF Contain, Share, Evidence, Plan, Match, Recheck, Goto, Settle, Ops, Journaled
<1>3. /\ planned' \in {planned, planned \union {cur}}
      /\ op' \in ArtifactOps => cur \in planned'
  BY DEF Contain, Share, Evidence, Plan, Match, Recheck, Goto, Settle, JournalInv, ArtifactOps,
     CopyOps, StoredOps, Deletes
<1> QED BY <1>1, <1>2, <1>3, JournalGoto DEF FinalOps

LEMMA JournalPerform ==
  ASSUME IInv, JournalInv, Perform \/ WriteIntent \/ ActionFails
  PROVE  JournalInv'
<1> USE DEF machine, files, journal, run, case, Outcome, Acts
<1>1. CASE WriteIntent
  <2>1. /\ unfinished' = unfinished \union {<<cur, op>>} /\ stage = "intent" /\ stage' = "act"
        /\ UNCHANGED <<scheduled, planned, doc, committed, alive, blocked, taken, old, cur, op, status>>
    BY <1>1 DEF WriteIntent
  <2>2. cur \in taken /\ op \in Journaled /\ (op \in Deletes => op \in ArtifactOps)
    BY <2>1 DEF IInv, ControlInv, ArtifactOps, StoredOps, Journaled
  <2>3. \A c \in Cases : Told(c) => Told(c)'
    BY <2>1 DEF Told, Registered
  <2>4. \A c \in old : Finding(c)' => Finding(c)
    BY <2>1 DEF JournalInv, Finding
  <2> QED BY <2>1, <2>2, <2>3, <2>4 DEF JournalInv
<1>2. CASE \/ QuarantineCopy \/ QuarantineHashVerify \/ QuarantinePublish \/ CheckOriginal
           \/ RemoveOriginal \/ ConfirmRemoved \/ EnumerateLockers \/ TerminateLocker
           \/ CheckScheduled \/ RecordOwnership \/ LinkReference \/ VerifyProcess
           \/ VerifyFileAbsence \/ ActionFails
  <2>1. /\ UNCHANGED <<scheduled, planned, doc, unfinished, committed, alive, blocked, taken, old,
                       cur, op, status>>
        /\ stage \notin {"intent", "result"}
    BY <1>2 DEF QuarantineCopy, QuarantineHashVerify, QuarantinePublish, CheckOriginal,
       RemoveOriginal, ConfirmRemoved, EnumerateLockers, TerminateLocker, CheckScheduled,
       RecordOwnership, LinkReference, VerifyProcess, VerifyFileAbsence, ActionFails
  <2> QED BY <2>1, JournalFrame
<1>3. CASE ScheduleDelete
  <2>1. /\ UNCHANGED <<planned, doc, unfinished, committed, alive, blocked, taken, old, cur, op, status>>
        /\ stage = "schedule" /\ stage' = "result" /\ res' = "ok"
    BY <1>3 DEF ScheduleDelete
  <2>2. op = "schedule_reboot_delete" /\ cur \in Cases
    BY <2>1 DEF IInv, TypeOK, ControlInv
  <2>3. <<cur, op>> \in unfinished /\ cur \in planned
    BY <2>1, <2>2 DEF JournalInv, Journaled, ArtifactOps, StoredOps
  <2>4. Told(cur)'
    BY <2>1, <2>2, <2>3 DEF Told, Registered
  <2>5. \A c \in old : Finding(c)' <=> Finding(c)
    BY <2>1 DEF Finding
  <2> QED BY <2>1, <2>2, <2>3, <2>4, <2>5 DEF JournalInv
<1>4. CASE CommitCase
  <2>1. /\ UNCHANGED <<scheduled, planned, unfinished, committed, alive, blocked, taken, old, cur, op, status>>
        /\ op = "case_commit" /\ stage = "act" /\ stage' = "result"
    BY <1>4 DEF CommitCase
  <2>2. cur \in Cases /\ cur # NoCase /\ cur \in taken
    BY <2>1, ConstantsAssumption DEF IInv, TypeOK, ControlInv
  <2>3. /\ doc'[cur].artifact = status
        /\ doc'[cur].state = "pending_reboot" => status = "pending_reboot"
        /\ \A c \in Cases \ {cur} : doc'[c] = doc[c]
    BY <1>4, <2>2 DEF CommitCase, CaseStatus, IInv, TypeOK
  <2>4. \A c \in Cases : Told(c) => Told(c)'
    BY <2>1, <2>3 DEF Told, Registered, FinalOps
  <2>5. \A c \in old : Finding(c)' => Finding(c)
    BY <2>1, <2>3 DEF JournalInv, Finding, IInv, TypeOK
  <2> QED BY <2>1, <2>2, <2>3, <2>4, <2>5 DEF JournalInv
<1> QED BY <1>1, <1>2, <1>3, <1>4 DEF Perform

\* The result of an operation, or the failure to journal it.
LEMMA JournalAfter ==
  ASSUME IInv, JournalInv, stage \in {"intent", "result"}, NEW r,
         r = "ok" => res = "ok" /\ stage = "result", After(r),
         UNCHANGED <<scheduled, planned, doc, alive, blocked, taken, old>>,
         \/ UNCHANGED <<unfinished, committed>> /\ r # "ok"
         \/ /\ unfinished' = unfinished \ {<<cur, op>>} /\ r = res /\ stage = "result"
            /\ committed' = IF res = "ok" THEN committed \union {<<cur, op>>} ELSE committed
  PROVE  JournalInv'
<1>1. /\ op \in Journaled /\ cur \in Cases /\ cur # NoCase /\ cur \in taken
      /\ \/ cur' = cur /\ op' \in Journaled \union {"recheck"} /\ op # "case_commit"
         \/ cur' = NoCase /\ op' = "none" /\ op = "case_commit"
      /\ op' \in Journaled => stage' = "intent"
  BY AfterSteps, AfterEnds, ConstantsAssumption DEF IInv, ControlInv, Journaled
<1>2. /\ unfinished' \subseteq unfinished /\ committed' \subseteq committed \union {<<cur, op>>}
      /\ committed \subseteq committed'
      /\ \A c \in Cases, o \in Journaled : c # cur \/ o # op =>
           /\ <<c, o>> \in unfinished' <=> <<c, o>> \in unfinished
           /\ <<c, o>> \in committed' <=> <<c, o>> \in committed
  OBVIOUS
<1>3. stage = "result" => <<cur, op>> \in unfinished
  BY <1>1 DEF JournalInv
<1>4. ASSUME NEW c \in Cases, Told(c) PROVE Told(c)'
  <2>1. CASE c # cur
    BY <1>1, <1>2, <1>4, <2>1, ConstantsAssumption DEF Told, Registered, Journaled
  <2>2. CASE c = cur /\ op \in FinalOps
    <3>1. status' = status /\ (op' \in FinalOps \/ cur' = NoCase) /\ op # "schedule_reboot_delete"
      BY <2>2, AfterEnds DEF FinalOps
    <3> QED BY <1>1, <1>2, <1>4, <2>2, <3>1 DEF Told, Registered, Journaled
  <2>3. CASE c = cur /\ op \notin FinalOps
    <3>1. op = "schedule_reboot_delete" /\ stage = "result" /\ res = "ok"
      BY <1>4, <2>3 DEF Told
    <3>2. cur' = cur /\ op' \in FinalOps /\ (r = "ok" => status' = "pending_reboot")
      BY <3>1, AfterEnds
    <3>3. doc[cur] = NoDoc
      BY <1>1, <3>1 DEF JournalInv
    <3>4. <<cur, "schedule_reboot_delete">> \in (IF r = "ok" THEN committed' ELSE unfinished')
      BY <1>3, <3>1
    <3> QED BY <1>4, <2>3, <3>2, <3>3, <3>4 DEF Told, Registered
  <2> QED BY <2>1, <2>2, <2>3
<1>5. \A c \in old : Finding(c)' => Finding(c)
  BY <1>2 DEF JournalInv, Finding, Journaled, IInv, TypeOK
<1>6. op' \in ArtifactOps => cur' = cur /\ op \in ArtifactOps
  BY <1>1, AfterEnds DEF ArtifactOps, CopyOps, StoredOps, Deletes
<1>7. op \in Deletes => cur \in planned
  BY DEF JournalInv, ArtifactOps, StoredOps
<1>8. /\ \A c \in Cases, o \in Journaled : <<c, o>> \in unfinished' \union committed' => c \in taken
      /\ \A c \in Cases, o \in Deletes : <<c, o>> \in unfinished' \union committed' => c \in planned
  BY <1>1, <1>2, <1>7 DEF JournalInv, Journaled, Deletes
<1>9. /\ op' \in Journaled /\ stage' # "intent" => <<cur', op'>> \in unfinished'
      /\ op' \in ArtifactOps => cur' \in planned
      /\ cur' # NoCase => doc[cur'] = NoDoc /\ alive /\ ~blocked
      /\ cur' \notin old
  BY <1>1, <1>6, ConstantsAssumption DEF JournalInv, IInv, TypeOK
<1>10. scheduled # {} => \E c \in Cases : Told(c)'
  BY <1>4 DEF JournalInv
<1> QED BY <1>5, <1>8, <1>9, <1>10 DEF JournalInv

LEMMA JournalStops ==
  ASSUME IInv, JournalInv, Crash \/ Reboot \/ Restart
  PROVE  JournalInv'
<1> USE DEF machine, files, journal, run, case, control, Stopped
<1>1. CASE Restart
  <2>1. /\ UNCHANGED <<scheduled, planned, doc, unfinished, committed, taken, cur, op, stage, res, status>>
        /\ ~alive /\ alive' /\ old' = taken /\ (blocked' <=> \E c \in Cases : Finding(c))
    BY <1>1 DEF Restart
  <2>2. cur = NoCase /\ op = "none"
    BY <2>1 DEF JournalInv, IInv, ControlInv
  <2>3. \A c \in Cases : (Told(c)' <=> Told(c)) /\ (Finding(c)' <=> Finding(c))
    BY <2>1 DEF Told, Registered, Finding
  <2>4. taken \subseteq Cases /\ NoCase \notin taken
    BY ConstantsAssumption DEF IInv, TypeOK
  <2> QED BY <2>1, <2>2, <2>3, <2>4 DEF JournalInv
<1>2. CASE Crash \/ Reboot
  <2>1. /\ UNCHANGED <<planned, doc, unfinished, committed, taken, old>>
        /\ scheduled' \in {scheduled, {}} /\ ~alive' /\ cur' = NoCase /\ op' = "none"
    BY <1>2 DEF Crash, Reboot
  <2>2. \A c \in Cases : Told(c) => Told(c)'
    BY <2>1, ConstantsAssumption DEF Told, Registered
  <2>3. old \subseteq Cases
    BY DEF IInv, TypeOK
  <2> QED BY <2>1, <2>2, <2>3, ConstantsAssumption
      DEF JournalInv, Journaled, ArtifactOps, CopyOps, StoredOps, Deletes
<1> QED BY <1>1, <1>2

LEMMA JournalNext == IInv /\ JournalInv /\ [Next]_vars => JournalInv'
<1> SUFFICES ASSUME IInv, JournalInv, [Next]_vars PROVE JournalInv'
  OBVIOUS
<1> USE DEF machine, files, journal, run, case, control
<1>1. CASE World
  BY <1>1, JournalFrame DEF World, Edit, Replace, Vanish, Arrives, LockerChanges, Detect
<1>2. CASE IntentFails
  <2>1. PICK f \in Faults : After(f)
    BY <1>2 DEF IntentFails
  <2> QED BY <1>2, <2>1, JournalAfter DEF IntentFails, Faults
<1>3. CASE WriteResult
  BY <1>3, JournalAfter DEF WriteResult
<1>4. CASE ResultFails
  <2>1. PICK f \in Faults : After(Joined(res, f))
    BY <1>4 DEF ResultFails
  <2> QED BY <1>4, <2>1, JournalAfter DEF ResultFails, Joined
<1>5. CASE Agent /\ ~(IntentFails \/ WriteResult \/ ResultFails)
  BY <1>5, JournalHandle, JournalPerform DEF Agent
<1>6. ASSUME NEW c \in Cases, Take(c) PROVE JournalInv'
  BY <1>6, JournalTake
<1>7. CASE Crash \/ Reboot \/ Restart
  BY <1>7, JournalStops
<1>8. CASE UNCHANGED vars
  BY <1>8, JournalFrame DEF vars
<1> QED BY <1>1, <1>2, <1>3, <1>4, <1>5, <1>6, <1>7, <1>8 DEF Next, Waits

LEMMA JournalInit == Init => JournalInv
BY DEF Init, JournalInv, ArtifactOps, CopyOps, StoredOps, Deletes, Journaled

LEMMA JournalInvariance == Spec => [](IInv /\ JournalInv)
BY InitInv, NextInv, JournalInit, JournalNext, PTL DEF Spec

\* Every deletion an earlier step of handle may have done is told by the case
\* file or found by InspectRecovery, whichever write failed and wherever the
\* agent died: the plan is on disk before the first operation.
THEOREM DeletionsAreAccounted == Spec => []DeletionAccounted
<1>1. JournalInv => DeletionAccounted
  BY DEF JournalInv, DeletionAccounted, Finding
<1> QED BY <1>1, JournalInvariance, PTL

\* A deletion that Windows still has to do is told by a case that waits for the
\* reboot or found at the next start, even if its own result was never journaled.
THEOREM ScheduledDeletionsAreTold == Spec => []ScheduledIsTold
<1>1. JournalInv => ScheduledIsTold
  <2> SUFFICES ASSUME JournalInv, cur = NoCase, scheduled # {}
               PROVE  \E c \in Cases : Finding(c) /\ Registered(c)
    BY DEF ScheduledIsTold, Registered
  <2>1. PICK c \in Cases : Told(c)
    BY DEF JournalInv
  <2>2. Finding(c)
    BY <2>1 DEF Told, Finding, Journaled
  <2> QED BY <2>1, <2>2 DEF Told
<1> QED BY <1>1, JournalInvariance, PTL

\* An agent that found an operation without result, a plan without case or a
\* pending reboot at its start deletes nothing at that path.
THEOREM NothingDeletedOverOpenWork == Spec => NoDeleteOverOpenWork
<1>1. IInv /\ JournalInv /\ [Next]_vars =>
        [stage = "remove" /\ stage' = "confirm" =>
           \A c \in old : /\ c \in planned => doc[c] # NoDoc
                          /\ doc[c] # NoDoc => doc[c].state # "pending_reboot"
                          /\ \A o \in Journaled : <<c, o>> \notin unfinished]_vars
  <2> SUFFICES ASSUME IInv, JournalInv, stage = "remove", NEW c \in old
               PROVE  /\ c \in planned => doc[c] # NoDoc
                      /\ doc[c] # NoDoc => doc[c].state # "pending_reboot"
                      /\ \A o \in Journaled : <<c, o>> \notin unfinished
    OBVIOUS
  <2>1. cur # NoCase /\ op # "case_commit"
    BY DEF IInv, ControlInv, Deletes
  <2>2. c \in Cases /\ ~Finding(c)
    BY <2>1 DEF JournalInv, IInv, TypeOK
  <2> QED BY <2>2 DEF JournalInv, Finding
<1> QED BY <1>1, JournalInvariance, PTL DEF Spec, NoDeleteOverOpenWork

-------------------------------------------------------------------------------
(* What the handling of hits guarantees *)

\* In every reachable state the variables have values of their types.
THEOREM TypesHold == Spec => []TypeOK
BY Invariance, PTL DEF IInv

\* Whatever the agent deletes is kept, or came after the file was examined.
THEOREM NothingIsLost == Spec => []NothingLost
BY Invariance, PTL DEF IInv, CustodyInv

-------------------------------------------------------------------------------
(* Quarantine implements Custody *)

\* A step that leaves the path, the store and the history alone and authorises
\* nothing new is a stuttering step of Custody, or withdraws authorisations.
LEMMA CustodyStutter ==
  ASSUME UNCHANGED <<path, store, late, removed>>, Authorised' \subseteq Authorised
  PROVE  [File!CustodyNext]_(File!custody)
<1>1. Kept' = Kept
  BY DEF Kept, Intact
<1> QED BY <1>1 DEF File!CustodyNext, File!custody, File!Withdraw

LEMMA StepCustody == IInv /\ [Next]_vars => [File!CustodyNext]_(File!custody)
<1> SUFFICES ASSUME IInv, [Next]_vars PROVE [File!CustodyNext]_(File!custody)
  OBVIOUS
<1> USE DEF machine, files, journal, run, case, control
<1>1. ASSUME NEW f \in Files \union {NoFile}, Arrives(f) PROVE File!World
  <2>1. Kept' = Kept /\ Authorised' = Authorised
    BY <1>1 DEF Arrives, Kept, Intact, Authorised, Examined
  <2> QED BY <1>1, <2>1 DEF Arrives, File!World
<1>2. CASE World
  <2>1. ASSUME NEW b \in Bytes, Edit(b) PROVE [File!CustodyNext]_(File!custody)
    <3>1. [path EXCEPT !.bytes = b] \in Files
      BY <2>1 DEF Edit, IInv, TypeOK, Files
    <3> QED BY <2>1, <3>1, <1>1 DEF Edit, File!CustodyNext
  <2>2. ASSUME NEW b \in Bytes, Replace(b) PROVE [File!CustodyNext]_(File!custody)
    <3>1. [id |-> nextId, bytes |-> b] \in Files
      BY <2>2 DEF Replace, IInv, TypeOK, Files, Ids
    <3> QED BY <2>2, <3>1, <1>1 DEF Replace, File!CustodyNext
  <2>3. CASE Vanish
    BY <2>3, <1>1 DEF Vanish, File!CustodyNext
  <2>4. CASE (\E k \in Lockers : LockerChanges(k)) \/ (\E c \in Cases : Detect(c))
    BY <2>4, CustodyStutter DEF LockerChanges, Detect, Authorised, Examined
  <2> QED BY <1>2, <2>1, <2>2, <2>3, <2>4 DEF World, Lockers
<1>3. CASE QuarantinePublish
  <2>1. art \in Files /\ tmp = art.bytes /\ art.bytes \in Bytes
    BY <1>3, FileParts DEF QuarantinePublish, Acts, IInv, ControlInv, CopyInv, ArtifactOps
  <2>2. \A b \in Bytes : store'[b] = IF b = art.bytes THEN art.bytes ELSE store[b]
    BY <1>3, <2>1 DEF QuarantinePublish, IInv, TypeOK
  <2>3. Kept' = Kept \union {art.bytes}
    BY <2>1, <2>2 DEF Kept, Intact
  <2>4. Authorised' = Authorised
    BY <1>3 DEF QuarantinePublish, Acts, Outcome, Authorised, Examined
  <2> QED BY <1>3, <2>1, <2>3, <2>4 DEF QuarantinePublish, File!Keep, File!CustodyNext, BytesOf
<1>4. CASE CheckOriginal \/ CheckScheduled
  <2>1. UNCHANGED <<path, store, late, removed, scheduled, art>> /\ op \in StoredOps
    BY <1>4 DEF CheckOriginal, CheckScheduled, Acts, StoredOps, Deletes
  <2>2. CASE path = art
    <3>1. path \in Files /\ path.bytes \in Kept
      BY <2>1, <2>2, FileParts DEF IInv, ControlInv, CopyInv, ArtifactOps, Kept
    <3>2. stage = "act" /\ stage' \in {"remove", "schedule"}
      BY <1>4, <2>2 DEF CheckOriginal, CheckScheduled, Acts
    <3>3. Authorised' = Authorised \union {path} /\ Kept' = Kept
      BY <2>1, <2>2, <3>2 DEF Authorised, Examined, Kept, Intact
    <3> QED BY <2>1, <3>1, <3>3 DEF File!Authorise, File!CustodyNext, BytesOf
  <2>3. CASE path # art
    <3>1. stage' = "result"
      BY <1>4, <2>3 DEF CheckOriginal, CheckScheduled, Acts, Outcome
    <3>2. Authorised' \subseteq Authorised
      BY <2>1, <3>1 DEF Authorised, Examined
    <3> QED BY <2>1, <3>2, CustodyStutter
  <2> QED BY <2>2, <2>3
<1>5. CASE RemoveOriginal \/ Reboot
  <2>1. UNCHANGED <<store, late>> /\ Kept' = Kept /\ Authorised' \subseteq Authorised
    BY <1>5 DEF RemoveOriginal, Reboot, Stopped, Outcome, Authorised, Examined, Kept, Intact
  <2>2. CASE UNCHANGED <<path, removed>>
    BY <2>1, <2>2, CustodyStutter
  <2>3. CASE /\ path # NoFile /\ path' = NoFile /\ removed' = removed \union {path}
             /\ Authorised # {}
    BY <2>1, <2>3 DEF IInv, TypeOK, File!Delete, File!CustodyNext
  <2> QED BY <1>5, <2>2, <2>3 DEF RemoveOriginal, Reboot, Authorised, Examined
<1>6. CASE ScheduleDelete
  <2>1. Authorised' = Authorised /\ UNCHANGED <<path, store, late, removed>>
    BY <1>6 DEF ScheduleDelete, Outcome, Authorised, Examined
  <2> QED BY <2>1, CustodyStutter
<1>7. CASE \/ QuarantineCopy \/ QuarantineHashVerify \/ ConfirmRemoved \/ EnumerateLockers
           \/ TerminateLocker \/ RecordOwnership \/ LinkReference \/ VerifyProcess
           \/ VerifyFileAbsence \/ CommitCase
  <2>1. UNCHANGED <<path, store, late, removed, scheduled>> /\ stage' = "result"
    BY <1>7 DEF QuarantineCopy, QuarantineHashVerify, ConfirmRemoved, EnumerateLockers,
       TerminateLocker, RecordOwnership, LinkReference, VerifyProcess, VerifyFileAbsence,
       CommitCase, Outcome
  <2> QED BY <2>1, CustodyStutter DEF Authorised, Examined
<1>8. CASE Agent /\ ~Perform
  <2>1. UNCHANGED <<path, store, late, removed, scheduled>>
    BY <1>8 DEF Agent, Contain, Share, Evidence, Plan, Match, Recheck, WriteIntent, IntentFails,
       ActionFails, WriteResult, ResultFails
  <2>2. stage' \notin {"remove", "schedule"}
    <3>1. CASE IntentFails \/ WriteResult \/ ResultFails
      <4>1. stage \in {"intent", "result"} /\ \E r : After(r)
        BY <3>1 DEF IntentFails, WriteResult, ResultFails
      <4> QED BY <4>1, AfterSteps
    <3>2. CASE ~(IntentFails \/ WriteResult \/ ResultFails)
      BY <1>8, <3>2 DEF Agent, Contain, Share, Evidence, Plan, Match, Recheck, WriteIntent,
         ActionFails, Outcome, Goto, Settle
    <3> QED BY <3>1, <3>2
  <2> QED BY <2>1, <2>2, CustodyStutter DEF Authorised, Examined
<1>9. CASE (\E c \in Cases : Take(c)) \/ Crash \/ Restart
  <2>1. UNCHANGED <<path, store, late, removed, scheduled>>
    BY <1>9 DEF Take, Crash, Stopped, Restart
  <2>2. Authorised' \subseteq Authorised
    BY <1>9, <2>1 DEF Take, Crash, Stopped, Restart, Authorised, Examined
  <2> QED BY <2>1, <2>2, CustodyStutter
<1>10. CASE UNCHANGED vars
  BY <1>10, CustodyStutter DEF vars, Authorised, Examined
<1> QED BY <1>2, <1>3, <1>4, <1>5, <1>6, <1>7, <1>8, <1>9, <1>10 DEF Next, Waits, Agent, Perform

LEMMA InitCustody == Init => File!CustodyInit
<1> SUFFICES ASSUME Init PROVE File!CustodyInit
  OBVIOUS
<1>1. path \in Files
  BY ConstantsAssumption DEF Init, Files, Ids
<1>2. Kept = {}
  BY ConstantsAssumption DEF Init, Kept, Intact
<1>3. Authorised = {}
  BY DEF Init, Authorised, Examined
<1> QED BY <1>1, <1>2, <1>3 DEF Init, File!CustodyInit

\* Every behaviour of the handling of hits is a behaviour of Custody: the agent
\* deletes only under an authorisation given for the file it examined, whose
\* bytes are in the store.
THEOREM QuarantineImplementsCustody == Spec => ImplementsCustody
BY Invariance, InitCustody, StepCustody, PTL DEF Spec, ImplementsCustody, File!CustodySpec
===============================================================================
