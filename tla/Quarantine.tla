------------------------------ MODULE Quarantine ------------------------------
(***************************************************************************)
(* Manager.handle and Manager.quarantine for the file at one path: the     *)
(* cases whose hits name it, the journaled operations in their order, the  *)
(* check and the call that deletes, the retry after a sharing violation,   *)
(* the deletion registered for the next reboot, the ownership record, the  *)
(* immediate verification and the case file.                               *)
(*                                                                         *)
(* remediateMu serialises handle, so one case is handled at a time; other  *)
(* processes change the file, lock it and unlock it between any two steps, *)
(* writes of the journal, the plan and the case may fail, and the agent    *)
(* may die anywhere.  Every such disturbance counts against MaxTrouble.    *)
(* Restore is a separate process and not part of this module.              *)
(***************************************************************************)
EXTENDS Naturals

CONSTANTS
  Cases,        \* cases, one per hit on the path
  Bytes,        \* contents a file may have; a hash stands for its content
  NoCase, NoBytes, NoFile, NoDoc, NoRecord,
  MaxFiles,     \* bound on the file identities the path sees
  MaxTrouble    \* bound on disturbances

Ids == 1 .. MaxFiles
Files == [id : Ids, bytes : Bytes]

ASSUME ConstantsAssumption ==
  /\ NoCase \notin Cases /\ NoBytes \notin Bytes /\ NoFile \notin Files
  /\ NoRecord \notin [owner : Cases, bytes : Bytes]
  /\ MaxFiles \in Nat \ {0} /\ MaxTrouble \in Nat

VARIABLES
  path, nextId,  \* the file at the path; the identity the next new file gets
  locker,        \* who holds it open: nobody, the matched image, someone else
  scheduled,     \* files examined when their path's deletion at reboot was registered
  store,         \* the quarantine store: hash |-> content
  record,        \* ArtifactRecord of each file identity: owner case and hash
  planned, doc,  \* cases with a plan file; the case files
  unfinished, committed,  \* the journal: operations with no result, with "committed"
  alive, blocked,         \* the agent runs; recoveryBlocked has the path
  hit, taken,    \* FileID each queued hit carries (0: no hit); cases handle() began
  cur, op, stage, res,    \* the case being handled, its operation and how it went
  art, status, exited, verdict,  \* its artifact, ProcessExit and Verification
  tmp, listed,   \* bytes of the temporary copy; the locker enumerated
  trouble,       \* disturbances so far
  removed, late, old      \* history: files the agent deleted; files that came while
                          \* a deletion was authorised; cases of earlier runs

machine == <<path, nextId, locker, late>>
files   == <<store, record, planned, doc>>
journal == <<unfinished, committed>>
run     == <<alive, blocked, hit, taken, old>>
case    == <<art, status, exited, verdict, tmp, listed>>
control == <<cur, op, stage, res>>
vars == <<machine, scheduled, files, journal, run, case, control, trouble, removed>>

Trouble == trouble < MaxTrouble /\ trouble' = trouble + 1
Calm == UNCHANGED trouble

\* The operations that change or check external state run between an intent and
\* a result record.
Journaled ==
  {"quarantine_copy", "quarantine_hash_verify", "quarantine_publish",
   "delete_original", "enumerate_lockers", "terminate_locker", "delete_retry",
   "schedule_reboot_delete", "record_ownership", "link_reference",
   "verify_process", "verify_file_absence", "case_commit"}
Deletes == {"delete_original", "delete_retry"}

\* A file the agent examined and may now delete, or has told Windows to delete.
Examined == IF stage \in {"remove", "schedule"} THEN {art} ELSE {}
Authorised == Examined \union scheduled

Init ==
  /\ path \in [id : {1}, bytes : Bytes] /\ nextId = 2 /\ locker = "none"
  /\ scheduled = {} /\ removed = {} /\ late = {} /\ old = {}
  /\ store = [b \in Bytes |-> NoBytes] /\ record = [i \in Ids |-> NoRecord]
  /\ planned = {} /\ doc = [c \in Cases |-> NoDoc]
  /\ unfinished = {} /\ committed = {}
  /\ alive = TRUE /\ blocked = FALSE
  /\ hit = [c \in Cases |-> 0] /\ taken = {}
  /\ cur = NoCase /\ op = "none" /\ stage = "none" /\ res = "ok"
  /\ art = NoFile /\ status = "none" /\ exited = FALSE /\ verdict = "none"
  /\ tmp = NoBytes /\ listed = "none"
  /\ trouble = 0

-------------------------------------------------------------------------------
(* The rest of the machine *)

Arrives(f) ==
  /\ path' = f
  /\ late' = IF Authorised = {} THEN late ELSE late \union ({f} \ {NoFile})
  /\ Trouble
  /\ UNCHANGED <<scheduled, files, journal, run, case, control, removed>>

Edit(b) ==
  /\ path # NoFile /\ path.bytes # b
  /\ Arrives([path EXCEPT !.bytes = b])
  /\ UNCHANGED <<nextId, locker>>

\* A new file takes the path: the old one is overwritten, moved or absent.
Replace(b) ==
  /\ nextId <= MaxFiles
  /\ Arrives([id |-> nextId, bytes |-> b])
  /\ nextId' = nextId + 1 /\ locker' = "none"

Vanish ==
  /\ path # NoFile /\ locker = "none"
  /\ Arrives(NoFile)
  /\ UNCHANGED <<nextId, locker>>

LockerChanges(k) ==
  /\ path # NoFile /\ locker # k
  /\ locker' = k
  /\ Trouble
  /\ UNCHANGED <<path, nextId, late, scheduled, files, journal, run, case, control, removed>>

\* A process runs from the path; its hit carries the FileID of that moment.
Detect(c) ==
  /\ alive /\ c \notin taken /\ hit[c] = 0 /\ path # NoFile
  /\ hit' = [hit EXCEPT ![c] = path.id]
  /\ Calm
  /\ UNCHANGED <<machine, scheduled, files, journal, alive, blocked, taken, old, case, control, removed>>

-------------------------------------------------------------------------------
(* Steps of handle.  Goto names the next operation; a journaled one starts *)
(* by writing its intent.                                                  *)

Goto(o) ==
  /\ op' = o
  /\ stage' = IF o \in Journaled THEN "intent" ELSE "act"
  /\ res' = "ok"
  /\ UNCHANGED cur

\* The deferred function: verify what was removed, then save the case.
Settle(s) ==
  /\ status' = s
  /\ Goto(IF exited /\ s \in {"quarantined", "linked"} THEN "verify_process" ELSE "case_commit")

\* Idle: the mutex is free.
Idle == alive /\ cur = NoCase

\* The quarantined copy of these bytes is there and hashes to its name.
Intact(b) == store[b] = b

\* recoveryBlocked, then findPreviouslyQuarantined: a record whose file is back
\* or whose quarantined copy is not intact ends the case at once.
Take(c) ==
  /\ Idle /\ hit[c] # 0 /\ c \notin taken
  /\ taken' = taken \union {c}
  /\ cur' = c /\ res' = "ok"
  /\ LET known == record[hit[c]]
         next  == IF blocked THEN "case_commit"
                  ELSE IF known = NoRecord THEN "contain"
                  ELSE IF path = NoFile /\ Intact(known.bytes) THEN "contain_known"
                  ELSE "case_commit"
     IN op' = next /\ stage' = IF next \in Journaled THEN "intent" ELSE "act"
  /\ art' = NoFile /\ status' = "none" /\ exited' = FALSE /\ verdict' = "none"
  /\ tmp' = NoBytes /\ listed' = "none"
  /\ Calm
  /\ UNCHANGED <<machine, scheduled, files, journal, alive, blocked, hit, old, removed>>

\* contain: the process is dead in the end, or it is not known to be.
Contain ==
  /\ op \in {"contain", "contain_known"}
  /\ exited' \in BOOLEAN
  /\ Goto(IF ~exited' THEN "case_commit" ELSE IF op = "contain" THEN "evidence" ELSE "share")
  /\ Calm
  /\ UNCHANGED <<machine, scheduled, files, journal, run, art, status, verdict, tmp, listed, removed>>

\* linkSharedCase up to its intent: the owner's case file must say quarantined.
Share ==
  /\ op = "share"
  /\ LET r == record[hit[cur]]
     IN IF doc[r.owner] # NoDoc /\ path = NoFile /\ Intact(r.bytes)
        THEN IF doc[r.owner].artifact = "quarantined"
             THEN art' = [id |-> hit[cur], bytes |-> r.bytes] /\ Goto("link_reference")
             ELSE UNCHANGED art /\ Goto("case_commit")
        ELSE UNCHANGED art /\ Goto("case_commit")
  /\ Calm
  /\ UNCHANGED <<machine, scheduled, files, journal, run, status, exited, verdict, tmp, listed, removed>>

\* collectEvidence: HIGH only for the very file the hit named; then the plan.
Evidence ==
  /\ op = "evidence"
  /\ art' = path
  /\ status' = IF path # NoFile /\ path.id = hit[cur] THEN "pending" ELSE "review"
  /\ Goto("plan")
  /\ Calm
  /\ UNCHANGED <<machine, scheduled, files, journal, run, exited, verdict, tmp, listed, removed>>

Plan ==
  /\ op = "plan"
  /\ \/ /\ planned' = planned \union {cur}
        /\ Goto(IF status = "pending" THEN "match" ELSE "case_commit")
        /\ Calm
        /\ UNCHANGED status
     \/ /\ Trouble               \* nothing has been changed yet
        /\ status' = "pending"
        /\ Goto("case_commit")
        /\ UNCHANGED planned
  /\ UNCHANGED <<machine, scheduled, store, record, doc, journal, run, art, exited, verdict, tmp, listed, removed>>

\* artifactStillMatches, and the checks quarantine starts with.
Match ==
  /\ op = "match"
  /\ IF path = art THEN Goto("quarantine_copy") /\ UNCHANGED status ELSE Settle("review")
  /\ Calm
  /\ UNCHANGED <<machine, scheduled, files, journal, run, art, exited, verdict, tmp, listed, removed>>

-------------------------------------------------------------------------------
(* runJournaled: intent, action, result *)

Faults == {"error", "sharing"}   \* a failed write may itself be a sharing violation

WriteIntent ==
  /\ stage = "intent"
  /\ unfinished' = unfinished \union {<<cur, op>>}
  /\ stage' = "act"
  /\ Calm
  /\ UNCHANGED <<machine, scheduled, files, committed, run, case, cur, op, res, removed>>

\* Acts(o): the action of operation o starts; r is how it came out.
Acts(o) == op = o /\ stage = "act"
Outcome(r) == stage' = "result" /\ res' = r /\ UNCHANGED <<cur, op>>

\* Any action may fail without effect.
ActionFails ==
  /\ op \in Journaled /\ stage = "act"
  /\ Outcome("error")
  /\ Trouble
  /\ UNCHANGED <<machine, scheduled, files, journal, run, case, removed>>

QuarantineCopy ==
  /\ Acts("quarantine_copy")
  /\ IF path = NoFile THEN Outcome("error") /\ UNCHANGED tmp
     ELSE Outcome("ok") /\ tmp' = path.bytes
  /\ Calm
  /\ UNCHANGED <<machine, scheduled, files, journal, run, art, status, exited, verdict, listed, removed>>

QuarantineHashVerify ==
  /\ Acts("quarantine_hash_verify")
  /\ Outcome(IF tmp = art.bytes THEN "ok" ELSE "error")
  /\ Calm
  /\ UNCHANGED <<machine, scheduled, files, journal, run, case, removed>>

\* MoveFileEx without overwrite, under the artifact's hash, then hashed again.
QuarantinePublish ==
  /\ Acts("quarantine_publish")
  /\ store' = [store EXCEPT ![art.bytes] = tmp]
  /\ Outcome(IF tmp = art.bytes THEN "ok" ELSE "error")
  /\ Calm
  /\ UNCHANGED <<machine, scheduled, record, planned, doc, journal, run, case, removed>>

\* Metadata is written and the source examined once more before any deletion.
Recheck ==
  /\ op = "recheck"
  /\ \/ /\ path = art /\ Goto("delete_original") /\ UNCHANGED status /\ Calm
     \/ /\ path # art /\ Settle("pending") /\ Calm
     \/ /\ Settle("pending") /\ Trouble
  /\ UNCHANGED <<machine, scheduled, files, journal, run, art, exited, verdict, tmp, listed, removed>>

CheckOriginalById ==
  /\ op \in Deletes /\ stage = "act"
  /\ IF path # NoFile /\ path.id = art.id
     THEN stage' = "remove" /\ UNCHANGED <<cur, op, res>> ELSE Outcome("error")
  /\ Calm
  /\ UNCHANGED <<machine, scheduled, files, journal, run, case, removed>>

\* removeVerifiedArtifact: FileID and hash, then Remove, then is it gone?
CheckOriginal ==
  /\ op \in Deletes /\ stage = "act"
  /\ IF path = art THEN stage' = "remove" /\ UNCHANGED <<cur, op, res>> ELSE Outcome("error")
  /\ Calm
  /\ UNCHANGED <<machine, scheduled, files, journal, run, case, removed>>

RemoveOriginal ==
  /\ stage = "remove"
  /\ \/ locker # "none" /\ Outcome("sharing") /\ UNCHANGED <<path, removed>>
     \/ locker = "none" /\ path = NoFile /\ Outcome("error") /\ UNCHANGED <<path, removed>>
     \/ /\ locker = "none" /\ path # NoFile
        /\ path' = NoFile
        /\ removed' = removed \union {path}
        /\ stage' = "confirm" /\ UNCHANGED <<cur, op, res>>
  /\ Calm
  /\ UNCHANGED <<nextId, locker, late, scheduled, files, journal, run, case>>

ConfirmRemoved ==
  /\ stage = "confirm"
  /\ Outcome(IF path = NoFile THEN "ok" ELSE "error")
  /\ Calm
  /\ UNCHANGED <<machine, scheduled, files, journal, run, case, removed>>

EnumerateLockers ==
  /\ Acts("enumerate_lockers")
  /\ listed' = locker
  /\ Outcome("ok")
  /\ Calm
  /\ UNCHANGED <<machine, scheduled, files, journal, run, art, status, exited, verdict, tmp, removed>>

\* The handle was opened and authorised before the intent was written.
TerminateLocker ==
  /\ Acts("terminate_locker")
  /\ locker' = IF locker = "hit" THEN "none" ELSE locker
  /\ Outcome("ok")
  /\ Calm
  /\ UNCHANGED <<path, nextId, late, scheduled, files, journal, run, case, removed>>

ScheduledUnchecked ==
  /\ Acts("schedule_reboot_delete")
  /\ stage' = "schedule" /\ UNCHANGED <<cur, op, res>>
  /\ Calm
  /\ UNCHANGED <<machine, scheduled, files, journal, run, case, removed>>

CheckScheduled ==
  /\ Acts("schedule_reboot_delete")
  /\ IF path = art THEN stage' = "schedule" /\ UNCHANGED <<cur, op, res>> ELSE Outcome("error")
  /\ Calm
  /\ UNCHANGED <<machine, scheduled, files, journal, run, case, removed>>

ScheduleDelete ==
  /\ stage = "schedule"
  /\ scheduled' = scheduled \union {art}
  /\ Outcome("ok")
  /\ Calm
  /\ UNCHANGED <<machine, files, journal, run, case, removed>>

RecordOwnership ==
  /\ Acts("record_ownership")
  /\ record' = [record EXCEPT ![art.id] = [owner |-> cur, bytes |-> art.bytes]]
  /\ Outcome("ok")
  /\ Calm
  /\ UNCHANGED <<machine, scheduled, store, planned, doc, journal, run, case, removed>>

\* The record's list of references is the subject of SharedCases.
LinkReference ==
  /\ Acts("link_reference")
  /\ Outcome("ok")
  /\ Calm
  /\ UNCHANGED <<machine, scheduled, files, journal, run, case, removed>>

\* observeHitExit and observeImageProcesses: absent, present or unknown.
VerifyProcess ==
  /\ Acts("verify_process")
  /\ \E r \in {"ok", "present", "error"} : Outcome(r)
  /\ Calm
  /\ UNCHANGED <<machine, scheduled, files, journal, run, case, removed>>

VerifyFileAbsence ==
  /\ Acts("verify_file_absence")
  /\ Outcome(IF path = NoFile THEN "ok" ELSE "present")
  /\ Calm
  /\ UNCHANGED <<machine, scheduled, files, journal, run, case, removed>>

\* caseStatus
CaseStatus ==
  IF ~exited THEN "pending"
  ELSE IF status = "pending_reboot" THEN "pending_reboot"
  ELSE IF verdict = "failed" THEN "partial_failure"
  ELSE IF status \in {"pending", "review"} THEN status
  ELSE "pending_verification"

CommitCase ==
  /\ Acts("case_commit")
  /\ doc' = [doc EXCEPT ![cur] = [state |-> CaseStatus, artifact |-> status, file |-> art,
                                  verdict |-> verdict]]
  /\ Outcome("ok")
  /\ Calm
  /\ UNCHANGED <<machine, scheduled, store, record, planned, journal, run, case, removed>>

-------------------------------------------------------------------------------
(* What follows an operation that came out as r *)

Then(o) == Goto(o) /\ UNCHANGED <<status, verdict>>
Fails == Settle("pending") /\ UNCHANGED verdict
IfOk(r, o) == IF r = "ok" THEN Then(o) ELSE Fails

JudgeByOutcome(r) == verdict' = r

\* A check that saw the target is a failure, one that could not be made or not
\* be journaled leaves the verification incomplete.
Judge(r) ==
  verdict' = IF r = "present" \/ verdict = "failed" THEN "failed"
             ELSE IF r # "ok" THEN "incomplete"
             ELSE IF verdict = "none" THEN "passed" ELSE verdict

\* openAuthorizedLocker: the enumerated process still runs the very image.
LockerAuthorised ==
  listed = "hit" /\ locker = "hit" /\ path # NoFile /\ path.id = hit[cur]

RetryTrusted(r) ==
  IF r = "ok" \/ op = "delete_retry" THEN Then("record_ownership")
  ELSE IF r # "sharing" THEN Fails ELSE Then("enumerate_lockers")

AfterDelete(r) ==
  IF r = "ok" THEN Then("record_ownership")
  ELSE IF r # "sharing" THEN Fails
  ELSE Then(IF op = "delete_original" THEN "enumerate_lockers" ELSE "schedule_reboot_delete")

After(r) ==
  \/ op = "quarantine_copy" /\ IfOk(r, "quarantine_hash_verify")
  \/ /\ op = "quarantine_hash_verify"
     /\ IF r = "ok" /\ store[art.bytes] \notin {NoBytes, art.bytes} THEN Fails
        ELSE IfOk(r, IF store[art.bytes] = NoBytes THEN "quarantine_publish" ELSE "recheck")
  \/ op = "quarantine_publish" /\ IfOk(r, "recheck")
  \/ op \in Deletes /\ AfterDelete(r)
  \/ op = "enumerate_lockers" /\ Then(IF LockerAuthorised THEN "terminate_locker" ELSE "delete_retry")
  \/ op = "terminate_locker" /\ Then("delete_retry")
  \/ /\ op = "schedule_reboot_delete"
     /\ Settle(IF r = "ok" THEN "pending_reboot" ELSE "pending") /\ UNCHANGED verdict
  \/ /\ op = "record_ownership"
     /\ Settle(IF r = "ok" THEN "quarantined" ELSE "pending") /\ UNCHANGED verdict
  \/ op = "link_reference" /\ Settle(IF r = "ok" THEN "linked" ELSE "none") /\ UNCHANGED verdict
  \/ op = "verify_process" /\ Judge(r) /\ Goto("verify_file_absence") /\ UNCHANGED status
  \/ op = "verify_file_absence" /\ Judge(r) /\ Goto("case_commit") /\ UNCHANGED status
  \/ /\ op = "case_commit"
     /\ cur' = NoCase /\ op' = "none" /\ stage' = "none" /\ res' = "ok"
     /\ UNCHANGED <<status, verdict>>

IntentFails ==
  /\ stage = "intent"
  /\ \E f \in Faults : After(f)
  /\ Trouble
  /\ UNCHANGED <<machine, scheduled, files, journal, run, art, exited, tmp, listed, removed>>

WriteResult ==
  /\ stage = "result"
  /\ unfinished' = unfinished \ {<<cur, op>>}
  /\ committed' = IF res = "ok" THEN committed \union {<<cur, op>>} ELSE committed
  /\ After(res)
  /\ Calm
  /\ UNCHANGED <<machine, scheduled, files, run, art, exited, tmp, listed, removed>>

\* errors.Join: the action's own error is kept beside the failure to record it.
Joined(r, f) ==
  IF r = "present" THEN "present" ELSE IF "sharing" \in {r, f} THEN "sharing" ELSE "error"

ResultFails ==
  /\ stage = "result"
  /\ \E f \in Faults : After(Joined(res, f))
  /\ Trouble
  /\ UNCHANGED <<machine, scheduled, files, journal, run, art, exited, tmp, listed, removed>>

-------------------------------------------------------------------------------
(* Crash, reboot, restart *)

Stopped ==
  /\ alive' = FALSE /\ blocked' = FALSE
  /\ hit' = [c \in Cases |-> IF c \in taken THEN hit[c] ELSE 0]
  /\ cur' = NoCase /\ op' = "none" /\ stage' = "none" /\ res' = "ok"
  /\ art' = NoFile /\ status' = "none" /\ exited' = FALSE /\ verdict' = "none"
  /\ tmp' = NoBytes /\ listed' = "none"
  /\ Trouble
  /\ UNCHANGED <<files, journal, taken, old>>

Crash ==
  /\ alive
  /\ Stopped
  /\ UNCHANGED <<machine, scheduled, removed>>

\* Windows deletes what stands at a registered path, whatever it is by then.
Reboot ==
  /\ Stopped
  /\ locker' = "none" /\ scheduled' = {}
  /\ IF scheduled = {} \/ path = NoFile THEN UNCHANGED <<path, removed>>
     ELSE path' = NoFile /\ removed' = removed \union {path}
  /\ UNCHANGED <<nextId, late>>

FindingWithoutPlans(c) ==
  \/ \E o \in Journaled : <<c, o>> \in unfinished
  \/ doc[c] # NoDoc /\ doc[c].artifact = "pending_reboot"

FindingWithoutReboots(c) ==
  \/ \E o \in Journaled : <<c, o>> \in unfinished
  \/ c \in planned /\ doc[c] = NoDoc

\* InspectRecovery: operations with no result, plans with no case, references
\* with no case, cases that wait for a reboot.
Finding(c) ==
  \/ \E o \in Journaled : <<c, o>> \in unfinished
  \/ c \in planned /\ doc[c] = NoDoc
  \/ <<c, "link_reference">> \in committed /\ doc[c] = NoDoc
  \/ doc[c] # NoDoc /\ doc[c].artifact = "pending_reboot"

RestartUnblocked ==
  /\ ~alive
  /\ alive' = TRUE
  /\ blocked' = FALSE
  /\ old' = taken
  /\ Calm
  /\ UNCHANGED <<machine, scheduled, files, journal, hit, taken, case, control, removed>>

Restart ==
  /\ ~alive
  /\ alive' = TRUE
  /\ blocked' = \E c \in Cases : Finding(c)
  /\ old' = taken
  /\ Calm
  /\ UNCHANGED <<machine, scheduled, files, journal, hit, taken, case, control, removed>>

-------------------------------------------------------------------------------
World ==
  \/ \E b \in Bytes : Edit(b) \/ Replace(b)
  \/ Vanish
  \/ \E k \in {"none", "hit", "other"} : LockerChanges(k)
  \/ \E c \in Cases : Detect(c)

Perform ==
  \/ QuarantineCopy \/ QuarantineHashVerify \/ QuarantinePublish
  \/ CheckOriginal \/ RemoveOriginal \/ ConfirmRemoved
  \/ EnumerateLockers \/ TerminateLocker \/ CheckScheduled \/ ScheduleDelete
  \/ RecordOwnership \/ LinkReference \/ VerifyProcess \/ VerifyFileAbsence \/ CommitCase

Agent ==
  \/ Contain \/ Share \/ Evidence \/ Plan \/ Match \/ Recheck
  \/ WriteIntent \/ IntentFails \/ Perform \/ ActionFails \/ WriteResult \/ ResultFails

\* The agent waits for a hit.
Waits == Idle /\ UNCHANGED vars

Next ==
  \/ World \/ Agent \/ (\E c \in Cases : Take(c)) \/ Waits
  \/ Crash \/ Reboot \/ Restart

Spec == Init /\ [][Next]_vars

-------------------------------------------------------------------------------
(* Properties *)

Ops == Journaled \union {"none", "contain", "contain_known", "share", "evidence", "plan",
                         "match", "recheck"}
Lockers == {"none", "hit", "other"}
Statuses == {"none", "pending", "review", "quarantined", "pending_reboot", "linked"}
Verdicts == {"none", "passed", "failed", "incomplete"}
Docs == [state : {"pending", "pending_reboot", "partial_failure", "review", "pending_verification"},
         artifact : Statuses, file : Files \union {NoFile}, verdict : Verdicts]

\* Types: the values each variable may take.
TypeOK ==
  /\ path \in Files \union {NoFile} /\ nextId \in 1 .. MaxFiles + 1 /\ locker \in Lockers
  /\ scheduled \subseteq Files /\ removed \subseteq Files /\ late \subseteq Files
  /\ store \in [Bytes -> Bytes \union {NoBytes}]
  /\ record \in [Ids -> [owner : Cases, bytes : Bytes] \union {NoRecord}]
  /\ planned \subseteq Cases /\ doc \in [Cases -> Docs \union {NoDoc}]
  /\ unfinished \subseteq Cases \X Journaled /\ committed \subseteq Cases \X Journaled
  /\ alive \in BOOLEAN /\ blocked \in BOOLEAN
  /\ hit \in [Cases -> Ids \union {0}] /\ taken \subseteq Cases /\ old \subseteq Cases
  /\ cur \in Cases \union {NoCase} /\ op \in Ops
  /\ stage \in {"none", "intent", "act", "remove", "confirm", "schedule", "result"}
  /\ res \in {"ok", "error", "sharing", "present"}
  /\ art \in Files \union {NoFile} /\ status \in Statuses
  /\ exited \in BOOLEAN /\ verdict \in Verdicts
  /\ tmp \in Bytes \union {NoBytes} /\ listed \in Lockers
  /\ trouble \in 0 .. MaxTrouble

Kept == {b \in Bytes : Intact(b)}

\* Whatever the agent deleted, now or through Windows at a reboot, is in the
\* quarantine store with the right content, unless it came to the path after the
\* agent had examined the file there (README "校验副本和原件哈希后删除原路径").
NothingLost == \A f \in removed : f.bytes \in Kept \/ f \in late

\* A case file that says quarantined is true: that file is no longer at the
\* path, its bytes are kept and the ownership record names this case.
QuarantinedIsTrue ==
  \A c \in Cases : doc[c] # NoDoc => (doc[c].artifact = "quarantined" =>
     LET f == doc[c].file
     IN /\ f # NoFile
        /\ Intact(f.bytes)
        /\ record[f.id] = [owner |-> c, bytes |-> f.bytes]
        /\ (path = NoFile \/ path.id # f.id))

\* A deletion no case file tells of is found by the next InspectRecovery: once
\* the agent no longer works on a case that may have deleted, the case file
\* exists or the journal and the plan give the case away.
DeletionAccounted ==
  \A c \in Cases \ {cur} :
     (\E o \in Deletes : <<c, o>> \in unfinished \union committed) => doc[c] # NoDoc \/ Finding(c)

\* A deletion Windows will do at the next reboot is told: by a case file that
\* waits for the reboot, or as a finding of the next start.
ScheduledIsTold ==
  cur = NoCase /\ scheduled # {} =>
     \E c \in Cases : Finding(c) /\ <<c, "schedule_reboot_delete">> \in unfinished \union committed

\* The agent deletes nothing at a path on which an earlier run left an operation
\* without result, a plan without case or a pending reboot (ROUND_TRIP.md "避免
\* 重复删除").
NoDeleteOverOpenWork ==
  [][stage = "remove" /\ stage' = "confirm" =>
       \A c \in old : /\ c \in planned => doc[c] # NoDoc
                      /\ doc[c] # NoDoc => doc[c].state # "pending_reboot"
                      /\ \A o \in Journaled : <<c, o>> \notin unfinished]_vars

\* The handling of hits implements the custody of the file at the path.
BytesOf(f) == f.bytes
File == INSTANCE Custody WITH file <- path, kept <- Kept, authorised <- Authorised
ImplementsCustody == File!CustodySpec
===============================================================================
