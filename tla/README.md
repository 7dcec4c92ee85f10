# Block-ads: verification of the agent

TLA+ models of the block-ads agent (Go, Windows), model-checked with TLC and,
where it matters most, proved with TLAPS. The code is the reference; every
definition that models code is listed with its file and lines in
`PROJECT.json` ("map"). `PROJECT.json` also lists the runs, the mutants that
show each property can fail, the hazards of the code and the findings.

## 1. The system and its components

The agent (`main.go`) watches process creation. A process whose image matches a
rule is killed and logged; in mode `auto_quarantine` it also becomes a *hit*
that package `eradication` handles in the background: the process is contained,
its files are quarantined, its startup entries removed, and one *case* file per
hit says what was done. Every change of external state is journaled (intent,
action, result). A second process, `block-ads.exe --restore-case <id>`, undoes a
case. A UI edits rules and updates the installation.

| Component | Source | State | Operations | Interacts with | What is hard |
|---|---|---|---|---|---|
| Queue and shutdown | `eradication/manager.go`, `main.go` `run` | `pending`, `seenEvents`, `closed`, workers, observers | `Submit`, `next`, `Close` | scan and ETW threads submit; workers call `handle`; `run` closes | lost wakeups, submit after close, order of the joins |
| Case handling, quarantine | `manager.go` `handle`, `windows.go`, `lockers_windows.go`, `verification.go` | the file at the path, quarantine store, records, plans, cases, scheduled deletions | `contain`, `collectEvidence`, `quarantine`, `recordQuarantine`, verification, `saveCase` | journal; other programs that change the file; Windows at reboot | check-then-delete, sharing violations, crash between two steps, failed writes |
| Shared artifacts | `ownership.go`, `restore.go` | `ArtifactRecord` (references, status), case files | link, release, restore | agent and command share the records with no lock | partial failure, lost update, crash, retry |
| Journal | `journal.go` | intents and results per case, sequence numbers | `runJournaled`, `UnfinishedOperations`, `ValidateJournalOrder` | every operation above | crash between intent and result, two writers |
| Recovery inspection | `recovery.go` | none (reads everything) | `InspectRecovery` | its findings block paths at the next start | must find every gap a crash leaves |
| Observation, case commit | `observation.go`, `manager.go` `commitCase` | case file, deadline, samples | sample, commit against the hash read | worker, command, shutdown | stale snapshot, late sample, timer against Close |
| Persistence | `persistence.go`, `restore_persistence.go`, `task_restore.go`, `manager.go`, `restore.go` | Run values, shortcuts, tasks, their backups and the plan | scan, back up, remove, restore | only after the artifact is quarantined / restored | order, partial failure, edits by others |
| Detection and rules | `main.go`, `event.go`, `dispatch.go` | rule cache, signature cache, gate | `procHit`, `chkHit`, `curBlk`, `ProcessGate`, `DispatchMatchedProcess` | scan and ETW see the same process; the UI rewrites the lists | staleness, duplicates, pids used again |
| User rules, update | `block-ads-ui/main.go`, `rule_migration.go`, `update.go`, `ui_core.go`, `ui_list.go` | rule files, `user_rules.json`, the marker, `version.json`, the UI's copy | add, disable, poll, preserve, synchronise, update | UI thread, polling goroutine, synchronisation and the updater process share files | lost update, crash between remove and rename, stale copy |
| Reports, settings, drawing, tools | `reports.go`, `settings/`, UI, `update/`, `fake/` | - | - | - | sequential or cosmetic; not modelled |

What makes each correct:

- queue: an accepted hit is handled exactly once, nobody submits to a closed
  queue, the shutdown ends and leaves no goroutine behind;
- case handling: nothing is deleted that is not kept, a case says what happened,
  and whatever a crash or a failed write leaves open is found at the next start
  and not acted upon again;
- shared artifacts: the owner's file comes back only when nobody refers to it,
  and a reference that holds it back is always known to somebody;
- journal and recovery: every operation that may have happened has a result or
  is reported; the numbering never makes an honest journal unreadable;
- observation: "completed" means a passing sample that began after the deadline;
  no commit overwrites a case somebody else changed;
- persistence: an entry is removed only after its target is quarantined, and is
  back only after its target is back;
- detection: one hit per process and window, who is killed was condemned by a list
  of the last minute, and who is condemned and was seen is dealt with;
- rules and update: no user rule is lost but in named cases, `version.json` tells the
  truth about what is installed, and an update asked for again completes what a crash left.

## 2. Modules

| Module | Role |
|---|---|
| `HitLedger` | abstract: hits are accepted once, settled once, none is left when closed |
| `HitQueue` | the queue, its workers and observers, `run`'s shutdown |
| `HitQueue_proofs` | its theorems |
| `Custody` | abstract: deletion of the file at a path under an authorisation, contents kept |
| `Quarantine` | `handle` and `quarantine` for one path, crash, reboot, restart |
| `Quarantine_proofs` | its theorems |
| `SharedArtifact` | abstract: who holds an artifact, when its file may come back |
| `SharedCases` | link, release and restore by the agent and the command |
| `SharedCases_proofs` | its theorems |
| `CaseCommit` | the observation of a case and the restore command, two writers of one case file |
| `CaseCommit_proofs` | its theorems |
| `JournalOrder` | the journal of one case: lock, numbers, intents, results, the reader |
| `JournalOrder_proofs` | its theorems |
| `Persistence` | startup entries of one case: removal by the agent, restore by the command |
| `Persistence_proofs` | its theorems |
| `HitPipeline` | scan, ETW callback, caches, gate, kill |
| `HitPipeline_proofs` | its theorems |
| `RuleFiles` | the UI's edits and reloads, the synchronisation and the updater on the same files |
| `RuleFiles_proofs` | its theorems |
| `MCHitQueue`, `MCQuarantine`, `MCSharedCases`, `MCCaseCommit`, `MCJournalOrder`, `MCPersistence`, `MCHitPipeline`, `MCRuleFiles` | instances for TLC |

How they meet: `HitPipeline` ends where a hit is submitted and `HitQueue` begins
there; `HitQueue` calls `handle` one step, which `Quarantine` opens for one path,
`SharedCases` for the hits on a file that is quarantined already and `Persistence`
for the startup entries; `CaseCommit` takes the case file from there. `JournalOrder`
is the journal they all write, of which they keep what an intent without result
means. `RuleFiles` writes the lists that `HitPipeline` reads; there they are a
version that changes and may be read half written.

Operators whose name ends in what they leave out (`SubmitWithoutDedup`,
`AllowedWithoutReferences`...) are mutants: plausible bugs that stand next to the
definition they would replace and are used nowhere.

### HitQueue

State: `pending`, `accepted` (`m.seenEvents`), `closed`; the program counter of
each worker, of `run` and of each observation goroutine; the two producers.
`queueMu` makes `Submit`, `next` and the body of `closeOnce` one step each;
`remediateMu` is held during the whole of `handle` and of a sample, so these are
one step here (`Quarantine` looks inside). A worker that finds the queue empty
waits on the condition variable and only `Signal` or `Broadcast` wakes it, so a
lost wakeup is a behaviour of the model. `StartEtw` may fail, as `runETW` may.

Events carry fresh random IDs, so a repeated ID is a repeated `Submit` of a
member of `Hits`, which returns without changing anything (a stuttering step).

### Quarantine

The life of one path. `path` is the file there, an identity and a content; a hash
stands for the content it is of. Other programs act between any two steps:
`Edit`, `Replace` (new identity), `Vanish`, `LockerChanges`. A case goes through
the operations of `handle` and `quarantine` in their order (`op`), and a journaled
operation through `intent`, `act` and `result` (`stage`); the deleting ones split
`act` into the check (`CheckOriginal`), `os.Remove` (`RemoveOriginal`) and the
confirmation, because the file can change in between. `IntentFails`,
`ActionFails` and `ResultFails` are the three failures of `runJournaledResult`;
`Crash`, `Reboot` and `Restart` are what the recovery code is for. `Finding` is
`InspectRecovery` for this path and `blocked` the entry of `recoveryBlocked`.

Abstracted: the EXE is the only artifact (a DLL takes the same steps, in its own
iteration of the loop); rules, signers and confidences other than HIGH are one
choice in `Evidence`; the persistence of a case; the set of lockers is one locker
at a time; the two process checks of the verification are one; the temporary copy
is removed by a `defer` and only its bytes matter. Restoring is module
SharedCases.

### SharedCases

Two processes, `core` and `restore`, each working through one case with generic
steps `Read`, `WriteIntent`, the action, `WriteResult`. The record that is written
is the one that was read (`rec`), so a lost update is a behaviour of the model
when the two overlap (`Overlap`). The owner's case and records are where
Quarantine ends. `lost` holds the operations whose result was never written: a
retry has a new operation ID, so they stay unfinished. `Finding` is
`InspectRecovery` for a case and a path.

The artifacts a process has left are a set of places in the owner's case, taken from
the first on (`First`, `Left`), as the loops over `Artifacts` do.

Abstracted: `restore_copy`, `restore_hash_verify` and `restore_file` are one
operation (the first two write only a temporary file next to the path; a death
there is reported on the same path as a death in `restore_file`); the ownership
checks of all artifacts are one step; case states other than `released`,
`restored` and `partial_restore` are `open`, because RestoreCase treats them alike
when no artifact is pending; persistence; the quarantined copy stays intact
(`NothingLost` of Quarantine is about it). One command runs at a time. No two
processes write the same case here, so the hash check of `commitCaseExpected`
cannot fail; CaseCommit is about it.

### CaseCommit

One case file and its two writers. `doc` is the file, and its hash is what it says
(status, observation, incomplete, last sample, whether the file is back). The
observer goes through `loop`, `sleep` and `sample` and then, like the command,
through `intent`, `compare`, `replace`, `confirm` and a result: the steps of
`commitCaseExpected` between which the other process, a death or a failing write
can come. The observer compares with the case it sampled; the command reads the
hash when its restoring is done, as `commitCase` does. The clock ticks between any
two steps, so waiting for `remediateMu` behind another hit, a slow check and a late
timer are all time passing. `samples` and `crossed` are history: what was seen in
the window, and whether the command renamed between the observer's comparison and
its rename. `lost` are the commits without a result, `Finding` is
`inspectCaseCommit`.

Abstracted: the two process checks are one, the startup entry goes with the file
(it is looked for after it and comes back after it); the operations inside a restore
are in SharedCases; `Verification.RequiresObservation`, `FinishedAt` and `MaxGapMS`
are derived from what is kept. After a death nobody goes on with the window, as in
the code, so a restarted agent adds nothing here. Commands run one at a time.

### JournalOrder

The files of one case's journal and any number of writers. A writer takes the file
lock, lists the directory (`Number`), renames its intent into place and lets the lock
go, acts, and writes its result to a file of its own; it may fail or die at each
place, and Windows lets go of the lock of a dead process. Between `Number` and
`WriteIntent` others run: only the lock keeps the number fresh. Operations of an
older version have no number (`Legacy`). The reader validates
(`ValidateJournalOrder`) and then walks the directory again
(`UnfinishedOperations`), with writers going on in between. `owed` and `settled`
remember what was abandoned, and what had its result, when the reading began.

Abstracted: contents of the entries; a listing of the directory is one step (a file
appears by a rename and is never changed). `NextSequence` is the smallest number
that is free, and fails on a gap, a duplicate and at the greatest number.

### Persistence

One case with its entries (Run values, shortcuts, tasks, services) and their
artifacts. The agent scans, backs up, saves the plan, quarantines, and removes the
entries of the artifacts it holds, each journaled: `WriteIntent`, `Check` (the target
is still started by what stands there), `Remove`, `WriteResult`. The command puts files
back and then, when all are, entries: `Check`, `PutBack`, `Verify`. An entry says
*own*, *edited* (the same target with other arguments) or *other*; what anybody else
writes is remembered in `theirs`, what the agent removed in `gone`. A Run value is set
over whatever came since the check; a shortcut is moved and a task registered without
replacing.

Abstracted: how a file is quarantined and put back is one action each with all its
outcomes (Quarantine and SharedCases look inside); parsing of shortcuts, task XML and
command lines is whether an entry starts the target; the two hashes of a backup are
its content; one case owns the entries.

### HitPipeline

Process instances with pids that are used again, images whose signature changes, the
four lists in versions of which the last is in force. `ListPids`, `ScanCandidate` and
`ProcessCreateFromProperties` bring candidates to the three steps of `procHit`:
`ChkHit` (`curBlk`, `inWhite`, `chkHit`, with both caches), `Enter` (the gate) and
`Dispatch` (kill, log, submit). Time is ticks; ages stop at their limit. A list read
while it is rewritten may say anything (`torn`).

Every question to Windows may stay without an answer, also about a process that lives.
`ListPids` is cut off where it fails, and `ScanCandidate` passes over a process that
cannot be opened or read. An event whose properties cannot be read is dropped; one
without the pid names the header's, and one whose image is no usable path gets that of
whoever has the pid when the callback runs, keeps the unusable one, or is dropped
(`Raw` is what the event itself says). The gate knows a process by pid and creation
time, or by pid and image when either call fails (`GateKey`). Two histories remember
of whom something was not told: `missed` (pid or image) and `denied` (creation time).

Abstracted: matching of paths in the lists is membership; the images modelled are
spared by no exception of `procHit` (uninstallers, the shell's processes). What
becomes of a hit is in HitQueue. `curBlk` stands for every caller's rules: `procHit`
ignores its parameter `bl` and asks `curBlk` itself.

### RuleFiles

Every item of the installation is *old*, *missing* or *new*; a rule file has one
local line, which an older version put there and the release does not have.
`user_rules.json` is what is added and what is disabled, or `Torn` between the
truncation and the write of `os.WriteFile`. The UI edits from memory under `d.mu`
(`Edit`): the change is in memory before the file is opened (`Save`), stays there when
it cannot be opened (`CannotOpen`), and may be lost from the file when the write is cut
off (`WriteFails`). A rule that is in memory already is not written again (`AddKnown`).
The UI reads everything again (`ReloadData`, `MarkFiles`) and polls time stamps
(`ChgFiles`, `PollReads`). A job, the synchronisation in the UI's process or the updater
in its own, takes a snapshot of the user rules and goes item by item through
`preserve`, `write`, `remove`, `rename`; `Finish` sets the marker and the updater writes
`version.json`. `UIEnds`, `UpdaterDies`, `UICloses` and `JobFails` end them anywhere.

Histories: `wanted` is what the UI has reported as made and not deleted, `refused` what
edits asked for and could not save; the others name the cases the properties except.
`crossed`: an edit or a second import began while an import was under way, or before
the UI had read again what one wrote (`unread`). `skipped`: a first import left out a
file that was still old. `raced`: a file changed between `ReloadData` and `MarkFiles`.
`wrecked`: a write of `user_rules.json` was cut off. `clashed`: a synchronisation began
while an update was under way. Nothing keeps the UI from any of this: it edits, reloads
and synchronises any selection of the files while jobs run. Bounds: `MaxEdits`,
`MaxDeaths`, `MaxFaults`, and `MaxTrouble` on the three together.

Abstracted: a rule file holds one local line; notes, logs, mirrors, resumption and the
stall watch of a download (it arrives complete or fails).

## 3. Runs

| Run | Bounds | Shows |
|---|---|---|
| `hit_queue` | 3 hits, 2 workers, 1 sample per window | safety, liveness and refinement of the queue |
| `quarantine` | 2 cases, 2 contents, 3 identities, 3 disturbances | safety and refinement of case handling |
| `shared_cases` | 2 linked cases, 2 artifacts, 2 deaths, 1 failing write or check, 1 foreign file or removal | everything a death leaves is found and nothing leaks by it, restore only when free, refinement, the repeated command succeeds |
| `shared_leak` | 1 failing write | violation, see section 5 |
| `shared_overlap` | agent and command at the same time | violation, see section 5 |
| `case_commit` | window of 2 intervals, 4 ticks, 2 commands, 1 death, fault or doubt, 1 change | observation and commit |
| `case_race` | 3 ticks, 1 command, nothing fails | violation, see section 5 |
| `journal_order` | 2 writers, 1 operation without number, 4 with, numbers to 3; deaths and failures unbounded | the journal stays readable, ordered, and tells what was abandoned |
| `persistence` | a Run value and a shortcut of two artifacts, 2 edits, 1 fault, 1 death | no removal untold, entries follow files, the repeated command succeeds |
| `hit_pipeline` | 2 processes with one pid and image, 1 signer, 1 edit, both ages 1 tick | cause of a kill, one pass of the gate per window, nobody shown who could be read escapes |
| `rule_files` | 2 rule files, 1 line, 2 edits, 1 death, 1 fault, 2 of these in one behaviour, any selection | the user's rules survive, `version.json` is true, the UI catches up, the update completes |
| `rules_lost` | 1 edit, nothing fails | violation, see section 5 |

Why the bounds are enough. Two workers are what `run` starts; with three hits one
waits in the queue while both workers are busy, and a Signal can meet zero, one or
two waiting workers. In Quarantine two cases let a second hit meet everything the
first left (record, plan, pending reboot, open operation), three identities let the
path be replaced twice, that is before and after an authorisation, and three
disturbances are enough for a fault, a crash and a change of the file in one
behaviour. In SharedCases two artifacts let the first operation succeed and the
second fail, two linked cases let one be released while another holds on, and two
deaths let the repair of the first be interrupted. In CaseCommit a window of two
intervals has samples before and at the deadline, four ticks make a first or a second
sample late, and two commands let a partial restore be repeated with the same bytes
and die. In JournalOrder a number can be given again after its first owner died, and
the greatest number is reached. In Persistence two entries of two artifacts let one
go and the other stay, and one of each way of putting back (set over, moved) is there;
two edits let one entry be taken away and another be put there. In HitPipeline the second
process starts under the pid of the first, before or after the first was looked at, and
both sources can hold the same process at once; an age of one tick is fresh, then
expired. Every query may fail. An event that names another pid, and a second name for an
image, need constants beyond this run; the theorem `GateIsOnce` covers them. In RuleFiles
one rule file can be replaced before the other fails, and one can be left out of a
synchronisation; a program is an item that nobody imports from, and the theorems have any
number of them. Two disturbances in one behaviour are an edit that cannot be saved before
or after one that can, or either of them with a death or a failing step at any place of a
job. `rule_files` explores behaviours until a synchronisation begins beside an update or a
file changes while the UI notes the time stamps (constraint `Undisturbed`). These two
histories are never taken back, and `VersionTellsTruth`, `UpdateCompletes` and
`ViewCatchesUp` except one of them each; what the constraint takes from the others is
covered for `RulesAreTheUsers` and `VersionTellsTruth` by their theorems, which know no
such bound.

Fairness. `HitQueue!Fairness`: runnable goroutines run (Go's scheduler is
preemptive and its mutexes hand over to a starving waiter); the scan walks a finite
list of processes; `session.Process` returns once the session is closed, and only
then is it fair. No hit and no interrupt is ever forced. `SharedCases!RetrySpec`:
a process that runs goes on, and the user repeats the command for every case;
strong fairness, because a command for the owner is refused while a reference is
held and so is not continuously possible. `CaseCommit!Fairness`: the observer's goroutine
runs and time passes; neither Close nor a command is forced. `Persistence!Spec`: the
process that runs goes on, and the command is given again whenever it may be.
`HitPipeline!Fairness`: scan and callback go on; nobody is made to start, exit or
edit. `RuleFiles!Fairness`: UI, polling goroutine, jobs and updater go on, the UI is
opened again, and the user asks again for an update that is offered (strong fairness:
the offer comes and goes with the job that is under way). Quarantine and JournalOrder
have no liveness property: a case can end in `pending` for good, by design, and a
writer that may die at any time owes nothing.

What the liveness properties assume beside that is in their statements:
`RetrySucceeds` and `RetryRestores` hold of behaviours without deaths and failing
writes in which what is in the way goes away for good (section 5 has what happens
otherwise), `UpdateCompletes` of those whose `user_rules.json` was not cut off
(`wrecked`) and in which no synchronisation began beside an update (`clashed`), though with
deaths and faults, `ShownIsHandled` of processes that every list condemns and about
which Windows gave the answers (not `missed` or `denied`), `ViewCatchesUp` of those in
which no file changed while the time stamps were noted (`raced`), and up to what could
not be saved (`refused`).

Deadlock is checked in all passing runs but `persistence` and `hit_pipeline`: there the
system really stops, when case and command are done with nothing left to edit, and
when every process has exited and every event is worked off. Elsewhere a stopped agent
(`Exited`, `Waits`, `Rest`) is a stuttering step.

## 4. Proofs

For every value of the constants that satisfies the modules' ASSUMEs.

`HitQueue_proofs`. `TypesHold`, `NoHitLost`, `SubmitNeverPanics`, `CloseIsQuiet`
and `QueueImplementsLedger`. `HitsConserved` is not inductive alone: that a worker
holds a hit exactly when it is in state `holding`, that `closed` and the two
producers follow `main`, and that workers that have left find an empty queue go
with it in the inductive invariant. The refinement needs in addition that nothing
is in the queue or in a hand when `main` reaches `returned`.

`Quarantine_proofs`. `TypesHold`, `NothingIsLost` and `QuarantineImplementsCustody`
(from which the check `NothingLost` of the abstract module also holds of the
detailed one); `QuarantinedCasesAreTrue`, `DeletionsAreAccounted`,
`ScheduledDeletionsAreTold` and `NothingDeletedOverOpenWork`. The inductive invariant
`IInv` is TypeOK with three parts:
`ControlInv` (which stages an operation can be in, and that no case is handled
while the agent is down), `CopyInv` (from the hash check on the temporary copy has
the artifact's bytes, and from publish on the store has them) and `CustodyInv` (an
authorised or scheduled file is kept, and the file at the path is kept or late
whenever an authorisation stands). Two more stand on it. `RecordInv`: identities are
given out once, so a file that left the path does not come back, ownership is recorded
once and only for a file that is gone and kept, and a case becomes quarantined only on
a record of its own; this rests on `NoRecord` being no record
(`ConstantsAssumption`). `JournalInv`: the plan is in place before the first
operation on the artifact, an operation is in the journal before it is done, a case is
saved once and last, and whoever registered a deletion is found by the next start
(`Told`); an agent that is not blocked started from a journal without findings.

`SharedCases_proofs`, for any linked cases and artifacts, under `~Overlap`.
`TypesHold`, `RestoredFree`, `RestoreGapTold`, `SharingImplemented`,
`NoReferenceForgotten` and `NothingLeaksByDeath`. With one
process at a time (`AloneInv`) the record a process read is still the record it writes
(`Knows`), and no other case has joined an artifact that is being restored. That a
restored artifact whose case still says linked is *found* needs a trace of the release
from the write of the record on, in the process, then in the journal (`TraceInv`,
`Told`); that a file put back is found needs the same of the restore (`GapInv`). The
refinement follows: `LinkReference` is `Hold`, `ReleaseReference` `LetGo`,
`RestoreFile` `PutBack`, `RestoreOwnership` `Close`, and the rest stutters.

The last two theorems say what deaths alone can do, while no write fails and nobody
touches the paths (`Quiet`), and so delimit finding 1. The argument is about the order
of the artifacts. The hit's image is the first of them: it is put back first and only
then is any record closed, so while the image is missing, which `Take` looks at,
nothing can stop a link, and once it is back no link is under way (`PathInv`). Hence
`LinkFailed`, which drops the links from the case, is reached only before the first
link is done. A case is new when the agent takes it and has no file until it is saved
(`FreshInv`); its reference is in the journal until then and in the file afterwards,
and no process is about to save the case without it (`ReferenceInv`). A case is saved
as settled only when it says of no artifact that it is linked (`SettledInv`).

`CaseCommit_proofs`. `TypesHold`, `CompletedEarned`, `RestoredIsSafe`, `VerdictTold`
and `UnfinishedIsTold`.
`CompletedIsEarned` speaks of the file only; inductive is that every case from which
the observer works *knows* of all samples taken (`KnowledgeInv`: its last sample is
the last, and it is marked incomplete if one was late or in doubt), and that once a
completed case is anywhere, in the file or in the command's hands, the observer has
taken its last sample (`CompletedInv`). `RestoredStays` needs that the command never
works on a restored case and the observer, past its comparison, faces a restored one
only if it was overtaken (`CrossingInv`).

`VerdictIsTold`: while nothing disturbs, the observer faces the case it works from, and
what it has in hand or has saved says what its samples saw (`ToldInv`).
`UnfinishedCommitTold` compares hashes, so it needs that a case which was replaced never
comes back. A rank makes that an order: every sample that is committed and every end
takes a case further, and only the observer does that (`Rank`, with `TimeInv`: a sample
starts after the one before it); the command keeps the rank and goes from an
unrestored case to a partial or a full restore (`OrderInv`). A case behind the file and
behind both writers is `Dead`, and every commit that replaced the file replaced a case
that is (`DidInv`).

`JournalOrder_proofs`, for any number of writers and operations. `TypesHold`,
`JournalStaysReadable`, `AbandonedAreReported`, `NumbersFollowTime`. A number is
given in one step and written in a later one; that it is still the next one then
(`NumberInv`) is because its writer holds the lock (`LockInv`), also when others have
died.

`Persistence_proofs`, for any artifacts and entries. `RemovalsAreTold` and
`EntriesAreOrdered`. What the case will say of an entry is in the memory of whoever
works on it: `PlanInv` (what was found is saved before it can be removed), `SavedInv`
(the case in memory agrees with the one on disk), `ToldInv` (a removed entry is in the
memory, in the journal, or in the case) and `FilesInv` (what the process has checked of
the files when it touches entries).

`HitPipeline_proofs`, for any processes, pids, images, lists and ages.
`KillsHaveCause` and `GateIsOnce`. The gate knows a process by what holds its pid when
it is asked, unless that cannot be opened; a living process holds its own pid (`PidInv`)
and its entry is never older than its last pass, until a pass was under another key
because its creation time could not be read (`GateInv`). The exception is in the property:
`OncePerWindow` says nothing of a process in `denied`, and everything of the others,
whatever name or pid the sources bring. The cached rules were replaced no longer ago than
they are old (`RulesInv`), and a cached signer is one the file has had (`SignerInv`).

`RuleFiles_proofs`, for any files, programs and rules, with the UI working on beside the
jobs and any selection of files. `VersionIsTrue`: until a synchronisation begins beside an
update (`ClashStays`) there is one job at a time, for the UI offers no update while it
synchronises (`AloneInv`); what an update has passed is the release's, although it or
another may have died before, and a synchronisation touches an item only while
`version.json` is old (`VersionInv`). `RulesSurvive`: while none of the three exceptions
has happened (`Safe`, which is never regained: `SafeStays`), at most one job imports, it
has every old file on its list, and once the marker is there no file is old (`WorkInv`);
its snapshot is what the file says when it is written back (`SnapInv`), and so is the UI's
memory when an edit writes it, but for what was refused before and what an import has
written since (`FreshInv`). That an update always takes all old files, and that the UI
never deletes the line of one, is `ListInv`.

All inductive invariants were checked by TLC before they were proved.

Every safety and action property of a passing run is a theorem, with one restriction on
the constants, `~Overlap` in the theorems of SharedCases, which is the bound of their run
too. Only model-checked: the liveness
properties `EveryHitHandled`, `ShutdownCompletes`, `RetrySucceeds`, `ObservationEnds`,
`ViewCatchesUp`, `UpdateCompletes`, `ShownIsHandled` and `RetryRestores`, since fairness
and ENABLED are out of the prover's reach. No module uses RECURSIVE.

## 5. Findings

1. `shared_leak`. `linkSharedCase` stops at the first artifact it cannot link and
   the case is then saved without artifacts, while the references written before
   stay in the records. Restoring that case marks it `restored` and releases
   nothing, so the owner's restore is refused for good.
2. `shared_overlap`. Nothing keeps `--restore-case` from running while the agent
   runs, and the record is read and written with no lock: a restored artifact can
   end up with a linked case.
3. `case_race`. The comparison of the hash and the rename are two steps, and
   `remediateMu` does not reach the other process: an observation's commit can put a
   `pending_verification` case over a `restored` one. `RestoredStays` shows that this
   window is the only one.
4. `rules_lost`. A synchronisation reads `user_rules.json` once when it starts and
   writes that snapshot back with the imported lines; a rule the user adds meanwhile
   is gone. It happens only until `.legacy_rules_migrated` exists.

The passing run of SharedCases therefore assumes that the command runs while the agent is
stopped (`Overlap = FALSE`), which the code does not enforce. `rule_files` assumes nothing
of the kind: `RulesAreTheUsers` excepts the window of finding 4 as it is in the code
(`crossed`) and a first import of some of the files (`skipped`, below), and shows that
there is no other way to lose a rule but a write that was cut off. `ReferenceKnown` and
`DeathsLeakNothing` speak of deaths only: finding 1 needs a write that fails or a file in
the way.

Other things the models showed, without a run of their own:

- *A selection.* `finish` sets the marker when the job looked at any rule file, and the UI
  lets the user select some of the files (`ui_dlg.go:472`). A later synchronisation finds
  the marker and skips `preserve`, so the local lines of a file left out go with it, where
  the repository's `README.md:24` says that the first update imports them (`skipped`).
- *A refused rule.* When `user_rules.json` cannot be opened, `addLn` returns the error and
  keeps the rule in memory. Adding it again finds it there, writes nothing and is reported
  as done; the next reload drops it (`refused`; `AddKnown`).
- *Two jobs.* The updater is a process of its own, and a UI opened meanwhile can
  synchronise: the one removes what the other has put there, and an item can be missing
  although `version.json` is new (`clashed`).
- *Time stamps.* `reloadData` reads the files and notes their stamps afterwards; what
  changed in between is not shown until the next change (`raced`; `ViewCatchesUp` shows
  that this window is the only one). An edit that could not be saved changes no stamp:
  memory keeps it until something else changes, and the next save writes it.
- *user_rules.json* is truncated and written in place: a death in between empties it,
  and every later import refuses the broken file. `RulesAreTheUsers` and
  `UpdateCompletes` except such behaviours (`wrecked`).
- *Replacement.* The target is removed before the new file is renamed into place: a
  failure or a death leaves it missing until the next update. `version.json` is
  written last, so an updater that dies after the last item leaves it old for good:
  nothing needs replacing and no update is offered.
- *Detection.* A process created between the scan's snapshot and the start of the ETW
  session is seen by neither. `doKill` ends whoever has the pid by then. Errors of
  `readBlk` are swallowed below it, so its caller's branch that keeps the old lists is
  never taken and a list read while it is rewritten is empty for a minute. The signature of
  a path is cached until the cache is emptied, whatever becomes of the file. A process that
  cannot be opened when the scan comes to it is not looked at again. `isSysDesk` compares with
  the Windows directory and two backslashes (a raw string, `main.go:427`), so the files
  below it are not spared as the comment at `main.go:422` has it.
- *Startup entries.* Removal looks at the target again, not at what was saved: an entry
  that was edited after the scan, but starts the same target, is removed and its edit is
  in no backup (a Run value). A shortcut or a task that was put back but whose result
  is lost is found in the way by every later attempt, and the case stays
  `partial_restore`; likewise a file that is back without its ownership record. A Run
  value is read and then set: a value written in between is lost.
- *Restore.* When the hash of a file just moved back cannot be read, and the command
  dies before it saves the case, no finding tells of the file.

## 6. Not modelled, and what is left

- Case reports, settings, release tooling, the decoy: sequential programs over one
  file, with no concurrency and no state between runs.
- UI windows and drawing; the polling and the jobs among them are in RuleFiles.
- `utils`: wrappers of Win32 calls, whose outcomes are the nondeterministic choices of
  the other modules.
- The UI's vendor clean-up (`regvm`, `reghr`, `ads360`): one-shot commands over the
  registry, each idempotent, with nothing kept in between.
- Downloads: mirrors, resumption and the stall watch.
- Parsing and formatting throughout.

Left for later: a composition of Persistence with the operations of Quarantine for one
artifact (each is one action of the other today), DLL artifacts as iterations of their
own, and what still holds of the records when agent and command overlap (`Overlap`).
