------------------------------- MODULE RuleFiles -------------------------------
(***************************************************************************)
(* The rule files of an installation and who writes them: the UI edits      *)
(* user_rules.json from its memory, polls the files and reloads them, the    *)
(* synchronisation (a goroutine of the UI) and the updater (a process of its *)
(* own) replace the downloaded files, and both first import the lines a user *)
(* once wrote into a downloaded file.  Only d.mu orders the UI's own edits   *)
(* and reloads; os.WriteFile truncates before it writes.                     *)
(*                                                                         *)
(* A rule file is an item with one local line, named as the file: the line   *)
(* an older version stored there and the release does not have.             *)
(***************************************************************************)
EXTENDS Naturals, FiniteSets

CONSTANTS
  Files,        \* the downloaded rule files
  Programs,     \* the other items of an update
  Lines,        \* rules a user may add
  MaxEdits, MaxDeaths, MaxFaults,  \* bounds on edits, deaths, failing steps
  MaxTrouble,   \* bound on all of them together
  Torn, None    \* a truncated user_rules.json; no item

ASSUME RuleFilesAssumption ==
  /\ Lines \intersect Files = {} /\ Programs \intersect Files = {}
  /\ None \notin Files \union Programs
  /\ Torn \notin [add : SUBSET (Lines \union Files), off : SUBSET Files]
  /\ MaxEdits \in Nat /\ MaxDeaths \in Nat /\ MaxFaults \in Nat /\ MaxTrouble \in Nat

Items == Files \union Programs
Jobs == {"sync", "update"}

VARIABLES
  disk,         \* each item: the old content, the release's, or missing
  user,         \* user_rules.json
  marker,       \* .legacy_rules_migrated exists
  version,      \* version.json
  mem, moved,   \* appDat: rules and files as read; a file changed since its stamp
  ui, poll,     \* the UI thread, the polling goroutine
  job,          \* the synchronisation and the updater
  wanted,       \* history: the rules the UI has reported as made and not deleted
  refused,      \* history: what edits asked for that could not be saved
  unread,       \* history: an import has written since the UI last read the rules
  crossed,      \* history: an edit or another import came in between an import
  skipped,      \* history: a first import left out a file that was still old
  raced,        \* history: a file changed while the UI noted the time stamps
  wrecked,      \* history: a write of user_rules.json was cut off
  clashed,      \* history: a synchronisation began while an update was under way
  edits, deaths, faults

files == <<disk, user, marker, version>>
view == <<mem, moved>>
outcome == <<crossed, skipped, wrecked, clashed>>
history == <<wanted, refused, unread, raced, outcome>>
trouble == <<edits, deaths, faults>>
vars == <<files, view, ui, poll, job, history, trouble>>

\* user_rules.json: what is added and what is disabled of the downloaded lines.
NoRules == [add |-> {}, off |-> {}]

\* A job: its place, the items left and the one at hand, whether it imports,
\* has looked at a rule file, and the rules as it knows them.
Idle == [pc |-> "idle", todo |-> {}, now |-> None,
         on |-> FALSE, touched |-> FALSE, snap |-> NoRules]

\* rdUserRules: a missing or broken file is no rules.
ReadRules == IF user = Torn THEN NoRules ELSE user
Loaded == [txt |-> [f \in Files |-> disk[f]], rules |-> ReadRules]

Init ==
  /\ disk = [i \in Items |-> "old"]
  /\ user = NoRules /\ marker = FALSE /\ version = "old"
  /\ mem = Loaded /\ moved = FALSE
  /\ ui = "up" /\ poll = "idle"
  /\ job = [j \in Jobs |-> Idle]
  /\ wanted = [add |-> Files, off |-> {}] /\ refused = NoRules
  /\ unread = FALSE /\ crossed = FALSE /\ skipped = FALSE /\ raced = FALSE
  /\ wrecked = FALSE /\ clashed = FALSE
  /\ edits = 0 /\ deaths = 0 /\ faults = 0

Quiet == \A j \in Jobs : job[j].pc = "idle"

Importing(j) == job[j].pc \in {"next", "preserve", "write", "remove", "rename"} /\ job[j].on

\* A file is truncated, written, removed or replaced: its time stamp changes.
Touched == moved' = TRUE /\ raced' = (raced \/ ui = "marking")

\* The bounds leave room for another edit, death or failing step.
Spared == edits + deaths + faults < MaxTrouble
Faulty == faults < MaxFaults /\ Spared /\ faults' = faults + 1
Deadly == deaths < MaxDeaths /\ Spared /\ deaths' = deaths + 1

-------------------------------------------------------------------------------
(* The UI thread: edits *)

MayEdit == ui = "up" /\ edits < MaxEdits /\ Spared

\* The file is empty until the write is done; d.mu is held. The user means the
\* change, whoever comes first.
Save(add, off, then) ==
  /\ user' = Torn /\ ui' = then /\ Touched
  /\ wanted' = [add |-> (wanted.add \ (mem.rules.add \ add)) \union (add \ mem.rules.add),
                off |-> (wanted.off \ (mem.rules.off \ off)) \union (off \ mem.rules.off)]
  /\ crossed' = (crossed \/ unread \/ \E j \in Jobs : Importing(j))
  /\ UNCHANGED <<refused, faults>>

Apart(S, T) == (S \ T) \union (T \ S)

\* The file cannot be opened: it stays, the UI says so and reads nothing again.
CannotOpen(add, off) ==
  /\ Faulty
  /\ refused' = [add |-> refused.add \union Apart(add, mem.rules.add),
                 off |-> refused.off \union Apart(off, mem.rules.off)]
  /\ UNCHANGED <<user, moved, ui, wanted, crossed, raced>>

\* The rules in memory change, then they are written over the file.
Edit(add, off, then) ==
  /\ MayEdit
  /\ mem' = [mem EXCEPT !.rules = [add |-> add, off |-> off]]
  /\ Save(add, off, then) \/ CannotOpen(add, off)
  /\ edits' = edits + 1
  /\ UNCHANGED <<disk, marker, version, poll, job, unread, skipped, wrecked, clashed, deaths>>

AddLn(l) ==
  /\ l \notin mem.rules.add
  /\ Edit(mem.rules.add \union {l}, mem.rules.off, "adding")

\* From a log entry: all folders of a path that no whitelist line names yet.
AddWhite(S) ==
  /\ S # {} /\ S \intersect mem.rules.add = {}
  /\ Edit(mem.rules.add \union S, mem.rules.off, "adding")

\* A line that memory has is not written again. Added by hand it is reported as
\* added, from a log entry as there; then the UI reads everything again.
AddKnown(l) ==
  /\ MayEdit /\ l \in mem.rules.add
  /\ ui' = "reload" /\ edits' = edits + 1
  /\ wanted' \in {wanted, [wanted EXCEPT !.add = @ \union {l}]}
  /\ UNCHANGED <<files, view, poll, job, refused, unread, raced, outcome, deaths, faults>>

\* A line both added and still in a downloaded file counts as downloaded.
FromTxt(l) == l \in Files /\ mem.txt[l] = "old"

\* A custom rule is deleted, a downloaded one is disabled or enabled again.
ToggleCustom(l) ==
  /\ l \in mem.rules.add /\ ~FromTxt(l)
  /\ Edit(mem.rules.add \ {l}, mem.rules.off, "toggling")

ToggleTxt(f) ==
  /\ mem.txt[f] # "missing"
  /\ Edit(mem.rules.add, IF f \in mem.rules.off THEN mem.rules.off \ {f}
                         ELSE mem.rules.off \union {f}, "toggling")

\* An edit ends; after an addition the UI reads everything again.
WriteUserRules ==
  /\ ui \in {"adding", "toggling"}
  /\ user' = mem.rules /\ moved' = TRUE
  /\ ui' = IF ui = "adding" THEN "reload" ELSE "up"
  /\ UNCHANGED <<disk, marker, version, mem, poll, job, history, trouble>>

\* The write is cut off by an error: memory keeps what the file has lost.
WriteFails ==
  /\ ui \in {"adding", "toggling"}
  /\ Faulty
  /\ moved' = TRUE /\ wrecked' = TRUE /\ ui' = "up"
  /\ UNCHANGED <<files, mem, poll, job, wanted, refused, unread, raced, crossed, skipped, clashed, edits, deaths>>

-------------------------------------------------------------------------------
(* The UI reads the files *)

ReadAll == mem' = Loaded /\ unread' = FALSE

\* reloadData: read everything, then note the time stamps.
ReloadData ==
  /\ ui = "reload"
  /\ ReadAll /\ ui' = "marking"
  /\ UNCHANGED <<files, moved, poll, job, wanted, refused, raced, outcome, trouble>>

MarkFiles ==
  /\ ui = "marking"
  /\ moved' = FALSE /\ ui' = "up"
  /\ UNCHANGED <<files, mem, poll, job, history, trouble>>

\* The poll notes the time stamps first; the read waits for d.mu.
ChgFiles ==
  /\ ui # "down" /\ poll = "idle" /\ moved
  /\ moved' = FALSE /\ poll' = "read"
  /\ UNCHANGED <<files, mem, ui, job, history, trouble>>

PollReadsTxt ==
  /\ poll = "read" /\ ui \notin {"adding", "toggling"}
  /\ mem' = [mem EXCEPT !.txt = Loaded.txt] /\ poll' = "idle"
  /\ UNCHANGED <<files, moved, ui, job, history, trouble>>

PollReads ==
  /\ poll = "read" /\ ui \notin {"adding", "toggling"}
  /\ ReadAll /\ poll' = "idle"
  /\ UNCHANGED <<files, moved, ui, job, wanted, refused, raced, outcome, trouble>>

OpenUI ==
  /\ ui = "down"
  /\ ReadAll /\ moved' = FALSE /\ ui' = "reload"
  /\ UNCHANGED <<files, poll, job, wanted, refused, raced, outcome, trouble>>

-------------------------------------------------------------------------------
(* The jobs *)

SetJob(j, r) == job' = [job EXCEPT ![j] = r]
At(j, pc) == job[j].pc = pc
Goto(j, pc) == SetJob(j, [job[j] EXCEPT !.pc = pc])

\* newLegacyRuleMigration: nothing once the marker is there, else the user rules
\* as they are now; broken ones are an error.
Migration(r) == [r EXCEPT !.pc = "next", !.on = ~marker,
                          !.snap = IF marker THEN NoRules ELSE user]
CanMigrate == marker \/ user # Torn

\* An import that begins while another is under way crosses it.
Crossing == crossed' = (crossed \/ (~marker /\ \E j \in Jobs : Importing(j)))

\* updMu: one of DoSyn, DoUpdNative and the checks at a time.
UpdMuFree == job["sync"].pc = "idle" /\ job["update"].pc # "stage"

NeededIfThere(i) == disk[i] = "old"

\* needMD5: another hash, or no file.
Needed(i) == disk[i] # "new"

\* The user chooses the files; all of them or none with the other policies.
DoSyn(chosen) ==
  /\ ui = "up" /\ UpdMuFree /\ CanMigrate
  /\ SetJob("sync", Migration([Idle EXCEPT !.todo = chosen]))
  /\ Crossing
  /\ skipped' = (skipped \/ (~marker /\ \E f \in Files \ chosen : disk[f] = "old"))
  /\ clashed' = (clashed \/ ~At("update", "idle"))
  /\ UNCHANGED <<files, view, ui, poll, wanted, refused, unread, raced, wrecked, trouble>>

\* DoUpdNative: a newer version and something to replace; all is downloaded first.
DoUpdNative ==
  /\ ui = "up" /\ UpdMuFree /\ job["update"].pc = "idle"
  /\ version = "old" /\ \E i \in Items : Needed(i)
  /\ SetJob("update", [Idle EXCEPT !.pc = "stage", !.todo = {i \in Items : Needed(i)}])
  /\ UNCHANGED <<files, view, ui, poll, history, trouble>>

\* The updater is started and the UI is about to close.
StartUpdater ==
  /\ At("update", "stage")
  /\ Goto("update", "start")
  /\ UNCHANGED <<files, view, ui, poll, history, trouble>>

\* AppPend reads the user rules, then waits for the UI to be gone, 15 s at most.
AppPend ==
  /\ At("update", "start")
  /\ IF CanMigrate THEN SetJob("update", Migration(job["update"])) /\ Crossing
                   ELSE SetJob("update", Idle) /\ UNCHANGED crossed
  /\ UNCHANGED <<files, view, ui, poll, wanted, refused, unread, raced, skipped, wrecked, clashed, trouble>>

\* The next item; the synchronisation skips one that is up to date and downloads
\* the others one by one.
NextItem(j, i) ==
  /\ At(j, "next") /\ i \in job[j].todo
  /\ SetJob(j, IF j = "sync" /\ ~Needed(i) THEN [job[j] EXCEPT !.todo = @ \ {i}]
               ELSE [job[j] EXCEPT !.pc = "preserve", !.now = i, !.todo = @ \ {i}])
  /\ UNCHANGED <<files, view, ui, poll, history, trouble>>

\* preserve: the local line of the file that is about to go.
LocalOnly(j) ==
  {f \in Files : f = job[j].now /\ disk[f] = "old" /\ f \notin job[j].snap.add}

PreserveForgetting(j) ==
  /\ At(j, "preserve")
  /\ IF job[j].on /\ job[j].now \in Files /\ LocalOnly(j) # {}
     THEN /\ SetJob(j, [job[j] EXCEPT !.pc = "write", !.touched = TRUE,
                                      !.snap.add = LocalOnly(j)])
          /\ user' = Torn /\ Touched /\ unread' = TRUE
     ELSE Goto(j, "remove") /\ UNCHANGED <<user, moved, raced, unread>>
  /\ UNCHANGED <<disk, marker, version, mem, ui, poll, wanted, refused, outcome, trouble>>

Preserve(j) ==
  /\ At(j, "preserve")
  /\ LET rule == job[j].on /\ job[j].now \in Files
     IN IF rule /\ LocalOnly(j) # {}
        THEN /\ SetJob(j, [job[j] EXCEPT !.pc = "write", !.touched = TRUE,
                                         !.snap.add = @ \union LocalOnly(j)])
             /\ user' = Torn /\ Touched /\ unread' = TRUE
        ELSE /\ SetJob(j, [job[j] EXCEPT !.pc = "remove", !.touched = @ \/ rule])
             /\ UNCHANGED <<user, moved, raced, unread>>
  /\ UNCHANGED <<disk, marker, version, mem, ui, poll, wanted, refused, outcome, trouble>>

WriteSnapshot(j) ==
  /\ At(j, "write")
  /\ user' = job[j].snap /\ Touched /\ unread' = TRUE
  /\ Goto(j, "remove")
  /\ UNCHANGED <<disk, marker, version, mem, ui, poll, wanted, refused, outcome, trouble>>

\* The old file goes, then the new one comes.
RemoveOld(j) ==
  /\ At(j, "remove")
  /\ disk' = [disk EXCEPT ![job[j].now] = "missing"] /\ Touched
  /\ Goto(j, "rename")
  /\ UNCHANGED <<user, marker, version, mem, ui, poll, wanted, refused, unread, outcome, trouble>>

RenameNew(j) ==
  /\ At(j, "rename")
  /\ disk' = [disk EXCEPT ![job[j].now] = "new"] /\ Touched
  /\ SetJob(j, [job[j] EXCEPT !.pc = "next", !.now = None])
  /\ UNCHANGED <<user, marker, version, mem, ui, poll, wanted, refused, unread, outcome, trouble>>

\* finish: lines are imported once and for all.
Finish(j) ==
  /\ At(j, "next") /\ job[j].todo = {}
  /\ marker' = (marker \/ (job[j].on /\ job[j].touched))
  /\ Goto(j, IF j = "sync" THEN "done" ELSE "version")
  /\ UNCHANGED <<disk, user, version, view, ui, poll, history, trouble>>

SyncDone ==
  /\ At("sync", "done") /\ ui = "up"
  /\ SetJob("sync", Idle) /\ ui' = "reload"
  /\ UNCHANGED <<files, view, poll, history, trouble>>

WriteVersion ==
  /\ At("update", "version")
  /\ version' = "new" /\ SetJob("update", Idle)
  /\ UNCHANGED <<disk, user, marker, view, ui, poll, history, trouble>>

JobFailsUnnoticed(j) ==
  /\ job[j].pc \in {"stage", "next", "preserve", "write", "remove", "rename", "version"}
  /\ Faulty
  /\ SetJob(j, IF j = "update" THEN [job[j] EXCEPT !.pc = "version"] ELSE Idle)
  /\ wrecked' = (wrecked \/ At(j, "write"))
  /\ IF At(j, "write") THEN Touched ELSE UNCHANGED <<moved, raced>>
  /\ UNCHANGED <<files, mem, ui, poll, wanted, refused, unread, crossed, skipped, clashed, edits, deaths>>

\* A download, a write or a replacement fails, whatever the retries: the job is over,
\* and what it had begun stays as it is (os.Remove too may fail and leave the old file).
JobFails(j) ==
  /\ job[j].pc \in {"stage", "next", "preserve", "write", "remove", "rename", "version"}
  /\ Faulty
  /\ SetJob(j, Idle)
  /\ wrecked' = (wrecked \/ At(j, "write"))
  /\ IF At(j, "write") THEN Touched ELSE UNCHANGED <<moved, raced>>
  /\ UNCHANGED <<files, mem, ui, poll, wanted, refused, unread, crossed, skipped, clashed, edits, deaths>>

-------------------------------------------------------------------------------
(* Processes end: the UI takes the synchronisation and the download with it *)

InUI(j) == j = "sync" \/ job[j].pc = "stage"

UIEnds ==
  /\ ui # "down" /\ Deadly
  /\ ui' = "down" /\ poll' = "idle"
  /\ job' = [j \in Jobs |-> IF InUI(j) THEN Idle ELSE job[j]]
  /\ wrecked' = (wrecked \/ ui \in {"adding", "toggling"} \/ At("sync", "write"))
  /\ UNCHANGED <<files, view, wanted, refused, unread, raced, crossed, skipped, clashed, edits, faults>>

UpdaterDies ==
  /\ ~InUI("update") /\ job["update"].pc # "idle"
  /\ Deadly
  /\ SetJob("update", Idle)
  /\ wrecked' = (wrecked \/ At("update", "write"))
  /\ UNCHANGED <<files, view, ui, poll, wanted, refused, unread, raced, crossed, skipped, clashed, edits, faults>>

\* onExit closes the UI once the updater was started.
UICloses ==
  /\ ui # "down" /\ ~InUI("update") /\ job["update"].pc # "idle"
  /\ ui \notin {"adding", "toggling"} /\ ~At("sync", "write")
  /\ ui' = "down" /\ poll' = "idle"
  /\ SetJob("sync", Idle)
  /\ UNCHANGED <<files, view, history, trouble>>

\* The user leaves it at that.
Rest == ui = "up" /\ poll = "idle" /\ ~moved /\ Quiet /\ UNCHANGED vars

-------------------------------------------------------------------------------
Selections == SUBSET Files \ {{}}

Edits ==
  \/ \E l \in Lines : AddLn(l) \/ AddKnown(l)
  \/ \E S \in SUBSET Lines : AddWhite(S)
  \/ \E l \in Lines \union Files : ToggleCustom(l)
  \/ \E f \in Files : ToggleTxt(f)

UIStep == WriteUserRules \/ ReloadData \/ MarkFiles \/ SyncDone
PollStep == ChgFiles \/ PollReads
JobStep(j) ==
  \/ \E i \in Items : NextItem(j, i)
  \/ Preserve(j) \/ WriteSnapshot(j) \/ RemoveOld(j) \/ RenameNew(j) \/ Finish(j)
Updating == StartUpdater \/ AppPend \/ WriteVersion

Next ==
  \/ Edits \/ UIStep \/ PollStep \/ Updating
  \/ \E chosen \in Selections : DoSyn(chosen)
  \/ DoUpdNative \/ OpenUI
  \/ \E j \in Jobs : JobStep(j) \/ JobFails(j)
  \/ WriteFails \/ UIEnds \/ UICloses \/ UpdaterDies \/ Rest

Spec == Init /\ [][Next]_vars

\* Threads and processes that run go on; the user opens the UI again and asks
\* again for an update that is offered.
Fairness ==
  /\ WF_vars(UIStep) /\ WF_vars(PollStep) /\ WF_vars(Updating)
  /\ \A j \in Jobs : WF_vars(JobStep(j))
  /\ WF_vars(OpenUI) /\ SF_vars(DoUpdNative)

FairSpec == Spec /\ Fairness

-------------------------------------------------------------------------------
(* Properties *)

\* user_rules.json as it is or as its writer is about to leave it.
Written ==
  CASE ui \in {"adding", "toggling"} -> mem.rules
    [] ui \notin {"adding", "toggling"} /\ \E j \in Jobs : At(j, "write") ->
         job[CHOOSE j \in Jobs : At(j, "write")].snap
    [] OTHER -> ReadRules

\* What the user made is what there is, but for what failed edits asked for.
Kept ==
  /\ wanted.add \ refused.add \subseteq Written.add \union {f \in Files : disk[f] = "old"}
  /\ Written.add \subseteq wanted.add \union refused.add
  /\ Written.off \ refused.off = wanted.off \ refused.off

\* Every rule added or imported and not deleted is in user_rules.json or still in
\* an old file, every disabled one is disabled, and nothing else is there, whatever
\* fails or dies (README.md:24 "同步及程序更新不会覆盖它", "导入用户规则"). An edit
\* that could not be saved is in memory, and later in the file or not. Excepted are
\* a write cut off by a death or an error (os.WriteFile empties the file first), an
\* edit or a second import in between a first one, up to the UI's next reading, and
\* a first import of some of the files.
RulesAreTheUsers == ~wrecked /\ ~crossed /\ ~skipped => Kept

\* An edit of the UI and an import keep each other's rules
\* (README.md:24 "同步及程序更新不会覆盖它").
ImportKeepsEdits == ~wrecked /\ ~skipped => Kept

\* version.json names the release only when every item is the release's, after
\* whatever failed or died before, while the user edits and reloads; unless a
\* synchronisation begins beside an update and removes what that has replaced
\* (update.go:640-674, 834-869).
VersionTellsTruth ==
  ~clashed /\ version = "new" => \A i \in Items : disk[i] = "new"

\* When nothing writes any more the UI shows what the files say, and what it could
\* not save; unless a file changed just between reading it and noting its time
\* stamp, which the poll then takes for seen (ui_core.go:251-253).
ViewCatchesUp ==
  []~raced /\ <>[](Quiet /\ ui \notin {"down", "adding", "toggling"})
    => <>[](/\ mem.txt = Loaded.txt
            /\ Apart(mem.rules.add, ReadRules.add) \subseteq refused.add
            /\ Apart(mem.rules.off, ReadRules.off) \subseteq refused.off)

\* An update that keeps being asked for replaces everything in the end, although
\* deaths and failures left a mixture; unless user_rules.json was cut off, which
\* makes every import refuse, or a synchronisation began beside an update.
UpdateCompletes ==
  []~wrecked /\ []~clashed => <>(\A i \in Items : disk[i] = "new")
===============================================================================
