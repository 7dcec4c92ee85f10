--------------------------- MODULE RuleFiles_proofs ---------------------------
(***************************************************************************)
(* Proofs about RuleFiles, for any files, programs and rules.                *)
(*                                                                         *)
(* That version.json tells the truth is proved for every behaviour, as long  *)
(* as no synchronisation begins beside an update (~clashed): one job works at *)
(* a time (AloneInv), and what an update has left to do says which items are  *)
(* the release's (VersionInv).                                             *)
(*                                                                         *)
(* That the rules are the user's is proved for every behaviour, as long as   *)
(* no write was cut off, nothing came in between an import and no import     *)
(* left a file out (Safe): one job imports (WorkInv), what it has in memory   *)
(* is what user_rules.json says, so that writing it back loses nothing        *)
(* (SnapInv), and so is what the UI has read and edits (FreshInv).           *)
(***************************************************************************)
EXTENDS RuleFiles, TLAPS

AtItem == {"preserve", "write", "remove", "rename"}
Working == {"next"} \cup AtItem
Rules == [add : SUBSET (Lines \union Files), off : SUBSET Files]
JobType ==
  [pc : {"idle", "stage", "start", "done", "version"} \cup Working, todo : SUBSET Items,
   now : Items \cup {None}, on : BOOLEAN, touched : BOOLEAN, snap : Rules]

TypeInv ==
  /\ disk \in [Items -> {"old", "new", "missing"}]
  /\ user \in Rules \cup {Torn}
  /\ marker \in BOOLEAN /\ version \in {"old", "new"} /\ moved \in BOOLEAN
  /\ mem \in [txt : [Files -> {"old", "new", "missing"}], rules : Rules]
  /\ wanted \in Rules /\ refused \in Rules
  /\ ui \in {"up", "down", "adding", "toggling", "reload", "marking"}
  /\ poll \in {"idle", "read"}
  /\ job \in [Jobs -> JobType]
  /\ \A j \in Jobs : job[j].now # None <=> job[j].pc \in AtItem

\* One job at a time.
AloneInv ==
  /\ job["sync"].pc = "idle" \/ job["update"].pc = "idle"
  /\ job["sync"].pc \notin {"stage", "start", "version"} /\ job["update"].pc # "done"

\* What an update has left to do: it begins when version.json is old, and what is
\* not the release's is still on its list. A synchronisation touches an item only
\* while version.json is old.
VersionInv ==
  /\ VersionTellsTruth
  /\ job["update"].pc # "idle" =>
       /\ version = "old"
       /\ \A i \in Items : disk[i] = "new" \/ i \in job["update"].todo \cup {job["update"].now}
       /\ job["update"].pc = "version" => job["update"].todo = {}
  /\ job["sync"].pc \in AtItem => version = "old"

VInv == TypeInv /\ (~clashed => AloneInv /\ VersionInv)

Safe == ~wrecked /\ ~crossed /\ ~skipped
Writing == ui \in {"adding", "toggling"}
Left(j) == \A f \in Files : disk[f] = "old" => f \in job[j].todo \cup {job[j].now}

\* What an update has left to do, and a synchronisation of all files: the old ones
\* are on its list. A job that imports nothing found the marker. A line of an old
\* file is wanted: the UI disables such a line and does not delete it.
ListInv ==
  /\ \A j \in Jobs : job[j].pc = "rename" => disk[job[j].now] # "old"
  /\ \A j \in Jobs : job[j].pc \in Working /\ ~job[j].on => marker
  /\ job["update"].pc \in {"stage", "start"} \cup Working => Left("update")
  /\ \A f \in Files : disk[f] = "old" => mem.txt[f] = "old" /\ f \in wanted.add

\* One job imports, until all is imported.
WorkInv ==
  /\ \A j, k \in Jobs : Importing(j) /\ Importing(k) => j = k
  /\ marker => (\A j \in Jobs : ~Importing(j)) /\ \A f \in Files : disk[f] # "old"
  /\ Importing("sync") => Left("sync")

\* What the importing job has in memory is the file, or is about to be; the UI
\* does not write.
SnapInv ==
  /\ user = Torn <=> Writing \/ \E j \in Jobs : At(j, "write")
  /\ \A j \in Jobs : At(j, "write") => job[j].on
  /\ \A j \in Jobs : Importing(j) =>
       /\ ~Writing
       /\ ~At(j, "write") => user = job[j].snap
       /\ job[j].pc \in {"write", "remove"} /\ job[j].now \in Files /\ disk[job[j].now] = "old" =>
            job[j].now \in job[j].snap.add

\* What the UI has in memory is what the file says, but for what it could not save
\* and for what an import has written since.
FreshInv ==
  /\ mem.rules.add \subseteq wanted.add \cup refused.add
  /\ ~unread /\ ~Writing /\ (\A j \in Jobs : ~At(j, "write")) =>
       /\ Apart(mem.rules.add, ReadRules.add) \subseteq refused.add
       /\ Apart(mem.rules.off, ReadRules.off) \subseteq refused.off

RulesInv == Safe => WorkInv /\ SnapInv /\ FreshInv /\ Kept

IInv == TypeInv /\ ListInv /\ RulesInv

-------------------------------------------------------------------------------
LEMMA InitInv == Init => VInv /\ IInv
<1> SUFFICES ASSUME Init PROVE VInv /\ IInv
  OBVIOUS
<1> USE RuleFilesAssumption DEF Jobs, Idle, NoRules
<1>1. /\ disk = [i \in Items |-> "old"] /\ user = NoRules /\ job = [j \in Jobs |-> Idle]
      /\ mem = [txt |-> [f \in Files |-> "old"], rules |-> NoRules] /\ NoRules # Torn
  <2>1. NoRules # Torn
    OBVIOUS
  <2> QED BY <2>1 DEF Init, Loaded, ReadRules, Items
<1>2. TypeInv
  <2>1. NoRules \in Rules /\ Idle \in JobType
    BY DEF Rules, JobType
  <2>2. mem \in [txt : [Files -> {"old", "new", "missing"}], rules : Rules] /\ wanted \in Rules
    BY <1>1, <2>1 DEF Init, Rules
  <2>3. job \in [Jobs -> JobType] /\ \A j \in Jobs : job[j].now = None /\ job[j].pc = "idle"
    BY <1>1, <2>1
  <2>4. refused \in Rules
    BY <2>1 DEF Init
  <2> QED BY <1>1, <2>1, <2>2, <2>3, <2>4 DEF Init, TypeInv, AtItem
<1>3. AloneInv
  BY <1>1 DEF Init, AloneInv
<1>4. VersionInv /\ ListInv
  BY <1>1 DEF Init, VersionInv, ListInv, AtItem, Working, VersionTellsTruth
<1>5. \A j \in Jobs : job[j].pc = "idle"
  BY <1>1
<1>6. WorkInv /\ SnapInv /\ FreshInv
  BY <1>1, <1>5 DEF Init, WorkInv, SnapInv, FreshInv, ReadRules, At, Importing, Writing, Apart
<1>7. Kept
  BY <1>1, <1>5 DEF Init, Kept, Written, ReadRules, At, Items
<1> QED BY <1>2, <1>3, <1>4, <1>6, <1>7 DEF IInv, VInv, RulesInv

\* What the user's edits have in common: a line of an old file is not deleted.
Edited(add, off, then) ==
  /\ Edit(add, off, then)
  /\ add \subseteq Lines \union Files /\ off \subseteq Files /\ then \in {"adding", "toggling"}
  /\ \A f \in Files : f \in mem.rules.add /\ f \notin add => mem.txt[f] # "old"

LEMMA EditsAre ==
  ASSUME TypeInv, Edits PROVE (\E add, off, then : Edited(add, off, then)) \/ \E l \in Lines : AddKnown(l)
<1> USE RuleFilesAssumption
<1>0. mem.rules.add \subseteq Lines \union Files /\ mem.rules.off \subseteq Files
  BY DEF TypeInv, Rules
<1>1. ASSUME NEW l \in Lines, AddLn(l)
      PROVE  Edited(mem.rules.add \union {l}, mem.rules.off, "adding")
  BY <1>0, <1>1 DEF AddLn, Edited
<1>2. ASSUME NEW S \in SUBSET Lines, AddWhite(S)
      PROVE  Edited(mem.rules.add \union S, mem.rules.off, "adding")
  BY <1>0, <1>2 DEF AddWhite, Edited
<1>3. ASSUME NEW l \in Lines \union Files, ToggleCustom(l)
      PROVE  Edited(mem.rules.add \ {l}, mem.rules.off, "toggling")
  BY <1>0, <1>3 DEF ToggleCustom, Edited, FromTxt
<1>4. ASSUME NEW f \in Files, ToggleTxt(f)
      PROVE  \E off : Edited(mem.rules.add, off, "toggling")
  <2> DEFINE off == IF f \in mem.rules.off THEN mem.rules.off \ {f} ELSE mem.rules.off \union {f}
  <2>1. Edit(mem.rules.add, off, "toggling") /\ off \subseteq Files
    BY <1>0, <1>4 DEF ToggleTxt
  <2> QED BY <1>0, <2>1 DEF Edited
<1> QED BY <1>1, <1>2, <1>3, <1>4 DEF Edits

LEMMA IdleTyped ==
  /\ Idle \in JobType /\ Idle.pc = "idle" /\ Idle.now = None
  /\ NoRules \in Rules
BY DEF Idle, NoRules, JobType, Rules

LEMMA MigrationTyped ==
  ASSUME TypeInv, CanMigrate, NEW r \in JobType
  PROVE  /\ Migration(r) \in JobType /\ Migration(r).pc = "next"
         /\ Migration(r).todo = r.todo /\ Migration(r).now = r.now
         /\ Migration(r).on = ~marker
         /\ ~marker => Migration(r).snap = user
<1>1. (IF marker THEN NoRules ELSE user) \in Rules
  BY IdleTyped DEF TypeInv, CanMigrate
<1>2. (~marker) \in BOOLEAN
  BY Zenon DEF TypeInv
<1> QED BY <1>1, <1>2 DEF Migration, JobType, Working

LEMMA JobSet ==
  ASSUME TypeInv, NEW j \in Jobs, NEW r \in JobType, SetJob(j, r)
  PROVE  /\ job' \in [Jobs -> JobType] /\ job'[j] = r
         /\ \A k \in Jobs \ {j} : job'[k] = job[k]
BY DEF TypeInv, SetJob

LEMMA DoSynSets ==
  ASSUME TypeInv, NEW chosen \in Selections, DoSyn(chosen)
  PROVE  /\ job' \in [Jobs -> JobType] /\ job'["update"] = job["update"]
         /\ job["sync"].pc = "idle" /\ job'["sync"].pc = "next"
         /\ job'["sync"].todo = chosen /\ job'["sync"].now = None
         /\ job'["sync"].on = ~marker /\ (~marker => job'["sync"].snap = user /\ user # Torn)
<1> DEFINE r == [Idle EXCEPT !.todo = chosen]
<1>1. chosen \subseteq Items
  BY DEF Selections, Items
<1>2. r \in JobType /\ r.todo = chosen /\ r.now = None
  BY <1>1 DEF Idle, NoRules, JobType, Rules
<1>3. CanMigrate /\ SetJob("sync", Migration(r)) /\ job["sync"].pc = "idle"
  BY DEF DoSyn, UpdMuFree
<1> HIDE DEF r
<1>4. Migration(r) \in JobType
  BY <1>2, <1>3, MigrationTyped
<1>5. job' \in [Jobs -> JobType] /\ job'["sync"] = Migration(r) /\ job'["update"] = job["update"]
  BY <1>3, <1>4, JobSet DEF Jobs
<1> QED BY <1>2, <1>3, <1>5, MigrationTyped DEF CanMigrate

LEMMA AppPendSets ==
  ASSUME TypeInv, AppPend
  PROVE  /\ job' \in [Jobs -> JobType] /\ job'["sync"] = job["sync"]
         /\ job["update"].pc = "start"
         /\ \/ job'["update"] = Idle
            \/ /\ job'["update"].pc = "next"
               /\ job'["update"].todo = job["update"].todo /\ job'["update"].now = job["update"].now
               /\ job'["update"].on = ~marker
               /\ ~marker => job'["update"].snap = user /\ user # Torn
<1>1. "update" \in Jobs /\ job["update"] \in JobType /\ job["update"].pc = "start"
  BY DEF TypeInv, AppPend, At, Jobs
<1>2. CASE CanMigrate
  <2>1. SetJob("update", Migration(job["update"]))
    BY <1>2 DEF AppPend
  <2> QED BY <1>1, <1>2, <2>1, MigrationTyped, JobSet DEF Jobs, CanMigrate
<1>3. CASE ~CanMigrate
  <2>1. SetJob("update", Idle)
    BY <1>3 DEF AppPend
  <2> QED BY <1>1, <2>1, IdleTyped, JobSet DEF Jobs
<1> QED BY <1>2, <1>3

\* Either the line of the file at hand is added and the file is being written,
\* or there is nothing to import.
LEMMA PreserveSets ==
  ASSUME TypeInv, NEW j \in Jobs, Preserve(j)
  PROVE  /\ job' \in [Jobs -> JobType] /\ \A k \in Jobs \ {j} : job'[k] = job[k]
         /\ job[j].pc = "preserve"
         /\ job'[j].now = job[j].now /\ job'[j].todo = job[j].todo /\ job'[j].on = job[j].on
         /\ \/ /\ job[j].on /\ job[j].now \in Files /\ job'[j].pc = "write" /\ user' = Torn
               /\ job'[j].snap.off = job[j].snap.off
               /\ job'[j].snap.add = job[j].snap.add \union LocalOnly(j)
            \/ /\ job'[j].pc = "remove" /\ user' = user /\ job'[j].snap = job[j].snap
               /\ job[j].on /\ job[j].now \in Files => LocalOnly(j) = {}
<1>1. job[j] \in JobType /\ job[j].snap \in Rules /\ job[j].pc = "preserve"
  BY DEF TypeInv, JobType, Preserve, At
<1>2. LocalOnly(j) \subseteq Files
  BY DEF LocalOnly
<1>3. CASE job[j].on /\ job[j].now \in Files /\ LocalOnly(j) # {}
  <2> DEFINE r == [job[j] EXCEPT !.pc = "write", !.touched = TRUE, !.snap.add = @ \union LocalOnly(j)]
  <2>1. SetJob(j, r) /\ user' = Torn
    BY <1>3 DEF Preserve
  <2>2. [job[j].snap EXCEPT !.add = @ \union LocalOnly(j)] \in Rules
    BY <1>1, <1>2 DEF Rules
  <2>3. r \in JobType /\ r.now = job[j].now /\ r.todo = job[j].todo /\ r.on = job[j].on /\ r.pc = "write"
        /\ r.snap.off = job[j].snap.off /\ r.snap.add = job[j].snap.add \union LocalOnly(j)
    BY <1>1, <2>2 DEF JobType, Rules, Working, AtItem
  <2> HIDE DEF r
  <2> QED BY <1>1, <1>3, <2>1, <2>3, JobSet
<1>4. CASE ~(job[j].on /\ job[j].now \in Files /\ LocalOnly(j) # {})
  <2> DEFINE t == job[j].touched \/ (job[j].on /\ job[j].now \in Files)
             r == [job[j] EXCEPT !.pc = "remove", !.touched = t]
  <2>1. SetJob(j, r) /\ user' = user
    BY <1>4 DEF Preserve
  <2>2. t \in BOOLEAN
    BY <1>1 DEF JobType
  <2>3. r \in JobType /\ r.now = job[j].now /\ r.todo = job[j].todo /\ r.on = job[j].on /\ r.pc = "remove"
        /\ r.snap = job[j].snap
    <3> HIDE DEF t
    <3> QED BY <1>1, <2>2 DEF JobType, Working, AtItem
  <2> HIDE DEF r
  <2> QED BY <1>1, <1>4, <2>1, <2>3, JobSet
<1> QED BY <1>3, <1>4

LEMMA NextItemSets ==
  ASSUME TypeInv, NEW j \in Jobs, NEW i \in Items, NextItem(j, i)
  PROVE  /\ job' \in [Jobs -> JobType] /\ \A k \in Jobs \ {j} : job'[k] = job[k]
         /\ job[j].pc = "next" /\ i \in job[j].todo
         /\ job'[j].todo = job[j].todo \ {i} /\ job'[j].on = job[j].on /\ job'[j].snap = job[j].snap
         /\ \/ job'[j].pc = "next" /\ job'[j].now = job[j].now /\ j = "sync" /\ disk[i] = "new"
            \/ job'[j].pc = "preserve" /\ job'[j].now = i /\ (j = "sync" => disk[i] # "new")
<1>1. job[j] \in JobType /\ job[j].pc = "next" /\ i \in job[j].todo
  BY DEF TypeInv, NextItem, At
<1> DEFINE r == IF j = "sync" /\ ~Needed(i) THEN [job[j] EXCEPT !.todo = @ \ {i}]
                ELSE [job[j] EXCEPT !.pc = "preserve", !.now = i, !.todo = @ \ {i}]
<1>2. SetJob(j, r)
  BY DEF NextItem
<1>3. r \in JobType
  BY <1>1 DEF JobType, Working, AtItem
<1>4. /\ r.todo = job[j].todo \ {i} /\ r.on = job[j].on /\ r.snap = job[j].snap
      /\ \/ r.pc = "next" /\ r.now = job[j].now /\ j = "sync" /\ disk[i] = "new"
         \/ r.pc = "preserve" /\ r.now = i /\ (j = "sync" => disk[i] # "new")
  BY <1>1 DEF JobType, Needed
<1> HIDE DEF r
<1> QED BY <1>1, <1>2, <1>3, <1>4, JobSet

LEMMA TypeNext == ASSUME TypeInv, Next PROVE TypeInv'
<1> USE RuleFilesAssumption DEF Jobs
<1>0. ASSUME NEW l \in Lines, AddKnown(l) PROVE TypeInv'
  BY <1>0 DEF AddKnown, MayEdit, files, view, history, outcome, Quiet, Rules, JobType, TypeInv
<1>1. ASSUME NEW add, NEW off, NEW then, Edited(add, off, then) PROVE TypeInv'
  <2>1. /\ mem' = [mem EXCEPT !.rules = [add |-> add, off |-> off]] /\ UNCHANGED <<disk, marker, version, job, poll>>
        /\ add \subseteq Lines \union Files /\ off \subseteq Files /\ then \in {"adding", "toggling"}
    BY <1>1 DEF Edited, Edit
  <2>2. mem' \in [txt : [Files -> {"old", "new", "missing"}], rules : Rules]
    BY <2>1 DEF TypeInv, Rules
  <2>3. CASE Save(add, off, then)
    <3>1. wanted' \in Rules
      BY <2>1, <2>3 DEF Save, TypeInv, Rules
    <3> QED BY <2>1, <2>2, <2>3, <3>1 DEF Save, Touched, TypeInv
  <2>4. CASE CannotOpen(add, off)
    <3>1. refused' \in Rules
      BY <2>1, <2>4 DEF CannotOpen, Apart, TypeInv, Rules
    <3> QED BY <2>1, <2>2, <2>4, <3>1 DEF CannotOpen, TypeInv
  <2> QED BY <1>1, <2>3, <2>4 DEF Edited, Edit
<1>2. CASE WriteUserRules
  BY <1>2 DEF WriteUserRules, history, outcome, JobType, TypeInv
<1>3. CASE WriteFails
  BY <1>3 DEF WriteFails, files, outcome, JobType, TypeInv
<1>4. CASE ReloadData
  BY <1>4 DEF ReloadData, ReadAll, files, history, outcome, Loaded, ReadRules, NoRules, Rules, JobType, Items, TypeInv
<1>5. CASE MarkFiles
  BY <1>5 DEF MarkFiles, files, history, outcome, JobType, TypeInv
<1>6. CASE ChgFiles
  BY <1>6 DEF ChgFiles, files, history, outcome, JobType, TypeInv
<1>7. CASE PollReads
  BY <1>7 DEF PollReads, ReadAll, files, history, outcome, Loaded, ReadRules, NoRules, Rules, JobType, Items, TypeInv
<1>8. CASE OpenUI
  BY <1>8 DEF OpenUI, ReadAll, files, history, outcome, Loaded, ReadRules, NoRules, Rules, JobType, Items, TypeInv
<1>9. ASSUME NEW chosen \in Selections, DoSyn(chosen) PROVE TypeInv'
  BY <1>9, DoSynSets DEF DoSyn, files, view, history, outcome, TypeInv, AtItem
<1>10. CASE DoUpdNative
  BY <1>10 DEF DoUpdNative, files, view, history, outcome, SetJob, Idle, NoRules, Rules, JobType, AtItem, TypeInv
<1>11. CASE StartUpdater
  BY <1>11 DEF StartUpdater, files, view, history, outcome, At, Goto, SetJob, JobType, AtItem, TypeInv
<1>12. CASE AppPend
  BY <1>12, AppPendSets, IdleTyped DEF AppPend, files, view, history, outcome, TypeInv, AtItem
<1>13. ASSUME NEW j \in Jobs, NEW i \in Items, NextItem(j, i) PROVE TypeInv'
  <2>1. i # None /\ job[j].pc = "next" /\ "next" \notin AtItem /\ "preserve" \in AtItem
    BY <1>13, NextItemSets DEF Items, AtItem
  <2>2. \A k \in Jobs : job'[k].now # None <=> job'[k].pc \in AtItem
    BY <1>13, <2>1, NextItemSets DEF TypeInv
  <2>3. job' \in [Jobs -> JobType]
    BY <1>13, NextItemSets
  <2> QED BY <1>13, <2>2, <2>3 DEF NextItem, TypeInv, files, view, history, outcome
<1>14. ASSUME NEW j \in Jobs, Preserve(j) PROVE TypeInv'
  BY <1>14, PreserveSets DEF Preserve, Touched, outcome, view, history, outcome, TypeInv, AtItem
<1>15. ASSUME NEW j \in Jobs, WriteSnapshot(j) PROVE TypeInv'
  BY <1>15 DEF WriteSnapshot, Touched, outcome, history, outcome, At, Goto, SetJob, JobType, AtItem, Working, TypeInv
<1>16. ASSUME NEW j \in Jobs, RemoveOld(j) PROVE TypeInv'
  BY <1>16 DEF RemoveOld, Touched, outcome, history, outcome, At, Goto, SetJob, JobType, AtItem, Working, TypeInv
<1>17. ASSUME NEW j \in Jobs, RenameNew(j) PROVE TypeInv'
  <2> DEFINE r == [job[j] EXCEPT !.pc = "next", !.now = None]
  <2>1. job[j] \in JobType /\ SetJob(j, r)
    BY <1>17 DEF TypeInv, RenameNew
  <2>2. r \in JobType /\ r.pc = "next" /\ r.now = None
    BY <2>1 DEF JobType, Working
  <2> HIDE DEF r
  <2>3. /\ job' \in [Jobs -> JobType] /\ job'[j].pc = "next" /\ job'[j].now = None
        /\ \A k \in Jobs \ {j} : job'[k] = job[k]
    BY <2>1, <2>2, JobSet
  <2> QED BY <1>17, <2>3 DEF RenameNew, Touched, outcome, TypeInv, AtItem, history, outcome
<1>18. ASSUME NEW j \in Jobs, Finish(j) PROVE TypeInv'
  BY <1>18 DEF Finish, view, history, outcome, At, Goto, SetJob, JobType, AtItem, TypeInv
<1>19. CASE SyncDone
  BY <1>19 DEF SyncDone, files, view, history, outcome, SetJob, At, Idle, NoRules, Rules, JobType, AtItem, TypeInv
<1>20. CASE WriteVersion
  BY <1>20 DEF WriteVersion, view, history, outcome, SetJob, At, Idle, NoRules, Rules, JobType, AtItem, TypeInv
<1>21. ASSUME NEW j \in Jobs, JobFails(j) PROVE TypeInv'
  BY <1>21 DEF JobFails, Touched, outcome, files, SetJob, At, Idle, NoRules, Rules, JobType, AtItem, TypeInv
<1>22. CASE UIEnds
  BY <1>22 DEF UIEnds, files, view, At, Idle, NoRules, Rules, JobType, AtItem, TypeInv
<1>23. CASE UpdaterDies
  BY <1>23 DEF UpdaterDies, files, view, SetJob, At, Idle, NoRules, Rules, JobType, AtItem, TypeInv
<1>24. CASE UICloses
  BY <1>24 DEF UICloses, files, view, history, outcome, SetJob, At, Idle, NoRules, Rules, JobType, AtItem, TypeInv
<1>25. CASE Rest
  BY <1>25 DEF Rest, vars, files, view, history, outcome, JobType, TypeInv
<1> QED
  BY <1>0, <1>1, <1>2, <1>3, <1>4, <1>5, <1>6, <1>7, <1>8, <1>9, <1>10, <1>11, <1>12, <1>13, <1>14, <1>15, <1>16, <1>17, <1>18, <1>19, <1>20, <1>21, <1>22, <1>23, <1>24, <1>25, EditsAre
  DEF Next, UIStep, PollStep, Updating, JobStep

\* Once a synchronisation began beside an update it stays noted.
LEMMA ClashStays == ASSUME TypeInv, Next, ~clashed' PROVE ~clashed
<1> SUFFICES ASSUME clashed PROVE clashed'
  OBVIOUS
<1> USE DEF history, outcome
<1>1. CASE Edits
  BY <1>1, EditsAre DEF Edited, Edit, AddKnown
<1>2. CASE UIStep \/ PollStep \/ Updating
  BY <1>2 DEF UIStep, WriteUserRules, ReloadData, MarkFiles, SyncDone, PollStep, ChgFiles, PollReads,
              Updating, StartUpdater, AppPend, WriteVersion
<1>3. ASSUME NEW j \in Jobs, JobStep(j) \/ JobFails(j) PROVE clashed'
  BY <1>3 DEF JobStep, NextItem, Preserve, WriteSnapshot, RemoveOld, RenameNew, Finish, JobFails
<1>4. CASE (\E chosen \in Selections : DoSyn(chosen)) \/ DoUpdNative \/ OpenUI
  BY <1>4 DEF DoSyn, DoUpdNative, OpenUI
<1>5. CASE WriteFails \/ UIEnds \/ UICloses \/ UpdaterDies \/ Rest
  BY <1>5 DEF WriteFails, UIEnds, UICloses, UpdaterDies, Rest, vars
<1> QED BY <1>1, <1>2, <1>3, <1>4, <1>5 DEF Next

LEMMA AloneNext == ASSUME TypeInv, ~clashed', AloneInv, Next PROVE AloneInv'
<1> USE RuleFilesAssumption DEF Jobs
<1>0. ASSUME NEW l \in Lines, AddKnown(l) PROVE AloneInv'
  BY <1>0 DEF AddKnown, MayEdit, files, view, history, outcome, Quiet, Rules, JobType, AloneInv
<1>1. ASSUME NEW add, NEW off, NEW then, Edited(add, off, then) PROVE AloneInv'
  BY <1>1 DEF Edited, Edit, Save, CannotOpen, Touched, MayEdit, Quiet, Rules, JobType, AloneInv
<1>2. CASE WriteUserRules
  BY <1>2 DEF WriteUserRules, Quiet, JobType, AloneInv
<1>3. CASE WriteFails
  BY <1>3 DEF WriteFails, files, outcome, JobType, AloneInv
<1>4. CASE ReloadData
  BY <1>4 DEF ReloadData, ReadAll, Loaded, ReadRules, NoRules, Quiet, JobType, AloneInv
<1>5. CASE MarkFiles
  BY <1>5 DEF MarkFiles, JobType, AloneInv
<1>6. CASE ChgFiles
  BY <1>6 DEF ChgFiles, Quiet, JobType, AloneInv
<1>7. CASE PollReads
  BY <1>7 DEF PollReads, ReadAll, Loaded, ReadRules, NoRules, Quiet, JobType, AloneInv
<1>8. CASE OpenUI
  BY <1>8 DEF OpenUI, ReadAll, Loaded, Quiet, ReadRules, NoRules, JobType, AloneInv
<1>9. ASSUME NEW chosen \in Selections, DoSyn(chosen) PROVE AloneInv'
  BY <1>9, DoSynSets DEF DoSyn, At, AloneInv
<1>10. CASE DoUpdNative
  BY <1>10 DEF DoUpdNative, SetJob, UpdMuFree, JobType, AloneInv
<1>11. CASE StartUpdater
  BY <1>11 DEF StartUpdater, At, Goto, SetJob, Quiet, JobType, AloneInv
<1>12. CASE AppPend
  BY <1>12, AppPendSets, IdleTyped DEF AppPend, AloneInv, Quiet
<1>13. ASSUME NEW j \in Jobs, NEW i \in Items, NextItem(j, i) PROVE AloneInv'
  BY <1>13 DEF NextItem, SetJob, At, Needed, Quiet, JobType, AloneInv
<1>14. ASSUME NEW j \in Jobs, Preserve(j) PROVE AloneInv'
  BY <1>14, PreserveSets DEF Preserve, Touched, outcome, AloneInv, Quiet
<1>15. ASSUME NEW j \in Jobs, WriteSnapshot(j) PROVE AloneInv'
  BY <1>15 DEF WriteSnapshot, Touched, outcome, At, Goto, SetJob, Quiet, JobType, AloneInv
<1>16. ASSUME NEW j \in Jobs, RemoveOld(j) PROVE AloneInv'
  BY <1>16 DEF RemoveOld, Touched, outcome, At, Goto, SetJob, Quiet, JobType, AloneInv
<1>17. ASSUME NEW j \in Jobs, RenameNew(j) PROVE AloneInv'
  BY <1>17 DEF RenameNew, Touched, outcome, SetJob, At, Quiet, JobType, AloneInv
<1>18. ASSUME NEW j \in Jobs, Finish(j) PROVE AloneInv'
  BY <1>18 DEF Finish, At, Goto, SetJob, Quiet, JobType, AloneInv
<1>19. CASE SyncDone
  BY <1>19 DEF SyncDone, SetJob, At, Idle, NoRules, Quiet, TypeInv, JobType, AloneInv
<1>20. CASE WriteVersion
  BY <1>20 DEF WriteVersion, SetJob, At, Idle, NoRules, Quiet, JobType, AloneInv
<1>21. ASSUME NEW j \in Jobs, JobFails(j) PROVE AloneInv'
  BY <1>21 DEF JobFails, Touched, outcome, SetJob, At, Idle, NoRules, Quiet, JobType, AloneInv
<1>22. CASE UIEnds
  BY <1>22 DEF UIEnds, At, Idle, JobType, AloneInv
<1>23. CASE UpdaterDies
  BY <1>23 DEF UpdaterDies, SetJob, At, InUI, Idle, NoRules, Quiet, JobType, AloneInv
<1>24. CASE UICloses
  BY <1>24 DEF UICloses, SetJob, At, Idle, JobType, AloneInv
<1>25. CASE Rest
  BY <1>25 DEF Rest, vars, JobType, AloneInv
<1> QED
  BY <1>0, <1>1, <1>2, <1>3, <1>4, <1>5, <1>6, <1>7, <1>8, <1>9, <1>10, <1>11, <1>12, <1>13, <1>14, <1>15, <1>16, <1>17, <1>18, <1>19, <1>20, <1>21, <1>22, <1>23, <1>24, <1>25, EditsAre
  DEF Next, UIStep, PollStep, Updating, JobStep

LEMMA VersionNext == ASSUME TypeInv, ~clashed, ~clashed', AloneInv, VersionInv, Next PROVE VersionInv'
<1> USE RuleFilesAssumption DEF Jobs
<1>0. ASSUME NEW l \in Lines, AddKnown(l) PROVE VersionInv'
  BY <1>0 DEF AddKnown, MayEdit, files, view, history, outcome, Quiet, Rules, JobType, VersionTellsTruth, AloneInv, VersionInv
<1>1. ASSUME NEW add, NEW off, NEW then, Edited(add, off, then) PROVE VersionInv'
  BY <1>1 DEF Edited, Edit, Save, CannotOpen, Touched, MayEdit, Quiet, Rules, JobType, VersionTellsTruth, AloneInv, VersionInv
<1>2. CASE WriteUserRules
  BY <1>2 DEF WriteUserRules, VersionTellsTruth, AloneInv, JobType, VersionInv
<1>3. CASE WriteFails
  BY <1>3 DEF WriteFails, files, outcome, VersionTellsTruth, AloneInv, JobType, VersionInv
<1>4. CASE ReloadData
  BY <1>4 DEF ReloadData, ReadAll, files, VersionTellsTruth, AloneInv, JobType, VersionInv
<1>5. CASE MarkFiles
  BY <1>5 DEF MarkFiles, files, VersionTellsTruth, AloneInv, JobType, VersionInv
<1>6. CASE ChgFiles
  BY <1>6 DEF ChgFiles, files, VersionTellsTruth, AloneInv, JobType, VersionInv
<1>7. CASE PollReads
  BY <1>7 DEF PollReads, ReadAll, files, VersionTellsTruth, AloneInv, JobType, VersionInv
<1>8. CASE OpenUI
  BY <1>8 DEF OpenUI, ReadAll, files, VersionTellsTruth, AloneInv, JobType, VersionInv
<1>9. ASSUME NEW chosen \in Selections, DoSyn(chosen) PROVE VersionInv'
  BY <1>9, DoSynSets DEF DoSyn, files, VersionInv, VersionTellsTruth, Selections, AtItem
<1>10. CASE DoUpdNative
  BY <1>10 DEF DoUpdNative, files, SetJob, Needed, VersionTellsTruth, AloneInv, JobType, AtItem, Working, VersionInv
<1>11. CASE StartUpdater
  BY <1>11 DEF StartUpdater, files, At, Goto, SetJob, VersionTellsTruth, AloneInv, JobType, AtItem, Working, VersionInv
<1>12. CASE AppPend
  BY <1>12, AppPendSets, IdleTyped DEF AppPend, files, AloneInv, VersionInv, VersionTellsTruth, AtItem, Working
<1>13. ASSUME NEW j \in Jobs, NEW i \in Items, NextItem(j, i) PROVE VersionInv'
  BY <1>13 DEF NextItem, files, SetJob, At, Needed, VersionTellsTruth, AloneInv, TypeInv, JobType, AtItem, Items, VersionInv
<1>14. ASSUME NEW j \in Jobs, Preserve(j) PROVE VersionInv'
  <2>1. UNCHANGED <<disk, version, marker>> /\ job[j].pc = "preserve"
    BY <1>14, PreserveSets DEF Preserve
  <2>2. /\ \A k \in Jobs \ {j} : job'[k] = job[k]
        /\ job'[j].now = job[j].now /\ job'[j].todo = job[j].todo /\ job'[j].on = job[j].on
        /\ job'[j].pc \in {"write", "remove"}
    BY <1>14, PreserveSets
  <2> QED BY <2>1, <2>2 DEF VersionInv, VersionTellsTruth, AtItem, Working
<1>15. ASSUME NEW j \in Jobs, WriteSnapshot(j) PROVE VersionInv'
  BY <1>15 DEF WriteSnapshot, Touched, outcome, At, Goto, SetJob, VersionTellsTruth, AloneInv, TypeInv, JobType, Working, VersionInv
<1>16. ASSUME NEW j \in Jobs, RemoveOld(j) PROVE VersionInv'
  BY <1>16 DEF RemoveOld, Touched, outcome, At, Goto, SetJob, VersionTellsTruth, AloneInv, TypeInv, JobType, Working, VersionInv
<1>17. ASSUME NEW j \in Jobs, RenameNew(j) PROVE VersionInv'
  BY <1>17 DEF RenameNew, Touched, outcome, SetJob, At, VersionTellsTruth, AloneInv, TypeInv, JobType, Working, VersionInv
<1>18. ASSUME NEW j \in Jobs, Finish(j) PROVE VersionInv'
  BY <1>18 DEF Finish, At, Goto, SetJob, VersionTellsTruth, AloneInv, TypeInv, JobType, AtItem, Items, VersionInv
<1>19. CASE SyncDone
  BY <1>19 DEF SyncDone, files, SetJob, At, Idle, VersionTellsTruth, AloneInv, JobType, AtItem, Working, VersionInv
<1>20. CASE WriteVersion
  BY <1>20 DEF WriteVersion, SetJob, At, Idle, VersionTellsTruth, AloneInv, TypeInv, JobType, AtItem, Working, Items, VersionInv
<1>21. ASSUME NEW j \in Jobs, JobFails(j) PROVE VersionInv'
  BY <1>21 DEF JobFails, Touched, outcome, files, SetJob, At, Idle, VersionTellsTruth, AloneInv, JobType, AtItem, Working, VersionInv
<1>22. CASE UIEnds
  BY <1>22 DEF UIEnds, files, At, Idle, VersionTellsTruth, AloneInv, JobType, AtItem, Working, VersionInv
<1>23. CASE UpdaterDies
  BY <1>23 DEF UpdaterDies, files, SetJob, At, Idle, VersionTellsTruth, AloneInv, JobType, AtItem, Working, VersionInv
<1>24. CASE UICloses
  BY <1>24 DEF UICloses, files, SetJob, At, Idle, VersionTellsTruth, AloneInv, JobType, AtItem, Working, VersionInv
<1>25. CASE Rest
  BY <1>25 DEF Rest, vars, files, VersionTellsTruth, AloneInv, JobType, VersionInv
<1> QED
  BY <1>0, <1>1, <1>2, <1>3, <1>4, <1>5, <1>6, <1>7, <1>8, <1>9, <1>10, <1>11, <1>12, <1>13, <1>14, <1>15, <1>16, <1>17, <1>18, <1>19, <1>20, <1>21, <1>22, <1>23, <1>24, <1>25, EditsAre
  DEF Next, UIStep, PollStep, Updating, JobStep

LEMMA StutterVersion == VInv /\ UNCHANGED vars => VInv'
<1> SUFFICES ASSUME VInv, UNCHANGED vars PROVE VInv'
  OBVIOUS
<1>1. TypeInv'
  BY DEF VInv, vars, files, view, history, outcome, TypeInv
<1>2. ~clashed' => AloneInv' /\ VersionInv'
  BY DEF VInv, vars, files, view, history, outcome, AloneInv, VersionInv, VersionTellsTruth
<1> QED BY <1>1, <1>2 DEF VInv

\* version.json never claims a release that is not all there, after whatever
\* died or failed, whatever files the user chose to synchronise and whatever the
\* UI edits and reloads meanwhile, unless a synchronisation begins beside an
\* update (update.go:640-674, 834-869).
THEOREM VersionIsTrue == Spec => []VersionTellsTruth
<1>1. Init => VInv
  BY InitInv
<1>2. VInv /\ [Next]_vars => VInv'
  BY TypeNext, ClashStays, AloneNext, VersionNext, StutterVersion DEF VInv
<1>3. VInv => VersionTellsTruth
  BY DEF VInv, VersionInv, VersionTellsTruth
<1> QED BY <1>1, <1>2, <1>3, PTL DEF Spec

LEMMA ListNext == ASSUME TypeInv, ListInv, Next PROVE ListInv'
<1> USE RuleFilesAssumption DEF Jobs
<1>0. ASSUME NEW l \in Lines, AddKnown(l) PROVE ListInv'
  <2>1. UNCHANGED <<disk, marker, mem, job>> /\ wanted.add \subseteq wanted'.add
    BY <1>0 DEF AddKnown, files, view, TypeInv, Rules
  <2> QED BY <2>1 DEF ListInv, Left
<1>1. ASSUME NEW add, NEW off, NEW then, Edited(add, off, then) PROVE ListInv'
  BY <1>1 DEF Edited, Edit, Save, CannotOpen, Touched, MayEdit, files, view, history, outcome, At, Working, AtItem, ListInv, Left
<1>2. CASE WriteUserRules
  BY <1>2 DEF WriteUserRules, files, view, history, outcome, At, Working, AtItem, ListInv, Left
<1>3. CASE WriteFails
  BY <1>3 DEF WriteFails, files, view, history, outcome, At, Working, AtItem, ListInv, Left
<1>4. CASE ReloadData
  BY <1>4 DEF ReloadData, ReadAll, Loaded, files, view, history, outcome, At, Working, AtItem, ListInv, Left
<1>5. CASE MarkFiles
  BY <1>5 DEF MarkFiles, files, view, history, outcome, At, Working, AtItem, ListInv, Left
<1>6. CASE ChgFiles
  BY <1>6 DEF ChgFiles, files, view, history, outcome, At, Working, AtItem, ListInv, Left
<1>7. CASE PollReads
  BY <1>7 DEF PollReads, ReadAll, Loaded, files, view, history, outcome, At, Working, AtItem, ListInv, Left
<1>8. CASE OpenUI
  BY <1>8 DEF OpenUI, ReadAll, Loaded, files, view, history, outcome, At, Working, AtItem, ListInv, Left
<1>9. ASSUME NEW chosen \in Selections, DoSyn(chosen) PROVE ListInv'
  <2>1. UNCHANGED <<disk, marker, mem, wanted>>
    BY <1>9 DEF DoSyn, files, view
  <2>2. job'["update"] = job["update"] /\ job'["sync"].pc = "next" /\ job'["sync"].on = ~marker
    BY <1>9, DoSynSets
  <2> QED BY <2>1, <2>2 DEF ListInv, Left
<1>10. CASE DoUpdNative
  <2>1. UNCHANGED <<disk, marker, mem, wanted>>
    BY <1>10 DEF DoUpdNative, files, view, history
  <2>2. job'["sync"] = job["sync"] /\ job'["update"].pc = "stage" /\ job'["update"].todo = {i \in Items : Needed(i)}
    BY <1>10 DEF DoUpdNative, SetJob, Idle, TypeInv
  <2>3. Left("update")'
    BY <2>1, <2>2 DEF Left, Needed, Items
  <2> QED BY <2>1, <2>2, <2>3 DEF ListInv, Working, AtItem
<1>11. CASE StartUpdater
  BY <1>11 DEF StartUpdater, Goto, files, view, history, outcome, SetJob, Idle, TypeInv, JobType, At, Working, AtItem, ListInv, Left
<1>12. CASE AppPend
  BY <1>12, AppPendSets, IdleTyped DEF AppPend, Crossing, files, view, history, outcome, At, Working, AtItem, ListInv, Left
<1>13. ASSUME NEW j \in Jobs, NEW i \in Items, NextItem(j, i) PROVE ListInv'
  <2>1. UNCHANGED <<disk, marker, mem, wanted>>
    BY <1>13 DEF NextItem, files, view, history
  <2>2. /\ \A k \in Jobs \ {j} : job'[k] = job[k]
        /\ job[j].pc = "next" /\ job'[j].pc \in {"next", "preserve"} /\ job'[j].on = job[j].on
    BY <1>13, NextItemSets
  <2>3. j = "update" => Left("update")'
    <3>1. j = "update" => job'[j].todo = job[j].todo \ {i} /\ job'[j].now = i /\ job[j].now = None
      BY <1>13, <2>2, NextItemSets DEF TypeInv, AtItem
    <3> QED BY <2>1, <2>2, <3>1 DEF ListInv, Left, Items, Working
  <2> QED BY <2>1, <2>2, <2>3 DEF ListInv, Left, Working, AtItem
<1>14. ASSUME NEW j \in Jobs, Preserve(j) PROVE ListInv'
  <2>1. UNCHANGED <<disk, marker, mem, wanted>>
    BY <1>14 DEF Preserve
  <2>2. /\ \A k \in Jobs \ {j} : job'[k] = job[k]
        /\ job[j].pc = "preserve" /\ job'[j].pc \in {"write", "remove"} /\ job'[j].on = job[j].on
        /\ job'[j].now = job[j].now /\ job'[j].todo = job[j].todo
    BY <1>14, PreserveSets
  <2> QED BY <2>1, <2>2 DEF ListInv, Left, Working, AtItem
<1>15. ASSUME NEW j \in Jobs, WriteSnapshot(j) PROVE ListInv'
  BY <1>15 DEF WriteSnapshot, Goto, files, view, history, outcome, SetJob, Idle, TypeInv, JobType, At, Working, AtItem, ListInv, Left
<1>16. ASSUME NEW j \in Jobs, RemoveOld(j) PROVE ListInv'
  BY <1>16 DEF RemoveOld, Goto, files, view, history, outcome, SetJob, Idle, TypeInv, JobType, At, Working, AtItem, ListInv, Left
<1>17. ASSUME NEW j \in Jobs, RenameNew(j) PROVE ListInv'
  BY <1>17 DEF RenameNew, files, view, history, outcome, SetJob, Idle, TypeInv, JobType, At, Working, AtItem, ListInv, Left
<1>18. ASSUME NEW j \in Jobs, Finish(j) PROVE ListInv'
  BY <1>18 DEF Finish, Goto, files, view, history, outcome, SetJob, Idle, TypeInv, JobType, At, Working, AtItem, ListInv, Left
<1>19. CASE SyncDone
  BY <1>19 DEF SyncDone, files, view, history, outcome, SetJob, Idle, TypeInv, JobType, At, Working, AtItem, ListInv, Left
<1>20. CASE WriteVersion
  BY <1>20 DEF WriteVersion, files, view, history, outcome, SetJob, Idle, TypeInv, JobType, At, Working, AtItem, ListInv, Left
<1>21. ASSUME NEW j \in Jobs, JobFails(j) PROVE ListInv'
  BY <1>21 DEF JobFails, files, view, history, outcome, SetJob, Idle, TypeInv, JobType, At, Working, AtItem, ListInv, Left
<1>22. CASE UIEnds
  BY <1>22 DEF UIEnds, InUI, files, view, history, outcome, SetJob, Idle, TypeInv, JobType, At, Working, AtItem, ListInv, Left
<1>23. CASE UpdaterDies
  BY <1>23 DEF UpdaterDies, files, view, history, outcome, SetJob, Idle, TypeInv, JobType, At, Working, AtItem, ListInv, Left
<1>24. CASE UICloses
  BY <1>24 DEF UICloses, files, view, history, outcome, SetJob, Idle, TypeInv, JobType, At, Working, AtItem, ListInv, Left
<1>25. CASE Rest
  BY <1>25 DEF Rest, vars, files, view, history, outcome, At, Working, AtItem, ListInv, Left
<1> QED
  BY <1>0, <1>1, <1>2, <1>3, <1>4, <1>5, <1>6, <1>7, <1>8, <1>9, <1>10, <1>11, <1>12, <1>13, <1>14, <1>15, <1>16, <1>17, <1>18, <1>19, <1>20, <1>21, <1>22, <1>23, <1>24, <1>25, EditsAre
  DEF Next, UIStep, PollStep, Updating, JobStep

-------------------------------------------------------------------------------
\* Nothing mends a file that was cut off, and what came in between stays noted.
LEMMA SafeStays == ASSUME TypeInv, Next, Safe' PROVE Safe
<1> SUFFICES ASSUME ~Safe PROVE ~Safe'
  OBVIOUS
<1> USE DEF Safe, history, outcome
<1>1. CASE Edits
  BY <1>1, EditsAre DEF Edited, Edit, Save, CannotOpen, AddKnown
<1>2. CASE UIStep \/ PollStep \/ Updating
  BY <1>2 DEF UIStep, WriteUserRules, ReloadData, MarkFiles, SyncDone, PollStep, ChgFiles, PollReads,
              Updating, StartUpdater, AppPend, Crossing, WriteVersion
<1>3. ASSUME NEW j \in Jobs, JobStep(j) \/ JobFails(j) PROVE ~Safe'
  BY <1>3 DEF JobStep, NextItem, Preserve, WriteSnapshot, RemoveOld, RenameNew, Finish, JobFails
<1>4. CASE (\E chosen \in Selections : DoSyn(chosen)) \/ DoUpdNative \/ OpenUI
  BY <1>4 DEF DoSyn, Crossing, DoUpdNative, OpenUI
<1>5. CASE WriteFails \/ UIEnds \/ UICloses \/ UpdaterDies \/ Rest
  BY <1>5 DEF WriteFails, UIEnds, UICloses, UpdaterDies, Rest, vars
<1> QED BY <1>1, <1>2, <1>3, <1>4, <1>5 DEF Next

LEMMA WorkNext == ASSUME TypeInv, ListInv, Safe, Safe', WorkInv, Next PROVE WorkInv'
<1> USE RuleFilesAssumption DEF Jobs
<1>0. ASSUME NEW l \in Lines, AddKnown(l) PROVE WorkInv'
  BY <1>0 DEF AddKnown, MayEdit, files, view, history, outcome, At, Working, AtItem, Safe, ListInv, WorkInv, Left, Importing
<1>1. ASSUME NEW add, NEW off, NEW then, Edited(add, off, then) PROVE WorkInv'
  BY <1>1 DEF Edited, Edit, Save, CannotOpen, Touched, MayEdit, files, view, history, outcome, At, Working, AtItem, Safe, ListInv, WorkInv, Left, Importing
<1>2. CASE WriteUserRules
  BY <1>2 DEF WriteUserRules, files, view, history, outcome, At, Working, AtItem, Safe, ListInv, WorkInv, Left, Importing
<1>3. CASE WriteFails
  BY <1>3 DEF WriteFails, files, view, history, outcome, At, Working, AtItem, Safe, ListInv, WorkInv, Left, Importing
<1>4. CASE ReloadData
  BY <1>4 DEF ReloadData, ReadAll, Loaded, files, view, history, outcome, At, Working, AtItem, Safe, ListInv, WorkInv, Left, Importing
<1>5. CASE MarkFiles
  BY <1>5 DEF MarkFiles, files, view, history, outcome, At, Working, AtItem, Safe, ListInv, WorkInv, Left, Importing
<1>6. CASE ChgFiles
  BY <1>6 DEF ChgFiles, files, view, history, outcome, At, Working, AtItem, Safe, ListInv, WorkInv, Left, Importing
<1>7. CASE PollReads
  BY <1>7 DEF PollReads, ReadAll, Loaded, files, view, history, outcome, At, Working, AtItem, Safe, ListInv, WorkInv, Left, Importing
<1>8. CASE OpenUI
  BY <1>8 DEF OpenUI, ReadAll, Loaded, files, view, history, outcome, At, Working, AtItem, Safe, ListInv, WorkInv, Left, Importing
<1>9. ASSUME NEW chosen \in Selections, DoSyn(chosen) PROVE WorkInv'
  BY <1>9, DoSynSets DEF DoSyn, Crossing, files, view, history, outcome, At, Working, AtItem, Safe, ListInv, WorkInv, Left, Importing
<1>10. CASE DoUpdNative
  BY <1>10 DEF DoUpdNative, files, view, history, outcome, SetJob, Idle, TypeInv, JobType, At, Working, AtItem, Safe, ListInv, WorkInv, Left, Importing
<1>11. CASE StartUpdater
  BY <1>11 DEF StartUpdater, Goto, files, view, history, outcome, SetJob, Idle, TypeInv, JobType, At, Working, AtItem, Safe, ListInv, WorkInv, Left, Importing
<1>12. CASE AppPend
  <2>1. UNCHANGED <<disk, marker>> /\ job'["sync"] = job["sync"] /\ job["update"].pc = "start"
    BY <1>12, AppPendSets DEF AppPend, files
  <2>2. Importing("sync")' = Importing("sync") /\ Left("sync")' = Left("sync")
    BY <2>1 DEF Importing, Left
  <2>3. CASE job'["update"] = Idle
    BY <2>1, <2>2, <2>3, IdleTyped DEF WorkInv, Importing
  <2>4. CASE job'["update"].pc = "next" /\ job'["update"].on = ~marker
    <3>1. Importing("update")' => ~marker
      BY <2>4 DEF Importing
    <3>2. ~marker => ~Importing("sync")
      <4>1. CanMigrate
        BY <2>4, <1>12, IdleTyped DEF AppPend, SetJob, TypeInv
      <4> QED BY <4>1, <1>12 DEF AppPend, Crossing, Safe
    <3> QED BY <2>1, <2>2, <3>1, <3>2 DEF WorkInv
  <2> QED BY <1>12, <2>3, <2>4, AppPendSets
<1>13. ASSUME NEW j \in Jobs, NEW i \in Items, NextItem(j, i) PROVE WorkInv'
  <2>1. UNCHANGED <<disk, marker>>
    BY <1>13 DEF NextItem, files
  <2>2. /\ \A k \in Jobs \ {j} : job'[k] = job[k]
        /\ job[j].pc = "next" /\ job'[j].pc \in {"next", "preserve"} /\ job'[j].on = job[j].on
    BY <1>13, NextItemSets
  <2>3. \A k \in Jobs : Importing(k)' <=> Importing(k)
    BY <2>2 DEF Importing
  <2>4. Left("sync") => Left("sync")'
    <3>1. j = "sync" => /\ job'[j].todo = job[j].todo \ {i} /\ job[j].now = None
                        /\ job'[j].now = i \/ disk[i] = "new"
      BY <1>13, <2>2, NextItemSets DEF TypeInv, AtItem
    <3> QED BY <2>1, <2>2, <3>1 DEF Left, Items
  <2> QED BY <2>1, <2>3, <2>4 DEF WorkInv
<1>14. ASSUME NEW j \in Jobs, Preserve(j) PROVE WorkInv'
  <2>1. UNCHANGED <<disk, marker>>
    BY <1>14 DEF Preserve
  <2>2. /\ \A k \in Jobs \ {j} : job'[k] = job[k]
        /\ job[j].pc = "preserve" /\ job'[j].pc \in {"write", "remove"} /\ job'[j].on = job[j].on
        /\ job'[j].now = job[j].now /\ job'[j].todo = job[j].todo
    BY <1>14, PreserveSets
  <2>3. \A k \in Jobs : Importing(k)' <=> Importing(k)
    BY <2>2 DEF Importing
  <2> QED BY <2>1, <2>2, <2>3 DEF WorkInv, Left
<1>15. ASSUME NEW j \in Jobs, WriteSnapshot(j) PROVE WorkInv'
  BY <1>15 DEF WriteSnapshot, Goto, files, view, history, outcome, SetJob, Idle, TypeInv, JobType, At, Working, AtItem, Safe, ListInv, WorkInv, Left, Importing
<1>16. ASSUME NEW j \in Jobs, RemoveOld(j) PROVE WorkInv'
  BY <1>16 DEF RemoveOld, Goto, files, view, history, outcome, SetJob, Idle, TypeInv, JobType, At, Working, AtItem, Safe, ListInv, WorkInv, Left, Importing
<1>17. ASSUME NEW j \in Jobs, RenameNew(j) PROVE WorkInv'
  BY <1>17 DEF RenameNew, files, view, history, outcome, SetJob, Idle, TypeInv, JobType, At, Working, AtItem, Safe, ListInv, WorkInv, Left, Importing
<1>18. ASSUME NEW j \in Jobs, Finish(j) PROVE WorkInv'
  BY <1>18 DEF Finish, Goto, files, view, history, outcome, SetJob, Idle, TypeInv, JobType, At, Working, AtItem, Safe, ListInv, WorkInv, Left, Importing
<1>19. CASE SyncDone
  BY <1>19 DEF SyncDone, files, view, history, outcome, SetJob, Idle, TypeInv, JobType, At, Working, AtItem, Safe, ListInv, WorkInv, Left, Importing
<1>20. CASE WriteVersion
  BY <1>20 DEF WriteVersion, files, view, history, outcome, SetJob, Idle, TypeInv, JobType, At, Working, AtItem, Safe, ListInv, WorkInv, Left, Importing
<1>21. ASSUME NEW j \in Jobs, JobFails(j) PROVE WorkInv'
  BY <1>21 DEF JobFails, files, view, history, outcome, SetJob, Idle, TypeInv, JobType, At, Working, AtItem, Safe, ListInv, WorkInv, Left, Importing
<1>22. CASE UIEnds
  BY <1>22 DEF UIEnds, InUI, files, view, history, outcome, SetJob, Idle, TypeInv, JobType, At, Working, AtItem, Safe, ListInv, WorkInv, Left, Importing
<1>23. CASE UpdaterDies
  BY <1>23 DEF UpdaterDies, files, view, history, outcome, SetJob, Idle, TypeInv, JobType, At, Working, AtItem, Safe, ListInv, WorkInv, Left, Importing
<1>24. CASE UICloses
  BY <1>24 DEF UICloses, files, view, history, outcome, SetJob, Idle, TypeInv, JobType, At, Working, AtItem, Safe, ListInv, WorkInv, Left, Importing
<1>25. CASE Rest
  BY <1>25 DEF Rest, vars, files, view, history, outcome, At, Working, AtItem, Safe, ListInv, WorkInv, Left, Importing
<1> QED
  BY <1>0, <1>1, <1>2, <1>3, <1>4, <1>5, <1>6, <1>7, <1>8, <1>9, <1>10, <1>11, <1>12, <1>13, <1>14, <1>15, <1>16, <1>17, <1>18, <1>19, <1>20, <1>21, <1>22, <1>23, <1>24, <1>25, EditsAre
  DEF Next, UIStep, PollStep, Updating, JobStep

LEMMA SnapNext == ASSUME TypeInv, ListInv, Safe, Safe', WorkInv, SnapInv, Next PROVE SnapInv'
<1> USE RuleFilesAssumption DEF Jobs
<1>0. ASSUME NEW l \in Lines, AddKnown(l) PROVE SnapInv'
  BY <1>0 DEF AddKnown, MayEdit, files, view, history, outcome, At, Working, AtItem, Safe, WorkInv, SnapInv, Importing, Writing
<1>1. ASSUME NEW add, NEW off, NEW then, Edited(add, off, then) PROVE SnapInv'
  BY <1>1 DEF Edited, Edit, Save, CannotOpen, Touched, MayEdit, files, view, history, outcome, At, Working, AtItem, Safe, WorkInv, SnapInv, Importing, Writing
<1>2. CASE WriteUserRules
  <2>1. Writing /\ user' = mem.rules /\ mem.rules # Torn /\ ~Writing' /\ UNCHANGED <<disk, job>>
    BY <1>2, RuleFilesAssumption DEF WriteUserRules, TypeInv, Rules, Writing
  <2>2. \A j \in Jobs : ~Importing(j) /\ ~At(j, "write")
    BY <2>1 DEF SnapInv, Importing, At
  <2> QED BY <2>1, <2>2 DEF SnapInv, Importing, At
<1>3. CASE WriteFails
  BY <1>3 DEF WriteFails, files, view, history, outcome, At, Working, AtItem, Safe, WorkInv, SnapInv, Importing, Writing
<1>4. CASE ReloadData
  BY <1>4 DEF ReloadData, ReadAll, Loaded, files, view, history, outcome, At, Working, AtItem, Safe, WorkInv, SnapInv, Importing, Writing
<1>5. CASE MarkFiles
  BY <1>5 DEF MarkFiles, files, view, history, outcome, At, Working, AtItem, Safe, WorkInv, SnapInv, Importing, Writing
<1>6. CASE ChgFiles
  BY <1>6 DEF ChgFiles, files, view, history, outcome, At, Working, AtItem, Safe, WorkInv, SnapInv, Importing, Writing
<1>7. CASE PollReads
  BY <1>7 DEF PollReads, ReadAll, Loaded, files, view, history, outcome, At, Working, AtItem, Safe, WorkInv, SnapInv, Importing, Writing
<1>8. CASE OpenUI
  BY <1>8 DEF OpenUI, ReadAll, Loaded, files, view, history, outcome, At, Working, AtItem, Safe, WorkInv, SnapInv, Importing, Writing
<1>9. ASSUME NEW chosen \in Selections, DoSyn(chosen) PROVE SnapInv'
  BY <1>9, DoSynSets DEF DoSyn, Crossing, files, view, history, outcome, At, Working, AtItem, Safe, WorkInv, SnapInv, Importing, Writing
<1>10. CASE DoUpdNative
  BY <1>10 DEF DoUpdNative, files, view, history, outcome, SetJob, Idle, TypeInv, JobType, At, Working, AtItem, Safe, WorkInv, SnapInv, Importing, Writing
<1>11. CASE StartUpdater
  BY <1>11 DEF StartUpdater, Goto, files, view, history, outcome, SetJob, Idle, TypeInv, JobType, At, Working, AtItem, Safe, WorkInv, SnapInv, Importing, Writing
<1>12. CASE AppPend
  BY <1>12, AppPendSets, IdleTyped DEF AppPend, Crossing, files, view, history, outcome, At, Working, AtItem, Safe, WorkInv, SnapInv, Importing, Writing
<1>13. ASSUME NEW j \in Jobs, NEW i \in Items, NextItem(j, i) PROVE SnapInv'
  <2>1. UNCHANGED <<user, ui, disk>>
    BY <1>13 DEF NextItem, files
  <2>2. job[j].pc = "next" /\ job'[j].pc \in {"next", "preserve"} /\ job'[j].on = job[j].on
        /\ job'[j].snap = job[j].snap /\ \A k \in Jobs \ {j} : job'[k] = job[k]
    BY <1>13, NextItemSets
  <2>3. \A k \in Jobs : (At(k, "write")' <=> At(k, "write")) /\ (Importing(k)' <=> Importing(k))
    BY <2>2 DEF At, Importing
  <2>4. (user = Torn <=> Writing \/ \E k \in Jobs : At(k, "write"))'
    BY <2>1, <2>3 DEF SnapInv, Writing
  <2>5. (\A k \in Jobs : At(k, "write") => job[k].on)'
    BY <2>2, <2>3 DEF SnapInv
  <2>6. ASSUME NEW k \in Jobs, Importing(k)'
        PROVE  (/\ ~Writing
                /\ ~At(k, "write") => user = job[k].snap
                /\ job[k].pc \in {"write", "remove"} /\ job[k].now \in Files /\ disk[job[k].now] = "old" =>
                     job[k].now \in job[k].snap.add)'
    BY <2>1, <2>2, <2>3, <2>6 DEF SnapInv, Writing, At
  <2> QED BY <2>4, <2>5, <2>6 DEF SnapInv
<1>14. ASSUME NEW j \in Jobs, Preserve(j) PROVE SnapInv'
  <2>1. UNCHANGED <<ui, disk>> /\ job[j].pc = "preserve" /\ job'[j].now = job[j].now /\ job'[j].on = job[j].on
        /\ \A k \in Jobs \ {j} : job'[k] = job[k]
    BY <1>14, PreserveSets DEF Preserve
  <2>2. \A k \in Jobs : Importing(k)' <=> Importing(k)
    BY <1>14, <2>1, PreserveSets DEF Importing
  <2>3. job[j].on => /\ Importing(j) /\ ~Writing /\ user = job[j].snap
                    /\ \A k \in Jobs \ {j} : ~Importing(k) /\ ~At(k, "write")
    BY <2>1 DEF SnapInv, WorkInv, Importing, At
  <2>4. CASE /\ job[j].on /\ job[j].now \in Files /\ job'[j].pc = "write" /\ user' = Torn
             /\ job'[j].snap.add = job[j].snap.add \union LocalOnly(j)
    <3>1. disk[job[j].now] = "old" => job[j].now \in job'[j].snap.add
      BY <2>4 DEF LocalOnly
    <3> QED BY <2>1, <2>2, <2>3, <2>4, <3>1 DEF SnapInv, Writing, At
  <2>5. CASE /\ job'[j].pc = "remove" /\ user' = user /\ job'[j].snap = job[j].snap
             /\ job[j].on /\ job[j].now \in Files => LocalOnly(j) = {}
    <3>1. job[j].on /\ job[j].now \in Files /\ disk[job[j].now] = "old" => job[j].now \in job[j].snap.add
      BY <2>5 DEF LocalOnly
    <3>2. \A k \in Jobs : At(k, "write")' <=> At(k, "write")
      BY <2>1, <2>5 DEF At
    <3>3. (user = Torn <=> Writing \/ \E k \in Jobs : At(k, "write"))'
      BY <2>1, <2>5, <3>2 DEF SnapInv, Writing
    <3>4. (\A k \in Jobs : At(k, "write") => job[k].on)'
      BY <2>1, <3>2 DEF SnapInv
    <3>5. ASSUME NEW k \in Jobs, Importing(k)'
          PROVE  (/\ ~Writing
                  /\ ~At(k, "write") => user = job[k].snap
                  /\ job[k].pc \in {"write", "remove"} /\ job[k].now \in Files /\ disk[job[k].now] = "old" =>
                       job[k].now \in job[k].snap.add)'
      <4>1. CASE k = j
        <5>1. job[j].on
          BY <2>2, <3>5, <4>1 DEF Importing
        <5> QED BY <2>1, <2>3, <2>5, <3>1, <4>1, <5>1 DEF Writing
      <4>2. CASE k # j
        BY <2>1, <2>2, <2>5, <3>2, <3>5, <4>2 DEF SnapInv, Writing
      <4> QED BY <4>1, <4>2
    <3> QED BY <3>3, <3>4, <3>5 DEF SnapInv
  <2> QED BY <1>14, <2>4, <2>5, PreserveSets
<1>15. ASSUME NEW j \in Jobs, WriteSnapshot(j) PROVE SnapInv'
  <2>1. job[j] \in JobType /\ job[j].pc = "write" /\ user' = job[j].snap
        /\ job' = [job EXCEPT ![j] = [job[j] EXCEPT !.pc = "remove"]] /\ UNCHANGED <<ui, disk>>
    BY <1>15 DEF WriteSnapshot, TypeInv, At, Goto, SetJob
  <2>2. job'[j].pc = "remove" /\ job'[j].snap = job[j].snap /\ job'[j].now = job[j].now /\ job'[j].on = job[j].on
        /\ \A k \in Jobs \ {j} : job'[k] = job[k]
    BY <2>1 DEF TypeInv, JobType
  <2>3. user' # Torn
    BY <2>1 DEF JobType, Rules
  <2>4. job[j].on /\ Importing(j) /\ ~Writing /\ Importing(j)'
    BY <2>1, <2>2 DEF SnapInv, Importing, At
  <2>5. \A k \in Jobs \ {j} : ~Importing(k) /\ ~Importing(k)' /\ ~At(k, "write") /\ ~At(k, "write")'
    BY <2>2, <2>4 DEF WorkInv, SnapInv, Importing, At
  <2>6. job[j].now \in Files /\ disk[job[j].now] = "old" => job[j].now \in job[j].snap.add
    BY <2>1, <2>4 DEF SnapInv
  <2> QED BY <2>1, <2>2, <2>3, <2>4, <2>5, <2>6 DEF SnapInv, Writing, At
<1>16. ASSUME NEW j \in Jobs, RemoveOld(j) PROVE SnapInv'
  BY <1>16 DEF RemoveOld, Goto, files, view, history, outcome, SetJob, Idle, TypeInv, JobType, At, Working, AtItem, Safe, WorkInv, SnapInv, Importing, Writing
<1>17. ASSUME NEW j \in Jobs, RenameNew(j) PROVE SnapInv'
  BY <1>17 DEF RenameNew, files, view, history, outcome, SetJob, Idle, TypeInv, JobType, At, Working, AtItem, Safe, WorkInv, SnapInv, Importing, Writing
<1>18. ASSUME NEW j \in Jobs, Finish(j) PROVE SnapInv'
  BY <1>18 DEF Finish, Goto, files, view, history, outcome, SetJob, Idle, TypeInv, JobType, At, Working, AtItem, Safe, WorkInv, SnapInv, Importing, Writing
<1>19. CASE SyncDone
  BY <1>19 DEF SyncDone, files, view, history, outcome, SetJob, Idle, TypeInv, JobType, At, Working, AtItem, Safe, WorkInv, SnapInv, Importing, Writing
<1>20. CASE WriteVersion
  BY <1>20 DEF WriteVersion, files, view, history, outcome, SetJob, Idle, TypeInv, JobType, At, Working, AtItem, Safe, WorkInv, SnapInv, Importing, Writing
<1>21. ASSUME NEW j \in Jobs, JobFails(j) PROVE SnapInv'
  BY <1>21 DEF JobFails, files, view, history, outcome, SetJob, Idle, TypeInv, JobType, At, Working, AtItem, Safe, WorkInv, SnapInv, Importing, Writing
<1>22. CASE UIEnds
  BY <1>22 DEF UIEnds, InUI, files, view, history, outcome, SetJob, Idle, TypeInv, JobType, At, Working, AtItem, Safe, WorkInv, SnapInv, Importing, Writing
<1>23. CASE UpdaterDies
  BY <1>23 DEF UpdaterDies, files, view, history, outcome, SetJob, Idle, TypeInv, JobType, At, Working, AtItem, Safe, WorkInv, SnapInv, Importing, Writing
<1>24. CASE UICloses
  BY <1>24 DEF UICloses, files, view, history, outcome, SetJob, Idle, TypeInv, JobType, At, Working, AtItem, Safe, WorkInv, SnapInv, Importing, Writing
<1>25. CASE Rest
  BY <1>25 DEF Rest, vars, files, view, history, outcome, At, Working, AtItem, Safe, WorkInv, SnapInv, Importing, Writing
<1> QED
  BY <1>0, <1>1, <1>2, <1>3, <1>4, <1>5, <1>6, <1>7, <1>8, <1>9, <1>10, <1>11, <1>12, <1>13, <1>14, <1>15, <1>16, <1>17, <1>18, <1>19, <1>20, <1>21, <1>22, <1>23, <1>24, <1>25, EditsAre
  DEF Next, UIStep, PollStep, Updating, JobStep

\* user_rules.json as RulesAreTheUsers sees it, case by case.
WrittenIs ==
  /\ Writing => Written = mem.rules
  /\ \A j \in Jobs : ~Writing /\ At(j, "write") => Written = job[j].snap
  /\ ~Writing /\ (\A j \in Jobs : ~At(j, "write")) => Written = ReadRules

LEMMA WrittenCases == SnapInv /\ WorkInv => WrittenIs
<1> SUFFICES ASSUME SnapInv, WorkInv PROVE WrittenIs
  OBVIOUS
<1>1. ASSUME NEW j \in Jobs, ~Writing, At(j, "write") PROVE Written = job[j].snap
  <2>1. \A k \in Jobs : At(k, "write") => k = j
    BY <1>1 DEF SnapInv, WorkInv, Importing, At
  <2>2. (CHOOSE k \in Jobs : At(k, "write")) = j
    BY <1>1, <2>1
  <2> QED BY <1>1, <2>2 DEF Written, Writing
<1> QED BY <1>1 DEF WrittenIs, Written, Writing

LEMMA WrittenCasesNext == SnapInv' /\ WorkInv' => WrittenIs'
<1> SUFFICES ASSUME SnapInv', WorkInv' PROVE WrittenIs'
  OBVIOUS
<1>1. ASSUME NEW j \in Jobs, ~Writing', At(j, "write")' PROVE Written' = job'[j].snap
  <2>1. \A k \in Jobs : At(k, "write")' => k = j
    BY <1>1 DEF SnapInv, WorkInv, Importing, At
  <2>2. (CHOOSE k \in Jobs : At(k, "write")') = j
    BY <1>1, <2>1
  <2> QED BY <1>1, <2>2 DEF Written, Writing
<1> QED BY <1>1 DEF WrittenIs, Written, Writing

\* What can be read is what the user made, or nothing while it is being written.
LEMMA ReadIsWanted ==
  ASSUME SnapInv, WrittenIs, Kept
  PROVE  ReadRules.add \subseteq wanted.add \cup refused.add
<1>1. CASE user = Torn
  BY <1>1 DEF ReadRules, NoRules
<1>2. CASE user # Torn
  BY <1>2 DEF SnapInv, WrittenIs, Kept
<1> QED BY <1>1, <1>2

LEMMA ReadIsFresh ==
  ASSUME ReadRules.add \subseteq wanted.add \cup refused.add, mem.rules' = ReadRules,
         UNCHANGED <<user, wanted, refused>>
  PROVE  FreshInv'
BY DEF FreshInv, ReadRules, Apart

LEMMA FreshNext == ASSUME TypeInv, ListInv, Safe, Safe', WorkInv, SnapInv, FreshInv, Kept, WrittenIs, Next PROVE FreshInv'
<1> USE RuleFilesAssumption DEF Jobs
<1>0. ASSUME NEW l \in Lines, AddKnown(l) PROVE FreshInv'
  <2>1. UNCHANGED <<user, mem, refused, unread, job>> /\ ~Writing /\ ~Writing' /\ wanted.add \subseteq wanted'.add
    BY <1>0 DEF AddKnown, MayEdit, files, view, Writing, TypeInv, Rules
  <2> QED BY <2>1 DEF FreshInv, ReadRules, At
<1>1. ASSUME NEW add, NEW off, NEW then, Edited(add, off, then) PROVE FreshInv'
  <2>1. /\ mem'.rules.add = add /\ mem'.rules.off = off /\ UNCHANGED <<job, unread>>
        /\ ~Writing /\ then \in {"adding", "toggling"}
    BY <1>1 DEF Edited, Edit, MayEdit, Writing, TypeInv
  <2>2. CASE Save(add, off, then)
    <3>1. Writing'
      BY <2>1, <2>2 DEF Save, Writing
    <3>2. add \subseteq wanted'.add \cup refused'.add
      BY <2>2 DEF Save, FreshInv
    <3> QED BY <2>1, <3>1, <3>2 DEF FreshInv
  <2>3. CASE CannotOpen(add, off)
    <3>1. UNCHANGED <<user, ui, wanted>>
          /\ refused'.add = refused.add \union Apart(add, mem.rules.add)
          /\ refused'.off = refused.off \union Apart(off, mem.rules.off)
      BY <2>3 DEF CannotOpen
    <3>2. add \subseteq wanted'.add \cup refused'.add
      BY <3>1 DEF FreshInv, Apart
    <3>3. ASSUME ~unread, \A j \in Jobs : ~At(j, "write")
          PROVE  Apart(add, ReadRules.add) \subseteq refused'.add /\ Apart(off, ReadRules.off) \subseteq refused'.off
      BY <2>1, <3>1, <3>3 DEF FreshInv, Apart
    <3> QED BY <2>1, <3>1, <3>2, <3>3 DEF FreshInv, ReadRules, Writing, At
  <2> QED BY <1>1, <2>2, <2>3 DEF Edited, Edit
<1>2. CASE WriteUserRules
  <2>1. UNCHANGED <<mem, wanted, refused>> /\ user' = mem.rules /\ mem.rules # Torn
    BY <1>2 DEF WriteUserRules, TypeInv, Rules, history
  <2> QED BY <2>1 DEF FreshInv, ReadRules, Apart
<1>3. CASE WriteFails
  BY <1>3 DEF WriteFails, files, view, history, outcome, At, Working, AtItem, Safe, FreshInv, Writing, ReadRules
<1>4. CASE ReloadData
  BY <1>4, ReadIsWanted, ReadIsFresh DEF ReloadData, ReadAll, Loaded, files, history
<1>5. CASE MarkFiles
  BY <1>5 DEF MarkFiles, files, view, history, outcome, At, Working, AtItem, Safe, FreshInv, Writing, ReadRules
<1>6. CASE ChgFiles
  BY <1>6 DEF ChgFiles, files, view, history, outcome, At, Working, AtItem, Safe, FreshInv, Writing, ReadRules
<1>7. CASE PollReads
  BY <1>7, ReadIsWanted, ReadIsFresh DEF PollReads, ReadAll, Loaded, files, history
<1>8. CASE OpenUI
  BY <1>8, ReadIsWanted, ReadIsFresh DEF OpenUI, ReadAll, Loaded, files, history
<1>9. ASSUME NEW chosen \in Selections, DoSyn(chosen) PROVE FreshInv'
  BY <1>9, DoSynSets DEF DoSyn, Crossing, files, view, history, outcome, At, Working, AtItem, Safe, FreshInv, Writing, ReadRules
<1>10. CASE DoUpdNative
  BY <1>10 DEF DoUpdNative, files, view, history, outcome, SetJob, Idle, TypeInv, JobType, At, Working, AtItem, Safe, FreshInv, Writing, ReadRules
<1>11. CASE StartUpdater
  BY <1>11 DEF StartUpdater, Goto, files, view, history, outcome, SetJob, Idle, TypeInv, JobType, At, Working, AtItem, Safe, FreshInv, Writing, ReadRules
<1>12. CASE AppPend
  BY <1>12, AppPendSets, IdleTyped DEF AppPend, Crossing, files, view, history, outcome, At, Working, AtItem, Safe, FreshInv, Writing, ReadRules
<1>13. ASSUME NEW j \in Jobs, NEW i \in Items, NextItem(j, i) PROVE FreshInv'
  <2>1. UNCHANGED <<user, mem, ui, wanted, refused, unread>>
    BY <1>13 DEF NextItem, files, view, history
  <2>2. \A k \in Jobs : At(k, "write")' <=> At(k, "write")
    BY <1>13, NextItemSets DEF At
  <2> QED BY <2>1, <2>2 DEF FreshInv, ReadRules, Writing
<1>14. ASSUME NEW j \in Jobs, Preserve(j) PROVE FreshInv'
  BY <1>14, PreserveSets DEF Preserve, files, view, history, outcome, At, Working, AtItem, Safe, FreshInv, Writing, ReadRules
<1>15. ASSUME NEW j \in Jobs, WriteSnapshot(j) PROVE FreshInv'
  BY <1>15 DEF WriteSnapshot, Goto, files, view, history, outcome, SetJob, Idle, TypeInv, JobType, At, Working, AtItem, Safe, FreshInv, Writing, ReadRules
<1>16. ASSUME NEW j \in Jobs, RemoveOld(j) PROVE FreshInv'
  BY <1>16 DEF RemoveOld, Goto, files, view, history, outcome, SetJob, Idle, TypeInv, JobType, At, Working, AtItem, Safe, FreshInv, Writing, ReadRules
<1>17. ASSUME NEW j \in Jobs, RenameNew(j) PROVE FreshInv'
  BY <1>17 DEF RenameNew, files, view, history, outcome, SetJob, Idle, TypeInv, JobType, At, Working, AtItem, Safe, FreshInv, Writing, ReadRules
<1>18. ASSUME NEW j \in Jobs, Finish(j) PROVE FreshInv'
  BY <1>18 DEF Finish, Goto, files, view, history, outcome, SetJob, Idle, TypeInv, JobType, At, Working, AtItem, Safe, FreshInv, Writing, ReadRules
<1>19. CASE SyncDone
  BY <1>19 DEF SyncDone, files, view, history, outcome, SetJob, Idle, TypeInv, JobType, At, Working, AtItem, Safe, FreshInv, Writing, ReadRules
<1>20. CASE WriteVersion
  BY <1>20 DEF WriteVersion, files, view, history, outcome, SetJob, Idle, TypeInv, JobType, At, Working, AtItem, Safe, FreshInv, Writing, ReadRules
<1>21. ASSUME NEW j \in Jobs, JobFails(j) PROVE FreshInv'
  BY <1>21 DEF JobFails, files, view, history, outcome, SetJob, Idle, TypeInv, JobType, At, Working, AtItem, Safe, FreshInv, Writing, ReadRules
<1>22. CASE UIEnds
  BY <1>22 DEF UIEnds, InUI, files, view, history, outcome, SetJob, Idle, TypeInv, JobType, At, Working, AtItem, Safe, FreshInv, Writing, ReadRules
<1>23. CASE UpdaterDies
  BY <1>23 DEF UpdaterDies, files, view, history, outcome, SetJob, Idle, TypeInv, JobType, At, Working, AtItem, Safe, FreshInv, Writing, ReadRules
<1>24. CASE UICloses
  BY <1>24 DEF UICloses, files, view, history, outcome, SetJob, Idle, TypeInv, JobType, At, Working, AtItem, Safe, FreshInv, Writing, ReadRules
<1>25. CASE Rest
  BY <1>25 DEF Rest, vars, files, view, history, outcome, At, Working, AtItem, Safe, FreshInv, Writing, ReadRules
<1> QED
  BY <1>0, <1>1, <1>2, <1>3, <1>4, <1>5, <1>6, <1>7, <1>8, <1>9, <1>10, <1>11, <1>12, <1>13, <1>14, <1>15, <1>16, <1>17, <1>18, <1>19, <1>20, <1>21, <1>22, <1>23, <1>24, <1>25, EditsAre
  DEF Next, UIStep, PollStep, Updating, JobStep

\* Old files stay or go and what is written stays: nothing wanted is lost.
LEMMA SameRules ==
  ASSUME Kept, Written' = Written, UNCHANGED <<wanted, refused>>,
         \A f \in Files : disk[f] = "old" => disk'[f] = "old" \/ f \in Written.add
  PROVE  Kept'
BY DEF Kept

\* What is written is a matter of the file, the UI and who writes.
LEMMA SameWritten ==
  ASSUME WrittenIs, WrittenIs', UNCHANGED <<user, mem>>, Writing' <=> Writing,
         \A j \in Jobs : (At(j, "write")' <=> At(j, "write")) /\ (At(j, "write") => job'[j].snap = job[j].snap)
  PROVE  Written' = Written
BY DEF WrittenIs, ReadRules

LEMMA KeptNext == ASSUME TypeInv, ListInv, Safe, Safe', WorkInv, SnapInv, FreshInv, Kept, WrittenIs, WrittenIs', Next PROVE Kept'
<1> USE RuleFilesAssumption DEF Jobs
<1>0. ASSUME NEW l \in Lines, AddKnown(l) PROVE Kept'
  <2>1. UNCHANGED <<disk, user, mem, refused, job>> /\ ~Writing /\ ~Writing'
        /\ wanted' \in {wanted, [wanted EXCEPT !.add = @ \union {l}]} /\ l \in mem.rules.add
    BY <1>0 DEF AddKnown, MayEdit, files, view, Writing
  <2>2. Written' = Written
    BY <2>1, SameWritten DEF At
  <2>3. wanted'.off = wanted.off /\ wanted.add \subseteq wanted'.add /\ wanted'.add \subseteq wanted.add \cup refused.add
    BY <2>1 DEF TypeInv, Rules, FreshInv
  <2> QED BY <2>1, <2>2, <2>3 DEF Kept
<1>1. ASSUME NEW add, NEW off, NEW then, Edited(add, off, then) PROVE Kept'
  <2>1. /\ mem'.rules = [add |-> add, off |-> off] /\ UNCHANGED <<job, unread, disk>>
        /\ ~Writing /\ then \in {"adding", "toggling"}
    BY <1>1 DEF Edited, Edit, MayEdit, Writing, TypeInv
  <2>2. CASE Save(add, off, then)
    <3>1. ~unread /\ (\A j \in Jobs : ~Importing(j)) /\ Writing'
      BY <2>1, <2>2 DEF Save, Safe, Writing
    <3>2. \A j \in Jobs : ~At(j, "write")
      BY <3>1 DEF SnapInv, Importing, At
    <3>3. Written = ReadRules /\ Written' = [add |-> add, off |-> off]
      BY <2>1, <3>1, <3>2 DEF WrittenIs
    <3>4. /\ Apart(mem.rules.add, Written.add) \subseteq refused.add
          /\ Apart(mem.rules.off, Written.off) \subseteq refused.off
          /\ mem.rules.add \subseteq wanted.add \cup refused.add
      BY <2>1, <3>1, <3>2, <3>3 DEF FreshInv
    <3>5. /\ wanted'.add = (wanted.add \ (mem.rules.add \ add)) \union (add \ mem.rules.add)
          /\ wanted'.off = (wanted.off \ (mem.rules.off \ off)) \union (off \ mem.rules.off)
          /\ UNCHANGED refused
      BY <2>2 DEF Save
    <3> QED BY <2>1, <3>3, <3>4, <3>5 DEF Kept, Apart
  <2>3. CASE CannotOpen(add, off)
    <3>1. UNCHANGED <<user, ui, wanted>> /\ refused.add \subseteq refused'.add /\ refused.off \subseteq refused'.off
      BY <2>3 DEF CannotOpen
    <3>2. Written' = Written
      BY <2>1, <3>1 DEF WrittenIs, Writing, ReadRules, At
    <3> QED BY <2>1, <3>1, <3>2 DEF Kept
  <2> QED BY <1>1, <2>2, <2>3 DEF Edited, Edit
<1>2. CASE WriteUserRules
  <2>1. mem.rules # Torn /\ user' = mem.rules /\ Writing /\ ~Writing' /\ UNCHANGED <<job, disk, wanted, refused, mem>>
    BY <1>2 DEF WriteUserRules, TypeInv, Rules, Writing, history
  <2>2. \A j \in Jobs : ~At(j, "write")
    BY <2>1 DEF SnapInv, Importing, At
  <2>3. Written = mem.rules /\ Written' = user'
    BY <2>1, <2>2 DEF WrittenIs, ReadRules, At
  <2> QED BY <2>1, <2>3, SameRules
<1>3. CASE WriteFails
  BY <1>3 DEF WriteFails, Safe
<1>4. CASE ReloadData
  <2>1. UNCHANGED <<disk, wanted, refused>>
    BY <1>4 DEF ReloadData, files, history
  <2>2. Written' = Written
    BY <1>4 DEF ReloadData, WrittenIs, Writing, ReadRules, At, files, view
  <2> QED BY <2>1, <2>2, SameRules
<1>5. CASE MarkFiles
  <2>1. UNCHANGED <<disk, wanted, refused>>
    BY <1>5 DEF MarkFiles, files, history
  <2>2. Written' = Written
    BY <1>5 DEF MarkFiles, WrittenIs, Writing, ReadRules, At, files, view
  <2> QED BY <2>1, <2>2, SameRules
<1>6. CASE ChgFiles
  <2>1. UNCHANGED <<disk, wanted, refused>>
    BY <1>6 DEF ChgFiles, files, history
  <2>2. Written' = Written
    BY <1>6 DEF ChgFiles, WrittenIs, Writing, ReadRules, At, files, view
  <2> QED BY <2>1, <2>2, SameRules
<1>7. CASE PollReads
  <2>1. UNCHANGED <<disk, wanted, refused>>
    BY <1>7 DEF PollReads, files, history
  <2>2. Written' = Written
    BY <1>7 DEF PollReads, WrittenIs, Writing, ReadRules, At, files, view
  <2> QED BY <2>1, <2>2, SameRules
<1>8. CASE OpenUI
  <2>1. UNCHANGED <<disk, wanted, refused>>
    BY <1>8 DEF OpenUI, files, history
  <2>2. Written' = Written
    BY <1>8 DEF OpenUI, WrittenIs, Writing, ReadRules, At, files, view
  <2> QED BY <2>1, <2>2, SameRules
<1>9. ASSUME NEW chosen \in Selections, DoSyn(chosen) PROVE Kept'
  <2>1. UNCHANGED <<disk, wanted, refused>>
    BY <1>9 DEF DoSyn, files, history
  <2>2. Written' = Written
    BY <1>9, DoSynSets DEF DoSyn, WrittenIs, Writing, ReadRules, At, files, view
  <2> QED BY <2>1, <2>2, SameRules
<1>10. CASE DoUpdNative
  <2>1. UNCHANGED <<disk, wanted, refused>>
    BY <1>10 DEF DoUpdNative, files, history
  <2>2. Written' = Written
    BY <1>10 DEF DoUpdNative, WrittenIs, Writing, ReadRules, At, files, view, SetJob, Idle, TypeInv, JobType
  <2> QED BY <2>1, <2>2, SameRules
<1>11. CASE StartUpdater
  <2>1. UNCHANGED <<disk, wanted, refused>>
    BY <1>11 DEF StartUpdater, files, history
  <2>2. Written' = Written
    BY <1>11 DEF StartUpdater, WrittenIs, Writing, ReadRules, At, files, view, SetJob, Goto, TypeInv, JobType
  <2> QED BY <2>1, <2>2, SameRules
<1>12. CASE AppPend
  <2>1. UNCHANGED <<disk, wanted, refused>>
    BY <1>12 DEF AppPend, files, history
  <2>2. Written' = Written
    BY <1>12, AppPendSets, IdleTyped DEF AppPend, WrittenIs, Writing, ReadRules, At, files, view
  <2> QED BY <2>1, <2>2, SameRules
<1>13. ASSUME NEW j \in Jobs, NEW i \in Items, NextItem(j, i) PROVE Kept'
  <2>1. UNCHANGED <<disk, user, mem, ui, wanted, refused>>
    BY <1>13 DEF NextItem, files, view, history
  <2>2. \A k \in Jobs : (At(k, "write")' <=> At(k, "write")) /\ job'[k].snap = job[k].snap
    BY <1>13, NextItemSets DEF At
  <2>3. Written' = Written
    BY <2>1, <2>2, SameWritten DEF Writing
  <2> QED BY <2>1, <2>3, SameRules
<1>14. ASSUME NEW j \in Jobs, Preserve(j) PROVE Kept'
  <2>1. UNCHANGED <<ui, disk, mem, wanted, refused>> /\ job[j].pc = "preserve" /\ job[j] \in JobType
        /\ \A k \in Jobs \ {j} : job'[k] = job[k]
    BY <1>14, PreserveSets DEF Preserve, TypeInv
  <2>2. CASE /\ job[j].on /\ job[j].now \in Files /\ job'[j].pc = "write"
             /\ job'[j].snap.off = job[j].snap.off
             /\ job'[j].snap.add = job[j].snap.add \union LocalOnly(j)
    <3>1. Importing(j) /\ ~Writing /\ user = job[j].snap /\ \A k \in Jobs : ~At(k, "write")
      BY <2>1, <2>2 DEF SnapInv, WorkInv, Importing, At
    <3>2. Written = job[j].snap
      BY <2>1, <3>1 DEF WrittenIs, ReadRules, JobType, Rules
    <3>3. Written' = job'[j].snap
      BY <2>1, <2>2, <3>1 DEF WrittenIs, Writing, At
    <3>4. LocalOnly(j) \subseteq wanted.add
      BY DEF LocalOnly, ListInv
    <3> QED BY <2>1, <2>2, <3>2, <3>3, <3>4 DEF Kept
  <2>3. CASE job'[j].pc = "remove" /\ user' = user
    <3>1. \A k \in Jobs : (At(k, "write")' <=> At(k, "write")) /\ (At(k, "write") => job'[k].snap = job[k].snap)
      BY <2>1, <2>3 DEF At
    <3>2. Written' = Written
      BY <2>1, <2>3, <3>1, SameWritten DEF Writing
    <3> QED BY <2>1, <3>2, SameRules
  <2> QED BY <1>14, <2>2, <2>3, PreserveSets
<1>15. ASSUME NEW j \in Jobs, WriteSnapshot(j) PROVE Kept'
  <2>1. job[j] \in JobType /\ At(j, "write") /\ user' = job[j].snap /\ user' # Torn
        /\ UNCHANGED <<ui, mem, disk, wanted, refused>>
    BY <1>15 DEF WriteSnapshot, TypeInv, At, JobType, Rules, history
  <2>2. job'[j].pc = "remove" /\ \A k \in Jobs \ {j} : job'[k] = job[k]
    BY <1>15, <2>1 DEF WriteSnapshot, TypeInv, JobType, Goto, SetJob
  <2>3. Importing(j) /\ ~Writing /\ \A k \in Jobs \ {j} : ~At(k, "write")
    BY <2>1 DEF SnapInv, WorkInv, Importing, At
  <2>4. Written = job[j].snap /\ Written' = user'
    BY <2>1, <2>2, <2>3 DEF WrittenIs, Writing, ReadRules, At
  <2> QED BY <2>1, <2>4, SameRules
<1>16. ASSUME NEW j \in Jobs, RemoveOld(j) PROVE Kept'
  <2>1. job[j] \in JobType /\ At(j, "remove") /\ job[j].now \in Items /\ UNCHANGED <<user, ui, mem, wanted, refused>>
        /\ disk' = [disk EXCEPT ![job[j].now] = "missing"]
    BY <1>16 DEF RemoveOld, TypeInv, At, JobType, AtItem, history
  <2>2. job'[j].pc = "rename" /\ \A k \in Jobs \ {j} : job'[k] = job[k]
    BY <1>16, <2>1 DEF RemoveOld, TypeInv, JobType, Goto, SetJob
  <2>3. Written' = Written
    BY <2>1, <2>2, SameWritten DEF Writing, At
  <2>4. ASSUME NEW f \in Files, disk[f] = "old", disk'[f] # "old" PROVE f \in Written.add
    <3>1. f = job[j].now /\ f \in Items
      BY <2>1, <2>4 DEF TypeInv
    <3>2. Importing(j) /\ \A k \in Jobs : ~At(k, "write")
      BY <2>1, <2>4 DEF ListInv, WorkInv, SnapInv, Importing, At, Working, AtItem
    <3>3. ~Writing /\ user = job[j].snap /\ f \in job[j].snap.add
      BY <2>1, <2>4, <3>1, <3>2 DEF SnapInv, At
    <3>4. user # Torn
      BY <2>1, <3>3 DEF JobType, Rules
    <3> QED BY <3>2, <3>3, <3>4 DEF WrittenIs, ReadRules
  <2> QED BY <2>1, <2>3, <2>4, SameRules
<1>17. ASSUME NEW j \in Jobs, RenameNew(j) PROVE Kept'
  <2>1. job[j] \in JobType /\ At(j, "rename") /\ job[j].now \in Items /\ UNCHANGED <<user, ui, mem, wanted, refused>>
        /\ disk' = [disk EXCEPT ![job[j].now] = "new"]
    BY <1>17 DEF RenameNew, TypeInv, At, JobType, AtItem, history
  <2>2. job'[j].pc = "next" /\ \A k \in Jobs \ {j} : job'[k] = job[k]
    BY <1>17, <2>1 DEF RenameNew, TypeInv, JobType, SetJob
  <2>3. Written' = Written
    BY <2>1, <2>2, SameWritten DEF Writing, At
  <2>4. \A f \in Files : disk[f] = "old" => disk'[f] = "old"
    BY <2>1 DEF ListInv, At
  <2> QED BY <2>1, <2>3, <2>4, SameRules
<1>18. ASSUME NEW j \in Jobs, Finish(j) PROVE Kept'
  <2>1. UNCHANGED <<disk, wanted, refused>>
    BY <1>18 DEF Finish, files, history
  <2>2. Written' = Written
    BY <1>18 DEF Finish, WrittenIs, Writing, ReadRules, At, files, view, SetJob, Goto, TypeInv, JobType
  <2> QED BY <2>1, <2>2, SameRules
<1>19. CASE SyncDone
  <2>1. UNCHANGED <<disk, wanted, refused>>
    BY <1>19 DEF SyncDone, files, history
  <2>2. Written' = Written
    BY <1>19 DEF SyncDone, WrittenIs, Writing, ReadRules, At, files, view, SetJob, Idle, TypeInv, JobType
  <2> QED BY <2>1, <2>2, SameRules
<1>20. CASE WriteVersion
  <2>1. UNCHANGED <<disk, wanted, refused>>
    BY <1>20 DEF WriteVersion, files, history
  <2>2. Written' = Written
    BY <1>20 DEF WriteVersion, WrittenIs, Writing, ReadRules, At, files, view, SetJob, Idle, TypeInv, JobType
  <2> QED BY <2>1, <2>2, SameRules
<1>21. ASSUME NEW j \in Jobs, JobFails(j) PROVE Kept'
  <2>1. UNCHANGED <<disk, user, mem, ui, wanted, refused>> /\ ~At(j, "write") /\ SetJob(j, Idle)
    BY <1>21 DEF JobFails, Safe, files
  <2>2. \A k \in Jobs : (At(k, "write")' <=> At(k, "write")) /\ (At(k, "write") => job'[k].snap = job[k].snap)
    BY <2>1, IdleTyped, JobSet DEF At
  <2>3. Written' = Written
    BY <2>1, <2>2, SameWritten DEF Writing
  <2> QED BY <2>1, <2>3, SameRules
<1>22. CASE UIEnds
  <2>1. UNCHANGED <<disk, wanted, refused>>
    BY <1>22 DEF UIEnds, files, history
  <2>2. Written' = Written
    BY <1>22 DEF UIEnds, WrittenIs, Writing, ReadRules, At, files, view, Safe, Idle, InUI, TypeInv, JobType
  <2> QED BY <2>1, <2>2, SameRules
<1>23. CASE UpdaterDies
  <2>1. UNCHANGED <<disk, wanted, refused>>
    BY <1>23 DEF UpdaterDies, files, history
  <2>2. Written' = Written
    BY <1>23 DEF UpdaterDies, WrittenIs, Writing, ReadRules, At, files, view, Safe, SetJob, Idle, TypeInv, JobType
  <2> QED BY <2>1, <2>2, SameRules
<1>24. CASE UICloses
  <2>1. UNCHANGED <<disk, wanted, refused>>
    BY <1>24 DEF UICloses, files, history
  <2>2. Written' = Written
    BY <1>24 DEF UICloses, WrittenIs, Writing, ReadRules, At, files, view, SetJob, Idle, TypeInv, JobType
  <2> QED BY <2>1, <2>2, SameRules
<1>25. CASE Rest
  <2>1. UNCHANGED <<disk, user, mem, ui, wanted, refused, job>>
    BY <1>25 DEF Rest, vars, files, view, history
  <2>2. Written' = Written
    BY <2>1, SameWritten DEF Writing, At
  <2> QED BY <2>1, <2>2, SameRules
<1> QED
  BY <1>0, <1>1, <1>2, <1>3, <1>4, <1>5, <1>6, <1>7, <1>8, <1>9, <1>10, <1>11, <1>12, <1>13, <1>14, <1>15, <1>16, <1>17, <1>18, <1>19, <1>20, <1>21, <1>22, <1>23, <1>24, <1>25, EditsAre
  DEF Next, UIStep, PollStep, Updating, JobStep

LEMMA StutterInv == IInv /\ UNCHANGED vars => IInv'
<1> SUFFICES ASSUME IInv, UNCHANGED vars PROVE IInv'
  OBVIOUS
<1>1. TypeInv' /\ ListInv'
  BY DEF IInv, vars, files, view, history, outcome, TypeInv, ListInv, Left
<1>2. RulesInv'
  BY DEF IInv, vars, files, view, history, outcome, RulesInv, Safe, WorkInv, SnapInv, FreshInv, Kept,
         Written, Writing, ReadRules, At, Importing, Left
<1> QED BY <1>1, <1>2 DEF IInv

\* What the importing job and the UI have in memory agrees with the files, whatever
\* dies or fails and whoever comes in between, until one of the exceptions of
\* RulesAreTheUsers (rule_migration.go:31-141, update.go:557-745, main.go:340-354).
THEOREM Inductive == Spec => []IInv
<1>1. Init => IInv
  BY InitInv
<1>2. IInv /\ [Next]_vars => IInv'
  <2>1. ASSUME IInv, Next PROVE IInv'
    <3>1. TypeInv' /\ ListInv'
      BY <2>1, TypeNext, ListNext DEF IInv
    <3>2. ASSUME Safe' PROVE WorkInv' /\ SnapInv' /\ FreshInv' /\ Kept'
      <4>1. Safe
        BY <2>1, <3>2, SafeStays DEF IInv
      <4>2. WorkInv' /\ SnapInv'
        BY <2>1, <3>2, <4>1, WorkNext, SnapNext DEF IInv, RulesInv
      <4>3. WrittenIs /\ WrittenIs'
        BY <2>1, <4>1, <4>2, WrittenCases, WrittenCasesNext DEF IInv, RulesInv
      <4> QED BY <2>1, <3>2, <4>1, <4>2, <4>3, FreshNext, KeptNext DEF IInv, RulesInv
    <3> QED BY <3>1, <3>2 DEF IInv, RulesInv
  <2> QED BY <2>1, StutterInv
<1> QED BY <1>1, <1>2, PTL DEF Spec

\* No rule of the user is lost or comes back by edits, reloads, synchronisations and
\* updates, in any order, by their failures and deaths, but for what
\* RulesAreTheUsers excepts (rule_migration.go:43-141, README.md:24).
THEOREM RulesSurvive == Spec => []RulesAreTheUsers
<1>1. IInv => RulesAreTheUsers
  BY DEF IInv, RulesInv, RulesAreTheUsers, Safe
<1> QED BY <1>1, Inductive, PTL

===============================================================================
