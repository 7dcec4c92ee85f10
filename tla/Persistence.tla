---------------------------- MODULE Persistence ----------------------------
(***************************************************************************)
(* Startup entries of one case (eradication/persistence.go, manager.go,    *)
(* restore.go, restore_persistence.go, task_restore.go, recovery.go): the  *)
(* agent finds and saves the entries that start an artifact, quarantines   *)
(* the artifacts and removes the entries of those it holds; the restore    *)
(* command puts files back and then the entries. Other programs edit the   *)
(* entries and occupy the paths, writes and checks fail, either process    *)
(* may die. The steps of a file's quarantine and restore are in Quarantine *)
(* and SharedCases; here each is one action with its outcomes.             *)
(***************************************************************************)
EXTENDS Integers, FiniteSets

CONSTANTS
  Artifacts,
  Items,       \* places an entry may stand at
  Kind,        \* registry_run, startup_link, task or service
  Target,      \* the artifact the agent knows the entry by
  None,
  MaxEdits,    \* bounds the edits of other programs
  MaxFaults,   \* bounds the failures of writes, checks and removals
  MaxDeaths    \* bounds the deaths of agent and command

Kinds == {"registry_run", "startup_link", "task", "service"}

ASSUME PersistenceAssumption ==
  /\ Kind \in [Items -> Kinds] /\ Target \in [Items -> Artifacts]
  /\ None \notin Items \cup {"own", "edited", "other", "agent", "command"}
  /\ MaxEdits \in Nat /\ MaxFaults \in Nat /\ MaxDeaths \in Nat

\* What an entry says: it starts the target, it starts it with other
\* arguments, or it starts something else.
Contents == {"own", "edited", "other"}
Matches(content) == content \in {"own", "edited"}

VARIABLES
  entry,     \* what stands at each place
  theirs,    \* places another program has written since the scan
  file,      \* per artifact: "there", "kept" in quarantine or "back"
  occupied,  \* paths of kept artifacts where someone has put a file
  found,     \* what the scan read at each place
  saved,     \* evidence in the plan or backup file
  plan,      \* the plan is on disk
  case,      \* the case file: statuses, NoCase before it exists
  journal,   \* operations: [action, item, state], equal ones once
  gone,      \* entries the agent removed and nobody has put anything for
  who,       \* the running process: "agent", "command" or None
  pc, draft, \* its place, and the case in its memory
  todo, item,\* items not yet visited, and the one at hand
  failures,  \* the command has met a failure
  edits, faults, deaths

disk == <<found, saved, plan, case>>
world == <<entry, theirs, file, occupied, gone>>
local == <<who, pc, draft, todo, item, failures>>
bounds == <<edits, faults, deaths>>
vars == <<disk, world, journal, local, bounds>>

NoCase == [status |-> "none", art |-> [a \in Artifacts |-> "none"], per |-> [i \in Items |-> "none"]]

Init ==
  /\ entry \in [Items -> {"own", "other", None}] /\ theirs = {}
  /\ file = [a \in Artifacts |-> "there"] /\ occupied = {}
  /\ found = [i \in Items |-> None] /\ saved = [i \in Items |-> None]
  /\ plan = FALSE /\ case = NoCase /\ journal = {} /\ gone = {}
  /\ who = "agent" /\ pc = "scan" /\ draft = NoCase
  /\ todo = {} /\ item = None /\ failures = FALSE
  /\ edits = 0 /\ faults = 0 /\ deaths = 0

Fault == faults < MaxFaults /\ faults' = faults + 1
Goto(label) == pc' = label
Becomes(i, status) == draft' = [draft EXCEPT !.per[i] = status]
Log(action, state) ==
  journal' = (journal \ {[action |-> action, item |-> item, state |-> "intent"]})
               \cup {[action |-> action, item |-> item, state |-> state]}
\* An intent that gets no result any more.
Abandon == journal' = {IF o.state = "intent" THEN [o EXCEPT !.state = "abandoned"] ELSE o : o \in journal}

-----------------------------------------------------------------------------
(* The agent, handle.                                                      *)

\* scanPersistence: entries that start a HIGH artifact.
Found == [i \in Items |-> IF Matches(entry[i]) THEN entry[i] ELSE None]

\* Services are only reviewed.
FirstStatus(i) ==
  CASE Found[i] = None -> "none"
    [] Found[i] # None /\ Kind[i] = "service" -> "experimental_review"
    [] OTHER -> "pending"

Scan ==
  /\ pc = "scan"
  /\ found' = Found
  /\ draft' = [NoCase EXCEPT !.art = [a \in Artifacts |-> "pending"],
                               !.per = [i \in Items |-> FirstStatus(i)]]
  /\ Goto("backup")
  /\ UNCHANGED <<saved, plan, case, world, journal, who, todo, item, failures, bounds>>

Reviewed(per, missing) ==
  [i \in Items |-> IF i \in missing /\ per[i] = "pending" THEN "review" ELSE per[i]]

\* backupPersistence: a Run value is kept as the scan read it, the others are
\* read again.
BackupPersistence ==
  /\ pc = "backup"
  /\ saved' = [i \in Items |-> IF Kind[i] = "registry_run" THEN found[i]
                               ELSE IF found[i] = None THEN None ELSE entry[i]]
  /\ LET missing == {i \in Items : found[i] # None /\ saved'[i] = None} IN
     \/ draft' = [draft EXCEPT !.per = Reviewed(@, missing)] /\ UNCHANGED faults
     \/ \E i \in Items : Kind[i] # "registry_run" /\ Fault
                         /\ draft' = [draft EXCEPT !.per = Reviewed(@, missing \cup {i})]
  /\ Goto("plan")
  /\ UNCHANGED <<found, plan, case, world, journal, who, todo, item, failures, edits, deaths>>

\* A plan that cannot be written is noted and the case goes on.
SavePlanOrNot ==
  /\ pc = "plan"
  /\ \/ plan' = TRUE /\ UNCHANGED faults
     \/ UNCHANGED plan /\ Fault
  /\ Goto("quarantine")
  /\ UNCHANGED <<found, saved, case, world, journal, who, draft, todo, item, failures, edits, deaths>>

SavePlan ==
  /\ pc = "plan"
  /\ \/ plan' = TRUE /\ Goto("quarantine") /\ UNCHANGED faults
     \/ UNCHANGED plan /\ Goto("commit") /\ Fault
  /\ UNCHANGED <<found, saved, case, world, journal, who, draft, todo, item, failures, edits, deaths>>

\* Each artifact: kept and recorded, kept without an ownership record, or
\* left where it is.
Quarantine ==
  /\ pc = "quarantine"
  /\ \E kept \in SUBSET Artifacts, status \in [Artifacts -> {"quarantined", "pending", "review"}] :
       /\ \A a \in Artifacts : IF a \in kept THEN status[a] # "review" ELSE status[a] # "quarantined"
       /\ file' = [a \in Artifacts |-> IF a \in kept THEN "kept" ELSE "there"]
       /\ draft' = [draft EXCEPT !.art = status]
  /\ todo' = {i \in Items : draft.per[i] = "pending"}
  /\ Goto("next")
  /\ UNCHANGED <<disk, entry, theirs, occupied, gone, journal, who, item, failures, bounds>>

\* artifactQuarantined: the case says so, the path is empty, the copy is good.
ArtifactQuarantined(a) == draft.art[a] = "quarantined" /\ a \notin occupied

NextRemoval ==
  /\ who = "agent" /\ pc = "next"
  /\ \/ todo = {} /\ Goto("commit") /\ UNCHANGED <<todo, item>>
     \/ \E i \in todo :
          /\ todo' = todo \ {i}
          /\ IF ArtifactQuarantined(Target[i])
             THEN item' = i /\ Goto("intent") ELSE Goto("next") /\ UNCHANGED item
  /\ UNCHANGED <<disk, world, journal, who, draft, failures, bounds>>

-----------------------------------------------------------------------------
(* runJournaled around removePersistence and restorePersistence.           *)

Action == IF who = "agent" THEN "remove_persistence" ELSE "restore_persistence"

\* The agent marks the item as failed; the command keeps its status and
\* counts a failure.
ItemFails ==
  IF who = "agent" THEN Becomes(item, "failed") /\ UNCHANGED failures
  ELSE failures' = TRUE /\ UNCHANGED draft

WriteIntent ==
  /\ pc = "intent"
  /\ \/ Log(Action, "intent") /\ Goto("check") /\ UNCHANGED <<draft, failures, item, faults>>
     \/ Fault /\ ItemFails /\ Goto("next") /\ item' = None /\ UNCHANGED journal  \* backup or intent
  /\ UNCHANGED <<disk, world, who, todo, edits, deaths>>

\* A Run value and a task must still start the target, a shortcut must be
\* the one that was found.
StillThere(i) ==
  IF Kind[i] = "startup_link" THEN entry[i] = found[i] ELSE Matches(entry[i])

\* A Run value that is back already counts as restored.
AlreadyBack(i) == Kind[i] = "registry_run" /\ entry[i] = saved[i]

Check ==
  /\ pc = "check"
  /\ IF who = "agent"
     THEN Goto(IF StillThere(item) THEN "act" ELSE "failed")
     ELSE Goto(CASE AlreadyBack(item) -> "verify" [] entry[item] = None -> "act" [] OTHER -> "failed")
  /\ UNCHANGED <<disk, world, journal, who, draft, todo, item, failures, bounds>>

\* Whatever stands there now is removed; the removal may fail, before or
\* after it has happened.
Remove ==
  /\ who = "agent" /\ pc = "act"
  /\ \/ /\ entry' = [entry EXCEPT ![item] = None]
        /\ gone' = gone \cup {item} /\ theirs' = theirs \ {item}
        /\ \/ Goto("done") /\ UNCHANGED faults
           \/ Goto("failed") /\ Fault
     \/ UNCHANGED <<entry, gone, theirs>> /\ Goto("failed") /\ Fault
  /\ UNCHANGED <<disk, file, occupied, journal, who, draft, todo, item, failures, edits, deaths>>

\* A shortcut is moved and a task registered without replacing; a Run value
\* is set whatever has come in since it was read.
PutBack ==
  /\ who = "command" /\ pc = "act"
  /\ \/ /\ Kind[item] = "registry_run" \/ entry[item] = None
        /\ entry' = [entry EXCEPT ![item] = saved[item]]
        /\ gone' = gone \ {item} /\ theirs' = theirs \ {item}
        /\ Goto("verify") /\ UNCHANGED faults
     \/ /\ Kind[item] # "registry_run" /\ entry[item] # None
        /\ Goto("failed") /\ UNCHANGED <<entry, gone, theirs, faults>>
     \/ Goto("failed") /\ Fault /\ UNCHANGED <<entry, gone, theirs>>
  /\ UNCHANGED <<disk, file, occupied, journal, who, draft, todo, item, failures, edits, deaths>>

\* persistenceRestoreObserved
Verify ==
  /\ pc = "verify"
  /\ \/ Goto(IF entry[item] = saved[item] THEN "done" ELSE "failed") /\ UNCHANGED faults
     \/ Goto("failed") /\ Fault
  /\ UNCHANGED <<disk, world, journal, who, draft, todo, item, failures, edits, deaths>>

\* The item is put back and the case in memory says nothing of it.
WriteResultOnly ==
  /\ pc \in {"done", "failed"}
  /\ Log(Action, IF pc = "done" THEN "committed" ELSE "failed")
  /\ IF pc = "failed" THEN ItemFails
     ELSE UNCHANGED failures /\ IF who = "agent" THEN Becomes(item, "removed") ELSE UNCHANGED draft
  /\ Goto("next") /\ item' = None
  /\ UNCHANGED <<disk, world, who, todo, bounds>>

WriteResult ==
  /\ pc \in {"done", "failed"}
  /\ Log(Action, IF pc = "done" THEN "committed" ELSE "failed")
  /\ IF pc = "failed" THEN ItemFails
     ELSE Becomes(item, IF who = "agent" THEN "removed" ELSE "restored") /\ UNCHANGED failures
  /\ Goto("next") /\ item' = None
  /\ UNCHANGED <<disk, world, who, todo, bounds>>

ResultFails ==
  /\ pc \in {"done", "failed"} /\ Fault
  /\ ItemFails /\ Abandon
  /\ Goto("next") /\ item' = None
  /\ UNCHANGED <<disk, world, who, todo, edits, deaths>>

-----------------------------------------------------------------------------
(* RestoreCase.                                                            *)

StartRestore ==
  /\ who = None /\ case # NoCase /\ case.status # "restored"
  /\ \A a \in Artifacts : case.art[a] # "pending"
  /\ who' = "command" /\ draft' = case /\ failures' = FALSE
  /\ todo' = {i \in Items : case.per[i] = "removed"} /\ item' = None
  /\ Goto("files")
  /\ UNCHANGED <<disk, world, journal, bounds>>

\* A file may be back without its ownership record; the next attempt then
\* finds its path taken. Entries come back when every file did.
RestoreFilesAnd(anyway) ==
  /\ pc = "files"
  /\ LET due == {a \in Artifacts : draft.art[a] = "quarantined"}
         free == {a \in due : a \notin occupied /\ file[a] = "kept"}
     IN \E back \in SUBSET free : \E recorded \in SUBSET back :
          /\ IF recorded = free THEN UNCHANGED faults ELSE Fault
          /\ file' = [a \in Artifacts |-> IF a \in back THEN "back" ELSE file[a]]
          /\ draft' = [draft EXCEPT !.art = [a \in Artifacts |-> IF a \in recorded THEN "restored" ELSE @[a]]]
          /\ failures' = (recorded # due)
          /\ Goto(IF recorded = due \/ anyway THEN "next" ELSE "commit")
  /\ UNCHANGED <<disk, entry, theirs, occupied, gone, journal, who, todo, item, edits, deaths>>

RestoreFilesAnyway == RestoreFilesAnd(TRUE)
RestoreFiles == RestoreFilesAnd(FALSE)

NextRestore ==
  /\ who = "command" /\ pc = "next"
  /\ \/ todo = {} /\ Goto("commit") /\ UNCHANGED <<todo, item>>
     \/ \E i \in todo : todo' = todo \ {i} /\ item' = i /\ Goto("intent")
  /\ UNCHANGED <<disk, world, journal, who, draft, failures, bounds>>

Status ==
  IF who = "command" THEN (IF failures THEN "partial_restore" ELSE "restored")
  ELSE "handled"

\* saveCase and commitCase; the process is done.
CommitCase ==
  /\ pc = "commit"
  /\ \/ case' = [draft EXCEPT !.status = Status] /\ UNCHANGED faults
     \/ UNCHANGED case /\ Fault
  /\ who' = None /\ Goto("ended") /\ draft' = NoCase /\ failures' = FALSE
  /\ UNCHANGED <<found, saved, plan, world, journal, todo, item, edits, deaths>>

-----------------------------------------------------------------------------
(* What happens around them.                                               *)

Die ==
  /\ who # None /\ deaths < MaxDeaths
  /\ deaths' = deaths + 1
  /\ who' = None /\ Goto("ended") /\ draft' = NoCase /\ todo' = {} /\ item' = None /\ failures' = FALSE
  /\ Abandon
  /\ UNCHANGED <<disk, world, edits, faults>>

Edit(i) ==
  /\ edits < MaxEdits
  /\ edits' = edits + 1
  /\ \E c \in (Contents \cup {None}) \ {entry[i]} :
       /\ entry' = [entry EXCEPT ![i] = c]
       /\ theirs' = IF c = None THEN theirs \ {i} ELSE theirs \cup {i}
       /\ gone' = IF c = None THEN gone ELSE gone \ {i}
  /\ UNCHANGED <<disk, file, occupied, journal, local, faults, deaths>>

Occupy(a) ==
  /\ edits < MaxEdits /\ file[a] = "kept" /\ a \notin occupied
  /\ edits' = edits + 1
  /\ occupied' = occupied \cup {a}
  /\ UNCHANGED <<disk, entry, theirs, file, gone, journal, local, faults, deaths>>

\* The user takes what is in the way away.
Clear ==
  /\ \/ \E i \in theirs : /\ entry' = [entry EXCEPT ![i] = None]
                          /\ theirs' = theirs \ {i} /\ UNCHANGED occupied
     \/ \E a \in occupied : occupied' = occupied \ {a} /\ UNCHANGED <<entry, theirs>>
  /\ UNCHANGED <<disk, file, gone, journal, local, bounds>>

Agent == Scan \/ BackupPersistence \/ SavePlan \/ Quarantine \/ NextRemoval \/ Remove
Command == RestoreFiles \/ NextRestore \/ PutBack \/ Verify
Both == WriteIntent \/ Check \/ WriteResult \/ ResultFails \/ CommitCase
Steps == Agent \/ Command \/ Both

Next == \/ Steps \/ StartRestore \/ Die \/ Clear
        \/ \E i \in Items : Edit(i)
        \/ \E a \in Artifacts : Occupy(a)

\* A process that runs goes on; the user repeats --restore-case.
Spec == Init /\ [][Next]_vars /\ WF_vars(Steps) /\ WF_vars(StartRestore)

-----------------------------------------------------------------------------

\* What InspectRecovery says of an entry: its removal or its restore has no
\* result, the plan has no case, or a committed restore is not in the case.
Finding(i) ==
  \/ \E o \in journal : o.item = i /\ o.state \in {"intent", "abandoned"}
  \/ plan /\ case = NoCase
  \/ /\ case.status # "restored" /\ case.per[i] # "restored"
     /\ [action |-> "restore_persistence", item |-> i, state |-> "committed"] \in journal

\* No entry disappears unnoticed: while no process runs, an entry that the
\* agent removed and that nobody has put back is removed or failed in the
\* case, or the next InspectRecovery tells of it (manager.go:327-396,
\* recovery.go:25-74 and 418-460).
RemovalIsTold ==
  who = None => \A i \in gone : case.per[i] \in {"removed", "failed"} \/ Finding(i)

\* The agent removes an entry only of a file it holds, and the command puts
\* an entry back only when every file of the case is back, and only over an
\* entry of nobody else; a Run value is checked first and written after that,
\* so what came in between is lost (ROUND_TRIP.md:16-20).
EntriesFollowFiles ==
  [][\A i \in Items :
       /\ Remove /\ item = i => file[Target[i]] = "kept"
       /\ PutBack /\ entry'[i] # entry[i] =>
            /\ \A a \in Artifacts : case.art[a] = "quarantined" => file[a] = "back"
            /\ entry[i] = None \/ Kind[i] = "registry_run"]_vars

InTheWay ==
  \/ occupied # {}
  \/ \E i \in theirs : case.per[i] = "removed"

\* A user who repeats the command after taking the obstacles away gets the
\* case restored: entries put back in an earlier round do not stop a later
\* one (ROUND_TRIP.md:14). Without deaths and failing writes.
RetryRestores ==
  ([](faults = 0 /\ deaths = 0) /\ <>[]~InTheWay)
    => []((case # NoCase /\ \A a \in Artifacts : case.art[a] # "pending") => <>(case.status = "restored"))
=============================================================================
