-------------------------- MODULE Persistence_proofs --------------------------
(***************************************************************************)
(* Proofs about Persistence, for any artifacts and entries. What the case    *)
(* says of an entry follows from what agent and command have in memory when  *)
(* they write it (ToldInv), and that an entry follows its file from what    *)
(* each of them has checked before it touches entries (FilesInv).            *)
(***************************************************************************)
EXTENDS Persistence, TLAPS

Statuses == {"none", "pending", "review", "experimental_review", "removed", "failed", "restored"}
CaseType == [status : {"none", "handled", "partial_restore", "restored"},
             art : [Artifacts -> {"none", "quarantined", "pending", "review", "restored"}],
             per : [Items -> Statuses]]

TypeInv ==
  /\ entry \in [Items -> Contents \cup {None}]
  /\ found \in [Items -> Contents \cup {None}] /\ saved \in [Items -> Contents \cup {None}]
  /\ file \in [Artifacts -> {"there", "kept", "back"}]
  /\ plan \in BOOLEAN /\ case \in CaseType /\ draft \in CaseType
  /\ gone \subseteq Items /\ todo \subseteq Items /\ item \in Items \cup {None}

Working == {"intent", "check", "act", "verify", "done", "failed"}

\* Where each process can be; an entry is at hand exactly while one is worked on.
ControlInv ==
  /\ who \in {"agent", "command", None}
  /\ who = "agent" => pc \in {"scan", "backup", "plan", "quarantine", "next", "commit"} \cup (Working \ {"verify"})
  /\ who = "command" => pc \in {"files", "next", "commit"} \cup Working
  /\ who = None => pc = "ended"
  /\ item # None <=> pc \in Working
  /\ pc \in {"scan", "backup", "plan"} => todo = {}

\* The agent writes the first case; an entry is removed after the plan.
PlanInv ==
  /\ who = "agent" => case = NoCase
  /\ who = "command" => case # NoCase
  /\ who = "agent" /\ pc \notin {"scan", "backup", "plan", "commit"} => plan
  /\ gone # {} => plan
  /\ who = "agent" /\ pc \in {"scan", "backup", "plan"} => gone = {}
  /\ \A i \in gone : entry[i] = None

\* What is to be removed or was removed has its evidence saved.
SavedInv ==
  /\ pc = "backup" => \A i \in Items : draft.per[i] = "pending" => found[i] # None
  /\ pc \in {"scan", "backup"} => \A i \in Items : draft.per[i] # "removed"
  /\ pc \notin {"scan", "backup"} => \A i \in Items : draft.per[i] \in {"pending", "removed"} => saved[i] # None
  /\ \A i \in Items : case.per[i] \in {"pending", "removed"} => saved[i] # None
  /\ \A i \in todo \cup {item} : i # None => saved[i] # None

\* Who knows of an entry that the agent removed.
ToldInv ==
  /\ case = NoCase \/ \A i \in gone : case.per[i] \in {"removed", "failed"}
  /\ who = "agent" =>
       \A i \in gone : draft.per[i] \in {"removed", "failed"} \/ (item = i /\ pc \in {"done", "failed"})
  /\ who = "command" => \A i \in gone : draft.per[i] \in {"removed", "failed"}
  /\ who = "command" /\ pc = "done" => item \notin gone

\* What each process has seen of the files before it touches entries.
FilesInv ==
  /\ who = "agent" =>
       /\ \A a \in Artifacts : draft.art[a] = "quarantined" => file[a] = "kept"
       /\ item # None => draft.art[Target[item]] = "quarantined"
  /\ who = "command" /\ pc = "files" => draft = case
  /\ who = "command" /\ pc \in {"next"} \cup Working =>
       \A a \in Artifacts : case.art[a] = "quarantined" => file[a] = "back"

IInv == TypeInv /\ ControlInv /\ PlanInv /\ SavedInv /\ ToldInv /\ FilesInv

-------------------------------------------------------------------------------
LEMMA NoCaseTyped ==
  /\ NoCase \in CaseType
  /\ \A i \in Items : NoCase.per[i] = "none"
  /\ \A a \in Artifacts : NoCase.art[a] = "none"
BY DEF NoCase, CaseType, Statuses

LEMMA InitInv == Init => IInv
<1> SUFFICES ASSUME Init PROVE IInv
  OBVIOUS
<1> USE PersistenceAssumption, NoCaseTyped
<1>1. TypeInv
  BY DEF Init, TypeInv, Contents
<1>2. ControlInv
  BY DEF Init, ControlInv, Working
<1>3. PlanInv
  BY DEF Init, PlanInv
<1>4. SavedInv
  BY DEF Init, SavedInv
<1>5. ToldInv
  BY DEF Init, ToldInv
<1>6. FilesInv
  BY DEF Init, FilesInv
<1> QED BY <1>1, <1>2, <1>3, <1>4, <1>5, <1>6 DEF IInv

\* A status in the case in memory changes for one entry.
LEMMA BecomesOne ==
  ASSUME draft \in CaseType, NEW i \in Items, NEW s \in Statuses, Becomes(i, s)
  PROVE  /\ draft' \in CaseType /\ draft'.art = draft.art
         /\ draft'.per[i] = s
         /\ \A j \in Items \ {i} : draft'.per[j] = draft.per[j]
BY DEF Becomes, CaseType

\* What the steps that end the work on an entry leave in memory.
WorkStep == WriteIntent \/ WriteResult \/ ResultFails

Concluded ==
  /\ draft' \in CaseType /\ draft'.art = draft.art
  /\ \A j \in Items \ {item} : draft'.per[j] = draft.per[j]
  /\ \/ draft' = draft
     \/ who = "agent" /\ draft'.per[item] \in {"removed", "failed"}
     \/ who = "command" /\ pc = "done" /\ draft'.per[item] = "restored"

LEMMA AtHand ==
  ASSUME TypeInv, ControlInv, pc \in Working
  PROVE  item \in Items /\ who \in {"agent", "command"}
BY PersistenceAssumption DEF TypeInv, ControlInv, Working

LEMMA WorkConcludes ==
  ASSUME TypeInv, ControlInv, WorkStep
  PROVE  /\ pc \in {"intent", "done", "failed"} /\ item \in Items /\ Concluded
         /\ \/ pc = "intent" /\ pc' = "check" /\ item' = item /\ draft' = draft
            \/ /\ pc' = "next" /\ item' = None
               /\ who = "agent" => draft'.per[item] \in {"removed", "failed"}
         /\ UNCHANGED <<disk, world, who, todo>>
<1>1. pc \in {"intent", "done", "failed"}
  BY DEF WorkStep, WriteIntent, WriteResult, ResultFails
<1>2. item \in Items /\ who \in {"agent", "command"}
  BY <1>1, AtHand DEF Working
<1>3. draft \in CaseType
  BY DEF TypeInv
<1>4. ASSUME Becomes(item, "failed"), who = "agent"
      PROVE  Concluded /\ draft'.per[item] = "failed"
  BY <1>2, <1>3, <1>4, BecomesOne DEF Concluded, Statuses
<1>5. ASSUME Becomes(item, "removed"), who = "agent"
      PROVE  Concluded /\ draft'.per[item] = "removed"
  BY <1>2, <1>3, <1>5, BecomesOne DEF Concluded, Statuses
<1>6. ASSUME Becomes(item, "restored"), who = "command", pc = "done"
      PROVE  Concluded
  BY <1>2, <1>3, <1>6, BecomesOne DEF Concluded, Statuses
<1>7. ASSUME UNCHANGED draft PROVE Concluded
  BY <1>3, <1>7 DEF Concluded
<1>8. CASE WriteIntent
  <2>1. CASE pc' = "check" /\ UNCHANGED <<draft, failures, item, faults>>
    BY <1>1, <1>2, <1>7, <1>8, <2>1 DEF WriteIntent
  <2>2. CASE ItemFails /\ pc' = "next" /\ item' = None
    BY <1>1, <1>2, <1>4, <1>7, <1>8, <2>2 DEF WriteIntent, ItemFails
  <2> QED BY <1>8, <2>1, <2>2 DEF WriteIntent, Goto
<1>9. CASE WriteResult
  <2>1. CASE pc = "failed"
    BY <1>1, <1>2, <1>4, <1>7, <1>9, <2>1 DEF WriteResult, ItemFails, Goto
  <2>2. CASE pc = "done"
    BY <1>1, <1>2, <1>5, <1>6, <1>9, <2>2 DEF WriteResult, Goto
  <2> QED BY <1>9, <2>1, <2>2 DEF WriteResult
<1>10. CASE ResultFails
  BY <1>1, <1>2, <1>4, <1>7, <1>10 DEF ResultFails, ItemFails, Goto
<1> QED BY <1>8, <1>9, <1>10 DEF WorkStep

-------------------------------------------------------------------------------
(* Steps. *)

LEMMA ControlNext == ASSUME TypeInv, ControlInv, Next PROVE ControlInv'
<1> USE PersistenceAssumption
<1>1. CASE Scan
  BY <1>1 DEF Scan, Goto, ControlInv, Working
<1>2. CASE BackupPersistence
  BY <1>2 DEF BackupPersistence, Goto, ControlInv, Working
<1>3. CASE SavePlan
  BY <1>3 DEF SavePlan, Goto, ControlInv, Working
<1>4. CASE Quarantine
  BY <1>4 DEF Quarantine, Goto, ControlInv, Working
<1>5. CASE NextRemoval
  BY <1>5 DEF NextRemoval, Goto, ControlInv, TypeInv, Working
<1>6. CASE Remove
  BY <1>6 DEF Remove, Goto, ControlInv, Working
<1>7. CASE RestoreFiles
  BY <1>7 DEF RestoreFiles, RestoreFilesAnd, Goto, ControlInv, Working
<1>8. CASE NextRestore
  BY <1>8 DEF NextRestore, Goto, ControlInv, TypeInv, Working
<1>9. CASE PutBack
  BY <1>9 DEF PutBack, Goto, ControlInv, Working
<1>10. CASE Verify
  BY <1>10 DEF Verify, Goto, ControlInv, Working
<1>11. CASE WorkStep
  BY <1>11, WorkConcludes DEF ControlInv, Concluded, Working
<1>12. CASE Check
  BY <1>12 DEF Check, Goto, ControlInv, Working
<1>13. CASE CommitCase
  BY <1>13 DEF CommitCase, Goto, ControlInv, Working
<1>14. CASE StartRestore
  BY <1>14 DEF StartRestore, Goto, ControlInv, Working
<1>15. CASE Die
  BY <1>15 DEF Die, Goto, ControlInv, Working
<1>16. CASE Clear
  BY <1>16 DEF Clear, ControlInv, local
<1>17. ASSUME NEW i \in Items, Edit(i) PROVE ControlInv'
  BY <1>17 DEF Edit, ControlInv, local
<1>18. ASSUME NEW a \in Artifacts, Occupy(a) PROVE ControlInv'
  BY <1>18 DEF Occupy, ControlInv, local
<1> QED BY <1>1, <1>2, <1>3, <1>4, <1>5, <1>6, <1>7, <1>8, <1>9, <1>10, <1>11, <1>12, <1>13, <1>14, <1>15, <1>16, <1>17, <1>18 DEF Next, Steps, Agent, Command, Both, WorkStep

LEMMA TypeNext == ASSUME TypeInv, ControlInv, Next PROVE TypeInv'
<1> USE PersistenceAssumption
<1>1. CASE Scan
  <2>1. /\ draft' = [NoCase EXCEPT !.art = [a \in Artifacts |-> "pending"],
                              !.per = [i \in Items |-> FirstStatus(i)]]
        /\ found' = Found /\ UNCHANGED <<saved, plan, case, world, todo, item>>
    BY <1>1 DEF Scan
  <2>2. Found \in [Items -> Contents \cup {None}]
    BY DEF Found, Matches, Contents
  <2>3. \A i \in Items : FirstStatus(i) \in Statuses
    BY DEF FirstStatus, Statuses
  <2>4. draft' \in CaseType
    BY <2>1, <2>3, NoCaseTyped DEF CaseType
  <2> QED BY <2>1, <2>2, <2>4 DEF TypeInv, world
<1>2. CASE BackupPersistence
  <2>1. \E missing \in SUBSET Items : draft' = [draft EXCEPT !.per = Reviewed(@, missing)]
    <3> DEFINE missing == {i \in Items : found[i] # None /\ saved'[i] = None}
    <3>1. CASE draft' = [draft EXCEPT !.per = Reviewed(@, missing)]
      BY <3>1
    <3>2. CASE \E i \in Items : draft' = [draft EXCEPT !.per = Reviewed(@, missing \cup {i})]
      <4>1. PICK i \in Items : draft' = [draft EXCEPT !.per = Reviewed(@, missing \cup {i})]
        BY <3>2
      <4>2. missing \cup {i} \in SUBSET Items
        OBVIOUS
      <4> HIDE DEF missing
      <4> QED BY <4>1, <4>2
    <3> QED BY <1>2, <3>1, <3>2 DEF BackupPersistence
  <2>2. PICK missing \in SUBSET Items : draft' = [draft EXCEPT !.per = Reviewed(@, missing)]
    BY <2>1
  <2>3. Reviewed(draft.per, missing) \in [Items -> Statuses]
    BY DEF TypeInv, CaseType, Reviewed, Statuses
  <2>4. draft' \in CaseType
    BY <2>2, <2>3 DEF TypeInv, CaseType
  <2>5. saved' \in [Items -> Contents \cup {None}]
    BY <1>2 DEF BackupPersistence, TypeInv
  <2> QED BY <1>2, <2>4, <2>5 DEF BackupPersistence, TypeInv, world
<1>3. CASE SavePlan
  BY <1>3 DEF SavePlan, TypeInv, world
<1>4. CASE Quarantine
  <2>1. PICK kept \in SUBSET Artifacts, status \in [Artifacts -> {"quarantined", "pending", "review"}] :
          /\ file' = [a \in Artifacts |-> IF a \in kept THEN "kept" ELSE "there"]
          /\ draft' = [draft EXCEPT !.art = status]
    BY <1>4 DEF Quarantine
  <2>2. draft' \in CaseType
    BY <2>1 DEF TypeInv, CaseType
  <2>3. file' \in [Artifacts -> {"there", "kept", "back"}] /\ todo' \subseteq Items
    BY <1>4, <2>1 DEF Quarantine
  <2> QED BY <1>4, <2>2, <2>3 DEF Quarantine, TypeInv, disk
<1>5. CASE NextRemoval
  BY <1>5 DEF NextRemoval, TypeInv, disk, world
<1>6. CASE Remove
  BY <1>6 DEF Remove, TypeInv, ControlInv, disk
<1>7. CASE RestoreFiles
  <2>1. PICK back \in SUBSET Artifacts, recorded \in SUBSET Artifacts :
          /\ file' = [a \in Artifacts |-> IF a \in back THEN "back" ELSE file[a]]
          /\ draft' = [draft EXCEPT !.art = [a \in Artifacts |-> IF a \in recorded THEN "restored" ELSE @[a]]]
    <3> DEFINE due == {a \in Artifacts : draft.art[a] = "quarantined"}
               free == {a \in due : a \notin occupied /\ file[a] = "kept"}
    <3>1. PICK back \in SUBSET free : \E recorded \in SUBSET back :
            /\ file' = [a \in Artifacts |-> IF a \in back THEN "back" ELSE file[a]]
            /\ draft' = [draft EXCEPT !.art = [a \in Artifacts |-> IF a \in recorded THEN "restored" ELSE @[a]]]
      BY <1>7 DEF RestoreFiles, RestoreFilesAnd
    <3>2. PICK recorded \in SUBSET back :
            draft' = [draft EXCEPT !.art = [a \in Artifacts |-> IF a \in recorded THEN "restored" ELSE @[a]]]
      BY <3>1
    <3>3. back \in SUBSET Artifacts /\ recorded \in SUBSET Artifacts
      BY <3>1, <3>2
    <3>4. file' = [a \in Artifacts |-> IF a \in back THEN "back" ELSE file[a]]
      BY <3>1
    <3> HIDE DEF free
    <3> QED BY <3>2, <3>3, <3>4, Zenon
  <2>2. draft' \in CaseType
    BY <2>1 DEF TypeInv, CaseType
  <2>3. file' \in [Artifacts -> {"there", "kept", "back"}]
    BY <2>1 DEF TypeInv
  <2> QED BY <1>7, <2>2, <2>3 DEF RestoreFiles, RestoreFilesAnd, TypeInv, disk
<1>8. CASE NextRestore
  BY <1>8 DEF NextRestore, TypeInv, disk, world
<1>9. CASE PutBack
  BY <1>9 DEF PutBack, TypeInv, disk
<1>10. CASE Verify
  BY <1>10 DEF Verify, TypeInv, disk, world
<1>11. CASE WorkStep
  BY <1>11, WorkConcludes DEF TypeInv, Concluded, disk, world
<1>12. CASE Check
  BY <1>12 DEF Check, TypeInv, disk, world
<1>13. CASE CommitCase
  <2>1. Status \in {"none", "handled", "partial_restore", "restored"}
    BY DEF Status
  <2>2. [draft EXCEPT !.status = Status] \in CaseType
    BY <2>1 DEF TypeInv, CaseType
  <2>3. case' \in CaseType /\ draft' \in CaseType
    BY <1>13, <2>2, NoCaseTyped DEF CommitCase, TypeInv
  <2> QED BY <1>13, <2>3 DEF CommitCase, TypeInv, world
<1>14. CASE StartRestore
  BY <1>14 DEF StartRestore, TypeInv, disk, world
<1>15. CASE Die
  BY <1>15, NoCaseTyped DEF Die, TypeInv, disk, world
<1>16. CASE Clear
  BY <1>16 DEF Clear, TypeInv, disk, local
<1>17. ASSUME NEW i \in Items, Edit(i) PROVE TypeInv'
  BY <1>17 DEF Edit, TypeInv, disk, local
<1>18. ASSUME NEW a \in Artifacts, Occupy(a) PROVE TypeInv'
  BY <1>18 DEF Occupy, TypeInv, disk, local
<1> QED BY <1>1, <1>2, <1>3, <1>4, <1>5, <1>6, <1>7, <1>8, <1>9, <1>10, <1>11, <1>12, <1>13, <1>14, <1>15, <1>16, <1>17, <1>18 DEF Next, Steps, Agent, Command, Both, WorkStep

LEMMA PlanNext == ASSUME TypeInv, ControlInv, PlanInv, Next PROVE PlanInv'
<1> USE PersistenceAssumption
<1>1. CASE Scan
  BY <1>1 DEF Scan, Goto, PlanInv, world
<1>2. CASE BackupPersistence
  BY <1>2 DEF BackupPersistence, Goto, PlanInv, world
<1>3. CASE SavePlan
  BY <1>3 DEF SavePlan, Goto, PlanInv, world
<1>4. CASE Quarantine
  BY <1>4 DEF Quarantine, Goto, PlanInv, disk
<1>5. CASE NextRemoval
  BY <1>5 DEF NextRemoval, Goto, PlanInv, disk, world
<1>6. CASE Remove
  BY <1>6 DEF Remove, Goto, PlanInv, TypeInv, ControlInv, disk
<1>7. CASE RestoreFiles
  BY <1>7 DEF RestoreFiles, RestoreFilesAnd, Goto, PlanInv, disk
<1>8. CASE NextRestore
  BY <1>8 DEF NextRestore, PlanInv, disk, world
<1>9. CASE PutBack
  BY <1>9 DEF PutBack, PlanInv, TypeInv, disk
<1>10. CASE Verify
  BY <1>10 DEF Verify, Goto, PlanInv, disk, world
<1>11. CASE WorkStep
  BY <1>11, WorkConcludes DEF PlanInv, Concluded, disk, world
<1>12. CASE Check
  BY <1>12 DEF Check, Goto, PlanInv, disk, world
<1>13. CASE CommitCase
  BY <1>13 DEF CommitCase, PlanInv, world
<1>14. CASE StartRestore
  BY <1>14 DEF StartRestore, PlanInv, disk, world
<1>15. CASE Die
  BY <1>15 DEF Die, PlanInv, disk, world
<1>16. CASE Clear
  BY <1>16 DEF Clear, PlanInv, TypeInv, disk, local
<1>17. ASSUME NEW i \in Items, Edit(i) PROVE PlanInv'
  BY <1>17 DEF Edit, PlanInv, disk, local
<1>18. ASSUME NEW a \in Artifacts, Occupy(a) PROVE PlanInv'
  BY <1>18 DEF Occupy, PlanInv, disk, local
<1> QED BY <1>1, <1>2, <1>3, <1>4, <1>5, <1>6, <1>7, <1>8, <1>9, <1>10, <1>11, <1>12, <1>13, <1>14, <1>15, <1>16, <1>17, <1>18 DEF Next, Steps, Agent, Command, Both, WorkStep

LEMMA SavedNext == ASSUME TypeInv, ControlInv, PlanInv, SavedInv, Next PROVE SavedInv'
<1> USE PersistenceAssumption
<1>1. CASE Scan
  <2>1. /\ draft' = [NoCase EXCEPT !.art = [a \in Artifacts |-> "pending"],
                              !.per = [i \in Items |-> FirstStatus(i)]]
        /\ found' = Found /\ pc = "scan" /\ pc' = "backup" /\ UNCHANGED <<saved, case, todo, item>>
    BY <1>1 DEF Scan, Goto
  <2>2. \A i \in Items : draft'.per[i] = FirstStatus(i)
    BY <2>1, NoCaseTyped DEF CaseType
  <2>3. \A i \in Items : FirstStatus(i) # "removed" /\ (FirstStatus(i) = "pending" => Found[i] # None)
    BY DEF FirstStatus
  <2> QED BY <2>1, <2>2, <2>3 DEF SavedInv
<1>2. CASE BackupPersistence
  <2> DEFINE missing == {i \in Items : found[i] # None /\ saved'[i] = None}
  <2>1. pc = "backup" /\ pc' = "plan" /\ who = "agent" /\ todo = {} /\ item = None
        /\ UNCHANGED <<case, todo, item>>
    BY <1>2 DEF BackupPersistence, Goto, ControlInv, Working
  <2>2. PICK more \in SUBSET Items : draft' = [draft EXCEPT !.per = Reviewed(@, missing \cup more)]
    <3>1. CASE draft' = [draft EXCEPT !.per = Reviewed(@, missing)]
      <4>1. missing \cup {} = missing /\ {} \in SUBSET Items
        OBVIOUS
      <4> HIDE DEF missing
      <4> QED BY <3>1, <4>1
    <3>2. CASE \E i \in Items : draft' = [draft EXCEPT !.per = Reviewed(@, missing \cup {i})]
      <4>1. PICK i \in Items : draft' = [draft EXCEPT !.per = Reviewed(@, missing \cup {i})]
        BY <3>2
      <4>2. {i} \in SUBSET Items
        OBVIOUS
      <4> HIDE DEF missing
      <4> QED BY <4>1, <4>2
    <3> QED BY <1>2, <3>1, <3>2 DEF BackupPersistence
  <2>3. draft'.per = Reviewed(draft.per, missing \cup more)
    <3> HIDE DEF missing
    <3> QED BY <2>2 DEF TypeInv, CaseType
  <2>4. \A i \in Items : draft'.per[i] \in {"pending", "removed"} => saved'[i] # None
    BY <2>1, <2>3 DEF Reviewed, SavedInv
  <2>5. case.per = NoCase.per
    BY <2>1 DEF PlanInv
  <2> HIDE DEF missing
  <2>6. \A i \in Items : case'.per[i] = "none"
    BY <2>1, <2>5, NoCaseTyped
  <2> QED BY <2>1, <2>4, <2>6 DEF SavedInv
<1>3. CASE SavePlan
  BY <1>3 DEF SavePlan, Goto, SavedInv
<1>4. CASE Quarantine
  BY <1>4 DEF Quarantine, Goto, SavedInv, disk
<1>5. CASE NextRemoval
  BY <1>5 DEF NextRemoval, Goto, SavedInv, disk
<1>6. CASE Remove
  BY <1>6 DEF Remove, Goto, SavedInv, disk
<1>7. CASE RestoreFiles
  BY <1>7 DEF RestoreFiles, RestoreFilesAnd, Goto, SavedInv, disk
<1>8. CASE NextRestore
  BY <1>8 DEF NextRestore, Goto, SavedInv, disk
<1>9. CASE PutBack
  BY <1>9 DEF PutBack, Goto, SavedInv, disk
<1>10. CASE Verify
  BY <1>10 DEF Verify, Goto, SavedInv, disk
<1>11. CASE WorkStep
  BY <1>11, WorkConcludes DEF SavedInv, Concluded, disk
<1>12. CASE Check
  BY <1>12 DEF Check, Goto, SavedInv, disk
<1>13. CASE CommitCase
  <2>1. pc = "commit" /\ pc' = "ended" /\ draft' = NoCase /\ UNCHANGED <<saved, todo, item>>
    BY <1>13 DEF CommitCase, Goto
  <2>2. case' = case \/ case'.per = draft.per
    BY <1>13 DEF CommitCase, TypeInv, CaseType
  <2>3. \A i \in Items : case'.per[i] \in {"pending", "removed"} => saved'[i] # None
    BY <2>1, <2>2 DEF SavedInv
  <2> QED BY <2>1, <2>3, NoCaseTyped DEF SavedInv
<1>14. CASE StartRestore
  BY <1>14 DEF StartRestore, Goto, SavedInv, disk
<1>15. CASE Die
  <2>1. pc' = "ended" /\ draft' = NoCase /\ todo' = {} /\ item' = None /\ UNCHANGED <<saved, case>>
    BY <1>15 DEF Die, Goto, disk
  <2> QED BY <2>1, NoCaseTyped DEF SavedInv
<1>16. CASE Clear
  BY <1>16 DEF Clear, SavedInv, disk, local
<1>17. ASSUME NEW i \in Items, Edit(i) PROVE SavedInv'
  BY <1>17 DEF Edit, SavedInv, disk, local
<1>18. ASSUME NEW a \in Artifacts, Occupy(a) PROVE SavedInv'
  BY <1>18 DEF Occupy, SavedInv, disk, local
<1> QED BY <1>1, <1>2, <1>3, <1>4, <1>5, <1>6, <1>7, <1>8, <1>9, <1>10, <1>11, <1>12, <1>13, <1>14, <1>15, <1>16, <1>17, <1>18 DEF Next, Steps, Agent, Command, Both, WorkStep

LEMMA ToldNext == ASSUME TypeInv, ControlInv, PlanInv, SavedInv, ToldInv, Next PROVE ToldInv'
<1> USE PersistenceAssumption
<1>1. CASE Scan
  BY <1>1 DEF Scan, ToldInv, ControlInv, Working, PlanInv, world
<1>2. CASE BackupPersistence
  BY <1>2 DEF BackupPersistence, ToldInv, ControlInv, Working, PlanInv, world
<1>3. CASE SavePlan
  BY <1>3 DEF SavePlan, Goto, ToldInv, world
<1>4. CASE Quarantine
  BY <1>4 DEF Quarantine, Goto, ToldInv, disk
<1>5. CASE NextRemoval
  BY <1>5 DEF NextRemoval, ToldInv, disk, world
<1>6. CASE Remove
  BY <1>6 DEF Remove, Goto, ToldInv, PlanInv, disk
<1>7. CASE RestoreFiles
  BY <1>7 DEF RestoreFiles, RestoreFilesAnd, Goto, ToldInv, disk
<1>8. CASE NextRestore
  BY <1>8 DEF NextRestore, Goto, ToldInv, disk, world
<1>9. CASE PutBack
  BY <1>9 DEF PutBack, Goto, ToldInv, disk
<1>10. CASE Verify
  <2>1. item \in Items /\ saved[item] # None
    BY <1>10, AtHand DEF Verify, Working, SavedInv
  <2> QED BY <1>10, <2>1 DEF Verify, Goto, ToldInv, PlanInv, disk, world
<1>11. CASE WorkStep
  BY <1>11, WorkConcludes DEF ToldInv, Concluded, TypeInv, disk, world
<1>12. CASE Check
  BY <1>12 DEF Check, Goto, ToldInv, disk, world
<1>13. CASE CommitCase
  <2>1. pc = "commit" /\ who \in {"agent", "command"} /\ who' = None /\ UNCHANGED gone
    BY <1>13 DEF CommitCase, ControlInv, world
  <2>2. case' = case \/ case'.per = draft.per
    BY <1>13 DEF CommitCase, TypeInv, CaseType
  <2>3. \A i \in gone : draft.per[i] \in {"removed", "failed"}
    BY <2>1 DEF ToldInv
  <2> QED BY <2>1, <2>2, <2>3 DEF ToldInv
<1>14. CASE StartRestore
  BY <1>14 DEF StartRestore, Goto, ToldInv, disk, world
<1>15. CASE Die
  BY <1>15 DEF Die, ToldInv, disk, world
<1>16. CASE Clear
  BY <1>16 DEF Clear, ToldInv, disk, local
<1>17. ASSUME NEW i \in Items, Edit(i) PROVE ToldInv'
  BY <1>17 DEF Edit, ToldInv, disk, local
<1>18. ASSUME NEW a \in Artifacts, Occupy(a) PROVE ToldInv'
  BY <1>18 DEF Occupy, ToldInv, disk, local
<1> QED BY <1>1, <1>2, <1>3, <1>4, <1>5, <1>6, <1>7, <1>8, <1>9, <1>10, <1>11, <1>12, <1>13, <1>14, <1>15, <1>16, <1>17, <1>18 DEF Next, Steps, Agent, Command, Both, WorkStep

LEMMA FilesNext == ASSUME TypeInv, ControlInv, PlanInv, FilesInv, Next PROVE FilesInv'
<1> USE PersistenceAssumption
<1>1. CASE Scan
  BY <1>1 DEF Scan, FilesInv, ControlInv, Working
<1>2. CASE BackupPersistence
  <2>1. draft'.art = draft.art
    BY <1>2 DEF BackupPersistence, TypeInv, CaseType
  <2> QED BY <1>2, <2>1 DEF BackupPersistence, Goto, FilesInv, Working, world
<1>3. CASE SavePlan
  BY <1>3 DEF SavePlan, Goto, FilesInv, Working, world
<1>4. CASE Quarantine
  BY <1>4 DEF Quarantine, FilesInv, ControlInv, Working
<1>5. CASE NextRemoval
  BY <1>5 DEF NextRemoval, ArtifactQuarantined, FilesInv, world
<1>6. CASE Remove
  BY <1>6 DEF Remove, FilesInv
<1>7. CASE RestoreFiles
  BY <1>7 DEF RestoreFiles, RestoreFilesAnd, Goto, FilesInv, ControlInv, Working, disk
<1>8. CASE NextRestore
  BY <1>8 DEF NextRestore, Goto, FilesInv, disk, world
<1>9. CASE PutBack
  BY <1>9 DEF PutBack, Goto, FilesInv, Working, disk
<1>10. CASE Verify
  BY <1>10 DEF Verify, Goto, FilesInv, Working, disk, world
<1>11. CASE WorkStep
  BY <1>11, WorkConcludes DEF FilesInv, Concluded, Working, disk, world
<1>12. CASE Check
  BY <1>12 DEF Check, Goto, FilesInv, Working, disk, world
<1>13. CASE CommitCase
  BY <1>13 DEF CommitCase, FilesInv
<1>14. CASE StartRestore
  BY <1>14 DEF StartRestore, Goto, FilesInv, Working, disk
<1>15. CASE Die
  BY <1>15 DEF Die, FilesInv
<1>16. CASE Clear
  BY <1>16 DEF Clear, FilesInv, disk, local
<1>17. ASSUME NEW i \in Items, Edit(i) PROVE FilesInv'
  BY <1>17 DEF Edit, FilesInv, disk, local
<1>18. ASSUME NEW a \in Artifacts, Occupy(a) PROVE FilesInv'
  BY <1>18 DEF Occupy, FilesInv, disk, local
<1> QED BY <1>1, <1>2, <1>3, <1>4, <1>5, <1>6, <1>7, <1>8, <1>9, <1>10, <1>11, <1>12, <1>13, <1>14, <1>15, <1>16, <1>17, <1>18 DEF Next, Steps, Agent, Command, Both, WorkStep

LEMMA StutterInv == IInv /\ UNCHANGED vars => IInv'
BY DEF IInv, vars, disk, world, local, TypeInv, ControlInv, PlanInv, SavedInv, ToldInv, FilesInv

\* Every reachable state satisfies the invariant: what agent and command have
\* in memory, what the case on disk says and what they have seen of the files
\* agree as handle and RestoreCase need it (manager.go:327-396,
\* restore.go:71-167).
THEOREM Inductive == Spec => []IInv
<1>1. Init => IInv
  BY InitInv
<1>2. IInv /\ [Next]_vars => IInv'
  <2>1. ASSUME IInv, Next PROVE IInv'
    BY <2>1, TypeNext, ControlNext, PlanNext, SavedNext, ToldNext, FilesNext DEF IInv
  <2> QED BY <2>1, StutterInv
<1> QED BY <1>1, <1>2, PTL DEF Spec

\* Whatever other programs edit, whichever writes fail and whenever agent or
\* command die, an entry that the agent removed and nobody put back is told
\* of, by the case or by InspectRecovery (manager.go:327-396,
\* recovery.go:25-74 and 418-460).
THEOREM RemovalsAreTold == Spec => []RemovalIsTold
<1>1. IInv => RemovalIsTold
  <2> SUFFICES ASSUME IInv, who = None, NEW i \in gone
               PROVE  case.per[i] \in {"removed", "failed"} \/ Finding(i)
    BY DEF RemovalIsTold
  <2>1. CASE case = NoCase
    BY <2>1 DEF IInv, PlanInv, Finding
  <2>2. CASE case # NoCase
    BY <2>2 DEF IInv, ToldInv
  <2> QED BY <2>1, <2>2
<1> QED BY <1>1, Inductive, PTL

\* The agent removes entries of files it holds and no others; the command
\* touches an entry when every file of the case is back (ROUND_TRIP.md:16-20).
THEOREM EntriesAreOrdered == Spec => EntriesFollowFiles
<1>1. IInv /\ Next =>
        \A i \in Items :
          /\ Remove /\ item = i => file[Target[i]] = "kept"
          /\ PutBack /\ entry'[i] # entry[i] =>
               /\ \A a \in Artifacts : case.art[a] = "quarantined" => file[a] = "back"
               /\ entry[i] = None \/ Kind[i] = "registry_run"
  <2> SUFFICES ASSUME IInv, NEW i \in Items
               PROVE  /\ Remove /\ item = i => file[Target[i]] = "kept"
                      /\ PutBack /\ entry'[i] # entry[i] =>
                           /\ \A a \in Artifacts : case.art[a] = "quarantined" => file[a] = "back"
                           /\ entry[i] = None \/ Kind[i] = "registry_run"
    OBVIOUS
  <2> USE PersistenceAssumption
  <2>1. ASSUME Remove, item = i PROVE file[Target[i]] = "kept"
    BY <2>1 DEF Remove, IInv, FilesInv
  <2>2. ASSUME PutBack, entry'[i] # entry[i]
        PROVE  /\ \A a \in Artifacts : case.art[a] = "quarantined" => file[a] = "back"
               /\ entry[i] = None \/ Kind[i] = "registry_run"
    <3>1. who = "command" /\ pc = "act" /\ item = i
      BY <2>2 DEF PutBack, IInv, TypeInv
    <3>2. entry[i] = None \/ Kind[i] = "registry_run"
      BY <2>2, <3>1 DEF PutBack
    <3> QED BY <3>1, <3>2 DEF IInv, FilesInv, Working
  <2> QED BY <2>1, <2>2
<1> QED BY <1>1, Inductive, PTL DEF Spec, EntriesFollowFiles

===============================================================================
