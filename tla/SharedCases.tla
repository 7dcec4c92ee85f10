------------------------------ MODULE SharedCases ------------------------------
(***************************************************************************)
(* Cases that share quarantined files: the agent (process "core") links a  *)
(* new case to the artifacts of the case that quarantined them, and the    *)
(* command --restore-case (process "restore") releases a linked case or    *)
(* restores the owner's files.  Both read an artifact's record, journal an *)
(* intent, write the record back and journal the result, with no lock      *)
(* between the two processes; either may die anywhere, a write may fail,   *)
(* and someone else may put a file where a quarantined one was.            *)
(*                                                                         *)
(* It starts where module Quarantine ends: the owner's case is saved, its  *)
(* files are gone from their paths and its records name it alone.          *)
(***************************************************************************)
EXTENDS Naturals, Sequences

CONSTANTS
  Owner,        \* the case that quarantined the artifacts
  Linked,       \* cases whose hits carry the quarantined FileID
  Artifacts,    \* the owner's artifacts, in the order of its case file
  Overlap,      \* the command may run while the agent runs
  MaxCrashes, MaxFaults, MaxForeign,  \* bounds on deaths, failed writes, foreign files
  NoCase, NoDoc

ASSUME SharingAssumption ==
  /\ Owner \notin Linked /\ NoCase \notin Linked \union {Owner}
  /\ Artifacts \in Seq(STRING) /\ Len(Artifacts) > 0
  /\ Overlap \in BOOLEAN
  /\ MaxCrashes \in Nat /\ MaxFaults \in Nat /\ MaxForeign \in Nat

Cases == Linked \union {Owner}
Places == 1 .. Len(Artifacts)
Names == {Artifacts[i] : i \in Places}
Image == Artifacts[1]      \* the path of the hits
Procs == {"core", "restore"}
Operations == {"link_reference", "release_reference", "restore_file", "restore_ownership",
               "case_commit"}

VARIABLES
  record,       \* ArtifactRecord: references (CaseIDs) and status
  path,         \* at each artifact's path: nothing, the restored file, a foreign one
  doc,          \* the case files
  lost,         \* journal: operations whose result was never written
  committed,    \* journal: operations with a "committed" result
  up, blocked,  \* the agent runs; recoveryBlocked has the image path
  taken,        \* linked cases the agent has begun
  proc,         \* what each process is doing
  crashes, faults, foreign

disk == <<record, path, doc>>
journal == <<lost, committed>>
agent == <<up, blocked, taken>>
trouble == <<crashes, faults, foreign>>
vars == <<disk, journal, agent, proc, trouble>>

\* A process: the case it works on, its operation and stage, the places of the
\* artifacts left, the case as it will be saved, the record it read, and whether
\* a restore failed.
Whole == [cases |-> {Owner}, status |-> "quarantined"]
Idle == [case |-> NoCase, op |-> "none", stage |-> "none", todo |-> {},
         snap |-> NoDoc, rec |-> Whole, failed |-> FALSE]

\* A case file: its state ("open" for every one RestoreCase works on) and its artifacts.
Docs == [state : {"open", "partial_restore", "released", "restored"},
         art : [Names -> {"none", "quarantined", "linked", "released", "restored"}]]
ASSUME NoDocAssumption == NoDoc \notin Docs
Saved(state, art) == [state |-> state, art |-> art]
Nothing == [a \in Names |-> "none"]
Those(art, s) == {i \in Places : art[Artifacts[i]] = s}

Init ==
  /\ record = [a \in Names |-> Whole]
  /\ path = [a \in Names |-> "absent"]
  /\ doc = [c \in Cases |-> IF c = Owner
              THEN Saved("open", [a \in Names |-> "quarantined"]) ELSE NoDoc]
  /\ lost = {} /\ committed = {}
  /\ up = TRUE /\ blocked = FALSE /\ taken = {}
  /\ proc = [p \in Procs |-> Idle]
  /\ crashes = 0 /\ faults = 0 /\ foreign = 0

-------------------------------------------------------------------------------
(* What a process does next *)

Does(r, o, s) == [r EXCEPT !.op = o, !.stage = s]
Saves(r, snap) == [Does(r, "case_commit", "intent") EXCEPT !.snap = snap]
First(S) == CHOOSE i \in S : \A j \in S : i <= j
Left(r) == r.todo \ {First(r.todo)}
Mark(r, s) == [r EXCEPT !.snap.art[Artifacts[First(r.todo)]] = s, !.todo = Left(r)]

\* linkSharedCase: the next artifact of the owner, or the linked case is saved.
LinkOn(r) == IF r.todo # {} THEN Does(r, "link_reference", "read") ELSE Saves(r, r.snap)

\* An error drops what was linked so far from the case and leaves it in the records.
LinkFailed(r) == Saves(r, Saved("open", Nothing))

ReleaseImage(r) ==
  IF 1 \in r.todo THEN Does(r, "release_reference", "read")
  ELSE Saves(r, Saved("released", r.snap.art))

ReleaseOn(r) ==
  IF r.todo # {} THEN Does(r, "release_reference", "read")
  ELSE Saves(r, Saved("released", r.snap.art))

\* RestoreCase goes through all artifacts, whatever fails on the way.
RestoreOn(r) ==
  IF r.todo # {} THEN Does(r, "restore_file", "read")
  ELSE Saves(r, Saved(IF r.failed THEN "partial_restore" ELSE "restored", r.snap.art))

RestoreFailed(r) == RestoreOn([r EXCEPT !.failed = TRUE, !.todo = Left(r)])

\* The operation of r is over, well or not.
After(r, ok) ==
  CASE r.op = "link_reference"    -> IF ok THEN LinkOn(Mark(r, "linked")) ELSE LinkFailed(r)
    [] r.op = "release_reference" -> IF ok THEN ReleaseOn(Mark(r, "released")) ELSE Idle
    [] r.op = "restore_file"      -> IF ok THEN Does(r, "restore_ownership", "read") ELSE RestoreFailed(r)
    [] r.op = "restore_ownership" -> IF ok THEN RestoreOn(Mark(r, "restored")) ELSE RestoreFailed(r)
    [] r.op = "case_commit"       -> Idle

Set(p, r) == proc' = [proc EXCEPT ![p] = r]
Stage(p, s) == Set(p, [proc[p] EXCEPT !.stage = s])
Current(p) == IF proc[p].op = "case_commit" THEN Image ELSE Artifacts[First(proc[p].todo)]
Calm == UNCHANGED trouble
Fault == faults < MaxFaults /\ faults' = faults + 1 /\ UNCHANGED <<crashes, foreign>>

-------------------------------------------------------------------------------
(* The agent: handle for a hit on a quarantined file *)

\* recoveryBlocked, then findPreviouslyQuarantined.  A hit on a record that is
\* not quarantined any more is no linked case; module Quarantine handles it.
Take(c) ==
  /\ up /\ proc["core"] = Idle /\ c \in Linked \ taken
  /\ blocked \/ record[Image].status = "quarantined"
  /\ taken' = taken \union {c}
  /\ LET r == [Idle EXCEPT !.case = c, !.snap = Saved("open", Nothing)]
     IN Set("core", IF blocked \/ path[Image] # "absent" THEN LinkFailed(r)
                    ELSE Does(r, "contain", "act"))
  /\ Calm
  /\ UNCHANGED <<disk, journal, up, blocked>>

\* contain, then the owner's case file names the artifacts to link.
Contain ==
  /\ proc["core"].op = "contain"
  /\ LET todo == Those(doc[Owner].art, "quarantined")
         r == [proc["core"] EXCEPT !.todo = todo]
     IN Set("core", IF todo = {} THEN LinkFailed(r) ELSE LinkOn(r)) \/ Set("core", LinkFailed(r))
  /\ Calm
  /\ UNCHANGED <<disk, journal, agent>>

\* Close returns when the workers have left.
Stop ==
  /\ up /\ proc["core"] = Idle
  /\ up' = FALSE /\ blocked' = FALSE
  /\ Calm
  /\ UNCHANGED <<disk, journal, taken, proc>>

\* Operations with an intent and no result, those under way included.
Unfinished ==
  lost \union {<<proc[p].case, proc[p].op, Current(p)>> :
                p \in {q \in Procs : proc[q].stage \in {"act", "done", "undone"} /\ proc[q].op # "contain"}}

ReleaseGap(c, a) ==
  <<c, "release_reference", a>> \in committed /\ (doc[c] = NoDoc \/ doc[c].art[a] = "linked")

\* A committed reference whose case is missing, or a committed release whose case
\* still says linked.
ReferenceGap(c, a) ==
  \/ <<c, "link_reference", a>> \in committed /\ doc[c] = NoDoc
  \/ <<c, "release_reference", a>> \in committed /\ (doc[c] = NoDoc \/ doc[c].art[a] = "linked")

RestoreGapOfOpenCase(c, a) ==
  /\ <<c, "restore_file", a>> \in committed /\ doc[c] # NoDoc
  /\ doc[c].state = "partial_restore" /\ doc[c].art[a] # "restored"

\* A file that was put back though its case does not say so.
RestoreGap(c, a) ==
  /\ <<c, "restore_file", a>> \in committed /\ doc[c] # NoDoc
  /\ doc[c].state \notin {"released", "restored"} /\ doc[c].art[a] # "restored"

\* InspectRecovery: what it reports of case c on the path of a.
Finding(c, a) ==
  \/ \E o \in Operations : <<c, o, a>> \in Unfinished
  \/ ReferenceGap(c, a)
  \/ RestoreGap(c, a)

Start ==
  /\ ~up /\ (Overlap \/ proc["restore"] = Idle)
  /\ up' = TRUE
  /\ blocked' = \E c \in Cases : Finding(c, Image)
  /\ Calm
  /\ UNCHANGED <<disk, journal, taken, proc>>

-------------------------------------------------------------------------------
(* The command --restore-case *)

AllowedWithoutReferences(a) == record[a].status = "quarantined"

\* restoreOwnershipAllowed: no case but the owner refers to the artifact.
Allowed(a) == record[a].status = "quarantined" /\ record[a].cases = {Owner}

RestoreOnce(c) ==
  /\ proc["restore"] = Idle /\ (Overlap \/ ~up)
  /\ doc[c] # NoDoc
  /\ doc[c].state = "open"
  /\ LET linked == Those(doc[c].art, "linked")
         mine   == Those(doc[c].art, "quarantined")
         r == [Idle EXCEPT !.case = c, !.snap = doc[c]]
     IN IF linked # {} THEN Set("restore", ReleaseOn([r EXCEPT !.todo = linked]))
        ELSE /\ \A i \in mine : Allowed(Artifacts[i])
             /\ Set("restore", RestoreOn([r EXCEPT !.todo = mine]))
  /\ Calm
  /\ UNCHANGED <<disk, journal, agent>>

\* A linked case is released; an owner is restored once it may; a case with no
\* artifacts has nothing to do and is saved as restored.  The command refuses
\* without touching anything otherwise.
Restore(c) ==
  /\ proc["restore"] = Idle /\ (Overlap \/ ~up)
  /\ doc[c] # NoDoc
  /\ doc[c].state \notin {"released", "restored"}
  /\ LET linked == Those(doc[c].art, "linked")
         mine   == Those(doc[c].art, "quarantined")
         r == [Idle EXCEPT !.case = c, !.snap = doc[c]]
     IN IF linked # {} THEN Set("restore", ReleaseOn([r EXCEPT !.todo = linked]))
        ELSE /\ \A i \in mine : Allowed(Artifacts[i])
             /\ Set("restore", RestoreOn([r EXCEPT !.todo = mine]))
  /\ Calm
  /\ UNCHANGED <<disk, journal, agent>>

-------------------------------------------------------------------------------
(* An operation: read what it needs, intent, action, result *)

\* What must hold of the record and the path for p to go on with its operation.
MayGoOn(p) ==
  LET a == Current(p)
  IN CASE proc[p].op = "link_reference"    -> record[a].status = "quarantined" /\ path[a] = "absent"
       [] proc[p].op = "release_reference" -> record[a].status = "quarantined" /\ proc[p].case \in record[a].cases
       [] proc[p].op = "restore_file"      -> path[a] = "absent"
       [] proc[p].op = "restore_ownership" -> TRUE

Read(p) ==
  /\ proc[p].stage = "read"
  /\ Set(p, IF MayGoOn(p)
            THEN [proc[p] EXCEPT !.stage = "intent", !.rec = record[Current(p)]]
            ELSE After(proc[p], FALSE))
  /\ Calm
  /\ UNCHANGED <<disk, journal, agent>>

WriteIntent(p) ==
  /\ proc[p].stage = "intent"
  /\ Stage(p, "act")
  /\ Calm
  /\ UNCHANGED <<disk, journal, agent>>

Acts(p, o) == proc[p].op = o /\ proc[p].stage = "act"

LinkReference(p) ==
  /\ Acts(p, "link_reference")
  /\ record' = [record EXCEPT ![Current(p)] =
                  [proc[p].rec EXCEPT !.cases = @ \union {proc[p].case}]]
  /\ Stage(p, "done") /\ Calm
  /\ UNCHANGED <<path, doc, journal, agent>>

ReleaseReference(p) ==
  /\ Acts(p, "release_reference")
  /\ record' = [record EXCEPT ![Current(p)] =
                  [proc[p].rec EXCEPT !.cases = @ \ {proc[p].case}]]
  /\ Stage(p, "done") /\ Calm
  /\ UNCHANGED <<path, doc, journal, agent>>

\* MoveFileEx does not overwrite; then the file at the path is hashed, which may fail.
RestoreFile(p) ==
  /\ Acts(p, "restore_file")
  /\ IF path[Current(p)] # "absent" THEN Stage(p, "undone") /\ Calm /\ UNCHANGED path
     ELSE /\ path' = [path EXCEPT ![Current(p)] = "restored"]
          /\ (Stage(p, "done") /\ Calm) \/ (Stage(p, "undone") /\ Fault)
  /\ UNCHANGED <<record, doc, journal, agent>>

RestoreOwnership(p) ==
  /\ Acts(p, "restore_ownership")
  /\ record' = [record EXCEPT ![Current(p)] = [proc[p].rec EXCEPT !.status = "restored"]]
  /\ Stage(p, "done") /\ Calm
  /\ UNCHANGED <<path, doc, journal, agent>>

CommitCase(p) ==
  /\ Acts(p, "case_commit")
  /\ doc' = [doc EXCEPT ![proc[p].case] = proc[p].snap]
  /\ Stage(p, "done") /\ Calm
  /\ UNCHANGED <<record, path, journal, agent>>

ActionFails(p) ==
  /\ proc[p].stage = "act" /\ proc[p].op # "contain"
  /\ Stage(p, "undone") /\ Fault
  /\ UNCHANGED <<disk, journal, agent>>

WriteResult(p) ==
  /\ proc[p].stage \in {"done", "undone"}
  /\ LET ok == proc[p].stage = "done"
     IN /\ Set(p, After(proc[p], ok))
        /\ committed' = IF ok THEN committed \union {<<proc[p].case, proc[p].op, Current(p)>>}
                        ELSE committed
  /\ Calm
  /\ UNCHANGED <<disk, lost, agent>>

IntentFails(p) ==
  /\ proc[p].stage = "intent"
  /\ Set(p, After(proc[p], FALSE)) /\ Fault
  /\ UNCHANGED <<disk, journal, agent>>

\* The operation has happened, its result is not on disk: it has failed for the
\* caller and stays unfinished in the journal.
ResultFails(p) ==
  /\ proc[p].stage \in {"done", "undone"}
  /\ Set(p, After(proc[p], FALSE)) /\ Fault
  /\ lost' = Unfinished
  /\ UNCHANGED <<disk, committed, agent>>

-------------------------------------------------------------------------------
(* Deaths, and files other programs and the user put and take away *)

Crash(p) ==
  /\ crashes < MaxCrashes /\ crashes' = crashes + 1
  /\ proc[p] # Idle
  /\ lost' = Unfinished
  /\ Set(p, Idle)
  /\ IF p = "core" THEN up' = FALSE /\ blocked' = FALSE ELSE UNCHANGED <<up, blocked>>
  /\ UNCHANGED <<disk, committed, taken, faults, foreign>>

Appears(a) ==
  /\ path[a] = "absent"
  /\ foreign < MaxForeign /\ foreign' = foreign + 1
  /\ path' = [path EXCEPT ![a] = "foreign"]
  /\ UNCHANGED <<record, doc, journal, agent, proc, crashes, faults>>

Leaves(a) ==
  /\ path[a] = "foreign" /\ Calm
  /\ path' = [path EXCEPT ![a] = "absent"]
  /\ UNCHANGED <<record, doc, journal, agent, proc>>

\* The restored file is removed again, which a retry of the restore needs.
TakenAway(a) ==
  /\ path[a] = "restored"
  /\ foreign < MaxForeign /\ foreign' = foreign + 1
  /\ path' = [path EXCEPT ![a] = "absent"]
  /\ UNCHANGED <<record, doc, journal, agent, proc, crashes, faults>>

-------------------------------------------------------------------------------
Perform(p) ==
  \/ LinkReference(p) \/ ReleaseReference(p)
  \/ RestoreFile(p) \/ RestoreOwnership(p) \/ CommitCase(p)

Step(p) == Read(p) \/ WriteIntent(p) \/ Perform(p) \/ WriteResult(p)
Fails(p) == IntentFails(p) \/ ActionFails(p) \/ ResultFails(p) \/ Crash(p)

Next ==
  \/ \E c \in Linked : Take(c)
  \/ Contain \/ Stop \/ Start
  \/ \E c \in Cases : Restore(c)
  \/ \E p \in Procs : Step(p) \/ Fails(p)
  \/ \E a \in Names : Appears(a) \/ Leaves(a) \/ TakenAway(a)

Spec == Init /\ [][Next]_vars

\* A process that runs goes on, and the user gives the command for every case
\* again and again.
RetrySpec ==
  /\ Spec
  /\ WF_vars(Contain)
  /\ \A p \in Procs : WF_vars(Step(p))
  /\ \A c \in Cases : SF_vars(Restore(c))

-------------------------------------------------------------------------------
(* Properties *)

Records == [cases : {S \in SUBSET Cases : Owner \in S}, status : {"quarantined", "restored"}]
Works == [case : Cases \union {NoCase}, op : Operations \union {"none", "contain"},
          stage : {"none", "read", "intent", "act", "done", "undone"},
          todo : SUBSET Places, snap : Docs \union {NoDoc}, rec : Records, failed : BOOLEAN]

\* Types: the values each variable may take; the owner never loses its reference.
TypeOK ==
  /\ record \in [Names -> Records]
  /\ path \in [Names -> {"absent", "restored", "foreign"}]
  /\ doc \in [Cases -> Docs \union {NoDoc}]
  /\ lost \subseteq Cases \X Operations \X Names
  /\ committed \subseteq Cases \X Operations \X Names
  /\ up \in BOOLEAN /\ blocked \in BOOLEAN /\ taken \subseteq Linked
  /\ proc \in [Procs -> Works]
  /\ crashes \in 0 .. MaxCrashes /\ faults \in 0 .. MaxFaults /\ foreign \in 0 .. MaxForeign

Known(c, a) ==
  \/ proc["core"].case = c
  \/ doc[c] # NoDoc /\ doc[c].art[a] = "linked"
  \/ Finding(c, a)

NoReferenceLost == \A a \in Names : \A c \in record[a].cases \ {Owner} : Known(c, a)

\* No reference is forgotten, whatever a death leaves: a case that keeps an
\* artifact from being restored is being handled, says in its case file that it
\* is linked, so that it can be released, or is found by the next
\* InspectRecovery (ROUND_TRIP.md "已提交但缺少 case 的共享引用").  A failing write or
\* a foreign file, met on the way, can forget one: SettledHoldsNothing.
ReferenceKnown == faults = 0 /\ foreign = 0 => NoReferenceLost

\* A restored artifact is nobody's: no case but the owner is in its record, and
\* a case file that still says linked is a finding (ROADMAP.md
\* "owner 在其他引用释放后才能恢复").
RestoredIsFree ==
  \A a \in Names : record[a].status = "restored" =>
    /\ record[a].cases = {Owner}
    /\ \A c \in Linked : doc[c] # NoDoc => (doc[c].art[a] = "linked" => Finding(c, a))

\* A file the command put back is told of: its record says restored, the command
\* is at it, or InspectRecovery finds it (ROUND_TRIP.md "文件已恢复但归属记录未更新").
\* Deaths only: a hash check that fails after the move leaves no trace.
RestoreGapReported ==
  \A a \in Names : faults = 0 /\ path[a] = "restored" =>
    record[a].status = "restored" \/ proc["restore"].case = Owner \/ Finding(Owner, a)

\* A case that is settled holds nothing back.
SettledHoldsNothing ==
  \A c \in Linked : doc[c] # NoDoc => (doc[c].state \in {"released", "restored"} =>
    \A a \in Names : c \notin record[a].cases)

\* Deaths alone never make a settled case hold something back: it takes a write that
\* fails or someone who touches the paths (linkSharedCase, RestoreCase).
DeathsLeakNothing == faults = 0 /\ foreign = 0 => SettledHoldsNothing

\* The records and paths implement what sharing promises about artifacts.
Shared == INSTANCE SharedArtifact WITH
  Things <- Names, Holders <- Linked,
  holding <- [a \in Names |-> record[a].cases \ {Owner}],
  back <- {a \in Names : path[a] = "restored"},
  closed <- {a \in Names : record[a].status = "restored"}
ImplementsSharedArtifact == Shared!SharedSpec

\* Once the agent stays down and nothing foreign stays at a path, repeating the
\* command restores the owner, unless a process died, a write failed or a
\* reference was forgotten before.
RetrySucceeds ==
  /\ <>[](~up /\ \A a \in Names : path[a] # "foreign")
  /\ [](crashes = 0 /\ faults = 0 /\ NoReferenceLost)
  => <>(doc[Owner].state = "restored")
===============================================================================
