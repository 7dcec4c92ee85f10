------------------------------ MODULE CaseCommit ------------------------------
(***************************************************************************)
(* One case file with its two writers.  The agent's observation samples    *)
(* the case in the background until its deadline (observeCase); the        *)
(* command --restore-case runs in a process of its own.  Both commit by    *)
(* commitCaseExpected: an intent with the hash of the file as it was read, *)
(* a comparison with that hash, a rename over the file, a reading back and *)
(* a result.  The observer's hash is of the case it sampled; the           *)
(* command's is taken when its work is done.  Either may die anywhere.     *)
(*                                                                         *)
(* It starts when handle has saved the case with a new observation.        *)
(***************************************************************************)
EXTENDS Naturals, Sequences

CONSTANTS
  Window, Interval,   \* ObservationOptions, in ticks of the clock
  MaxTime,            \* bound on the clock
  MaxCommands,        \* bound on commands started
  MaxTrouble,         \* bound on deaths, faults and doubts together
  MaxChanges,         \* bound on changes other programs make to the targets
  NoDoc

\* validate; the clock must pass the deadline for the observation to end.
ASSUME ObservationAssumption ==
  /\ Window \in Nat /\ Interval \in Nat /\ MaxTime \in Nat
  /\ 0 < Interval /\ Interval <= Window /\ Window <= MaxTime
  /\ MaxCommands \in Nat /\ MaxTrouble \in Nat /\ MaxChanges \in Nat

Writers == {"observer", "command"}
\* What a sample looks for, in order.  The startup entry is looked for after the file
\* and comes back after it: to find it is as if the file had been found just before.
Targets == <<"process", "file">>
Statuses == {"pending_verification", "partial_failure", "partial_restore", "restored"}
Verdicts == {"completed", "incomplete", "failed", "interrupted"}
Deadline == Window            \* the observation starts at 0

VARIABLES
  clock,
  doc,        \* the case file; its hash stands for what it says
  present,    \* targets that exist: a process of the image, the file
  writer,     \* each writer: where it is, the hash it expects, the case it will write
  wake,       \* when the observer's timer fires
  sample,     \* the sample being taken: its start, what was seen, checks made
  stopped,    \* observationStop is closed
  lost,       \* journal: case commits whose result was never written
  samples,    \* history: the samples taken in this window
  crossed,    \* history: the command renamed between the observer's comparison and its rename
  commands,   \* commands started
  deaths,     \* deaths of either process
  faults,     \* failed reads and writes of the case and of its commits' journal
  doubts,     \* checks that could not tell or were not journaled
  changes     \* changes other programs made to the targets

world == <<clock, present, stopped>>
observation == <<wake, sample, samples>>
trouble == <<commands, deaths, faults, doubts, changes>>
vars == <<world, doc, writer, observation, lost, crossed, trouble>>

NoSample == [start |-> 0, seen |-> {}, made |-> 0]
Free(w) == [at |-> IF w = "observer" THEN "done" ELSE "idle",
            prev |-> NoDoc, next |-> NoDoc, did |-> FALSE]
Loop == [Free("observer") EXCEPT !.at = "loop"]

MayFail == deaths + faults + doubts < MaxTrouble

At(w, place) == writer[w].at = place
Goes(w, place) == writer' = [writer EXCEPT ![w].at = place]

Init ==
  /\ clock = 0 /\ present = {} /\ stopped = FALSE
  /\ doc = [status |-> "pending_verification", file |-> "quarantined",
            observation |-> "observing", incomplete |-> FALSE, lastSampleAt |-> 0]
  /\ writer = [w \in Writers |-> IF w = "observer" THEN Loop ELSE Free(w)]
  /\ wake = 0 /\ sample = NoSample /\ samples = {}
  /\ lost = {} /\ crossed = FALSE
  /\ commands = 0 /\ deaths = 0 /\ faults = 0 /\ doubts = 0 /\ changes = 0

-------------------------------------------------------------------------------
(* The observation *)

\* A case that is still to be observed: loadObservation's condition.
Active(d) ==
  /\ d.observation = "observing" /\ d.status = "pending_verification"
  /\ d.file = "quarantined"

\* observationDeadline, and the timer set to the deadline or an interval ahead.
SetTimer ==
  /\ At("observer", "loop") /\ Active(doc)
  /\ wake' = IF clock >= Deadline THEN clock
             ELSE IF Deadline - clock > Interval THEN clock + Interval ELSE Deadline
  /\ Goes("observer", "sleep")
  /\ UNCHANGED <<world, doc, sample, samples, lost, crossed, trouble>>

Fired == At("observer", "sleep") /\ (stopped \/ clock >= wake)

AbandonNever ==
  /\ At("observer", "loop") \/ Fired
  /\ ~Active(doc)
  /\ writer' = [writer EXCEPT !["observer"] = Loop]
  /\ wake' = 0
  /\ UNCHANGED <<world, doc, sample, samples, lost, crossed, trouble>>

\* Another operation changed the case: the observation is given up.
Abandon ==
  /\ At("observer", "loop") \/ Fired
  /\ ~Active(doc)
  /\ writer' = [writer EXCEPT !["observer"] = Free("observer")]
  /\ wake' = 0
  /\ UNCHANGED <<world, doc, sample, samples, lost, crossed, trouble>>

LoadFails ==
  /\ At("observer", "loop") \/ Fired
  /\ MayFail /\ faults' = faults + 1
  /\ writer' = [writer EXCEPT !["observer"] = Free("observer")]
  /\ wake' = 0
  /\ UNCHANGED <<world, doc, sample, samples, lost, crossed, commands, deaths, doubts, changes>>

\* caseStatus, for a case that was pending_verification.
WithStatus(d) ==
  [d EXCEPT !.status = IF d.observation = "failed" THEN "partial_failure"
                       ELSE "pending_verification"]

\* The stop is looked at again under the lock, whatever woke the observer.
Interrupt ==
  /\ Fired /\ stopped /\ Active(doc)
  /\ writer' = [writer EXCEPT !["observer"] =
       [at |-> "intent", prev |-> doc, did |-> FALSE,
        next |-> WithStatus([doc EXCEPT !.observation = "interrupted"])]]
  /\ wake' = 0
  /\ UNCHANGED <<world, doc, sample, samples, lost, crossed, trouble>>

BeginSample ==
  /\ Fired /\ ~stopped /\ Active(doc)
  /\ sample' = [NoSample EXCEPT !.start = clock]
  /\ writer' = [writer EXCEPT !["observer"].at = "sample", !["observer"].prev = doc]
  /\ wake' = 0
  /\ UNCHANGED <<world, doc, samples, lost, crossed, trouble>>

\* One check: absent, present or unknown, and its journal entry may fail.  When the
\* intent fails nothing is looked at.
Check(seen, journaled) ==
  /\ At("observer", "sample") /\ sample.made < Len(Targets)
  /\ LET target == Targets[sample.made + 1]
     IN  seen \in {"unknown", IF target \in present THEN "present" ELSE "absent"}
  /\ IF seen # "unknown" /\ journaled THEN UNCHANGED doubts
     ELSE MayFail /\ doubts' = doubts + 1
  /\ sample' = [sample EXCEPT !.made = @ + 1,
                 !.seen = @ \union {seen} \union (IF journaled THEN {} ELSE {"unjournaled"})]
  /\ UNCHANGED <<world, doc, writer, wake, samples, lost, crossed,
                 commands, deaths, faults, changes>>

OutcomeInDoubt(seen) ==
  IF seen \cap {"unknown", "unjournaled"} # {} THEN "incomplete"
  ELSE IF "present" \in seen THEN "failed" ELSE "passed"
\* verifyPostCleanScope's status of what the checks saw; a doubt hides nothing.
Outcome(seen) ==
  IF "present" \in seen THEN "failed" ELSE IF seen = {"absent"} THEN "passed" ELSE "incomplete"

FlawedNow(d, s) == s.start - d.lastSampleAt > 2 * Interval \/ Outcome(s.seen) = "incomplete"
\* The window is flawed once a sample came late or could not tell.
Flawed(d, s) ==
  \/ d.incomplete
  \/ s.start - d.lastSampleAt > 2 * Interval
  \/ Outcome(s.seen) = "incomplete"

Verdict(d, s) ==
  IF Outcome(s.seen) = "failed" THEN "failed"
  ELSE IF s.start < Deadline THEN "observing"
  ELSE IF Flawed(d, s) THEN "incomplete" ELSE "completed"

\* What sampleObservation makes of case d after a sample.
Judged(d, s) ==
  WithStatus([d EXCEPT !.lastSampleAt = s.start, !.incomplete = Flawed(d, s),
                       !.observation = Verdict(d, s)])

EndSample ==
  /\ At("observer", "sample") /\ sample.made = Len(Targets)
  /\ writer' = [writer EXCEPT !["observer"].at = "intent",
                              !["observer"].next = Judged(writer["observer"].prev, sample)]
  /\ samples' = samples \union {[start |-> sample.start, seen |-> sample.seen]}
  /\ sample' = NoSample
  /\ UNCHANGED <<world, doc, wake, lost, crossed, trouble>>

-------------------------------------------------------------------------------
(* The command *)

\* RestoreCase reads the case; one already restored is left alone.
StartRestore ==
  /\ At("command", "idle") /\ doc.status # "restored"
  /\ commands < MaxCommands /\ commands' = commands + 1
  /\ writer' = [writer EXCEPT !["command"].at = "restoring", !["command"].next = doc]
  /\ UNCHANGED <<world, doc, observation, lost, crossed, deaths, faults, doubts, changes>>

\* The file comes back only to an empty path.
RestoreFile ==
  /\ At("command", "restoring")
  /\ writer["command"].next.file = "quarantined" /\ "file" \notin present
  /\ present' = present \union {"file"}
  /\ writer' = [writer EXCEPT !["command"].next.file = "restored"]
  /\ UNCHANGED <<clock, stopped, doc, observation, lost, crossed, trouble>>

\* commitCase takes the hash of the case file as it is now, not as RestoreCase read it.
Drafted(w, status) ==
  [w EXCEPT !.at = "intent", !.prev = doc, !.next.status = status]

\* Once every file is back, the startup entries.
RestoreStartup ==
  /\ At("command", "restoring") /\ writer["command"].next.file = "restored"
  /\ writer' = [writer EXCEPT !["command"] = Drafted(@, "restored")]
  /\ UNCHANGED <<world, doc, observation, lost, crossed, trouble>>

RestoreFails ==
  /\ At("command", "restoring")
  /\ \/ /\ "file" \in present /\ writer["command"].next.file = "quarantined"
        /\ UNCHANGED faults
     \/ MayFail /\ faults' = faults + 1
  /\ writer' = [writer EXCEPT !["command"] = Drafted(@, "partial_restore")]
  /\ UNCHANGED <<world, doc, observation, lost, crossed, commands, deaths, doubts, changes>>

-------------------------------------------------------------------------------
(* commitCaseExpected *)

WriteIntent(w) ==
  /\ At(w, "intent") /\ Goes(w, "compare")
  /\ UNCHANGED <<world, doc, observation, lost, crossed, trouble>>

IntentFails(w) ==
  /\ At(w, "intent") /\ MayFail /\ faults' = faults + 1
  /\ writer' = [writer EXCEPT ![w] = Free(w)]
  /\ UNCHANGED <<world, doc, observation, lost, crossed, commands, deaths, doubts, changes>>

DiffersNever(w) == FALSE
\* currentHash != previousHash
Differs(w) == doc # writer[w].prev

Compare(w) ==
  /\ At(w, "compare")
  /\ Goes(w, IF Differs(w) THEN "failed" ELSE "replace")
  /\ crossed' = (crossed /\ w = "command")
  /\ UNCHANGED <<world, doc, observation, lost, trouble>>

\* atomicWrite: the rename takes the place of whatever file is there.
Replace(w) ==
  /\ At(w, "replace")
  /\ doc' = writer[w].next
  /\ writer' = [writer EXCEPT ![w].at = "confirm", ![w].did = TRUE]
  /\ crossed' = (crossed \/ (w = "command" /\ At("observer", "replace")))
  /\ UNCHANGED <<world, observation, lost, trouble>>

\* The file cannot be read or written.
ActionFails(w) ==
  /\ At(w, "compare") \/ At(w, "replace") \/ At(w, "confirm")
  /\ MayFail /\ faults' = faults + 1
  /\ Goes(w, "failed")
  /\ UNCHANGED <<world, doc, observation, lost, crossed, commands, deaths, doubts, changes>>

Confirm(w) ==
  /\ At(w, "confirm")
  /\ Goes(w, IF doc = writer[w].next THEN "committed" ELSE "failed")
  /\ UNCHANGED <<world, doc, observation, lost, crossed, trouble>>

\* After a committed sample that ends nothing the observer goes on.
WriteResult(w) ==
  /\ At(w, "committed") \/ At(w, "failed")
  /\ writer' = [writer EXCEPT ![w] =
       IF w = "observer" /\ At(w, "committed") /\ @.next.observation = "observing"
       THEN Loop ELSE Free(w)]
  /\ UNCHANGED <<world, doc, observation, lost, crossed, trouble>>

\* The operation in the journal, without its result.
Operation(w) == [prev |-> writer[w].prev, next |-> writer[w].next, did |-> writer[w].did]
UnfinishedAnywhere(w) == lost \union {Operation(w)}
Unfinished(w) ==
  IF writer[w].at \in {"compare", "replace", "confirm", "committed", "failed"}
  THEN lost \union {Operation(w)} ELSE lost

ResultFails(w) ==
  /\ At(w, "committed") \/ At(w, "failed")
  /\ MayFail /\ faults' = faults + 1
  /\ lost' = Unfinished(w)
  /\ writer' = [writer EXCEPT ![w] = Free(w)]
  /\ UNCHANGED <<world, doc, observation, crossed, commands, deaths, doubts, changes>>

-------------------------------------------------------------------------------
(* What happens around them *)

\* Either process dies; the agent does not resume an old window.
Die(w) ==
  /\ writer[w].at # Free(w).at
  /\ MayFail /\ deaths' = deaths + 1
  /\ lost' = Unfinished(w)
  /\ writer' = [writer EXCEPT ![w] = Free(w)]
  /\ IF w = "observer" THEN sample' = NoSample /\ wake' = 0 ELSE UNCHANGED <<sample, wake>>
  /\ UNCHANGED <<world, doc, samples, crossed, commands, faults, doubts, changes>>

\* Only the observation looks at the time.
Tick ==
  /\ ~At("observer", "done")
  /\ clock < MaxTime /\ clock' = clock + 1
  /\ UNCHANGED <<present, stopped, doc, writer, observation, lost, crossed, trouble>>

\* Manager.Close
Close ==
  /\ ~stopped /\ stopped' = TRUE
  /\ UNCHANGED <<clock, present, doc, writer, observation, lost, crossed, trouble>>

\* A watchdog puts a target back, or somebody removes one.
Change(target) ==
  /\ changes < MaxChanges /\ changes' = changes + 1
  /\ present' = IF target \in present THEN present \ {target} ELSE present \union {target}
  /\ UNCHANGED <<clock, stopped, doc, writer, observation, lost, crossed,
                 commands, deaths, faults, doubts>>

Rest ==
  /\ At("observer", "done") /\ At("command", "idle")
  /\ UNCHANGED vars

Commit(w) == WriteIntent(w) \/ Compare(w) \/ Replace(w) \/ Confirm(w) \/ WriteResult(w)
CommitFails(w) == IntentFails(w) \/ ActionFails(w) \/ ResultFails(w)

Observe ==
  \/ SetTimer \/ Abandon \/ Interrupt \/ BeginSample \/ EndSample
  \/ \E seen \in {"absent", "present", "unknown"}, journaled \in BOOLEAN : Check(seen, journaled)

Restore == StartRestore \/ RestoreFile \/ RestoreStartup \/ RestoreFails

Next ==
  \/ Observe \/ LoadFails \/ Restore
  \/ \E w \in Writers : Commit(w) \/ CommitFails(w) \/ Die(w)
  \/ Tick \/ Close \/ Rest
  \/ \E i \in DOMAIN Targets : Change(Targets[i])

Spec == Init /\ [][Next]_vars

\* The observer's goroutine runs and time passes; nobody has to close or restore.
Fairness == WF_vars(Observe \/ Commit("observer")) /\ WF_vars(Tick)
FairSpec == Spec /\ Fairness

-------------------------------------------------------------------------------
(* Recovery *)

\* inspectCaseCommit; the case file exists throughout.
FindingWithoutReview(op) ==
  IF doc = op.prev THEN "not_observed"
  ELSE IF doc # op.next THEN "conflict" ELSE "observed_uncommitted"
Finding(op) ==
  IF op.prev = op.next /\ doc = op.next THEN "manual_review"
  ELSE IF doc = op.prev THEN "not_observed"
  ELSE IF doc # op.next THEN "conflict" ELSE "observed_uncommitted"

-------------------------------------------------------------------------------
(* Properties *)

Docs == [status : Statuses, file : {"quarantined", "restored"},
         observation : Verdicts \union {"observing"}, incomplete : BOOLEAN,
         lastSampleAt : 0 .. MaxTime]
Places == {"loop", "sleep", "sample", "done", "idle", "restoring", 
           "intent", "compare", "replace", "confirm", "committed", "failed"}
Seen == {"absent", "present", "unknown", "unjournaled"}

\* The types of the variables.
TypeOK ==
  /\ clock \in 0 .. MaxTime /\ wake \in 0 .. MaxTime
  /\ doc \in Docs
  /\ present \subseteq {Targets[i] : i \in DOMAIN Targets}
  /\ stopped \in BOOLEAN /\ crossed \in BOOLEAN
  /\ writer \in [Writers -> [at : Places, prev : Docs \union {NoDoc},
                             next : Docs \union {NoDoc}, did : BOOLEAN]]
  /\ sample \in [start : 0 .. MaxTime, seen : SUBSET Seen, made : 0 .. Len(Targets)]
  /\ samples \subseteq [start : 0 .. MaxTime, seen : SUBSET Seen]
  /\ lost \subseteq [prev : Docs, next : Docs, did : BOOLEAN]
  /\ commands \in 0 .. MaxCommands /\ deaths \in 0 .. MaxTrouble
  /\ faults \in 0 .. MaxTrouble /\ doubts \in 0 .. MaxTrouble /\ changes \in 0 .. MaxChanges

\* A completed observation is earned: every sample of the window saw every target
\* absent and was journaled, the last one started at the deadline or later, and each
\* start, the window's own included, was followed by the next within two intervals
\* (ObservationSummary's promise, through all the commits of sampleObservation).
CompletedIsEarned ==
  doc.observation = "completed" =>
    LET starts == {0} \union {s.start : s \in samples}
        last == doc.lastSampleAt
    IN  /\ \A s \in samples : s.seen = {"absent"}
        /\ last \in starts /\ last >= Deadline
        /\ \A u \in starts \ {last} : \E v \in starts : u < v /\ v <= u + 2 * Interval

\* When no process died, nothing failed to be written and nobody restored, the
\* observation that has ended says so, a reappearance that any sample saw is what it
\* says, and only Close makes it "interrupted" (sampleObservation, observeCase).
VerdictIsTold ==
  At("observer", "done") /\ faults = 0 /\ deaths = 0 /\ commands = 0 =>
    /\ doc.observation \in Verdicts
    /\ doc.observation = "failed" <=> \E s \in samples : "present" \in s.seen
    /\ doc.observation = "interrupted" => stopped

\* A case that is restored stays restored: the observer's commit of an older case
\* fails on the hash, except in the window between its comparison and its rename
\* (commitCaseExpected).
RestoredStays ==
  [][doc.status = "restored" /\ doc'.status # "restored" => crossed]_vars

\* An unfinished case commit that did replace the file is never found "not_observed",
\* whatever was committed to the case since (inspectCaseCommit).
UnfinishedCommitTold ==
  \A op \in lost : op.did => Finding(op) # "not_observed"

\* The observation always ends: with a verdict, by giving up, or with the agent.
ObservationEnds == <>At("observer", "done")

\* The background commit never puts an old case over a restored one; see
\* RestoredStays for what the code keeps of it.
RestoredIsKept == [][doc.status = "restored" => doc'.status = "restored"]_vars
===============================================================================
