--------------------------- MODULE CaseCommit_proofs ---------------------------
(***************************************************************************)
(* Theorems about CaseCommit, for any window, interval and bounds: its     *)
(* types, that a completed observation is earned, that a restored case     *)
(* stays restored except in the one window, that an undisturbed            *)
(* observation tells what it saw, and that a commit left unfinished after  *)
(* its rename is never found not observed.                                 *)
(***************************************************************************)
EXTENDS CaseCommit, TLAPS

Observer == writer["observer"]
Command == writer["command"]
Committing == {"intent", "compare", "replace", "confirm", "committed", "failed"}

\* Where each writer can be, and which cases it then has in hand.
ControlInv ==
  /\ Observer.at \in Committing \union {"loop", "sleep", "sample", "done"}
  /\ Command.at \in Committing \union {"idle", "restoring"}
  /\ Observer.at \in Committing => Observer.next \in Docs
  /\ Observer.at \in Committing \union {"sample"} => Observer.prev \in Docs /\ Active(Observer.prev)
  /\ Command.at \in Committing =>
       Command.prev \in Docs /\ Command.next.status # "pending_verification"
  /\ Command.at # "idle" => Command.next \in Docs

\* Case d knows of the samples S: its last one is the last, and it is marked
\* incomplete if one of them was in doubt or late.
Starts(S) == {0} \union {s.start : s \in S}
Gapless(last, S) ==
  \A u \in Starts(S) \ {last} : \E v \in Starts(S) : u < v /\ v <= u + 2 * Interval
Knows(d, S) ==
  /\ d.lastSampleAt \in Starts(S)
  /\ \A u \in Starts(S) : u <= d.lastSampleAt
  /\ d.incomplete \/ ((\A s \in S : s.seen = {"absent"}) /\ Gapless(d.lastSampleAt, S))
Earned(d, S) == Knows(d, S) /\ ~d.incomplete /\ d.lastSampleAt >= Deadline

\* What the observer works from knows of every sample taken so far.
KnowledgeInv ==
  /\ \A s \in samples : s.start <= clock
  /\ Observer.at \in {"loop", "sleep", "committed"} => (Active(doc) => Knows(doc, samples))
  /\ Observer.at = "sample" =>
       /\ Knows(Observer.prev, samples)
       /\ sample.start <= clock /\ \A u \in Starts(samples) : u <= sample.start
  /\ Observer.at \in Committing \ {"failed"} =>
       /\ Observer.next.observation = "observing" => Knows(Observer.next, samples)
       /\ Observer.next.observation = "completed" => Earned(Observer.next, samples)

\* A completed case is earned wherever it is, and the observer has taken its last sample.
Closed == /\ Observer.at \in {"confirm", "committed", "failed", "done"}
          /\ Observer.at \in {"confirm", "committed"} => Observer.next.observation = "completed"
CompletedInv ==
  /\ doc.observation = "completed" => Earned(doc, samples) /\ Closed
  /\ Command.at # "idle" /\ Command.next.observation = "completed" =>
       Earned(Command.next, samples) /\ Closed

\* Between its comparison and its rename the observer faces the case it compared, unless
\* the command got in between; the command never works on a restored case.
CrossingInv ==
  /\ Observer.at \in Committing => Observer.next.status # "restored"
  /\ Command.at \in {"restoring", "intent", "compare", "replace"} => doc.status # "restored"
  /\ Observer.at = "replace" /\ doc.status = "restored" => crossed

IInv == TypeOK /\ ControlInv /\ KnowledgeInv /\ CompletedInv /\ CrossingInv


-------------------------------------------------------------------------------
(* Types *)

W == [at : Places, prev : Docs \union {NoDoc}, next : Docs \union {NoDoc}, did : BOOLEAN]
ScalarsOK ==
  /\ clock \in 0 .. MaxTime /\ wake \in 0 .. MaxTime
  /\ doc \in Docs
  /\ present \subseteq {Targets[i] : i \in DOMAIN Targets}
  /\ stopped \in BOOLEAN /\ crossed \in BOOLEAN
  /\ sample \in [start : 0 .. MaxTime, seen : SUBSET Seen, made : 0 .. Len(Targets)]
  /\ samples \subseteq [start : 0 .. MaxTime, seen : SUBSET Seen]
  /\ lost \subseteq [prev : Docs, next : Docs, did : BOOLEAN]
  /\ commands \in 0 .. MaxCommands /\ deaths \in 0 .. MaxTrouble
  /\ faults \in 0 .. MaxTrouble /\ doubts \in 0 .. MaxTrouble /\ changes \in 0 .. MaxChanges

\* TypeOK is the type of the writers and that of everything else.
LEMMA TypeParts == /\ TypeOK <=> ScalarsOK /\ writer \in [Writers -> W]
                   /\ TypeOK' <=> ScalarsOK' /\ writer' \in [Writers -> W]
BY DEF TypeOK, ScalarsOK, W

\* The cases the writers draft are cases.
LEMMA DraftTypes ==
  ASSUME NEW d \in Docs
  PROVE  /\ WithStatus([d EXCEPT !.observation = "interrupted"]) \in Docs
         /\ [d EXCEPT !.file = "restored"] \in Docs
         /\ \A s \in {"restored", "partial_restore"} : [d EXCEPT !.status = s] \in Docs
BY DEF Docs, WithStatus, Statuses, Verdicts

\* So is the case drafted after a sample.
LEMMA JudgedTypes ==
  ASSUME NEW d \in Docs, NEW s, s.start \in 0 .. MaxTime
  PROVE  Judged(d, s) \in Docs
<1>1. Verdict(d, s) \in Verdicts \union {"observing"} /\ Flawed(d, s) \in BOOLEAN
  BY DEF Verdict, Flawed, Verdicts, Docs
<1> DEFINE e == [d EXCEPT !.lastSampleAt = s.start, !.incomplete = Flawed(d, s),
                          !.observation = Verdict(d, s)]
<1>2. e \in Docs
  BY <1>1 DEF Docs
<1> HIDE DEF e
<1>3. WithStatus(e) \in Docs
  BY <1>2 DEF WithStatus, Docs, Statuses
<1> QED BY <1>3 DEF Judged, e

\* Every step keeps the types and the places of the writers.
LEMMA TypeStep ==
  ASSUME TypeOK, ControlInv, Next \/ UNCHANGED vars
  PROVE  TypeOK' /\ ControlInv'
<1> USE DEF W, Writers, Committing, Places, Observer, Command, At, world, observation, trouble
<1>1. CASE SetTimer
  <2>1. writer' \in [Writers -> W]
    BY <1>1 DEF SetTimer, TypeOK, Active, Goes
  <2>2. ScalarsOK'
    <3>1. clock \in 0 .. MaxTime /\ wake' \in 0 .. MaxTime
      BY <1>1, ObservationAssumption DEF SetTimer, TypeOK, Deadline
    <3> QED BY <1>1, <3>1 DEF SetTimer, TypeOK, ScalarsOK
  <2>3. ControlInv'
    BY <1>1 DEF SetTimer, TypeOK, ControlInv, Active, Goes
  <2> QED BY <2>1, <2>2, <2>3, TypeParts
<1>2. CASE Abandon
  <2>1. writer' \in [Writers -> W]
    BY <1>2 DEF Abandon, TypeOK, Free
  <2>2. ScalarsOK'
    BY <1>2, ObservationAssumption DEF Abandon, TypeOK, ScalarsOK
  <2>3. ControlInv'
    BY <1>2 DEF Abandon, TypeOK, ControlInv, Free
  <2> QED BY <2>1, <2>2, <2>3, TypeParts
<1>3. CASE LoadFails
  <2>1. writer' \in [Writers -> W]
    BY <1>3 DEF LoadFails, TypeOK, Free, Fired
  <2>2. ScalarsOK'
    BY <1>3, ObservationAssumption DEF LoadFails, TypeOK, ScalarsOK, MayFail
  <2>3. ControlInv'
    BY <1>3 DEF LoadFails, TypeOK, ControlInv, Free, Fired
  <2> QED BY <2>1, <2>2, <2>3, TypeParts
<1>4. CASE Interrupt
  <2> DEFINE draft == WithStatus([doc EXCEPT !.observation = "interrupted"])
  <2>1. draft \in Docs
    BY DraftTypes DEF TypeOK
  <2>2. writer' = [writer EXCEPT !["observer"] = [at |-> "intent", prev |-> doc, did |-> FALSE,
         next |-> draft]]
    BY <1>4 DEF Interrupt, Fired, Active, WithStatus, TypeOK
  <2> HIDE DEF draft
  <2>3. writer' \in [Writers -> W]
    BY <1>4, <2>1, <2>2 DEF TypeOK
  <2>4. ScalarsOK'
    BY <1>4, ObservationAssumption DEF Interrupt, TypeOK, ScalarsOK
  <2>5. ControlInv'
    BY <1>4, <2>1, <2>2 DEF Interrupt, TypeOK, ControlInv
  <2> QED BY <2>3, <2>4, <2>5, TypeParts
<1>5. CASE BeginSample
  <2>1. writer' \in [Writers -> W]
    BY <1>5 DEF BeginSample, TypeOK, Fired, Active
  <2>2. ScalarsOK'
    BY <1>5, ObservationAssumption DEF BeginSample, TypeOK, ScalarsOK, NoSample
  <2>3. ControlInv'
    BY <1>5 DEF BeginSample, TypeOK, ControlInv, Fired, Active
  <2> QED BY <2>1, <2>2, <2>3, TypeParts
<1>6. ASSUME NEW seen \in {"absent", "present", "unknown"}, NEW journaled \in BOOLEAN,
       Check(seen, journaled) PROVE TypeOK' /\ ControlInv'
  <2>1. writer' \in [Writers -> W]
    BY <1>6 DEF Check, TypeOK
  <2>2. ScalarsOK'
    <3>1. sample' \in [start : 0 .. MaxTime, seen : SUBSET Seen, made : 0 .. Len(Targets)]
      <4>1. sample.made + 1 \in 0 .. Len(Targets)
        BY <1>6 DEF Check, TypeOK, Targets
      <4>2. sample.seen \union {seen} \union (IF journaled THEN {} ELSE {"unjournaled"}) \in SUBSET Seen
        BY <1>6 DEF TypeOK, Seen
      <4> QED BY <1>6, <4>1, <4>2 DEF Check, TypeOK
    <3>2. doubts' \in 0 .. MaxTrouble
      <4>1. deaths \in Nat /\ faults \in Nat /\ doubts \in 0 .. MaxTrouble
        BY DEF TypeOK
      <4> QED BY <1>6, <4>1, ObservationAssumption DEF Check, MayFail
    <3> QED BY <1>6, <3>1, <3>2 DEF Check, TypeOK, ScalarsOK
  <2>3. ControlInv'
    BY <1>6 DEF Check, TypeOK, ControlInv
  <2> QED BY <2>1, <2>2, <2>3, TypeParts
<1>7. CASE EndSample
  <2> DEFINE draft == Judged(Observer.prev, sample)
  <2>1. draft \in Docs
    BY <1>7, JudgedTypes DEF EndSample, TypeOK, ControlInv
  <2>2. writer' = [writer EXCEPT !["observer"] = [writer["observer"] EXCEPT !.at = "intent",
         !.next = draft]]
    BY <1>7 DEF EndSample, NoSample, Targets, TypeOK
  <2> HIDE DEF draft
  <2>3. writer' \in [Writers -> W]
    BY <1>7, <2>1, <2>2 DEF TypeOK
  <2>4. ScalarsOK'
    BY <1>7, ObservationAssumption DEF EndSample, TypeOK, ScalarsOK, NoSample, Targets
  <2>5. ControlInv'
    BY <1>7, <2>1, <2>2 DEF EndSample, TypeOK, ControlInv
  <2> QED BY <2>3, <2>4, <2>5, TypeParts
<1>8. CASE StartRestore
  <2>1. writer' \in [Writers -> W]
    BY <1>8 DEF StartRestore, TypeOK
  <2>2. ScalarsOK'
    BY <1>8, ObservationAssumption DEF StartRestore, TypeOK, ScalarsOK
  <2>3. ControlInv'
    BY <1>8 DEF StartRestore, TypeOK, ControlInv
  <2> QED BY <2>1, <2>2, <2>3, TypeParts
<1>9. CASE RestoreFile
  <2> DEFINE draft == [Command.next EXCEPT !.file = "restored"]
  <2>1. draft \in Docs
    BY <1>9, DraftTypes DEF RestoreFile, ControlInv
  <2>2. writer' = [writer EXCEPT !["command"] = [writer["command"] EXCEPT !.next = draft]]
    BY <1>9 DEF RestoreFile, TypeOK
  <2> HIDE DEF draft
  <2>3. writer' \in [Writers -> W]
    BY <1>9, <2>1, <2>2 DEF TypeOK
  <2>4. ScalarsOK'
    <3>1. "file" \in {Targets[i] : i \in DOMAIN Targets}
      BY Targets[2] = "file" DEF Targets
    <3> QED BY <1>9, <3>1 DEF RestoreFile, TypeOK, ScalarsOK
  <2>5. ControlInv'
    BY <1>9, <2>1, <2>2 DEF RestoreFile, TypeOK, ControlInv
  <2> QED BY <2>3, <2>4, <2>5, TypeParts
<1>10. CASE RestoreStartup
  <2> DEFINE draft == [Command.next EXCEPT !.status = "restored"]
  <2>1. draft \in Docs
    BY <1>10, DraftTypes DEF RestoreStartup, ControlInv
  <2>2. writer' = [writer EXCEPT !["command"] = [writer["command"] EXCEPT !.at = "intent",
         !.prev = doc, !.next = draft]]
    BY <1>10 DEF RestoreStartup, Drafted, TypeOK
  <2>6. draft.status # "pending_verification"
    BY <1>10, <2>1 DEF RestoreStartup, TypeOK, ControlInv, Docs
  <2> HIDE DEF draft
  <2>3. writer' \in [Writers -> W]
    BY <1>10, <2>1, <2>2 DEF TypeOK
  <2>4. ScalarsOK'
    BY <1>10 DEF RestoreStartup, TypeOK, ScalarsOK
  <2>5. ControlInv'
    BY <1>10, <2>1, <2>2, <2>6 DEF RestoreStartup, TypeOK, ControlInv
  <2> QED BY <2>3, <2>4, <2>5, TypeParts
<1>11. CASE RestoreFails
  <2> DEFINE draft == [Command.next EXCEPT !.status = "partial_restore"]
  <2>1. draft \in Docs
    BY <1>11, DraftTypes DEF RestoreFails, ControlInv
  <2>2. writer' = [writer EXCEPT !["command"] = [writer["command"] EXCEPT !.at = "intent",
         !.prev = doc, !.next = draft]]
    BY <1>11 DEF RestoreFails, Drafted, MayFail, TypeOK
  <2>6. draft.status # "pending_verification"
    BY <1>11, <2>1 DEF RestoreFails, TypeOK, ControlInv, Docs
  <2> HIDE DEF draft
  <2>3. writer' \in [Writers -> W]
    BY <1>11, <2>1, <2>2 DEF TypeOK
  <2>4. ScalarsOK'
    <3>1. deaths \in Nat /\ doubts \in Nat /\ faults \in 0 .. MaxTrouble
      BY DEF TypeOK
    <3>2. faults' \in 0 .. MaxTrouble
      BY <1>11, <3>1, ObservationAssumption DEF RestoreFails, MayFail
    <3> QED BY <1>11, <3>2 DEF RestoreFails, TypeOK, ScalarsOK
  <2>5. ControlInv'
    BY <1>11, <2>1, <2>2, <2>6 DEF RestoreFails, TypeOK, ControlInv
  <2> QED BY <2>3, <2>4, <2>5, TypeParts
<1>12. ASSUME NEW w \in Writers, WriteIntent(w) PROVE TypeOK' /\ ControlInv'
  <2>1. writer' \in [Writers -> W]
    BY <1>12 DEF WriteIntent, TypeOK, Goes
  <2>2. ScalarsOK'
    BY <1>12 DEF WriteIntent, TypeOK, ScalarsOK
  <2>3. ControlInv'
    BY <1>12 DEF WriteIntent, TypeOK, ControlInv, Goes
  <2> QED BY <2>1, <2>2, <2>3, TypeParts
<1>13. ASSUME NEW w \in Writers, IntentFails(w) PROVE TypeOK' /\ ControlInv'
  <2>1. writer' \in [Writers -> W]
    BY <1>13 DEF IntentFails, TypeOK, Free
  <2>2. ScalarsOK'
    BY <1>13, ObservationAssumption DEF IntentFails, TypeOK, ScalarsOK, MayFail
  <2>3. ControlInv'
    BY <1>13 DEF IntentFails, TypeOK, ControlInv, Free
  <2> QED BY <2>1, <2>2, <2>3, TypeParts
<1>14. ASSUME NEW w \in Writers, Compare(w) PROVE TypeOK' /\ ControlInv'
  <2>1. writer' \in [Writers -> W]
    BY <1>14 DEF Compare, TypeOK, Goes
  <2>2. ScalarsOK'
    BY <1>14 DEF Compare, TypeOK, ScalarsOK
  <2>3. ControlInv'
    BY <1>14 DEF Compare, TypeOK, ControlInv, Goes
  <2> QED BY <2>1, <2>2, <2>3, TypeParts
<1>15. ASSUME NEW w \in Writers, ActionFails(w) PROVE TypeOK' /\ ControlInv'
  <2>1. writer' \in [Writers -> W]
    BY <1>15 DEF ActionFails, TypeOK, Goes
  <2>2. ScalarsOK'
    BY <1>15, ObservationAssumption DEF ActionFails, TypeOK, ScalarsOK, MayFail
  <2>3. ControlInv'
    BY <1>15 DEF ActionFails, TypeOK, ControlInv, Goes
  <2> QED BY <2>1, <2>2, <2>3, TypeParts
<1>16. ASSUME NEW w \in Writers, Replace(w) PROVE TypeOK' /\ ControlInv'
  <2>1. writer' \in [Writers -> W]
    BY <1>16 DEF Replace, TypeOK
  <2>2. ScalarsOK'
    BY <1>16 DEF Replace, TypeOK, ScalarsOK, ControlInv
  <2>3. ControlInv'
    BY <1>16 DEF Replace, TypeOK, ControlInv
  <2> QED BY <2>1, <2>2, <2>3, TypeParts
<1>17. ASSUME NEW w \in Writers, Confirm(w) PROVE TypeOK' /\ ControlInv'
  <2>1. writer' \in [Writers -> W]
    BY <1>17 DEF Confirm, TypeOK, Goes
  <2>2. ScalarsOK'
    BY <1>17 DEF Confirm, TypeOK, ScalarsOK
  <2>3. ControlInv'
    BY <1>17 DEF Confirm, TypeOK, ControlInv, Goes
  <2> QED BY <2>1, <2>2, <2>3, TypeParts
<1>18. ASSUME NEW w \in Writers, WriteResult(w) PROVE TypeOK' /\ ControlInv'
  <2>1. writer' \in [Writers -> W]
    BY <1>18 DEF WriteResult, TypeOK, Free, Loop
  <2>2. ScalarsOK'
    BY <1>18 DEF WriteResult, TypeOK, ScalarsOK
  <2>3. ControlInv'
    BY <1>18 DEF WriteResult, TypeOK, ControlInv, Free, Loop
  <2> QED BY <2>1, <2>2, <2>3, TypeParts
<1>19. ASSUME NEW w \in Writers, ResultFails(w) PROVE TypeOK' /\ ControlInv'
  <2>1. writer' \in [Writers -> W]
    BY <1>19 DEF ResultFails, TypeOK, Free
  <2>2. ScalarsOK'
    BY <1>19, ObservationAssumption DEF ResultFails, TypeOK, ScalarsOK, ControlInv, MayFail, Unfinished,
           Operation
  <2>3. ControlInv'
    BY <1>19 DEF ResultFails, TypeOK, ControlInv, Free
  <2> QED BY <2>1, <2>2, <2>3, TypeParts
<1>20. ASSUME NEW w \in Writers, Die(w) PROVE TypeOK' /\ ControlInv'
  <2>1. writer' \in [Writers -> W]
    BY <1>20 DEF Die, TypeOK, Free
  <2>2. ScalarsOK'
    BY <1>20, ObservationAssumption DEF Die, TypeOK, ScalarsOK, ControlInv, MayFail, Unfinished, Operation,
           NoSample
  <2>3. ControlInv'
    BY <1>20 DEF Die, TypeOK, ControlInv, Free
  <2> QED BY <2>1, <2>2, <2>3, TypeParts
<1>21. CASE Tick
  <2>1. writer' \in [Writers -> W]
    BY <1>21 DEF Tick, TypeOK
  <2>2. ScalarsOK'
    BY <1>21, ObservationAssumption DEF Tick, TypeOK, ScalarsOK
  <2>3. ControlInv'
    BY <1>21 DEF Tick, TypeOK, ControlInv
  <2> QED BY <2>1, <2>2, <2>3, TypeParts
<1>22. CASE Close
  <2>1. writer' \in [Writers -> W]
    BY <1>22 DEF Close, TypeOK
  <2>2. ScalarsOK'
    BY <1>22 DEF Close, TypeOK, ScalarsOK
  <2>3. ControlInv'
    BY <1>22 DEF Close, TypeOK, ControlInv
  <2> QED BY <2>1, <2>2, <2>3, TypeParts
<1>23. ASSUME NEW i \in DOMAIN Targets, Change(Targets[i]) PROVE TypeOK' /\ ControlInv'
  <2>1. writer' \in [Writers -> W]
    BY <1>23 DEF Change, TypeOK
  <2>2. ScalarsOK'
    BY <1>23, ObservationAssumption DEF Change, TypeOK, ScalarsOK, Targets
  <2>3. ControlInv'
    BY <1>23 DEF Change, TypeOK, ControlInv
  <2> QED BY <2>1, <2>2, <2>3, TypeParts
<1>24. CASE UNCHANGED vars
  BY <1>24 DEF vars, TypeOK, ControlInv
<1> QED BY <1>1, <1>2, <1>3, <1>4, <1>5, <1>6, <1>7, <1>8, <1>9, <1>10, <1>11, <1>12, <1>13,
       <1>14, <1>15, <1>16, <1>17, <1>18, <1>19, <1>20, <1>21, <1>22, <1>23, <1>24 DEF Next,
              Observe, Restore, Commit, CommitFails, Rest

-------------------------------------------------------------------------------
(* A completed observation is earned *)

\* What a case knows depends on what it says of the observation alone.
LEMMA EarnedSame ==
  ASSUME NEW d, NEW e, NEW S, e.lastSampleAt = d.lastSampleAt, e.incomplete = d.incomplete
  PROVE  Earned(d, S) <=> Earned(e, S)
BY DEF Earned, Knows

\* The case drafted after a sample knows of that sample too.
LEMMA JudgedKnows ==
  ASSUME NEW d \in Docs, d.observation = "observing",
         NEW S \in SUBSET [start : Nat, seen : SUBSET Seen], Knows(d, S),
         NEW s, s.start \in Nat, s.seen \in SUBSET Seen,
         \A u \in Starts(S) : u <= s.start,
         NEW T, T = S \union {[start |-> s.start, seen |-> s.seen]}
  PROVE  /\ Judged(d, s).observation = "observing" => Knows(Judged(d, s), T)
         /\ Judged(d, s).observation = "completed" => Earned(Judged(d, s), T)
<1> DEFINE e == Judged(d, s)
<1>1. /\ e.lastSampleAt = s.start /\ e.incomplete = Flawed(d, s)
      /\ e.observation = Verdict(d, s)
  BY DEF Judged, WithStatus, Docs
<1> DEFINE r == [start |-> s.start, seen |-> s.seen]
<1>2. Starts(T) = Starts(S) \union {s.start}
  <2>1. r.start = s.start /\ T = S \union {r}
    OBVIOUS
  <2> HIDE DEF r
  <2>2. \A u : u \in Starts(T) <=> u \in Starts(S) \union {s.start}
    BY <2>1 DEF Starts
  <2> QED BY <2>2
<1>3. d.lastSampleAt \in Nat /\ \A u \in Starts(S) : u \in Nat
  BY DEF Docs, Starts
<1>4. ASSUME ~Flawed(d, s), Outcome(s.seen) # "failed"
      PROVE  (\A q \in T : q.seen = {"absent"}) /\ Gapless(s.start, T)
  <2>1. ~d.incomplete /\ s.start <= d.lastSampleAt + 2 * Interval /\ s.seen = {"absent"}
    BY <1>3, <1>4, ObservationAssumption DEF Flawed, Outcome, Docs
  <2>2. (\A q \in S : q.seen = {"absent"}) /\ Gapless(d.lastSampleAt, S)
    BY <2>1 DEF Knows
  <2>3. ASSUME NEW u \in Starts(T) \ {s.start}
        PROVE  \E v \in Starts(T) : u < v /\ v <= u + 2 * Interval
    <3>1. u \in Starts(S)
      BY <1>2
    <3>2. CASE u = d.lastSampleAt
      <4>1. u < s.start
        BY <1>3, <3>1
      <4> QED BY <1>2, <2>1, <3>2, <4>1
    <3>3. CASE u # d.lastSampleAt
      BY <1>2, <2>2, <3>1, <3>3 DEF Gapless
    <3> QED BY <3>2, <3>3
  <2>4. \A q \in T : q.seen = {"absent"}
    <3>1. r.seen = s.seen /\ T = S \union {r}
      OBVIOUS
    <3> HIDE DEF r
    <3> QED BY <2>1, <2>2, <3>1
  <2> QED BY <2>3, <2>4 DEF Gapless
<1>5. s.start \in Starts(T) /\ \A u \in Starts(T) : u <= s.start
  BY <1>2
<1>6. e.observation \in {"observing", "completed"} => Knows(e, T)
  <2>1. ASSUME e.observation \in {"observing", "completed"}
        PROVE  Outcome(s.seen) # "failed"
    BY <1>1, <2>1 DEF Verdict
  <2> HIDE DEF e
  <2> QED BY <1>1, <1>4, <1>5, <2>1 DEF Knows
<1>7. e.observation = "completed" => ~e.incomplete /\ e.lastSampleAt >= Deadline
  <2>1. Verdict(d, s) = "completed" => ~Flawed(d, s) /\ ~(s.start < Deadline)
    BY DEF Verdict
  <2> QED BY <1>1, <2>1, ObservationAssumption DEF Deadline
<1> QED BY <1>6, <1>7 DEF Earned

\* Every step keeps what the observer's cases know.
LEMMA KnowledgeStep ==
  ASSUME TypeOK, ControlInv, KnowledgeInv, CompletedInv, Next \/ UNCHANGED vars
  PROVE  KnowledgeInv'
<1> USE DEF W, Writers, Committing, Observer, Command, At, world, observation, trouble
<1>0. writer \in [Writers -> W] /\ clock \in Nat
  BY TypeParts DEF ScalarsOK
<1>1. CASE SetTimer
  BY <1>1, <1>0 DEF SetTimer, ControlInv, KnowledgeInv, Active, Goes
<1>2. CASE Abandon
  BY <1>2, <1>0 DEF Abandon, ControlInv, KnowledgeInv, Free
<1>3. CASE LoadFails
  BY <1>3, <1>0 DEF LoadFails, ControlInv, KnowledgeInv, Free, Fired, MayFail
<1>4. CASE Interrupt
  BY <1>4, <1>0 DEF Interrupt, ControlInv, KnowledgeInv, Fired, Active, WithStatus
<1>5. CASE BeginSample
  <2>1. \A u \in Starts(samples) : u <= clock
    BY <1>0 DEF KnowledgeInv, Starts
  <2>2. Knows(doc, samples) /\ sample'.start = clock
    BY <1>5 DEF BeginSample, Fired, KnowledgeInv, NoSample
  <2> QED BY <1>5, <1>0, <2>1, <2>2 DEF BeginSample, ControlInv, KnowledgeInv
<1>6. ASSUME NEW seen \in {"absent", "present", "unknown"}, NEW journaled \in BOOLEAN,
       Check(seen, journaled) PROVE KnowledgeInv'
  BY <1>6, <1>0 DEF Check, ControlInv, KnowledgeInv, MayFail, Targets, Seen
<1>7. CASE EndSample
  <2> DEFINE e == Judged(Observer.prev, sample)
  <2>1. /\ Observer.prev \in Docs /\ Observer.prev.observation = "observing"
        /\ Knows(Observer.prev, samples)
        /\ sample.start \in Nat /\ sample.start <= clock
        /\ \A u \in Starts(samples) : u <= sample.start
    BY <1>7, TypeParts DEF EndSample, ControlInv, KnowledgeInv, Active, ScalarsOK
  <2>2. samples \subseteq [start : Nat, seen : SUBSET Seen] /\ sample.seen \in SUBSET Seen
    BY <1>0, TypeParts DEF ScalarsOK
  <2>3. /\ e.observation = "observing" => Knows(e, samples')
        /\ e.observation = "completed" => Earned(e, samples')
    BY <1>7, <2>1, <2>2, JudgedKnows DEF EndSample
  <2>4. Observer'.at = "intent" /\ Observer'.next = e
    BY <1>7, <1>0 DEF EndSample
  <2>5. \A s \in samples' : s.start <= clock
    BY <1>7, <2>1 DEF EndSample, KnowledgeInv
  <2> HIDE DEF e
  <2> QED BY <1>7, <2>3, <2>4, <2>5 DEF EndSample, KnowledgeInv
<1>8. CASE StartRestore
  BY <1>8, <1>0 DEF StartRestore, ControlInv, KnowledgeInv
<1>9. CASE RestoreFile
  BY <1>9, <1>0 DEF RestoreFile, ControlInv, KnowledgeInv
<1>10. CASE RestoreStartup
  BY <1>10, <1>0 DEF RestoreStartup, ControlInv, KnowledgeInv, Drafted
<1>11. CASE RestoreFails
  BY <1>11, <1>0 DEF RestoreFails, ControlInv, KnowledgeInv, Drafted, MayFail
<1>12. ASSUME NEW w \in Writers, WriteIntent(w) PROVE KnowledgeInv'
  BY <1>12, <1>0 DEF WriteIntent, ControlInv, KnowledgeInv, Goes
<1>13. ASSUME NEW w \in Writers, IntentFails(w) PROVE KnowledgeInv'
  BY <1>13, <1>0 DEF IntentFails, ControlInv, KnowledgeInv, Free, MayFail
<1>14. ASSUME NEW w \in Writers, Compare(w) PROVE KnowledgeInv'
  BY <1>14, <1>0 DEF Compare, ControlInv, KnowledgeInv, Goes
<1>15. ASSUME NEW w \in Writers, ActionFails(w) PROVE KnowledgeInv'
  BY <1>15, <1>0 DEF ActionFails, ControlInv, KnowledgeInv, Goes, MayFail
<1>16. ASSUME NEW w \in Writers, Replace(w) PROVE KnowledgeInv'
  <2>1. CASE w = "observer"
    BY <1>16, <1>0, <2>1 DEF Replace, ControlInv, KnowledgeInv
  <2>2. CASE w = "command"
    <3>1. ~Active(doc')
      BY <1>16, <2>2 DEF Replace, ControlInv, Active
    <3> QED BY <1>16, <1>0, <2>2, <3>1 DEF Replace, ControlInv, KnowledgeInv
  <2> QED BY <2>1, <2>2
<1>17. ASSUME NEW w \in Writers, Confirm(w) PROVE KnowledgeInv'
  <2>1. CASE w = "observer"
    <3>1. doc = Observer.next /\ Active(doc) => Knows(doc, samples)
      BY <1>17, <2>1 DEF Confirm, KnowledgeInv, Active
    <3> QED BY <1>17, <1>0, <2>1, <3>1 DEF Confirm, Goes, ControlInv, KnowledgeInv
  <2>2. CASE w = "command"
    BY <1>17, <1>0, <2>2 DEF Confirm, Goes, ControlInv, KnowledgeInv
  <2> QED BY <2>1, <2>2
<1>18. ASSUME NEW w \in Writers, WriteResult(w) PROVE KnowledgeInv'
  BY <1>18, <1>0 DEF WriteResult, ControlInv, KnowledgeInv, Free, Loop
<1>19. ASSUME NEW w \in Writers, ResultFails(w) PROVE KnowledgeInv'
  BY <1>19, <1>0 DEF ResultFails, ControlInv, KnowledgeInv, Free, MayFail, Unfinished, Operation
<1>20. ASSUME NEW w \in Writers, Die(w) PROVE KnowledgeInv'
  BY <1>20, <1>0 DEF Die, ControlInv, KnowledgeInv, Free, MayFail, Unfinished, Operation,
         NoSample
<1>21. CASE Tick
  <2>1. /\ \A s \in samples : s.start \in Nat
        /\ sample.start \in Nat
    BY <1>0, TypeParts DEF ScalarsOK
  <2>2. /\ \A s \in samples : s.start <= clock => s.start <= clock'
        /\ sample.start <= clock => sample.start <= clock'
    BY <1>21, <1>0, <2>1 DEF Tick
  <2> QED BY <1>21, <2>2 DEF Tick, ControlInv, KnowledgeInv
<1>22. CASE Close
  BY <1>22, <1>0 DEF Close, ControlInv, KnowledgeInv
<1>23. ASSUME NEW i \in DOMAIN Targets, Change(Targets[i]) PROVE KnowledgeInv'
  BY <1>23, <1>0 DEF Change, ControlInv, KnowledgeInv, Targets
<1>24. CASE UNCHANGED vars
  BY <1>24, <1>0 DEF vars, ControlInv, KnowledgeInv
<1> QED BY <1>1, <1>2, <1>3, <1>4, <1>5, <1>6, <1>7, <1>8, <1>9, <1>10, <1>11, <1>12, <1>13,
       <1>14, <1>15, <1>16, <1>17, <1>18, <1>19, <1>20, <1>21, <1>22, <1>23, <1>24 DEF Next,
              Observe, Restore, Commit, CommitFails, Rest

\* Every step keeps completed cases earned.
LEMMA CompletedStep ==
  ASSUME TypeOK, ControlInv, KnowledgeInv, CompletedInv, Next \/ UNCHANGED vars
  PROVE  CompletedInv'
<1> USE DEF W, Writers, Committing, Observer, Command, At, world, observation, trouble, Closed
<1>0. writer \in [Writers -> W] /\ clock \in Nat
  BY TypeParts DEF ScalarsOK
<1>1. CASE SetTimer
  BY <1>1, <1>0 DEF SetTimer, ControlInv, CompletedInv, Active, Goes
<1>2. CASE Abandon
  BY <1>2, <1>0 DEF Abandon, ControlInv, CompletedInv, Free
<1>3. CASE LoadFails
  BY <1>3, <1>0 DEF LoadFails, ControlInv, CompletedInv, Free, Fired, MayFail
<1>4. CASE Interrupt
  BY <1>4, <1>0 DEF Interrupt, ControlInv, CompletedInv, Fired, Active, WithStatus
<1>5. CASE BeginSample
  BY <1>5, <1>0 DEF BeginSample, ControlInv, CompletedInv, Fired, Active, NoSample
<1>6. ASSUME NEW seen \in {"absent", "present", "unknown"}, NEW journaled \in BOOLEAN,
       Check(seen, journaled) PROVE CompletedInv'
  BY <1>6, <1>0 DEF Check, ControlInv, CompletedInv, MayFail, Targets, Seen
<1>7. CASE EndSample
  BY <1>7, <1>0 DEF EndSample, ControlInv, CompletedInv, NoSample, Targets
<1>8. CASE StartRestore
  BY <1>8, <1>0 DEF StartRestore, ControlInv, CompletedInv
<1>9. CASE RestoreFile
  <2>1. /\ Command.next \in Docs /\ Command.at = "restoring"
        /\ Command'.next.observation = Command.next.observation
        /\ Command'.next.lastSampleAt = Command.next.lastSampleAt
        /\ Command'.next.incomplete = Command.next.incomplete
        /\ Observer' = Observer /\ doc' = doc /\ samples' = samples
    BY <1>9, <1>0 DEF RestoreFile, ControlInv, Docs
  <2>2. Earned(Command.next, samples) <=> Earned(Command'.next, samples)
    BY <2>1, EarnedSame
  <2> QED BY <2>1, <2>2 DEF CompletedInv
<1>10. CASE RestoreStartup
  <2>1. /\ Command.next \in Docs /\ Command.at = "restoring"
        /\ Command'.next.observation = Command.next.observation
        /\ Command'.next.lastSampleAt = Command.next.lastSampleAt
        /\ Command'.next.incomplete = Command.next.incomplete
        /\ Observer' = Observer /\ doc' = doc /\ samples' = samples
    BY <1>10, <1>0 DEF RestoreStartup, ControlInv, Docs, Drafted
  <2>2. Earned(Command.next, samples) <=> Earned(Command'.next, samples)
    BY <2>1, EarnedSame
  <2> QED BY <2>1, <2>2 DEF CompletedInv
<1>11. CASE RestoreFails
  <2>1. /\ Command.next \in Docs /\ Command.at = "restoring"
        /\ Command'.next.observation = Command.next.observation
        /\ Command'.next.lastSampleAt = Command.next.lastSampleAt
        /\ Command'.next.incomplete = Command.next.incomplete
        /\ Observer' = Observer /\ doc' = doc /\ samples' = samples
    BY <1>11, <1>0 DEF RestoreFails, ControlInv, Docs, Drafted, MayFail
  <2>2. Earned(Command.next, samples) <=> Earned(Command'.next, samples)
    BY <2>1, EarnedSame
  <2> QED BY <2>1, <2>2 DEF CompletedInv
<1>12. ASSUME NEW w \in Writers, WriteIntent(w) PROVE CompletedInv'
  BY <1>12, <1>0 DEF WriteIntent, ControlInv, CompletedInv, Goes
<1>13. ASSUME NEW w \in Writers, IntentFails(w) PROVE CompletedInv'
  BY <1>13, <1>0 DEF IntentFails, ControlInv, CompletedInv, Free, MayFail
<1>14. ASSUME NEW w \in Writers, Compare(w) PROVE CompletedInv'
  BY <1>14, <1>0 DEF Compare, ControlInv, CompletedInv, Goes
<1>15. ASSUME NEW w \in Writers, ActionFails(w) PROVE CompletedInv'
  BY <1>15, <1>0 DEF ActionFails, ControlInv, CompletedInv, Goes, MayFail
<1>16. ASSUME NEW w \in Writers, Replace(w) PROVE CompletedInv'
  <2>1. CASE w = "observer"
    BY <1>16, <1>0, <2>1 DEF Replace, KnowledgeInv, ControlInv, CompletedInv
  <2>2. CASE w = "command"
    BY <1>16, <1>0, <2>2 DEF Replace, ControlInv, CompletedInv
  <2> QED BY <2>1, <2>2
<1>17. ASSUME NEW w \in Writers, Confirm(w) PROVE CompletedInv'
  BY <1>17, <1>0 DEF Confirm, ControlInv, CompletedInv, Goes
<1>18. ASSUME NEW w \in Writers, WriteResult(w) PROVE CompletedInv'
  BY <1>18, <1>0 DEF WriteResult, ControlInv, CompletedInv, Free, Loop
<1>19. ASSUME NEW w \in Writers, ResultFails(w) PROVE CompletedInv'
  BY <1>19, <1>0 DEF ResultFails, ControlInv, CompletedInv, Free, MayFail, Unfinished, Operation
<1>20. ASSUME NEW w \in Writers, Die(w) PROVE CompletedInv'
  BY <1>20, <1>0 DEF Die, ControlInv, CompletedInv, Free, MayFail, Unfinished, Operation,
         NoSample
<1>21. CASE Tick
  BY <1>21, <1>0 DEF Tick, ControlInv, CompletedInv
<1>22. CASE Close
  BY <1>22, <1>0 DEF Close, ControlInv, CompletedInv
<1>23. ASSUME NEW i \in DOMAIN Targets, Change(Targets[i]) PROVE CompletedInv'
  BY <1>23, <1>0 DEF Change, ControlInv, CompletedInv, Targets
<1>24. CASE UNCHANGED vars
  BY <1>24, <1>0 DEF vars, ControlInv, CompletedInv
<1> QED BY <1>1, <1>2, <1>3, <1>4, <1>5, <1>6, <1>7, <1>8, <1>9, <1>10, <1>11, <1>12, <1>13,
       <1>14, <1>15, <1>16, <1>17, <1>18, <1>19, <1>20, <1>21, <1>22, <1>23, <1>24 DEF Next,
              Observe, Restore, Commit, CommitFails, Rest

-------------------------------------------------------------------------------
(* A restored case stays restored *)

\* Every step keeps the observer away from a restored case, unless it was overtaken.
LEMMA CrossingStep ==
  ASSUME TypeOK, ControlInv, CrossingInv, Next \/ UNCHANGED vars
  PROVE  CrossingInv'
<1> USE DEF W, Writers, Committing, Observer, Command, At, world, observation, trouble
<1>0. writer \in [Writers -> W] /\ clock \in Nat
  BY TypeParts DEF ScalarsOK
<1>1. CASE SetTimer
  BY <1>1, <1>0 DEF SetTimer, ControlInv, CrossingInv, Active, Goes
<1>2. CASE Abandon
  BY <1>2, <1>0 DEF Abandon, ControlInv, CrossingInv, Free
<1>3. CASE LoadFails
  BY <1>3, <1>0 DEF LoadFails, ControlInv, CrossingInv, Free, Fired, MayFail
<1>4. CASE Interrupt
  BY <1>4, <1>0 DEF Interrupt, ControlInv, CrossingInv, Fired, Active, WithStatus
<1>5. CASE BeginSample
  BY <1>5, <1>0 DEF BeginSample, ControlInv, CrossingInv, Fired, Active, NoSample
<1>6. ASSUME NEW seen \in {"absent", "present", "unknown"}, NEW journaled \in BOOLEAN,
       Check(seen, journaled) PROVE CrossingInv'
  BY <1>6, <1>0 DEF Check, ControlInv, CrossingInv, MayFail, Targets, Seen
<1>7. CASE EndSample
  <2>1. Judged(Observer.prev, sample).status # "restored"
    <3>1. Observer.prev \in Docs
      BY <1>7 DEF EndSample, ControlInv
    <3> QED BY <3>1 DEF Judged, WithStatus, Docs
  <2> DEFINE e == Judged(Observer.prev, sample)
  <2>2. Observer'.at = "intent" /\ Observer'.next = e /\ Command' = Command /\ doc' = doc
    BY <1>7, <1>0 DEF EndSample
  <2> HIDE DEF e
  <2> QED BY <2>1, <2>2 DEF CrossingInv, e
<1>8. CASE StartRestore
  BY <1>8, <1>0 DEF StartRestore, ControlInv, CrossingInv
<1>9. CASE RestoreFile
  BY <1>9, <1>0 DEF RestoreFile, ControlInv, CrossingInv
<1>10. CASE RestoreStartup
  BY <1>10, <1>0 DEF RestoreStartup, ControlInv, CrossingInv, Drafted
<1>11. CASE RestoreFails
  BY <1>11, <1>0 DEF RestoreFails, ControlInv, CrossingInv, Drafted, MayFail
<1>12. ASSUME NEW w \in Writers, WriteIntent(w) PROVE CrossingInv'
  BY <1>12, <1>0 DEF WriteIntent, ControlInv, CrossingInv, Goes
<1>13. ASSUME NEW w \in Writers, IntentFails(w) PROVE CrossingInv'
  BY <1>13, <1>0 DEF IntentFails, ControlInv, CrossingInv, Free, MayFail
<1>14. ASSUME NEW w \in Writers, Compare(w) PROVE CrossingInv'
  <2>1. CASE w = "observer"
    <3>1. Observer.prev.status = "pending_verification"
      BY <1>14, <2>1 DEF Compare, ControlInv, Active
    <3> QED BY <1>14, <1>0, <2>1, <3>1 DEF Compare, Differs, Goes, ControlInv, CrossingInv
  <2>2. CASE w = "command"
    BY <1>14, <1>0, <2>2 DEF Compare, Goes, ControlInv, CrossingInv
  <2> QED BY <2>1, <2>2
<1>15. ASSUME NEW w \in Writers, ActionFails(w) PROVE CrossingInv'
  BY <1>15, <1>0 DEF ActionFails, ControlInv, CrossingInv, Goes, MayFail
<1>16. ASSUME NEW w \in Writers, Replace(w) PROVE CrossingInv'
  BY <1>16, <1>0 DEF Replace, ControlInv, CrossingInv
<1>17. ASSUME NEW w \in Writers, Confirm(w) PROVE CrossingInv'
  BY <1>17, <1>0 DEF Confirm, ControlInv, CrossingInv, Goes
<1>18. ASSUME NEW w \in Writers, WriteResult(w) PROVE CrossingInv'
  BY <1>18, <1>0 DEF WriteResult, ControlInv, CrossingInv, Free, Loop
<1>19. ASSUME NEW w \in Writers, ResultFails(w) PROVE CrossingInv'
  BY <1>19, <1>0 DEF ResultFails, ControlInv, CrossingInv, Free, MayFail, Unfinished, Operation
<1>20. ASSUME NEW w \in Writers, Die(w) PROVE CrossingInv'
  BY <1>20, <1>0 DEF Die, ControlInv, CrossingInv, Free, MayFail, Unfinished, Operation,
         NoSample
<1>21. CASE Tick
  BY <1>21, <1>0 DEF Tick, ControlInv, CrossingInv
<1>22. CASE Close
  BY <1>22, <1>0 DEF Close, ControlInv, CrossingInv
<1>23. ASSUME NEW i \in DOMAIN Targets, Change(Targets[i]) PROVE CrossingInv'
  BY <1>23, <1>0 DEF Change, ControlInv, CrossingInv, Targets
<1>24. CASE UNCHANGED vars
  BY <1>24, <1>0 DEF vars, ControlInv, CrossingInv
<1> QED BY <1>1, <1>2, <1>3, <1>4, <1>5, <1>6, <1>7, <1>8, <1>9, <1>10, <1>11, <1>12, <1>13,
       <1>14, <1>15, <1>16, <1>17, <1>18, <1>19, <1>20, <1>21, <1>22, <1>23, <1>24 DEF Next,
              Observe, Restore, Commit, CommitFails, Rest

-------------------------------------------------------------------------------
(* Types, completion and restoration: the theorems *)

\* A case that was just saved knows of no sample, because there is none.
LEMMA Initial == Init => IInv
<1> SUFFICES ASSUME Init PROVE IInv
  OBVIOUS
<1>1. writer \in [Writers -> W] /\ Observer = Loop /\ Command = Free("command")
  BY DEF Init, Writers, W, Places, Loop, Free, Observer, Command
<1>2. ScalarsOK
  <2>1. doc \in Docs
    BY ObservationAssumption DEF Init, Docs, Statuses, Verdicts
  <2>2. sample \in [start : 0 .. MaxTime, seen : SUBSET Seen, made : 0 .. Len(Targets)]
    BY ObservationAssumption DEF Init, NoSample, Targets
  <2>3. present \subseteq {Targets[i] : i \in DOMAIN Targets}
    BY DEF Init
  <2>4. /\ clock \in 0 .. MaxTime /\ wake \in 0 .. MaxTime
        /\ commands \in 0 .. MaxCommands /\ deaths \in 0 .. MaxTrouble
        /\ faults \in 0 .. MaxTrouble /\ doubts \in 0 .. MaxTrouble /\ changes \in 0 .. MaxChanges
    BY ObservationAssumption DEF Init
  <2>5. samples = {} /\ lost = {} /\ stopped = FALSE /\ crossed = FALSE
    BY DEF Init
  <2> QED BY <2>1, <2>2, <2>3, <2>4, <2>5 DEF ScalarsOK
<1>3. ControlInv
  BY <1>1 DEF ControlInv, Loop, Free, Committing
<1>4. KnowledgeInv
  <2>1. Starts(samples) = {0} /\ samples = {} /\ doc.lastSampleAt = 0 /\ clock = 0
    BY DEF Init, Starts
  <2>2. Knows(doc, samples)
    BY <2>1 DEF Knows, Gapless
  <2> QED BY <1>1, <2>1, <2>2 DEF KnowledgeInv, Loop, Free, Committing
<1>5. CompletedInv
  BY <1>1 DEF Init, CompletedInv, Free
<1>6. CrossingInv
  BY <1>1 DEF CrossingInv, Loop, Free, Committing
<1> QED BY <1>1, <1>2, <1>3, <1>4, <1>5, <1>6, TypeParts DEF IInv

\* The inductive invariant holds in every behaviour.
LEMMA Inductive == Spec => []IInv
<1>1. IInv /\ [Next]_vars => IInv'
  BY TypeStep, KnowledgeStep, CompletedStep, CrossingStep DEF IInv
<1> QED BY Initial, <1>1, PTL DEF Spec

\* The variables of the observation, the command and their commits keep their types,
\* for every window, interval and bound.
THEOREM TypesHold == Spec => []TypeOK
<1>1. IInv => TypeOK
  BY DEF IInv
<1> QED BY Inductive, <1>1, PTL

\* An observation recorded as completed is earned, whatever the two processes, their
\* deaths and their failed writes do to the case in between (sampleObservation).
THEOREM CompletedEarned == Spec => []CompletedIsEarned
<1>1. IInv => CompletedIsEarned
  <2> SUFFICES ASSUME IInv, doc.observation = "completed" PROVE CompletedIsEarned
    BY DEF CompletedIsEarned
  <2>1. Earned(doc, samples)
    BY DEF IInv, CompletedInv
  <2> QED BY <2>1 DEF Earned, Knows, Gapless, Starts, CompletedIsEarned
<1> QED BY Inductive, <1>1, PTL

\* A restored case is replaced only by an observer whose comparison the command's rename
\* overtook (commitCaseExpected), whatever else happens.
THEOREM RestoredIsSafe == Spec => RestoredStays
<1> DEFINE Stays == doc.status = "restored" /\ doc'.status # "restored" => crossed
<1>1. IInv /\ [Next]_vars => [Stays]_vars
  <2> SUFFICES ASSUME IInv, [Next]_vars, doc.status = "restored", doc'.status # "restored"
               PROVE  crossed
    OBVIOUS
  <2>1. PICK w \in Writers : Replace(w)
    BY DEF Next, vars, Observe, SetTimer, Abandon, LoadFails, Interrupt, BeginSample, Check,
           EndSample, Restore, StartRestore, RestoreFile, RestoreStartup, RestoreFails, Commit,
           CommitFails, WriteIntent, IntentFails, Compare, ActionFails, Confirm, WriteResult,
           ResultFails, Die, Tick, Close, Change, Rest
  <2>2. CASE w = "observer"
    BY <2>1, <2>2 DEF Replace, At, IInv, CrossingInv, Observer
  <2>3. CASE w = "command"
    BY <2>1, <2>3 DEF Replace, At, IInv, CrossingInv, Command
  <2> QED BY <2>2, <2>3 DEF Writers
<1> QED BY Inductive, <1>1, PTL DEF Spec, RestoredStays

-------------------------------------------------------------------------------
(* The verdict is told *)

\* Nothing failed, nobody died and nobody asked for a restore.
Undisturbed == faults = 0 /\ deaths = 0 /\ commands = 0

\* Case d says what the samples S saw, and "interrupted" only of a stop.
Tells(d, S) ==
  /\ d.observation = "failed" <=> \E s \in S : "present" \in s.seen
  /\ d.observation = "interrupted" => stopped

\* While nothing is disturbed the observer faces the case it works from, and what it
\* has in hand, or has saved, says what its samples saw.
ToldInv ==
  /\ commands = 0 => Command.at = "idle"
  /\ Undisturbed =>
       /\ Observer.at # "failed"
       /\ Observer.at \in {"loop", "sleep", "sample", "intent", "compare", "replace"} => Active(doc)
       /\ Observer.at \in {"sample", "intent", "compare", "replace"} => doc = Observer.prev
       /\ Observer.at \in {"confirm", "committed"} => doc = Observer.next
       /\ Observer.at \in Committing =>
            /\ Tells(Observer.next, samples)
            /\ Observer.next.observation = "observing" => Active(Observer.next)
       /\ Observer.at \notin Committing => Tells(doc, samples)
       /\ Observer.at = "done" => doc.observation # "observing"

\* The case drafted after a sample says what that sample saw as well.
LEMMA JudgedTells ==
  ASSUME NEW d \in Docs, Active(d), NEW S, Tells(d, S), NEW s
  PROVE  /\ Tells(Judged(d, s), S \union {[start |-> s.start, seen |-> s.seen]})
         /\ Judged(d, s).observation = "observing" => Active(Judged(d, s))
<1> DEFINE e == Judged(d, s)
           r == [start |-> s.start, seen |-> s.seen]
<1>1. /\ e.observation = Verdict(d, s) /\ e.file = d.file
      /\ e.status = IF e.observation = "failed" THEN "partial_failure" ELSE "pending_verification"
  BY DEF Judged, WithStatus, Docs
<1>2. /\ Verdict(d, s) = "failed" <=> "present" \in s.seen
      /\ Verdict(d, s) # "interrupted"
  BY DEF Verdict, Outcome
<1>3. r.seen = s.seen /\ \A q \in S : "present" \notin q.seen
  BY DEF Tells, Active
<1> HIDE DEF e, r
<1>4. (\E q \in S \union {r} : "present" \in q.seen) <=> "present" \in s.seen
  BY <1>3
<1> QED BY <1>1, <1>2, <1>4 DEF Tells, Active, e, r

\* Every step keeps the undisturbed observer telling what it saw.
LEMMA ToldStep ==
  ASSUME TypeOK, ControlInv, ToldInv, Next \/ UNCHANGED vars
  PROVE  ToldInv'
<1> USE DEF W, Writers, Committing, Observer, Command, At, world, observation, trouble, Undisturbed
<1>0. /\ writer \in [Writers -> W] /\ clock \in Nat
      /\ faults \in Nat /\ deaths \in Nat /\ commands \in Nat
  BY TypeParts DEF ScalarsOK
<1>1. CASE SetTimer
  BY <1>1, <1>0 DEF SetTimer, ControlInv, ToldInv, Active, Goes, Tells
<1>2. CASE Abandon
  BY <1>2, <1>0 DEF Abandon, ControlInv, ToldInv, Free, Fired
<1>3. CASE LoadFails
  BY <1>3, <1>0 DEF LoadFails, ControlInv, ToldInv, Free, Fired, MayFail
<1>4. CASE Interrupt
  <2> DEFINE e == WithStatus([doc EXCEPT !.observation = "interrupted"])
  <2>1. doc \in Docs /\ Active(doc) /\ stopped
    BY <1>4, TypeParts DEF Interrupt, ScalarsOK
  <2>2. e.observation = "interrupted"
    BY <2>1 DEF WithStatus, Docs
  <2>3. Tells(doc, samples) => Tells(e, samples)
    BY <2>1, <2>2 DEF Tells, Active
  <2>4. /\ Observer' = [at |-> "intent", prev |-> doc, did |-> FALSE, next |-> e]
        /\ Command' = Command /\ Observer.at = "sleep"
    BY <1>4, <1>0 DEF Interrupt, Fired
  <2> HIDE DEF e
  <2> QED BY <1>4, <1>0, <2>1, <2>2, <2>3, <2>4 DEF Interrupt, ToldInv, Tells, Active
<1>5. CASE BeginSample
  BY <1>5, <1>0 DEF BeginSample, ControlInv, ToldInv, Fired, Active, NoSample, Tells
<1>6. ASSUME NEW seen \in {"absent", "present", "unknown"}, NEW journaled \in BOOLEAN,
       Check(seen, journaled) PROVE ToldInv'
  BY <1>6, <1>0 DEF Check, ControlInv, ToldInv, MayFail, Targets, Seen, Active, Tells
<1>7. CASE EndSample
  <2> DEFINE e == Judged(Observer.prev, sample)
  <2>1. Observer.prev \in Docs /\ Active(Observer.prev) /\ Observer.at = "sample"
    BY <1>7 DEF EndSample, ControlInv
  <2>2. Tells(Observer.prev, samples) =>
           Tells(e, samples') /\ (e.observation = "observing" => Active(e))
    BY <1>7, <2>1, JudgedTells DEF EndSample
  <2>3. /\ Observer'.at = "intent" /\ Observer'.next = e /\ Observer'.prev = Observer.prev
        /\ Command' = Command
        /\ UNCHANGED <<doc, stopped, faults, deaths, commands>>
    BY <1>7, <1>0 DEF EndSample
  <2>4. Undisturbed => doc = Observer.prev /\ Active(doc) /\ Tells(Observer.prev, samples)
    BY <2>1 DEF ToldInv
  <2> HIDE DEF e
  <2>5. ToldInv => (commands = 0 => Command.at = "idle")
    BY DEF ToldInv
  <2>6. Tells(e, samples') => Tells(Observer.next, samples)'
    BY <2>3 DEF Tells
  <2>7. /\ Active(doc) => Active(doc)'
        /\ Active(e) => Active(Observer.next)'
    BY <2>3 DEF Active
  <2> QED BY <2>2, <2>3, <2>4, <2>5, <2>6, <2>7 DEF ToldInv
<1>8. CASE StartRestore
  BY <1>8, <1>0 DEF StartRestore, ControlInv, ToldInv
<1>9. CASE RestoreFile
  BY <1>9, <1>0 DEF RestoreFile, ControlInv, ToldInv
<1>10. CASE RestoreStartup
  BY <1>10, <1>0 DEF RestoreStartup, ControlInv, ToldInv, Drafted
<1>11. CASE RestoreFails
  BY <1>11, <1>0 DEF RestoreFails, ControlInv, ToldInv, Drafted, MayFail
<1>12. ASSUME NEW w \in Writers, WriteIntent(w) PROVE ToldInv'
  BY <1>12, <1>0 DEF WriteIntent, ControlInv, ToldInv, Goes, Active, Tells
<1>13. ASSUME NEW w \in Writers, IntentFails(w) PROVE ToldInv'
  BY <1>13, <1>0 DEF IntentFails, ControlInv, ToldInv, Free, MayFail
<1>14. ASSUME NEW w \in Writers, Compare(w) PROVE ToldInv'
  BY <1>14, <1>0 DEF Compare, Differs, ControlInv, ToldInv, Goes, Active, Tells
<1>15. ASSUME NEW w \in Writers, ActionFails(w) PROVE ToldInv'
  BY <1>15, <1>0 DEF ActionFails, ControlInv, ToldInv, Goes, MayFail
<1>16. ASSUME NEW w \in Writers, Replace(w) PROVE ToldInv'
  BY <1>16, <1>0 DEF Replace, ControlInv, ToldInv, Active, Tells
<1>17. ASSUME NEW w \in Writers, Confirm(w) PROVE ToldInv'
  BY <1>17, <1>0 DEF Confirm, ControlInv, ToldInv, Goes, Active, Tells
<1>18. ASSUME NEW w \in Writers, WriteResult(w) PROVE ToldInv'
  BY <1>18, <1>0 DEF WriteResult, ControlInv, ToldInv, Free, Loop, Active, Tells
<1>19. ASSUME NEW w \in Writers, ResultFails(w) PROVE ToldInv'
  BY <1>19, <1>0 DEF ResultFails, ControlInv, ToldInv, Free, MayFail
<1>20. ASSUME NEW w \in Writers, Die(w) PROVE ToldInv'
  BY <1>20, <1>0 DEF Die, ControlInv, ToldInv, Free, MayFail
<1>21. CASE Tick
  BY <1>21, <1>0 DEF Tick, ControlInv, ToldInv, Active, Tells
<1>22. CASE Close
  BY <1>22, <1>0 DEF Close, ControlInv, ToldInv, Active, Tells
<1>23. ASSUME NEW i \in DOMAIN Targets, Change(Targets[i]) PROVE ToldInv'
  BY <1>23, <1>0 DEF Change, ControlInv, ToldInv, Targets, Active, Tells
<1>24. CASE UNCHANGED vars
  BY <1>24, <1>0 DEF vars, ControlInv, ToldInv, Active, Tells
<1> QED BY <1>1, <1>2, <1>3, <1>4, <1>5, <1>6, <1>7, <1>8, <1>9, <1>10, <1>11, <1>12, <1>13,
       <1>14, <1>15, <1>16, <1>17, <1>18, <1>19, <1>20, <1>21, <1>22, <1>23, <1>24 DEF Next,
              Observe, Restore, Commit, CommitFails, Rest

-------------------------------------------------------------------------------
(* Cases only go forward *)

\* How far the observation of a case has come: every sample that is committed, and
\* every end, takes it further, and only the observer does that.
Rank(d) == 2 * d.lastSampleAt + (IF d.observation = "observing" THEN 0 ELSE 1)
Drafts == {"intent", "compare", "replace"}
Unrestored == {"pending_verification", "partial_failure"}

\* The observer o, facing the case file f, will not write a case behind d.
Below(d, o, f) ==
  /\ o.at \in Drafts => Rank(d) < Rank(o.next)
  /\ o.at = "sample" => Rank(d) <= Rank(o.prev)
  /\ Active(f) => Rank(d) <= Rank(f)

\* Case d cannot be followed by old.
Past(d, old) ==
  \/ d.status = "restored" \/ Rank(d) > Rank(old)
  \/ d.file = "restored" /\ old.file = "quarantined"

\* A case that is never written again: the observer o is beyond it, and so is the
\* command c if it is one that the command wrote.
Dead(old, o, c, f) ==
  /\ Below(old, o, f)
  /\ old.status \in Unrestored /\ f.status \in Unrestored => Rank(old) < Rank(f)
  /\ old.status \notin Unrestored =>
       /\ old.status = "partial_restore" /\ Past(f, old)
       /\ c.at \in Drafts \union {"restoring"} => Past(c.next, old)

\* A sample starts after the one before it, while the window is open.
TimeInv ==
  /\ Active(doc) => doc.lastSampleAt < Deadline /\ doc.lastSampleAt <= clock
  /\ Observer.at = "sleep" /\ Active(doc) => doc.lastSampleAt < wake
  /\ Observer.at = "sample" => Observer.prev.lastSampleAt < sample.start
  /\ Observer.at \in Drafts =>
       /\ Rank(Observer.prev) < Rank(Observer.next) /\ Observer.next.status \in Unrestored
       /\ Active(Observer.next) =>
            Observer.next.lastSampleAt < Deadline /\ Observer.next.lastSampleAt <= clock

\* The command works on the case it read or one that is restored a little more, and the
\* observer is not behind it.
OrderInv ==
  /\ Below(doc, Observer, doc)
  /\ Command.at \in Drafts \union {"restoring"} => Below(Command.next, Observer, doc)
  /\ Command.at = "restoring" =>
       /\ Command.next.status # "restored"
       /\ doc.status \notin Unrestored =>
            /\ doc.status = "partial_restore"
            /\ Command.next \in {doc, [doc EXCEPT !.file = "restored"]}
  /\ Command.at \in Drafts =>
       /\ Below(Command.prev, Observer, doc) /\ Command.next.status \notin Unrestored
       /\ Command.prev.status \in Unrestored \union {"partial_restore"}
       /\ Command.prev.status = "partial_restore" =>
            Command.prev = Command.next \/ Past(Command.next, Command.prev)

\* A commit that replaced the file replaced a case that never comes back.
Settled(operation) ==
  operation.prev = operation.next \/ Dead(operation.prev, Observer, Command, doc)
DidInv ==
  /\ \A w \in Writers : writer[w].did =>
       writer[w].at \in {"confirm", "committed", "failed"} /\ Settled(writer[w])
  /\ \A operation \in lost : operation.did => Settled(operation)

\* A step that neither writer takes.
Still ==
  /\ UNCHANGED <<writer, doc, lost, wake>>
  /\ clock <= clock' /\ sample'.start = sample.start

\* Writer w goes on to another place of its commit.
Advances(w) ==
  /\ writer[w].at \in Drafts \union {"confirm"}
  /\ \E place \in Drafts \union {"committed", "failed"} :
       Goes(w, place) /\ (place \in Drafts => writer[w].at \in Drafts)
  /\ UNCHANGED <<clock, doc, lost, wake, sample>>

\* Writer w has done, or is dead; its commit may be left in the journal.
Leaves(w) ==
  /\ \/ writer' = [writer EXCEPT ![w] = Free(w)]
     \/ (w = "observer" /\ writer' = [writer EXCEPT ![w] = Loop])
  /\ lost' \subseteq lost \union {Operation(w)}
  /\ UNCHANGED <<clock, doc>>
  /\ w = "command" => UNCHANGED <<wake, sample>>

\* What a step does to the writers and the case.
LEMMA Moves ==
  ASSUME TypeOK, Next \/ UNCHANGED vars
  PROVE  \/ Still \/ SetTimer \/ Interrupt \/ BeginSample \/ EndSample
         \/ StartRestore \/ RestoreFile \/ RestoreStartup \/ RestoreFails
         \/ \E w \in Writers : Advances(w) \/ Leaves(w) \/ Replace(w)
<1> USE DEF world, observation, trouble
<1>0. writer \in [Writers -> W] /\ clock \in Nat
  BY TypeParts DEF ScalarsOK
<1>1. CASE Abandon \/ LoadFails
  <2>1. "observer" \in Writers /\ Leaves("observer")
    BY <1>1 DEF Abandon, LoadFails, Leaves, Writers
  <2> QED BY <2>1
<1>2. ASSUME NEW seen \in {"absent", "present", "unknown"}, NEW journaled \in BOOLEAN,
       Check(seen, journaled) PROVE Still
  <2>1. sample'.start = sample.start
    BY <1>2, TypeParts DEF Check, ScalarsOK
  <2> QED BY <1>0, <1>2, <2>1 DEF Check, Still
<1>3. ASSUME NEW w \in Writers, Commit(w) \/ CommitFails(w) \/ Die(w)
      PROVE  Advances(w) \/ Leaves(w) \/ Replace(w)
  <2>1. CASE WriteIntent(w) \/ Compare(w) \/ ActionFails(w) \/ Confirm(w)
    BY <2>1 DEF WriteIntent, Compare, ActionFails, Confirm, Advances, At, Goes, Drafts
  <2>2. CASE IntentFails(w) \/ ResultFails(w)
    BY <2>2 DEF IntentFails, ResultFails, Unfinished, Leaves
  <2>3. CASE WriteResult(w)
    BY <2>3 DEF WriteResult, Leaves
  <2>4. CASE Die(w)
    BY <2>4 DEF Die, Unfinished, Leaves, Writers
  <2> QED BY <1>3, <2>1, <2>2, <2>3, <2>4 DEF Commit, CommitFails
<1>4. CASE Tick
  BY <1>0, <1>4 DEF Tick, Still
<1>5. CASE Close
  BY <1>0, <1>5 DEF Close, Still
<1>6. ASSUME NEW i \in DOMAIN Targets, Change(Targets[i]) PROVE Still
  BY <1>0, <1>6 DEF Change, Still
<1>7. CASE UNCHANGED vars
  BY <1>0, <1>7 DEF vars, Still
<1> QED BY <1>1, <1>2, <1>3, <1>4, <1>5, <1>6, <1>7 DEF Next, Observe, Restore, Rest

\* Ranks are numbers, and the rank of a case says nothing of what was restored of it.
LEMMA RankIs ==
  ASSUME NEW d \in Docs
  PROVE  /\ Rank(d) \in Nat /\ d.lastSampleAt \in Nat
         /\ d.observation = "observing" => Rank(d) = 2 * d.lastSampleAt
         /\ Rank(d) >= 2 * d.lastSampleAt
         /\ Rank([d EXCEPT !.file = "restored"]) = Rank(d)
         /\ \A s : Rank([d EXCEPT !.status = s]) = Rank(d)
<1>1. d.lastSampleAt \in Nat
  BY ObservationAssumption DEF Docs
<1>2. /\ [d EXCEPT !.file = "restored"].lastSampleAt = d.lastSampleAt
      /\ [d EXCEPT !.file = "restored"].observation = d.observation
      /\ \A s : /\ [d EXCEPT !.status = s].lastSampleAt = d.lastSampleAt
                /\ [d EXCEPT !.status = s].observation = d.observation
  BY DEF Docs
<1> QED BY <1>1, <1>2 DEF Rank

\* An observation that ends or is sampled comes further.
LEMMA DraftRanks ==
  ASSUME NEW d \in Docs, Active(d)
  PROVE  /\ LET e == WithStatus([d EXCEPT !.observation = "interrupted"])
            IN  Rank(d) < Rank(e) /\ e.status \in Unrestored /\ ~Active(e)
         /\ \A s \in [start : 0 .. MaxTime, seen : SUBSET Seen, made : 0 .. Len(Targets)] :
              LET e == Judged(d, s)
              IN  /\ e.status \in Unrestored
                  /\ d.lastSampleAt < s.start => Rank(d) < Rank(e)
                  /\ Active(e) => s.start < Deadline /\ e.lastSampleAt = s.start
<1> DEFINE i == WithStatus([d EXCEPT !.observation = "interrupted"])
<1>1. i.observation = "interrupted" /\ i.lastSampleAt = d.lastSampleAt /\ i.status \in Unrestored
  BY DEF WithStatus, Docs, Unrestored
<1>2. d.lastSampleAt \in Nat /\ Rank(d) = 2 * d.lastSampleAt
  BY RankIs DEF Active
<1> HIDE DEF i
<1>3. Rank(i) = 2 * d.lastSampleAt + 1
  BY <1>1 DEF Rank
<1>4. Rank(d) < Rank(i) /\ ~Active(i)
  BY <1>1, <1>2, <1>3 DEF Active
<1>5. ASSUME NEW s \in [start : 0 .. MaxTime, seen : SUBSET Seen, made : 0 .. Len(Targets)]
      PROVE  LET e == Judged(d, s)
             IN  /\ e.status \in Unrestored
                 /\ d.lastSampleAt < s.start => Rank(d) < Rank(e)
                 /\ Active(e) => s.start < Deadline /\ e.lastSampleAt = s.start
  <2> DEFINE e == Judged(d, s)
  <2>1. /\ e.lastSampleAt = s.start /\ e.observation = Verdict(d, s)
        /\ e.status \in Unrestored
    BY DEF Judged, WithStatus, Docs, Unrestored
  <2>2. Verdict(d, s) = "observing" => s.start < Deadline
    BY DEF Verdict
  <2>3. e \in Docs /\ s.start \in Nat
    BY JudgedTypes, ObservationAssumption
  <2> HIDE DEF e
  <2>4. Rank(e) \in Nat /\ Rank(e) >= 2 * s.start
    BY <2>1, <2>3, RankIs
  <2>5. d.lastSampleAt < s.start => Rank(d) < Rank(e)
    BY <1>2, <2>3, <2>4
  <2> QED BY <2>1, <2>2, <2>5 DEF Active, e
<1> QED BY <1>1, <1>4, <1>5 DEF i

\* Every step keeps the samples in order.
LEMMA TimeStep ==
  ASSUME TypeOK, ControlInv, KnowledgeInv, TimeInv, TypeOK', Next \/ UNCHANGED vars
  PROVE  TimeInv'
<1> USE DEF W, Writers, Observer, Command, At, Drafts
<1>0. /\ writer \in [Writers -> W] /\ doc \in Docs /\ clock \in Nat /\ wake \in Nat
      /\ doc.lastSampleAt \in Nat /\ Deadline \in Nat /\ clock' \in Nat
      /\ sample \in [start : 0 .. MaxTime, seen : SUBSET Seen, made : 0 .. Len(Targets)]
  <2>1. writer \in [Writers -> W] /\ ScalarsOK /\ ScalarsOK'
    BY TypeParts
  <2>2. doc \in Docs /\ doc.lastSampleAt \in Nat
    BY <2>1, RankIs DEF ScalarsOK
  <2>3. clock \in Nat /\ wake \in Nat /\ clock' \in Nat /\ Deadline \in Nat
    BY <2>1, ObservationAssumption DEF ScalarsOK, Deadline
  <2> QED BY <2>1, <2>2, <2>3 DEF ScalarsOK
<1>1. CASE Still
  <2>1. \A d : d.lastSampleAt <= clock /\ d.lastSampleAt \in Nat => d.lastSampleAt <= clock'
    BY <1>0, <1>1 DEF Still
  <2>2. Observer.at \in Drafts => Observer.next.lastSampleAt \in Nat
    BY RankIs DEF ControlInv, Committing
  <2> QED BY <1>0, <1>1, <2>1, <2>2 DEF Still, TimeInv, Rank
<1>2. CASE SetTimer
  <2>1. Active(doc) => doc.lastSampleAt < wake'
    BY <1>0, <1>2, ObservationAssumption DEF SetTimer, TimeInv
  <2> QED BY <1>0, <1>2, <2>1 DEF SetTimer, Goes, TimeInv, world
<1>3. CASE Interrupt
  <2> DEFINE e == WithStatus([doc EXCEPT !.observation = "interrupted"])
  <2>1. Rank(doc) < Rank(e) /\ e.status \in Unrestored /\ ~Active(e)
    BY <1>0, <1>3, DraftRanks DEF Interrupt
  <2>2. Observer' = [at |-> "intent", prev |-> doc, did |-> FALSE, next |-> e]
    BY <1>0, <1>3 DEF Interrupt
  <2> HIDE DEF e
  <2> QED BY <1>0, <1>3, <2>1, <2>2 DEF Interrupt, TimeInv, world
<1>4. CASE BeginSample
  <2>1. Observer.at = "sleep" /\ Active(doc) /\ clock >= wake
    BY <1>4 DEF BeginSample, Fired
  <2>2. doc.lastSampleAt < sample'.start
    BY <1>0, <1>4, <2>1 DEF BeginSample, TimeInv, NoSample
  <2> QED BY <1>0, <1>4, <2>1, <2>2 DEF BeginSample, TimeInv, world
<1>5. CASE EndSample
  <2> DEFINE e == Judged(Observer.prev, sample)
  <2>1. Observer.prev \in Docs /\ Active(Observer.prev) /\ Observer.at = "sample"
    BY <1>5 DEF EndSample, ControlInv
  <2>2. Observer.prev.lastSampleAt < sample.start /\ sample.start <= clock
    BY <2>1 DEF TimeInv, KnowledgeInv
  <2>3. /\ e.status \in Unrestored /\ Rank(Observer.prev) < Rank(e)
        /\ Active(e) => sample.start < Deadline /\ e.lastSampleAt = sample.start
    BY <1>0, <2>1, <2>2, DraftRanks
  <2>4. Observer'.at = "intent" /\ Observer'.next = e /\ Observer'.prev = Observer.prev
    BY <1>0, <1>5 DEF EndSample
  <2>5. UNCHANGED <<clock, wake, doc>>
    BY <1>5 DEF EndSample, world
  <2> HIDE DEF e
  <2> QED BY <2>2, <2>3, <2>4, <2>5 DEF TimeInv, Rank
<1>6. CASE StartRestore
  BY <1>0, <1>6 DEF StartRestore, TimeInv, Rank, world, observation
<1>7. CASE RestoreFile
  BY <1>0, <1>7 DEF RestoreFile, TimeInv, Rank, observation
<1>8. CASE RestoreStartup
  BY <1>0, <1>8 DEF RestoreStartup, Drafted, TimeInv, Rank, world, observation
<1>9. CASE RestoreFails
  BY <1>0, <1>9 DEF RestoreFails, Drafted, TimeInv, Rank, world, observation
<1>10. ASSUME NEW w \in Writers, Advances(w) PROVE TimeInv'
  BY <1>0, <1>10 DEF Advances, Goes, TimeInv, Rank
<1>11. ASSUME NEW w \in Writers, Leaves(w) PROVE TimeInv'
  BY <1>0, <1>11 DEF Leaves, Free, Loop, TimeInv, Rank
<1>12. ASSUME NEW w \in Writers, Replace(w) PROVE TimeInv'
  <2>1. CASE w = "observer"
    BY <1>0, <1>12, <2>1 DEF Replace, TimeInv, Rank, world, observation
  <2>2. CASE w = "command"
    <3>1. ~Active(doc')
      BY <1>12, <2>2 DEF Replace, ControlInv, Committing, Active
    <3> QED BY <1>0, <1>12, <2>2, <3>1 DEF Replace, TimeInv, Rank, world, observation
  <2> QED BY <2>1, <2>2
<1> QED BY Moves, <1>1, <1>2, <1>3, <1>4, <1>5, <1>6, <1>7, <1>8, <1>9, <1>10, <1>11, <1>12

\* The observer gets behind no case.
LEMMA BelowStep ==
  ASSUME TypeOK, ControlInv, KnowledgeInv, TimeInv, Next \/ UNCHANGED vars,
         NEW d \in Docs, Below(d, Observer, doc)
  PROVE  Below(d, Observer', doc')
<1> USE DEF W, Writers, Observer, Command, At, Drafts
<1>0. /\ writer \in [Writers -> W] /\ doc \in Docs /\ Rank(d) \in Nat /\ Rank(doc) \in Nat
      /\ sample \in [start : 0 .. MaxTime, seen : SUBSET Seen, made : 0 .. Len(Targets)]
  <2>1. doc \in Docs
    BY TypeParts DEF ScalarsOK
  <2> QED BY <2>1, TypeParts, RankIs DEF ScalarsOK
<1>1. CASE Still
  BY <1>0, <1>1 DEF Still, Below
<1>2. CASE SetTimer
  BY <1>0, <1>2 DEF SetTimer, Goes, Below
<1>3. CASE Interrupt
  <2> DEFINE e == WithStatus([doc EXCEPT !.observation = "interrupted"])
  <2>1. Rank(doc) < Rank(e) /\ Active(doc)
    BY <1>0, <1>3, DraftRanks DEF Interrupt
  <2>2. Rank(e) \in Nat
    BY <1>0, DraftTypes, RankIs
  <2>3. Observer' = [at |-> "intent", prev |-> doc, did |-> FALSE, next |-> e] /\ doc' = doc
    BY <1>0, <1>3 DEF Interrupt
  <2> HIDE DEF e
  <2> QED BY <1>0, <2>1, <2>2, <2>3 DEF Below
<1>4. CASE BeginSample
  BY <1>0, <1>4 DEF BeginSample, Below
<1>5. CASE EndSample
  <2> DEFINE e == Judged(Observer.prev, sample)
  <2>1. Observer.prev \in Docs /\ Active(Observer.prev) /\ Observer.at = "sample"
    BY <1>5 DEF EndSample, ControlInv
  <2>2. Rank(Observer.prev) < Rank(e)
    BY <1>0, <2>1, DraftRanks DEF TimeInv
  <2>3. Rank(e) \in Nat /\ Rank(Observer.prev) \in Nat
    BY <1>0, <2>1, JudgedTypes, RankIs
  <2>4. Observer'.at = "intent" /\ Observer'.next = e /\ doc' = doc
    BY <1>0, <1>5 DEF EndSample
  <2> HIDE DEF e
  <2> QED BY <1>0, <2>1, <2>2, <2>3, <2>4 DEF Below
<1>6. CASE StartRestore \/ RestoreFile \/ RestoreStartup \/ RestoreFails
  <2>1. UNCHANGED <<Observer, doc>>
    BY <1>0, <1>6 DEF StartRestore, RestoreFile, RestoreStartup, RestoreFails, Drafted
  <2> QED BY <2>1 DEF Below
<1>7. ASSUME NEW w \in Writers, Advances(w) PROVE Below(d, Observer', doc')
  BY <1>0, <1>7 DEF Advances, Goes, Below
<1>8. ASSUME NEW w \in Writers, Leaves(w) PROVE Below(d, Observer', doc')
  BY <1>0, <1>8 DEF Leaves, Free, Loop, Below
<1>9. ASSUME NEW w \in Writers, Replace(w) PROVE Below(d, Observer', doc')
  <2>1. CASE w = "observer"
    <3>1. Rank(Observer.next) \in Nat
      BY <1>9, <2>1, RankIs DEF Replace, ControlInv, Committing
    <3> QED BY <1>0, <1>9, <2>1, <3>1 DEF Replace, Below
  <2>2. CASE w = "command"
    <3>1. ~Active(doc')
      BY <1>9, <2>2 DEF Replace, ControlInv, Committing, Active
    <3> QED BY <1>0, <1>9, <2>2, <3>1 DEF Replace, Below
  <2> QED BY <2>1, <2>2
<1> QED BY Moves, <1>1, <1>2, <1>3, <1>4, <1>5, <1>6, <1>7, <1>8, <1>9

\* The command's case is past whatever case the case file was past.
LEMMA PastGrows ==
  ASSUME NEW d \in Docs, NEW old \in Docs, d.status # "restored", Past(d, old)
  PROVE  /\ Past([d EXCEPT !.file = "restored"], old)
         /\ \A s : Past([d EXCEPT !.status = s], old)
<1>1. /\ [d EXCEPT !.file = "restored"].file = "restored"
      /\ \A s : [d EXCEPT !.status = s].file = d.file
  BY DEF Docs
<1> QED BY <1>1, RankIs DEF Past

\* A dead case stays dead.
LEMMA DeadStep ==
  ASSUME TypeOK, ControlInv, KnowledgeInv, TimeInv, OrderInv, Next \/ UNCHANGED vars,
         NEW old \in Docs, Dead(old, Observer, Command, doc)
  PROVE  Dead(old, Observer', Command', doc')
<1> USE DEF W, Writers, Observer, Command, At, Drafts
<1>0. writer \in [Writers -> W] /\ doc \in Docs /\ Rank(old) \in Nat
  BY TypeParts, RankIs DEF ScalarsOK
<1>b. Below(old, Observer', doc')
  BY BelowStep DEF Dead
<1>1. ASSUME UNCHANGED <<Command, doc>> PROVE Dead(old, Observer', Command', doc')
  BY <1>b, <1>1 DEF Dead
<1>2. CASE Still \/ SetTimer \/ Interrupt \/ BeginSample \/ EndSample
  <2>1. UNCHANGED <<Command, doc>>
    BY <1>0, <1>2 DEF Still, SetTimer, Goes, Interrupt, BeginSample, EndSample
  <2> QED BY <1>1, <2>1
<1>3. CASE StartRestore
  BY <1>0, <1>b, <1>3 DEF StartRestore, Dead
<1>4. CASE RestoreFile
  <2> DEFINE e == [Command.next EXCEPT !.file = "restored"]
  <2>1. Command.next \in Docs /\ Command.at = "restoring"
    BY <1>4 DEF RestoreFile, ControlInv
  <2>2. Command'.next = e /\ doc' = doc
    BY <1>0, <1>4 DEF RestoreFile
  <2>3. Past(Command.next, old) => Past(e, old)
    BY <2>1, PastGrows DEF OrderInv
  <2> HIDE DEF e
  <2> QED BY <1>b, <2>1, <2>2, <2>3 DEF Dead
<1>5. CASE RestoreStartup \/ RestoreFails
  <2>1. Command.next \in Docs /\ Command.at = "restoring"
    BY <1>5 DEF RestoreStartup, RestoreFails, ControlInv
  <2>2. PICK s \in {"restored", "partial_restore"} :
          Command'.next = [Command.next EXCEPT !.status = s] /\ doc' = doc
    BY <1>0, <1>5 DEF RestoreStartup, RestoreFails, Drafted
  <2>3. Past(Command.next, old) => Past([Command.next EXCEPT !.status = s], old)
    BY <2>1, PastGrows DEF OrderInv
  <2> QED BY <1>b, <2>1, <2>2, <2>3 DEF Dead
<1>6. ASSUME NEW w \in Writers, Advances(w) PROVE Dead(old, Observer', Command', doc')
  <2>1. doc' = doc /\ Command'.next = Command.next
    BY <1>0, <1>6 DEF Advances, Goes
  <2>2. Command'.at \in Drafts => Command.at \in Drafts
    BY <1>0, <1>6 DEF Advances, Goes
  <2>3. Command'.at = "restoring" => Command.at = "restoring"
    BY <1>0, <1>6 DEF Advances, Goes
  <2> QED BY <1>b, <2>1, <2>2, <2>3 DEF Dead
<1>7. ASSUME NEW w \in Writers, Leaves(w) PROVE Dead(old, Observer', Command', doc')
  BY <1>0, <1>b, <1>7 DEF Leaves, Free, Loop, Dead
<1>8. ASSUME NEW w \in Writers, Replace(w) PROVE Dead(old, Observer', Command', doc')
  <2>1. CASE w = "observer"
    <3>1. doc' = Observer.next /\ Command' = Command /\ Observer.at = "replace"
      BY <1>0, <1>8, <2>1 DEF Replace
    <3>2. Rank(Observer.next) \in Nat /\ Rank(old) < Rank(Observer.next)
      BY <3>1, RankIs DEF ControlInv, Committing, Dead, Below
    <3> QED BY <1>0, <1>b, <3>1, <3>2 DEF Dead, Past
  <2>2. CASE w = "command"
    <3>1. /\ doc' = Command.next /\ Command'.at = "confirm" /\ Command.at = "replace"
          /\ Command.next.status \notin Unrestored
      BY <1>0, <1>8, <2>2 DEF Replace, OrderInv
    <3> QED BY <1>b, <3>1 DEF Dead
  <2> QED BY <2>1, <2>2
<1> QED BY Moves, <1>2, <1>3, <1>4, <1>5, <1>6, <1>7, <1>8

\* A case restored a little more is no further from the observer.
LEMMA BelowSame ==
  ASSUME NEW d \in Docs, NEW o, NEW f, Below(d, o, f)
  PROVE  Below([d EXCEPT !.file = "restored"], o, f) /\ \A s : Below([d EXCEPT !.status = s], o, f)
BY RankIs DEF Below

\* Every step keeps the command's case in line with the case file.
LEMMA OrderStep ==
  ASSUME TypeOK, ControlInv, KnowledgeInv, CrossingInv, TimeInv, OrderInv, Next \/ UNCHANGED vars
  PROVE  OrderInv'
<1> USE DEF W, Writers, Observer, Command, At, Drafts
<1>0. writer \in [Writers -> W] /\ doc \in Docs /\ Rank(doc) \in Nat
  <2>1. doc \in Docs
    BY TypeParts DEF ScalarsOK
  <2> QED BY <2>1, TypeParts, RankIs DEF ScalarsOK
<1>b. /\ Below(doc, Observer', doc')
      /\ Command.at \in Drafts \union {"restoring"} => Below(Command.next, Observer', doc')
      /\ Command.at \in Drafts => Below(Command.prev, Observer', doc')
  <2>1. Command.at \in Drafts \union {"restoring"} => Command.next \in Docs
    BY DEF ControlInv
  <2>2. Command.at \in Drafts => Command.prev \in Docs
    BY DEF ControlInv, Committing
  <2> QED BY <1>0, <2>1, <2>2, BelowStep DEF OrderInv
<1>1. CASE Still \/ SetTimer \/ Interrupt \/ BeginSample \/ EndSample
  <2>1. UNCHANGED <<Command, doc>>
    BY <1>0, <1>1 DEF Still, SetTimer, Goes, Interrupt, BeginSample, EndSample
  <2> QED BY <1>b, <2>1 DEF OrderInv
<1>2. CASE StartRestore
  <2>1. /\ Command'.at = "restoring" /\ Command'.next = doc /\ doc' = doc
        /\ doc.status # "restored"
    BY <1>0, <1>2 DEF StartRestore
  <2>2. doc.status \in Unrestored \union {"partial_restore"}
    BY <1>0, <2>1 DEF Docs, Statuses, Unrestored
  <2> QED BY <1>b, <2>1, <2>2 DEF OrderInv
<1>3. CASE RestoreFile
  <2> DEFINE e == [Command.next EXCEPT !.file = "restored"]
  <2>1. /\ Command.next \in Docs /\ Command.at = "restoring"
        /\ Command'.at = "restoring" /\ Command'.next = e /\ doc' = doc
    BY <1>0, <1>3 DEF RestoreFile, ControlInv
  <2>2. Below(e, Observer', doc')
    BY <1>b, <2>1, BelowSame
  <2>3. /\ e.status = Command.next.status
        /\ \A d : Command.next \in {d, [d EXCEPT !.file = "restored"]} => e = [d EXCEPT !.file = "restored"]
    BY <2>1 DEF Docs
  <2> HIDE DEF e
  <2> QED BY <1>b, <2>1, <2>2, <2>3 DEF OrderInv
<1>4. CASE RestoreStartup
  <2>1. /\ Command.next \in Docs /\ Command.at = "restoring" /\ doc' = doc
        /\ Command'.at = "intent" /\ Command'.prev = doc
        /\ Command'.next = [Command.next EXCEPT !.status = "restored"]
    BY <1>0, <1>4 DEF RestoreStartup, Drafted, ControlInv
  <2>2. Below([Command.next EXCEPT !.status = "restored"], Observer', doc')
    BY <1>b, <2>1, BelowSame
  <2>3. doc.status \in Unrestored \union {"partial_restore"}
    BY <1>0, <2>1 DEF CrossingInv, Docs, Statuses, Unrestored
  <2>4. Command'.next.status = "restored"
    BY <2>1 DEF Docs
  <2> QED BY <1>b, <2>1, <2>2, <2>3, <2>4 DEF OrderInv, Past, Unrestored
<1>5. CASE RestoreFails
  <2> DEFINE e == [Command.next EXCEPT !.status = "partial_restore"]
  <2>1. /\ Command.next \in Docs /\ Command.at = "restoring" /\ doc' = doc
        /\ Command'.at = "intent" /\ Command'.prev = doc /\ Command'.next = e
    BY <1>0, <1>5 DEF RestoreFails, Drafted, ControlInv
  <2>2. Below(e, Observer', doc')
    BY <1>b, <2>1, BelowSame
  <2>3. doc.status \in Unrestored \union {"partial_restore"}
    BY <1>0, <2>1 DEF CrossingInv, Docs, Statuses, Unrestored
  <2>4. e.status = "partial_restore"
    BY <2>1 DEF Docs
  <2>5. ASSUME doc.status = "partial_restore" PROVE doc = e \/ Past(e, doc)
    <3>1. Command.next \in {doc, [doc EXCEPT !.file = "restored"]}
      BY <2>1, <2>5 DEF OrderInv, Unrestored
    <3>2. e = Command.next
      BY <1>0, <2>5, <3>1 DEF Docs
    <3>3. CASE Command.next = doc
      BY <3>2, <3>3
    <3>4. CASE Command.next = [doc EXCEPT !.file = "restored"] /\ doc.file = "quarantined"
      BY <1>0, <3>2, <3>4 DEF Docs, Past
    <3>5. CASE Command.next = [doc EXCEPT !.file = "restored"] /\ doc.file = "restored"
      BY <1>0, <3>2, <3>5 DEF Docs
    <3> QED BY <1>0, <3>1, <3>3, <3>4, <3>5 DEF Docs
  <2> HIDE DEF e
  <2> QED BY <1>b, <2>1, <2>2, <2>3, <2>4, <2>5 DEF OrderInv, Unrestored
<1>6. ASSUME NEW w \in Writers, Advances(w) PROVE OrderInv'
  <2>1. /\ doc' = doc /\ Command'.next = Command.next /\ Command'.prev = Command.prev
        /\ Command'.at \in Drafts => Command.at \in Drafts
        /\ Command'.at = "restoring" => Command.at = "restoring"
    BY <1>0, <1>6 DEF Advances, Goes
  <2> QED BY <1>b, <2>1 DEF OrderInv
<1>7. ASSUME NEW w \in Writers, Leaves(w) PROVE OrderInv'
  <2>1. doc' = doc /\ (Command' = Command \/ Command'.at = "idle")
    BY <1>0, <1>7 DEF Leaves, Free, Loop
  <2> QED BY <1>b, <2>1 DEF OrderInv
<1>8. ASSUME NEW w \in Writers, Replace(w) PROVE OrderInv'
  <2>1. CASE w = "observer"
    <3>1. /\ doc' = Observer.next /\ Command' = Command
          /\ Observer.at = "replace" /\ Observer'.at = "confirm"
      BY <1>0, <1>8, <2>1 DEF Replace
    <3>2. Rank(doc') \in Nat /\ doc'.status \in Unrestored
      BY <3>1, RankIs DEF ControlInv, Committing, TimeInv
    <3>3. Below(doc', Observer', doc')
      BY <3>1, <3>2 DEF Below
    <3> QED BY <1>b, <3>1, <3>2, <3>3 DEF OrderInv
  <2>2. CASE w = "command"
    <3>1. /\ doc' = Command.next /\ Command'.at = "confirm" /\ Command.at = "replace"
      BY <1>0, <1>8, <2>2 DEF Replace
    <3> QED BY <1>b, <3>1 DEF OrderInv
  <2> QED BY <2>1, <2>2
<1> QED BY Moves, <1>1, <1>2, <1>3, <1>4, <1>5, <1>6, <1>7, <1>8

\* Every step keeps the commits that replaced the file settled.
LEMMA DidStep ==
  ASSUME TypeOK, TypeOK', ControlInv, KnowledgeInv, TimeInv, OrderInv, DidInv,
         Next \/ UNCHANGED vars
  PROVE  DidInv'
<1> USE DEF W, Writers, Observer, Command, At, Drafts
<1>0. /\ writer \in [Writers -> W] /\ doc \in Docs
      /\ lost \subseteq [prev : Docs, next : Docs, did : BOOLEAN]
  BY TypeParts DEF ScalarsOK
<1>s. ASSUME NEW op, op.prev \in Docs, Settled(op)
      PROVE  op.prev = op.next \/ Dead(op.prev, Observer', Command', doc')
  BY <1>s, DeadStep DEF Settled
<1>w. ASSUME NEW w \in Writers, writer[w].at \in {"confirm", "committed", "failed"}
      PROVE  writer[w].prev \in Docs
  BY <1>w DEF ControlInv, Committing
<1>l. ASSUME NEW op \in lost, op.did
      PROVE  op.prev = op.next \/ Dead(op.prev, Observer', Command', doc')
  BY <1>0, <1>l, <1>s DEF DidInv
<1>o. ASSUME NEW w \in Writers, writer[w].did
      PROVE  /\ writer[w].at \in {"confirm", "committed", "failed"}
             /\ \/ writer[w].prev = writer[w].next
                \/ Dead(writer[w].prev, Observer', Command', doc')
  BY <1>o, <1>s, <1>w DEF DidInv
<1>1. ASSUME lost' = lost, 
             \A w \in Writers : writer'[w].did =>
               writer[w].did /\ writer'[w].prev = writer[w].prev /\ writer'[w].next = writer[w].next
                             /\ writer'[w].at \in {"confirm", "committed", "failed"}
      PROVE  DidInv'
  BY <1>1, <1>l, <1>o DEF DidInv, Settled
<1>2. CASE Still \/ SetTimer \/ Interrupt \/ BeginSample \/ EndSample
  <2>1. lost' = lost
    BY <1>2 DEF Still, SetTimer, Interrupt, BeginSample, EndSample
  <2>2. \A w \in Writers : writer[w].did => writer[w].at \in {"confirm", "committed", "failed"}
    BY DEF DidInv
  <2>3. ASSUME NEW w \in Writers, writer'[w].did PROVE writer' = writer \/ w = "command"
    BY <1>0, <1>2, <2>2, <2>3 DEF Still, SetTimer, Goes, Interrupt, BeginSample, EndSample, Fired
  <2>4. UNCHANGED Command
    BY <1>0, <1>2 DEF Still, SetTimer, Goes, Interrupt, BeginSample, EndSample
  <2> QED BY <1>1, <2>1, <2>2, <2>3, <2>4
<1>3. CASE StartRestore \/ RestoreFile \/ RestoreStartup \/ RestoreFails
  <2>1. /\ lost' = lost /\ Observer' = Observer
        /\ Command'.did = Command.did /\ Command.at \in {"idle", "restoring"}
    <3>1. CASE StartRestore
      BY <1>0, <3>1 DEF StartRestore
    <3>2. CASE RestoreFile
      BY <1>0, <3>2 DEF RestoreFile
    <3>3. CASE RestoreStartup
      BY <1>0, <3>3 DEF RestoreStartup, Drafted
    <3>4. CASE RestoreFails
      BY <1>0, <3>4 DEF RestoreFails, Drafted
    <3> QED BY <1>3, <3>1, <3>2, <3>3, <3>4
  <2>2. \A w \in Writers : writer[w].did => writer[w].at \in {"confirm", "committed", "failed"}
    BY DEF DidInv
  <2> QED BY <1>1, <2>1, <2>2
<1>4. ASSUME NEW w \in Writers, Advances(w) PROVE DidInv'
  <2>1. lost' = lost
    BY <1>4 DEF Advances
  <2>2. \A u \in Writers : writer[u].did => writer[u].at \in {"confirm", "committed", "failed"}
    BY DEF DidInv
  <2> QED BY <1>0, <1>1, <1>4, <2>1, <2>2 DEF Advances, Goes
<1>5. ASSUME NEW w \in Writers, Leaves(w) PROVE DidInv'
  <2>1. ASSUME NEW u \in Writers, writer'[u].did
        PROVE  writer'[u] = writer[u]
    BY <1>0, <1>5, <2>1 DEF Leaves, Free, Loop
  <2>2. ASSUME NEW op \in lost', op.did
        PROVE  op.prev = op.next \/ Dead(op.prev, Observer', Command', doc')
    <3>1. CASE op \in lost
      BY <2>2, <3>1, <1>l
    <3>2. CASE op = Operation(w)
      BY <1>o, <2>2, <3>2 DEF Operation
    <3> QED BY <1>5, <3>1, <3>2 DEF Leaves
  <2> QED BY <1>o, <2>1, <2>2 DEF DidInv, Settled
<1>6. ASSUME NEW w \in Writers, Replace(w) PROVE DidInv'
  <2>1. /\ lost' = lost /\ doc' = writer[w].next /\ writer[w].at = "replace"
        /\ writer'[w].at = "confirm"
        /\ writer'[w].prev = writer[w].prev /\ writer'[w].next = writer[w].next
        /\ \A u \in Writers \ {w} : writer'[u] = writer[u]
    BY <1>0, <1>6 DEF Replace
  <2>2. writer[w].prev = writer[w].next \/ Dead(writer[w].prev, Observer', Command', doc')
    <3>1. CASE w = "observer"
      <4>1. /\ Observer.prev \in Docs /\ Active(Observer.prev) /\ Observer.next \in Docs
            /\ Rank(Observer.prev) < Rank(Observer.next)
        BY <2>1, <3>1 DEF ControlInv, Committing, TimeInv
      <4>2. Rank(Observer.prev) \in Nat /\ Rank(Observer.next) \in Nat
        BY <4>1, RankIs
      <4> QED BY <2>1, <3>1, <4>1, <4>2 DEF Dead, Below, Active, Unrestored
    <3>2. CASE w = "command"
      <4>1. /\ Command.prev \in Docs /\ Below(Command.prev, Observer, doc)
            /\ Command.next.status \notin Unrestored
            /\ Command.prev.status \in Unrestored \union {"partial_restore"}
            /\ Command.prev.status = "partial_restore" =>
                 Command.prev = Command.next \/ Past(Command.next, Command.prev)
        BY <2>1, <3>2 DEF ControlInv, Committing, OrderInv
      <4>2. Below(Command.prev, Observer', doc')
        BY <4>1, BelowStep
      <4> QED BY <2>1, <3>2, <4>1, <4>2 DEF Dead
    <3> QED BY <3>1, <3>2
  <2> QED BY <1>l, <1>o, <2>1, <2>2 DEF DidInv, Settled
<1> QED BY Moves, <1>2, <1>3, <1>4, <1>5, <1>6

-------------------------------------------------------------------------------
(* The verdict and the unfinished commits: the theorems *)

\* The observation has just begun and the command has not: nothing is sampled, drafted
\* or unfinished.
LEMMA InitialForward == Init => ToldInv /\ TimeInv /\ OrderInv /\ DidInv
<1> SUFFICES ASSUME Init PROVE ToldInv /\ TimeInv /\ OrderInv /\ DidInv
  OBVIOUS
<1>1. Observer = Loop /\ Command = Free("command")
  BY DEF Init, Writers, Observer, Command
<1>2. /\ Observer.at = "loop" /\ Command.at = "idle" /\ \A w \in Writers : ~writer[w].did
      /\ doc.lastSampleAt = 0 /\ clock = 0 /\ Active(doc) /\ samples = {} /\ lost = {}
  BY <1>1 DEF Init, Free, Loop, Active, Writers, Observer, Command
<1>3. ToldInv
  BY <1>2 DEF ToldInv, Tells, Active, Committing
<1>4. TimeInv
  BY <1>2, ObservationAssumption DEF TimeInv, Drafts, Deadline
<1>5. OrderInv
  <2>1. Rank(doc) = 0
    BY <1>2 DEF Rank, Active
  <2> QED BY <1>2, <2>1 DEF OrderInv, Below, Drafts
<1>6. DidInv
  BY <1>2 DEF DidInv
<1> QED BY <1>3, <1>4, <1>5, <1>6

\* These invariants hold in every behaviour, next to the ones above.
LEMMA InductiveForward == Spec => [](ToldInv /\ TimeInv /\ OrderInv /\ DidInv)
<1>1. IInv /\ IInv' /\ ToldInv /\ TimeInv /\ OrderInv /\ DidInv /\ [Next]_vars
        => (ToldInv /\ TimeInv /\ OrderInv /\ DidInv)'
  BY ToldStep, TimeStep, OrderStep, DidStep DEF IInv
<1> QED BY Inductive, InitialForward, <1>1, PTL DEF Spec

\* When no process died, nothing failed to be written and nobody restored, the
\* observation that has ended says so, a reappearance that any sample saw is what it
\* says, and only Close makes it "interrupted" (sampleObservation, observeCase).
THEOREM VerdictTold == Spec => []VerdictIsTold
<1>1. IInv /\ ToldInv => VerdictIsTold
  <2> SUFFICES ASSUME IInv, ToldInv, At("observer", "done"), Undisturbed
               PROVE  /\ doc.observation \in Verdicts
                      /\ Tells(doc, samples)
    BY DEF VerdictIsTold, Tells, Undisturbed
  <2>1. Observer.at = "done" /\ doc \in Docs
    BY DEF IInv, At, Observer, TypeOK
  <2>2. doc.observation # "observing" /\ Tells(doc, samples)
    BY <2>1 DEF ToldInv, Committing
  <2> QED BY <2>1, <2>2 DEF Docs
<1> QED BY Inductive, InductiveForward, <1>1, PTL

\* An unfinished commit that did replace the case file is never found "not_observed":
\* the case it replaced never comes back, whichever of the two processes commits
\* whatever afterwards (inspectCaseCommit).
THEOREM UnfinishedIsTold == Spec => []UnfinishedCommitTold
<1>1. IInv /\ DidInv => UnfinishedCommitTold
  <2> SUFFICES ASSUME IInv, DidInv, NEW op \in lost, op.did
               PROVE  Finding(op) # "not_observed"
    BY DEF UnfinishedCommitTold
  <2>1. doc \in Docs /\ op.prev \in Docs
    BY DEF IInv, TypeOK
  <2>2. CASE op.prev = op.next
    BY <2>2 DEF Finding
  <2>3. CASE Dead(op.prev, Observer, Command, doc)
    <3>1. Rank(doc) \in Nat
      BY <2>1, RankIs
    <3>2. doc # op.prev
      BY <2>3, <3>1 DEF Dead, Past, Unrestored
    <3> QED BY <3>2 DEF Finding
  <2> QED BY <2>2, <2>3 DEF DidInv, Settled
<1> QED BY Inductive, InductiveForward, <1>1, PTL
================================================================================
