-------------------------- MODULE HitPipeline_proofs --------------------------
(***************************************************************************)
(* Proofs about HitPipeline, for any processes, pids, images and lists.    *)
(* The gate knows processes by what holds the pid when it is asked; that a *)
(* living process passes once needs that nobody else can hold its pid      *)
(* (PidInv) and that its own entry is never older than its last pass,      *)
(* while its creation time could be read (GateInv). That a kill has a      *)
(* cause needs where a candidate's image came from (ImageInv), how long    *)
(* the lists in memory may have been replaced (RulesInv) and where their   *)
(* signer came from (SignerInv).                                           *)
(***************************************************************************)
EXTENDS HitPipeline, FiniteSetTheorems, TLAPS

Tasks ==
  [pc : {"idle", "taken", "hit", "entered"}, proc : Procs \cup {None}, pid : Pids \cup {None},
   image : Images \cup {None}, key : Keys \cup {None}, just : BOOLEAN]

\* A candidate names somebody.
Whole(t) == t.proc \in Procs /\ t.pid \in Pids /\ t.image \in Images

Creations == [proc : Procs, header : Pids \cup {None}]
Causes == [proc : Procs, pid : Pids, image : Images, just : BOOLEAN]

\* Types of what the proofs speak of; who is looked at is somebody.
TypeInv ==
  /\ life \in [Procs -> {"unborn", "alive", "exited"}]
  /\ events \in Seq(Creations)
  /\ at \in [Sources -> Tasks]
  /\ \A a \in Sources : at[a].pc # "idle" => Whole(at[a])
  /\ killed \in [Procs -> Causes \cup {None}]
  /\ gate \in [Keys -> 0..GateTTL] /\ last \in [Procs -> 0..GateTTL]

\* One living process for a pid; what was shown was born.
PidInv ==
  /\ \A p, q \in Procs : life[p] = "alive" /\ life[q] = "alive" /\ Pid[p] = Pid[q] => p = q
  /\ \A n \in 1..Len(events) : life[events[n].proc] # "unborn"
  /\ \A a \in Sources : at[a].pc # "idle" => life[at[a].proc] # "unborn"

\* The entry of a process that has not exited is as young as its last pass,
\* unless the gate could not read its creation time.
GateInv == \A p \in Procs : life[p] # "exited" => gate[p] <= last[p] \/ p \in denied

\* A candidate has its own image or what the event called it, unless another
\* took over its pid or it goes under the pid of its creator.
ImageInv ==
  \A a \in Sources : at[a].pc # "idle" /\ at[a].pid = Pid[at[a].proc] =>
    life[at[a].proc] = "exited" \/ at[a].image \in {Image[at[a].proc], Raw[at[a].proc]}

\* The lists in memory were in force when they were read.
RulesInv ==
  /\ rules \in Seq(Lists) /\ Len(rules) \in 1..(MaxEdits + 1)
  /\ writing \in BOOLEAN /\ (writing => Len(rules) <= MaxEdits)
  /\ retired \in [1..(MaxEdits + 1) -> 0..RuleTTL]
  /\ \A v \in 1..(MaxEdits + 1) : v >= Len(rules) => retired[v] = 0
  /\ cached \in [version : 1..(MaxEdits + 1), torn : BOOLEAN, age : 0..RuleTTL]
  /\ cached.version <= Len(rules)
  /\ retired[cached.version] <= cached.age

\* What is remembered of a signature the file has said.
SignerInv ==
  /\ signer \in [Images -> Signers \cup {None}]
  /\ signers \in [Images -> SUBSET (Signers \cup {None})]
  /\ signCache \in [Images -> Signers \cup {None}]
  /\ \A i \in Images : signer[i] \in signers[i] /\ signCache[i] \in signers[i] \cup {None}

JustInv == \A a \in Sources : at[a].pc \in {"hit", "entered"} => at[a].just

IInv ==
  /\ TypeInv /\ PidInv /\ GateInv /\ ImageInv /\ RulesInv /\ SignerInv /\ JustInv
  /\ KilledForCause

-------------------------------------------------------------------------------
LEMMA InitInv == Init => IInv
<1> SUFFICES ASSUME Init PROVE IInv
  OBVIOUS
<1> USE PipelineAssumption
<1>1. TypeInv
  BY DEF Init, TypeInv, Tasks, Idle, Causes, Creations
<1>2. PidInv
  BY DEF Init, PidInv, Idle
<1>3. GateInv
  BY DEF Init, GateInv, Keys
<1>4. ImageInv /\ JustInv
  BY DEF Init, ImageInv, JustInv, Idle
<1>5. RulesInv
  <2>1. rules \in Seq(Lists) /\ Len(rules) = 1
    BY DEF Init
  <2>2. retired = [v \in 1..(MaxEdits + 1) |-> 0] /\ writing = FALSE
        /\ cached = [version |-> 1, torn |-> FALSE, age |-> 0]
    BY DEF Init
  <2>3. /\ retired \in [1..(MaxEdits + 1) -> 0..RuleTTL] /\ 1 \in 1..(MaxEdits + 1)
        /\ \A v \in 1..(MaxEdits + 1) : retired[v] = 0
    BY <2>2
  <2>4. cached \in [version : 1..(MaxEdits + 1), torn : BOOLEAN, age : 0..RuleTTL]
        /\ cached.version = 1 /\ cached.age = 0
    BY <2>2, <2>3
  <2>5. Len(rules) \in 1..(MaxEdits + 1) /\ cached.version <= Len(rules) /\ retired[cached.version] <= cached.age
    BY <2>1, <2>3, <2>4
  <2>6. writing \in BOOLEAN /\ (writing => Len(rules) <= MaxEdits)
    BY <2>2
  <2> QED BY <2>1, <2>3, <2>4, <2>5, <2>6 DEF RulesInv
<1>6. SignerInv
  BY DEF Init, SignerInv
<1>7. KilledForCause
  BY DEF Init, KilledForCause
<1> QED BY <1>1, <1>2, <1>3, <1>4, <1>5, <1>6, <1>7 DEF IInv

\* The keys the gate may be asked for are those it knows.
LEMMA KeysKnown ==
  ASSUME TypeInv, NEW a \in Sources, at[a].pc # "idle"
  PROVE  CreationKey(a) \subseteq Keys /\ ImageKey(a) \in Keys
BY PipelineAssumption DEF TypeInv, Whole, CreationKey, ImageKey, Holder, Keys

\* A living candidate under its own pid is asked for under its own entry, unless
\* its creation time could not be read.
LEMMA AliveIsKey ==
  ASSUME TypeInv, PidInv, NEW a \in Sources, at[a].proc \in Procs,
         life[at[a].proc] = "alive", at[a].pid = Pid[at[a].proc],
         NEW k, GateKey(a, k)
  PROVE  k = at[a].proc \/ at[a].proc \in denied'
BY DEF GateKey, CreationKey, Holder, PidInv

\* A goroutine drops its candidate or goes on with it.
GoesOn(a, pc) ==
  \E t \in Tasks :
    /\ at' = [at EXCEPT ![a] = t]
    /\ t.pc # "idle" => t.pc = pc /\ t.proc = at[a].proc /\ t.pid = at[a].pid /\ t.image = at[a].image

LEMMA IdleIsTask == Idle \in Tasks /\ Idle.pc = "idle"
BY DEF Idle, Tasks

LEMMA CandidateIsTask ==
  ASSUME NEW p \in Procs, NEW pid \in Pids, NEW i \in Images
  PROVE  LET t == Candidate(p, pid, i)
         IN /\ t \in Tasks /\ t.pc = "taken" /\ Whole(t)
            /\ t.proc = p /\ t.pid = pid /\ t.image = i
BY DEF Candidate, Idle, Tasks, Whole

LEMMA TaskTyped ==
  ASSUME TypeInv, NEW a \in Sources, NEW t \in Tasks, at' = [at EXCEPT ![a] = t],
         t.pc # "idle" => Whole(t)
  PROVE  /\ at' \in [Sources -> Tasks]
         /\ \A b \in Sources : at'[b].pc # "idle" => Whole(at'[b])
BY DEF TypeInv

\* The two sources: nothing, or a candidate that names the process it is about.
LEMMA TakeSteps ==
  ASSUME TypeInv, PidInv, ScanCandidate \/ ProcessCreateFromProperties
  PROVE  /\ UNCHANGED <<life, files, memory, session, killed, handled, last, denied>>
         /\ events' \in Seq(Creations)
         /\ \A n \in 1..Len(events') : \E m \in 1..Len(events) : events'[n] = events[m]
         /\ \/ at' = at
            \/ \E a \in Sources, p \in Procs, pid \in Pids, i \in Images :
                 /\ at[a].pc = "idle"
                 /\ at' = [at EXCEPT ![a] = Candidate(p, pid, i)]
                 /\ life[p] # "unborn"
                 /\ pid = Pid[p] => life[p] = "exited" \/ i \in {Image[p], Raw[p]}
<1> USE PipelineAssumption
<1>0. events \in Seq(Creations) /\ life \in [Procs -> {"unborn", "alive", "exited"}]
  BY DEF TypeInv
<1>1. CASE ScanCandidate
  <2>1. at' # at => \E p \in Procs : /\ life[p] = "alive" /\ at["scan"].pc = "idle"
                                    /\ at' = [at EXCEPT !["scan"] = Candidate(p, Pid[p], Image[p])]
    BY <1>1 DEF ScanCandidate, Holder
  <2>2. Pid \in [Procs -> Pids] /\ Image \in [Procs -> Images] /\ "scan" \in Sources
    BY DEF Sources
  <2>3. events' = events
    BY <1>1 DEF ScanCandidate
  <2> QED BY <1>0, <1>1, <2>1, <2>2, <2>3 DEF ScanCandidate
<1>2. CASE ProcessCreateFromProperties
  <2>1. /\ Head(events) = events[1] /\ 1 \in 1..Len(events) /\ events[1] \in Creations
        /\ events' = Tail(events) /\ Tail(events) \in Seq(Creations)
        /\ \A n \in 1..Len(Tail(events)) : Tail(events)[n] = events[n + 1] /\ n + 1 \in 1..Len(events)
    BY <1>0, <1>2 DEF ProcessCreateFromProperties
  <2>2. ASSUME at' # at
        PROVE  \E pid \in {Pid[events[1].proc], events[1].header} \ {None} :
               \E i \in {Image[events[1].proc], Raw[events[1].proc]} \cup {Image[q] : q \in Holder(pid)} :
                 at' = [at EXCEPT !["etw"] = Candidate(events[1].proc, pid, i)]
    BY <1>2, <2>1, <2>2 DEF ProcessCreateFromProperties
  <2>3. events[1].proc \in Procs /\ events[1].header \in Pids \cup {None}
    BY <2>1 DEF Creations
  <2>4. life[events[1].proc] # "unborn"
    BY <2>1 DEF PidInv
  <2>5. ASSUME at' # at
        PROVE  \E p \in Procs, pid \in Pids, i \in Images :
                 /\ at' = [at EXCEPT !["etw"] = Candidate(p, pid, i)]
                 /\ life[p] # "unborn"
                 /\ pid = Pid[p] => life[p] = "exited" \/ i \in {Image[p], Raw[p]}
    <3>1. PICK pid \in {Pid[events[1].proc], events[1].header} \ {None} :
            \E i \in {Image[events[1].proc], Raw[events[1].proc]} \cup {Image[q] : q \in Holder(pid)} :
              at' = [at EXCEPT !["etw"] = Candidate(events[1].proc, pid, i)]
      BY <2>2, <2>5
    <3>2. PICK i \in {Image[events[1].proc], Raw[events[1].proc]} \cup {Image[q] : q \in Holder(pid)} :
            at' = [at EXCEPT !["etw"] = Candidate(events[1].proc, pid, i)]
      BY <3>1
    <3>3. pid \in Pids /\ i \in Images
      BY <2>3 DEF Holder
    <3>4. pid = Pid[events[1].proc] /\ life[events[1].proc] # "exited"
            => i \in {Image[events[1].proc], Raw[events[1].proc]}
      BY <1>0, <2>3, <2>4 DEF Holder, PidInv
    <3> QED BY <2>3, <2>4, <3>2, <3>3, <3>4
  <2>6. "etw" \in Sources /\ at["etw"].pc = "idle"
    BY <1>2 DEF ProcessCreateFromProperties, Sources
  <2> QED BY <1>2, <2>1, <2>5, <2>6 DEF ProcessCreateFromProperties
<1> QED BY <1>1, <1>2

LEMMA ChkHitGoesOn ==
  ASSUME TypeInv, NEW a \in Sources, ChkHit(a)
  PROVE  /\ at[a].pc = "taken" /\ GoesOn(a, "hit")
         /\ UNCHANGED <<life, files, gate, input, killed, handled, last, failures>>
<1>0. at[a] \in Tasks /\ Condemnable(at[a].image) \in BOOLEAN
  BY DEF TypeInv, Condemnable
<1>1. \/ at' = [at EXCEPT ![a] = Idle]
      \/ \E j \in BOOLEAN : at' = [at EXCEPT ![a] = [at[a] EXCEPT !.pc = "hit", !.just = j]]
  <2>1. PICK bl \in CurBlk, hit \in BOOLEAN :
          at' = [at EXCEPT ![a] = IF hit THEN [@ EXCEPT !.pc = "hit", !.just = bl.torn \/ Condemnable(at[a].image)]
                                         ELSE Idle]
    BY DEF ChkHit, Hits
  <2>2. at[a] = [at[a] EXCEPT !.pc = @]
    BY <1>0 DEF Tasks
  <2>3. (bl.torn \/ Condemnable(at[a].image)) \in BOOLEAN
    OBVIOUS
  <2>4. at \in [Sources -> Tasks]
    BY DEF TypeInv
  <2>5. CASE hit
    BY <2>1, <2>3, <2>4, <2>5
  <2> QED BY <2>1, <2>5
<1>2. \A j \in BOOLEAN : LET t == [at[a] EXCEPT !.pc = "hit", !.just = j]
                       IN t \in Tasks /\ t.pc = "hit" /\ t.proc = at[a].proc /\ t.pid = at[a].pid /\ t.image = at[a].image
  BY <1>0 DEF Tasks
<1>3. GoesOn(a, "hit")
  BY <1>1, <1>2, IdleIsTask DEF GoesOn
<1> QED BY <1>3 DEF ChkHit

\* The two outcomes of ProcessGate.Enter.
LEMMA EnterSteps ==
  ASSUME TypeInv, NEW a \in Sources, Enter(a)
  PROVE  /\ at[a].pc = "hit" /\ GoesOn(a, "entered") /\ denied \subseteq denied'
         /\ UNCHANGED <<life, files, cached, signCache, input, killed, handled>>
         /\ \/ at' = [at EXCEPT ![a] = Idle] /\ gate' = gate /\ last' = last
            \/ \E k \in Keys :
                 /\ GateKey(a, k) /\ ~(gate[k] < GateTTL)
                 /\ gate' = [gate EXCEPT ![k] = 0]
                 /\ last' = [p \in Procs |-> IF p = at[a].proc /\ Pid[p] = at[a].pid THEN 0 ELSE last[p]]
                 /\ at' = [at EXCEPT ![a] = [at[a] EXCEPT !.pc = "entered", !.key = k]]
<1>0. at \in [Sources -> Tasks] /\ at[a] \in Tasks
  BY DEF TypeInv
<1>1. \/ at' = [at EXCEPT ![a] = Idle] /\ gate' = gate /\ last' = last
      \/ \E k \in Keys :
           /\ GateKey(a, k) /\ ~(gate[k] < GateTTL)
           /\ gate' = [gate EXCEPT ![k] = 0]
           /\ last' = [p \in Procs |-> IF p = at[a].proc /\ Pid[p] = at[a].pid THEN 0 ELSE last[p]]
           /\ at' = [at EXCEPT ![a] = [at[a] EXCEPT !.pc = "entered", !.key = k]]
  BY <1>0 DEF Enter, Pass
<1>2. \A k \in Keys : LET t == [at[a] EXCEPT !.pc = "entered", !.key = k]
                     IN t \in Tasks /\ t.pc = "entered" /\ t.proc = at[a].proc /\ t.pid = at[a].pid
                          /\ t.image = at[a].image
  BY <1>0 DEF Tasks
<1>3. GoesOn(a, "entered")
  BY <1>1, <1>2, IdleIsTask DEF GoesOn
<1>4. denied \subseteq denied'
  BY DEF Enter, GateKey
<1> QED BY <1>1, <1>3, <1>4 DEF Enter

LEMMA TypeNext == TypeInv /\ PidInv /\ Next => TypeInv'
<1> SUFFICES ASSUME TypeInv, PidInv, Next PROVE TypeInv'
  OBVIOUS
<1> USE PipelineAssumption DEF TypeInv
<1>1. ASSUME NEW p \in Procs, Start(p) \/ Exit(p) PROVE TypeInv'
  <2>1. life' \in [Procs -> {"unborn", "alive", "exited"}]
    BY <1>1 DEF Start, Exit
  <2>2. events' \in Seq(Creations)
    <3>1. \A h \in Pids \cup {None} : [proc |-> p, header |-> h] \in Creations
      BY DEF Creations
    <3>2. \A c \in Creations : Append(events, c) \in Seq(Creations)
      OBVIOUS
    <3>3. \/ events' = events
          \/ \E h \in Pids \cup {None} : events' = Append(events, [proc |-> p, header |-> h])
      <4>1. CASE Start(p)
        <5>1. PICK h \in {None} \cup {Pid[q] : q \in {r \in Procs : life[r] = "alive"}} :
                events' = IF session THEN Append(events, [proc |-> p, header |-> h]) ELSE events
          BY <4>1 DEF Start
        <5>2. h \in Pids \cup {None}
          BY PipelineAssumption
        <5> QED BY <5>1, <5>2
      <4>2. CASE Exit(p)
        BY <4>2 DEF Exit, input
      <4> QED BY <1>1, <4>1, <4>2
    <3>4. events \in Seq(Creations)
      OBVIOUS
    <3>5. CASE events' = events
      BY <3>4, <3>5
    <3>6. ASSUME NEW h \in Pids \cup {None}, events' = Append(events, [proc |-> p, header |-> h])
          PROVE  events' \in Seq(Creations)
      <4> DEFINE e == [proc |-> p, header |-> h]
      <4>1. e \in Creations /\ events' = Append(events, e)
        BY <3>1, <3>6
      <4> HIDE DEF e
      <4> QED BY <3>2, <4>1
    <3> QED BY <3>3, <3>5, <3>6
  <2>3. UNCHANGED <<at, killed, gate, last>>
    BY <1>1 DEF Start, Exit, memory
  <2> QED BY <2>1, <2>2, <2>3
<1>2. CASE \/ \E i \in Images : Resign(i)
           \/ BeginWrite \/ EndWrite \/ ListPids \/ StartSession
  BY <1>2 DEF Resign, BeginWrite, EndWrite, ListPids, StartSession, memory, input
<1>3. CASE Tick
  BY <1>3 DEF Tick, Older, input
<1>4. CASE ScanCandidate \/ ProcessCreateFromProperties
  <2>1. (\A b \in Sources : at'[b].pc # "idle" => Whole(at'[b])) /\ at' \in [Sources -> Tasks]
    <3>1. \/ at' = at
          \/ \E a \in Sources, p \in Procs, pid \in Pids, i \in Images :
               at' = [at EXCEPT ![a] = Candidate(p, pid, i)]
      BY <1>4, TakeSteps
    <3>2. ASSUME NEW a \in Sources, NEW p \in Procs, NEW pid \in Pids, NEW i \in Images,
                 at' = [at EXCEPT ![a] = Candidate(p, pid, i)]
          PROVE  (\A b \in Sources : at'[b].pc # "idle" => Whole(at'[b])) /\ at' \in [Sources -> Tasks]
      BY <3>2, CandidateIsTask
    <3> QED BY <3>1, <3>2
  <2> QED BY <1>4, <2>1, TakeSteps DEF memory
<1>6. ASSUME NEW a \in Sources, ChkHit(a) PROVE TypeInv'
  <2>1. (\A b \in Sources : at'[b].pc # "idle" => Whole(at'[b]))
        /\ at' \in [Sources -> Tasks]
    BY <1>6, ChkHitGoesOn DEF GoesOn, Whole
  <2> QED BY <1>6, <2>1, ChkHitGoesOn DEF input
<1>7. ASSUME NEW a \in Sources, Enter(a) PROVE TypeInv'
  <2>0. /\ at[a].pc = "hit" /\ GoesOn(a, "entered")
        /\ UNCHANGED <<life, files, cached, signCache, input, killed, handled>>
        /\ \/ at' = [at EXCEPT ![a] = Idle] /\ gate' = gate /\ last' = last
           \/ \E k \in Keys :
                /\ gate' = [gate EXCEPT ![k] = 0]
                /\ last' = [p \in Procs |-> IF p = at[a].proc /\ Pid[p] = at[a].pid THEN 0 ELSE last[p]]
    BY <1>7, EnterSteps
  <2>1. (\A b \in Sources : at'[b].pc # "idle" => Whole(at'[b]))
        /\ at' \in [Sources -> Tasks]
    BY <2>0 DEF GoesOn, Whole
  <2>2. gate' \in [Keys -> 0..GateTTL] /\ last' \in [Procs -> 0..GateTTL]
    <3>1. 0 \in 0..GateTTL
      OBVIOUS
    <3>2. gate \in [Keys -> 0..GateTTL] /\ last \in [Procs -> 0..GateTTL]
      OBVIOUS
    <3>3. CASE gate' = gate /\ last' = last
      BY <3>2, <3>3
    <3>4. ASSUME NEW k \in Keys, gate' = [gate EXCEPT ![k] = 0],
                 last' = [p \in Procs |-> IF p = at[a].proc /\ Pid[p] = at[a].pid THEN 0 ELSE last[p]]
          PROVE  gate' \in [Keys -> 0..GateTTL] /\ last' \in [Procs -> 0..GateTTL]
      BY <3>1, <3>2, <3>4
    <3> QED BY <2>0, <3>3, <3>4
  <2> QED BY <2>0, <2>1, <2>2 DEF input
<1>8. ASSUME NEW a \in Sources, Dispatch(a) PROVE TypeInv'
  <2>1. at[a].proc \in Procs /\ at[a].pid \in Pids /\ at[a].image \in Images /\ at[a].just \in BOOLEAN
    BY <1>8 DEF Dispatch, Tasks, Whole
  <2>2. [proc |-> at[a].proc, pid |-> at[a].pid, image |-> at[a].image, just |-> at[a].just] \in Causes
    BY <2>1 DEF Causes
  <2>3. killed' \in [Procs -> Causes \cup {None}]
    BY <1>8, <2>2 DEF Dispatch, Holder
  <2>4. at' = [at EXCEPT ![a] = Idle]
    BY <1>8 DEF Dispatch
  <2>5. life' \in [Procs -> {"unborn", "alive", "exited"}]
    BY <1>8 DEF Dispatch, Holder
  <2> QED BY <1>8, <2>3, <2>4, <2>5, IdleIsTask DEF Dispatch, memory, input
<1> QED BY <1>1, <1>2, <1>3, <1>4, <1>6, <1>7, <1>8 DEF Next, World, Take, ProcHit

LEMMA PidNext == TypeInv /\ PidInv /\ Next => PidInv'
<1> SUFFICES ASSUME TypeInv, PidInv, Next PROVE PidInv'
  OBVIOUS
<1> USE PipelineAssumption DEF PidInv
<1>0. /\ life \in [Procs -> {"unborn", "alive", "exited"}] /\ events \in Seq(Creations)
      /\ at \in [Sources -> Tasks]
      /\ \A a \in Sources : at[a].pc # "idle" => at[a].proc \in Procs
  BY DEF TypeInv, Whole
<1>1. ASSUME NEW p \in Procs, Start(p) PROVE PidInv'
  <2>1. \A q \in Procs : life[q] = "alive" => Pid[q] # Pid[p]
    BY <1>1 DEF Start, Holder
  <2>2. life' = [life EXCEPT ![p] = "alive"] /\ at' = at
    BY <1>1 DEF Start
  <2>3. \A n \in 1..Len(events') : life'[events'[n].proc] # "unborn"
    <3>1. \/ events' = events
          \/ \E e : e.proc = p /\ events' = Append(events, e)
      BY <1>1 DEF Start
    <3>2. \A n \in 1..Len(events) : events[n].proc \in Procs
      <4>1. \A c \in Creations : c.proc \in Procs
        BY DEF Creations
      <4> QED BY <1>0, <4>1
    <3>3. \A n \in 1..Len(events') : events'[n].proc = p \/ (n \in 1..Len(events) /\ events'[n] = events[n])
      <4>1. CASE events' = events
        BY <4>1
      <4>2. ASSUME NEW e, e.proc = p, events' = Append(events, e)
            PROVE  \A n \in 1..Len(events') : events'[n].proc = p \/ (n \in 1..Len(events) /\ events'[n] = events[n])
        <5>1. Len(events) \in Nat /\ Len(events') = Len(events) + 1 /\ events'[Len(events) + 1] = e
          BY <1>0, <4>2
        <5>2. \A n \in 1..Len(events) : events'[n] = events[n]
          BY <1>0, <4>2
        <5>3. \A n \in 1..Len(events') : n = Len(events) + 1 \/ n \in 1..Len(events)
          BY <5>1
        <5> QED BY <4>2, <5>1, <5>2, <5>3
      <4> QED BY <3>1, <4>1, <4>2
    <3> QED BY <1>0, <2>2, <3>2, <3>3
  <2> QED BY <1>0, <2>1, <2>2, <2>3
<1>2. ASSUME NEW p \in Procs, Exit(p) PROVE PidInv'
  BY <1>0, <1>2 DEF Exit, input
<1>3. CASE \/ \E i \in Images : Resign(i)
           \/ BeginWrite \/ EndWrite \/ Tick \/ ListPids \/ StartSession
  BY <1>3 DEF Resign, BeginWrite, EndWrite, Tick, ListPids, StartSession, input
<1>4. CASE ScanCandidate \/ ProcessCreateFromProperties
  <2>1. life' = life /\ \A n \in 1..Len(events') : life'[events'[n].proc] # "unborn"
    BY <1>4, TakeSteps
  <2>2. \A a \in Sources : at'[a].pc # "idle" => life[at'[a].proc] # "unborn"
    <3>1. \/ at' = at
          \/ \E a \in Sources, p \in Procs, pid \in Pids, i \in Images :
               at' = [at EXCEPT ![a] = Candidate(p, pid, i)] /\ life[p] # "unborn"
      BY <1>4, TakeSteps
    <3>2. ASSUME NEW a \in Sources, NEW p \in Procs, NEW pid \in Pids, NEW i \in Images,
                 at' = [at EXCEPT ![a] = Candidate(p, pid, i)], life[p] # "unborn"
          PROVE  \A b \in Sources : at'[b].pc # "idle" => life[at'[b].proc] # "unborn"
      BY <1>0, <3>2, CandidateIsTask
    <3> QED BY <3>1, <3>2
  <2> QED BY <2>1, <2>2
<1>6. ASSUME NEW a \in Sources, ChkHit(a) PROVE PidInv'
  BY <1>0, <1>6, ChkHitGoesOn DEF GoesOn, input
<1>7. ASSUME NEW a \in Sources, Enter(a) PROVE PidInv'
  <2>1. at[a].pc = "hit" /\ GoesOn(a, "entered") /\ UNCHANGED <<life, input>>
    BY <1>7, EnterSteps
  <2> QED BY <1>0, <2>1 DEF GoesOn, input
<1>8. ASSUME NEW a \in Sources, Dispatch(a) PROVE PidInv'
  <2>1. events' = events /\ \A p \in Procs : life'[p] = life[p] \/ life'[p] = "exited"
    BY <1>0, <1>8 DEF Dispatch, Holder, input
  <2>2. at' = [at EXCEPT ![a] = Idle]
    BY <1>8 DEF Dispatch
  <2>3. \A n \in 1..Len(events) : events[n].proc \in Procs
    <3>1. \A c \in Creations : c.proc \in Procs
      BY DEF Creations
    <3> QED BY <1>0, <3>1
  <2> QED BY <1>0, <2>1, <2>2, <2>3, IdleIsTask
<1> QED BY <1>1, <1>2, <1>3, <1>4, <1>6, <1>7, <1>8 DEF Next, World, Take, ProcHit

LEMMA GateNext == TypeInv /\ PidInv /\ GateInv /\ Next => GateInv'
<1> SUFFICES ASSUME TypeInv, PidInv, GateInv, Next PROVE GateInv'
  OBVIOUS
<1> USE PipelineAssumption DEF GateInv
<1>0. /\ life \in [Procs -> {"unborn", "alive", "exited"}]
      /\ gate \in [Keys -> 0..GateTTL] /\ last \in [Procs -> 0..GateTTL] /\ Procs \subseteq Keys
      /\ \A a \in Sources : at[a].pc # "idle" => at[a].proc \in Procs
  BY DEF TypeInv, Whole, Keys
<1>1. ASSUME NEW p \in Procs, Start(p) \/ Exit(p) PROVE GateInv'
  BY <1>0, <1>1 DEF Start, Exit, memory, failures
<1>2. CASE \/ \E i \in Images : Resign(i)
           \/ BeginWrite \/ EndWrite \/ ListPids \/ StartSession
           \/ ScanCandidate \/ ProcessCreateFromProperties
  BY <1>2 DEF Resign, BeginWrite, EndWrite, ListPids, StartSession, memory, failures,
              ScanCandidate, ProcessCreateFromProperties
<1>3. CASE Tick
  <2>1. \A p \in Procs : gate'[p] = Older(gate[p], GateTTL) /\ last'[p] = Older(last[p], GateTTL)
    BY <1>0, <1>3 DEF Tick
  <2>2. life' = life /\ denied' = denied
    BY <1>3 DEF Tick, failures
  <2>3. \A p \in Procs : gate[p] \in 0..GateTTL /\ last[p] \in 0..GateTTL
    BY <1>0
  <2> QED BY <2>1, <2>2, <2>3 DEF Older
<1>4. ASSUME NEW a \in Sources, ChkHit(a) PROVE GateInv'
  BY <1>4, ChkHitGoesOn DEF failures
<1>5. ASSUME NEW a \in Sources, Enter(a) PROVE GateInv'
  <2>1. /\ at[a].proc \in Procs /\ life[at[a].proc] # "unborn" /\ life' = life
        /\ denied \subseteq denied'
    BY <1>0, <1>5, EnterSteps DEF PidInv
  <2>2. CASE gate' = gate /\ last' = last
    BY <2>1, <2>2
  <2>3. ASSUME NEW k \in Keys, GateKey(a, k), gate' = [gate EXCEPT ![k] = 0],
               last' = [p \in Procs |-> IF p = at[a].proc /\ Pid[p] = at[a].pid THEN 0 ELSE last[p]]
        PROVE  GateInv'
    <3>1. life[at[a].proc] = "alive" /\ at[a].pid = Pid[at[a].proc] => k = at[a].proc \/ at[a].proc \in denied'
      BY <2>1, <2>3, AliveIsKey
    <3>2. ASSUME NEW p \in Procs, life[p] # "exited" PROVE gate'[p] <= last'[p] \/ p \in denied'
      <4>1. CASE p = at[a].proc /\ Pid[p] = at[a].pid
        BY <1>0, <2>1, <2>3, <3>1, <3>2, <4>1
      <4>2. CASE ~(p = at[a].proc /\ Pid[p] = at[a].pid)
        BY <1>0, <2>1, <2>3, <3>2, <4>2
      <4> QED BY <4>1, <4>2
    <3> QED BY <2>1, <3>2
  <2> QED BY <1>5, <2>2, <2>3, EnterSteps
<1>6. ASSUME NEW a \in Sources, Dispatch(a) PROVE GateInv'
  BY <1>0, <1>6 DEF Dispatch, memory, failures, Holder
<1> QED BY <1>1, <1>2, <1>3, <1>4, <1>5, <1>6 DEF Next, World, Take, ProcHit

LEMMA ImageNext == TypeInv /\ PidInv /\ ImageInv /\ Next => ImageInv'
<1> SUFFICES ASSUME TypeInv, PidInv, ImageInv, Next PROVE ImageInv'
  OBVIOUS
<1> USE PipelineAssumption DEF ImageInv
<1>0. /\ life \in [Procs -> {"unborn", "alive", "exited"}] /\ events \in Seq(Creations)
      /\ at \in [Sources -> Tasks]
      /\ \A a \in Sources : at[a].pc # "idle" => at[a].proc \in Procs
  BY DEF TypeInv, Whole
<1>1. ASSUME NEW p \in Procs, Start(p) \/ Exit(p) PROVE ImageInv'
  BY <1>0, <1>1 DEF Start, Exit, PidInv
<1>2. CASE \/ \E i \in Images : Resign(i)
           \/ BeginWrite \/ EndWrite \/ Tick \/ ListPids \/ StartSession
  BY <1>2 DEF Resign, BeginWrite, EndWrite, Tick, ListPids, StartSession
<1>3. CASE ScanCandidate \/ ProcessCreateFromProperties
  <2>1. life' = life
    BY <1>3, TakeSteps
  <2>2. CASE at' = at
    BY <2>1, <2>2
  <2>3. ASSUME NEW a \in Sources, NEW p \in Procs, NEW pid \in Pids, NEW i \in Images,
               at' = [at EXCEPT ![a] = Candidate(p, pid, i)],
               pid = Pid[p] => life[p] = "exited" \/ i \in {Image[p], Raw[p]}
        PROVE  ImageInv'
    <3>1. LET t == Candidate(p, pid, i) IN t.proc = p /\ t.pid = pid /\ t.image = i
      BY CandidateIsTask
    <3>2. at'[a] = Candidate(p, pid, i) /\ \A b \in Sources \ {a} : at'[b] = at[b]
      BY <1>0, <2>3
    <3> QED BY <2>1, <2>3, <3>1, <3>2
  <2> QED BY <1>3, <2>2, <2>3, TakeSteps
<1>5. ASSUME NEW a \in Sources, ChkHit(a) PROVE ImageInv'
  <2>1. GoesOn(a, "hit") /\ at[a].pc = "taken" /\ life' = life
    BY <1>5, ChkHitGoesOn
  <2> QED BY <1>0, <2>1 DEF GoesOn
<1>6. ASSUME NEW a \in Sources, Enter(a) PROVE ImageInv'
  <2>1. GoesOn(a, "entered") /\ at[a].pc = "hit" /\ life' = life
    BY <1>6, EnterSteps
  <2> QED BY <1>0, <2>1 DEF GoesOn
<1>7. ASSUME NEW a \in Sources, Dispatch(a) PROVE ImageInv'
  <2>1. at' = [at EXCEPT ![a] = Idle] /\ Idle.pc = "idle"
    BY <1>7, IdleIsTask DEF Dispatch
  <2>2. \A p \in Procs : life'[p] = life[p] \/ life'[p] = "exited"
    BY <1>0, <1>7 DEF Dispatch, Holder
  <2> QED BY <1>0, <2>1, <2>2
<1> QED BY <1>1, <1>2, <1>3, <1>5, <1>6, <1>7 DEF Next, World, Take, ProcHit

\* One entry more or less leaves lists lists.
LEMMA FlipStays ==
  ASSUME RulesInv
  PROVE  /\ \A i \in Images : /\ [rules[Current] EXCEPT !.folder = Flip(@, i)] \in Lists
                             /\ [rules[Current] EXCEPT !.white = Flip(@, i)] \in Lists
         /\ \A x \in Signers : /\ [rules[Current] EXCEPT !.sign = Flip(@, x)] \in Lists
                              /\ [rules[Current] EXCEPT !.signWhite = Flip(@, x)] \in Lists
<1>1. rules[Current] \in Lists
  BY PipelineAssumption DEF RulesInv, Current
<1> QED BY <1>1 DEF Lists, Flip

\* A reading returns something the file has said, or fails.
LEMMA SignedIsSigner ==
  ASSUME SignerInv, NEW i \in Images
  PROVE  Signed(i) \subseteq signers[i] \cup {None}
BY DEF SignerInv, Signed

LEMMA RulesNext == TypeInv /\ RulesInv /\ SignerInv /\ Next => RulesInv'
<1> SUFFICES ASSUME TypeInv, RulesInv, SignerInv, Next PROVE RulesInv'
  OBVIOUS
<1> USE PipelineAssumption DEF RulesInv
<1>1. ASSUME NEW p \in Procs, Start(p) \/ Exit(p) PROVE RulesInv'
  BY <1>1 DEF Start, Exit, files, memory
<1>2. CASE ListPids \/ StartSession \/ ScanCandidate \/ ProcessCreateFromProperties
  BY <1>2 DEF ListPids, StartSession, ScanCandidate, ProcessCreateFromProperties, files, memory
<1>3. CASE \E i \in Images : Resign(i)
  BY <1>3 DEF Resign, memory
<1>4. CASE BeginWrite
  <2>1. Len(rules) <= MaxEdits
    <3>1. IsFiniteSet({i \in Images : signer[i] # FirstSigner[i]})
      BY FS_Subset
    <3>2. Cardinality({i \in Images : signer[i] # FirstSigner[i]}) \in Nat
      BY <3>1, FS_CardinalityType
    <3> QED BY <1>4, <3>2 DEF BeginWrite, Edits, Current
  <2> QED BY <1>4, <2>1 DEF BeginWrite, memory
<1>5. CASE EndWrite
  <2>1. \E l \in Lists : rules' = Append(rules, l)
    BY <1>5, FlipStays DEF EndWrite
  <2>2. rules' \in Seq(Lists) /\ Len(rules') = Len(rules) + 1
    BY <2>1
  <2>3. writing = TRUE /\ writing' = FALSE /\ UNCHANGED <<retired, cached>>
    BY <1>5 DEF EndWrite, memory
  <2>4. Len(rules') \in 1..(MaxEdits + 1) /\ cached'.version <= Len(rules')
    BY <2>2, <2>3
  <2>5. \A v \in 1..(MaxEdits + 1) : v >= Len(rules') => retired'[v] = 0
    BY <2>2, <2>3
  <2>6. retired'[cached'.version] <= cached'.age
    BY <2>3
  <2>7. writing' \in BOOLEAN /\ (writing' => Len(rules') <= MaxEdits)
    BY <2>3
  <2> QED BY <2>2, <2>3, <2>4, <2>5, <2>6, <2>7
<1>6. CASE Tick
  <2>1. /\ UNCHANGED <<rules, writing>> /\ cached' = [cached EXCEPT !.age = Older(cached.age, RuleTTL)]
        /\ retired' = [v \in 1..(MaxEdits + 1) |->
                         IF v < Len(rules) THEN Older(retired[v], RuleTTL) ELSE 0]
    BY <1>6 DEF Tick, Current
  <2>2. \A n \in 0..RuleTTL : Older(n, RuleTTL) \in 0..RuleTTL /\ n <= Older(n, RuleTTL)
    BY DEF Older
  <2>3. \A n, k \in 0..RuleTTL : n <= k => Older(n, RuleTTL) <= Older(k, RuleTTL)
    BY DEF Older
  <2>4. /\ cached' \in [version : 1..(MaxEdits + 1), torn : BOOLEAN, age : 0..RuleTTL]
        /\ cached'.version = cached.version /\ cached'.age = Older(cached.age, RuleTTL)
    BY <2>1, <2>2
  <2>5. retired' \in [1..(MaxEdits + 1) -> 0..RuleTTL]
        /\ \A v \in 1..(MaxEdits + 1) : v >= Len(rules) => retired'[v] = 0
    BY <2>1, <2>2
  <2>6. retired'[cached'.version] <= cached'.age
    <3>1. CASE cached.version < Len(rules)
      BY <2>1, <2>3, <2>4, <3>1
    <3>2. CASE cached.version >= Len(rules)
      BY <2>2, <2>4, <2>5, <3>2
    <3> QED BY <3>1, <3>2
  <2> QED BY <2>1, <2>4, <2>5, <2>6
<1>7. ASSUME NEW a \in Sources, ChkHit(a) PROVE RulesInv'
  <2>1. UNCHANGED <<rules, writing, retired>> /\ cached' \in CurBlk
    BY <1>7 DEF ChkHit, files
  <2>2. \/ cached' = cached
        \/ \E t \in BOOLEAN : cached' = [version |-> Len(rules), torn |-> t, age |-> 0]
    BY <2>1 DEF CurBlk, ReadBlk, Current
  <2> QED BY <2>1, <2>2
<1>8. ASSUME NEW a \in Sources, Enter(a) PROVE RulesInv'
  BY <1>8, EnterSteps DEF files
<1>9. ASSUME NEW a \in Sources, Dispatch(a) PROVE RulesInv'
  BY <1>9 DEF Dispatch, files, memory
<1> QED BY <1>1, <1>2, <1>3, <1>4, <1>5, <1>6, <1>7, <1>8, <1>9 DEF Next, World, Take, ProcHit

LEMMA SignerNext == TypeInv /\ SignerInv /\ Next => SignerInv'
<1> SUFFICES ASSUME TypeInv, SignerInv, Next PROVE SignerInv'
  OBVIOUS
<1> USE PipelineAssumption DEF SignerInv
<1>1. ASSUME NEW p \in Procs, Start(p) \/ Exit(p) PROVE SignerInv'
  BY <1>1 DEF Start, Exit, files, memory
<1>2. CASE \/ BeginWrite \/ EndWrite \/ Tick \/ ListPids \/ StartSession
           \/ ScanCandidate \/ ProcessCreateFromProperties
  BY <1>2 DEF BeginWrite, EndWrite, Tick, ListPids, StartSession, ScanCandidate,
              ProcessCreateFromProperties, files, memory
<1>3. ASSUME NEW i \in Images, Resign(i) PROVE SignerInv'
  <2>1. PICK x \in Signers \cup {None} :
          /\ signer' = [signer EXCEPT ![i] = x]
          /\ signers' = [signers EXCEPT ![i] = signers[i] \cup {x}]
    BY <1>3 DEF Resign
  <2>2. signCache' = signCache
    BY <1>3 DEF Resign, memory
  <2> QED BY <2>1, <2>2
<1>4. ASSUME NEW a \in Sources, ChkHit(a) PROVE SignerInv'
  <2>1. at[a].image \in Images /\ UNCHANGED <<signer, signers>>
    BY <1>4 DEF TypeInv, Whole, ChkHit, files
  <2>2. \E x \in Signed(at[a].image) \cup {None} : signCache' = CachedSigners(at[a].image, x)
    BY <1>4 DEF ChkHit, LastRead
  <2>3. PICK x \in signers[at[a].image] \cup {None} : signCache' = CachedSigners(at[a].image, x)
    BY <2>1, <2>2, SignedIsSigner
  <2>4. \/ signCache' = signCache
        \/ signCache' = [j \in Images |-> IF j = at[a].image THEN x ELSE None]
        \/ signCache' = [signCache EXCEPT ![at[a].image] = x]
    BY <2>3 DEF CachedSigners
  <2>5. x \in Signers \cup {None}
    BY <2>1
  <2> QED BY <2>1, <2>3, <2>4, <2>5
<1>5. ASSUME NEW a \in Sources, Enter(a) PROVE SignerInv'
  BY <1>5, EnterSteps DEF files
<1>6. ASSUME NEW a \in Sources, Dispatch(a) PROVE SignerInv'
  BY <1>6 DEF Dispatch, files, memory
<1> QED BY <1>1, <1>2, <1>3, <1>4, <1>5, <1>6 DEF Next, World, Take, ProcHit

\* A hit of lists read whole is a hit of lists of the last minute.
LEMMA HitIsJust ==
  ASSUME RulesInv, SignerInv, NEW i \in Images, NEW bl \in CurBlk,
         NEW s \in Signed(i), NEW t \in Signed(i), Hits(rules[bl.version], i, s, t)
  PROVE  Condemnable(i)
<1>1. bl.version \in 1..Len(rules) /\ retired[bl.version] < RuleTTL
  BY PipelineAssumption DEF RulesInv, CurBlk, ReadBlk, Current
<1>2. s \in signers[i] \cup {None} /\ t \in signers[i] \cup {None}
  BY SignedIsSigner
<1> QED BY <1>1, <1>2 DEF Condemnable, Recent, Current

LEMMA JustNext == TypeInv /\ RulesInv /\ SignerInv /\ JustInv /\ Next => JustInv'
<1> SUFFICES ASSUME TypeInv, RulesInv, SignerInv, JustInv, Next PROVE JustInv'
  OBVIOUS
<1> USE PipelineAssumption DEF JustInv
<1>0. at \in [Sources -> Tasks]
  BY DEF TypeInv
<1>1. ASSUME NEW p \in Procs, Start(p) \/ Exit(p) PROVE JustInv'
  BY <1>1 DEF Start, Exit
<1>2. CASE \/ \E i \in Images : Resign(i)
           \/ BeginWrite \/ EndWrite \/ Tick \/ ListPids \/ StartSession
  BY <1>2 DEF Resign, BeginWrite, EndWrite, Tick, ListPids, StartSession
<1>3. CASE ScanCandidate \/ ProcessCreateFromProperties
  <2>1. \A b \in Sources : at'[b] = at[b] \/ at'[b].pc = "taken"
    <3>1. \A q, pid, i : Candidate(q, pid, i).pc = "taken"
      BY DEF Candidate, Idle
    <3> QED BY <1>0, <1>3, <3>1 DEF ScanCandidate, ProcessCreateFromProperties
  <2> QED BY <2>1
<1>4. ASSUME NEW a \in Sources, ChkHit(a) PROVE JustInv'
  <2>1. at[a].image \in Images /\ at[a] \in Tasks
    BY <1>0, <1>4 DEF ChkHit, TypeInv, Whole
  <2>2. PICK bl \in CurBlk, s, t \in Signed(at[a].image) :
          \E hit \in IF bl.torn THEN BOOLEAN ELSE {Hits(rules[bl.version], at[a].image, s, t)} :
            at' = [at EXCEPT ![a] =
                     IF hit THEN [@ EXCEPT !.pc = "hit", !.just = bl.torn \/ Condemnable(at[a].image)] ELSE Idle]
    BY <1>4 DEF ChkHit
  <2>3. PICK hit \in IF bl.torn THEN BOOLEAN ELSE {Hits(rules[bl.version], at[a].image, s, t)} :
          at' = [at EXCEPT ![a] =
                   IF hit THEN [at[a] EXCEPT !.pc = "hit", !.just = bl.torn \/ Condemnable(at[a].image)] ELSE Idle]
    BY <2>2
  <2>4. hit => bl.torn \/ Condemnable(at[a].image)
    BY <2>1, <2>3, HitIsJust
  <2>5. CASE hit
    <3>1. at' = [at EXCEPT ![a] = [at[a] EXCEPT !.pc = "hit", !.just = bl.torn \/ Condemnable(at[a].image)]]
      BY <2>3, <2>5
    <3>2. [at[a] EXCEPT !.pc = "hit", !.just = bl.torn \/ Condemnable(at[a].image)].just
      BY <2>1, <2>4, <2>5 DEF Tasks
    <3> QED BY <1>0, <3>1, <3>2
  <2>6. CASE ~hit
    BY <1>0, <2>3, <2>6, IdleIsTask
  <2> QED BY <2>5, <2>6
<1>5. ASSUME NEW a \in Sources, Enter(a) PROVE JustInv'
  <2>1. at[a].pc = "hit" /\ at[a].just /\ at[a] \in Tasks
    BY <1>0, <1>5 DEF Enter
  <2>2. \A b \in Sources \ {a} : at'[b] = at[b]
    BY <1>0, <1>5, EnterSteps DEF GoesOn
  <2>3. at'[a] = Idle \/ \E k \in Keys : at'[a] = [at[a] EXCEPT !.pc = "entered", !.key = k]
    <3>1. \/ at' = [at EXCEPT ![a] = Idle]
          \/ \E k \in Keys : at' = [at EXCEPT ![a] = [at[a] EXCEPT !.pc = "entered", !.key = k]]
      BY <1>5, EnterSteps
    <3> QED BY <1>0, <3>1
  <2>4. at'[a].pc = "entered" => at'[a].just
    <3>1. \A k \in Keys : [at[a] EXCEPT !.pc = "entered", !.key = k].just = at[a].just
      BY <2>1 DEF Tasks
    <3> QED BY <2>1, <2>3, <3>1, IdleIsTask
  <2>5. at'[a].pc # "hit"
    <3>1. \A k \in Keys : [at[a] EXCEPT !.pc = "entered", !.key = k].pc = "entered"
      BY <2>1 DEF Tasks
    <3> QED BY <2>3, <3>1, IdleIsTask
  <2> QED BY <2>2, <2>4, <2>5
<1>6. ASSUME NEW a \in Sources, Dispatch(a) PROVE JustInv'
  BY <1>0, <1>6, IdleIsTask DEF Dispatch
<1> QED BY <1>1, <1>2, <1>3, <1>4, <1>5, <1>6 DEF Next, World, Take, ProcHit

LEMMA CauseNext == TypeInv /\ PidInv /\ ImageInv /\ JustInv /\ KilledForCause /\ Next => KilledForCause'
<1> SUFFICES ASSUME TypeInv, PidInv, ImageInv, JustInv, KilledForCause, Next PROVE KilledForCause'
  OBVIOUS
<1> USE PipelineAssumption DEF KilledForCause
<1>0. /\ killed \in [Procs -> Causes \cup {None}] /\ life \in [Procs -> {"unborn", "alive", "exited"}]
      /\ \A p \in Procs : killed[p] # None => killed[p].proc \in Procs /\ killed[p].pid \in Pids
  BY DEF TypeInv, Causes
<1>1. ASSUME NEW p \in Procs, Start(p) \/ Exit(p) PROVE KilledForCause'
  BY <1>0, <1>1 DEF Start, Exit
<1>2. CASE \/ \E i \in Images : Resign(i)
           \/ BeginWrite \/ EndWrite \/ Tick \/ ListPids \/ StartSession
           \/ ScanCandidate \/ ProcessCreateFromProperties
  BY <1>2 DEF Resign, BeginWrite, EndWrite, Tick, ListPids, StartSession,
              ScanCandidate, ProcessCreateFromProperties
<1>3. ASSUME NEW a \in Sources, ChkHit(a) \/ Enter(a) PROVE KilledForCause'
  BY <1>3 DEF ChkHit, Enter
<1>4. ASSUME NEW a \in Sources, Dispatch(a) PROVE KilledForCause'
  <2>1. at[a].proc \in Procs /\ at[a].pid \in Pids /\ at[a].just
    BY <1>4 DEF Dispatch, TypeInv, Whole, JustInv
  <2>2. \A q \in Procs : life'[q] = life[q] \/ life'[q] = "exited"
    BY <1>0, <1>4 DEF Dispatch, Holder
  <2>3. CASE killed' = killed
    BY <1>0, <2>2, <2>3
  <2>4. ASSUME NEW p \in Procs, life[p] = "alive", Pid[p] = at[a].pid,
               killed' = [killed EXCEPT ![p] = [proc |-> at[a].proc, pid |-> at[a].pid,
                                                image |-> at[a].image, just |-> at[a].just]]
        PROVE  KilledForCause'
    <3>1. at[a].proc = p => at[a].image \in {Image[p], Raw[p]}
      BY <1>4, <2>4 DEF Dispatch, ImageInv
    <3>2. at[a].proc # p => life[at[a].proc] = "exited" \/ at[a].pid # Pid[at[a].proc]
      BY <1>0, <1>4, <2>1, <2>4 DEF Dispatch, PidInv
    <3>3. /\ killed'[p] = [proc |-> at[a].proc, pid |-> at[a].pid, image |-> at[a].image, just |-> at[a].just]
          /\ \A q \in Procs \ {p} : killed'[q] = killed[q]
      BY <1>0, <2>4
    <3> QED BY <1>0, <2>1, <2>2, <2>4, <3>1, <3>2, <3>3
  <2> QED BY <1>4, <2>3, <2>4 DEF Dispatch, Holder
<1> QED BY <1>1, <1>2, <1>3, <1>4 DEF Next, World, Take, ProcHit

-------------------------------------------------------------------------------
LEMMA StutterInv == IInv /\ UNCHANGED vars => IInv'
BY DEF IInv, TypeInv, PidInv, GateInv, ImageInv, RulesInv, SignerInv, JustInv, KilledForCause,
       vars, files, memory, input, failures

\* The invariant holds in every behaviour of the agent and the processes around it.
THEOREM Inductive == Spec => []IInv
<1>1. IInv /\ [Next]_vars => IInv'
  BY TypeNext, PidNext, GateNext, ImageNext, RulesNext, SignerNext, JustNext, CauseNext, StutterInv DEF IInv
<1> QED BY <1>1, InitInv, PTL DEF Spec

\* For any processes, pids, lists and ages: a kill has the cause that
\* KilledForCause names (main.go:81-154, 613-652).
THEOREM KillsHaveCause == Spec => []KilledForCause
<1>1. IInv => KilledForCause
  BY DEF IInv
<1> QED BY <1>1, Inductive, PTL

\* For any processes, pids and images: the gate lets a living process through
\* once in its time, from whichever side and under whatever name it comes, as
\* long as its creation time can be read (event.go:72-103).
THEOREM GateIsOnce == Spec => OncePerWindow
<1>1. ASSUME IInv, Next, NEW a \in Sources, at[a].pc = "hit", at'[a].pc = "entered",
             life[at[a].proc] = "alive", Pid[at[a].proc] = at[a].pid
      PROVE  last[at[a].proc] = GateTTL \/ at[a].proc \in denied'
  <2>0. /\ TypeInv /\ PidInv /\ GateInv /\ at \in [Sources -> Tasks] /\ at[a].proc \in Procs
        /\ gate \in [Keys -> 0..GateTTL] /\ last \in [Procs -> 0..GateTTL]
        /\ gate[at[a].proc] <= last[at[a].proc] \/ at[a].proc \in denied
    BY <1>1 DEF IInv, TypeInv, Whole, GateInv
  <2>1. CASE Enter(a)
    <3>1. \/ at' = [at EXCEPT ![a] = Idle]
          \/ \E k \in Keys : GateKey(a, k) /\ ~(gate[k] < GateTTL)
      BY <2>0, <2>1, EnterSteps
    <3>2. at' # [at EXCEPT ![a] = Idle]
      BY <1>1, <2>0, IdleIsTask
    <3>3. ~(gate[at[a].proc] < GateTTL) \/ at[a].proc \in denied'
      BY <1>1, <2>0, <3>1, <3>2, AliveIsKey
    <3>4. denied \subseteq denied' /\ at[a].proc \in Keys
      BY <2>0, <2>1, EnterSteps DEF Keys
    <3> QED BY <2>0, <3>3, <3>4, PipelineAssumption
  <2>2. ASSUME NEW b \in Sources, b # a, ChkHit(b) \/ Enter(b) \/ Dispatch(b) PROVE FALSE
    BY <1>1, <2>0, <2>2, ChkHitGoesOn, EnterSteps DEF GoesOn, Dispatch
  <2>3. CASE ChkHit(a) \/ Dispatch(a)
    BY <1>1, <2>3 DEF ChkHit, Dispatch
  <2>4. CASE World \/ ListPids \/ StartSession
    BY <1>1, <2>4 DEF World, Start, Exit, Resign, BeginWrite, EndWrite, Tick, ListPids, StartSession
  <2>5. CASE ScanCandidate \/ ProcessCreateFromProperties
    BY <1>1, <2>0, <2>5, TakeSteps, CandidateIsTask
  <2> QED BY <1>1, <2>1, <2>2, <2>3, <2>4, <2>5 DEF Next, Take, ProcHit
<1>2. IInv /\ [Next]_vars =>
        [\A a \in Sources :
          (/\ at[a].pc = "hit" /\ at'[a].pc = "entered"
           /\ life[at[a].proc] = "alive" /\ Pid[at[a].proc] = at[a].pid)
            => last[at[a].proc] = GateTTL \/ at[a].proc \in denied']_vars
  BY <1>1
<1> QED BY <1>2, Inductive, PTL DEF Spec, OncePerWindow
===============================================================================
