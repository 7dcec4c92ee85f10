---------------------------- MODULE HitPipeline ----------------------------
(***************************************************************************)
(* Detection in the agent (main.go, eradication/event.go and dispatch.go): *)
(* the startup scan and the ETW callback bring candidates to procHit,      *)
(* which takes the cached rules, judges image and signer, passes the       *)
(* process gate, kills by pid, logs and submits the hit. Processes start,  *)
(* exit and reuse pids, files change their signer and the UI rewrites the  *)
(* rule files meanwhile. What becomes of a submitted hit is in HitQueue    *)
(* and Quarantine; without a manager (mode "block") it is logged only.     *)
(*                                                                         *)
(* Time is counted in ticks; ages stop counting at their limit.            *)
(***************************************************************************)
EXTENDS Integers, FiniteSets, Sequences

CONSTANTS
  Procs,        \* process instances, each started at most once
  Pids,
  Pid,          \* the pid of an instance; two instances may share one in turn
  Images,       \* paths of programs that no exception of procHit spares
  Image,        \* the image of an instance
  Raw,          \* what an event calls it when it gives no usable path
  Signers,
  None,
  FirstRules,   \* the four lists when the agent starts
  FirstSigner,  \* the signer of each image then
  RuleTTL,      \* 60 s (main.go:85), in ticks
  GateTTL,      \* 20 s (main.go:44), in ticks
  SignCacheMax, \* signCacheMax, main.go:77
  MaxEdits      \* bounds the changes of rules and of signers

Lists == [folder : SUBSET Images, white : SUBSET Images,
          sign : SUBSET Signers, signWhite : SUBSET Signers]
Sources == {"scan", "etw"}

ASSUME PipelineAssumption ==
  /\ Pid \in [Procs -> Pids] /\ Image \in [Procs -> Images] /\ IsFiniteSet(Images)
  /\ Raw \in [Procs -> Images]
  /\ None \notin Procs \cup Pids \cup Signers
  /\ FirstRules \in Lists /\ FirstSigner \in [Images -> Signers \cup {None}]
  /\ RuleTTL \in Nat \ {0} /\ GateTTL \in Nat \ {0}
  /\ SignCacheMax \in Nat \ {0} /\ MaxEdits \in Nat

VARIABLES
  life,       \* of each instance: "unborn", "alive" or "exited"
  signer,     \* what the signature of each image says now
  signers,    \* everything it has said since the agent started
  rules,      \* the versions of the lists so far, the last is in force
  retired,    \* ticks since a version was replaced
  writing,    \* the UI is rewriting rule files
  cached,     \* blkData with the age of blkLast
  signCache,
  gate,       \* ProcessGate.seen: the age of each key
  session,    \* the ETW session delivers events
  events,     \* process creations not yet given to the callback, with the
              \* pid of their header: that of the creating process
  jobs,       \* pids of the scan not yet looked at, None before Listpid
  at,         \* what each goroutine is doing
  killed,     \* why an instance was killed, None if it was not
  handled,    \* the instances whose kill was tried and logged
  last,       \* ticks since a candidate of the instance passed the gate
  missed,     \* the instances a query or an event failed to tell of
  denied      \* those living whose creation time the gate could not read

files == <<signer, signers, rules, retired, writing>>
memory == <<cached, signCache, gate>>
input == <<session, events, jobs>>
failures == <<missed, denied>>
vars == <<life, files, memory, input, at, killed, handled, last, failures>>

Keys == Procs \cup (Pids \X Images)
Current == Len(rules)
Recent == {v \in 1..Current : retired[v] < RuleTTL}
\* An expired entry is the same as none.
Older(age, limit) == IF age < limit THEN age + 1 ELSE age
Holder(pid) == {p \in Procs : Pid[p] = pid /\ life[p] = "alive"}
Edits == (Current - 1) + Cardinality({i \in Images : signer[i] # FirstSigner[i]})

\* What a goroutine works on: proc is whom it is about, pid what the Match says.
Idle == [pc |-> "idle", proc |-> None, pid |-> None, image |-> None, key |-> None, just |-> TRUE]

Init ==
  /\ life \in [Procs -> {"unborn", "alive"}]
  /\ \A p, q \in Procs : p # q /\ Pid[p] = Pid[q] => "unborn" \in {life[p], life[q]}
  /\ signer = FirstSigner /\ signers = [i \in Images |-> {FirstSigner[i]}]
  /\ rules = <<FirstRules>> /\ retired = [v \in 1..(MaxEdits + 1) |-> 0]
  /\ writing = FALSE
  /\ cached = [version |-> 1, torn |-> FALSE, age |-> 0]
  /\ signCache = [i \in Images |-> None]
  /\ gate = [k \in Keys |-> GateTTL]
  /\ session = FALSE /\ events = <<>> /\ jobs = {None}
  /\ at = [s \in Sources |-> Idle]
  /\ killed = [p \in Procs |-> None]
  /\ handled = {}
  /\ last = [p \in Procs |-> GateTTL]
  /\ missed = {} /\ denied = {}

-----------------------------------------------------------------------------
(* The world around the agent.                                             *)

\* A process starts; the provider announces it once the session runs, in the
\* context of its creator, one of Procs or another (None).
Start(p) ==
  /\ life[p] = "unborn" /\ Holder(Pid[p]) = {}
  /\ life' = [life EXCEPT ![p] = "alive"]
  /\ \E header \in {None} \cup {Pid[q] : q \in {r \in Procs : life[r] = "alive"}} :
       events' = IF session THEN Append(events, [proc |-> p, header |-> header]) ELSE events
  /\ UNCHANGED <<files, memory, session, jobs, at, killed, handled, last, failures>>

Exit(p) ==
  /\ life[p] = "alive"
  /\ life' = [life EXCEPT ![p] = "exited"]
  /\ UNCHANGED <<files, memory, input, at, killed, handled, last, failures>>

\* A file is replaced by one with another signature.
Resign(i) ==
  /\ Edits < MaxEdits
  /\ \E s \in (Signers \cup {None}) \ {signer[i]} :
       /\ signer' = [signer EXCEPT ![i] = s]
       /\ signers' = [signers EXCEPT ![i] = @ \cup {s}]
  /\ UNCHANGED <<life, rules, retired, writing, memory, input, at, killed, handled, last, failures>>

\* The UI truncates user_rules.json, or the updater removes a list.
BeginWrite ==
  /\ ~writing /\ Edits < MaxEdits
  /\ writing' = TRUE
  /\ UNCHANGED <<life, signer, signers, rules, retired, memory, input, at, killed, handled, last, failures>>

Flip(set, x) == (set \ {x}) \cup ({x} \ set)

\* One entry more or less in one of the lists.
EndWrite ==
  /\ writing
  /\ writing' = FALSE
  /\ \/ \E i \in Images : \/ rules' = Append(rules, [rules[Current] EXCEPT !.folder = Flip(@, i)])
                          \/ rules' = Append(rules, [rules[Current] EXCEPT !.white = Flip(@, i)])
     \/ \E s \in Signers : \/ rules' = Append(rules, [rules[Current] EXCEPT !.sign = Flip(@, s)])
                           \/ rules' = Append(rules, [rules[Current] EXCEPT !.signWhite = Flip(@, s)])
  /\ UNCHANGED <<life, signer, signers, retired, memory, input, at, killed, handled, last, failures>>

Tick ==
  /\ retired' = [v \in DOMAIN retired |-> IF v < Current THEN Older(retired[v], RuleTTL) ELSE 0]
  /\ cached' = [cached EXCEPT !.age = Older(@, RuleTTL)]
  /\ gate' = [k \in Keys |-> Older(gate[k], GateTTL)]
  /\ last' = [p \in Procs |-> Older(last[p], GateTTL)]
  /\ UNCHANGED <<life, signer, signers, rules, writing, signCache, input, at, killed, handled, failures>>

-----------------------------------------------------------------------------
(* Candidates.                                                             *)

\* Listpid: one snapshot of the pids in use, cut off where it fails.
ListPids ==
  /\ jobs = {None}
  /\ jobs' \in SUBSET {Pid[p] : p \in {q \in Procs : life[q] = "alive"}}
  /\ UNCHANGED <<life, files, memory, session, events, at, killed, handled, last, failures>>

\* run() starts the scan first and the session next.
StartSession ==
  /\ ~session
  /\ session' = TRUE
  /\ UNCHANGED <<life, files, memory, events, jobs, at, killed, handled, last, failures>>

Candidate(p, pid, image) == [Idle EXCEPT !.pc = "taken", !.proc = p, !.pid = pid, !.image = image]

\* The scan's worker reads the image of whatever holds the pid now; a process
\* that cannot be opened or read is passed over like one that has gone.
ScanCandidate ==
  /\ at["scan"].pc = "idle" /\ None \notin jobs
  /\ \E pid \in jobs :
       /\ jobs' = jobs \ {pid}
       /\ \/ \E p \in Holder(pid) : at' = [at EXCEPT !["scan"] = Candidate(p, pid, Image[p])]
             /\ UNCHANGED missed
          \/ missed' = missed \cup Holder(pid) /\ UNCHANGED at
  /\ UNCHANGED <<life, files, memory, session, events, killed, handled, last, denied>>

\* The pid of the payload or, when that is left out, of the header. The image
\* of the payload; when that is no usable path, the one of the process that has
\* the pid when the callback runs, or the unusable one if nobody can be asked.
\* None at all, or properties that cannot be read, end the matter.
ProcessCreateFromProperties ==
  /\ at["etw"].pc = "idle" /\ events # <<>>
  /\ events' = Tail(events)
  /\ LET p == Head(events).proc IN
       \/ \E pid \in {Pid[p], Head(events).header} \ {None} :
          \E i \in {Image[p], Raw[p]} \cup {Image[q] : q \in Holder(pid)} :
            /\ at' = [at EXCEPT !["etw"] = Candidate(p, pid, i)]
            /\ missed' = IF pid = Pid[p] /\ i = Image[p] THEN missed ELSE missed \cup {p}
       \/ missed' = missed \cup {p} /\ UNCHANGED at
  /\ UNCHANGED <<life, files, memory, session, jobs, killed, handled, last, denied>>

-----------------------------------------------------------------------------
(* procHit.                                                                *)

\* The rules read now; while files are rewritten some of them read as empty.
ReadBlk == {[version |-> Current, torn |-> t, age |-> 0] : t \in {FALSE, writing}}

\* The rules given to the scan and the callback when they were started.
CurBlkAtStart == {cached}

CurBlk == IF cached.age < RuleTTL THEN {cached} ELSE ReadBlk

\* inWhite and chkHit: s is the signer for the white list, t the one read
\* again for the black list when the first reading failed.
Hits(l, i, s, t) ==
  /\ i \notin l.white
  /\ s \notin l.signWhite
  /\ i \in l.folder \/ t \in l.sign

\* getSignC: what a reading may return, None when it fails.
Signed(i) == IF signCache[i] # None THEN {signCache[i]} ELSE {signer[i], None}

\* What chkHit has read by its end, with the short circuits of its conditions:
\* a hit by folder spares the second reading, white directories spare both.
LastRead(l, i, s, t) ==
  CASE i \in l.white -> None
    [] i \notin l.white \cup l.folder /\ l.sign \cup l.signWhite # {} -> t
    [] i \in l.folder \ l.white /\ l.signWhite # {} -> s
    [] OTHER -> None

CachedSigners(i, s) ==
  IF s = None \/ signCache[i] # None THEN signCache
  ELSE IF Cardinality({j \in Images : signCache[j] # None}) >= SignCacheMax
       THEN [j \in Images |-> IF j = i THEN s ELSE None]
       ELSE [signCache EXCEPT ![i] = s]

\* A list in force within the last 60 s and a signer the file has had, or
\* none where it could not be read, condemn the image.
Condemnable(i) == \E v \in Recent, s, t \in signers[i] \cup {None} : Hits(rules[v], i, s, t)

\* curBlk, inWhite and chkHit. Lists that were torn may say anything.
ChkHit(a) ==
  /\ at[a].pc = "taken"
  /\ LET i == at[a].image IN
     \E bl \in CurBlk, s, t \in Signed(i) :
       /\ s # None => t = s
       /\ cached' = bl /\ signCache' = CachedSigners(i, LastRead(rules[bl.version], i, s, t))
       /\ \E hit \in IF bl.torn THEN BOOLEAN ELSE {Hits(rules[bl.version], i, s, t)} :
            at' = [at EXCEPT ![a] =
                     IF hit THEN [@ EXCEPT !.pc = "hit", !.just = bl.torn \/ Condemnable(i)] ELSE Idle]
  /\ UNCHANGED <<life, files, gate, input, killed, handled, last, failures>>

ImageKey(a) == <<at[a].pid, at[a].image>>

\* A key without the creation time.
CreationKeyByImage(a) == {ImageKey(a)}

\* The pid with the creation time of the process that has it, or, while a
\* handle keeps it, of one that had it.
CreationKey(a) ==
  IF Holder(at[a].pid) # {} THEN Holder(at[a].pid)
  ELSE {p \in Procs : Pid[p] = at[a].pid /\ life[p] = "exited"}

\* processGateKey: a process that cannot be opened, or whose times cannot be
\* read, is known by pid and image.
GateKey(a, key) ==
  \/ key \in CreationKey(a) /\ UNCHANGED denied
  \/ key = ImageKey(a) /\ denied' = denied \cup Holder(at[a].pid)

Pass(a, key) ==
  /\ gate' = [gate EXCEPT ![key] = 0]
  /\ last' = [p \in Procs |-> IF p = at[a].proc /\ Pid[p] = at[a].pid THEN 0 ELSE last[p]]
  /\ at' = [at EXCEPT ![a] = [@ EXCEPT !.pc = "entered", !.key = key]]

\* The gate forgets its fresh entries and keeps the expired ones.
EnterAfterPurge(a) ==
  /\ at[a].pc = "hit"
  /\ \E k \in Keys : GateKey(a, k) /\ Pass(a, k)
  /\ UNCHANGED <<life, files, cached, signCache, input, killed, handled, missed>>

\* ProcessGate.Enter: a key that passed within the gate's time is refused.
Enter(a) ==
  /\ at[a].pc = "hit"
  /\ \E k \in Keys :
       /\ GateKey(a, k)
       /\ IF gate[k] < GateTTL
          THEN at' = [at EXCEPT ![a] = Idle] /\ UNCHANGED <<gate, last>>
          ELSE Pass(a, k)
  /\ UNCHANGED <<life, files, cached, signCache, input, killed, handled, missed>>

\* DispatchMatchedProcess with fuck: doKill ends whatever has the pid by
\* now, or fails, and the hit is logged and submitted.
Dispatch(a) ==
  /\ at[a].pc = "entered"
  /\ \/ \E p \in Holder(at[a].pid) :
          /\ life' = [life EXCEPT ![p] = "exited"]
          /\ killed' = [killed EXCEPT ![p] = [proc |-> at[a].proc, pid |-> at[a].pid,
                                              image |-> at[a].image, just |-> at[a].just]]
     \/ UNCHANGED <<life, killed>>
  /\ handled' = handled \cup {p \in {at[a].proc, at[a].key} \cap Procs : Pid[p] = at[a].pid}
  /\ at' = [at EXCEPT ![a] = Idle]
  /\ UNCHANGED <<files, memory, input, last, failures>>

ProcHit(a) == ChkHit(a) \/ Enter(a) \/ Dispatch(a)
Take(a) == IF a = "scan" THEN ScanCandidate ELSE ProcessCreateFromProperties

World == \/ \E p \in Procs : Start(p) \/ Exit(p)
         \/ \E i \in Images : Resign(i)
         \/ BeginWrite \/ EndWrite \/ Tick
Next == World \/ ListPids \/ StartSession \/ (\E a \in Sources : Take(a) \/ ProcHit(a))

\* The Go scheduler runs every goroutine that can go on; starting, exiting
\* and editing are up to others.
Fairness ==
  /\ WF_vars(ListPids) /\ WF_vars(StartSession)
  /\ \A a \in Sources : WF_vars(Take(a) \/ ProcHit(a))

Spec == Init /\ [][Next]_vars
FairSpec == Spec /\ Fairness

-----------------------------------------------------------------------------

\* A process that is killed has the candidate's pid, and a list that was in
\* force within the last 60 s when the candidate was looked at condemns the
\* candidate's image, with a signer the file has had since the start or with
\* none where it could not be read: a disabled rule, a new white list entry or
\* an old signature has no other effect (main.go:81-154, 613-652), except for
\* lists read while they were being rewritten. The image is that of the killed
\* process, unless the process meant has exited and left its pid to it, or the
\* event named no pid and the header's was taken (event.go:19-22).
KilledForCause ==
  \A p \in Procs : killed[p] # None =>
    /\ killed[p].just
    /\ Pid[p] = killed[p].pid
    /\ killed[p].proc = p => killed[p].image \in {Image[p], Raw[p]}
    /\ killed[p].proc # p => \/ life[killed[p].proc] = "exited"
                            \/ killed[p].pid # Pid[killed[p].proc]

\* The gate lets a living process through once in 20 s, whether the scan, the
\* callback or both bring it, under whatever name; a second pass in that time
\* is of a process that has exited meanwhile, or of one whose creation time
\* could not be read at this pass or an earlier one (event.go:72-103).
OncePerWindow ==
  [][\A a \in Sources :
       (/\ at[a].pc = "hit" /\ at'[a].pc = "entered"
        /\ life[at[a].proc] = "alive" /\ Pid[at[a].proc] = at[a].pid)
         => last[at[a].proc] = GateTTL \/ at[a].proc \in denied']_vars

\* Every list so far condemns the image by its folder, whatever its signer has
\* been: with no signer read, a list of signers spares and condemns nobody.
Condemned(p) ==
  \A v \in 1..Current :
    /\ Image[p] \in rules[v].folder \ rules[v].white
    /\ signers[Image[p]] \cap rules[v].signWhite = {}

\* The scan's list or an event not yet worked off leads to the process.
Shown(p) ==
  /\ life[p] = "alive"
  /\ \/ Pid[p] \in jobs
     \/ \E n \in 1..Len(events) : events[n].proc = p
     \/ \E a \in Sources : at[a].proc = p

\* For a process that every list condemns and that the scan's snapshot or an
\* ETW event has shown, the kill is tried, then logged and submitted, unless it
\* exits first or Windows refuses to tell who it is; another process under the
\* same pid within the gate's 20 s does not hide it, nor does the other source
\* being at work on it (main.go:613-691, event.go:18-103). Lists read while
\* they are rewritten may hide it for good: they are excluded.
ShownIsHandled ==
  \A p \in Procs :
    [](Condemned(p) /\ ~cached.torn)
      => (Shown(p) ~> (p \in handled \cup missed \cup denied \/ life[p] = "exited"))
=============================================================================
