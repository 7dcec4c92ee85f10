-------------------------- MODULE SharedCases_proofs --------------------------
(***************************************************************************)
(* Proofs about SharedCases, for any cases and artifacts, when the command *)
(* runs only while the agent is down (~Overlap). One process is at work, so*)
(* the record it read is the record it writes (Knows); a case that is, or  *)
(* will be, saved as linked is in the record or its release is in the      *)
(* journal (TraceInv); a file put back is in the journal until its record  *)
(* says so (GapInv). That no reference is forgotten needs more of what is  *)
(* going on: the image is put back first and then no link is under way     *)
(* (PathInv), the agent's case has no file until it is saved (FreshInv),   *)
(* and a reference is in the journal until then and in the file afterwards,*)
(* and no process is about to save the case without it (ReferenceInv). A   *)
(* case is saved as settled only when it says of no artifact that it is    *)
(* linked (SettledInv).                                                    *)
(***************************************************************************)
EXTENDS SharedCases, WellFoundedInduction, TLAPS

\* What a case can say of an artifact.
ArtsOf(c) == IF c = Owner THEN {"quarantined", "restored"} ELSE {"none", "linked", "released"}

RefOps == {"link_reference", "release_reference", "restore_ownership"}
RestoreOps == {"restore_file", "restore_ownership"}
ItemOps == {"link_reference", "release_reference"} \cup RestoreOps

\* One process at a time.
AloneInv ==
  /\ up => proc["restore"].op = "none"
  /\ ~up => proc["core"].op = "none"

DocInv ==
  /\ doc[Owner] # NoDoc
  /\ \A c \in Cases : doc[c] # NoDoc => \A a \in Names : doc[c].art[a] \in ArtsOf(c)
  /\ doc[Owner].state # "released"
  /\ doc[Owner].state = "restored" => \A a \in Names : doc[Owner].art[a] = "restored"
  /\ \A a \in Names : doc[Owner].art[a] = "restored" => record[a].status = "restored"

\* The artifact at hand.
At(r) == IF r.op = "case_commit" THEN Image ELSE Artifacts[First(r.todo)]

\* Which process does what, for which case.
Role(p, r) ==
  /\ r.op = "none" => r = Idle
  /\ r.op # "none" =>
       /\ r.case \in Cases /\ r.snap \in Docs
       /\ p = "core" => r.case \in Linked /\ r.op \in {"contain", "link_reference", "case_commit"}
       /\ p = "restore" => r.op \in {"release_reference", "case_commit"} \cup RestoreOps
       /\ \A a \in Names : r.snap.art[a] \in ArtsOf(r.case)
  /\ r.stage = "none" <=> r.op = "none"
  /\ r.op = "contain" => r.stage = "act"
  /\ r.op = "case_commit" => r.stage # "read"
  /\ r.op \in ItemOps => r.todo # {}
  /\ r.op = "release_reference" => r.case \in Linked
  /\ r.op \in RestoreOps => r.case = Owner

\* What a process knows of the records is so.
Knows(recs, r) ==
  /\ r.op \in RefOps /\ r.stage \in {"intent", "act"} => r.rec = recs[At(r)]
  /\ r.op \in {"link_reference", "release_reference"} /\ r.stage \in {"intent", "act"} =>
       r.rec.status = "quarantined"
  /\ r.op \in RestoreOps => \A i \in r.todo : recs[Artifacts[i]].cases = {Owner}
  /\ r.op = "link_reference" /\ r.stage = "done" => r.case \in recs[At(r)].cases
  /\ r.op = "restore_ownership" /\ r.stage = "done" => recs[At(r)].status = "restored"
  /\ r.op # "none" /\ r.case = Owner =>
       /\ r.snap.state # "released"
       /\ \A a \in Names : r.snap.art[a] = "restored" => recs[a].status = "restored"
       /\ r.op = "case_commit" /\ r.snap.state = "restored" => \A a \in Names : r.snap.art[a] = "restored"
       /\ r.op \in RestoreOps => \A a \in Names : r.snap.art[a] = "quarantined" =>
            r.failed \/ \E i \in r.todo : Artifacts[i] = a

WorkInv == \A p \in Procs : Role(p, proc[p]) /\ Knows(record, proc[p])

DidIt(p, c, o, a) ==
  /\ proc[p].case = c /\ proc[p].op = o /\ proc[p].stage = "done" /\ At(proc[p]) = a

\* The journal has or will have that o was done.
Told(c, o, a) == <<c, o, a>> \in committed \cup lost \/ \E p \in Procs : DidIt(p, c, o, a)

Traced(c, a) == c \in record[a].cases \/ Told(c, "release_reference", a)

TraceInv ==
  \A c \in Linked, a \in Names :
    /\ doc[c] # NoDoc /\ doc[c].art[a] = "linked" => Traced(c, a)
    /\ \A p \in Procs : proc[p].op # "none" /\ proc[p].case = c /\ proc[p].snap.art[a] = "linked" => Traced(c, a)

FreeInv == \A a \in Names : record[a].status = "restored" => record[a].cases = {Owner}

\* A file put back is in the journal or its record says so.
GapInv ==
  faults = 0 => \A a \in Names :
    path[a] = "restored" => record[a].status = "restored" \/ Told(Owner, "restore_file", a)

IInv == TypeOK /\ AloneInv /\ DocInv /\ WorkInv /\ TraceInv /\ FreeInv /\ GapInv

-------------------------------------------------------------------------------
(* Artifacts and what processes do next. *)

\* There is a first one.
LEMMA FirstIsOne ==
  ASSUME NEW S \in SUBSET Places, S # {}
  PROVE  First(S) \in S
<1>1. S \subseteq Nat
  BY SharingAssumption DEF Places
<1>2. \E x \in S : \A y \in S : ~ (<<y, x>> \in OpToRel(<, Nat))
  BY <1>1, WFMin, NatLessThanWellFounded, Zenon
<1>3. \E x \in S : \A y \in S : ~ (y < x)
  BY <1>1, <1>2, Zenon DEF OpToRel
<1>4. \E x \in S : \A y \in S : x <= y
  BY <1>1, <1>3
<1> QED BY <1>4 DEF First

LEMMA AtIsName ==
  ASSUME NEW r \in Works, r.op = "case_commit" \/ r.todo # {}
  PROVE  At(r) \in Names
<1>1. 1 \in Places
  BY SharingAssumption DEF Places
<1>2. r.todo # {} => First(r.todo) \in Places
  BY FirstIsOne DEF Works
<1> QED BY <1>1, <1>2 DEF At, Image, Names

LEMMA IdleGood ==
  ASSUME NEW p \in Procs, NEW recs
  PROVE  Idle.op = "none" /\ Idle.case = NoCase /\ Idle \in Works /\ Role(p, Idle) /\ Knows(recs, Idle)
<1>1. Whole \in Records
  BY DEF Whole, Records, Cases
<1>2. Idle \in Works
  BY <1>1 DEF Idle, Works
<1> QED BY <1>2 DEF Idle, Role, Knows, ItemOps, RefOps, RestoreOps

\* Between two operations: what is known of the case.
Mid(p, recs, r) ==
  /\ r \in Works /\ r.case \in Cases /\ r.snap \in Docs
  /\ \A a \in Names : r.snap.art[a] \in ArtsOf(r.case)
  /\ p = "core" => r.case \in Linked
  /\ r.case = Owner =>
       /\ r.snap.state # "released"
       /\ \A a \in Names : r.snap.art[a] = "restored" => recs[a].status = "restored"

\* It is fit to go on, for the same case.
Good(p, recs, r, q) == q \in Works /\ q.op # "none" /\ q.case = r.case /\ Role(p, q) /\ Knows(recs, q)

LEMMA ArtTypes ==
  ASSUME NEW r \in Works, r.snap \in Docs
  PROVE  /\ r.snap.art \in [Names -> {"none", "quarantined", "linked", "released", "restored"}]
         /\ \A s \in {"open", "partial_restore", "released", "restored"} :
              Saved(s, r.snap.art) \in Docs /\ Saved(s, r.snap.art).art = r.snap.art
                /\ Saved(s, r.snap.art).state = s
BY DEF Docs, Saved

LEMMA NothingSaved ==
  Saved("open", Nothing) \in Docs /\ Saved("open", Nothing).state = "open"
    /\ \A a \in Names : Saved("open", Nothing).art[a] = "none"
BY DEF Docs, Saved, Nothing

LEMMA SavesFields ==
  ASSUME NEW r \in Works, NEW snap \in Docs
  PROVE  /\ Saves(r, snap) \in Works
         /\ Saves(r, snap).op = "case_commit" /\ Saves(r, snap).stage = "intent"
         /\ Saves(r, snap).case = r.case /\ Saves(r, snap).snap = snap
BY DEF Saves, Does, Works, Operations

LEMMA DoesFields ==
  ASSUME NEW r \in Works, NEW o \in Operations, NEW s \in {"read", "intent", "act", "done", "undone"}
  PROVE  /\ Does(r, o, s) \in Works
         /\ Does(r, o, s).op = o /\ Does(r, o, s).stage = s
         /\ Does(r, o, s).case = r.case /\ Does(r, o, s).snap = r.snap
         /\ Does(r, o, s).todo = r.todo /\ Does(r, o, s).failed = r.failed
BY DEF Does, Works

\* A case in memory may be saved.
LEMMA SavesGood ==
  ASSUME NEW p \in Procs, NEW recs, NEW r, Mid(p, recs, r), NEW snap \in Docs,
         \A a \in Names : snap.art[a] \in ArtsOf(r.case),
         r.case = Owner =>
           /\ snap.state # "released"
           /\ \A a \in Names : snap.art[a] = "restored" => recs[a].status = "restored"
           /\ snap.state = "restored" => \A a \in Names : snap.art[a] = "restored"
  PROVE  Good(p, recs, r, Saves(r, snap)) /\ Saves(r, snap).snap = snap
BY SavesFields DEF Mid, Good, Role, Knows, ItemOps, RefOps, RestoreOps, Procs

LEMMA LinkFailedGood ==
  ASSUME NEW recs, NEW r, Mid("core", recs, r)
  PROVE  /\ Good("core", recs, r, LinkFailed(r))
         /\ \A a \in Names : LinkFailed(r).snap.art[a] = "none"
<1>1. r.case \in Linked /\ r.case # Owner /\ "core" \in Procs
  BY SharingAssumption DEF Mid, Procs
<1> QED BY <1>1, SavesGood, NothingSaved DEF LinkFailed, ArtsOf

LEMMA LinkOnGood ==
  ASSUME NEW recs, NEW r, Mid("core", recs, r)
  PROVE  Good("core", recs, r, LinkOn(r)) /\ LinkOn(r).snap.art = r.snap.art
<1>1. r.case \in Linked /\ r.case # Owner /\ "core" \in Procs /\ r \in Works /\ r.snap \in Docs
  BY SharingAssumption DEF Mid, Procs
<1>2. CASE r.todo # {}
  BY <1>1, <1>2, DoesFields DEF LinkOn, Mid, Good, Role, Knows, Operations, ItemOps, RefOps, RestoreOps
<1>3. CASE r.todo = {}
  BY <1>1, <1>3, SavesGood DEF LinkOn, Mid
<1> QED BY <1>2, <1>3

LEMMA ReleaseOnGood ==
  ASSUME NEW recs, NEW r, Mid("restore", recs, r), r.case \in Linked
  PROVE  Good("restore", recs, r, ReleaseOn(r)) /\ ReleaseOn(r).snap.art = r.snap.art
<1>1. r.case # Owner /\ "restore" \in Procs /\ r \in Works /\ r.snap \in Docs
  BY SharingAssumption DEF Mid, Procs
<1>2. CASE r.todo # {}
  BY <1>1, <1>2, DoesFields DEF ReleaseOn, Mid, Good, Role, Knows, Operations, ItemOps, RefOps, RestoreOps
<1>3. CASE r.todo = {}
  <2>1. Saved("released", r.snap.art) \in Docs /\ Saved("released", r.snap.art).art = r.snap.art
    BY <1>1, ArtTypes
  <2> QED BY <1>1, <1>3, <2>1, SavesGood DEF ReleaseOn, Mid
<1> QED BY <1>2, <1>3

LEMMA RestoreOnGood ==
  ASSUME NEW recs, NEW r, Mid("restore", recs, r),
         r.todo # {} => r.case = Owner,
         \A i \in r.todo : recs[Artifacts[i]].cases = {Owner},
         r.case = Owner => \A a \in Names : r.snap.art[a] = "quarantined" =>
                             r.failed \/ \E i \in r.todo : Artifacts[i] = a
  PROVE  Good("restore", recs, r, RestoreOn(r)) /\ RestoreOn(r).snap.art = r.snap.art
<1>1. "restore" \in Procs /\ r \in Works /\ r.snap \in Docs
  BY DEF Mid, Procs
<1>2. CASE r.todo # {}
  <2> DEFINE q == Does(r, "restore_file", "read")
  <2>1. /\ q \in Works /\ q.op = "restore_file" /\ q.stage = "read" /\ q.case = Owner /\ r.case = Owner
        /\ q.snap = r.snap /\ q.todo = r.todo /\ q.failed = r.failed
    BY <1>1, <1>2, DoesFields DEF Operations
  <2> HIDE DEF q
  <2>2. Role("restore", q)
    BY <1>2, <2>1 DEF Mid, Role, ItemOps, RestoreOps
  <2>3. Knows(recs, q)
    BY <1>2, <2>1 DEF Mid, Knows, RefOps, RestoreOps
  <2>4. RestoreOn(r) = q
    BY <1>2 DEF RestoreOn, q
  <2> QED BY <2>1, <2>2, <2>3, <2>4 DEF Good
<1>3. CASE r.todo = {}
  <2> DEFINE s == IF r.failed THEN "partial_restore" ELSE "restored"
             snap == Saved(s, r.snap.art)
  <2>1. snap \in Docs /\ snap.art = r.snap.art /\ snap.state = s
    BY <1>1, ArtTypes
  <2>2. s # "released" /\ (s = "restored" => ~r.failed)
    OBVIOUS
  <2>3. RestoreOn(r) = Saves(r, snap)
    BY <1>3 DEF RestoreOn
  <2> HIDE DEF snap, s
  <2>4. r.case = Owner /\ ~r.failed => \A a \in Names : r.snap.art[a] = "restored"
    BY <1>3 DEF Mid, ArtsOf
  <2>5. \A a \in Names : snap.art[a] \in ArtsOf(r.case)
    BY <2>1 DEF Mid
  <2>6. r.case = Owner =>
           /\ snap.state # "released"
           /\ \A a \in Names : snap.art[a] = "restored" => recs[a].status = "restored"
           /\ snap.state = "restored" => \A a \in Names : snap.art[a] = "restored"
    BY <2>1, <2>2, <2>4 DEF Mid
  <2>7. Good("restore", recs, r, Saves(r, snap)) /\ Saves(r, snap).snap = snap
    BY <1>1, <2>1, <2>5, <2>6, SavesGood
  <2> QED BY <2>1, <2>3, <2>7
<1> QED BY <1>2, <1>3

\* What was done is noted in the case.
LEMMA MarkMid ==
  ASSUME NEW p, NEW recs, NEW r, Mid(p, recs, r), r.todo # {}, NEW s \in ArtsOf(r.case),
         r.case = Owner /\ s = "restored" => recs[Artifacts[First(r.todo)]].status = "restored"
  PROVE  /\ Mid(p, recs, Mark(r, s))
         /\ Mark(r, s).case = r.case /\ Mark(r, s).op = r.op /\ Mark(r, s).failed = r.failed
         /\ Mark(r, s).todo = r.todo \ {First(r.todo)}
         /\ Mark(r, s).snap.art = [r.snap.art EXCEPT ![Artifacts[First(r.todo)]] = s]
<1> DEFINE a0 == Artifacts[First(r.todo)]
<1>1. r \in Works /\ r.snap \in Docs /\ r.todo \in SUBSET Places
  BY DEF Mid, Works
<1>2. First(r.todo) \in r.todo /\ a0 \in Names
  BY <1>1, FirstIsOne DEF Names
<1>3. s \in {"none", "quarantined", "linked", "released", "restored"}
  BY DEF ArtsOf
<1> DEFINE snap == [r.snap EXCEPT !.art[a0] = s]
<1>4. snap \in Docs /\ snap.state = r.snap.state /\ snap.art = [r.snap.art EXCEPT ![a0] = s]
  BY <1>1, <1>2, <1>3 DEF Docs
<1>5. Mark(r, s) = [r EXCEPT !.snap = snap, !.todo = Left(r)]
  BY <1>1 DEF Mark, Works
<1> HIDE DEF snap
<1>6. /\ Mark(r, s) \in Works /\ Mark(r, s).snap = snap /\ Mark(r, s).todo = Left(r)
      /\ Mark(r, s).case = r.case /\ Mark(r, s).op = r.op /\ Mark(r, s).failed = r.failed
  BY <1>1, <1>4, <1>5 DEF Works, Left
<1>7. \A a \in Names : snap.art[a] = IF a = a0 THEN s ELSE r.snap.art[a]
  BY <1>1, <1>4 DEF Docs
<1>8. Mid(p, recs, Mark(r, s))
  BY <1>4, <1>6, <1>7 DEF Mid
<1> QED BY <1>4, <1>6, <1>8 DEF Left

LEMMA MidOf ==
  ASSUME NEW p \in Procs, NEW recs, NEW r \in Works, Role(p, r), Knows(recs, r), r.op # "none"
  PROVE  Mid(p, recs, r)
BY DEF Mid, Role, Knows

LEMMA RestoreFailedGood ==
  ASSUME NEW recs, NEW r \in Works, Role("restore", r), Knows(recs, r), r.op \in RestoreOps
  PROVE  Good("restore", recs, r, RestoreFailed(r)) /\ RestoreFailed(r).snap.art = r.snap.art
<1> DEFINE q == [r EXCEPT !.failed = TRUE, !.todo = Left(r)]
<1>1. "restore" \in Procs /\ r.op # "none" /\ r.case = Owner
  BY DEF Procs, RestoreOps, Role
<1>2. Mid("restore", recs, r)
  BY <1>1, MidOf
<1>3. /\ q \in Works /\ q.case = r.case /\ q.snap = r.snap /\ q.failed = TRUE
      /\ q.todo \subseteq r.todo
  BY DEF Works, Left
<1>4. \A i \in r.todo : recs[Artifacts[i]].cases = {Owner}
  BY DEF Knows
<1> HIDE DEF q
<1>5. Mid("restore", recs, q)
  BY <1>2, <1>3 DEF Mid
<1>6. Good("restore", recs, q, RestoreOn(q)) /\ RestoreOn(q).snap.art = q.snap.art
  BY <1>1, <1>3, <1>4, <1>5, RestoreOnGood
<1>7. RestoreFailed(r) = RestoreOn(q)
  BY DEF RestoreFailed, q
<1> QED BY <1>3, <1>6, <1>7 DEF Good

LEMMA AfterGood ==
  ASSUME NEW p \in Procs, NEW recs, NEW r \in Works, Role(p, r), Knows(recs, r),
         r.op \notin {"none", "contain"}, NEW ok \in BOOLEAN, ok => r.stage = "done"
  PROVE  \/ After(r, ok) = Idle
         \/ /\ Good(p, recs, r, After(r, ok))
            /\ \A a \in Names : After(r, ok).snap.art[a] = "linked" =>
                 r.snap.art[a] = "linked" \/ (ok /\ r.op = "link_reference" /\ a = At(r))
<1>0. Mid(p, recs, r)
  BY MidOf
<1>1. CASE r.op = "link_reference"
  <2>1. p = "core" /\ r.todo # {} /\ r.case \in Linked /\ r.case # Owner
    BY <1>1, SharingAssumption DEF Procs, Role, ItemOps, RestoreOps
  <2>2. CASE ok
    <3> DEFINE m == Mark(r, "linked")
    <3>1. Mid("core", recs, m) /\ m.case = r.case
          /\ m.snap.art = [r.snap.art EXCEPT ![Artifacts[First(r.todo)]] = "linked"]
      BY <1>0, <2>1, MarkMid DEF ArtsOf
    <3>2. After(r, ok) = LinkOn(m)
      BY <1>1, <2>2 DEF After
    <3> HIDE DEF m
    <3>3. Good("core", recs, m, LinkOn(m)) /\ LinkOn(m).snap.art = m.snap.art
      BY <3>1, LinkOnGood
    <3>4. \A a \in Names : m.snap.art[a] = "linked" => r.snap.art[a] = "linked" \/ a = At(r)
      BY <1>0, <1>1, <3>1, ArtTypes DEF At, Mid
    <3> QED BY <1>1, <2>1, <2>2, <3>1, <3>2, <3>3, <3>4 DEF Good
  <2>3. CASE ~ok
    <3>1. After(r, ok) = LinkFailed(r)
      BY <1>1, <2>3 DEF After
    <3> QED BY <1>0, <2>1, <3>1, LinkFailedGood
  <2> QED BY <2>2, <2>3
<1>2. CASE r.op = "release_reference"
  <2>1. p = "restore" /\ r.todo # {} /\ r.case \in Linked /\ r.case # Owner
    BY <1>2, SharingAssumption DEF Procs, Role, ItemOps, RestoreOps
  <2>2. CASE ok
    <3> DEFINE m == Mark(r, "released")
    <3>1. Mid("restore", recs, m) /\ m.case = r.case
          /\ m.snap.art = [r.snap.art EXCEPT ![Artifacts[First(r.todo)]] = "released"]
      BY <1>0, <2>1, MarkMid DEF ArtsOf
    <3>2. After(r, ok) = ReleaseOn(m)
      BY <1>2, <2>2 DEF After
    <3> HIDE DEF m
    <3>3. Good("restore", recs, m, ReleaseOn(m)) /\ ReleaseOn(m).snap.art = m.snap.art
      BY <2>1, <3>1, ReleaseOnGood
    <3>4. \A a \in Names : m.snap.art[a] = "linked" => r.snap.art[a] = "linked"
      BY <1>0, <3>1, ArtTypes DEF Mid
    <3> QED BY <2>1, <3>1, <3>2, <3>3, <3>4 DEF Good
  <2>3. CASE ~ok
    BY <1>2, <2>3 DEF After
  <2> QED BY <2>2, <2>3
<1>3. CASE r.op = "restore_file"
  <2>1. p = "restore" /\ r.todo # {} /\ r.case = Owner /\ r.op \in RestoreOps
    BY <1>3 DEF Procs, Role, ItemOps, RestoreOps
  <2>2. CASE ok
    <3> DEFINE q == Does(r, "restore_ownership", "read")
    <3>1. After(r, ok) = q
      BY <1>3, <2>2 DEF After
    <3>2. /\ q \in Works /\ q.op = "restore_ownership" /\ q.stage = "read" /\ q.case = r.case
          /\ q.snap = r.snap /\ q.todo = r.todo /\ q.failed = r.failed
      BY DoesFields DEF Operations
    <3> HIDE DEF q
    <3>3. Role("restore", q)
      BY <1>0, <2>1, <3>2 DEF Mid, Role, ItemOps, RestoreOps
    <3>4. Knows(recs, q)
      BY <1>3, <2>1, <3>2 DEF Knows, RestoreOps
    <3> QED BY <2>1, <3>1, <3>2, <3>3, <3>4 DEF Good
  <2>3. CASE ~ok
    <3>1. After(r, ok) = RestoreFailed(r)
      BY <1>3, <2>3 DEF After
    <3> QED BY <2>1, <3>1, RestoreFailedGood
  <2> QED BY <2>2, <2>3
<1>4. CASE r.op = "restore_ownership"
  <2>1. p = "restore" /\ r.todo # {} /\ r.case = Owner /\ r.op \in RestoreOps
    BY <1>4 DEF Procs, Role, ItemOps, RestoreOps
  <2>2. CASE ok
    <3> DEFINE m == Mark(r, "restored") a0 == Artifacts[First(r.todo)]
    <3>1. recs[a0].status = "restored"
      BY <1>4, <2>2 DEF Knows, At
    <3>2. Mid("restore", recs, m) /\ m.case = r.case /\ m.failed = r.failed
          /\ m.todo = r.todo \ {First(r.todo)}
          /\ m.snap.art = [r.snap.art EXCEPT ![a0] = "restored"]
      BY <1>0, <2>1, <3>1, MarkMid DEF ArtsOf
    <3>3. After(r, ok) = RestoreOn(m)
      BY <1>4, <2>2 DEF After
    <3>4. \A i \in r.todo : recs[Artifacts[i]].cases = {Owner}
      BY <2>1 DEF Knows
    <3>5. \A a \in Names : m.snap.art[a] = "quarantined" => m.failed \/ \E i \in m.todo : Artifacts[i] = a
      <4> SUFFICES ASSUME NEW a \in Names, m.snap.art[a] = "quarantined"
                   PROVE  m.failed \/ \E i \in m.todo : Artifacts[i] = a
        OBVIOUS
      <4>1. a # a0 /\ r.snap.art[a] = "quarantined"
        <5> HIDE DEF m
        <5> QED BY <1>0, <3>2, ArtTypes DEF Mid
      <4>2. r.failed \/ \E i \in r.todo : Artifacts[i] = a
        BY <2>1, <4>1 DEF Knows, RestoreOps
      <4> HIDE DEF m
      <4> QED BY <3>2, <4>1, <4>2
    <3> HIDE DEF m
    <3>6. Good("restore", recs, m, RestoreOn(m)) /\ RestoreOn(m).snap.art = m.snap.art
      <4>1. \A i \in m.todo : recs[Artifacts[i]].cases = {Owner}
        BY <3>2, <3>4
      <4>2. m.case = Owner
        BY <2>1, <3>2
      <4>3. Mid("restore", recs, m)
        BY <3>2
      <4> QED BY <3>5, <4>1, <4>2, <4>3, RestoreOnGood
    <3>7. \A a \in Names : m.snap.art[a] = "linked" => r.snap.art[a] = "linked"
      BY <1>0, <3>2, ArtTypes DEF Mid
    <3> QED BY <2>1, <3>2, <3>3, <3>6, <3>7 DEF Good
  <2>3. CASE ~ok
    <3>1. After(r, ok) = RestoreFailed(r)
      BY <1>4, <2>3 DEF After
    <3> QED BY <2>1, <3>1, RestoreFailedGood
  <2> QED BY <2>2, <2>3
<1>5. CASE r.op = "case_commit"
  BY <1>5 DEF After
<1> QED BY <1>1, <1>2, <1>3, <1>4, <1>5 DEF Role, Procs, RestoreOps

-------------------------------------------------------------------------------
(* Steps. *)

LEMMA InitInv == Init => IInv
<1> SUFFICES ASSUME Init PROVE IInv
  OBVIOUS
<1> USE SharingAssumption
<1>1. \A p \in Procs : proc[p] = Idle /\ Role(p, Idle) /\ Knows(record, Idle) /\ Idle \in Works
  BY IdleGood DEF Init
<1>2. Whole \in Records /\ Whole.cases = {Owner} /\ Whole.status = "quarantined"
  BY DEF Whole, Records, Cases
<1> DEFINE mine == Saved("open", [a \in Names |-> "quarantined"])
<1>3. mine \in Docs /\ mine.state = "open" /\ \A a \in Names : mine.art[a] = "quarantined"
  BY DEF Docs, Saved
<1>4. doc = [c \in Cases |-> IF c = Owner THEN mine ELSE NoDoc] /\ Owner \in Cases
  BY DEF Init, Cases
<1> HIDE DEF mine
<1>5. TypeOK
  <2>1. record \in [Names -> Records] /\ path \in [Names -> {"absent", "restored", "foreign"}]
    BY <1>2 DEF Init
  <2>2. doc \in [Cases -> Docs \union {NoDoc}]
    BY <1>3, <1>4
  <2>3. proc \in [Procs -> Works]
    BY <1>1 DEF Init
  <2>4. /\ lost \subseteq Cases \X Operations \X Names
        /\ committed \subseteq Cases \X Operations \X Names
        /\ taken \subseteq Linked
    BY DEF Init
  <2>5. up \in BOOLEAN /\ blocked \in BOOLEAN
    BY Zenon DEF Init
  <2>6. crashes \in 0 .. MaxCrashes /\ faults \in 0 .. MaxFaults /\ foreign \in 0 .. MaxForeign
    BY DEF Init
  <2> QED BY <2>1, <2>2, <2>3, <2>4, <2>5, <2>6 DEF TypeOK
<1>6. AloneInv
  BY <1>1, IdleGood DEF Init, AloneInv, Procs
<1>7. record = [a \in Names |-> Whole] /\ path = [a \in Names |-> "absent"]
  BY DEF Init
<1>8. FreeInv /\ GapInv
  BY <1>2, <1>7 DEF FreeInv, GapInv
<1>9. WorkInv
  BY <1>1 DEF WorkInv
<1>10. TraceInv
  <2>1. \A c \in Linked : doc[c] = NoDoc
    BY <1>4 DEF Cases
  <2>2. \A p \in Procs : proc[p].op = "none"
    BY <1>1, IdleGood
  <2> QED BY <2>1, <2>2 DEF TraceInv
<1>11. DocInv
  <2>1. doc[Owner] = mine /\ mine # NoDoc /\ \A c \in Cases : doc[c] # NoDoc => c = Owner
    BY <1>3, <1>4, NoDocAssumption
  <2> QED BY <1>3, <2>1 DEF DocInv, ArtsOf
<1> QED BY <1>5, <1>6, <1>8, <1>9, <1>10, <1>11 DEF IInv

LEMMA OthersIdle ==
  ASSUME AloneInv, WorkInv, NEW p \in Procs, proc[p].op # "none", NEW q \in Procs \ {p}
  PROVE  proc[q] = Idle /\ (p = "core" <=> up)
BY DEF AloneInv, WorkInv, Role, Procs

\* What is under way or was left is of the right type, and what was left stays.
LEMMA UnfinishedIs ==
  ASSUME TypeOK, WorkInv
  PROVE  /\ Unfinished \subseteq Cases \X Operations \X Names
         /\ lost \subseteq Unfinished
         /\ \A c, o, a : (\E p \in Procs : DidIt(p, c, o, a)) => <<c, o, a>> \in Unfinished
<1>1. ASSUME NEW p \in Procs, proc[p].stage \in {"act", "done", "undone"}, proc[p].op # "contain"
      PROVE  <<proc[p].case, proc[p].op, Current(p)>> \in Cases \X Operations \X Names
  <2>1. proc[p] \in Works /\ proc[p].op \in Operations /\ proc[p].case \in Cases
    BY <1>1 DEF TypeOK, WorkInv, Role, Works
  <2>2. proc[p].op = "case_commit" \/ proc[p].todo # {}
    BY <1>1, <2>1 DEF WorkInv, Role, Operations, ItemOps, RestoreOps
  <2>3. Current(p) \in Names
    BY <2>1, <2>2, AtIsName DEF Current, At
  <2> QED BY <2>1, <2>3
<1>2. Unfinished \subseteq Cases \X Operations \X Names /\ lost \subseteq Unfinished
  BY <1>1 DEF Unfinished, TypeOK
<1>3. ASSUME NEW c, NEW o, NEW a, NEW p \in Procs, DidIt(p, c, o, a)
      PROVE  <<c, o, a>> \in Unfinished
  <2>1. proc[p].stage = "done" /\ proc[p].op # "contain" /\ Current(p) = a /\ proc[p].case = c /\ proc[p].op = o
    BY <1>3 DEF DidIt, WorkInv, Role, Current, At
  <2> QED BY <2>1 DEF Unfinished
<1> QED BY <1>2, <1>3

\* A step of a process that leaves records, paths and cases alone.
LEMMA ProcMoves ==
  ASSUME IInv, NEW p \in Procs, NEW r, proc' = [proc EXCEPT ![p] = r],
         UNCHANGED <<record, path, doc>>, TypeOK', AloneInv', Role(p, r), Knows(record, r),
         committed \subseteq committed', lost \subseteq lost',
         \A c, o, a : DidIt(p, c, o, a) => <<c, o, a>> \in committed' \cup lost',
         \A c \in Linked, a \in Names :
           r.op # "none" /\ r.case = c /\ r.snap.art[a] = "linked" => Traced(c, a),
         faults' = 0 => faults = 0
  PROVE  IInv'
<1>1. proc'[p] = r /\ \A q \in Procs \ {p} : proc'[q] = proc[q]
  BY DEF IInv, TypeOK
<1>2. ASSUME NEW c, NEW o, NEW a, Told(c, o, a) PROVE Told(c, o, a)'
  BY <1>1, <1>2 DEF Told, DidIt
<1>3. DocInv' /\ FreeInv'
  BY DEF IInv, DocInv, FreeInv
<1>4. WorkInv'
  BY <1>1 DEF IInv, WorkInv
<1>5. \A c \in Linked, a \in Names : Traced(c, a) => Traced(c, a)'
  BY <1>2 DEF Traced
<1>6. TraceInv'
  BY <1>1, <1>5 DEF IInv, TraceInv
<1>7. GapInv'
  BY <1>2 DEF IInv, GapInv
<1> QED BY <1>3, <1>4, <1>6, <1>7 DEF IInv

\* A process at an operation stays the only one, whatever it does next.
LEMMA StaysAlone ==
  ASSUME IInv, NEW p \in Procs, proc[p].op # "none", NEW r, proc' = [proc EXCEPT ![p] = r], UNCHANGED up
  PROVE  AloneInv'
<1>1. \A q \in Procs \ {p} : proc'[q] = Idle /\ (p = "core" <=> up)
  BY OthersIdle DEF IInv, TypeOK
<1>2. Idle.op = "none" /\ Idle.stage = "none"
  BY DEF Idle
<1> QED BY <1>1, <1>2 DEF AloneInv, Procs

\* What is known of a process at work.
LEMMA AtWork ==
  ASSUME IInv, NEW p \in Procs
  PROVE  /\ proc[p] \in Works /\ Role(p, proc[p]) /\ Knows(record, proc[p]) /\ Current(p) = At(proc[p])
         /\ proc[p].op \notin {"none", "contain"} => At(proc[p]) \in Names
<1>1. proc[p] \in Works /\ Role(p, proc[p]) /\ Knows(record, proc[p])
  BY DEF IInv, TypeOK, WorkInv
<1>2. ASSUME proc[p].op \notin {"none", "contain"} PROVE At(proc[p]) \in Names
  <2>1. proc[p].op = "case_commit" \/ proc[p].todo # {}
    BY <1>1, <1>2 DEF Works, Role, Operations, ItemOps, RestoreOps
  <2> QED BY <1>1, <2>1, AtIsName
<1> QED BY <1>1, <1>2 DEF Current, At

\* An operation is over, and what it did is in the journal.
LEMMA AfterMoves ==
  ASSUME IInv, NEW p \in Procs, proc[p].op \notin {"none", "contain"}, NEW ok \in BOOLEAN,
         ok => proc[p].stage = "done", Set(p, After(proc[p], ok)), UNCHANGED <<disk, agent>>,
         committed \subseteq committed', committed' \subseteq Cases \X Operations \X Names,
         lost \subseteq lost', lost' \subseteq Cases \X Operations \X Names,
         UNCHANGED <<crashes, foreign>>, faults' \in 0 .. MaxFaults, faults' = 0 => faults = 0,
         \A c, o, a : DidIt(p, c, o, a) => <<c, o, a>> \in committed' \cup lost'
  PROVE  IInv'
<1> DEFINE r == After(proc[p], ok)
<1>1. proc[p] \in Works /\ Role(p, proc[p]) /\ Knows(record, proc[p])
  BY AtWork
<1>2. \/ r = Idle
      \/ /\ Good(p, record, proc[p], r)
         /\ \A a \in Names : r.snap.art[a] = "linked" =>
              proc[p].snap.art[a] = "linked" \/ (ok /\ proc[p].op = "link_reference" /\ a = At(proc[p]))
  BY <1>1, AfterGood
<1>3. proc' = [proc EXCEPT ![p] = r]
  BY DEF Set
<1> HIDE DEF r
<1>4. r \in Works /\ Role(p, r) /\ Knows(record, r)
  BY <1>2, IdleGood DEF Good
<1>5. \A c \in Linked, a \in Names : r.op # "none" /\ r.case = c /\ r.snap.art[a] = "linked" => Traced(c, a)
  <2>1. SUFFICES ASSUME NEW c \in Linked, NEW a \in Names, r.op # "none", r.case = c,
                        r.snap.art[a] = "linked"
                 PROVE  Traced(c, a)
    OBVIOUS
  <2>2. proc[p].case = c
    BY <1>2, <2>1, IdleGood DEF Good
  <2>3. proc[p].snap.art[a] = "linked" \/ (ok /\ proc[p].op = "link_reference" /\ a = At(proc[p]))
    BY <1>2, <2>1, IdleGood
  <2>4. CASE proc[p].snap.art[a] = "linked"
    BY <2>2, <2>4 DEF IInv, TraceInv
  <2>5. CASE ok /\ proc[p].op = "link_reference" /\ a = At(proc[p])
    BY <1>1, <2>2, <2>5 DEF Knows, Traced
  <2> QED BY <2>3, <2>4, <2>5
<1>6. TypeOK'
  BY <1>3, <1>4 DEF IInv, TypeOK, disk, agent
<1>7. AloneInv'
  BY <1>3, StaysAlone DEF agent
<1> QED BY <1>3, <1>4, <1>5, <1>6, <1>7, ProcMoves DEF disk

\* A process goes on with the case it has, nothing else changes but the faults.
LEMMA StageMoves ==
  ASSUME IInv, NEW p \in Procs, proc[p].op # "none", proc[p].stage # "done",
         NEW r \in Works, proc' = [proc EXCEPT ![p] = r], UNCHANGED <<disk, journal, agent, crashes, foreign>>,
         Role(p, r), Knows(record, r), r.op # "none" => r.case = proc[p].case,
         r.op # "none" => \A a \in Names : r.snap.art[a] = "linked" => proc[p].snap.art[a] = "linked",
         faults' \in 0 .. MaxFaults, faults' = 0 => faults = 0
  PROVE  IInv'
<1>1. TypeOK'
  BY DEF IInv, TypeOK, disk, agent, journal
<1>2. AloneInv'
  BY StaysAlone DEF agent
<1>3. \A c \in Linked, a \in Names : r.op # "none" /\ r.case = c /\ r.snap.art[a] = "linked" => Traced(c, a)
  BY DEF IInv, TraceInv
<1>4. \A c, o, a : ~DidIt(p, c, o, a)
  BY DEF DidIt
<1> QED BY <1>1, <1>2, <1>3, <1>4, ProcMoves DEF disk, journal

\* The fault counter after a step.
LEMMA Faults ==
  ASSUME TypeOK, Calm \/ Fault
  PROVE  /\ UNCHANGED <<crashes, foreign>> /\ faults' \in 0 .. MaxFaults /\ (faults' = 0 => faults = 0)
         /\ Fault => faults' # 0
BY SharingAssumption DEF TypeOK, Calm, Fault, trouble

LEMMA ReadInv == ASSUME IInv, NEW p \in Procs, Read(p) PROVE IInv'
<1>1. /\ proc[p] \in Works /\ Role(p, proc[p]) /\ Knows(record, proc[p]) /\ Current(p) = At(proc[p])
      /\ proc[p].op \notin {"none", "contain"} /\ At(proc[p]) \in Names /\ proc[p].stage = "read"
  BY AtWork DEF Read, Role
<1>2. TypeOK /\ UNCHANGED <<crashes, foreign>> /\ faults' \in 0 .. MaxFaults /\ (faults' = 0 => faults = 0)
  BY Faults DEF Read, IInv
<1>3. CASE MayGoOn(p)
  <2> DEFINE r == [proc[p] EXCEPT !.stage = "intent", !.rec = record[Current(p)]]
  <2>1. record[Current(p)] \in Records
    BY <1>1, <1>2 DEF TypeOK
  <2>2. /\ r \in Works /\ r.op = proc[p].op /\ r.stage = "intent" /\ r.rec = record[Current(p)]
        /\ r.case = proc[p].case /\ r.snap = proc[p].snap /\ r.todo = proc[p].todo /\ r.failed = proc[p].failed
    BY <1>1, <2>1 DEF Works
  <2>3. proc' = [proc EXCEPT ![p] = r]
    BY <1>3 DEF Read, Set
  <2> HIDE DEF r
  <2>4. Role(p, r)
    BY <1>1, <2>2 DEF Role
  <2>5. r.op \in {"link_reference", "release_reference"} => record[Current(p)].status = "quarantined"
    BY <1>3, <2>2 DEF MayGoOn
  <2>6. At(r) = Current(p) /\ r.stage \notin {"done", "act"}
    BY <1>1, <2>2 DEF At
  <2>7. Knows(record, r)
    BY <1>1, <2>2, <2>5, <2>6 DEF Knows
  <2> QED BY <1>1, <1>2, <2>2, <2>3, <2>4, <2>7, StageMoves DEF Read
<1>4. CASE ~MayGoOn(p)
  <2>1. Set(p, After(proc[p], FALSE)) /\ UNCHANGED <<disk, agent>> /\ UNCHANGED <<lost, committed>>
    BY <1>4 DEF Read, journal
  <2>2. \A c, o, a : ~DidIt(p, c, o, a)
    BY <1>1 DEF DidIt
  <2> QED BY <1>1, <1>2, <2>1, <2>2, AfterMoves DEF TypeOK
<1> QED BY <1>3, <1>4

LEMMA StagesInv == ASSUME IInv, NEW p \in Procs, WriteIntent(p) \/ ActionFails(p) PROVE IInv'
<1> DEFINE s == IF WriteIntent(p) THEN "act" ELSE "undone"
           r == [proc[p] EXCEPT !.stage = s]
<1>1. /\ proc[p] \in Works /\ Role(p, proc[p]) /\ Knows(record, proc[p])
      /\ proc[p].op \notin {"none", "contain"} /\ proc[p].stage \in {"intent", "act"}
  BY AtWork DEF WriteIntent, ActionFails, Role
<1>2. TypeOK /\ UNCHANGED <<crashes, foreign>> /\ faults' \in 0 .. MaxFaults /\ (faults' = 0 => faults = 0)
  BY Faults DEF WriteIntent, ActionFails, IInv
<1>3. s \in {"act", "undone"} /\ (s = "act" => proc[p].stage = "intent")
  BY DEF WriteIntent
<1>4. proc' = [proc EXCEPT ![p] = r]
  BY DEF WriteIntent, ActionFails, Stage, Set
<1> HIDE DEF s
<1>5. /\ r \in Works /\ r.op = proc[p].op /\ r.stage = s /\ r.rec = proc[p].rec
      /\ r.case = proc[p].case /\ r.snap = proc[p].snap /\ r.todo = proc[p].todo /\ r.failed = proc[p].failed
  BY <1>1, <1>3 DEF Works
<1> HIDE DEF r
<1>6. Role(p, r)
  BY <1>1, <1>3, <1>5 DEF Role
<1>7. Knows(record, r)
  BY <1>1, <1>3, <1>5 DEF Knows, At
<1>8. proc[p].stage # "done" /\ UNCHANGED <<disk, journal, agent>>
  BY <1>1 DEF WriteIntent, ActionFails
<1> QED BY <1>1, <1>2, <1>4, <1>5, <1>6, <1>7, <1>8, StageMoves

LEMMA ResultInv ==
  ASSUME IInv, NEW p \in Procs, WriteResult(p) \/ IntentFails(p) \/ ResultFails(p)
  PROVE  IInv'
<1>1. /\ proc[p] \in Works /\ Role(p, proc[p]) /\ Current(p) = At(proc[p])
      /\ proc[p].op \notin {"none", "contain"} /\ At(proc[p]) \in Names
  BY AtWork DEF WriteResult, IntentFails, ResultFails, Role
<1>2. TypeOK /\ UNCHANGED <<crashes, foreign>> /\ faults' \in 0 .. MaxFaults /\ (faults' = 0 => faults = 0)
  BY Faults DEF WriteResult, IntentFails, ResultFails, IInv
<1>3. /\ Unfinished \subseteq Cases \X Operations \X Names /\ lost \subseteq Unfinished
      /\ \A c, o, a : DidIt(p, c, o, a) => <<c, o, a>> \in Unfinished
  BY UnfinishedIs DEF IInv
<1>4. lost \subseteq Cases \X Operations \X Names /\ committed \subseteq Cases \X Operations \X Names
  BY <1>2 DEF TypeOK
<1>5. CASE WriteResult(p)
  <2> DEFINE ok == proc[p].stage = "done"
             e == <<proc[p].case, proc[p].op, Current(p)>>
  <2>1. /\ ok \in BOOLEAN /\ Set(p, After(proc[p], ok)) /\ UNCHANGED <<disk, lost, agent>>
        /\ committed' = IF ok THEN committed \cup {e} ELSE committed
    BY <1>5 DEF WriteResult
  <2>2. e \in Cases \X Operations \X Names
    BY <1>1 DEF Role, Works
  <2>3. committed \subseteq committed' /\ committed' \subseteq Cases \X Operations \X Names
    BY <1>4, <2>1, <2>2
  <2>4. \A c, o, a : DidIt(p, c, o, a) => <<c, o, a>> \in committed'
    BY <1>1, <2>1 DEF DidIt
  <2>5. ok => proc[p].stage = "done"
    OBVIOUS
  <2> HIDE DEF ok
  <2> QED BY <1>1, <1>2, <1>4, <2>1, <2>3, <2>4, <2>5, AfterMoves
<1>6. CASE IntentFails(p)
  <2>1. Set(p, After(proc[p], FALSE)) /\ UNCHANGED <<disk, agent>> /\ UNCHANGED <<lost, committed>>
    BY <1>6 DEF IntentFails, journal
  <2>2. \A c, o, a : ~DidIt(p, c, o, a)
    BY <1>6 DEF DidIt, IntentFails
  <2> QED BY <1>1, <1>2, <1>4, <2>1, <2>2, AfterMoves
<1>7. CASE ResultFails(p)
  <2>1. Set(p, After(proc[p], FALSE)) /\ UNCHANGED <<disk, agent>> /\ lost' = Unfinished /\ UNCHANGED committed
    BY <1>7 DEF ResultFails
  <2> QED BY <1>1, <1>2, <1>3, <1>4, <2>1, AfterMoves
<1> QED BY <1>5, <1>6, <1>7

LEMMA CrashInv == ASSUME IInv, NEW p \in Procs, Crash(p) PROVE IInv'
<1>1. proc[p].op # "none" /\ proc' = [proc EXCEPT ![p] = Idle] /\ UNCHANGED <<disk, committed, taken, faults, foreign>>
  BY AtWork DEF Crash, Set, Role
<1>2. crashes' \in 0 .. MaxCrashes
  BY SharingAssumption DEF Crash, IInv, TypeOK
<1>3. /\ Unfinished \subseteq Cases \X Operations \X Names /\ lost \subseteq Unfinished /\ lost' = Unfinished
      /\ \A c, o, a : DidIt(p, c, o, a) => <<c, o, a>> \in Unfinished
  BY UnfinishedIs DEF IInv, Crash
<1>4. Idle \in Works /\ Role(p, Idle) /\ Knows(record, Idle) /\ Idle.op = "none"
  BY IdleGood
<1>5. up' \in BOOLEAN /\ blocked' \in BOOLEAN
  BY DEF Crash, IInv, TypeOK
<1>6. TypeOK'
  BY <1>1, <1>2, <1>3, <1>4, <1>5 DEF IInv, TypeOK, disk
<1>7. AloneInv'
  <2>1. \A q \in Procs : proc'[q].op = "none"
    BY <1>1, <1>4, OthersIdle DEF IInv, TypeOK
  <2> QED BY <2>1 DEF AloneInv, Procs
<1> QED BY <1>1, <1>3, <1>4, <1>6, <1>7, ProcMoves DEF disk

LEMMA TakeInv == ASSUME IInv, NEW c \in Linked, Take(c) PROVE IInv'
<1> DEFINE b == [Idle EXCEPT !.case = c, !.snap = Saved("open", Nothing)]
           q == Does(b, "contain", "act")
           r == IF blocked \/ path[Image] # "absent" THEN LinkFailed(b) ELSE q
<1>9. proc' = [proc EXCEPT !["core"] = r] /\ taken' \subseteq Linked /\ UNCHANGED <<disk, journal, up, blocked, trouble>>
  BY DEF Take, Set, Calm, IInv, TypeOK
<1>1. c \in Cases /\ c # Owner /\ "core" \in Procs /\ up /\ proc["core"] = Idle
  BY SharingAssumption DEF Cases, Procs, Take
<1>2. Idle \in Works /\ Idle.op = "none" /\ Idle.stage = "none"
  BY <1>1, IdleGood DEF Idle
<1>3. /\ b \in Works /\ b.case = c /\ b.snap = Saved("open", Nothing)
  BY <1>1, <1>2, NothingSaved DEF Works
<1>4. \A a \in Names : b.snap.art[a] = "none"
  BY <1>3, NothingSaved
<1> HIDE DEF b
<1>5. Mid("core", record, b)
  BY <1>1, <1>3, <1>4, NothingSaved DEF Mid, ArtsOf
<1>6. q \in Works /\ q.op = "contain" /\ q.stage = "act" /\ q.case = c /\ q.snap = b.snap
  BY <1>3 DEF Does, Works
<1> HIDE DEF q
<1>7. Good("core", record, b, q)
  BY <1>1, <1>3, <1>4, <1>6, NothingSaved DEF Good, Role, Knows, RefOps, RestoreOps, ItemOps, ArtsOf
<1>8. Good("core", record, b, r) /\ \A a \in Names : r.snap.art[a] = "none"
  BY <1>4, <1>5, <1>6, <1>7, LinkFailedGood
<1> HIDE DEF r
<1>10. TypeOK'
  BY <1>1, <1>8, <1>9 DEF IInv, TypeOK, Good, disk, journal, trouble
<1>11. AloneInv'
  BY <1>1, <1>9 DEF IInv, AloneInv, TypeOK, Procs
<1>12. \A x, o, a : ~DidIt("core", x, o, a)
  BY <1>1, <1>2 DEF DidIt
<1> QED BY <1>1, <1>8, <1>9, <1>10, <1>11, <1>12, ProcMoves DEF Good, disk, journal, trouble

LEMMA ContainInv == ASSUME IInv, Contain PROVE IInv'
<1> DEFINE todo == Those(doc[Owner].art, "quarantined")
           b == [proc["core"] EXCEPT !.todo = todo]
<1>1. /\ "core" \in Procs /\ proc["core"] \in Works /\ Role("core", proc["core"]) /\ Knows(record, proc["core"])
      /\ proc["core"].op = "contain" /\ proc["core"].stage = "act"
  BY AtWork DEF Contain, Procs, Role
<1>2. Mid("core", record, proc["core"])
  BY <1>1, MidOf
<1>3. b \in Works /\ b.case = proc["core"].case /\ b.snap = proc["core"].snap
  BY <1>1 DEF Works, Those
<1>4. PICK r : proc' = [proc EXCEPT !["core"] = r] /\ r \in {LinkFailed(b), LinkOn(b)}
  BY DEF Contain, Set
<1> HIDE DEF b
<1>5. Mid("core", record, b)
  BY <1>2, <1>3 DEF Mid
<1>6. Good("core", record, b, r) /\ \A a \in Names : r.snap.art[a] = "linked" => b.snap.art[a] = "linked"
  BY <1>4, <1>5, LinkFailedGood, LinkOnGood
<1>7. UNCHANGED <<disk, journal, agent, crashes, foreign>> /\ faults' \in 0 .. MaxFaults /\ (faults' = 0 => faults = 0)
  BY Faults DEF Contain, IInv
<1> QED BY <1>1, <1>3, <1>4, <1>6, <1>7, StageMoves DEF Good

LEMMA RestoreInv == ASSUME IInv, ~Overlap, NEW c \in Cases, Restore(c) PROVE IInv'
<1> DEFINE linked == Those(doc[c].art, "linked")
           mine == Those(doc[c].art, "quarantined")
           b == [Idle EXCEPT !.case = c, !.snap = doc[c]]
           l == [b EXCEPT !.todo = linked]
           m == [b EXCEPT !.todo = mine]
<1>1. /\ "restore" \in Procs /\ ~up /\ proc["restore"] = Idle /\ proc["core"].op = "none"
      /\ doc[c] # NoDoc /\ doc[c].state \notin {"released", "restored"} /\ doc[c] \in Docs
  BY DEF Procs, Restore, IInv, AloneInv, TypeOK
<1>2. Idle \in Works /\ Idle.op = "none" /\ Idle.stage = "none"
  BY <1>1, IdleGood DEF Idle
<1>3. /\ l \in Works /\ l.case = c /\ l.snap = doc[c] /\ l.todo = linked
      /\ m \in Works /\ m.case = c /\ m.snap = doc[c] /\ m.todo = mine
  BY <1>1, <1>2 DEF Works, Those
<1>4. IF linked # {} THEN proc' = [proc EXCEPT !["restore"] = ReleaseOn(l)]
      ELSE proc' = [proc EXCEPT !["restore"] = RestoreOn(m)] /\ \A i \in mine : Allowed(Artifacts[i])
  BY DEF Restore, Set
<1> HIDE DEF l, m, b
<1>5. Mid("restore", record, l) /\ Mid("restore", record, m)
  BY <1>1, <1>3 DEF Mid, IInv, DocInv
<1>6. ASSUME NEW i \in Places PROVE Artifacts[i] \in Names /\ doc[c].art[Artifacts[i]] \in ArtsOf(c)
  BY <1>1 DEF Names, IInv, DocInv
<1>7. PICK r : /\ proc' = [proc EXCEPT !["restore"] = r]
               /\ \E x : x.case = c /\ Good("restore", record, x, r)
               /\ r.snap.art = doc[c].art
  <2>1. CASE linked # {}
    <3>1. c \in Linked
      BY <1>6, <2>1 DEF Those, ArtsOf, Cases
    <3>2. Good("restore", record, l, ReleaseOn(l)) /\ ReleaseOn(l).snap.art = l.snap.art
      BY <1>3, <1>5, <3>1, ReleaseOnGood
    <3> QED BY <1>3, <1>4, <2>1, <3>2
  <2>2. CASE linked = {}
    <3>1. mine # {} => c = Owner
      BY <1>6 DEF Those, ArtsOf
    <3>2. \A i \in mine : record[Artifacts[i]].cases = {Owner}
      BY <1>4, <2>2 DEF Allowed
    <3>3. \A a \in Names : doc[c].art[a] = "quarantined" => \E i \in mine : Artifacts[i] = a
      BY DEF Names, Those
    <3>4. Good("restore", record, m, RestoreOn(m)) /\ RestoreOn(m).snap.art = m.snap.art
      BY <1>3, <1>5, <3>1, <3>2, <3>3, RestoreOnGood
    <3> QED BY <1>3, <1>4, <2>2, <3>4
  <2> QED BY <2>1, <2>2
<1>8. r \in Works /\ r.case = c /\ Role("restore", r) /\ Knows(record, r)
  BY <1>7 DEF Good
<1>9. UNCHANGED <<disk, journal, agent, trouble>>
  BY DEF Restore, Calm
<1>10. TypeOK'
  BY <1>7, <1>8, <1>9 DEF IInv, TypeOK, disk, journal, agent, trouble
<1>11. AloneInv'
  BY <1>1, <1>7, <1>9 DEF IInv, AloneInv, TypeOK, Procs, agent
<1>12. \A x, o, a : ~DidIt("restore", x, o, a)
  BY <1>1, <1>2 DEF DidIt
<1>13. \A x \in Linked, a \in Names : r.op # "none" /\ r.case = x /\ r.snap.art[a] = "linked" => Traced(x, a)
  BY <1>1, <1>7, <1>8 DEF IInv, TraceInv
<1> QED BY <1>1, <1>7, <1>8, <1>9, <1>10, <1>11, <1>12, <1>13, ProcMoves DEF disk, journal, trouble

\* The result of an operation is on disk, not yet in the journal.
LEMMA ToldGrows ==
  ASSUME IInv, NEW p \in Procs, proc[p].stage # "done", NEW r, proc' = [proc EXCEPT ![p] = r],
         UNCHANGED journal, NEW c, NEW o, NEW a, Told(c, o, a)
  PROVE  Told(c, o, a)'
BY DEF Told, DidIt, journal, IInv, TypeOK

\* An operation writes a record.
LEMMA RecordMoves ==
  ASSUME IInv, NEW p \in Procs, proc[p].op \in RefOps, proc[p].stage = "act", NEW new \in Records,
         record' = [record EXCEPT ![At(proc[p])] = new], Stage(p, "done"),
         UNCHANGED <<path, doc, journal, agent, trouble>>,
         record[At(proc[p])].status = "restored" => new.status = "restored",
         new.status = "restored" => new.cases = {Owner},
         proc[p].op \in RestoreOps => new.cases = record[At(proc[p])].cases,
         proc[p].op = "restore_ownership" => new.status = "restored",
         proc[p].op = "link_reference" => proc[p].case \in new.cases,
         \A c \in Linked : c \in record[At(proc[p])].cases =>
           c \in new.cases \/ (proc[p].case = c /\ proc[p].op = "release_reference")
  PROVE  IInv'
<1> DEFINE a0 == At(proc[p])
           r == [proc[p] EXCEPT !.stage = "done"]
<1>1. proc[p] \in Works /\ Role(p, proc[p]) /\ Knows(record, proc[p]) /\ a0 \in Names /\ TypeOK
  BY AtWork DEF RefOps, IInv
<1>2. /\ r \in Works /\ r.op = proc[p].op /\ r.stage = "done" /\ r.case = proc[p].case
      /\ r.snap = proc[p].snap /\ r.todo = proc[p].todo /\ r.failed = proc[p].failed /\ At(r) = a0
  BY <1>1 DEF Works, At
<1>3. proc' = [proc EXCEPT ![p] = r] /\ proc'[p] = r /\ \A q \in Procs \ {p} : proc'[q] = Idle /\ proc[q] = Idle
  BY <1>1, OthersIdle DEF Stage, Set, TypeOK, IInv, RefOps
<1>4. /\ record'[a0] = new /\ \A a \in Names \ {a0} : record'[a] = record[a]
      /\ \A a \in Names : record[a].status = "restored" => record'[a].status = "restored"
  BY <1>1 DEF TypeOK
<1> HIDE DEF r, a0
<1>5. TypeOK'
  BY <1>1, <1>2, <1>3 DEF TypeOK, agent, trouble, journal, a0
<1>6. AloneInv'
  BY <1>3, StaysAlone DEF agent, RefOps
<1>7. DocInv'
  BY <1>4 DEF IInv, DocInv
<1>8. Role(p, r)
  BY <1>1, <1>2 DEF Role, RefOps
<1>9. Knows(record', r)
  <2>1. proc[p].op \in RestoreOps => \A i \in proc[p].todo : record'[Artifacts[i]].cases = {Owner}
    <3> SUFFICES ASSUME proc[p].op \in RestoreOps, NEW i \in proc[p].todo
                 PROVE  record'[Artifacts[i]].cases = {Owner}
      OBVIOUS
    <3>1. Artifacts[i] \in Names /\ record[Artifacts[i]].cases = {Owner}
      BY <1>1 DEF Works, Names, Knows
    <3> QED BY <1>4, <3>1 DEF a0
  <2>2. record'[a0] = new /\ \A a \in Names : record[a].status = "restored" => record'[a].status = "restored"
    BY <1>4
  <2> QED BY <1>1, <1>2, <2>1, <2>2 DEF Knows
<1>10. WorkInv'
  BY <1>3, <1>8, <1>9, IdleGood DEF WorkInv
<1>11. ASSUME NEW c \in Linked, NEW a \in Names, Traced(c, a) PROVE Traced(c, a)'
  <2>1. CASE Told(c, "release_reference", a)
    BY <1>3, <2>1, ToldGrows DEF Traced
  <2>2. CASE c \in record[a].cases
    <3>1. CASE c \in record'[a].cases
      BY <3>1 DEF Traced
    <3>2. CASE a = a0 /\ proc[p].case = c /\ proc[p].op = "release_reference"
      BY <1>2, <1>3, <3>2 DEF Traced, Told, DidIt
    <3> QED BY <1>4, <2>2, <3>1, <3>2 DEF a0
  <2> QED BY <1>11, <2>1, <2>2 DEF Traced
<1>12. TraceInv'
  <2>1. \A q \in Procs : proc'[q].op # "none" => q = p
    BY <1>3, IdleGood
  <2> QED BY <1>2, <1>3, <1>11, <2>1, AtWork DEF IInv, TraceInv, RefOps
<1>13. FreeInv'
  BY <1>4 DEF IInv, FreeInv
<1>14. GapInv'
  <2>1. \A a : Told(Owner, "restore_file", a) => Told(Owner, "restore_file", a)'
    BY <1>3, ToldGrows
  <2> QED BY <1>4, <2>1 DEF IInv, GapInv, trouble
<1> QED BY <1>5, <1>6, <1>7, <1>10, <1>12, <1>13, <1>14 DEF IInv

LEMMA ReferencesInv ==
  ASSUME IInv, NEW p \in Procs, LinkReference(p) \/ ReleaseReference(p) \/ RestoreOwnership(p)
  PROVE  IInv'
<1> DEFINE a0 == At(proc[p]) old == record[At(proc[p])]
<1>1. /\ proc[p] \in Works /\ Role(p, proc[p]) /\ Knows(record, proc[p]) /\ Current(p) = a0 /\ a0 \in Names
      /\ proc[p].stage = "act" /\ proc[p].op \in RefOps
  BY AtWork DEF LinkReference, ReleaseReference, RestoreOwnership, Acts, RefOps
<1>2. proc[p].rec = old /\ old \in Records /\ proc[p].case \in Cases
  BY <1>1 DEF Knows, Role, IInv, TypeOK, RefOps
<1>3. Stage(p, "done") /\ UNCHANGED <<path, doc, journal, agent, trouble>>
  BY DEF LinkReference, ReleaseReference, RestoreOwnership, Calm
<1>4. CASE LinkReference(p)
  <2> DEFINE new == [old EXCEPT !.cases = @ \cup {proc[p].case}]
  <2>1. record' = [record EXCEPT ![a0] = new] /\ proc[p].op = "link_reference" /\ old.status = "quarantined"
    BY <1>1, <1>2, <1>4 DEF LinkReference, Acts, Knows
  <2>2. new \in Records /\ new.status = old.status /\ new.cases = old.cases \cup {proc[p].case}
    BY <1>2 DEF Records
  <2> HIDE DEF new
  <2> QED BY <1>1, <1>3, <2>1, <2>2, RecordMoves DEF RestoreOps
<1>5. CASE ReleaseReference(p)
  <2> DEFINE new == [old EXCEPT !.cases = @ \ {proc[p].case}]
  <2>1. record' = [record EXCEPT ![a0] = new] /\ proc[p].op = "release_reference" /\ old.status = "quarantined"
    BY <1>1, <1>2, <1>5 DEF ReleaseReference, Acts, Knows
  <2>2. proc[p].case # Owner
    BY <1>1, <2>1, SharingAssumption DEF Role
  <2>3. new \in Records /\ new.status = old.status /\ new.cases = old.cases \ {proc[p].case}
    BY <1>2, <2>2 DEF Records
  <2> HIDE DEF new
  <2> QED BY <1>1, <1>3, <2>1, <2>3, RecordMoves DEF RestoreOps
<1>6. CASE RestoreOwnership(p)
  <2> DEFINE new == [old EXCEPT !.status = "restored"]
  <2>1. record' = [record EXCEPT ![a0] = new] /\ proc[p].op = "restore_ownership"
    BY <1>1, <1>2, <1>6 DEF RestoreOwnership, Acts
  <2>2. old.cases = {Owner}
    <3>1. First(proc[p].todo) \in proc[p].todo
      BY <1>1, <2>1, FirstIsOne DEF Role, ItemOps, RestoreOps, Works
    <3> QED BY <1>1, <2>1, <3>1 DEF Knows, RestoreOps, At
  <2>3. new \in Records /\ new.status = "restored" /\ new.cases = old.cases
    BY <1>2 DEF Records
  <2> HIDE DEF new
  <2> QED BY <1>1, <1>3, <2>1, <2>2, <2>3, RecordMoves
<1> QED BY <1>4, <1>5, <1>6

\* The file is at its path when the move is over, and known to be when its hash was read.
LEMMA RestoreFileInv == ASSUME IInv, NEW p \in Procs, RestoreFile(p) PROVE IInv'
<1> DEFINE a0 == At(proc[p])
<1>1. /\ proc[p] \in Works /\ Role(p, proc[p]) /\ Knows(record, proc[p]) /\ Current(p) = a0 /\ a0 \in Names
      /\ proc[p].op = "restore_file" /\ proc[p].stage = "act" /\ proc[p].case = Owner /\ TypeOK
  BY AtWork DEF RestoreFile, Acts, Role, RestoreOps, IInv
<1>2. PICK s \in {"done", "undone"} : /\ Stage(p, s) /\ (Calm \/ Fault)
                                      /\ s = "undone" => Fault \/ UNCHANGED path
  BY DEF RestoreFile
<1>3. path' = path \/ path' = [path EXCEPT ![a0] = "restored"]
  BY <1>1 DEF RestoreFile
<1>4. /\ UNCHANGED <<crashes, foreign>> /\ faults' \in 0 .. MaxFaults /\ (faults' = 0 => faults = 0)
      /\ (Fault => faults' # 0)
  BY <1>1, <1>2, Faults
<1> DEFINE r == [proc[p] EXCEPT !.stage = s]
<1>5. /\ r \in Works /\ r.op = proc[p].op /\ r.stage = s /\ r.case = proc[p].case
      /\ r.snap = proc[p].snap /\ r.todo = proc[p].todo /\ r.failed = proc[p].failed /\ At(r) = a0
  BY <1>1 DEF Works, At
<1>6. proc' = [proc EXCEPT ![p] = r] /\ proc'[p] = r /\ \A q \in Procs \ {p} : proc'[q] = proc[q]
  BY <1>1, <1>2 DEF Stage, Set, TypeOK
<1>7. UNCHANGED <<record, doc, journal, agent>>
  BY DEF RestoreFile
<1> HIDE DEF r, a0
<1>8. TypeOK'
  BY <1>1, <1>3, <1>4, <1>5, <1>6, <1>7 DEF TypeOK, agent, journal
<1>9. AloneInv'
  BY <1>1, <1>6, <1>7, StaysAlone DEF agent
<1>10. DocInv' /\ FreeInv'
  BY <1>7 DEF IInv, DocInv, FreeInv
<1>11. Role(p, r) /\ Knows(record, r)
  BY <1>1, <1>5 DEF Role, Knows, RefOps
<1>12. WorkInv'
  BY <1>6, <1>7, <1>11 DEF IInv, WorkInv
<1>13. \A c, o, a : Told(c, o, a) => Told(c, o, a)'
  BY <1>1, <1>6, <1>7, ToldGrows
<1>14. TraceInv'
  <2>1. \A c \in Linked, a \in Names : Traced(c, a) => Traced(c, a)'
    BY <1>7, <1>13 DEF Traced
  <2> QED BY <1>1, <1>5, <1>6, <1>7, <2>1 DEF IInv, TraceInv
<1>15. GapInv'
  <2> SUFFICES ASSUME faults' = 0, NEW a \in Names, path'[a] = "restored"
               PROVE  record'[a].status = "restored" \/ Told(Owner, "restore_file", a)'
    BY DEF GapInv
  <2>1. CASE path[a] = "restored"
    BY <1>4, <1>7, <1>13, <2>1 DEF IInv, GapInv
  <2>2. CASE path[a] # "restored"
    <3>1. a = a0 /\ s = "done"
      BY <1>1, <1>2, <1>3, <1>4, <2>2 DEF TypeOK
    <3> QED BY <1>1, <1>5, <1>6, <3>1 DEF Told, DidIt
  <2> QED BY <2>1, <2>2
<1> QED BY <1>8, <1>9, <1>10, <1>12, <1>14, <1>15 DEF IInv

LEMMA CommitInv == ASSUME IInv, NEW p \in Procs, CommitCase(p) PROVE IInv'
<1> DEFINE c0 == proc[p].case snap == proc[p].snap r == [proc[p] EXCEPT !.stage = "done"]
<1>1. /\ proc[p] \in Works /\ Role(p, proc[p]) /\ Knows(record, proc[p]) /\ TypeOK
      /\ proc[p].op = "case_commit" /\ proc[p].stage = "act" /\ c0 \in Cases /\ snap \in Docs
      /\ \A a \in Names : snap.art[a] \in ArtsOf(c0)
  BY AtWork DEF CommitCase, Acts, Role, IInv
<1>2. UNCHANGED <<record, path, journal, agent, trouble>> /\ doc' = [doc EXCEPT ![c0] = snap]
  BY DEF CommitCase, Calm
<1>3. /\ r \in Works /\ r.op = proc[p].op /\ r.stage = "done" /\ r.case = c0 /\ r.snap = snap
      /\ r.todo = proc[p].todo /\ r.failed = proc[p].failed
  BY <1>1 DEF Works
<1>4. proc' = [proc EXCEPT ![p] = r] /\ proc'[p] = r /\ \A q \in Procs \ {p} : proc'[q] = proc[q]
  BY <1>1 DEF CommitCase, Stage, Set, TypeOK
<1>5. doc'[c0] = snap /\ \A c \in Cases \ {c0} : doc'[c] = doc[c]
  BY <1>1, <1>2 DEF TypeOK
<1> HIDE DEF r, snap, c0
<1>6. TypeOK'
  BY <1>1, <1>2, <1>3, <1>4 DEF TypeOK, agent, journal, trouble
<1>7. AloneInv'
  BY <1>1, <1>2, <1>4, StaysAlone DEF agent
<1>8. DocInv'
  <2>1. c0 = Owner => /\ snap.state # "released"
                      /\ \A a \in Names : snap.art[a] = "restored" => record[a].status = "restored"
                      /\ snap.state = "restored" => \A a \in Names : snap.art[a] = "restored"
    BY <1>1 DEF Knows, snap, c0
  <2>2. snap # NoDoc /\ Owner \in Cases
    BY <1>1, NoDocAssumption DEF Cases
  <2> QED BY <1>1, <1>2, <1>5, <2>1, <2>2 DEF IInv, DocInv
<1>9. Role(p, r) /\ Knows(record, r)
  BY <1>1, <1>3 DEF Role, Knows, RefOps, c0, snap
<1>10. WorkInv'
  BY <1>2, <1>4, <1>9 DEF IInv, WorkInv
<1>11. \A c, o, a : Told(c, o, a) => Told(c, o, a)'
  BY <1>1, <1>2, <1>4, ToldGrows
<1>12. TraceInv'
  <2>1. \A c \in Linked, a \in Names : Traced(c, a) => Traced(c, a)'
    BY <1>2, <1>11 DEF Traced
  <2>2. \A a \in Names : c0 \in Linked /\ snap.art[a] = "linked" => Traced(c0, a)
    BY <1>1 DEF IInv, TraceInv, c0, snap
  <2>3. ASSUME NEW c \in Linked, NEW a \in Names, doc'[c] # NoDoc, doc'[c].art[a] = "linked"
        PROVE  Traced(c, a)
    BY <1>5, <2>2, <2>3 DEF IInv, TraceInv, Cases
  <2>4. ASSUME NEW c \in Linked, NEW a \in Names, NEW q \in Procs, proc'[q].op # "none",
               proc'[q].case = c, proc'[q].snap.art[a] = "linked"
        PROVE  Traced(c, a)
    BY <1>3, <1>4, <2>2, <2>4 DEF IInv, TraceInv
  <2> QED BY <2>1, <2>3, <2>4 DEF TraceInv
<1>13. FreeInv' /\ GapInv'
  BY <1>2, <1>11 DEF IInv, FreeInv, GapInv, trouble
<1> QED BY <1>6, <1>7, <1>8, <1>10, <1>12, <1>13 DEF IInv

LEMMA UpDownInv == ASSUME IInv, ~Overlap, Stop \/ Start PROVE IInv'
<1>1. UNCHANGED <<disk, journal, taken, proc, trouble>> /\ up' \in BOOLEAN
  BY DEF Stop, Start, Calm
<1>2. blocked' \in BOOLEAN
  BY Zenon DEF Stop, Start
<1>3. TypeOK'
  BY <1>1, <1>2 DEF IInv, TypeOK, disk, journal, trouble
<1>4. AloneInv'
  BY <1>1, IdleGood DEF Stop, Start, AloneInv, Procs
<1>5. DocInv' /\ WorkInv' /\ FreeInv'
  BY <1>1 DEF IInv, DocInv, WorkInv, FreeInv, disk
<1>6. TraceInv' /\ GapInv'
  BY <1>1 DEF IInv, TraceInv, GapInv, Traced, Told, DidIt, disk, journal, trouble
<1> QED BY <1>3, <1>4, <1>5, <1>6 DEF IInv

\* Others put files at paths and take them away: no file is put back by that.
LEMMA PathsInv ==
  ASSUME IInv, NEW a0 \in Names, Appears(a0) \/ Leaves(a0) \/ TakenAway(a0)
  PROVE  IInv'
<1>1. UNCHANGED <<record, doc, journal, agent, proc, crashes, faults>>
  BY DEF Appears, Leaves, TakenAway, Calm, trouble
<1>2. PICK s \in {"absent", "foreign"} : path' = [path EXCEPT ![a0] = s]
  BY DEF Appears, Leaves, TakenAway
<1>3. foreign' \in 0 .. MaxForeign
  BY SharingAssumption DEF Appears, Leaves, TakenAway, Calm, trouble, IInv, TypeOK
<1>4. TypeOK'
  BY <1>1, <1>2, <1>3 DEF IInv, TypeOK, journal, agent
<1>5. DocInv' /\ WorkInv' /\ FreeInv' /\ AloneInv'
  BY <1>1 DEF IInv, DocInv, WorkInv, FreeInv, AloneInv, agent
<1>6. \A a \in Names : path'[a] = "restored" => path[a] = "restored"
  BY <1>2 DEF IInv, TypeOK
<1>7. TraceInv' /\ GapInv'
  BY <1>1, <1>6 DEF IInv, TraceInv, GapInv, Traced, Told, DidIt, journal
<1> QED BY <1>4, <1>5, <1>7 DEF IInv

LEMMA NextInv == ASSUME IInv, ~Overlap, [Next]_vars PROVE IInv'
<1>1. CASE UNCHANGED vars
  BY <1>1 DEF vars, disk, journal, agent, trouble, IInv, TypeOK, AloneInv, DocInv, WorkInv, TraceInv,
              FreeInv, GapInv, Traced, Told, DidIt
<1>2. ASSUME NEW c \in Linked, Take(c) PROVE IInv'
  BY <1>2, TakeInv
<1>3. ASSUME NEW c \in Cases, Restore(c) PROVE IInv'
  BY <1>3, RestoreInv
<1>4. ASSUME NEW p \in Procs, Step(p) PROVE IInv'
  BY <1>4, ReadInv, StagesInv, ReferencesInv, RestoreFileInv, CommitInv, ResultInv DEF Step, Perform
<1>5. ASSUME NEW p \in Procs, Fails(p) PROVE IInv'
  BY <1>5, StagesInv, ResultInv, CrashInv DEF Fails
<1>6. ASSUME NEW a \in Names, Appears(a) \/ Leaves(a) \/ TakenAway(a) PROVE IInv'
  BY <1>6, PathsInv
<1> QED BY <1>1, <1>2, <1>3, <1>4, <1>5, <1>6, ContainInv, UpDownInv DEF Next

-------------------------------------------------------------------------------
(* Theorems. *)

\* The invariant holds of every run in which the command waits for the agent to be down.
THEOREM Inductive == ASSUME ~Overlap PROVE Spec => []IInv
<1>1. IInv /\ [Next]_vars => IInv'
  BY NextInv
<1> QED BY InitInv, <1>1, PTL DEF Spec

\* Records, cases and journal keep their types, and the owner stays in every record.
THEOREM TypesHold == ASSUME ~Overlap PROVE Spec => []TypeOK
<1>1. IInv => TypeOK
  BY DEF IInv
<1> QED BY Inductive, <1>1, PTL

\* What was done is found by the inspection when its result is missing.
LEMMA ToldIsFound ==
  ASSUME IInv, NEW c \in Cases, NEW o \in Operations, NEW a \in Names, Told(c, o, a),
         <<c, o, a>> \in committed => Finding(c, a)
  PROVE  Finding(c, a)
<1>1. <<c, o, a>> \in committed \/ <<c, o, a>> \in Unfinished
  BY UnfinishedIs DEF Told, IInv
<1> QED BY <1>1 DEF Finding

\* A restored artifact is the owner's alone, and a case that still says it is
\* linked is reported (releaseReference and restoreOwnership).
THEOREM RestoredFree == ASSUME ~Overlap PROVE Spec => []RestoredIsFree
<1>1. IInv => RestoredIsFree
  <2> SUFFICES ASSUME IInv, NEW a \in Names, record[a].status = "restored"
               PROVE  /\ record[a].cases = {Owner}
                      /\ \A c \in Linked : doc[c] # NoDoc => (doc[c].art[a] = "linked" => Finding(c, a))
    BY DEF RestoredIsFree
  <2>1. record[a].cases = {Owner}
    BY DEF IInv, FreeInv
  <2>2. ASSUME NEW c \in Linked, doc[c] # NoDoc, doc[c].art[a] = "linked" PROVE Finding(c, a)
    <3>1. Told(c, "release_reference", a)
      BY <2>1, <2>2, SharingAssumption DEF IInv, TraceInv, Traced
    <3>2. <<c, "release_reference", a>> \in committed => Finding(c, a)
      BY <2>2 DEF Finding, ReferenceGap
    <3> QED BY <3>1, <3>2, ToldIsFound DEF Cases, Operations
  <2> QED BY <2>1, <2>2
<1> QED BY Inductive, <1>1, PTL

\* A file the command put back is told of, wherever the command died.
THEOREM RestoreGapTold == ASSUME ~Overlap PROVE Spec => []RestoreGapReported
<1>1. IInv => RestoreGapReported
  <2> SUFFICES ASSUME IInv, NEW a \in Names, faults = 0, path[a] = "restored", record[a].status # "restored"
               PROVE  Finding(Owner, a)
    BY DEF RestoreGapReported
  <2>1. Told(Owner, "restore_file", a)
    BY DEF IInv, GapInv
  <2>2. <<Owner, "restore_file", a>> \in committed => Finding(Owner, a)
    BY DEF IInv, DocInv, Finding, RestoreGap
  <2> QED BY <2>1, <2>2, ToldIsFound DEF Cases, Operations
<1> QED BY Inductive, <1>1, PTL

\* Every step of the two processes and of the world is one that sharing allows:
\* nobody takes a closed artifact, none is put back or closed while it is held.
THEOREM SharingImplemented == ASSUME ~Overlap PROVE Spec => ImplementsSharedArtifact
<1> DEFINE held == [a \in Names |-> record[a].cases \ {Owner}]
           back == {a \in Names : path[a] = "restored"}
           closed == {a \in Names : record[a].status = "restored"}
<1>1. Init => Shared!SharedInit
  <2> SUFFICES ASSUME Init PROVE held = [a \in Names |-> {}] /\ back = {} /\ closed = {}
    BY DEF Shared!SharedInit
  <2>1. record = [a \in Names |-> Whole] /\ path = [a \in Names |-> "absent"]
    BY DEF Init
  <2> QED BY <2>1 DEF Whole
<1>2. ASSUME IInv, [Next]_vars PROVE [Shared!SharedNext]_(Shared!sharing)
  <2>1. CASE UNCHANGED <<record, path>>
    BY <2>1 DEF Shared!sharing
  <2>2. ASSUME NEW p \in Procs, LinkReference(p) \/ ReleaseReference(p) \/ RestoreOwnership(p)
        PROVE  Shared!SharedNext
    <3> DEFINE a0 == At(proc[p]) c0 == proc[p].case old == record[At(proc[p])]
    <3>1. /\ proc[p] \in Works /\ Role(p, proc[p]) /\ Knows(record, proc[p]) /\ Current(p) = a0 /\ a0 \in Names
          /\ proc[p].rec = old /\ old \in Records /\ TypeOK /\ UNCHANGED path
      BY <1>2, <2>2, AtWork DEF LinkReference, ReleaseReference, RestoreOwnership, Acts, RefOps, Knows, IInv, TypeOK
    <3>2. CASE LinkReference(p)
      <4>1. /\ c0 \in Linked /\ old.status = "quarantined"
            /\ record' = [record EXCEPT ![a0] = [old EXCEPT !.cases = @ \cup {c0}]]
        BY <3>1, <3>2 DEF LinkReference, Acts, Role, Knows, Procs, RestoreOps
      <4>2. /\ record'[a0].cases = old.cases \cup {c0} /\ record'[a0].status = old.status
            /\ \A a \in Names \ {a0} : record'[a] = record[a]
        BY <3>1, <4>1 DEF TypeOK, Records
      <4>3. a0 \notin closed /\ closed' = closed
        BY <4>1, <4>2
      <4>4. held' = [held EXCEPT ![a0] = @ \cup {c0}]
        BY <3>1, <4>1, <4>2, SharingAssumption
      <4>5. back' = back
        BY <3>1
      <4> QED BY <3>1, <4>1, <4>3, <4>4, <4>5 DEF Shared!SharedNext, Shared!Hold
    <3>3. CASE ReleaseReference(p)
      <4>1. /\ c0 \in Linked /\ old.status = "quarantined"
            /\ record' = [record EXCEPT ![a0] = [old EXCEPT !.cases = @ \ {c0}]]
        BY <3>1, <3>3 DEF ReleaseReference, Acts, Role, Knows
      <4>2. /\ record'[a0].cases = old.cases \ {c0} /\ record'[a0].status = old.status
            /\ \A a \in Names \ {a0} : record'[a] = record[a]
        BY <3>1, <4>1 DEF TypeOK, Records
      <4>3. closed' = closed
        BY <4>2
      <4>4. held' = [held EXCEPT ![a0] = @ \ {c0}]
        BY <3>1, <4>2
      <4>5. back' = back
        BY <3>1
      <4> QED BY <3>1, <4>1, <4>3, <4>4, <4>5 DEF Shared!SharedNext, Shared!LetGo
    <3>4. CASE RestoreOwnership(p)
      <4>1. /\ record' = [record EXCEPT ![a0] = [old EXCEPT !.status = "restored"]]
            /\ proc[p].op = "restore_ownership"
        BY <3>1, <3>4 DEF RestoreOwnership, Acts
      <4>2. First(proc[p].todo) \in proc[p].todo
        BY <3>1, <4>1, FirstIsOne DEF Role, ItemOps, RestoreOps, Works
      <4>3. old.cases = {Owner}
        BY <3>1, <4>1, <4>2 DEF Knows, RestoreOps, At
      <4>4. /\ record'[a0].cases = old.cases /\ record'[a0].status = "restored"
            /\ \A a \in Names \ {a0} : record'[a] = record[a]
        BY <3>1, <4>1 DEF TypeOK, Records
      <4>5. held[a0] = {} /\ closed' = closed \cup {a0}
        BY <3>1, <4>3, <4>4
      <4>6. held' = held /\ back' = back
        BY <3>1, <4>4
      <4> QED BY <3>1, <4>5, <4>6 DEF Shared!SharedNext, Shared!Close
    <3> QED BY <2>2, <3>2, <3>3, <3>4
  <2>3. ASSUME NEW p \in Procs, RestoreFile(p), ~UNCHANGED path PROVE Shared!SharedNext
    <3> DEFINE a0 == At(proc[p])
    <3>1. /\ proc[p] \in Works /\ Role(p, proc[p]) /\ Knows(record, proc[p]) /\ Current(p) = a0 /\ a0 \in Names
          /\ proc[p].op = "restore_file" /\ TypeOK /\ UNCHANGED record
      BY <1>2, <2>3, AtWork DEF RestoreFile, Acts, IInv
    <3>2. path[a0] # "restored" /\ path' = [path EXCEPT ![a0] = "restored"]
      BY <2>3, <3>1 DEF RestoreFile
    <3>3. First(proc[p].todo) \in proc[p].todo
      BY <3>1, FirstIsOne DEF Role, ItemOps, RestoreOps, Works
    <3>4. record[a0].cases = {Owner}
      BY <3>1, <3>3 DEF Knows, RestoreOps, At
    <3>5. held[a0] = {} /\ a0 \notin back /\ back' = back \cup {a0}
      BY <3>1, <3>2, <3>4 DEF TypeOK
    <3>6. held' = held /\ closed' = closed
      BY <3>1
    <3> QED BY <3>1, <3>5, <3>6 DEF Shared!SharedNext, Shared!PutBack
  <2>4. ASSUME NEW a0 \in Names, Appears(a0) \/ Leaves(a0) \/ TakenAway(a0)
        PROVE  [Shared!SharedNext]_(Shared!sharing)
    <3>1. UNCHANGED record /\ path \in [Names -> {"absent", "restored", "foreign"}]
      BY <1>2, <2>4 DEF Appears, Leaves, TakenAway, IInv, TypeOK
    <3>2. held' = held /\ closed' = closed
      BY <3>1
    <3>3. CASE TakenAway(a0)
      <4>1. back' = back \ {a0}
        BY <3>1, <3>3 DEF TakenAway
      <4> QED BY <3>2, <4>1 DEF Shared!SharedNext, Shared!Gone
    <3>4. CASE Appears(a0) \/ Leaves(a0)
      <4>1. back' = back
        BY <3>1, <3>4 DEF Appears, Leaves
      <4> QED BY <3>2, <4>1 DEF Shared!sharing
    <3> QED BY <2>4, <3>3, <3>4
  <2>5. ASSUME NEW c \in Linked, Take(c) PROVE UNCHANGED <<record, path>>
    BY <2>5 DEF Take, disk
  <2>6. ASSUME NEW c \in Cases, Restore(c) PROVE UNCHANGED <<record, path>>
    BY <2>6 DEF Restore, disk
  <2>7. ASSUME Contain \/ Stop \/ Start PROVE UNCHANGED <<record, path>>
    BY <2>7 DEF Contain, Stop, Start, disk
  <2>8. ASSUME NEW p \in Procs, Read(p) \/ WriteIntent(p) \/ WriteResult(p) \/ CommitCase(p) \/ Fails(p)
        PROVE  UNCHANGED <<record, path>>
    BY <2>8 DEF Read, WriteIntent, WriteResult, CommitCase, Fails, IntentFails, ActionFails, ResultFails, Crash, disk
  <2>9. ASSUME NEW p \in Procs, RestoreFile(p), UNCHANGED path PROVE UNCHANGED <<record, path>>
    BY <2>9 DEF RestoreFile
  <2>10. UNCHANGED vars => UNCHANGED <<record, path>>
    BY DEF vars, disk
  <2> QED BY <1>2, <2>1, <2>2, <2>3, <2>4, <2>5, <2>6, <2>7, <2>8, <2>9, <2>10 DEF Next, Step, Perform
<1> QED BY Inductive, <1>1, <1>2, PTL DEF Spec, ImplementsSharedArtifact, Shared!SharedSpec
-------------------------------------------------------------------------------
(* No reference is forgotten. *)

\* No write failed and nobody touched the paths.
Quiet == faults = 0 /\ foreign = 0
Back(a) == path[a] = "restored"

\* Files come back in the order of the case, the image first, and only then is the
\* record closed; the agent links while none is back, and then nothing stops it.
PathFit(r) ==
  /\ r.op \in RestoreOps =>
       /\ 1 \in r.todo \/ Back(Image)
       /\ r.op = "restore_ownership" \/ r.stage \in {"done", "undone"} => Back(At(r))
  /\ r.op \in {"contain", "link_reference"} => ~Back(Image) /\ r.stage # "undone"
PathInv ==
  Quiet =>
    /\ \A a \in Names :
         /\ path[a] # "foreign"
         /\ Back(a) => Back(Image)
         /\ record[a].status = "restored" => Back(a)
    /\ \A p \in Procs : PathFit(proc[p])

\* A case is new when the agent takes it, and has no file until it is saved; the
\* command works on cases that have one.
FreshFit(p, r, T) ==
  r.op # "none" =>
    /\ p = "core" => r.case \in T
    /\ r.op \in {"contain", "link_reference"} => doc[r.case] = NoDoc
    /\ p = "restore" => doc[r.case] # NoDoc
FreshInv ==
  /\ \A c \in Linked \ taken : doc[c] = NoDoc /\ \A a \in Names : c \notin record[a].cases
  /\ \A p \in Procs : FreshFit(p, proc[p], taken)

\* A reference is in the journal until its case is saved and in the case from then on,
\* and no process is about to save the case without it.
ReleaseFit(r) ==
  r.op = "release_reference" /\ r.stage = "done" => r.case \notin record[At(r)].cases
HoldFit(r, c, a) ==
  r.case = c =>
    /\ r.op # "contain"
    /\ r.snap.art[a] = "linked" \/ (r.op = "link_reference" /\ r.stage = "done" /\ At(r) = a)
Tells(c, a) ==
  IF doc[c] = NoDoc THEN Told(c, "link_reference", a) ELSE doc[c].art[a] = "linked"
ReferenceInv ==
  /\ \A p \in Procs : ReleaseFit(proc[p])
  /\ Quiet => \A a \in Names : \A c \in record[a].cases \ {Owner} :
                Tells(c, a) /\ \A p \in Procs : HoldFit(proc[p], c, a)

KInv == IInv /\ PathInv /\ FreshInv /\ ReferenceInv

\* The image comes first.
LEMMA ImageFirst ==
  ASSUME NEW S \in SUBSET Places, 1 \in S
  PROVE  First(S) = 1
<1>1. S \subseteq Nat /\ \A y \in S : 1 <= y
  BY SharingAssumption DEF Places
<1>2. \E x \in S : \A y \in S : x <= y
  BY <1>1
<1>3. First(S) \in S /\ First(S) <= 1
  BY <1>2 DEF First
<1>4. First(S) \in Nat /\ 1 <= First(S)
  BY <1>1, <1>3
<1> QED BY <1>3, <1>4

\* What a process turns to next.
LEMMA OnFields ==
  ASSUME NEW r \in Works, r.snap \in Docs
  PROVE  /\ LinkOn(r).case = r.case /\ LinkOn(r).op \in {"link_reference", "case_commit"}
         /\ LinkOn(r).stage \in {"read", "intent"} /\ LinkOn(r).snap.art = r.snap.art
         /\ LinkFailed(r).case = r.case /\ LinkFailed(r).op = "case_commit"
         /\ LinkFailed(r).stage = "intent"
         /\ ReleaseOn(r).case = r.case /\ ReleaseOn(r).op \in {"release_reference", "case_commit"}
         /\ ReleaseOn(r).stage \in {"read", "intent"} /\ ReleaseOn(r).snap.art = r.snap.art
         /\ RestoreOn(r).case = r.case /\ RestoreOn(r).op \in {"restore_file", "case_commit"}
         /\ RestoreOn(r).stage \in {"read", "intent"} /\ RestoreOn(r).snap.art = r.snap.art
         /\ RestoreOn(r).op = "restore_file" => RestoreOn(r).todo = r.todo
<1>1. \A s \in {"open", "partial_restore", "released", "restored"} :
        Saved(s, r.snap.art) \in Docs /\ Saved(s, r.snap.art).art = r.snap.art
  BY ArtTypes
<1>2. LinkOn(r).case = r.case /\ LinkOn(r).op \in {"link_reference", "case_commit"}
      /\ LinkOn(r).stage \in {"read", "intent"} /\ LinkOn(r).snap.art = r.snap.art
  BY DoesFields, SavesFields DEF LinkOn, Operations
<1>3. /\ LinkFailed(r).case = r.case /\ LinkFailed(r).op = "case_commit"
      /\ LinkFailed(r).stage = "intent"
  BY NothingSaved, SavesFields DEF LinkFailed
<1>4. ReleaseOn(r).case = r.case /\ ReleaseOn(r).op \in {"release_reference", "case_commit"}
      /\ ReleaseOn(r).stage \in {"read", "intent"} /\ ReleaseOn(r).snap.art = r.snap.art
  <2>1. CASE r.todo # {}
    BY <2>1, DoesFields DEF ReleaseOn, Operations
  <2>2. CASE r.todo = {}
    <3> DEFINE e == Saved("released", r.snap.art)
    <3>1. ReleaseOn(r) = Saves(r, e) /\ e \in Docs /\ e.art = r.snap.art
      BY <1>1, <2>2 DEF ReleaseOn
    <3> HIDE DEF e
    <3> QED BY <3>1, SavesFields
  <2> QED BY <2>1, <2>2
<1>5. /\ RestoreOn(r).case = r.case /\ RestoreOn(r).op \in {"restore_file", "case_commit"}
      /\ RestoreOn(r).stage \in {"read", "intent"} /\ RestoreOn(r).snap.art = r.snap.art
      /\ RestoreOn(r).op = "restore_file" => RestoreOn(r).todo = r.todo
  <2>1. CASE r.todo # {}
    BY <2>1, DoesFields DEF RestoreOn, Operations
  <2>2. CASE r.todo = {}
    <3> DEFINE s == IF r.failed THEN "partial_restore" ELSE "restored"
               e == Saved(s, r.snap.art)
    <3>1. s \in {"open", "partial_restore", "released", "restored"}
      OBVIOUS
    <3>2. RestoreOn(r) = Saves(r, e)
      BY <2>2 DEF RestoreOn
    <3> HIDE DEF s
    <3>3. e \in Docs /\ e.art = r.snap.art
      BY <1>1, <3>1
    <3> HIDE DEF e
    <3> QED BY <3>2, <3>3, SavesFields
  <2> QED BY <2>1, <2>2
<1> QED BY <1>2, <1>3, <1>4, <1>5

\* So is a file put back whose record says so.
LEMMA MarkRestored ==
  ASSUME NEW p, NEW recs, NEW r, Mid(p, recs, r), r.todo # {}, r.case = Owner,
         recs[Artifacts[First(r.todo)]].status = "restored"
  PROVE  /\ Mark(r, "restored") \in Works /\ Mark(r, "restored").snap \in Docs
         /\ Mark(r, "restored").case = r.case
         /\ Mark(r, "restored").todo = r.todo \ {First(r.todo)}
<1>1. Mid(p, recs, Mark(r, "restored"))
  BY MarkMid DEF ArtsOf
<1>2. r \in Works
  BY DEF Mid
<1>3. Mark(r, "restored").case = r.case /\ Mark(r, "restored").todo = r.todo \ {First(r.todo)}
  BY <1>2 DEF Mark, Left, Works
<1> QED BY <1>1, <1>3 DEF Mid

\* The operation of r is over: where it goes, and with which case in hand.
LEMMA AfterFields ==
  ASSUME NEW p \in Procs, NEW recs, NEW r \in Works, Role(p, r), Knows(recs, r),
         r.op \notin {"none", "contain"}, NEW ok \in BOOLEAN, ok => r.stage = "done",
         NEW n, n = After(r, ok), n # Idle
  PROVE  /\ n.case = r.case /\ n.stage \in {"read", "intent"} /\ r.op # "case_commit"
         /\ r.op = "link_reference" =>
              /\ n.op \in {"link_reference", "case_commit"}
              /\ ok => n.snap.art = [r.snap.art EXCEPT ![At(r)] = "linked"]
         /\ r.op = "release_reference" =>
              /\ ok /\ n.op \in {"release_reference", "case_commit"}
              /\ n.snap.art = [r.snap.art EXCEPT ![At(r)] = "released"]
         /\ r.op \in RestoreOps =>
              /\ n.op \in RestoreOps \union {"case_commit"}
              /\ n.op = "restore_ownership" => ok /\ r.op = "restore_file" /\ n.todo = r.todo
              /\ n.op = "restore_file" =>
                   (ok => r.op = "restore_ownership") /\ n.todo = r.todo \ {First(r.todo)}
<1>0. Mid(p, recs, r) /\ r.snap \in Docs
  BY MidOf DEF Mid
<1>1. CASE r.op = "link_reference"
  <2>1. p = "core" /\ r.todo # {} /\ r.case \in Linked /\ r.case # Owner
    BY <1>1, SharingAssumption DEF Procs, Role, ItemOps, RestoreOps
  <2>2. CASE ok
    <3> DEFINE m == Mark(r, "linked")
    <3>1. m \in Works /\ m.snap \in Docs /\ m.case = r.case
          /\ m.snap.art = [r.snap.art EXCEPT ![At(r)] = "linked"]
      BY <1>0, <1>1, <2>1, MarkMid DEF ArtsOf, At, Mid
    <3>2. n = LinkOn(m)
      BY <1>1, <2>2 DEF After
    <3> HIDE DEF m
    <3> QED BY <1>1, <3>1, <3>2, OnFields DEF RestoreOps
  <2>3. CASE ~ok
    <3>1. n = LinkFailed(r)
      BY <1>1, <2>3 DEF After
    <3> QED BY <1>0, <1>1, <2>3, <3>1, OnFields DEF RestoreOps
  <2> QED BY <2>2, <2>3
<1>2. CASE r.op = "release_reference"
  <2>1. r.todo # {} /\ r.case \in Linked /\ r.case # Owner /\ ok
    BY <1>2, SharingAssumption DEF Role, ItemOps, RestoreOps, After
  <2> DEFINE m == Mark(r, "released")
  <2>2. m \in Works /\ m.snap \in Docs /\ m.case = r.case
        /\ m.snap.art = [r.snap.art EXCEPT ![At(r)] = "released"]
    BY <1>0, <1>2, <2>1, MarkMid DEF ArtsOf, At, Mid
  <2>3. n = ReleaseOn(m)
    BY <1>2, <2>1 DEF After
  <2> HIDE DEF m
  <2>4. /\ n.case = r.case /\ n.stage \in {"read", "intent"}
        /\ n.op \in {"release_reference", "case_commit"} /\ n.snap.art = m.snap.art
    BY <2>2, <2>3, OnFields
  <2> QED BY <1>2, <2>1, <2>2, <2>4 DEF RestoreOps
<1>3. CASE r.op \in RestoreOps
  <2>1. r.todo # {} /\ r.case = Owner
    BY <1>3 DEF Role, ItemOps
  <2>2. CASE ~ok
    <3> DEFINE m == [r EXCEPT !.failed = TRUE, !.todo = Left(r)]
    <3>1. m \in Works /\ m.snap = r.snap /\ m.case = r.case /\ m.todo = r.todo \ {First(r.todo)}
      BY DEF Works, Left
    <3>2. n = RestoreOn(m)
      BY <1>3, <2>2 DEF After, RestoreOps, RestoreFailed
    <3> HIDE DEF m
    <3> QED BY <1>0, <1>3, <2>2, <3>1, <3>2, OnFields DEF RestoreOps
  <2>3. CASE ok /\ r.op = "restore_file"
    <3>1. n = Does(r, "restore_ownership", "read")
      BY <2>3 DEF After
    <3>2. n.op = "restore_ownership" /\ n.stage = "read" /\ n.case = r.case /\ n.todo = r.todo
      BY <3>1, DoesFields DEF Operations
    <3> QED BY <2>3, <3>2 DEF RestoreOps
  <2>4. CASE ok /\ r.op = "restore_ownership"
    <3> DEFINE m == Mark(r, "restored")
    <3>1. recs[Artifacts[First(r.todo)]].status = "restored"
      BY <2>4 DEF Knows, At
    <3>2. m \in Works /\ m.snap \in Docs /\ m.case = r.case /\ m.todo = r.todo \ {First(r.todo)}
      BY <1>0, <2>1, <3>1, MarkRestored
    <3>3. n = RestoreOn(m)
      BY <2>4 DEF After
    <3> HIDE DEF m
    <3> QED BY <2>4, <3>2, <3>3, OnFields DEF RestoreOps
  <2> QED BY <1>3, <2>2, <2>3, <2>4 DEF RestoreOps
<1>4. CASE r.op = "case_commit"
  BY <1>4 DEF After
<1> QED BY <1>1, <1>2, <1>3, <1>4 DEF Role, Procs, RestoreOps

\* A process without work fits.
LEMMA IdleFits ==
  ASSUME NEW p
  PROVE  /\ PathFit(Idle) /\ (\A T : FreshFit(p, Idle, T)) /\ ReleaseFit(Idle)
         /\ \A c \in Cases : \A a : HoldFit(Idle, c, a)
BY SharingAssumption DEF Idle, PathFit, FreshFit, ReleaseFit, HoldFit, RestoreOps, Cases

\* A step of one process that leaves records, paths and cases alone, and goes on to
\* work that fits.
LEMMA WorkMoves ==
  ASSUME TypeOK, PathInv, FreshInv, ReferenceInv,
         NEW p \in Procs, NEW r, proc' = [proc EXCEPT ![p] = r],
         UNCHANGED <<record, path, doc>>, taken \subseteq taken', Quiet' => Quiet,
         Quiet' => PathFit(r), FreshFit(p, r, taken'), ReleaseFit(r),
         Quiet' => \A a \in Names : \A c \in record[a].cases \ {Owner} : HoldFit(r, c, a),
         committed \subseteq committed', lost \subseteq lost',
         \A c, o, a : DidIt(p, c, o, a) => <<c, o, a>> \in committed' \cup lost'
  PROVE  PathInv' /\ FreshInv' /\ ReferenceInv'
<1>1. proc'[p] = r /\ \A q \in Procs \ {p} : proc'[q] = proc[q]
  BY DEF TypeOK
<1>2. ASSUME NEW c, NEW o, NEW a, Told(c, o, a) PROVE Told(c, o, a)'
  BY <1>1, <1>2 DEF Told, DidIt
<1>3. PathInv'
  BY <1>1 DEF PathInv, PathFit, Back
<1>4. FreshInv'
  BY <1>1 DEF FreshInv, FreshFit
<1>5. ReferenceInv'
  <2>1. \A q \in Procs : ReleaseFit(proc[q])'
    BY <1>1 DEF ReferenceInv, ReleaseFit
  <2>2. ASSUME Quiet', NEW a \in Names, NEW c \in record[a].cases \ {Owner}
        PROVE  Tells(c, a)' /\ \A q \in Procs : HoldFit(proc[q], c, a)'
    <3>1. Tells(c, a) /\ \A q \in Procs : HoldFit(proc[q], c, a)
      BY <2>2 DEF ReferenceInv
    <3>2. Tells(c, a)'
      BY <1>2, <3>1 DEF Tells
    <3> QED BY <1>1, <2>2, <3>1, <3>2 DEF HoldFit
  <2> QED BY <2>1, <2>2 DEF ReferenceInv
<1> QED BY <1>3, <1>4, <1>5

\* What a process turns to fits, unless a failed link or an unexplained failure of a
\* restore got it there.
LEMMA AfterFits ==
  ASSUME IInv, PathInv, FreshInv, ReferenceInv, NEW p \in Procs,
         proc[p].op \notin {"none", "contain"}, NEW ok \in BOOLEAN, ok => proc[p].stage = "done",
         NEW r, r = After(proc[p], ok)
  PROVE  /\ FreshFit(p, r, taken) /\ ReleaseFit(r)
         /\ Quiet /\ (ok \/ /\ proc[p].op # "link_reference"
                            /\ proc[p].op = "restore_file" => Back(At(proc[p])))
              => /\ PathFit(r)
                 /\ \A a \in Names : \A c \in record[a].cases \ {Owner} : HoldFit(r, c, a)
<1> DEFINE w == proc[p]
<1>0. /\ w \in Works /\ Role(p, w) /\ Knows(record, w) /\ At(w) \in Names
      /\ \A a \in Names : record[a].cases \subseteq Cases
  BY AtWork DEF IInv, TypeOK, Records
<1>1. CASE r = Idle
  BY <1>0, <1>1, IdleFits
<1>2. CASE r # Idle
  <2>1. /\ r.case = w.case /\ r.stage \in {"read", "intent"} /\ w.op # "case_commit"
        /\ w.op = "link_reference" =>
             /\ r.op \in {"link_reference", "case_commit"}
             /\ ok => r.snap.art = [w.snap.art EXCEPT ![At(w)] = "linked"]
        /\ w.op = "release_reference" =>
             /\ ok /\ r.op \in {"release_reference", "case_commit"}
             /\ r.snap.art = [w.snap.art EXCEPT ![At(w)] = "released"]
        /\ w.op \in RestoreOps =>
             /\ r.op \in RestoreOps \union {"case_commit"}
             /\ r.op = "restore_ownership" => ok /\ w.op = "restore_file" /\ r.todo = w.todo
             /\ r.op = "restore_file" =>
                  (ok => w.op = "restore_ownership") /\ r.todo = w.todo \ {First(w.todo)}
    BY <1>0, <1>2, AfterFields
  <2>2. w.op \in {"link_reference", "release_reference"} \union RestoreOps
    BY <1>0, <2>1 DEF Works, Operations, RestoreOps
  <2>3. PathFit(w) \/ ~Quiet
    BY DEF PathInv
  <2>4. FreshFit(p, w, taken) /\ ReleaseFit(w)
    BY DEF FreshInv, ReferenceInv
  <2>5. FreshFit(p, r, taken)
    BY <2>1, <2>2, <2>4 DEF FreshFit, RestoreOps
  <2>6. ReleaseFit(r)
    BY <2>1 DEF ReleaseFit
  <2>7. ASSUME Quiet, ok \/ (w.op # "link_reference" /\ (w.op = "restore_file" => Back(At(w))))
        PROVE  PathFit(r)
    <3>1. CASE w.op \in {"link_reference", "release_reference"}
      BY <2>1, <2>3, <2>7, <3>1 DEF PathFit, RestoreOps
    <3>2. CASE w.op \in RestoreOps
      <4>1. Back(At(w))
        BY <2>3, <2>7, <3>2 DEF PathFit, RestoreOps
      <4>2. At(w) = Artifacts[First(w.todo)] /\ w.todo \in SUBSET Places
        BY <1>0, <3>2 DEF At, RestoreOps, Works
      <4>3. 1 \in w.todo => Back(Image)
        BY <4>1, <4>2, ImageFirst DEF Image
      <4>4. Back(Image)
        BY <2>3, <2>7, <3>2, <4>3 DEF PathFit
      <4>5. r.op = "restore_ownership" => At(r) = At(w)
        BY <2>1, <3>2, <4>2 DEF At
      <4> QED BY <2>1, <3>2, <4>1, <4>4, <4>5 DEF PathFit, RestoreOps
    <3> QED BY <2>2, <3>1, <3>2
  <2>8. ASSUME Quiet, ok \/ (w.op # "link_reference" /\ (w.op = "restore_file" => Back(At(w)))),
               NEW a \in Names, NEW c \in record[a].cases \ {Owner}
        PROVE  HoldFit(r, c, a)
    <3> SUFFICES ASSUME r.case = c PROVE r.op # "contain" /\ r.snap.art[a] = "linked"
      BY DEF HoldFit
    <3>1. w.case = c /\ HoldFit(w, c, a)
      BY <2>1, <2>8 DEF ReferenceInv
    <3>2. w.snap.art[a] = "linked" \/ (w.op = "link_reference" /\ At(w) = a)
      BY <3>1 DEF HoldFit
    <3>3. a \in DOMAIN w.snap.art
      BY <1>0, <2>1 DEF Role, Docs
    <3>4. CASE w.op = "link_reference"
      BY <2>1, <2>8, <3>2, <3>3, <3>4
    <3>5. CASE w.op = "release_reference"
      <4>1. ok /\ a # At(w)
        BY <2>1, <2>4, <3>1, <3>5 DEF ReleaseFit
      <4> QED BY <2>1, <3>2, <3>3, <3>5, <4>1
    <3>6. w.op \notin RestoreOps
      BY <1>0, <2>8, <3>1 DEF Role
    <3> QED BY <2>2, <3>4, <3>5, <3>6
  <2> QED BY <2>5, <2>6, <2>7, <2>8
<1> QED BY <1>1, <1>2

\* A fault ends the quiet, and nothing brings it back.
LEMMA QuietIs ==
  ASSUME TypeOK, Calm \/ Fault
  PROVE  (Quiet' => Quiet) /\ (Fault => ~Quiet')
BY Faults DEF Quiet, Calm, trouble

\* While it is quiet nothing stops the agent's link, and a file that is not put back is back.
LEMMA LinksOn ==
  ASSUME IInv, PathInv, Quiet, NEW p \in Procs, proc[p].op \in ItemOps
  PROVE  /\ proc[p].op = "link_reference" => MayGoOn(p) /\ proc[p].stage # "undone"
         /\ proc[p].op = "restore_file" /\ (~MayGoOn(p) \/ proc[p].stage \in {"done", "undone"}) =>
              Back(At(proc[p]))
<1>1. /\ Current(p) = At(proc[p]) /\ At(proc[p]) \in Names /\ record \in [Names -> Records]
      /\ path \in [Names -> {"absent", "restored", "foreign"}]
  BY AtWork DEF IInv, TypeOK, ItemOps, RestoreOps
<1>2. /\ path[At(proc[p])] # "foreign" /\ (Back(At(proc[p])) => Back(Image))
      /\ record[At(proc[p])].status = "restored" => Back(At(proc[p]))
      /\ PathFit(proc[p])
  BY <1>1 DEF PathInv
<1>3. record[At(proc[p])].status \in {"quarantined", "restored"}
  BY <1>1 DEF Records
<1>4. ASSUME proc[p].op = "link_reference" PROVE MayGoOn(p) /\ proc[p].stage # "undone"
  BY <1>1, <1>2, <1>3, <1>4 DEF MayGoOn, PathFit, Back
<1>5. ASSUME proc[p].op = "restore_file", ~MayGoOn(p) \/ proc[p].stage \in {"done", "undone"}
      PROVE  Back(At(proc[p]))
  BY <1>1, <1>2, <1>5 DEF MayGoOn, PathFit, RestoreOps, Back
<1> QED BY <1>4, <1>5

\* The operation of p is over, and what it did is in the journal.
LEMMA OverKnown ==
  ASSUME KInv, NEW p \in Procs, proc[p].op \notin {"none", "contain"}, NEW ok \in BOOLEAN,
         ok => proc[p].stage = "done", Set(p, After(proc[p], ok)), UNCHANGED <<disk, agent>>,
         Quiet' => Quiet,
         Quiet' => ok \/ /\ proc[p].op # "link_reference"
                         /\ proc[p].op = "restore_file" => Back(At(proc[p])),
         committed \subseteq committed', lost \subseteq lost',
         \A c, o, a : DidIt(p, c, o, a) => <<c, o, a>> \in committed' \cup lost'
  PROVE  PathInv' /\ FreshInv' /\ ReferenceInv'
<1> DEFINE r == After(proc[p], ok)
<1>1. proc' = [proc EXCEPT ![p] = r] /\ taken' = taken
  BY DEF Set, agent
<1>2. /\ FreshFit(p, r, taken) /\ ReleaseFit(r)
      /\ Quiet' => /\ PathFit(r)
                   /\ \A a \in Names : \A c \in record[a].cases \ {Owner} : HoldFit(r, c, a)
  BY AfterFits DEF KInv
<1> HIDE DEF r
<1> QED BY <1>1, <1>2, WorkMoves DEF KInv, IInv, disk

\* A process goes on with the work it has.
LEMMA StageKnown ==
  ASSUME KInv, NEW p \in Procs, proc[p].op # "none", proc[p].stage # "done",
         NEW r, proc' = [proc EXCEPT ![p] = r], UNCHANGED <<disk, journal, agent>>,
         r.op = proc[p].op, r.case = proc[p].case, r.snap = proc[p].snap, r.todo = proc[p].todo,
         r.stage \notin {"done", "undone"} \/ ~Quiet', r.stage # "done", Quiet' => Quiet
  PROVE  PathInv' /\ FreshInv' /\ ReferenceInv'
<1>1. FreshFit(p, proc[p], taken) /\ ReleaseFit(proc[p]) /\ (Quiet => PathFit(proc[p]))
  BY DEF KInv, FreshInv, ReferenceInv, PathInv
<1>2. FreshFit(p, r, taken') /\ ReleaseFit(r)
  BY <1>1 DEF FreshFit, ReleaseFit, agent
<1>3. Quiet' => PathFit(r)
  BY <1>1 DEF PathFit, At
<1>4. ASSUME Quiet', NEW a \in Names, NEW c \in record[a].cases \ {Owner} PROVE HoldFit(r, c, a)
  <2>1. HoldFit(proc[p], c, a)
    BY <1>4 DEF KInv, ReferenceInv
  <2> QED BY <2>1 DEF HoldFit
<1>5. \A c, o, a : ~DidIt(p, c, o, a)
  BY DEF DidIt
<1> QED BY <1>2, <1>3, <1>4, <1>5, WorkMoves DEF KInv, IInv, disk, journal, agent

LEMMA ReadKnown ==
  ASSUME KInv, NEW p \in Procs, Read(p) PROVE PathInv' /\ FreshInv' /\ ReferenceInv'
<1>1. /\ proc[p] \in Works /\ Role(p, proc[p]) /\ proc[p].stage = "read"
      /\ proc[p].op \notin {"none", "contain", "case_commit"} /\ UNCHANGED <<disk, journal, agent>>
      /\ Quiet' => Quiet
  BY AtWork, QuietIs DEF Read, Role, KInv, IInv
<1>2. CASE MayGoOn(p)
  <2> DEFINE r == [proc[p] EXCEPT !.stage = "intent", !.rec = record[Current(p)]]
  <2>1. /\ r.op = proc[p].op /\ r.stage = "intent" /\ r.case = proc[p].case
        /\ r.snap = proc[p].snap /\ r.todo = proc[p].todo
    BY <1>1 DEF Works
  <2>2. proc' = [proc EXCEPT ![p] = r]
    BY <1>2 DEF Read, Set
  <2> HIDE DEF r
  <2> QED BY <1>1, <2>1, <2>2, StageKnown
<1>3. CASE ~MayGoOn(p)
  <2>1. Set(p, After(proc[p], FALSE))
    BY <1>3 DEF Read
  <2>2. proc[p].op \in ItemOps
    BY <1>1 DEF Works, Operations, ItemOps, RestoreOps
  <2>3. Quiet => /\ proc[p].op # "link_reference"
                 /\ proc[p].op = "restore_file" => Back(At(proc[p]))
    BY <1>3, <2>2, LinksOn DEF KInv
  <2>4. \A c, o, a : ~DidIt(p, c, o, a)
    BY <1>1 DEF DidIt
  <2> QED BY <1>1, <2>1, <2>3, <2>4, OverKnown DEF journal
<1> QED BY <1>2, <1>3

LEMMA StagesKnown ==
  ASSUME KInv, NEW p \in Procs, WriteIntent(p) \/ ActionFails(p)
  PROVE  PathInv' /\ FreshInv' /\ ReferenceInv'
<1> DEFINE s == IF WriteIntent(p) THEN "act" ELSE "undone"
           r == [proc[p] EXCEPT !.stage = s]
<1>1. /\ proc[p] \in Works /\ proc[p].op # "none" /\ proc[p].stage \in {"intent", "act"}
      /\ UNCHANGED <<disk, journal, agent>> /\ (Quiet' => Quiet)
  BY AtWork, QuietIs DEF WriteIntent, ActionFails, Role, KInv, IInv
<1>2. s \in {"act", "undone"} /\ (s = "undone" => ~Quiet')
  BY QuietIs DEF ActionFails, KInv, IInv
<1>3. proc' = [proc EXCEPT ![p] = r]
  BY DEF WriteIntent, ActionFails, Stage, Set
<1> HIDE DEF s
<1>4. /\ r.op = proc[p].op /\ r.stage = s /\ r.case = proc[p].case
      /\ r.snap = proc[p].snap /\ r.todo = proc[p].todo
  BY <1>1, <1>2 DEF Works
<1> HIDE DEF r
<1> QED BY <1>1, <1>2, <1>3, <1>4, StageKnown

LEMMA ResultKnown ==
  ASSUME KInv, NEW p \in Procs, WriteResult(p) \/ IntentFails(p) \/ ResultFails(p)
  PROVE  PathInv' /\ FreshInv' /\ ReferenceInv'
<1>1. /\ proc[p] \in Works /\ Role(p, proc[p]) /\ Current(p) = At(proc[p])
      /\ proc[p].op \notin {"none", "contain"} /\ (Quiet' => Quiet)
  BY AtWork, QuietIs DEF WriteResult, IntentFails, ResultFails, Role, KInv, IInv
<1>2. /\ lost \subseteq Unfinished
      /\ \A c, o, a : DidIt(p, c, o, a) => <<c, o, a>> \in Unfinished
  BY UnfinishedIs DEF KInv, IInv
<1>3. CASE WriteResult(p)
  <2> DEFINE ok == proc[p].stage = "done"
  <2>1. /\ ok \in BOOLEAN /\ Set(p, After(proc[p], ok)) /\ UNCHANGED <<disk, lost, agent>>
        /\ committed' = IF ok THEN committed \cup {<<proc[p].case, proc[p].op, Current(p)>>}
                        ELSE committed
        /\ ~ok => proc[p].stage = "undone"
    BY <1>3 DEF WriteResult
  <2>2. \A c, o, a : DidIt(p, c, o, a) => <<c, o, a>> \in committed'
    BY <1>1, <2>1 DEF DidIt
  <2>3. Quiet => ok \/ /\ proc[p].op # "link_reference"
                       /\ proc[p].op = "restore_file" => Back(At(proc[p]))
    <3>1. CASE proc[p].op \in ItemOps
      BY <2>1, <3>1, LinksOn DEF KInv
    <3>2. CASE proc[p].op \notin ItemOps
      BY <3>2 DEF ItemOps, RestoreOps
    <3> QED BY <3>1, <3>2
  <2>4. ok => proc[p].stage = "done"
    OBVIOUS
  <2> HIDE DEF ok
  <2> QED BY <1>1, <2>1, <2>2, <2>3, <2>4, OverKnown
<1>4. CASE IntentFails(p)
  <2>1. Set(p, After(proc[p], FALSE)) /\ UNCHANGED <<disk, agent, lost, committed>> /\ ~Quiet'
    BY <1>4, QuietIs DEF IntentFails, journal, KInv, IInv
  <2>2. \A c, o, a : ~DidIt(p, c, o, a)
    BY <1>4 DEF DidIt, IntentFails
  <2> QED BY <1>1, <2>1, <2>2, OverKnown
<1>5. CASE ResultFails(p)
  <2>1. /\ Set(p, After(proc[p], FALSE)) /\ UNCHANGED <<disk, agent, committed>>
        /\ lost' = Unfinished /\ ~Quiet'
    BY <1>5, QuietIs DEF ResultFails, KInv, IInv
  <2> QED BY <1>1, <1>2, <2>1, OverKnown
<1> QED BY <1>3, <1>4, <1>5

LEMMA CrashKnown ==
  ASSUME KInv, NEW p \in Procs, Crash(p) PROVE PathInv' /\ FreshInv' /\ ReferenceInv'
<1>1. proc' = [proc EXCEPT ![p] = Idle] /\ UNCHANGED <<disk, committed, taken, faults, foreign>>
  BY DEF Crash, Set
<1>2. /\ lost \subseteq lost'
      /\ \A c, o, a : DidIt(p, c, o, a) => <<c, o, a>> \in lost'
  BY UnfinishedIs DEF KInv, IInv, Crash
<1>3. \A a \in Names : record[a].cases \subseteq Cases
  BY DEF KInv, IInv, TypeOK, Records
<1>4. Quiet' => Quiet
  BY <1>1 DEF Quiet
<1> QED BY <1>1, <1>2, <1>3, <1>4, IdleFits, WorkMoves DEF KInv, IInv, disk

LEMMA TakeKnown ==
  ASSUME KInv, NEW c \in Linked, Take(c) PROVE PathInv' /\ FreshInv' /\ ReferenceInv'
<1> DEFINE b == [Idle EXCEPT !.case = c, !.snap = Saved("open", Nothing)]
           q == Does(b, "contain", "act")
           r == IF blocked \/ path[Image] # "absent" THEN LinkFailed(b) ELSE q
<1>1. /\ proc' = [proc EXCEPT !["core"] = r] /\ taken' = taken \cup {c}
      /\ UNCHANGED <<disk, journal, trouble>>
  BY DEF Take, Set, Calm
<1>2. /\ c \in Cases /\ "core" \in Procs /\ proc["core"] = Idle /\ doc[c] = NoDoc
      /\ \A a \in Names : c \notin record[a].cases
  BY DEF Cases, Procs, Take, KInv, FreshInv
<1>3. Idle \in Works /\ Idle.stage = "none"
  BY <1>2, IdleGood DEF Idle
<1>4. b \in Works /\ b.case = c /\ b.snap \in Docs
  BY <1>2, <1>3, NothingSaved DEF Works
<1> HIDE DEF b
<1>5. q.op = "contain" /\ q.stage = "act" /\ q.case = c
  BY <1>4 DEF Does, Works
<1>6. /\ LinkFailed(b).case = c /\ LinkFailed(b).op = "case_commit"
      /\ LinkFailed(b).stage = "intent"
  BY <1>4, OnFields
<1> HIDE DEF q
<1>7. /\ r.case = c /\ r.op \in {"contain", "case_commit"} /\ r.stage \in {"act", "intent"}
      /\ r.op = "contain" => path[Image] = "absent"
  BY <1>5, <1>6
<1> HIDE DEF r
<1>8. PathFit(r) /\ FreshFit("core", r, taken') /\ ReleaseFit(r)
  BY <1>1, <1>2, <1>7 DEF PathFit, FreshFit, ReleaseFit, RestoreOps, Back
<1>9. \A a \in Names : \A x \in record[a].cases \ {Owner} : HoldFit(r, x, a)
  BY <1>2, <1>7 DEF HoldFit
<1>10. \A x, o, a : ~DidIt("core", x, o, a)
  BY <1>2, <1>3 DEF DidIt
<1>11. Quiet' => Quiet
  BY <1>1 DEF Quiet, trouble
<1> QED BY <1>1, <1>2, <1>8, <1>9, <1>10, <1>11, WorkMoves DEF KInv, IInv, disk, journal

LEMMA ContainKnown == ASSUME KInv, Contain PROVE PathInv' /\ FreshInv' /\ ReferenceInv'
<1> DEFINE todo == Those(doc[Owner].art, "quarantined")
           b == [proc["core"] EXCEPT !.todo = todo]
<1>1. /\ "core" \in Procs /\ proc["core"] \in Works /\ Role("core", proc["core"])
      /\ proc["core"].op = "contain" /\ proc["core"].stage = "act" /\ proc["core"].snap \in Docs
  BY AtWork DEF Contain, Procs, Role, KInv, IInv
<1>2. b \in Works /\ b.case = proc["core"].case /\ b.snap = proc["core"].snap
  BY <1>1 DEF Works, Those
<1>3. PICK r : proc' = [proc EXCEPT !["core"] = r] /\ r \in {LinkFailed(b), LinkOn(b)}
  BY DEF Contain, Set
<1> HIDE DEF b
<1>4. /\ r.case = proc["core"].case /\ r.op \in {"link_reference", "case_commit"}
      /\ r.stage \in {"read", "intent"}
  BY <1>1, <1>2, <1>3, OnFields
<1>5. /\ FreshFit("core", proc["core"], taken) /\ (Quiet => PathFit(proc["core"]))
      /\ UNCHANGED <<disk, journal, agent, trouble>>
  BY <1>1 DEF KInv, FreshInv, PathInv, Contain, Calm
<1>6. FreshFit("core", r, taken') /\ ReleaseFit(r) /\ (Quiet => PathFit(r))
  BY <1>1, <1>4, <1>5 DEF FreshFit, ReleaseFit, PathFit, RestoreOps, agent
<1>7. ASSUME Quiet, NEW a \in Names, NEW c \in record[a].cases \ {Owner} PROVE HoldFit(r, c, a)
  <2>1. HoldFit(proc["core"], c, a)
    BY <1>1, <1>7 DEF KInv, ReferenceInv
  <2> QED BY <1>1, <1>4, <2>1 DEF HoldFit
<1>8. \A x, o, a : ~DidIt("core", x, o, a)
  BY <1>1 DEF DidIt
<1>9. Quiet' => Quiet
  BY <1>5 DEF Quiet, trouble
<1> QED BY <1>1, <1>3, <1>5, <1>6, <1>7, <1>8, <1>9, WorkMoves
      DEF KInv, IInv, disk, journal, agent

LEMMA RestoreKnown ==
  ASSUME KInv, IInv', NEW c \in Cases, Restore(c) PROVE PathInv' /\ FreshInv' /\ ReferenceInv'
<1> DEFINE linked == Those(doc[c].art, "linked")
           mine == Those(doc[c].art, "quarantined")
           b == [Idle EXCEPT !.case = c, !.snap = doc[c]]
           l == [b EXCEPT !.todo = linked]
           m == [b EXCEPT !.todo = mine]
<1>1. /\ "restore" \in Procs /\ proc["restore"] = Idle /\ doc[c] # NoDoc /\ doc[c] \in Docs
      /\ UNCHANGED <<disk, journal, agent, trouble>>
  BY DEF Procs, Restore, KInv, IInv, TypeOK, Calm
<1>2. Idle \in Works /\ Idle.stage = "none"
  BY <1>1, IdleGood DEF Idle
<1>3. /\ l \in Works /\ l.case = c /\ l.snap = doc[c]
      /\ m \in Works /\ m.case = c /\ m.snap = doc[c] /\ m.todo = mine
  BY <1>1, <1>2 DEF Works, Those
<1>4. PICK r : proc' = [proc EXCEPT !["restore"] = r] /\ r \in {ReleaseOn(l), RestoreOn(m)}
  BY DEF Restore, Set
<1> HIDE DEF l, m, b
<1>5. /\ r.case = c /\ r.snap.art = doc[c].art /\ r.stage \in {"read", "intent"}
      /\ r.op \in {"release_reference", "restore_file", "case_commit"}
      /\ r.op = "restore_file" => r.todo = mine
  BY <1>1, <1>3, <1>4, OnFields
<1>6. FreshFit("restore", r, taken') /\ ReleaseFit(r)
  BY <1>1, <1>5 DEF FreshFit, ReleaseFit
<1>7. ASSUME Quiet PROVE PathFit(r)
  <2>1. SUFFICES ASSUME r.op = "restore_file", 1 \notin mine PROVE Back(Image)
    BY <1>5 DEF PathFit, RestoreOps
  <2>2. Role("restore", r)
    BY <1>1, <1>4 DEF KInv, IInv, TypeOK, WorkInv
  <2>3. c = Owner
    BY <1>5, <2>1, <2>2 DEF Role, RestoreOps
  <2>4. 1 \in Places /\ Image = Artifacts[1] /\ Image \in Names
    BY SharingAssumption DEF Places, Image, Names
  <2>5. doc[Owner].art[Image] = "restored"
    BY <1>1, <2>1, <2>3, <2>4 DEF Those, KInv, IInv, DocInv, ArtsOf
  <2> QED BY <1>7, <2>4, <2>5 DEF KInv, IInv, DocInv, PathInv
<1>8. ASSUME Quiet, NEW a \in Names, NEW x \in record[a].cases \ {Owner} PROVE HoldFit(r, x, a)
  <2>1. Tells(x, a)
    BY <1>8 DEF KInv, ReferenceInv
  <2> QED BY <1>1, <1>5, <2>1 DEF HoldFit, Tells
<1>9. \A x, o, a : ~DidIt("restore", x, o, a)
  BY <1>1, <1>2 DEF DidIt
<1>10. Quiet' => Quiet
  BY <1>1 DEF Quiet, trouble
<1> QED BY <1>1, <1>4, <1>6, <1>7, <1>8, <1>9, <1>10, WorkMoves
      DEF KInv, IInv, disk, journal, agent

\* An operation writes a record: a case enters it only when it is linked, with its link
\* done and not yet saved.
LEMMA RecordKnown ==
  ASSUME KInv, NEW p \in Procs, proc[p].op \in RefOps, proc[p].stage = "act", NEW new \in Records,
         record' = [record EXCEPT ![At(proc[p])] = new], Stage(p, "done"),
         UNCHANGED <<path, doc, journal, agent, trouble>>,
         new.status = "restored" =>
           record[At(proc[p])].status = "restored" \/ proc[p].op = "restore_ownership",
         \A c \in new.cases : \/ c \in record[At(proc[p])].cases
                              \/ proc[p].case = c /\ proc[p].op = "link_reference",
         proc[p].op = "release_reference" => proc[p].case \notin new.cases
  PROVE  PathInv' /\ FreshInv' /\ ReferenceInv'
<1> DEFINE a0 == At(proc[p])
           r == [proc[p] EXCEPT !.stage = "done"]
<1>1. /\ proc[p] \in Works /\ Role(p, proc[p]) /\ a0 \in Names /\ TypeOK
  BY AtWork DEF RefOps, KInv, IInv
<1>2. /\ r.op = proc[p].op /\ r.stage = "done" /\ r.case = proc[p].case
      /\ r.snap = proc[p].snap /\ r.todo = proc[p].todo /\ At(r) = a0
  BY <1>1 DEF Works, At
<1>3. /\ proc' = [proc EXCEPT ![p] = r] /\ proc'[p] = r
      /\ \A q \in Procs \ {p} : proc'[q] = Idle /\ proc[q] = Idle
  BY <1>1, OthersIdle DEF Stage, Set, TypeOK, KInv, IInv, RefOps
<1>4. record'[a0] = new /\ \A a \in Names \ {a0} : record'[a] = record[a]
  BY <1>1 DEF TypeOK
<1>5. (Quiet' <=> Quiet) /\ taken' = taken
  BY DEF Quiet, trouble, agent
<1> HIDE DEF r, a0
<1>6. /\ FreshFit(p, proc[p], taken) /\ (Quiet => PathFit(proc[p]))
      /\ p = "core" <=> proc[p].op = "link_reference"
  BY <1>1 DEF KInv, FreshInv, PathInv, Role, RefOps, RestoreOps, Procs
<1>7. PathInv'
  <2>1. Quiet => PathFit(r)
    BY <1>2, <1>6 DEF PathFit, At, a0, RefOps, RestoreOps
  <2>2. ASSUME Quiet, NEW a \in Names, record'[a].status = "restored" PROVE Back(a)
    <3>1. CASE record[a].status = "restored"
      BY <2>2, <3>1 DEF KInv, PathInv
    <3>2. CASE a = a0 /\ proc[p].op = "restore_ownership"
      BY <1>6, <2>2, <3>2 DEF PathFit, RestoreOps, a0
    <3> QED BY <1>4, <2>2, <3>1, <3>2 DEF a0
  <2>3. \A q \in Procs : Quiet => PathFit(proc'[q])
    BY <1>3, <2>1, IdleFits
  <2>4. \A q \in Procs : Quiet => PathFit(proc[q])'
    BY <2>3 DEF PathFit, Back
  <2>5. Quiet => \A a \in Names : path[a] # "foreign" /\ (Back(a) => Back(Image))
    BY DEF KInv, PathInv
  <2> QED BY <1>5, <2>2, <2>4, <2>5 DEF PathInv, Back
<1>8. FreshInv'
  <2>1. FreshFit(p, r, taken)
    BY <1>2, <1>6 DEF FreshFit
  <2>2. \A q \in Procs : FreshFit(q, proc[q], taken)'
    BY <1>3, <1>5, <2>1, IdleFits DEF FreshFit
  <2>3. ASSUME NEW c \in Linked \ taken, NEW a \in Names PROVE c \notin record'[a].cases
    <3>1. c \notin record[a].cases
      BY <2>3 DEF KInv, FreshInv
    <3>2. proc[p].op = "link_reference" => proc[p].case # c
      BY <1>6, <2>3 DEF FreshFit
    <3> QED BY <1>4, <3>1, <3>2 DEF a0
  <2>4. \A c \in Linked \ taken : doc[c] = NoDoc
    BY DEF KInv, FreshInv
  <2> QED BY <1>5, <2>2, <2>3, <2>4 DEF FreshInv
<1>9. ReferenceInv'
  <2>1. At(proc[p])' = a0
    BY <1>2, <1>3 DEF At
  <2>2. \A q \in Procs : ReleaseFit(proc[q])'
    BY <1>2, <1>3, <1>4, <2>1 DEF ReleaseFit, Idle
  <2>3. ASSUME Quiet, NEW a \in Names, NEW c \in record'[a].cases \ {Owner}
        PROVE  Tells(c, a)' /\ \A q \in Procs : HoldFit(proc[q], c, a)'
    <3>1. c \in Cases
      BY <1>1, <1>4, <2>3 DEF TypeOK, Records
    <3>2. \A q \in Procs \ {p} : HoldFit(proc'[q], c, a)
      BY <1>3, <3>1, IdleFits
    <3>3. CASE c \in record[a].cases
      <4>1. Tells(c, a) /\ HoldFit(proc[p], c, a)
        BY <2>3, <3>3 DEF KInv, ReferenceInv
      <4>2. Told(c, "link_reference", a) => Told(c, "link_reference", a)'
        BY <1>3, ToldGrows DEF KInv
      <4>3. Tells(c, a)'
        BY <4>1, <4>2 DEF Tells
      <4>4. HoldFit(r, c, a)
        BY <1>2, <4>1 DEF HoldFit
      <4> QED BY <1>3, <3>2, <4>3, <4>4 DEF HoldFit
    <3>4. CASE a = a0 /\ proc[p].case = c /\ proc[p].op = "link_reference"
      <4>1. doc[c] = NoDoc
        BY <1>6, <3>4 DEF FreshFit
      <4>2. DidIt(p, c, "link_reference", a)'
        BY <1>2, <1>3, <3>4 DEF DidIt
      <4>3. Tells(c, a)'
        BY <4>1, <4>2 DEF Tells, Told
      <4>4. HoldFit(r, c, a)
        BY <1>2, <3>4 DEF HoldFit
      <4> QED BY <1>3, <3>2, <4>3, <4>4 DEF HoldFit
    <3> QED BY <1>4, <2>3, <3>3, <3>4 DEF a0
  <2> QED BY <1>5, <2>2, <2>3 DEF ReferenceInv
<1> QED BY <1>7, <1>8, <1>9

LEMMA ReferencesKnown ==
  ASSUME KInv, NEW p \in Procs, LinkReference(p) \/ ReleaseReference(p) \/ RestoreOwnership(p)
  PROVE  PathInv' /\ FreshInv' /\ ReferenceInv'
<1> DEFINE a0 == At(proc[p]) old == record[At(proc[p])]
<1>1. /\ proc[p] \in Works /\ Role(p, proc[p]) /\ Knows(record, proc[p]) /\ Current(p) = a0
      /\ a0 \in Names /\ proc[p].stage = "act" /\ proc[p].op \in RefOps
  BY AtWork DEF LinkReference, ReleaseReference, RestoreOwnership, Acts, RefOps, KInv
<1>2. proc[p].rec = old /\ old \in Records /\ proc[p].case \in Cases
  BY <1>1 DEF Knows, Role, KInv, IInv, TypeOK, RefOps
<1>3. Stage(p, "done") /\ UNCHANGED <<path, doc, journal, agent, trouble>>
  BY DEF LinkReference, ReleaseReference, RestoreOwnership, Calm
<1>4. CASE LinkReference(p)
  <2> DEFINE new == [old EXCEPT !.cases = @ \cup {proc[p].case}]
  <2>1. record' = [record EXCEPT ![a0] = new] /\ proc[p].op = "link_reference"
    BY <1>1, <1>2, <1>4 DEF LinkReference, Acts
  <2>2. new \in Records /\ new.status = old.status /\ new.cases = old.cases \cup {proc[p].case}
    BY <1>2 DEF Records
  <2> HIDE DEF new
  <2> QED BY <1>1, <1>3, <2>1, <2>2, RecordKnown
<1>5. CASE ReleaseReference(p)
  <2> DEFINE new == [old EXCEPT !.cases = @ \ {proc[p].case}]
  <2>1. record' = [record EXCEPT ![a0] = new] /\ proc[p].op = "release_reference"
    BY <1>1, <1>2, <1>5 DEF ReleaseReference, Acts
  <2>2. proc[p].case # Owner
    BY <1>1, <2>1, SharingAssumption DEF Role
  <2>3. new \in Records /\ new.status = old.status /\ new.cases = old.cases \ {proc[p].case}
    BY <1>2, <2>2 DEF Records
  <2> HIDE DEF new
  <2> QED BY <1>1, <1>3, <2>1, <2>3, RecordKnown
<1>6. CASE RestoreOwnership(p)
  <2> DEFINE new == [old EXCEPT !.status = "restored"]
  <2>1. record' = [record EXCEPT ![a0] = new] /\ proc[p].op = "restore_ownership"
    BY <1>1, <1>2, <1>6 DEF RestoreOwnership, Acts
  <2>2. new \in Records /\ new.cases = old.cases
    BY <1>2 DEF Records
  <2> HIDE DEF new
  <2> QED BY <1>1, <1>3, <2>1, <2>2, RecordKnown
<1> QED BY <1>4, <1>5, <1>6

LEMMA RestoreFileKnown ==
  ASSUME KInv, NEW p \in Procs, RestoreFile(p) PROVE PathInv' /\ FreshInv' /\ ReferenceInv'
<1> DEFINE a0 == At(proc[p])
<1>1. /\ proc[p] \in Works /\ Role(p, proc[p]) /\ Current(p) = a0 /\ a0 \in Names
      /\ proc[p].op = "restore_file" /\ proc[p].stage = "act" /\ proc[p].case = Owner /\ TypeOK
  BY AtWork DEF RestoreFile, Acts, Role, RestoreOps, KInv, IInv
<1>2. UNCHANGED <<record, doc, journal, agent>> /\ (Calm \/ Fault)
  BY DEF RestoreFile
<1>3. (Quiet' => Quiet) /\ (Fault => ~Quiet')
  BY <1>1, <1>2, QuietIs
<1>4. PICK s \in {"done", "undone"} : Stage(p, s)
  BY DEF RestoreFile
<1> DEFINE r == [proc[p] EXCEPT !.stage = s]
<1>5. /\ r.op = proc[p].op /\ r.stage = s /\ r.case = Owner
      /\ r.snap = proc[p].snap /\ r.todo = proc[p].todo /\ At(r) = a0
  BY <1>1 DEF Works, At
<1>6. /\ proc' = [proc EXCEPT ![p] = r] /\ proc'[p] = r
      /\ \A q \in Procs \ {p} : proc'[q] = Idle
  BY <1>1, <1>4, OthersIdle DEF Stage, Set, TypeOK, KInv, IInv
<1> HIDE DEF r
<1>7. ASSUME Quiet' PROVE /\ path'[a0] = "restored"
                          /\ \A a \in Names \ {a0} : path'[a] = path[a]
                          /\ \A a \in Names : Back(a) => path'[a] = "restored"
  <2>1. path[a0] # "absent" => path[a0] = "restored"
    BY <1>1, <1>3, <1>7 DEF KInv, PathInv, TypeOK
  <2>2. IF path[a0] # "absent" THEN path' = path ELSE path' = [path EXCEPT ![a0] = "restored"]
    BY <1>1 DEF RestoreFile
  <2> QED BY <1>1, <2>1, <2>2 DEF TypeOK, Back
<1>8. PathInv'
  <2> SUFFICES ASSUME Quiet'
               PROVE  /\ \A a \in Names : /\ path'[a] # "foreign"
                                          /\ path'[a] = "restored" => path'[Image] = "restored"
                                          /\ record[a].status = "restored" => path'[a] = "restored"
                      /\ \A q \in Procs : PathFit(proc[q])'
    BY <1>2 DEF PathInv, Back
  <2>1. /\ PathFit(proc[p])
        /\ \A a \in Names : /\ path[a] # "foreign" /\ (Back(a) => Back(Image))
                            /\ record[a].status = "restored" => Back(a)
    BY <1>3 DEF KInv, PathInv
  <2>2. a0 = Artifacts[First(proc[p].todo)] /\ proc[p].todo \in SUBSET Places
    BY <1>1 DEF At, Works
  <2>3. 1 \in proc[p].todo => a0 = Image
    BY <2>2, ImageFirst DEF Image
  <2>4. Image \in Names
    BY SharingAssumption DEF Image, Names, Places
  <2>5. path'[Image] = "restored"
    BY <1>1, <1>7, <2>1, <2>3, <2>4 DEF PathFit, RestoreOps
  <2>6. At(proc[p])' = a0
    BY <1>5, <1>6 DEF At
  <2>7. \A q \in Procs \ {p} : PathFit(proc[q])'
    BY <1>6 DEF PathFit, Idle, RestoreOps
  <2>8. PathFit(proc[p])'
    BY <1>1, <1>5, <1>6, <1>7, <2>5, <2>6 DEF PathFit, Back, RestoreOps
  <2>9. \A a \in Names : /\ path'[a] # "foreign"
                         /\ record[a].status = "restored" => path'[a] = "restored"
    BY <1>7, <2>1
  <2> QED BY <2>5, <2>7, <2>8, <2>9
<1>9. FreshInv'
  <2>1. FreshFit(p, r, taken)
    BY <1>1, <1>5 DEF KInv, FreshInv, FreshFit
  <2>2. \A q \in Procs : FreshFit(q, proc[q], taken)'
    BY <1>2, <1>6, <2>1, IdleFits DEF FreshFit, agent
  <2> QED BY <1>2, <2>2 DEF KInv, FreshInv, agent
<1>10. ReferenceInv'
  <2>1. \A q \in Procs : ReleaseFit(proc[q])'
    BY <1>1, <1>5, <1>6 DEF ReleaseFit, Idle
  <2>2. ASSUME Quiet', NEW a \in Names, NEW c \in record[a].cases \ {Owner}
        PROVE  Tells(c, a)' /\ \A q \in Procs : HoldFit(proc[q], c, a)'
    <3>1. Tells(c, a) /\ c \in Cases
      BY <1>1, <1>3, <2>2 DEF KInv, ReferenceInv, TypeOK, Records
    <3>2. Told(c, "link_reference", a) => Told(c, "link_reference", a)'
      BY <1>1, <1>2, <1>6, ToldGrows DEF KInv
    <3>3. HoldFit(r, c, a)
      BY <1>5 DEF HoldFit
    <3>4. \A q \in Procs \ {p} : HoldFit(proc'[q], c, a)
      BY <1>6, <3>1, IdleFits
    <3> QED BY <1>2, <1>6, <3>1, <3>2, <3>3, <3>4 DEF HoldFit, Tells
  <2> QED BY <1>2, <2>1, <2>2 DEF ReferenceInv
<1> QED BY <1>8, <1>9, <1>10

LEMMA CommitKnown ==
  ASSUME KInv, NEW p \in Procs, CommitCase(p) PROVE PathInv' /\ FreshInv' /\ ReferenceInv'
<1> DEFINE c0 == proc[p].case snap == proc[p].snap r == [proc[p] EXCEPT !.stage = "done"]
<1>1. /\ proc[p] \in Works /\ Role(p, proc[p]) /\ TypeOK
      /\ proc[p].op = "case_commit" /\ proc[p].stage = "act" /\ c0 \in Cases /\ snap \in Docs
  BY AtWork DEF CommitCase, Acts, Role, KInv, IInv
<1>2. UNCHANGED <<record, path, journal, agent, trouble>> /\ doc' = [doc EXCEPT ![c0] = snap]
  BY DEF CommitCase, Calm
<1>3. r.op = "case_commit" /\ r.stage = "done" /\ r.case = c0 /\ r.snap = snap
  BY <1>1 DEF Works
<1>4. /\ proc' = [proc EXCEPT ![p] = r] /\ proc'[p] = r
      /\ \A q \in Procs \ {p} : proc'[q] = Idle
  BY <1>1, OthersIdle DEF CommitCase, Stage, Set, TypeOK, KInv, IInv
<1>5. doc'[c0] = snap /\ snap # NoDoc /\ \A c \in Cases \ {c0} : doc'[c] = doc[c]
  BY <1>1, <1>2, NoDocAssumption DEF TypeOK
<1>6. (Quiet' <=> Quiet) /\ taken' = taken /\ UNCHANGED <<record, path>>
  BY <1>2 DEF Quiet, trouble, agent
<1>7. FreshFit(p, proc[p], taken)
  BY DEF KInv, FreshInv
<1> HIDE DEF r, snap
<1>8. PathInv'
  <2>1. \A q \in Procs : PathFit(proc[q])'
    BY <1>3, <1>4 DEF PathFit, Idle, RestoreOps
  <2> QED BY <1>6, <2>1 DEF KInv, PathInv, Back
<1>9. FreshInv'
  <2>1. p = "core" => c0 \in taken
    BY <1>1, <1>7 DEF FreshFit
  <2>2. p = "restore" => doc[c0] # NoDoc
    BY <1>1, <1>7 DEF FreshFit
  <2>3. \A c \in Linked \ taken : c # c0 /\ doc[c] = NoDoc /\ \A a \in Names : c \notin record[a].cases
    BY <2>1, <2>2 DEF KInv, FreshInv, Procs
  <2>4. \A c \in Linked \ taken : doc'[c] = NoDoc
    BY <1>5, <2>3 DEF Cases
  <2>5. \A q \in Procs : FreshFit(q, proc[q], taken)'
    BY <1>3, <1>4, <1>5, <1>6, <2>1 DEF FreshFit, Idle
  <2> QED BY <1>6, <2>3, <2>4, <2>5 DEF FreshInv
<1>10. ReferenceInv'
  <2>1. \A q \in Procs : ReleaseFit(proc[q])'
    BY <1>3, <1>4 DEF ReleaseFit, Idle
  <2>2. ASSUME Quiet, NEW a \in Names, NEW c \in record[a].cases \ {Owner}
        PROVE  Tells(c, a)' /\ \A q \in Procs : HoldFit(proc[q], c, a)'
    <3>1. Tells(c, a) /\ HoldFit(proc[p], c, a) /\ c \in Cases
      BY <1>1, <2>2 DEF KInv, ReferenceInv, TypeOK, Records
    <3>2. c = c0 => snap.art[a] = "linked"
      BY <1>1, <3>1 DEF HoldFit, snap
    <3>3. Told(c, "link_reference", a) => Told(c, "link_reference", a)'
      BY <1>1, <1>2, <1>4, ToldGrows DEF KInv
    <3>4. Tells(c, a)'
      BY <1>5, <3>1, <3>2, <3>3 DEF Tells
    <3>5. HoldFit(r, c, a)
      BY <1>3, <3>2 DEF HoldFit
    <3>6. \A q \in Procs \ {p} : HoldFit(proc'[q], c, a)
      BY <1>4, <3>1, IdleFits
    <3> QED BY <1>4, <3>4, <3>5, <3>6 DEF HoldFit
  <2> QED BY <1>6, <2>1, <2>2 DEF ReferenceInv
<1> QED BY <1>8, <1>9, <1>10

\* Nothing of what the invariant speaks of moves.
LEMMA StillKnown ==
  ASSUME KInv, UNCHANGED <<disk, journal, taken, proc, trouble>>
  PROVE  PathInv' /\ FreshInv' /\ ReferenceInv'
<1>1. PathInv'
  BY DEF KInv, PathInv, PathFit, Back, Quiet, At, disk, trouble
<1>2. FreshInv'
  BY DEF KInv, FreshInv, FreshFit, disk
<1>3. ReferenceInv'
  BY DEF KInv, ReferenceInv, ReleaseFit, HoldFit, Tells, Told, DidIt, At, Quiet,
         disk, journal, trouble
<1> QED BY <1>1, <1>2, <1>3

\* Whoever touches a path ends the quiet.
LEMMA PathsKnown ==
  ASSUME KInv, NEW a0 \in Names, Appears(a0) \/ Leaves(a0) \/ TakenAway(a0)
  PROVE  PathInv' /\ FreshInv' /\ ReferenceInv'
<1>1. UNCHANGED <<record, doc, taken, proc>>
  BY DEF Appears, Leaves, TakenAway, agent
<1>2. ~Quiet'
  <2>1. foreign \in Nat
    BY SharingAssumption DEF KInv, IInv, TypeOK
  <2>2. CASE Appears(a0) \/ TakenAway(a0)
    BY <2>1, <2>2 DEF Appears, TakenAway, Quiet
  <2>3. CASE Leaves(a0)
    BY <2>3 DEF Leaves, KInv, PathInv, Quiet, Calm, trouble
  <2> QED BY <2>2, <2>3
<1>3. FreshInv'
  BY <1>1 DEF KInv, FreshInv, FreshFit
<1>4. ReferenceInv'
  BY <1>1, <1>2 DEF KInv, ReferenceInv, ReleaseFit, At
<1> QED BY <1>2, <1>3, <1>4 DEF PathInv

LEMMA InitKnown == Init => KInv
<1> SUFFICES ASSUME Init PROVE KInv
  OBVIOUS
<1>1. \A p \in Procs : proc[p] = Idle
  BY DEF Init
<1>2. \A a \in Names : record[a].cases = {Owner} /\ record[a].status = "quarantined"
  BY DEF Init, Whole
<1>3. \A a \in Names : path[a] = "absent"
  BY DEF Init
<1>4. \A c \in Linked : doc[c] = NoDoc /\ c # Owner
  BY SharingAssumption DEF Init, Cases
<1>5. PathInv
  BY <1>1, <1>2, <1>3, IdleFits DEF PathInv, Back
<1>6. FreshInv
  BY <1>1, <1>2, <1>4, IdleFits DEF FreshInv
<1>7. ReferenceInv
  BY <1>1, <1>2, IdleFits DEF ReferenceInv
<1> QED BY <1>5, <1>6, <1>7, InitInv DEF KInv

LEMMA NextKnown == ASSUME KInv, ~Overlap, [Next]_vars PROVE KInv'
<1> SUFFICES PathInv' /\ FreshInv' /\ ReferenceInv'
  BY NextInv DEF KInv
<1>1. CASE UNCHANGED vars \/ Stop \/ Start
  BY <1>1, StillKnown DEF Stop, Start, Calm, vars, agent
<1>2. ASSUME NEW c \in Linked, Take(c) PROVE PathInv' /\ FreshInv' /\ ReferenceInv'
  BY <1>2, TakeKnown
<1>3. ASSUME NEW c \in Cases, Restore(c) PROVE PathInv' /\ FreshInv' /\ ReferenceInv'
  BY <1>3, NextInv, RestoreKnown DEF KInv
<1>4. ASSUME NEW p \in Procs, Step(p) PROVE PathInv' /\ FreshInv' /\ ReferenceInv'
  BY <1>4, ReadKnown, StagesKnown, ReferencesKnown, RestoreFileKnown, CommitKnown, ResultKnown
     DEF Step, Perform
<1>5. ASSUME NEW p \in Procs, Fails(p) PROVE PathInv' /\ FreshInv' /\ ReferenceInv'
  BY <1>5, StagesKnown, ResultKnown, CrashKnown DEF Fails
<1>6. ASSUME NEW a \in Names, Appears(a) \/ Leaves(a) \/ TakenAway(a)
      PROVE  PathInv' /\ FreshInv' /\ ReferenceInv'
  BY <1>6, PathsKnown
<1> QED BY <1>1, <1>2, <1>3, <1>4, <1>5, <1>6, ContainKnown DEF Next

\* While no write fails and nobody touches the paths, no case keeps an artifact from
\* its owner unseen, wherever the processes died (linkSharedCase, releaseReference,
\* RestoreCase, InspectRecovery).
THEOREM NoReferenceForgotten == ASSUME ~Overlap PROVE Spec => []ReferenceKnown
<1>1. KInv => ReferenceKnown
  <2> SUFFICES ASSUME KInv, Quiet, NEW a \in Names, NEW c \in record[a].cases \ {Owner}
               PROVE  Known(c, a)
    BY DEF ReferenceKnown, NoReferenceLost, Quiet
  <2>1. Tells(c, a) /\ c \in Cases
    BY DEF KInv, ReferenceInv, IInv, TypeOK, Records
  <2>2. CASE doc[c] # NoDoc
    BY <2>1, <2>2 DEF Tells, Known
  <2>3. CASE doc[c] = NoDoc
    <3>1. Told(c, "link_reference", a)
      BY <2>1, <2>3 DEF Tells
    <3>2. <<c, "link_reference", a>> \in committed => Finding(c, a)
      BY <2>3 DEF Finding, ReferenceGap
    <3>3. Finding(c, a)
      BY <2>1, <3>1, <3>2, ToldIsFound DEF Operations, KInv
    <3> QED BY <3>3 DEF Known
  <2> QED BY <2>2, <2>3
<1>2. KInv /\ [Next]_vars => KInv'
  BY NextKnown
<1> QED BY InitKnown, <1>1, <1>2, PTL DEF Spec

-------------------------------------------------------------------------------
(* A settled case holds nothing back. *)

Clean(d) == d.state \in {"released", "restored"} => \A a \in Names : d.art[a] # "linked"

\* What is saved as settled says of nothing that it is linked: a link is saved in an open
\* case, and a release goes through all that the case holds.
SettledFit(r) ==
  /\ r.op = "case_commit" => Clean(r.snap)
  /\ r.op \in {"contain", "link_reference"} => r.snap.state = "open"
  /\ r.op = "release_reference" =>
       \A a \in Names : r.snap.art[a] = "linked" => \E i \in r.todo : Artifacts[i] = a
SettledInv ==
  /\ \A c \in Cases : doc[c] # NoDoc => Clean(doc[c])
  /\ \A p \in Procs : SettledFit(proc[p])

LEMMA OnSettled ==
  ASSUME NEW r \in Works, r.snap \in Docs
  PROVE  /\ SettledFit(LinkFailed(r))
         /\ r.snap.state = "open" => SettledFit(LinkOn(r))
         /\ (\A a \in Names : r.snap.art[a] = "linked" => \E i \in r.todo : Artifacts[i] = a)
              => SettledFit(ReleaseOn(r))
         /\ (\A a \in Names : r.snap.art[a] # "linked") => SettledFit(RestoreOn(r))
<1>1. \A s \in {"open", "partial_restore", "released", "restored"} :
        Saved(s, r.snap.art) \in Docs /\ Saved(s, r.snap.art).art = r.snap.art
  BY ArtTypes
<1>2. \A d \in Docs : Saves(r, d).op = "case_commit" /\ Saves(r, d).snap = d
  BY SavesFields
<1>3. SettledFit(LinkFailed(r))
  BY <1>2, NothingSaved DEF LinkFailed, SettledFit, Clean
<1>4. ASSUME r.snap.state = "open" PROVE SettledFit(LinkOn(r))
  <2>1. CASE r.todo # {}
    BY <1>4, <2>1, DoesFields DEF LinkOn, SettledFit, Operations
  <2>2. CASE r.todo = {}
    BY <1>2, <1>4, <2>2 DEF LinkOn, SettledFit, Clean
  <2> QED BY <2>1, <2>2
<1>5. ASSUME \A a \in Names : r.snap.art[a] = "linked" => \E i \in r.todo : Artifacts[i] = a
      PROVE  SettledFit(ReleaseOn(r))
  <2>1. CASE r.todo # {}
    BY <1>5, <2>1, DoesFields DEF ReleaseOn, SettledFit, Operations
  <2>2. CASE r.todo = {}
    <3>1. \A a \in Names : Saved("released", r.snap.art).art[a] # "linked"
      BY <1>1, <1>5, <2>2
    <3> QED BY <1>1, <1>2, <2>2, <3>1 DEF ReleaseOn, SettledFit, Clean
  <2> QED BY <2>1, <2>2
<1>6. ASSUME \A a \in Names : r.snap.art[a] # "linked" PROVE SettledFit(RestoreOn(r))
  <2>1. CASE r.todo # {}
    BY <2>1, DoesFields DEF RestoreOn, SettledFit, Operations
  <2>2. CASE r.todo = {}
    <3> DEFINE s == IF r.failed THEN "partial_restore" ELSE "restored"
    <3>1. s \in {"open", "partial_restore", "released", "restored"}
      OBVIOUS
    <3>2. RestoreOn(r) = Saves(r, Saved(s, r.snap.art))
      BY <2>2 DEF RestoreOn
    <3> HIDE DEF s
    <3> QED BY <1>1, <1>2, <1>6, <3>1, <3>2 DEF SettledFit, Clean
  <2> QED BY <2>1, <2>2
<1> QED BY <1>3, <1>4, <1>5, <1>6

LEMMA AfterSettled ==
  ASSUME NEW p \in Procs, NEW recs, NEW r \in Works, Role(p, r), Knows(recs, r), SettledFit(r),
         r.op \notin {"none", "contain"}, NEW ok \in BOOLEAN, ok => r.stage = "done"
  PROVE  SettledFit(After(r, ok))
<1>0. Mid(p, recs, r) /\ r.snap \in Docs
  BY MidOf DEF Mid
<1>1. SettledFit(Idle)
  BY DEF SettledFit, Idle
<1>2. CASE r.op = "link_reference"
  <2>1. r.todo # {} /\ r.case \in Linked /\ r.case # Owner
    BY <1>2, SharingAssumption DEF Procs, Role, ItemOps, RestoreOps
  <2> DEFINE m == Mark(r, "linked")
  <2>2. Mid(p, recs, m)
    BY <1>0, <2>1, MarkMid DEF ArtsOf
  <2>3. m.snap.state = r.snap.state
    BY <1>0 DEF Mark, Works, Docs
  <2>4. After(r, ok) = IF ok THEN LinkOn(m) ELSE LinkFailed(r)
    BY <1>2 DEF After
  <2> HIDE DEF m
  <2> QED BY <1>0, <1>2, <2>2, <2>3, <2>4, OnSettled DEF Mid, SettledFit
<1>3. CASE r.op = "release_reference"
  <2>1. r.todo # {} /\ r.case \in Linked /\ r.case # Owner
    BY <1>3, SharingAssumption DEF Role, ItemOps, RestoreOps
  <2> DEFINE m == Mark(r, "released") a0 == Artifacts[First(r.todo)]
  <2>2. /\ Mid(p, recs, m) /\ m.todo = r.todo \ {First(r.todo)}
        /\ m.snap.art = [r.snap.art EXCEPT ![a0] = "released"]
    BY <1>0, <2>1, MarkMid DEF ArtsOf
  <2>3. After(r, ok) = IF ok THEN ReleaseOn(m) ELSE Idle
    BY <1>3 DEF After
  <2> HIDE DEF m
  <2>4. ASSUME NEW a \in Names, m.snap.art[a] = "linked" PROVE \E i \in m.todo : Artifacts[i] = a
    <3>1. a # a0 /\ r.snap.art[a] = "linked"
      BY <1>0, <2>2, <2>4, ArtTypes
    <3> QED BY <1>3, <2>2, <3>1 DEF SettledFit
  <2>5. m \in Works /\ m.snap \in Docs
    BY <2>2 DEF Mid
  <2>6. SettledFit(ReleaseOn(m))
    BY <2>4, <2>5, OnSettled
  <2> QED BY <1>1, <2>3, <2>6
<1>4. CASE r.op \in RestoreOps
  <2>1. Role(p, After(r, ok)) /\ (After(r, ok).op # "none" => After(r, ok).case = Owner)
    BY <1>4, AfterGood, IdleGood DEF Good, Role
  <2>2. After(r, ok).op # "none" =>
          \A a \in Names : After(r, ok).snap.art[a] \in {"quarantined", "restored"}
    BY <2>1 DEF Role, ArtsOf
  <2>3. After(r, ok).op \notin {"contain", "link_reference", "release_reference"}
    BY <1>4, <2>1, SharingAssumption DEF Role, Procs, RestoreOps
  <2> QED BY <2>2, <2>3 DEF SettledFit, Clean
<1>5. CASE r.op = "case_commit"
  BY <1>1, <1>5 DEF After
<1> QED BY <1>2, <1>3, <1>4, <1>5 DEF Role, Procs, RestoreOps

LEMMA NextSettled == ASSUME IInv, SettledInv, [Next]_vars PROVE SettledInv'
<1>0. SettledFit(Idle)
  BY DEF SettledFit, Idle
<1>1. ASSUME NEW p \in Procs, NEW r, proc' = [proc EXCEPT ![p] = r], SettledFit(r), UNCHANGED doc
      PROVE  SettledInv'
  <2>1. \A q \in Procs : SettledFit(proc'[q])
    BY <1>1 DEF SettledInv, IInv, TypeOK
  <2> QED BY <1>1, <2>1 DEF SettledInv, SettledFit
<1>2. ASSUME NEW p \in Procs, NEW ok \in BOOLEAN, ok => proc[p].stage = "done",
             proc[p].op \notin {"none", "contain"}, Set(p, After(proc[p], ok)), UNCHANGED doc
      PROVE  SettledInv'
  <2>1. SettledFit(After(proc[p], ok))
    BY <1>2, AtWork, AfterSettled DEF SettledInv
  <2> QED BY <1>1, <1>2, <2>1 DEF Set
<1>3. ASSUME NEW p \in Procs, NEW s, NEW rec, UNCHANGED doc,
             proc' = [proc EXCEPT ![p] = [proc[p] EXCEPT !.stage = s, !.rec = rec]]
      PROVE  SettledInv'
  <2> DEFINE r == [proc[p] EXCEPT !.stage = s, !.rec = rec]
  <2>1. r.op = proc[p].op /\ r.snap = proc[p].snap /\ r.todo = proc[p].todo
    BY DEF IInv, TypeOK, Works
  <2>2. SettledFit(r)
    BY <2>1 DEF SettledInv, SettledFit
  <2> HIDE DEF r
  <2> QED BY <1>1, <1>3, <2>2 DEF r
<1>4. ASSUME NEW p \in Procs, NEW s, UNCHANGED doc, Stage(p, s) PROVE SettledInv'
  <2> DEFINE r == [proc[p] EXCEPT !.stage = s]
  <2>1. r.op = proc[p].op /\ r.snap = proc[p].snap /\ r.todo = proc[p].todo
    BY DEF IInv, TypeOK, Works
  <2>2. SettledFit(r)
    BY <2>1 DEF SettledInv, SettledFit
  <2> HIDE DEF r
  <2> QED BY <1>1, <1>4, <2>2 DEF r, Stage, Set
<1>5. ASSUME NEW c \in Linked, Take(c) PROVE SettledInv'
  <2> DEFINE b == [Idle EXCEPT !.case = c, !.snap = Saved("open", Nothing)]
             q == Does(b, "contain", "act")
  <2>1. "core" \in Procs /\ c \in Cases /\ Idle \in Works
    BY IdleGood DEF Procs, Cases
  <2>2. b \in Works /\ b.snap \in Docs /\ b.snap.state = "open"
    BY <2>1, NothingSaved DEF Works
  <2>3. q.op = "contain" /\ q.snap.state = "open"
    BY <2>2 DEF Does, Works
  <2>4. SettledFit(q)
    BY <2>3 DEF SettledFit
  <2>5. PICK r : proc' = [proc EXCEPT !["core"] = r] /\ r \in {LinkFailed(b), q}
    BY <1>5 DEF Take, Set
  <2>6. UNCHANGED doc
    BY <1>5 DEF Take, disk
  <2> HIDE DEF b, q
  <2>7. SettledFit(r)
    BY <2>2, <2>4, <2>5, OnSettled
  <2> QED BY <1>1, <2>1, <2>5, <2>6, <2>7
<1>6. ASSUME Contain PROVE SettledInv'
  <2> DEFINE b == [proc["core"] EXCEPT !.todo = Those(doc[Owner].art, "quarantined")]
  <2>1. /\ "core" \in Procs /\ proc["core"] \in Works /\ proc["core"].snap \in Docs
        /\ proc["core"].snap.state = "open" /\ UNCHANGED doc
    BY <1>6, AtWork DEF Contain, Procs, Role, SettledInv, SettledFit, disk
  <2>2. b \in Works /\ b.snap = proc["core"].snap
    BY <2>1 DEF Works, Those
  <2>3. PICK r : proc' = [proc EXCEPT !["core"] = r] /\ r \in {LinkFailed(b), LinkOn(b)}
    BY <1>6 DEF Contain, Set
  <2> HIDE DEF b
  <2>4. SettledFit(r)
    BY <2>1, <2>2, <2>3, OnSettled
  <2> QED BY <1>1, <2>1, <2>3, <2>4
<1>7. ASSUME NEW c \in Cases, Restore(c) PROVE SettledInv'
  <2> DEFINE linked == Those(doc[c].art, "linked")
             b == [Idle EXCEPT !.case = c, !.snap = doc[c]]
             l == [b EXCEPT !.todo = linked]
             m == [b EXCEPT !.todo = Those(doc[c].art, "quarantined")]
  <2>1. "restore" \in Procs /\ doc[c] \in Docs /\ Idle \in Works /\ UNCHANGED doc
    BY <1>7, IdleGood DEF Procs, Restore, disk, IInv, TypeOK
  <2>2. /\ l \in Works /\ l.snap = doc[c] /\ l.todo = linked
        /\ m \in Works /\ m.snap = doc[c]
    BY <2>1 DEF Works, Those
  <2>3. \A a \in Names : doc[c].art[a] = "linked" => \E i \in linked : Artifacts[i] = a
    BY DEF Names, Those
  <2>4. PICK r : /\ proc' = [proc EXCEPT !["restore"] = r]
                 /\ IF linked # {} THEN r = ReleaseOn(l) ELSE r = RestoreOn(m)
    BY <1>7 DEF Restore, Set
  <2> HIDE DEF linked, l, m, b
  <2>5. SettledFit(ReleaseOn(l)) /\ (linked = {} => SettledFit(RestoreOn(m)))
    BY <2>1, <2>2, <2>3, OnSettled
  <2>6. SettledFit(r)
    BY <2>4, <2>5
  <2> QED BY <1>1, <2>1, <2>4, <2>6
<1>8. ASSUME NEW p \in Procs, Read(p) PROVE SettledInv'
  <2>1. UNCHANGED doc /\ proc[p].op \notin {"none", "contain"} /\ proc[p].stage = "read"
    BY <1>8, AtWork DEF Read, Role, disk
  <2>2. CASE MayGoOn(p)
    BY <1>3, <1>8, <2>1, <2>2 DEF Read, Set
  <2>3. CASE ~MayGoOn(p)
    BY <1>2, <1>8, <2>1, <2>3 DEF Read
  <2> QED BY <2>2, <2>3
<1>9. ASSUME NEW p \in Procs,
             \/ WriteIntent(p) \/ ActionFails(p) \/ LinkReference(p) \/ ReleaseReference(p)
             \/ RestoreFile(p) \/ RestoreOwnership(p)
      PROVE  SettledInv'
  <2>1. UNCHANGED doc /\ \E s \in {"act", "undone", "done"} : Stage(p, s)
    BY <1>9 DEF WriteIntent, ActionFails, LinkReference, ReleaseReference, RestoreFile,
                RestoreOwnership, disk
  <2> QED BY <1>4, <2>1
<1>10. ASSUME NEW p \in Procs, CommitCase(p) PROVE SettledInv'
  <2> DEFINE c0 == proc[p].case d == proc[p].snap
  <2>1. doc' = [doc EXCEPT ![c0] = d] /\ Stage(p, "done") /\ Clean(d)
    BY <1>10 DEF CommitCase, Acts, SettledInv, SettledFit
  <2>2. \A q \in Procs : SettledFit(proc[q])'
    <3> DEFINE r == [proc[p] EXCEPT !.stage = "done"]
    <3>1. r.op = proc[p].op /\ r.snap = proc[p].snap /\ r.todo = proc[p].todo
      BY DEF IInv, TypeOK, Works
    <3>2. SettledFit(r) /\ proc' = [proc EXCEPT ![p] = r]
      BY <2>1, <3>1 DEF SettledInv, SettledFit, Stage, Set
    <3> HIDE DEF r
    <3>3. \A q \in Procs : SettledFit(proc'[q])
      BY <3>2 DEF SettledInv, IInv, TypeOK
    <3> QED BY <3>3 DEF SettledFit
  <2>3. \A c \in Cases : doc'[c] # NoDoc => Clean(doc'[c])
    <3> HIDE DEF c0, d
    <3> QED BY <2>1 DEF SettledInv, IInv, TypeOK
  <2> QED BY <2>2, <2>3 DEF SettledInv, Clean
<1>11. ASSUME NEW p \in Procs, WriteResult(p) \/ IntentFails(p) \/ ResultFails(p)
       PROVE  SettledInv'
  <2>1. UNCHANGED doc /\ proc[p].op \notin {"none", "contain"}
    BY <1>11, AtWork DEF WriteResult, IntentFails, ResultFails, Role, disk
  <2>2. \E ok \in BOOLEAN : (ok => proc[p].stage = "done") /\ Set(p, After(proc[p], ok))
    BY <1>11 DEF WriteResult, IntentFails, ResultFails
  <2> QED BY <1>2, <2>1, <2>2
<1>12. ASSUME NEW p \in Procs, Crash(p) PROVE SettledInv'
  BY <1>0, <1>1, <1>12 DEF Crash, Set, disk
<1>13. CASE UNCHANGED <<doc, proc>>
  BY <1>13 DEF SettledInv, SettledFit, Clean
<1>14. UNCHANGED vars \/ Stop \/ Start => UNCHANGED <<doc, proc>>
  BY DEF vars, disk, Stop, Start
<1>15. (\E a \in Names : Appears(a) \/ Leaves(a) \/ TakenAway(a)) => UNCHANGED <<doc, proc>>
  BY DEF Appears, Leaves, TakenAway
<1> QED BY <1>5, <1>6, <1>7, <1>8, <1>9, <1>10, <1>11, <1>12, <1>13, <1>14, <1>15
      DEF Next, Step, Perform, Fails

LEMMA InitSettled == Init => SettledInv
<1> SUFFICES ASSUME Init PROVE SettledInv
  OBVIOUS
<1> DEFINE mine == Saved("open", [a \in Names |-> "quarantined"])
<1>1. \A p \in Procs : SettledFit(proc[p])
  BY DEF Init, SettledFit, Idle
<1>2. \A c \in Cases : doc[c] # NoDoc => doc[c] = mine
  BY DEF Init
<1>3. Clean(mine)
  BY DEF Clean, Saved
<1> QED BY <1>1, <1>2, <1>3 DEF SettledInv

\* A settled case keeps no artifact from its owner unless a write failed or somebody
\* touched the paths: a death never is enough (linkSharedCase, RestoreCase).
THEOREM NothingLeaksByDeath == ASSUME ~Overlap PROVE Spec => []DeathsLeakNothing
<1> DEFINE Both == KInv /\ SettledInv
<1>1. Both => DeathsLeakNothing
  <2> SUFFICES ASSUME Both, Quiet, NEW c \in Linked, doc[c] # NoDoc,
                      doc[c].state \in {"released", "restored"}, NEW a \in Names,
                      c \in record[a].cases
               PROVE  FALSE
    BY DEF DeathsLeakNothing, SettledHoldsNothing, Quiet
  <2>1. Tells(c, a)
    BY SharingAssumption DEF KInv, ReferenceInv
  <2>2. Clean(doc[c])
    BY DEF SettledInv, Cases
  <2> QED BY <2>1, <2>2 DEF Tells, Clean
<1>2. Init => Both
  BY InitKnown, InitSettled
<1>3. Both /\ [Next]_vars => Both'
  BY NextKnown, NextSettled DEF KInv
<1> QED BY <1>1, <1>2, <1>3, PTL DEF Spec
===============================================================================
