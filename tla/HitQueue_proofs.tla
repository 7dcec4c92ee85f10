--------------------------- MODULE HitQueue_proofs ---------------------------
(***************************************************************************)
(* Proofs about HitQueue for any set of hits and of workers and any length *)
(* of the observation window: its types, the conservation of hits, the     *)
(* shutdown order, and that it implements HitLedger.                       *)
(*                                                                         *)
(* HitsConserved and NoSubmitAfterClose are not inductive alone.           *)
(* HandsMatch ties a worker's state to its hand, so that taking and        *)
(* handling a hit move exactly one; ShutdownOrder says what every state of *)
(* run() has already waited for.                                           *)
(***************************************************************************)
EXTENDS HitQueue, TLAPS

HandsMatch == \A w \in Workers : worker[w] = "holding" <=> hand[w] # NoHit

ShutdownOrder ==
  /\ closed <=> main \in {"workerWait", "observerWait", "returned"}
  /\ main \in {"scanWait", "workerWait", "observerWait", "returned"} => etw # "running"
  /\ main = "starting" => etw = "off"
  /\ closed => scan = "ended"
  /\ \A w \in Workers : worker[w] = "exited" => closed /\ pending = << >>
  /\ main \in {"observerWait", "returned"} => \A w \in Workers : worker[w] = "exited"

IInv ==
  /\ TypeOK
  /\ HandsMatch
  /\ HitsConserved
  /\ ShutdownOrder
  /\ NoSubmitAfterClose
  /\ ReturnedIsQuiet

-------------------------------------------------------------------------------
(* Lemmas about the FIFO *)

\* Appending a hit adds it to the queued hits; it is a second copy only if it
\* was queued already.
LEMMA AppendQueued ==
  ASSUME NEW q \in Seq(Hits), NEW h \in Hits
  PROVE  /\ Append(q, h) \in Seq(Hits)
         /\ Append(q, h) # << >>
         /\ Len(Append(q, h)) = Len(q) + 1
         /\ {Append(q, h)[i] : i \in 1 .. Len(Append(q, h))}
              = {q[i] : i \in 1 .. Len(q)} \union {h}
         /\ (\A i, j \in 1 .. Len(q) : q[i] = q[j] => i = j)
              /\ h \notin {q[i] : i \in 1 .. Len(q)}
            => \A i, j \in 1 .. Len(Append(q, h)) :
                  Append(q, h)[i] = Append(q, h)[j] => i = j
<1> DEFINE r == Append(q, h)
<1>1. r \in Seq(Hits) /\ r # << >> /\ Len(r) = Len(q) + 1 /\ Len(q) \in Nat
  OBVIOUS
<1>2. \A i \in 1 .. Len(q) : r[i] = q[i]
  OBVIOUS
<1>3. r[Len(q) + 1] = h
  OBVIOUS
<1>4. {r[i] : i \in 1 .. Len(r)} = {q[i] : i \in 1 .. Len(q)} \union {h}
  <2>1. 1 .. Len(r) = 1 .. Len(q) \union {Len(q) + 1}
    BY <1>1
  <2>2. Len(q) + 1 \in 1 .. Len(r)
    BY <1>1
  <2> HIDE DEF r
  <2> QED BY <2>1, <2>2, <1>2, <1>3
<1>5. ASSUME \A i, j \in 1 .. Len(q) : q[i] = q[j] => i = j,
             h \notin {q[i] : i \in 1 .. Len(q)},
             NEW i \in 1 .. Len(r), NEW j \in 1 .. Len(r), r[i] = r[j]
      PROVE  i = j
  <2>1. i \in 1 .. Len(q) \/ i = Len(q) + 1
    BY <1>1
  <2>2. j \in 1 .. Len(q) \/ j = Len(q) + 1
    BY <1>1
  <2> HIDE DEF r
  <2> QED BY <2>1, <2>2, <1>2, <1>3, <1>5
<1> QED BY <1>1, <1>4, <1>5

\* Taking the head of a queue without repetitions removes exactly that hit.
LEMMA TailQueued ==
  ASSUME NEW q \in Seq(Hits), q # << >>,
         \A i, j \in 1 .. Len(q) : q[i] = q[j] => i = j
  PROVE  /\ Tail(q) \in Seq(Hits)
         /\ Head(q) \in Hits
         /\ Head(q) \in {q[i] : i \in 1 .. Len(q)}
         /\ {Tail(q)[i] : i \in 1 .. Len(Tail(q))}
              = {q[i] : i \in 1 .. Len(q)} \ {Head(q)}
         /\ \A i, j \in 1 .. Len(Tail(q)) : Tail(q)[i] = Tail(q)[j] => i = j
<1> DEFINE t == Tail(q)
<1>1. /\ t \in Seq(Hits) /\ Len(q) \in Nat \ {0} /\ Len(t) = Len(q) - 1
      /\ Head(q) = q[1] /\ 1 \in 1 .. Len(q) /\ Head(q) \in Hits
  OBVIOUS
<1>2. \A i \in 1 .. Len(t) : i + 1 \in 1 .. Len(q) /\ t[i] = q[i + 1]
  BY <1>1
<1>3. \A k \in 1 .. Len(q) : k # 1 => k - 1 \in 1 .. Len(t) /\ t[k - 1] = q[k]
  BY <1>1
<1> HIDE DEF t
<1>4. {t[i] : i \in 1 .. Len(t)} = {q[i] : i \in 1 .. Len(q)} \ {Head(q)}
  <2>1. ASSUME NEW i \in 1 .. Len(t)
        PROVE  t[i] \in {q[k] : k \in 1 .. Len(q)} \ {Head(q)}
    <3>1. t[i] = q[i + 1] /\ i + 1 \in 1 .. Len(q) /\ i + 1 # 1
      BY <1>1, <1>2
    <3>2. q[i + 1] # q[1]
      BY <3>1, <1>1
    <3> QED BY <3>1, <3>2, <1>1
  <2>2. ASSUME NEW k \in 1 .. Len(q), q[k] # Head(q)
        PROVE  q[k] \in {t[i] : i \in 1 .. Len(t)}
    <3>1. k # 1
      BY <2>2, <1>1
    <3> QED BY <3>1, <1>3
  <2> QED BY <2>1, <2>2
<1>5. \A i, j \in 1 .. Len(t) : t[i] = t[j] => i = j
  BY <1>1, <1>2
<1>6. Head(q) \in {q[i] : i \in 1 .. Len(q)}
  BY <1>1
<1> QED BY <1>1, <1>4, <1>5, <1>6 DEF t

-------------------------------------------------------------------------------
(* The inductive invariant *)

LEMMA InitInv == Init => IInv
<1> SUFFICES ASSUME Init PROVE IInv
  OBVIOUS
<1> USE QueueAssumption DEF Init
<1>1. TypeOK
  <2>1. << >> \in Seq(Hits) /\ MaxSamples \in 0 .. MaxSamples
    OBVIOUS
  <2>2. left \in [Hits -> 0 .. MaxSamples] /\ hand \in [Workers -> Hits \union {NoHit}]
    BY <2>1
  <2> QED BY <2>1, <2>2 DEF TypeOK, WorkerStates, ObserverStates, MainStates
<1>2. HitsConserved
  BY DEF HitsConserved, InHand, Queued
<1> QED BY <1>1, <1>2 DEF IInv, HandsMatch, ShutdownOrder, NoSubmitAfterClose, ReturnedIsQuiet

\* Steps that leave the FIFO, the hands and the handled hits alone keep every hit
\* where it is.
LEMMA FrameConserved ==
  ASSUME HitsConserved, UNCHANGED <<pending, accepted, hand, handled>>
  PROVE  HitsConserved'
BY DEF HitsConserved, InHand, Queued

LEMMA SubmitInv ==
  ASSUME IInv, NEW h \in Hits, Submit(h)
  PROVE  IInv'
<1> USE QueueAssumption DEF IInv
<1>1. ~closed
  BY DEF Submit, Producing, ShutdownOrder
<1>2. /\ h \notin accepted
      /\ accepted' = accepted \union {h}
      /\ pending' = Append(pending, h)
      /\ SignalOne
      /\ UNCHANGED <<panicked, closed, hand, handled, observer, left, main, scan, etw>>
  BY <1>1 DEF Submit, mainVars
<1>3. /\ worker' \in [Workers -> WorkerStates]
      /\ \A w \in Workers : worker'[w] = "holding" <=> worker[w] = "holding"
      /\ \A w \in Workers : worker'[w] = "exited" <=> worker[w] = "exited"
  BY <1>2 DEF SignalOne, TypeOK, WorkerStates
<1>4. /\ pending' \in Seq(Hits)
      /\ Queued' = Queued \union {h}
      /\ \A i, j \in 1 .. Len(pending') : pending'[i] = pending'[j] => i = j
  <2>1. pending \in Seq(Hits) /\ h \notin Queued
    BY <1>2 DEF TypeOK, HitsConserved
  <2>2. \A i, j \in 1 .. Len(pending) : pending[i] = pending[j] => i = j
    BY DEF HitsConserved
  <2>3. /\ Append(pending, h) \in Seq(Hits)
        /\ {Append(pending, h)[i] : i \in 1 .. Len(Append(pending, h))}
             = {pending[i] : i \in 1 .. Len(pending)} \union {h}
        /\ \A i, j \in 1 .. Len(Append(pending, h)) :
             Append(pending, h)[i] = Append(pending, h)[j] => i = j
    BY <2>1, <2>2, AppendQueued DEF Queued
  <2> QED BY <2>3, <1>2 DEF Queued
<1>5. TypeOK'
  BY <1>2, <1>3, <1>4 DEF TypeOK
<1>6. HandsMatch'
  BY <1>2, <1>3 DEF HandsMatch
<1>7. HitsConserved'
  <2>1. InHand' = InHand
    BY <1>2 DEF InHand
  <2> QED BY <1>2, <1>4, <2>1 DEF HitsConserved
<1>8. ShutdownOrder' /\ NoSubmitAfterClose' /\ ReturnedIsQuiet'
  BY <1>1, <1>2, <1>3 DEF ShutdownOrder, NoSubmitAfterClose, ReturnedIsQuiet
<1> QED BY <1>5, <1>6, <1>7, <1>8

LEMMA NextHitInv ==
  ASSUME IInv, NEW w \in Workers, NextHit(w)
  PROVE  IInv'
<1> USE QueueAssumption DEF IInv
<1>1. UNCHANGED <<accepted, closed, panicked, handled, observer, left, main, scan, etw>>
  BY DEF NextHit, mainVars
<1>2. worker[w] = "next" /\ hand[w] = NoHit
  BY DEF NextHit, HandsMatch
<1>3. main \notin {"observerWait", "returned"}
  BY <1>2 DEF ShutdownOrder
<1>4. CASE pending = << >>
  <2>1. /\ UNCHANGED <<pending, hand>>
        /\ worker' = [worker EXCEPT ![w] = IF closed THEN "exited" ELSE "waiting"]
    BY <1>4 DEF NextHit
  <2>2. TypeOK'
    BY <1>1, <2>1 DEF TypeOK, WorkerStates
  <2>3. HandsMatch'
    BY <1>2, <2>1 DEF HandsMatch, TypeOK
  <2>4. HitsConserved'
    BY <1>1, <2>1, FrameConserved
  <2>5. ShutdownOrder' /\ NoSubmitAfterClose' /\ ReturnedIsQuiet'
    BY <1>1, <1>3, <1>4, <2>1 DEF ShutdownOrder, NoSubmitAfterClose, ReturnedIsQuiet, TypeOK
  <2> QED BY <2>2, <2>3, <2>4, <2>5
<1>5. CASE pending # << >>
  <2> DEFINE h == Head(pending)
  <2>1. /\ worker' = [worker EXCEPT ![w] = "holding"]
        /\ hand' = [hand EXCEPT ![w] = h]
        /\ pending' = Tail(pending)
    BY <1>5 DEF NextHit
  <2>2. /\ pending' \in Seq(Hits) /\ h \in Hits /\ h \in Queued
        /\ Queued' = Queued \ {h}
        /\ \A i, j \in 1 .. Len(pending') : pending'[i] = pending'[j] => i = j
    <3>1. pending \in Seq(Hits)
      BY DEF TypeOK
    <3>2. \A i, j \in 1 .. Len(pending) : pending[i] = pending[j] => i = j
      BY DEF HitsConserved
    <3>3. /\ Tail(pending) \in Seq(Hits) /\ h \in Hits
          /\ h \in {pending[i] : i \in 1 .. Len(pending)}
          /\ {Tail(pending)[i] : i \in 1 .. Len(Tail(pending))}
               = {pending[i] : i \in 1 .. Len(pending)} \ {h}
          /\ \A i, j \in 1 .. Len(Tail(pending)) :
               Tail(pending)[i] = Tail(pending)[j] => i = j
      BY <3>1, <3>2, <1>5, TailQueued
    <3> QED BY <3>3, <2>1 DEF Queued
  <2> HIDE DEF h
  <2>3. TypeOK'
    BY <1>1, <2>1, <2>2 DEF TypeOK, WorkerStates
  <2>4. HandsMatch'
    BY <2>1, <2>2 DEF HandsMatch, TypeOK
  <2>5. /\ InHand' = InHand \union {h}
        /\ \A u, v \in Workers : hand'[u] = hand'[v] /\ hand'[u] # NoHit => u = v
    <3>1. \A v \in Workers : hand'[v] = IF v = w THEN h ELSE hand[v]
      BY <2>1 DEF TypeOK
    <3>2. \A v \in Workers : hand[v] # h
      BY <2>2 DEF HitsConserved, InHand
    <3> QED BY <1>2, <2>2, <3>1, <3>2 DEF InHand, HitsConserved
  <2>6. HitsConserved'
    BY <1>1, <2>2, <2>5 DEF HitsConserved
  <2>7. ShutdownOrder' /\ NoSubmitAfterClose' /\ ReturnedIsQuiet'
    BY <1>1, <1>3, <1>5, <2>1 DEF ShutdownOrder, NoSubmitAfterClose, ReturnedIsQuiet, TypeOK
  <2> QED BY <2>3, <2>4, <2>6, <2>7
<1> QED BY <1>4, <1>5

LEMMA HandleInv ==
  ASSUME IInv, NEW w \in Workers, Handle(w)
  PROVE  IInv'
<1> USE QueueAssumption DEF IInv
<1>1. UNCHANGED <<pending, accepted, closed, panicked, left, main, scan, etw>>
  BY DEF Handle, queueVars, mainVars
<1>2. /\ worker[w] = "holding" /\ hand[w] \in Hits
      /\ handled' = handled \union {hand[w]}
      /\ worker' = [worker EXCEPT ![w] = "next"]
      /\ hand' = [hand EXCEPT ![w] = NoHit]
  BY DEF Handle, HandsMatch, TypeOK
<1>3. observer' \in [Hits -> ObserverStates]
  BY DEF Handle, TypeOK, ObserverStates
<1>4. main \notin {"observerWait", "returned"}
  BY <1>2 DEF ShutdownOrder
<1>5. TypeOK'
  BY <1>1, <1>2, <1>3 DEF TypeOK, WorkerStates
<1>6. HandsMatch'
  BY <1>2 DEF HandsMatch, TypeOK
<1>7. HitsConserved'
  <2>1. \A v \in Workers : hand'[v] = IF v = w THEN NoHit ELSE hand[v]
    BY <1>2 DEF TypeOK
  <2>2. InHand' = InHand \ {hand[w]} /\ hand[w] \in InHand
    BY <1>2, <2>1 DEF InHand, HitsConserved
  <2>3. Queued' = Queued
    BY <1>1 DEF Queued
  <2> QED BY <1>1, <1>2, <2>1, <2>2, <2>3 DEF HitsConserved
<1>8. ShutdownOrder' /\ NoSubmitAfterClose' /\ ReturnedIsQuiet'
  BY <1>1, <1>2, <1>4 DEF ShutdownOrder, NoSubmitAfterClose, ReturnedIsQuiet, TypeOK
<1> QED BY <1>5, <1>6, <1>7, <1>8

LEMMA ObserveInv ==
  ASSUME IInv, NEW h \in Hits, Observe(h)
  PROVE  IInv'
<1> USE QueueAssumption DEF IInv
<1>1. UNCHANGED <<pending, accepted, closed, panicked, worker, hand, handled, main, scan, etw>>
  BY DEF Observe, ObserverDeadline, ObserverWakes, ObserverSamples, queueVars, mainVars
<1>2. /\ observer[h] \notin {"none", "ended"}
      /\ observer' \in [Hits -> ObserverStates]
      /\ left' \in [Hits -> 0 .. MaxSamples]
  <2>1. CASE ObserverDeadline(h)
    BY <2>1 DEF ObserverDeadline, TypeOK, ObserverStates
  <2>2. CASE ObserverWakes(h)
    BY <2>2 DEF ObserverWakes, TypeOK, ObserverStates
  <2>3. CASE ObserverSamples(h)
    <3>1. UNCHANGED left \/ (left[h] > 0 /\ left' = [left EXCEPT ![h] = @ - 1])
      BY <2>3 DEF ObserverSamples
    <3>2. left' \in [Hits -> 0 .. MaxSamples]
      BY <3>1 DEF TypeOK
    <3> QED BY <2>3, <3>2 DEF ObserverSamples, TypeOK, ObserverStates
  <2> QED BY <2>1, <2>2, <2>3 DEF Observe
<1>3. main # "returned"
  BY <1>2 DEF ReturnedIsQuiet
<1>4. TypeOK'
  BY <1>1, <1>2 DEF TypeOK
<1>5. HitsConserved'
  BY <1>1, FrameConserved
<1>6. HandsMatch' /\ ShutdownOrder' /\ NoSubmitAfterClose' /\ ReturnedIsQuiet'
  BY <1>1, <1>3 DEF HandsMatch, ShutdownOrder, NoSubmitAfterClose, ReturnedIsQuiet
<1> QED BY <1>4, <1>5, <1>6

\* The steps of run() and of its producers touch neither hits nor observations;
\* only CloseQueue touches the workers, and wakes the waiting ones.
LEMMA RunInv ==
  ASSUME IInv,
         StartEtw \/ CloseSession \/ EtwReturns \/ ScanReturns \/ Shutdown
  PROVE  IInv'
<1> USE QueueAssumption DEF IInv, queueVars, workVars
<1>1. UNCHANGED <<pending, accepted, panicked, hand, handled, observer, left>>
  BY DEF StartEtw, CloseSession, EtwReturns, ScanReturns, Shutdown, EtwWaited, CloseQueue,
         WorkersWaited, ObserversWaited
<1>2. HitsConserved'
  BY <1>1, FrameConserved
<1>3. CASE CloseQueue
  <2>1. TypeOK' /\ HandsMatch'
    BY <1>1, <1>3 DEF CloseQueue, TypeOK, HandsMatch, WorkerStates, MainStates
  <2>2. ShutdownOrder' /\ NoSubmitAfterClose' /\ ReturnedIsQuiet'
    BY <1>1, <1>3 DEF CloseQueue, ShutdownOrder, NoSubmitAfterClose, ReturnedIsQuiet
  <2> QED BY <1>2, <2>1, <2>2
<1>4. CASE ~CloseQueue
  <2>1. UNCHANGED <<closed, worker>>
    BY <1>4 DEF StartEtw, CloseSession, EtwReturns, ScanReturns, Shutdown, EtwWaited,
                WorkersWaited, ObserversWaited
  <2>2. main' \in MainStates /\ scan' \in {"running", "ended"} /\ etw' \in {"off", "running", "ended"}
    BY <1>4 DEF StartEtw, CloseSession, EtwReturns, ScanReturns, Shutdown, EtwWaited,
                WorkersWaited, ObserversWaited, TypeOK, MainStates
  <2>3. TypeOK' /\ HandsMatch'
    BY <1>1, <2>1, <2>2 DEF TypeOK, HandsMatch
  <2>4. ShutdownOrder' /\ NoSubmitAfterClose' /\ ReturnedIsQuiet'
    BY <1>1, <1>4, <2>1 DEF StartEtw, CloseSession, EtwReturns, ScanReturns, Shutdown, EtwWaited,
       WorkersWaited, ObserversWaited, ShutdownOrder, NoSubmitAfterClose, ReturnedIsQuiet
  <2> QED BY <1>2, <2>3, <2>4
<1> QED BY <1>3, <1>4

LEMMA NextInv == IInv /\ [Next]_vars => IInv'
<1> SUFFICES ASSUME IInv, [Next]_vars PROVE IInv'
  OBVIOUS
<1>1. ASSUME NEW h \in Hits, Submit(h) PROVE IInv'
  BY <1>1, SubmitInv
<1>2. ASSUME NEW h \in Hits, Observe(h) PROVE IInv'
  BY <1>2, ObserveInv
<1>3. ASSUME NEW w \in Workers, NextHit(w) PROVE IInv'
  BY <1>3, NextHitInv
<1>4. ASSUME NEW w \in Workers, Handle(w) PROVE IInv'
  BY <1>4, HandleInv
<1>5. CASE StartEtw \/ CloseSession \/ EtwReturns \/ ScanReturns \/ Shutdown
  BY <1>5, RunInv
<1>6. CASE UNCHANGED vars
  BY <1>6, FrameConserved DEF vars, IInv, TypeOK, HandsMatch, ShutdownOrder, NoSubmitAfterClose,
                              ReturnedIsQuiet
<1> QED BY <1>1, <1>2, <1>3, <1>4, <1>5, <1>6 DEF Next, Work, Exited

LEMMA Invariance == Spec => []IInv
BY InitInv, NextInv, PTL DEF Spec
-------------------------------------------------------------------------------
(* What the agent relies on *)

\* In every reachable state the queue, the workers, the observers and run()
\* hold values of their types.
THEOREM TypesHold == Spec => []TypeOK
BY Invariance, PTL DEF IInv

\* No hit is lost or doubled between Submit and the end of handle.
THEOREM NoHitLost == Spec => []HitsConserved
BY Invariance, PTL DEF IInv

\* run() never closes the queue under a producer, so Submit never panics.
THEOREM SubmitNeverPanics == Spec => []NoSubmitAfterClose
BY Invariance, PTL DEF IInv

\* Once Close has returned, no worker and no observation is alive.
THEOREM CloseIsQuiet == Spec => []ReturnedIsQuiet
BY Invariance, PTL DEF IInv

LEMMA InitLedger == Init => Ledger!LedgerInit
BY DEF Init, Ledger!LedgerInit

\* Every step of the agent is a step of the ledger or leaves it alone.
LEMMA StepLedger == IInv /\ [Next]_vars => [Ledger!LedgerNext]_(Ledger!ledger)
<1> SUFFICES ASSUME IInv, [Next]_vars PROVE [Ledger!LedgerNext]_(Ledger!ledger)
  OBVIOUS
<1> USE QueueAssumption DEF IInv, Ledger!LedgerNext, Ledger!ledger
<1>1. ASSUME NEW h \in Hits, Submit(h) PROVE Ledger!Accept(h)
  <2>1. ~closed
    BY <1>1 DEF Submit, Producing, ShutdownOrder
  <2>2. main # "returned"
    BY <2>1 DEF ShutdownOrder
  <2> QED BY <1>1, <2>1, <2>2 DEF Submit, mainVars, Ledger!Accept
<1>2. ASSUME NEW h \in Hits, Observe(h) PROVE UNCHANGED <<accepted, handled, main>>
  BY <1>2 DEF Observe, ObserverDeadline, ObserverWakes, ObserverSamples, queueVars, mainVars
<1>3. ASSUME NEW w \in Workers, NextHit(w) PROVE UNCHANGED <<accepted, handled, main>>
  BY <1>3 DEF NextHit, mainVars
<1>4. ASSUME NEW w \in Workers, Handle(w) PROVE \E h \in Hits : Ledger!Settle(h)
  <2>1. hand[w] \in Hits /\ hand[w] \in InHand
    BY <1>4 DEF Handle, HandsMatch, TypeOK, InHand
  <2>2. hand[w] \in accepted \ handled
    BY <2>1 DEF HitsConserved
  <2>3. main # "returned"
    BY <1>4 DEF Handle, ShutdownOrder
  <2> QED BY <1>4, <2>1, <2>2, <2>3 DEF Handle, queueVars, mainVars, Ledger!Settle
<1>5. ASSUME ObserversWaited PROVE Ledger!Shut
  <2>1. \A w \in Workers : worker[w] = "exited" /\ hand[w] = NoHit
    BY <1>5 DEF ObserversWaited, ShutdownOrder, HandsMatch
  <2>2. pending = << >>
    BY <2>1 DEF ShutdownOrder
  <2>3. InHand = {} /\ Queued = {}
    BY <2>1, <2>2 DEF InHand, Queued
  <2> QED BY <1>5, <2>3 DEF ObserversWaited, HitsConserved, queueVars, workVars, Ledger!Shut
<1>6. CASE StartEtw \/ CloseSession \/ EtwReturns \/ ScanReturns \/ EtwWaited \/ CloseQueue
           \/ WorkersWaited
  <2>1. UNCHANGED <<accepted, handled>> /\ main # "returned" /\ main' # "returned"
    BY <1>6 DEF StartEtw, CloseSession, EtwReturns, ScanReturns, EtwWaited, CloseQueue,
         WorkersWaited, queueVars, workVars, TypeOK, ReturnedIsQuiet, ShutdownOrder
  <2> QED BY <2>1
<1>7. CASE UNCHANGED vars
  BY <1>7 DEF vars
<1> QED BY <1>1, <1>2, <1>3, <1>4, <1>5, <1>6, <1>7 DEF Next, Work, Exited, Shutdown

\* The queue, its workers and the shutdown of run() implement the ledger: each
\* hit is accepted and handled at most once, and nothing is open after Close.
THEOREM QueueImplementsLedger == Spec => ImplementsLedger
BY Invariance, InitLedger, StepLedger, PTL DEF Spec, ImplementsLedger, Ledger!LedgerSpec
=============================================================================
