------------------------------- MODULE HitQueue -------------------------------
(***************************************************************************)
(* The eradication queue of one run of the agent: the producers (the       *)
(* startup scan and the ETW callback) that Submit hits, the workers that   *)
(* take them off the unbounded FIFO, the observation goroutines a handled  *)
(* hit may leave behind, and the shutdown order of main.go's run().        *)
(*                                                                         *)
(* queueMu guards pending, seenEvents and closed, so Submit, next and the  *)
(* body of closeOnce are each one step.  remediateMu is held for the whole *)
(* of handle, of observationDeadline and of sampleObservation, and the     *)
(* only shared state those read is guarded by it or by observationStop,    *)
(* which they read once; each is one step too.                             *)
(***************************************************************************)
EXTENDS Naturals, Sequences

CONSTANTS
  Hits,         \* IDs of the hit events the producers may submit
  Workers,      \* worker goroutines of the manager
  MaxSamples,   \* samples that fit in one observation window
  NoHit         \* an empty hand

ASSUME QueueAssumption ==
  /\ Workers # {}
  /\ MaxSamples \in Nat
  /\ NoHit \notin Hits

VARIABLES
  pending,      \* m.pending, the FIFO of accepted hits
  accepted,     \* m.seenEvents
  closed,       \* m.closed, set together with closing observationStop
  panicked,     \* a Submit found the queue closed
  worker,       \* what each worker goroutine is doing
  hand,         \* the hit each worker took and has not handled yet
  handled,      \* hits whose handle() has returned
  observer,     \* observation goroutine of each hit
  left,         \* samples left before its window has elapsed
  main,         \* where run() is
  scan, etw     \* the two producers

vars == <<pending, accepted, closed, panicked, worker, hand, handled,
          observer, left, main, scan, etw>>

queueVars == <<pending, accepted, closed, panicked>>
workVars  == <<worker, hand, handled, observer, left>>
mainVars  == <<main, scan, etw>>

InHand == {hand[w] : w \in Workers} \ {NoHit}
Queued == {pending[i] : i \in 1 .. Len(pending)}

Init ==
  /\ pending = << >>
  /\ accepted = {}
  /\ closed = FALSE
  /\ panicked = FALSE
  /\ worker = [w \in Workers |-> "next"]
  /\ hand = [w \in Workers |-> NoHit]
  /\ handled = {}
  /\ observer = [h \in Hits |-> "none"]
  /\ left = [h \in Hits |-> MaxSamples]
  /\ main = "starting"
  /\ scan = "running"
  /\ etw = "off"

-------------------------------------------------------------------------------
(* Submit: panic when closed, drop a repeated ID, else append and signal.  *)

Producing == scan = "running" \/ etw = "running"

\* sync.Cond.Signal: one waiting worker, if there is one, is woken.
SignalOne ==
  IF \E w \in Workers : worker[w] = "waiting"
  THEN \E w \in Workers :
         /\ worker[w] = "waiting"
         /\ worker' = [worker EXCEPT ![w] = "next"]
  ELSE UNCHANGED worker

SubmitWithoutSignal(h) ==
  /\ Producing
  /\ ~closed /\ h \notin accepted
  /\ accepted' = accepted \union {h}
  /\ pending' = Append(pending, h)
  /\ UNCHANGED <<worker, closed, panicked, hand, handled, observer, left, mainVars>>

SubmitWithoutDedup(h) ==
  /\ Producing
  /\ ~closed /\ Len(pending) < 3
  /\ accepted' = accepted \union {h}
  /\ pending' = Append(pending, h)
  /\ SignalOne
  /\ UNCHANGED <<closed, panicked, hand, handled, observer, left, mainVars>>

Submit(h) ==
  /\ Producing
  /\ IF closed
     THEN /\ panicked' = TRUE
          /\ UNCHANGED <<pending, accepted, worker>>
     ELSE /\ h \notin accepted
          /\ accepted' = accepted \union {h}
          /\ pending' = Append(pending, h)
          /\ SignalOne
          /\ UNCHANGED panicked
  /\ UNCHANGED <<closed, hand, handled, observer, left, mainVars>>

-------------------------------------------------------------------------------
(* The worker loop: next, then handle.                                     *)

NextDroppingBacklog(w) ==
  /\ worker[w] = "next"
  /\ \/ /\ ~closed /\ pending = << >>
        /\ worker' = [worker EXCEPT ![w] = "waiting"]
        /\ UNCHANGED <<pending, hand>>
     \/ /\ closed
        /\ worker' = [worker EXCEPT ![w] = "exited"]
        /\ UNCHANGED <<pending, hand>>
     \/ /\ ~closed /\ pending # << >>
        /\ worker' = [worker EXCEPT ![w] = "holding"]
        /\ hand' = [hand EXCEPT ![w] = Head(pending)]
        /\ pending' = Tail(pending)
  /\ UNCHANGED <<accepted, closed, panicked, handled, observer, left, mainVars>>

\* A closed queue is drained before the workers leave.
NextHit(w) ==
  /\ worker[w] = "next"
  /\ \/ /\ pending = << >> /\ ~closed
        /\ worker' = [worker EXCEPT ![w] = "waiting"]
        /\ UNCHANGED <<pending, hand>>
     \/ /\ pending = << >> /\ closed
        /\ worker' = [worker EXCEPT ![w] = "exited"]
        /\ UNCHANGED <<pending, hand>>
     \/ /\ pending # << >>
        /\ worker' = [worker EXCEPT ![w] = "holding"]
        /\ hand' = [hand EXCEPT ![w] = Head(pending)]
        /\ pending' = Tail(pending)
  /\ UNCHANGED <<accepted, closed, panicked, handled, observer, left, mainVars>>

\* handle: one case is saved, and when its immediate verification passed an
\* observation goroutine is started before the worker can report itself done.
Handle(w) ==
  /\ worker[w] = "holding"
  /\ handled' = handled \union {hand[w]}
  /\ \E observed \in BOOLEAN :
       observer' = [observer EXCEPT ![hand[w]] = IF observed THEN "deadline" ELSE @]
  /\ worker' = [worker EXCEPT ![w] = "next"]
  /\ hand' = [hand EXCEPT ![w] = NoHit]
  /\ UNCHANGED <<queueVars, left, mainVars>>

-------------------------------------------------------------------------------
(* observeCase: read the deadline, sleep until the timer or the stop       *)
(* channel, sample; a sample that finds the manager stopping only records  *)
(* the interruption.                                                       *)

ObserverDeadline(h) ==
  /\ observer[h] = "deadline"
  /\ \E active \in BOOLEAN :      \* the case may have been changed meanwhile
       observer' = [observer EXCEPT ![h] = IF active THEN "sleeping" ELSE "ended"]
  /\ UNCHANGED <<queueVars, worker, hand, handled, left, mainVars>>

ObserverWakes(h) ==
  /\ observer[h] = "sleeping"
  /\ observer' = [observer EXCEPT ![h] = "sampling"]
  /\ UNCHANGED <<queueVars, worker, hand, handled, left, mainVars>>

ObserverSamplesOn(h) ==
  /\ observer[h] = "sampling"
  /\ \/ /\ ~closed
        /\ left' = [left EXCEPT ![h] = @ - 1]
        /\ observer' = [observer EXCEPT ![h] = "deadline"]
     \/ /\ observer' = [observer EXCEPT ![h] = "ended"]
        /\ UNCHANGED left
  /\ UNCHANGED <<queueVars, worker, hand, handled, mainVars>>

ObserverSamples(h) ==
  /\ observer[h] = "sampling"
  /\ \/ /\ ~closed /\ left[h] > 0
        /\ left' = [left EXCEPT ![h] = @ - 1]
        /\ observer' = [observer EXCEPT ![h] = "deadline"]
     \/ /\ observer' = [observer EXCEPT ![h] = "ended"]
        /\ UNCHANGED left
  /\ UNCHANGED <<queueVars, worker, hand, handled, mainVars>>

-------------------------------------------------------------------------------
(* run(): the ETW session either starts or run returns its error; both     *)
(* ways the deferred function waits for the scan and then closes the       *)
(* manager.  session.Close makes session.Process return.                   *)

StartEtw ==
  /\ main = "starting"
  /\ \/ main' = "serving" /\ etw' = "running"
     \/ main' = "scanWait" /\ UNCHANGED etw
  /\ UNCHANGED <<queueVars, workVars, scan>>

CloseSession ==
  /\ main = "serving"
  /\ main' = "etwWait"
  /\ UNCHANGED <<queueVars, workVars, scan, etw>>

EtwReturns ==
  /\ etw = "running"
  /\ etw' = "ended"
  /\ UNCHANGED <<queueVars, workVars, main, scan>>

ScanReturns ==
  /\ scan = "running"
  /\ scan' = "ended"
  /\ UNCHANGED <<queueVars, workVars, main, etw>>

EtwWaited ==
  /\ main = "etwWait" /\ etw = "ended"
  /\ main' = "scanWait"
  /\ UNCHANGED <<queueVars, workVars, scan, etw>>

CloseBeforeScan ==
  /\ main = "scanWait"
  /\ main' = "workerWait"
  /\ closed' = TRUE
  /\ worker' = [w \in Workers |-> IF worker[w] = "waiting" THEN "next" ELSE worker[w]]
  /\ UNCHANGED <<pending, accepted, panicked, hand, handled, observer, left, scan, etw>>

CloseWithoutBroadcast ==
  /\ main = "scanWait" /\ scan = "ended"
  /\ main' = "workerWait"
  /\ closed' = TRUE
  /\ UNCHANGED <<pending, accepted, panicked, workVars, scan, etw>>

\* Close, the part under closeOnce: set closed, stop the observers, broadcast.
CloseQueue ==
  /\ main = "scanWait" /\ scan = "ended"
  /\ main' = "workerWait"
  /\ closed' = TRUE
  /\ worker' = [w \in Workers |-> IF worker[w] = "waiting" THEN "next" ELSE worker[w]]
  /\ UNCHANGED <<pending, accepted, panicked, hand, handled, observer, left, scan, etw>>

WorkersWaited ==
  /\ main = "workerWait"
  /\ \A w \in Workers : worker[w] = "exited"
  /\ main' = "observerWait"
  /\ UNCHANGED <<queueVars, workVars, scan, etw>>

ObserversUnwaited ==
  /\ main = "observerWait"
  /\ main' = "returned"
  /\ UNCHANGED <<queueVars, workVars, scan, etw>>

ObserversWaited ==
  /\ main = "observerWait"
  /\ \A h \in Hits : observer[h] \in {"none", "ended"}
  /\ main' = "returned"
  /\ UNCHANGED <<queueVars, workVars, scan, etw>>

-------------------------------------------------------------------------------
Work(w) == NextHit(w) \/ Handle(w)
Observe(h) == ObserverDeadline(h) \/ ObserverWakes(h) \/ ObserverSamples(h)
Shutdown == EtwWaited \/ CloseQueue \/ WorkersWaited \/ ObserversWaited

\* run() has returned and the process exits: nothing more happens.
Exited ==
  /\ main = "returned"
  /\ UNCHANGED vars

Next ==
  \/ \E h \in Hits : Submit(h) \/ Observe(h)
  \/ \E w \in Workers : Work(w)
  \/ StartEtw \/ CloseSession \/ EtwReturns \/ ScanReturns
  \/ Shutdown
  \/ Exited

\* The Go scheduler runs every runnable goroutine; Go's mutexes hand over to a
\* starving waiter; the startup scan walks a finite list of processes; Process
\* returns once the session is closed.  Nothing forces a hit or an interrupt.
Fairness ==
  /\ \A w \in Workers : WF_vars(Work(w))
  /\ \A h \in Hits : WF_vars(Observe(h))
  /\ WF_vars(StartEtw) /\ WF_vars(ScanReturns)
  /\ WF_vars(main = "etwWait" /\ EtwReturns)
  /\ WF_vars(Shutdown)

Spec == Init /\ [][Next]_vars /\ Fairness

-------------------------------------------------------------------------------
(* Properties *)

WorkerStates == {"next", "waiting", "holding", "exited"}
ObserverStates == {"none", "deadline", "sleeping", "sampling", "ended"}
MainStates == {"starting", "serving", "etwWait", "scanWait", "workerWait",
               "observerWait", "returned"}

\* Types: the values each variable of the queue and of run() may take.
TypeOK ==
  /\ pending \in Seq(Hits)
  /\ accepted \subseteq Hits
  /\ closed \in BOOLEAN
  /\ panicked \in BOOLEAN
  /\ worker \in [Workers -> WorkerStates]
  /\ hand \in [Workers -> Hits \union {NoHit}]
  /\ handled \subseteq Hits
  /\ observer \in [Hits -> ObserverStates]
  /\ left \in [Hits -> 0 .. MaxSamples]
  /\ main \in MainStates
  /\ scan \in {"running", "ended"}
  /\ etw \in {"off", "running", "ended"}

\* No hit is lost or doubled between Submit and the end of handle: every
\* accepted ID is in exactly one place, the FIFO, one worker's hand or the set
\* of handled hits, and it is there once (manager.go Submit, next, handle).
HitsConserved ==
  /\ accepted = handled \union InHand \union Queued
  /\ handled \intersect (InHand \union Queued) = {}
  /\ InHand \intersect Queued = {}
  /\ \A i, j \in 1 .. Len(pending) : pending[i] = pending[j] => i = j
  /\ \A v, w \in Workers : hand[v] = hand[w] /\ hand[v] # NoHit => v = w

\* Submit panics on a closed queue; run() joins the scan and the ETW thread
\* before it closes the queue, so no producer can be the one to hit that panic.
NoSubmitAfterClose == ~panicked

\* When Close has returned no goroutine of the manager is alive: the workers
\* have left and no observation can still sample or commit a case.
ReturnedIsQuiet ==
  main = "returned" =>
    /\ \A w \in Workers : worker[w] = "exited"
    /\ \A h \in Hits : observer[h] \in {"none", "ended"}

\* A hit the queue accepted is handled in the end, whether or not the agent is
\* being shut down meanwhile ("命中不会因为固定队列容量而丢弃").
EveryHitHandled == \A h \in Hits : h \in accepted ~> h \in handled

\* An interrupt leads to the end of run(): no wait of the shutdown sequence
\* (wg, scanDone, workers, observations) can block for ever.
ShutdownCompletes == main \in {"etwWait", "scanWait"} ~> main = "returned"

\* The queue implements the ledger of hits: accepted once, handled once, and
\* nothing accepted or left over once Close has returned.
Ledger == INSTANCE HitLedger WITH closed <- main = "returned"
ImplementsLedger == Ledger!LedgerSpec
===============================================================================
