-------------------------- MODULE WorkerPoolProofs --------------------------
(***************************************************************************)
(* What TLC checks of WorkerPool on small instances, proved for every set  *)
(* of tasks and workers, every redelivery limit, with and without force.   *)
(***************************************************************************)
EXTENDS WorkerPool, QueueProofs

(* The places where a thread sits, and whether it has a task there.        *)
USE DEF Busy, Beating, Idling

-----------------------------------------------------------------------------
(* Type correctness.                                                       *)

LEMMA InitType == Init => TypeOK
<1> SUFFICES ASSUME Init PROVE TypeOK
  OBVIOUS
<1>1. QueueTypeOK /\ WorkerTypeOK /\ todo \subseteq Task /\ announced \in Task \cup {NoTask}
  BY EmptySeq, NoTaskAssumption
     DEF Init, QueueInit, WorkerInit, QueueTypeOK, WorkerTypeOK, TaskState
<1>2. stalled \in BOOLEAN
  BY DEF Init
<1>3. QED
  BY <1>1, <1>2 DEF TypeOK

LEMMA NextType == TypeOK /\ [Next]_vars => TypeOK'
<1> SUFFICES ASSUME TypeOK, [Next]_vars PROVE TypeOK'
  OBVIOUS
<1> USE DEF TypeOK
<1>1. CASE ShowQueued
  BY <1>1 DEF ShowQueued, Show, queueVars, storeVars, QueueTypeOK, WorkerTypeOK, TaskState
<1>2. ASSUME NEW t \in Task, Submit(t) PROVE TypeOK'
  BY <1>2, EnqueueFacts DEF Submit, workerVars, storeVars, WorkerTypeOK
<1>3. ASSUME NEW w \in Worker, Grow(w) PROVE TypeOK'
  BY <1>3 DEF Grow, Spawn, Live, queueVars, storeVars, QueueTypeOK, WorkerTypeOK
<1>4. ASSUME NEW w \in Worker, WorkerStep(w) /\ UNCHANGED <<todo, announced, stalled>>
      PROVE  TypeOK'
  BY <1>4, WorkerStepType
<1>5. ASSUME NEW t \in Task, LeaseRunsOut(t) PROVE TypeOK'
  BY <1>5 DEF LeaseRunsOut, LeaseLapses, DeadlinePasses, workerVars, storeVars, QueueTypeOK, WorkerTypeOK
<1>6. CASE UNCHANGED vars
  BY <1>6 DEF vars, queueVars, workerVars, storeVars, QueueTypeOK, WorkerTypeOK
<1>7. QED
  BY <1>1, <1>2, <1>3, <1>4, <1>5, <1>6 DEF Next, ClientStep

(* Every reachable state of the pool is well typed; in particular only     *)
(* tasks in flight have a deadline that has passed (local.py:28-36), and a *)
(* thread has a task exactly while it runs one (worker.py:96-108).         *)
THEOREM TypeCorrect == Spec => []TypeOK
<1>1. QED
  BY InitType, NextType, PTL DEF Spec

-----------------------------------------------------------------------------
(* No task is lost, and nothing is shown finished that is not.  Neither is *)
(* inductive: ack takes a task out of the system by its key, so it matters *)
(* that a worker only gets to its ack with a task that is marked done.     *)

MarkedBeforeAck ==
    \A w \in Worker :
        pc[w] \in {"skip", "skipAck", "report", "ack"} => Finished(work[w])

SafetyInv == TypeOK /\ NotLost /\ ShownTrue /\ MarkedBeforeAck

Owed == Enqueued \cup inflight \cup DeadLettered

(* Completion markers are never taken back.                                *)
LEMMA FinishedStays ==
  ASSUME ran \subseteq ran', prior' = prior, NEW t, Finished(t)
  PROVE  Finished(t)'
BY DEF Finished

(* It is enough that each task a step takes out of the queue is finished.  *)
LEMMA NotLostStep ==
  ASSUME NotLost, ran \subseteq ran', prior' = prior,
         \A t \in todo \ todo' : t \in Owed',
         \A t \in Owed \cap Task : t \in Owed' \/ Finished(t)
  PROVE  NotLost'
BY DEF NotLost, Lost, Owed, Finished

LEMMA ShownStep ==
  ASSUME ShownTrue, TypeOK, ran \subseteq ran', prior' = prior,
         NEW t, NEW s, Show(t, s),
         s \in {"success", "skipped"} => Finished(t)
  PROVE  ShownTrue'
BY DEF ShownTrue, Show, Finished, TypeOK, WorkerTypeOK

LEMMA ShownKept ==
  ASSUME ShownTrue, ran \subseteq ran', prior' = prior, shown' = shown
  PROVE  ShownTrue'
BY DEF ShownTrue, Finished

(* A thread that moves on to l keeps MarkedBeforeAck if its task is marked *)
(* done whenever l comes after the marker.                                 *)
LEMMA MarkedStep ==
  ASSUME MarkedBeforeAck, TypeOK, ran \subseteq ran', prior' = prior,
         NEW w \in Worker, NEW l, Goto(w, l),
         \A v \in Worker \ {w} : work'[v] = work[v],
         l \in {"skip", "skipAck", "report", "ack"} => Finished(work[w])'
  PROVE  MarkedBeforeAck'
<1> SUFFICES ASSUME NEW v \in Worker,
                    pc'[v] \in {"skip", "skipAck", "report", "ack"}
             PROVE  Finished(work[v])'
  BY DEF MarkedBeforeAck
<1>1. CASE v = w
  BY <1>1 DEF Goto, TypeOK, WorkerTypeOK
<1>2. CASE v # w
  <2>1. pc'[v] = pc[v] /\ work'[v] = work[v]
    BY <1>2 DEF Goto, TypeOK, WorkerTypeOK
  <2>2. Finished(work[v])
    BY <2>1 DEF MarkedBeforeAck
  <2>3. QED
    BY <2>1, <2>2 DEF Finished
<1>3. QED
  BY <1>1, <1>2

LEMMA MarkedKept ==
  ASSUME MarkedBeforeAck, ran \subseteq ran', prior' = prior, work' = work,
         \A w \in Worker : pc'[w] = pc[w] \/ pc'[w] = "poll"
  PROVE  MarkedBeforeAck'
BY DEF MarkedBeforeAck, Finished

LEMMA InitSafety == Init => SafetyInv
<1> SUFFICES ASSUME Init PROVE SafetyInv
  OBVIOUS
<1>1. TypeOK
  BY InitType
<1>2. NotLost
  BY DEF Init, NotLost, Lost
<1>3. ShownTrue
  BY DEF Init, ShownTrue
<1>4. MarkedBeforeAck
  BY DEF Init, WorkerInit, MarkedBeforeAck
<1>5. QED
  BY <1>1, <1>2, <1>3, <1>4 DEF SafetyInv

LEMMA WorkerStepSafety ==
  ASSUME SafetyInv, NEW w \in Worker, WorkerStep(w), UNCHANGED <<todo, announced>>
  PROVE  NotLost' /\ ShownTrue' /\ MarkedBeforeAck'
<1> USE DEF SafetyInv
<1>0. /\ QueueTypeOK /\ WorkerTypeOK
      /\ pc[w] \in Busy => work[w] \in Task
      /\ pc \in [Worker -> {"off"} \cup Idling \cup Busy]
      /\ work \in [Worker -> Task \cup {NoTask}]
  BY DEF TypeOK, WorkerTypeOK
<1>a. UNCHANGED queueVars => Owed' = Owed
  BY DEF queueVars, Owed, Enqueued, DeadLettered
<1>1. CASE ClaimTask(w)
  <2>1. PICK t \in Task : Claim(t) /\ work' = [work EXCEPT ![w] = t]
    BY <1>1 DEF ClaimTask
  <2>2. Goto(w, "check") /\ UNCHANGED <<prior, ran, shown>>
    BY <1>1 DEF ClaimTask, storeVars
  <2>3. Owed \subseteq Owed'
    BY <1>0, <2>1, ClaimFacts DEF Owed, Survivors, QueueTypeOK
  <2>4. NotLost'
    BY <2>2, <2>3, NotLostStep
  <2>5. MarkedBeforeAck'
    <3>1. \A v \in Worker \ {w} : work'[v] = work[v]
      BY <1>0, <2>1
    <3>2. QED
      BY <2>2, <3>1, MarkedStep
  <2>6. QED
    BY <2>2, <2>4, <2>5, ShownKept
<1>2. CASE FindNothing(w) \/ IdleExit(w)
  <2>1. /\ Sweep
        /\ Goto(w, "idle") \/ Goto(w, "off")
        /\ UNCHANGED <<work, prior, ran, shown>>
    BY <1>2 DEF FindNothing, IdleExit, ClaimNone, storeVars
  <2>2. Owed \subseteq Owed'
    BY <1>0, <2>1, SweepFacts DEF Owed, Survivors, QueueTypeOK
  <2>3. NotLost'
    BY <2>1, <2>2, NotLostStep
  <2>4. MarkedBeforeAck'
    BY <2>1, MarkedStep
  <2>5. QED
    BY <2>1, <2>3, <2>4, ShownKept
<1>3. CASE Check(w)
  <2>1. /\ UNCHANGED <<queueVars, work, prior, ran, shown>>
        /\ \/ ~Forced /\ HasResult(work[w]) /\ Goto(w, "skip")
           \/ Goto(w, "start")
    BY <1>3 DEF Check, storeVars
  <2>2. MarkedBeforeAck'
    <3>1. CASE ~Forced /\ HasResult(work[w]) /\ Goto(w, "skip")
      <4>1. Finished(work[w])'
        BY <2>1, <3>1 DEF Finished, HasResult
      <4>2. QED
        BY <2>1, <3>1, <4>1, MarkedStep
    <3>2. CASE Goto(w, "start")
      BY <2>1, <3>2, MarkedStep
    <3>3. QED
      BY <2>1, <3>1, <3>2
  <2>3. QED
    BY <1>a, <2>1, <2>2, NotLostStep, ShownKept
<1>4. CASE ShowSkipped(w) \/ ShowSuccess(w)
  <2>1. /\ UNCHANGED <<queueVars, work, prior, ran>>
        /\ Finished(work[w])
        /\ Show(work[w], "skipped") \/ Show(work[w], "success")
        /\ Goto(w, "skipAck") \/ Goto(w, "ack")
    BY <1>4 DEF ShowSkipped, ShowSuccess, storeVars, MarkedBeforeAck
  <2>2. Finished(work[w])'
    BY <2>1, FinishedStays
  <2>3. MarkedBeforeAck'
    BY <2>1, <2>2, MarkedStep
  <2>4. QED
    BY <1>a, <2>1, <2>3, NotLostStep, ShownStep
<1>5. CASE Start(w) \/ ShowFailed(w)
  <2>1. /\ UNCHANGED <<queueVars, work, prior, ran>>
        /\ Show(work[w], "running") \/ Show(work[w], "failed")
        /\ Goto(w, "compute") \/ Goto(w, "nack")
    BY <1>5 DEF Start, ShowFailed, storeVars
  <2>2. MarkedBeforeAck'
    BY <2>1, MarkedStep
  <2>3. QED
    BY <1>a, <2>1, <2>2, NotLostStep, ShownStep
<1>6. CASE DieStarting(w) \/ DieFailing(w)
  <2>1. /\ UNCHANGED <<queueVars, prior, ran>>
        /\ Show(work[w], "running") \/ shown' = shown
        /\ Goto(w, "off")
        /\ work' = [work EXCEPT ![w] = NoTask]
    BY <1>6 DEF DieStarting, DieFailing, Leave, storeVars
  <2>2. \A v \in Worker \ {w} : work'[v] = work[v]
    BY <1>0, <2>1
  <2>3. MarkedBeforeAck'
    BY <2>1, <2>2, MarkedStep
  <2>4. QED
    BY <1>a, <2>1, <2>3, NotLostStep, ShownStep, ShownKept
<1>7. CASE Publish(w)
  <2>1. /\ UNCHANGED <<queueVars, work, prior, shown>>
        /\ ran' = ran \cup {work[w]}
        /\ Goto(w, "report")
    BY <1>7 DEF Publish
  <2>2. Finished(work[w])'
    BY <2>1 DEF Finished
  <2>3. MarkedBeforeAck'
    BY <2>1, <2>2, MarkedStep
  <2>4. QED
    BY <1>a, <2>1, <2>3, NotLostStep, ShownKept
<1>8. CASE Raise(w) \/ WriteFailure(w)
  <2>1. /\ UNCHANGED <<queueVars, work, prior, ran, shown>>
        /\ Goto(w, "fail") \/ Goto(w, "tell")
    BY <1>8 DEF Raise, WriteFailure, storeVars
  <2>2. MarkedBeforeAck'
    BY <2>1, MarkedStep
  <2>3. QED
    BY <1>a, <2>1, <2>2, NotLostStep, ShownKept
<1>9. CASE AckTask(w)
  <2>1. /\ Ack(work[w])
        /\ Finished(work[w])
        /\ Goto(w, "poll")
        /\ work' = [work EXCEPT ![w] = NoTask]
        /\ UNCHANGED <<prior, ran, shown>>
    BY <1>9 DEF AckTask, Leave, storeVars, MarkedBeforeAck
  <2>2. \A t \in Owed : t \in Owed' \/ t = work[w]
    BY <2>1 DEF Ack, DropLease, Owed, Enqueued, DeadLettered
  <2>3. \A v \in Worker \ {w} : work'[v] = work[v]
    BY <1>0, <2>1
  <2>4. NotLost'
    BY <2>1, <2>2, NotLostStep
  <2>5. MarkedBeforeAck'
    BY <2>1, <2>3, MarkedStep
  <2>6. QED
    BY <2>1, <2>4, <2>5, ShownKept
<1>10. CASE FailTask(w)
  <2>1. /\ Fail(work[w])
        /\ work[w] \in Task
        /\ Goto(w, "poll")
        /\ work' = [work EXCEPT ![w] = NoTask]
        /\ UNCHANGED <<prior, ran, shown>>
    BY <1>0, <1>10 DEF FailTask, Leave, storeVars
  <2>2. /\ work[w] \in Owed'
        /\ Enqueued \subseteq Enqueued' /\ DeadLettered \subseteq DeadLettered'
    BY <1>0, <2>1, FailFacts DEF Owed, Enqueued, DeadLettered
  <2>3. inflight' = inflight \ {work[w]}
    BY <2>1 DEF Fail, DropLease
  <2>4. Owed \subseteq Owed'
    BY <2>2, <2>3 DEF Owed
  <2>5. \A v \in Worker \ {w} : work'[v] = work[v]
    BY <1>0, <2>1
  <2>6. NotLost'
    BY <2>1, <2>4, NotLostStep
  <2>7. MarkedBeforeAck'
    BY <2>1, <2>5, MarkedStep
  <2>8. QED
    BY <2>1, <2>6, <2>7, ShownKept
<1>11. CASE Heartbeat(w)
  <2>1. UNCHANGED <<ready, inflight, dlq, pc, work, prior, ran, shown>>
    BY <1>11 DEF Heartbeat, Extend, workerVars, storeVars
  <2>2. Owed' = Owed
    BY <2>1 DEF Owed, Enqueued, DeadLettered
  <2>3. MarkedBeforeAck'
    BY <2>1 DEF MarkedBeforeAck, Finished
  <2>4. QED
    BY <2>1, <2>2, <2>3, NotLostStep, ShownKept
<1>12. QED
  BY <1>1, <1>2, <1>3, <1>4, <1>5, <1>6, <1>7, <1>8, <1>9, <1>10, <1>11
     DEF WorkerStep, WorkerProgress

LEMMA NextSafety == SafetyInv /\ [Next]_vars => SafetyInv'
<1> SUFFICES ASSUME SafetyInv, [Next]_vars PROVE SafetyInv'
  OBVIOUS
<1> USE DEF SafetyInv
<1>0. TypeOK'
  BY NextType
<1>1. CASE ShowQueued
  <2>1. /\ Show(announced, "queued")
        /\ UNCHANGED <<ready, inflight, dlq, pc, work, prior, ran, todo>>
    BY <1>1 DEF ShowQueued, queueVars, storeVars
  <2>2. Owed' = Owed
    BY <2>1 DEF Owed, Enqueued, DeadLettered
  <2>3. MarkedBeforeAck'
    BY <2>1 DEF MarkedBeforeAck, Finished
  <2>4. QED
    BY <1>0, <2>1, <2>2, <2>3, NotLostStep, ShownStep
<1>2. ASSUME NEW t \in Task, Submit(t) PROVE SafetyInv'
  <2>1. /\ Enqueue(t)
        /\ todo' = todo \ {t}
        /\ UNCHANGED <<pc, work, prior, ran, shown>>
    BY <1>2 DEF Submit, workerVars, storeVars
  <2>2. Enqueued' = Enqueued \cup {t} /\ inflight' = inflight /\ dlq' = dlq
    BY <2>1, EnqueueFacts DEF Enqueue, TypeOK
  <2>3. Owed' = Owed \cup {t}
    BY <2>2 DEF Owed, DeadLettered
  <2>4. MarkedBeforeAck'
    BY <2>1 DEF MarkedBeforeAck, Finished
  <2>5. QED
    BY <1>0, <2>1, <2>3, <2>4, NotLostStep, ShownKept
<1>3. ASSUME NEW w \in Worker, Grow(w) PROVE SafetyInv'
  <2>1. /\ UNCHANGED <<ready, inflight, dlq, work, prior, ran, shown, todo>>
        /\ \A v \in Worker : pc'[v] = pc[v] \/ pc'[v] = "poll"
    BY <1>3 DEF Grow, Spawn, queueVars, storeVars, TypeOK, WorkerTypeOK
  <2>2. Owed' = Owed
    BY <2>1 DEF Owed, Enqueued, DeadLettered
  <2>3. QED
    BY <1>0, <2>1, <2>2, NotLostStep, ShownKept, MarkedKept
<1>4. ASSUME NEW w \in Worker, WorkerStep(w), UNCHANGED <<todo, announced>>
      PROVE  SafetyInv'
  BY <1>0, <1>4, WorkerStepSafety
<1>5. ASSUME NEW t \in Task, LeaseRunsOut(t) PROVE SafetyInv'
  <2>1. UNCHANGED <<ready, inflight, dlq, pc, work, prior, ran, shown, todo>>
    BY <1>5 DEF LeaseRunsOut, LeaseLapses, DeadlinePasses, workerVars, storeVars
  <2>2. Owed' = Owed
    BY <2>1 DEF Owed, Enqueued, DeadLettered
  <2>3. QED
    BY <1>0, <2>1, <2>2, NotLostStep, ShownKept, MarkedKept
<1>6. CASE UNCHANGED vars
  <2>1. UNCHANGED <<ready, inflight, dlq, pc, work, prior, ran, shown, todo>>
    BY <1>6 DEF vars, queueVars, workerVars, storeVars
  <2>2. Owed' = Owed
    BY <2>1 DEF Owed, Enqueued, DeadLettered
  <2>3. QED
    BY <1>0, <2>1, <2>2, NotLostStep, ShownKept, MarkedKept
<1>7. QED
  BY <1>1, <1>2, <1>3, <1>4, <1>5, <1>6 DEF Next, ClientStep

LEMMA SafetyHolds == Spec => []SafetyInv
BY InitSafety, NextSafety, PTL DEF Spec

(* No task that was enqueued is lost: whichever threads die and whichever  *)
(* leases lapse under live workers, it is marked done, visible, in flight  *)
(* or dead-lettered (local.py:28-69, worker.py:28-90).                     *)
THEOREM NoTaskLost == Spec => []NotLost
<1>1. SafetyInv => NotLost
  BY DEF SafetyInv
<1>2. QED
  BY <1>1, SafetyHolds, PTL

(* What the tracker shows as success or skipped has its completion marker, *)
(* in every interleaving of the threads' updates (worker.py:28-30, 61-64). *)
THEOREM NothingShownTooSoon == Spec => []ShownTrue
<1>1. SafetyInv => ShownTrue
  BY DEF SafetyInv
<1>2. QED
  BY <1>1, SafetyHolds, PTL

-----------------------------------------------------------------------------
(* Whatever the heartbeats do, the pool is the task plane of TaskPlane: a  *)
(* task that was handed over stays owed until it is marked done or dead-   *)
(* lettered, and is delivered a bounded number of times.  The credit that  *)
(* bounds the deliveries counts the copies of a task in _ready.            *)

(* What TaskPlane sees of the pool, part by part.                          *)
OwedNow == {t \in Enqueued \cup inflight : ~Finished(t) /\ t \notin DeadLettered}
DoneNow == {t \in Task : Finished(t)}
CreditNow == [t \in Task |-> Copies(t) + RedeliveriesLeft(t)]

LEMMA CopiesAreTimes ==
  ASSUME NEW t
  PROVE  Copies(t) = Times(ready, t) /\ Copies(t)' = Times(ready', t)
BY DEF Copies, Times, Places

LEMMA InitPlane == Init => Plane!Init
<1> SUFFICES ASSUME Init PROVE Plane!Init
  OBVIOUS
<1>1. ready = <<>> /\ dlq = <<>> /\ inflight = {} /\ attempt = [t \in Task |-> 0]
  BY DEF Init, QueueInit
<1>2. Enqueued = {} /\ DeadLettered = {}
  BY <1>1 DEF Enqueued, DeadLettered, ToSet
<1>3. \A t \in Task : Copies(t) = 0
  <2>1. \A t \in Task : {i \in DOMAIN ready : ready[i] = t} = {}
    BY <1>1
  <2>2. QED
    BY <2>1, FS_EmptySet DEF Copies
<1>4. \A t \in Task : RedeliveriesLeft(t) = MaxRedeliveries
  BY <1>1, MaxAssumption DEF RedeliveriesLeft
<1>5. CreditNow = [t \in Task |-> MaxRedeliveries]
  BY <1>3, <1>4, MaxAssumption DEF CreditNow
<1>6. DoneNow \in SUBSET Task
  BY DEF DoneNow
<1>7. OwedNow = {}
  BY <1>1, <1>2 DEF OwedNow
<1>8. QED
  BY <1>1, <1>2, <1>5, <1>6, <1>7 DEF Plane!Init, OwedNow, DoneNow, CreditNow

(* A step that leaves _ready, the attempts, the dead letters and the       *)
(* markers alone, and takes nothing out of flight that is not done, is a   *)
(* stutter.                                                                *)
LEMMA UnseenByPlane ==
  ASSUME UNCHANGED <<ready, dlq, attempt, prior, ran>>,
         inflight' \subseteq inflight,
         \A t \in inflight \ inflight' : Finished(t)
  PROVE  UNCHANGED Plane!vars
<1>1. Enqueued' = Enqueued /\ DeadLettered' = DeadLettered
  BY DEF Enqueued, DeadLettered
<1>2. \A t : Finished(t)' = Finished(t)
  BY DEF Finished
<1>3. OwedNow' = OwedNow /\ DoneNow' = DoneNow
  BY <1>1, <1>2 DEF OwedNow, DoneNow
<1>4. CreditNow' = CreditNow
  BY DEF CreditNow, Copies, RedeliveriesLeft
<1>5. QED
  BY <1>1, <1>3, <1>4 DEF Plane!vars, OwedNow, DoneNow, CreditNow

(* The credit of a task after the leases in S are charged, R of which come *)
(* back to _ready.                                                         *)
LEMMA ChargedCredit ==
  ASSUME QueueTypeOK, NEW S \in SUBSET Task, Charge(S), NEW t \in Task
  PROVE  /\ RedeliveriesLeft(t) \in Nat /\ RedeliveriesLeft(t)' \in Nat
         /\ RedeliveriesLeft(t) =
              RedeliveriesLeft(t)' + IF t \in S \ Exhausted(S) THEN 1 ELSE 0
<1>1. attempt[t] \in Nat
  BY DEF QueueTypeOK
<1>2. attempt'[t] = attempt[t] + IF t \in S THEN 1 ELSE 0
  BY DEF Charge
<1>3. t \in S \ Exhausted(S) <=> t \in S /\ attempt[t] < MaxRedeliveries
  BY <1>1, MaxAssumption DEF Exhausted
<1>4. QED
  BY <1>1, <1>2, <1>3, MaxAssumption DEF RedeliveriesLeft

(* What a sweep leaves in _ready keeps every credit.                       *)
LEMMA SweptCredit ==
  ASSUME QueueTypeOK, Charge(lapsed), NEW r \in SweptReady, NEW t \in Task
  PROVE  Times(r, t) + RedeliveriesLeft(t)' = Copies(t) + RedeliveriesLeft(t)
<1>1. ready \in Seq(Task) /\ lapsed \in SUBSET Task
  BY DEF QueueTypeOK
<1>2. PICK b \in SetToSeqs(lapsed \ Exhausted(lapsed)) : r = ready \o b
  BY DEF SweptReady
<1>3. lapsed \ Exhausted(lapsed) \in SUBSET Task
  BY <1>1
<1>4. IsFiniteSet(lapsed \ Exhausted(lapsed))
  BY <1>3, FiniteSubset
<1>5. Times(r, t) = Times(ready, t)
                      + IF t \in lapsed \ Exhausted(lapsed) THEN 1 ELSE 0
  BY <1>1, <1>2, <1>3, <1>4, EnumerationTimes
<1>6. Times(ready, t) \in Nat
  BY <1>1, PlacesFinite
<1>7. QED
  BY <1>1, <1>5, <1>6, ChargedCredit, CopiesAreTimes

(* Expired leases that are only swept bury the exhausted ones.             *)
LEMMA SweepPlane ==
  ASSUME QueueTypeOK, Sweep, UNCHANGED <<prior, ran>>
  PROVE  Plane!Next
<1>1. lapsed \subseteq inflight /\ inflight \subseteq Task
  BY DEF QueueTypeOK
<1>2. /\ Enqueued' = Enqueued \cup Survivors
      /\ DeadLettered' = DeadLettered \cup Exhausted(lapsed)
      /\ inflight' = inflight \ lapsed
  BY SweepFacts
<1>3. /\ Survivors = lapsed \ Exhausted(lapsed)
      /\ Exhausted(lapsed) \subseteq lapsed
  BY DEF Survivors, Exhausted
<1>4. \A t : Finished(t)' = Finished(t)
  BY DEF Finished
<1>5. OwedNow' = OwedNow \ Exhausted(lapsed) /\ DoneNow' = DoneNow
  BY <1>1, <1>2, <1>3, <1>4 DEF OwedNow, DoneNow
<1>6. CreditNow' = CreditNow
  <2>1. \A t \in Task : (Copies(t) + RedeliveriesLeft(t))' = Copies(t) + RedeliveriesLeft(t)
    BY SweptCredit, CopiesAreTimes DEF Sweep
  <2>2. QED
    BY <2>1 DEF CreditNow
<1>7. PICK S \in SUBSET Task : S = Exhausted(lapsed)
  BY <1>1, <1>3
<1>8. Plane!DeadLetter(S)
  BY <1>2, <1>5, <1>6, <1>7
     DEF Plane!DeadLetter, Plane!Bury, OwedNow, DoneNow, CreditNow
<1>9. QED
  BY <1>8 DEF Plane!Next

(* A claim spends one credit of the task it delivers.                      *)
LEMMA ClaimPlane ==
  ASSUME QueueTypeOK, NEW t \in Task, Claim(t), UNCHANGED <<prior, ran>>
  PROVE  Plane!Next
<1>1. lapsed \subseteq inflight /\ inflight \subseteq Task /\ ready \in Seq(Task)
  BY DEF QueueTypeOK
<1>2. /\ Enqueued' \cup {t} = Enqueued \cup Survivors
      /\ DeadLettered' = DeadLettered \cup Exhausted(lapsed)
      /\ inflight' = (inflight \ lapsed) \cup {t}
  BY ClaimFacts
<1>3. /\ Survivors = lapsed \ Exhausted(lapsed)
      /\ Exhausted(lapsed) \subseteq lapsed
  BY DEF Survivors, Exhausted
<1>4. \A x : Finished(x)' = Finished(x)
  BY DEF Finished
<1>5. OwedNow' = OwedNow \ Exhausted(lapsed) /\ DoneNow' = DoneNow
  BY <1>1, <1>2, <1>3, <1>4 DEF OwedNow, DoneNow
<1>6. t \in OwedNow \cup DoneNow \cup DeadLettered
  BY <1>1, <1>2, <1>3 DEF OwedNow, DoneNow
<1>7. PICK r \in SweptReady : r # <<>> /\ t = Head(r) /\ ready' = Tail(r)
  BY DEF Claim, TakeHead
<1>8. Charge(lapsed) /\ r \in Seq(Task)
  BY <1>7, SweptFacts DEF Claim
<1>9. \A x \in Task :
        /\ Copies(x) + RedeliveriesLeft(x) =
             (Copies(x) + RedeliveriesLeft(x))' + IF x = t THEN 1 ELSE 0
        /\ (Copies(x) + RedeliveriesLeft(x))' \in Nat
  <2> SUFFICES ASSUME NEW x \in Task
               PROVE  /\ Copies(x) + RedeliveriesLeft(x) =
                           Copies(x)' + RedeliveriesLeft(x)' + IF x = t THEN 1 ELSE 0
                      /\ Copies(x)' + RedeliveriesLeft(x)' \in Nat
    OBVIOUS
  <2>1. Times(r, x) = Times(Tail(r), x) + IF x = t THEN 1 ELSE 0
    BY <1>7, <1>8, TailTimes
  <2>2. Tail(r) \in Seq(Task)
    BY <1>7, <1>8, HeadTailSet
  <2>3. Times(Tail(r), x) \in Nat /\ Copies(x)' = Times(Tail(r), x)
    BY <1>7, <2>2, PlacesFinite, CopiesAreTimes
  <2>4. Times(r, x) + RedeliveriesLeft(x)' = Copies(x) + RedeliveriesLeft(x)
    BY <1>8, SweptCredit
  <2>5. RedeliveriesLeft(x)' \in Nat
    BY <1>1, <1>8, ChargedCredit
  <2>6. QED
    BY <2>1, <2>3, <2>4, <2>5
<1>10. CreditNow[t] > 0 /\ CreditNow' = [CreditNow EXCEPT ![t] = @ - 1]
  <2>1. \A x \in Task :
          /\ CreditNow[x] = CreditNow'[x] + IF x = t THEN 1 ELSE 0
          /\ CreditNow'[x] \in Nat
    BY <1>9 DEF CreditNow
  <2>2. CreditNow = [x \in Task |-> CreditNow[x]] /\ CreditNow' = [x \in Task |-> CreditNow'[x]]
    BY DEF CreditNow
  <2>3. CreditNow[t] > 0 /\ CreditNow'[t] = CreditNow[t] - 1
    BY <2>1
  <2>4. \A x \in Task \ {t} : CreditNow'[x] = CreditNow[x]
    BY <2>1
  <2>5. QED
    BY <2>2, <2>3, <2>4
<1>11. PICK S \in SUBSET Task : S = Exhausted(lapsed)
  BY <1>1, <1>3
<1>12. Plane!Deliver(t, S)
  BY <1>2, <1>5, <1>6, <1>10, <1>11
     DEF Plane!Deliver, Plane!Bury, OwedNow, DoneNow, CreditNow
<1>13. QED
  BY <1>12 DEF Plane!Next

(* A failed delivery returns the task and its credit, or buries it.  The   *)
(* caller need not hold the lease, so the task may come back to _ready     *)
(* from nowhere; it was owed all the same.                                 *)
LEMMA FailPlane ==
  ASSUME QueueTypeOK, NEW t \in Task, Fail(t), UNCHANGED <<prior, ran>>,
         t \in Owed \/ Finished(t)
  PROVE  Plane!Next
<1>1. /\ ready \in Seq(Task) /\ attempt[t] \in Nat
      /\ \A x \in Task : Copies(x) = Times(ready, x) /\ Copies(x)' = Times(ready', x)
      /\ \A x \in Task : Times(ready, x) \in Nat
  BY PlacesFinite, CopiesAreTimes DEF QueueTypeOK
<1>2. inflight' = inflight \ {t} /\ Charge({t}) /\ inflight \subseteq Task
  BY DEF Fail, DropLease, QueueTypeOK
<1>3. \A x : Finished(x)' = Finished(x)
  BY DEF Finished
<1>4. \A x \in Task :
        /\ RedeliveriesLeft(x) \in Nat /\ RedeliveriesLeft(x)' \in Nat
        /\ RedeliveriesLeft(x) =
             RedeliveriesLeft(x)' + IF x \in {t} \ Exhausted({t}) THEN 1 ELSE 0
  BY <1>2, ChargedCredit
<1>5. CASE t \in Exhausted({t})
  <2>1. ready' = ready /\ dlq' = Append(dlq, t) /\ dlq \in Seq(Task)
    BY <1>5 DEF Fail, PutBack, QueueTypeOK
  <2>2. Enqueued' = Enqueued /\ DeadLettered' = DeadLettered \cup {t}
    BY <2>1, AppendSet DEF Enqueued, DeadLettered
  <2>3. OwedNow' = OwedNow \ {t} /\ DoneNow' = DoneNow
    BY <1>2, <1>3, <2>2 DEF OwedNow, DoneNow
  <2>4. CreditNow' = CreditNow
    <3>1. \A x \in Task : /\ Copies(x)' = Copies(x)
                          /\ RedeliveriesLeft(x)' = RedeliveriesLeft(x)
      BY <1>1, <1>4, <1>5, <2>1
    <3>2. QED
      BY <3>1 DEF CreditNow
  <2>5. PICK S \in SUBSET Task : S = {t}
    OBVIOUS
  <2>6. Plane!DeadLetter(S)
    BY <2>2, <2>3, <2>4, <2>5
       DEF Plane!DeadLetter, Plane!Bury, OwedNow, DoneNow, CreditNow
  <2>7. QED
    BY <2>6 DEF Plane!Next
<1>6. CASE t \notin Exhausted({t})
  <2>1. ready' = Append(ready, t) /\ dlq' = dlq
    BY <1>6 DEF Fail, PutBack
  <2>2. Enqueued' = Enqueued \cup {t} /\ DeadLettered' = DeadLettered
    BY <1>1, <2>1, AppendSet DEF Enqueued, DeadLettered
  <2>3. OwedNow' = OwedNow /\ DoneNow' = DoneNow
    BY <1>2, <1>3, <2>2 DEF OwedNow, DoneNow, Owed
  <2>4. \A x \in Task : Times(ready', x) = Times(ready, x) + IF x = t THEN 1 ELSE 0
    BY <1>1, <2>1, AppendTimes
  <2>5. CreditNow' = CreditNow
    <3>1. \A x \in Task : Copies(x)' + RedeliveriesLeft(x)' =
                            Copies(x) + RedeliveriesLeft(x)
      <4> SUFFICES ASSUME NEW x \in Task
                   PROVE  Copies(x)' + RedeliveriesLeft(x)' =
                            Copies(x) + RedeliveriesLeft(x)
        OBVIOUS
      <4>1. /\ Copies(x) \in Nat
            /\ Copies(x)' = Copies(x) + IF x = t THEN 1 ELSE 0
        BY <1>1, <2>4
      <4>2. /\ RedeliveriesLeft(x)' \in Nat
            /\ RedeliveriesLeft(x) = RedeliveriesLeft(x)' + IF x = t THEN 1 ELSE 0
        BY <1>4, <1>6
      <4>3. QED
        BY <4>1, <4>2
    <3>2. QED
      BY <3>1 DEF CreditNow
  <2>6. PICK S \in SUBSET Task : S = {}
    OBVIOUS
  <2>7. Plane!DeadLetter(S)
    BY <2>2, <2>3, <2>5, <2>6
       DEF Plane!DeadLetter, Plane!Bury, OwedNow, DoneNow, CreditNow
  <2>8. QED
    BY <2>7 DEF Plane!Next
<1>7. QED
  BY <1>5, <1>6

(* Enqueuing gives a task one more credit.                                 *)
LEMMA EnqueuePlane ==
  ASSUME QueueTypeOK, NEW t \in Task, Enqueue(t), UNCHANGED <<prior, ran>>
  PROVE  Plane!Next
<1>1. /\ ready \in Seq(Task) /\ ready' = Append(ready, t)
      /\ UNCHANGED <<inflight, dlq, attempt>>
  BY DEF QueueTypeOK, Enqueue
<1>2. Enqueued' = Enqueued \cup {t} /\ DeadLettered' = DeadLettered
  BY <1>1, AppendSet DEF Enqueued, DeadLettered
<1>3. \A x : Finished(x)' = Finished(x)
  BY DEF Finished
<1>4. OwedNow' = OwedNow \cup ({t} \ (DoneNow \cup DeadLettered)) /\ DoneNow' = DoneNow
  BY <1>1, <1>2, <1>3 DEF OwedNow, DoneNow
<1>5. \A x \in Task : Copies(x)' = Copies(x) + IF x = t THEN 1 ELSE 0
  BY <1>1, AppendTimes, CopiesAreTimes
<1>6. \A x \in Task : /\ Copies(x) \in Nat
                      /\ RedeliveriesLeft(x) \in Nat
                      /\ RedeliveriesLeft(x)' = RedeliveriesLeft(x)
  BY <1>1, PlacesFinite, CopiesAreTimes, MaxAssumption
     DEF QueueTypeOK, RedeliveriesLeft
<1>7. CreditNow' = [CreditNow EXCEPT ![t] = @ + 1]
  <2>1. \A x \in Task : CreditNow'[x] = CreditNow[x] + IF x = t THEN 1 ELSE 0
    BY <1>5, <1>6 DEF CreditNow
  <2>2. \A x \in Task : CreditNow[x] \in Nat
    BY <1>6 DEF CreditNow
  <2>3. CreditNow = [x \in Task |-> CreditNow[x]] /\ CreditNow' = [x \in Task |-> CreditNow'[x]]
    BY DEF CreditNow
  <2>4. CreditNow'[t] = CreditNow[t] + 1 /\ \A x \in Task \ {t} : CreditNow'[x] = CreditNow[x]
    BY <2>1, <2>2
  <2>5. QED
    BY <2>3, <2>4
<1>8. Plane!HandOver(t)
  BY <1>2, <1>4, <1>7 DEF Plane!HandOver, OwedNow, DoneNow, CreditNow
<1>9. QED
  BY <1>8 DEF Plane!Next

-----------------------------------------------------------------------------
(* Only what was handed over is in the queue or with a worker.  It is what *)
(* makes a task that is given back one that was owed already: NotLost says *)
(* so of the tasks that left todo.                                         *)
HandedOver ==
    /\ Enqueued \cap todo = {}
    /\ inflight \cap todo = {}
    /\ \A w \in Worker : work[w] \notin todo

PlaneInv == SafetyInv /\ HandedOver

LEMMA InitHandedOver == Init => HandedOver
BY NoTaskAssumption DEF Init, QueueInit, WorkerInit, HandedOver, Enqueued, ToSet

LEMMA WorkerHandedOver ==
  ASSUME TypeOK, HandedOver, NEW w \in Worker, WorkerStep(w), todo' = todo
  PROVE  HandedOver'
<1>0. /\ QueueTypeOK /\ todo \subseteq Task /\ NoTask \notin todo
      /\ lapsed \subseteq inflight
      /\ work \in [Worker -> Task \cup {NoTask}]
      /\ pc[w] \in Busy => work[w] \in Task
  BY NoTaskAssumption DEF TypeOK, QueueTypeOK, WorkerTypeOK
<1>1. CASE ClaimTask(w)
  <2>1. PICK t \in Task : Claim(t) /\ work' = [work EXCEPT ![w] = t]
    BY <1>1 DEF ClaimTask
  <2>2. /\ Enqueued' \cup {t} = Enqueued \cup Survivors
        /\ inflight' = (inflight \ lapsed) \cup {t}
    BY <1>0, <2>1, ClaimFacts
  <2>3. t \notin todo /\ Enqueued' \cap todo = {} /\ inflight' \cap todo = {}
    BY <1>0, <2>2 DEF HandedOver, Survivors
  <2>4. QED
    BY <1>0, <2>1, <2>3 DEF HandedOver
<1>2. CASE FindNothing(w) \/ IdleExit(w)
  <2>1. Sweep /\ work' = work
    BY <1>2 DEF FindNothing, IdleExit, ClaimNone
  <2>2. Enqueued' = Enqueued \cup Survivors /\ inflight' = inflight \ lapsed
    BY <1>0, <2>1, SweepFacts
  <2>3. QED
    BY <1>0, <2>1, <2>2 DEF HandedOver, Survivors
<1>3. CASE AckTask(w)
  <2>1. ready' = ready /\ inflight' \subseteq inflight /\ work' = [work EXCEPT ![w] = NoTask]
    BY <1>3 DEF AckTask, Ack, DropLease, Leave
  <2>2. QED
    BY <1>0, <2>1 DEF HandedOver, Enqueued
<1>4. CASE FailTask(w)
  <2>1. /\ Fail(work[w]) /\ work[w] \in Task
        /\ work' = [work EXCEPT ![w] = NoTask] /\ inflight' \subseteq inflight
    BY <1>0, <1>4 DEF FailTask, Fail, DropLease, Leave, Busy, Beating
  <2>2. Enqueued' \subseteq Enqueued \cup {work[w]}
    BY <1>0, <2>1, FailFacts DEF Enqueued
  <2>3. QED
    BY <1>0, <2>1, <2>2 DEF HandedOver
<1>5. CASE Heartbeat(w)
  BY <1>5 DEF Heartbeat, Extend, workerVars, HandedOver, Enqueued
<1>6. CASE DieStarting(w) \/ DieFailing(w)
  <2>1. UNCHANGED <<ready, inflight>> /\ work' = [work EXCEPT ![w] = NoTask]
    BY <1>6 DEF DieStarting, DieFailing, queueVars, Leave
  <2>2. QED
    BY <1>0, <2>1 DEF HandedOver, Enqueued
<1>7. CASE \/ Check(w) \/ ShowSkipped(w) \/ Start(w) \/ Publish(w)
           \/ ShowSuccess(w) \/ WriteFailure(w) \/ ShowFailed(w) \/ Raise(w)
  <2>1. UNCHANGED <<ready, inflight, work>>
    BY <1>7 DEF Check, ShowSkipped, Start, Publish, ShowSuccess, WriteFailure,
                ShowFailed, Raise, queueVars
  <2>2. QED
    BY <2>1 DEF HandedOver, Enqueued
<1>8. QED
  BY <1>1, <1>2, <1>3, <1>4, <1>5, <1>6, <1>7 DEF WorkerStep, WorkerProgress

LEMMA NextHandedOver == TypeOK /\ HandedOver /\ [Next]_vars => HandedOver'
<1> SUFFICES ASSUME TypeOK, HandedOver, [Next]_vars PROVE HandedOver'
  OBVIOUS
<1>1. ASSUME NEW t \in Task, Submit(t) PROVE HandedOver'
  <2>1. /\ Enqueued' = Enqueued \cup {t} /\ inflight' = inflight
        /\ work' = work /\ todo' = todo \ {t}
    BY <1>1, EnqueueFacts DEF Submit, Enqueue, workerVars, TypeOK
  <2>2. QED
    BY <2>1 DEF HandedOver
<1>2. ASSUME NEW w \in Worker, WorkerStep(w) /\ UNCHANGED <<todo, announced>>
      PROVE  HandedOver'
  BY <1>2, WorkerHandedOver
<1>3. CASE \/ ShowQueued
           \/ \E w \in Worker : Grow(w)
           \/ \E t \in Task : LeaseRunsOut(t)
           \/ UNCHANGED vars
  <2>1. UNCHANGED <<ready, inflight, work, todo>>
    BY <1>3 DEF ShowQueued, Grow, Spawn, LeaseRunsOut, LeaseLapses, DeadlinePasses, vars,
                queueVars, workerVars
  <2>2. QED
    BY <2>1 DEF HandedOver, Enqueued
<1>4. QED
  BY <1>1, <1>2, <1>3 DEF Next, ClientStep

LEMMA PlaneInvHolds == Spec => []PlaneInv
<1>1. SafetyInv => TypeOK
  BY DEF SafetyInv
<1>2. QED
  BY <1>1, InitSafety, NextSafety, InitHandedOver, NextHandedOver, PTL DEF Spec, PlaneInv

LEMMA WorkerStepPlane ==
  ASSUME PlaneInv, NEW w \in Worker, WorkerStep(w)
  PROVE  [Plane!Next]_Plane!vars
<1>0. /\ QueueTypeOK /\ TypeOK
      /\ pc[w] \in Busy => work[w] \in Task
  BY DEF PlaneInv, SafetyInv, TypeOK, WorkerTypeOK
<1>1. CASE ClaimTask(w)
  BY <1>0, <1>1, ClaimPlane DEF ClaimTask, storeVars
<1>2. CASE FindNothing(w) \/ IdleExit(w)
  BY <1>0, <1>2, SweepPlane DEF FindNothing, IdleExit, ClaimNone, storeVars
<1>3. CASE AckTask(w)
  <2>1. /\ UNCHANGED <<ready, dlq, attempt, prior, ran>>
        /\ inflight' = inflight \ {work[w]}
        /\ Finished(work[w])
    BY <1>3 DEF AckTask, Ack, DropLease, storeVars, PlaneInv, SafetyInv, MarkedBeforeAck
  <2>2. QED
    BY <2>1, UnseenByPlane
<1>4. CASE FailTask(w)
  <2>1. Fail(work[w]) /\ work[w] \in Task /\ UNCHANGED <<prior, ran>>
    BY <1>0, <1>4 DEF FailTask, storeVars, Busy, Beating
  <2>2. work[w] \in Owed \/ Finished(work[w])
    BY <2>1 DEF PlaneInv, SafetyInv, HandedOver, NotLost, Lost, Owed
  <2>3. QED
    BY <1>0, <2>1, <2>2, FailPlane
<1>5. CASE Publish(w)
  <2>1. UNCHANGED <<ready, inflight, dlq, attempt, prior>> /\ work[w] \in Task
    BY <1>0, <1>5 DEF Publish, queueVars, Busy, Beating
  <2>2. Enqueued' = Enqueued /\ DeadLettered' = DeadLettered /\ CreditNow' = CreditNow
    BY <2>1 DEF Enqueued, DeadLettered, CreditNow, Copies, RedeliveriesLeft
  <2>3. \A t : Finished(t)' <=> Finished(t) \/ t = work[w]
    BY <1>5 DEF Publish, Finished
  <2>4. OwedNow' = OwedNow \ {work[w]} /\ DoneNow' = DoneNow \cup {work[w]}
    BY <2>1, <2>2, <2>3 DEF OwedNow, DoneNow
  <2>5. PICK t \in Task : t = work[w]
    BY <2>1
  <2>6. Plane!Finish(t)
    BY <2>2, <2>4, <2>5 DEF Plane!Finish, OwedNow, DoneNow, CreditNow
  <2>7. QED
    BY <2>6 DEF Plane!Next
<1>6. CASE \/ Check(w) \/ ShowSkipped(w) \/ Start(w) \/ ShowSuccess(w)
           \/ WriteFailure(w) \/ ShowFailed(w) \/ DieStarting(w) \/ Raise(w)
           \/ DieFailing(w) \/ Heartbeat(w)
  <2>1. UNCHANGED <<ready, inflight, dlq, attempt, prior, ran>>
    BY <1>6 DEF Check, ShowSkipped, Start, ShowSuccess, WriteFailure, ShowFailed,
                DieStarting, Raise, DieFailing, Heartbeat, Extend, queueVars,
                workerVars, storeVars
  <2>2. QED
    BY <2>1, UnseenByPlane
<1>7. QED
  BY <1>1, <1>2, <1>3, <1>4, <1>5, <1>6 DEF WorkerStep, WorkerProgress

LEMMA NextPlane == PlaneInv /\ [Next]_vars => [Plane!Next]_Plane!vars
<1> SUFFICES ASSUME PlaneInv, [Next]_vars PROVE [Plane!Next]_Plane!vars
  OBVIOUS
<1>1. ASSUME NEW t \in Task, Submit(t) PROVE [Plane!Next]_Plane!vars
  <2>1. QueueTypeOK /\ Enqueue(t) /\ UNCHANGED <<prior, ran>>
    BY <1>1 DEF Submit, workerVars, PlaneInv, SafetyInv, TypeOK
  <2>2. QED
    BY <2>1, EnqueuePlane
<1>2. ASSUME NEW w \in Worker, WorkerStep(w) PROVE [Plane!Next]_Plane!vars
  BY <1>2, WorkerStepPlane
<1>3. CASE \/ ShowQueued
           \/ \E w \in Worker : Grow(w)
           \/ \E t \in Task : LeaseRunsOut(t)
           \/ UNCHANGED vars
  <2>1. UNCHANGED <<ready, inflight, dlq, attempt, prior, ran>>
    BY <1>3 DEF ShowQueued, Grow, Spawn, LeaseRunsOut, LeaseLapses, DeadlinePasses, vars,
                queueVars, workerVars, storeVars
  <2>2. QED
    BY <2>1, UnseenByPlane
<1>4. QED
  BY <1>1, <1>2, <1>3 DEF Next, ClientStep

(* Whatever leases lapse under live workers, the pool delivers each task   *)
(* at least once, or dead-letters it, and at most MaxRedeliveries + 1      *)
(* times for each time it was enqueued (local.py:28-74, worker.py:96-112). *)
THEOREM PlaneDelivers == Spec => ImplementsTaskPlane
<1>1. QED
  BY PlaneInvHolds, InitPlane, NextPlane, PTL
     DEF Spec, ImplementsTaskPlane, Plane!Spec

-----------------------------------------------------------------------------
(* Until a lease has run out under a live worker, a task is in one place   *)
(* and at most one worker has it.                                          *)

(* A task that is not submitted yet is nowhere, and one that is dead-      *)
(* lettered is nowhere else and has not completed.                         *)
Lone ==
    /\ todo \cap (Owed \cup ran) = {}
    /\ \A t \in DeadLettered : t \notin Enqueued \cup inflight /\ ~Finished(t)

LeaseInv == TypeOK /\ Leases /\ Lone

LEMMA InitLease == Init => LeaseInv
<1> SUFFICES ASSUME Init PROVE LeaseInv
  OBVIOUS
<1>1. TypeOK
  BY InitType
<1>2. ready = <<>> /\ dlq = <<>> /\ inflight = {} /\ ran = {}
  BY DEF Init, QueueInit, WorkerInit
<1>3. Enqueued = {} /\ DeadLettered = {} /\ IsInjective(ready)
  BY <1>2 DEF Enqueued, DeadLettered, ToSet, IsInjective
<1>4. \A w \in Worker : pc[w] = "off" /\ work[w] \notin Task
  BY NoTaskAssumption DEF Init, WorkerInit
<1>5. Leases
  BY <1>2, <1>3, <1>4
     DEF Leases, LeaseHeld, HeldOnce, NotRedone, DoneLeaves, Recomputing
<1>6. Lone
  BY <1>2, <1>3 DEF Lone, Owed
<1>7. QED
  BY <1>1, <1>5, <1>6 DEF LeaseInv

(* A step of a worker or of the clock.                                     *)
LEMMA CarriedLone ==
  ASSUME LeaseInv, TypeOK', Carried, todo' = todo
  PROVE  Lone'
<1>1. ASSUME NEW t \in DeadLettered'
      PROVE  /\ t \notin (Enqueued \cup inflight)' /\ ~Finished(t)'
             /\ t \notin todo
  <2>1. dlq \in Seq(Task) /\ dlq' \in Seq(Task)
    BY DEF LeaseInv, TypeOK, QueueTypeOK
  <2>2. t \in ToSet(dlq')
    BY DEF DeadLettered
  <2>3. t \in Task /\ Times(dlq', t) > 0
    BY <2>1, <2>2, PlacesFinite, ElementOfSeq DEF ToSet
  <2>4. CASE Dies(t)
    BY <2>4 DEF Dies, LeaseInv, Lone, Owed
  <2>5. CASE Times(dlq', t) = Times(dlq, t)
    <3>1. t \in DeadLettered
      BY <2>1, <2>3, <2>5, PlacesFinite DEF DeadLettered
    <3>2. t \notin Enqueued \cup inflight /\ ~Finished(t) /\ t \notin todo
      BY <3>1 DEF LeaseInv, Lone, Owed
    <3>3. t \notin (Enqueued \cup inflight)'
      BY <3>2 DEF Carried
    <3>4. ~Finished(t)'
      BY <3>2, <3>3 DEF Carried, Finished
    <3>5. QED
      BY <3>2, <3>3, <3>4
  <2>6. QED
    BY <2>3, <2>4, <2>5 DEF Carried
<1>2. todo \cap (Enqueued \cup inflight \cup ran)' = {}
  BY DEF LeaseInv, Lone, Owed, Carried
<1>3. QED
  BY <1>1, <1>2 DEF Lone, Owed

(* A step that leaves the queue, the markers and todo alone.               *)
LEMMA UndisturbedLone ==
  ASSUME LeaseInv, UNCHANGED <<ready, inflight, dlq, prior, ran, todo>>
  PROVE  Lone'
BY DEF LeaseInv, Lone, Owed, Enqueued, DeadLettered, Finished

LEMMA NextLease == LeaseInv /\ [Next]_vars /\ ~stalled' => LeaseInv'
<1> SUFFICES ASSUME LeaseInv, [Next]_vars, ~stalled' PROVE LeaseInv'
  OBVIOUS
<1>0. TypeOK' /\ QueueTypeOK /\ WorkerTypeOK /\ Leases
  BY NextType DEF LeaseInv, TypeOK
<1>1. \A w \in Worker : work[w] \in Task => work[w] \notin lapsed
  BY <1>0, LapsedFacts
<1>2. ASSUME Leases', Lone' PROVE LeaseInv'
  BY <1>0, <1>2 DEF LeaseInv
<1>3. CASE ShowQueued
  BY <1>0, <1>1, <1>2, <1>3, UndisturbedLeases, UndisturbedLone
     DEF ShowQueued, queueVars, storeVars
<1>4. ASSUME NEW t \in Task, Submit(t) PROVE LeaseInv'
  <2>1. /\ Enqueue(t) /\ t \in todo /\ todo' = todo \ {t}
        /\ UNCHANGED <<pc, work, prior, ran>>
    BY <1>4 DEF Submit, workerVars, storeVars
  <2>2. t \notin Enqueued \cup inflight \cup DeadLettered \cup ran
    BY <2>1 DEF LeaseInv, Lone, Owed
  <2>3. Leases'
    BY <1>0, <2>1, <2>2, EnqueueLeases
  <2>4. Enqueued' = Enqueued \cup {t} /\ UNCHANGED <<inflight, DeadLettered>>
    BY <1>0, <2>1, EnqueueFacts DEF Enqueue, DeadLettered
  <2>5. Lone'
    BY <2>1, <2>2, <2>4 DEF LeaseInv, Lone, Owed, Finished
  <2>6. QED
    BY <1>2, <2>3, <2>5
<1>5. ASSUME NEW w \in Worker, Grow(w) PROVE LeaseInv'
  <2>1. /\ UNCHANGED <<ready, inflight, lapsed, dlq, work, prior, ran, todo>>
        /\ \A v \in Worker : pc'[v] = pc[v] \/ (pc[v] = "off" /\ pc'[v] = "poll")
    BY <1>5 DEF Grow, Spawn, Live, queueVars, storeVars
  <2>2. QED
    BY <1>0, <1>1, <1>2, <2>1, UndisturbedLeases, UndisturbedLone
<1>6. ASSUME NEW w \in Worker, WorkerStep(w), UNCHANGED <<todo, announced>>
      PROVE  LeaseInv'
  <2>1. Leases' /\ Carried
    BY <1>0, <1>6, WorkerStepLeases DEF Moved
  <2>2. QED
    BY <1>0, <1>2, <1>6, <2>1, CarriedLone
<1>7. ASSUME NEW t \in Task, LeaseRunsOut(t) PROVE LeaseInv'
  <2>1. /\ LeaseLapses(t) /\ todo' = todo
        /\ Running(t) = {}
    BY <1>7 DEF LeaseRunsOut
  <2>2. Leases' /\ Carried
    BY <1>0, <2>1, LapseLeases DEF Moved
  <2>3. QED
    BY <1>0, <1>2, <2>1, <2>2, CarriedLone
<1>8. CASE UNCHANGED vars
  <2>1. UNCHANGED <<ready, inflight, lapsed, dlq, pc, work, prior, ran, todo>>
    BY <1>8 DEF vars, queueVars, workerVars
  <2>2. QED
    BY <1>0, <1>1, <1>2, <2>1, UndisturbedLeases, UndisturbedLone
<1>9. QED
  BY <1>3, <1>4, <1>5, <1>6, <1>7, <1>8 DEF Next, ClientStep

(* What has run out under a live worker stays so.                          *)
LEMMA StalledForGood == TypeOK /\ [Next]_vars /\ stalled => stalled'
BY DEF Next, vars, ClientStep, ShowQueued, Submit, Grow, LeaseRunsOut

SteadyInv == TypeOK /\ (~stalled => LeaseInv)

LEMMA LeaseHolds == Spec => []SteadyInv
<1>1. Init => SteadyInv
  BY InitLease DEF SteadyInv, LeaseInv
<1>2. SteadyInv /\ [Next]_vars => SteadyInv'
  BY NextType, NextLease, StalledForGood DEF SteadyInv
<1>3. QED
  BY <1>1, <1>2, PTL DEF Spec

(* Until a lease has run out under a live worker, no two workers run the   *)
(* same task, whatever threads die (local.py:42-50, worker.py:40-50).      *)
THEOREM OneExecutorOnly == Spec => []OneExecutor
<1>1. SteadyInv => OneExecutor
  BY DEF SteadyInv, LeaseInv, Leases, HeldOnce, OneExecutor, Running
<1>2. QED
  BY <1>1, LeaseHolds, PTL

(* Until then, a chunk that is done is not recomputed (worker.py:27-32).   *)
THEOREM DoneIsNotRedone == Spec => []NoRecompute
<1>1. SteadyInv => NoRecompute
  BY DEF SteadyInv, LeaseInv, Leases, NotRedone, NoRecompute, Recomputing
<1>2. QED
  BY <1>1, LeaseHolds, PTL

(* Until then, a dead letter is the last that is heard of a task, and none *)
(* is written for a task that completed (local.py:62-69).                  *)
THEOREM DeadLettersAreFinal == Spec => []DeadIsFinal
<1>1. SteadyInv => DeadIsFinal
  <2> SUFFICES ASSUME LeaseInv, NEW t \in DeadLettered
               PROVE  t \notin Enqueued \cup inflight \cup ran /\ Running(t) = {}
    BY DEF SteadyInv, DeadIsFinal
  <2>1. t \in Task
    BY DEF LeaseInv, TypeOK, QueueTypeOK, DeadLettered, ToSet
  <2>2. t \notin Enqueued \cup inflight \cup ran
    BY DEF LeaseInv, Lone, Finished
  <2>3. Running(t) = {}
    BY <2>1, <2>2 DEF LeaseInv, Leases, LeaseHeld, Running
  <2>4. QED
    BY <2>2, <2>3
<1>2. QED
  BY <1>1, LeaseHolds, PTL

-----------------------------------------------------------------------------
(* So LocalQueue in the hands of its workers is the queue that base.py     *)
(* promises: every step of WorkerPool is a step of LeasedQueue or leaves   *)
(* what LeasedQueue sees alone.                                            *)

(* What LeasedQueue sees of the pool.                                      *)
Seen == <<Enqueued, inflight, DeadLettered, attempt>>

LEMMA InitLeased == Init => Leased!Init
<1> SUFFICES ASSUME Init PROVE Leased!Init
  OBVIOUS
<1>1. ready = <<>> /\ dlq = <<>> /\ inflight = {} /\ attempt = [t \in Task |-> 0]
  BY DEF Init, QueueInit
<1>2. Enqueued = {} /\ DeadLettered = {}
  BY <1>1 DEF Enqueued, DeadLettered, ToSet
<1>3. QED
  BY <1>1, <1>2 DEF Leased!Init

LEMMA UnseenStep == Seen' = Seen => [Leased!Next]_Leased!vars
BY DEF Seen, Leased!vars

(* The tasks a sweep or a fail gives back are those LeasedQueue redelivers.*)
LEMMA RedeliverableSurvivors ==
  ASSUME QueueTypeOK, NEW S \in SUBSET inflight
  PROVE  Leased!Redeliverable(S) = S \ Exhausted(S)
<1>1. \A t \in S : attempt[t] \in Nat
  BY DEF QueueTypeOK
<1>2. \A t \in S : attempt[t] < MaxRedeliveries <=> ~(attempt[t] + 1 > MaxRedeliveries)
  BY <1>1, MaxAssumption
<1>3. QED
  BY <1>2 DEF Leased!Redeliverable, Exhausted

(* A sweep gives back what has lapsed.                                     *)
LEMMA SweepLeased ==
  ASSUME LeaseInv, Sweep
  PROVE  Leased!Next
<1>1. QueueTypeOK /\ lapsed \in SUBSET inflight
  BY DEF LeaseInv, TypeOK, QueueTypeOK
<1>2. /\ Enqueued' = Enqueued \cup Survivors
      /\ DeadLettered' = DeadLettered \cup Exhausted(lapsed)
      /\ inflight' = inflight \ lapsed
      /\ Charge(lapsed)
  BY <1>1, SweepFacts DEF Sweep
<1>3. /\ Leased!Redeliverable(lapsed) = Survivors
      /\ lapsed \ Survivors = Exhausted(lapsed)
  BY <1>1, RedeliverableSurvivors DEF Survivors, Exhausted
<1>4. Leased!CountTry(lapsed) /\ Leased!Bury(lapsed)
  BY <1>2, <1>3 DEF Leased!CountTry, Charge, Leased!Bury
<1>5. Leased!GiveBack(lapsed)
  BY <1>1, <1>2, <1>3, <1>4 DEF Leased!GiveBack
<1>6. QED
  BY <1>1, <1>5 DEF Leased!Next

(* A claim gives back what has lapsed and delivers one task.               *)
LEMMA ClaimLeased ==
  ASSUME LeaseInv, NEW t \in Task, Claim(t)
  PROVE  Leased!Next
<1>1. /\ QueueTypeOK /\ lapsed \in SUBSET inflight
      /\ IsInjective(ready) /\ Enqueued \cap lapsed = {}
  BY DEF LeaseInv, TypeOK, QueueTypeOK, Leases
<1>2. /\ Enqueued' \cup {t} = Enqueued \cup Survivors
      /\ t \notin Enqueued'
      /\ DeadLettered' = DeadLettered \cup Exhausted(lapsed)
      /\ inflight' = (inflight \ lapsed) \cup {t}
      /\ Charge(lapsed)
  BY <1>1, ClaimFacts DEF Claim
<1>3. /\ Leased!Redeliverable(lapsed) = Survivors
      /\ lapsed \ Survivors = Exhausted(lapsed)
  BY <1>1, RedeliverableSurvivors DEF Survivors, Exhausted
<1>4. Leased!CountTry(lapsed) /\ Leased!Bury(lapsed)
  BY <1>2, <1>3 DEF Leased!CountTry, Charge, Leased!Bury
<1>5. Leased!Deliver(lapsed, t)
  BY <1>1, <1>2, <1>3, <1>4 DEF Leased!Deliver
<1>6. QED
  BY <1>1, <1>5 DEF Leased!Next

LEMMA FailLeased ==
  ASSUME LeaseInv, NEW t \in inflight, Fail(t)
  PROVE  Leased!Next
<1>1. QueueTypeOK /\ t \in Task /\ {t} \in SUBSET inflight /\ attempt[t] \in Nat
  BY DEF LeaseInv, TypeOK, QueueTypeOK
<1>2. inflight' = inflight \ {t} /\ Charge({t})
  BY DEF Fail, DropLease
<1>3. \/ /\ {t} = Exhausted({t})
         /\ DeadLettered' = DeadLettered \cup {t}
         /\ Enqueued' = Enqueued
      \/ /\ {} = Exhausted({t})
         /\ Enqueued' = Enqueued \cup {t}
         /\ DeadLettered' = DeadLettered
  <2>1. CASE /\ attempt[t] + 1 > MaxRedeliveries
             /\ DeadLettered' = DeadLettered \cup {t}
             /\ ready' = ready
    BY <2>1 DEF Exhausted, Enqueued
  <2>2. CASE /\ attempt[t] + 1 <= MaxRedeliveries
             /\ Enqueued' = Enqueued \cup {t}
             /\ dlq' = dlq
    BY <1>1, <2>2, MaxAssumption DEF Exhausted, DeadLettered
  <2>3. QED
    BY <1>1, <2>1, <2>2, FailFacts
<1>4. Leased!Redeliverable({t}) = {t} \ Exhausted({t})
  BY <1>1, RedeliverableSurvivors
<1>5. Leased!CountTry({t}) /\ Leased!Bury({t})
  BY <1>2, <1>3, <1>4 DEF Leased!CountTry, Charge, Leased!Bury
<1>6. Leased!GiveBack({t})
  BY <1>1, <1>2, <1>3, <1>4, <1>5 DEF Leased!GiveBack
<1>7. QED
  BY <1>1, <1>6 DEF Leased!Next

LEMMA WorkerStepLeased ==
  ASSUME LeaseInv, NEW w \in Worker, WorkerStep(w)
  PROVE  [Leased!Next]_Leased!vars
<1>0. pc[w] \in Busy => work[w] \in inflight /\ work[w] \in Task
  BY DEF LeaseInv, Leases, LeaseHeld, TypeOK, WorkerTypeOK
<1>1. CASE ClaimTask(w)
  BY <1>1, ClaimLeased DEF ClaimTask
<1>2. CASE FindNothing(w) \/ IdleExit(w)
  BY <1>2, SweepLeased DEF FindNothing, IdleExit, ClaimNone
<1>3. CASE AckTask(w)
  <2>1. Ack(work[w]) /\ work[w] \in inflight /\ work[w] \in Task
    BY <1>0, <1>3 DEF AckTask, Busy, Beating
  <2>2. Enqueued' = Enqueued /\ DeadLettered' = DeadLettered /\ attempt' = attempt
    BY <2>1 DEF Ack, Enqueued, DeadLettered
  <2>3. Leased!Complete(work[w])
    BY <2>1, <2>2 DEF Ack, DropLease, Leased!Complete
  <2>4. QED
    BY <2>1, <2>3 DEF Leased!Next
<1>4. CASE FailTask(w)
  <2>1. Fail(work[w]) /\ work[w] \in inflight
    BY <1>0, <1>4 DEF FailTask, Busy, Beating
  <2>2. QED
    BY <2>1, FailLeased
<1>5. CASE Heartbeat(w)
  <2>1. Seen' = Seen
    BY <1>5 DEF Heartbeat, Extend, Seen, Enqueued, DeadLettered
  <2>2. QED
    BY <2>1, UnseenStep
<1>6. CASE \/ Check(w) \/ ShowSkipped(w) \/ Start(w) \/ Publish(w)
           \/ ShowSuccess(w) \/ WriteFailure(w) \/ ShowFailed(w)
           \/ DieStarting(w) \/ Raise(w) \/ DieFailing(w)
  <2>1. UNCHANGED queueVars
    BY <1>6 DEF Check, ShowSkipped, Start, Publish, ShowSuccess, WriteFailure,
                ShowFailed, DieStarting, Raise, DieFailing
  <2>2. Seen' = Seen
    BY <2>1 DEF queueVars, Seen, Enqueued, DeadLettered
  <2>3. QED
    BY <2>2, UnseenStep
<1>7. QED
  BY <1>1, <1>2, <1>3, <1>4, <1>5, <1>6 DEF WorkerStep, WorkerProgress

LEMMA NextLeased == LeaseInv /\ [Next]_vars => [Leased!Next]_Leased!vars
<1> SUFFICES ASSUME LeaseInv, [Next]_vars PROVE [Leased!Next]_Leased!vars
  OBVIOUS
<1>1. ASSUME NEW t \in Task, Submit(t) PROVE [Leased!Next]_Leased!vars
  <2>1. Enqueue(t) /\ t \in todo
    BY <1>1 DEF Submit
  <2>2. t \notin Enqueued \cup inflight \cup DeadLettered
    BY <2>1 DEF LeaseInv, Lone, Owed
  <2>3. Enqueued' = Enqueued \cup {t}
    BY <2>1, EnqueueFacts DEF LeaseInv, TypeOK
  <2>4. UNCHANGED <<inflight, DeadLettered, attempt>>
    BY <2>1 DEF Enqueue, DeadLettered
  <2>5. Leased!Enqueue(t)
    BY <2>2, <2>3, <2>4 DEF Leased!Enqueue, Leased!Known
  <2>6. QED
    BY <2>5 DEF Leased!Next
<1>2. ASSUME NEW w \in Worker, WorkerStep(w) PROVE [Leased!Next]_Leased!vars
  BY <1>2, WorkerStepLeased
<1>3. CASE \/ ShowQueued
           \/ \E w \in Worker : Grow(w)
           \/ \E t \in Task : LeaseRunsOut(t)
           \/ UNCHANGED vars
  <2>1. UNCHANGED <<ready, inflight, dlq, attempt>>
    BY <1>3 DEF ShowQueued, Grow, LeaseRunsOut, LeaseLapses, DeadlinePasses, vars, queueVars
  <2>2. Seen' = Seen
    BY <2>1 DEF Seen, Enqueued, DeadLettered
  <2>3. QED
    BY <2>2, UnseenStep
<1>4. QED
  BY <1>1, <1>2, <1>3 DEF Next, ClientStep

(* Until a lease has run out under a live worker, the queue keeps what     *)
(* base.py promises: a claimed task is in nobody else's reach until its    *)
(* lease is given back, a task that comes back is charged one attempt and  *)
(* dead-lettered past the limit, and only an ack or a dead letter takes a  *)
(* task out (queue/base.py:10-31, queue/local.py:28-74).                   *)
THEOREM QueueIsLeased == Spec => ImplementsLeasedQueue
<1>1. Init => Leased!Init
  BY InitLeased
<1>2. SteadyInv /\ [Next]_vars => [stalled' \/ Leased!Next]_Leased!vars
  BY NextLeased, StalledForGood DEF SteadyInv
<1>3. QED
  BY <1>1, <1>2, LeaseHolds, PTL DEF Spec, ImplementsLeasedQueue
=============================================================================
