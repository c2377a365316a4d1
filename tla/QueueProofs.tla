----------------------------- MODULE QueueProofs -----------------------------
(***************************************************************************)
(* What the operations of LocalQueue and the steps of a worker thread do,  *)
(* for every set of tasks and every redelivery limit: the facts the proofs *)
(* about the worker pool and about the controller rest on.                 *)
(***************************************************************************)
EXTENDS Worker, SequenceProofs

-----------------------------------------------------------------------------
(* The operations.                                                         *)

Survivors == lapsed \ Exhausted(lapsed)

LEMMA FiniteSubset == ASSUME NEW S \in SUBSET Task PROVE IsFiniteSet(S)
BY TaskAssumption, FS_Subset

LEMMA SweptFacts ==
  ASSUME QueueTypeOK
  PROVE  /\ \A r \in SweptReady :
               /\ r \in Seq(Task)
               /\ ToSet(r) = Enqueued \cup Survivors
               /\ IsInjective(ready) /\ Enqueued \cap lapsed = {} => IsInjective(r)
         /\ \A d \in SweptDlq :
               /\ d \in Seq(Task)
               /\ ToSet(d) = DeadLettered \cup Exhausted(lapsed)
<1>1. /\ Survivors \in SUBSET Task
      /\ Exhausted(lapsed) \in SUBSET Task
      /\ ready \in Seq(Task) /\ dlq \in Seq(Task)
  BY DEF QueueTypeOK, Survivors, Exhausted
<1>2. IsFiniteSet(Survivors) /\ IsFiniteSet(Exhausted(lapsed))
  BY <1>1, FiniteSubset
<1>3. ASSUME NEW r \in SweptReady
      PROVE  /\ r \in Seq(Task)
             /\ ToSet(r) = Enqueued \cup Survivors
             /\ IsInjective(ready) /\ Enqueued \cap lapsed = {} => IsInjective(r)
  <2>1. PICK back \in SetToSeqs(Survivors) : r = ready \o back
    BY <1>3 DEF SweptReady, Survivors
  <2>2. back \in Seq(Survivors) /\ ToSet(back) = Survivors /\ IsInjective(back)
    BY <1>2, Enumeration
  <2>3. back \in Seq(Task)
    BY <1>1, <2>2, SeqMonotonic
  <2>4. Survivors \subseteq lapsed
    BY DEF Survivors
  <2>5. QED
    BY <1>1, <2>1, <2>2, <2>3, <2>4, ConcatSet DEF Enqueued
<1>4. ASSUME NEW d \in SweptDlq
      PROVE  d \in Seq(Task) /\ ToSet(d) = DeadLettered \cup Exhausted(lapsed)
  <2>1. PICK dead \in SetToSeqs(Exhausted(lapsed)) : d = dlq \o dead
    BY <1>4 DEF SweptDlq
  <2>2. dead \in Seq(Exhausted(lapsed)) /\ ToSet(dead) = Exhausted(lapsed)
    BY <1>2, Enumeration
  <2>3. dead \in Seq(Task)
    BY <1>1, <2>2, SeqMonotonic
  <2>4. QED
    BY <1>1, <2>1, <2>2, <2>3, ConcatSet DEF DeadLettered
<1>5. QED
  BY <1>3, <1>4

LEMMA ChargeType ==
  ASSUME QueueTypeOK, NEW S, Charge(S)
  PROVE  attempt' \in [Task -> Nat]
<1>1. \A t \in Task : attempt[t] + (IF t \in S THEN 1 ELSE 0) \in Nat
  BY DEF QueueTypeOK
<1>2. QED
  BY <1>1 DEF Charge

(* A claim hands out one visible or redelivered task; nothing else leaves  *)
(* the queue.                                                              *)
LEMMA ClaimFacts ==
  ASSUME QueueTypeOK, NEW t, Claim(t)
  PROVE  /\ QueueTypeOK'
         /\ t \in Task
         /\ Enqueued' \cup {t} = Enqueued \cup Survivors
         /\ DeadLettered' = DeadLettered \cup Exhausted(lapsed)
         /\ inflight' = (inflight \ lapsed) \cup {t}
         /\ IsInjective(ready) /\ Enqueued \cap lapsed = {}
              => IsInjective(ready') /\ t \notin Enqueued'
<1>1. PICK visible \in SweptReady :
         visible # <<>> /\ t = Head(visible) /\ ready' = Tail(visible)
  BY DEF Claim, TakeHead
<1>2. /\ visible \in Seq(Task)
      /\ ToSet(visible) = Enqueued \cup Survivors
      /\ IsInjective(ready) /\ Enqueued \cap lapsed = {} => IsInjective(visible)
  BY SweptFacts
<1>3. /\ t \in Task
      /\ ready' \in Seq(Task)
      /\ ToSet(visible) = {t} \cup ToSet(ready')
      /\ IsInjective(visible) => IsInjective(ready') /\ t \notin ToSet(ready')
  BY <1>1, <1>2, HeadTailSet
<1>4. /\ dlq' \in SweptDlq
      /\ inflight' = (inflight \ lapsed) \cup {t}
      /\ lapsed' = {}
      /\ Charge(lapsed)
  BY DEF Claim, TakeHead
<1>5. /\ dlq' \in Seq(Task)
      /\ ToSet(dlq') = DeadLettered \cup Exhausted(lapsed)
  BY <1>4, SweptFacts
<1>6. QueueTypeOK'
  BY <1>3, <1>4, <1>5, ChargeType DEF QueueTypeOK
<1>7. QED
  BY <1>2, <1>3, <1>4, <1>5, <1>6 DEF Enqueued, DeadLettered

LEMMA SweepFacts ==
  ASSUME QueueTypeOK, Sweep
  PROVE  /\ QueueTypeOK'
         /\ Enqueued' = Enqueued \cup Survivors
         /\ DeadLettered' = DeadLettered \cup Exhausted(lapsed)
         /\ inflight' = inflight \ lapsed
         /\ IsInjective(ready) /\ Enqueued \cap lapsed = {} => IsInjective(ready')
<1>1. /\ ready' \in SweptReady
      /\ dlq' \in SweptDlq
      /\ inflight' = inflight \ lapsed
      /\ lapsed' = {}
      /\ Charge(lapsed)
  BY DEF Sweep
<1>2. QueueTypeOK'
  BY <1>1, SweptFacts, ChargeType DEF QueueTypeOK
<1>3. QED
  BY <1>1, <1>2, SweptFacts DEF Enqueued, DeadLettered

LEMMA EnqueueFacts ==
  ASSUME QueueTypeOK, NEW t \in Task, Enqueue(t)
  PROVE  /\ QueueTypeOK'
         /\ Enqueued' = Enqueued \cup {t}
         /\ IsInjective(ready) /\ t \notin Enqueued => IsInjective(ready')
BY AppendSet DEF Enqueue, QueueTypeOK, Enqueued

LEMMA AckFacts ==
  ASSUME QueueTypeOK, NEW t, Ack(t)
  PROVE  QueueTypeOK'
BY DEF Ack, DropLease, QueueTypeOK

(* A failed task goes to exactly one of the two lists.                     *)
LEMMA FailFacts ==
  ASSUME QueueTypeOK, NEW t \in Task, Fail(t)
  PROVE  /\ QueueTypeOK'
         /\ \/ /\ attempt[t] + 1 > MaxRedeliveries
               /\ DeadLettered' = DeadLettered \cup {t}
               /\ ready' = ready
            \/ /\ attempt[t] + 1 <= MaxRedeliveries
               /\ Enqueued' = Enqueued \cup {t}
               /\ IsInjective(ready) /\ t \notin Enqueued => IsInjective(ready')
               /\ dlq' = dlq
<1>1. /\ inflight' \subseteq Task /\ lapsed' \subseteq inflight'
      /\ attempt' \in [Task -> Nat]
  BY ChargeType DEF Fail, DropLease, QueueTypeOK
<1>2. attempt[t] + 1 \in Nat
  BY DEF QueueTypeOK
<1>3. CASE t \in Exhausted({t}) /\ dlq' = Append(dlq, t) /\ UNCHANGED ready
  BY <1>1, <1>3, AppendSet DEF QueueTypeOK, DeadLettered, Exhausted
<1>4. CASE t \notin Exhausted({t}) /\ ready' = Append(ready, t) /\ UNCHANGED dlq
  <2>1. attempt[t] + 1 <= MaxRedeliveries
    BY <1>2, <1>4, MaxAssumption DEF Exhausted
  <2>2. QED
    BY <1>1, <1>4, <2>1, AppendSet DEF QueueTypeOK, Enqueued
<1>5. QED
  BY <1>3, <1>4 DEF Fail, PutBack

(* How often a task is in the dead-letter list.                            *)
LEMMA TimesType ==
  ASSUME QueueTypeOK
  PROVE  \A t : Times(dlq, t) \in Nat /\ (t \in DeadLettered <=> Times(dlq, t) > 0)
BY PlacesFinite DEF QueueTypeOK, DeadLettered

LEMMA SweptTimes ==
  ASSUME QueueTypeOK, NEW d \in SweptDlq, NEW t
  PROVE  Times(d, t) = Times(dlq, t) + IF t \in Exhausted(lapsed) THEN 1 ELSE 0
<1>1. Exhausted(lapsed) \in SUBSET Task /\ dlq \in Seq(Task)
  BY DEF QueueTypeOK, Exhausted
<1>2. IsFiniteSet(Exhausted(lapsed))
  BY <1>1, FiniteSubset
<1>3. PICK b \in SetToSeqs(Exhausted(lapsed)) : d = dlq \o b
  BY DEF SweptDlq
<1>4. QED
  BY <1>1, <1>2, <1>3, EnumerationTimes

-----------------------------------------------------------------------------
(* The steps of a worker thread.                                           *)

(* The places where a thread sits, and whether it has a task there.        *)
USE DEF Busy, Beating, Idling

(* A thread that goes on with its task, or changes between states without  *)
(* one, stays well typed; so does one that takes or drops a task.          *)
LEMMA GotoType ==
  ASSUME WorkerTypeOK, NEW w \in Worker, NEW l, Goto(w, l), work' = work,
         l \in {"off"} \cup Idling \cup Busy,
         l \in Busy <=> pc[w] \in Busy
  PROVE  /\ pc' \in [Worker -> {"off"} \cup Idling \cup Busy]
         /\ work' \in [Worker -> Task \cup {NoTask}]
         /\ \A v \in Worker : pc'[v] \in Busy <=> work'[v] \in Task
BY DEF WorkerTypeOK, Goto

LEMMA LeaveType ==
  ASSUME WorkerTypeOK, NEW w \in Worker, NEW l \in {"off"} \cup Idling, Leave(w, l)
  PROVE  /\ pc' \in [Worker -> {"off"} \cup Idling \cup Busy]
         /\ work' \in [Worker -> Task \cup {NoTask}]
         /\ \A v \in Worker : pc'[v] \in Busy <=> work'[v] \in Task
BY NoTaskAssumption DEF WorkerTypeOK, Leave, Goto

LEMMA WorkerStepType ==
  ASSUME QueueTypeOK, WorkerTypeOK, NEW w \in Worker, WorkerStep(w)
  PROVE  QueueTypeOK' /\ WorkerTypeOK'
<1>0. pc[w] \in Busy => work[w] \in Task
  BY DEF WorkerTypeOK
<1>1. CASE ClaimTask(w)
  <2>1. PICK t \in Task : Claim(t) /\ work' = [work EXCEPT ![w] = t]
    BY <1>1 DEF ClaimTask
  <2>2. QueueTypeOK'
    BY <2>1, ClaimFacts
  <2>3. WorkerTypeOK'
    BY <1>1, <2>1 DEF ClaimTask, Goto, WorkerTypeOK, storeVars
  <2>4. QED
    BY <2>2, <2>3
<1>2. CASE FindNothing(w)
  <2>1. QueueTypeOK'
    BY <1>2, SweepFacts DEF FindNothing, ClaimNone
  <2>2. WorkerTypeOK'
    BY <1>2, GotoType DEF FindNothing, WorkerTypeOK, storeVars
  <2>3. QED
    BY <2>1, <2>2
<1>3. CASE IdleExit(w)
  <2>1. QueueTypeOK'
    BY <1>3, SweepFacts DEF IdleExit, ClaimNone
  <2>2. WorkerTypeOK'
    BY <1>3, GotoType DEF IdleExit, WorkerTypeOK, storeVars
  <2>3. QED
    BY <2>1, <2>2
<1>4. CASE Check(w)
  BY <1>4, GotoType DEF Check, queueVars, storeVars, QueueTypeOK, WorkerTypeOK
<1>5. CASE ShowSkipped(w)
  BY <1>5, GotoType
     DEF ShowSkipped, Show, queueVars, storeVars, QueueTypeOK, WorkerTypeOK, TaskState
<1>6. CASE Start(w)
  BY <1>6, GotoType
     DEF Start, Show, queueVars, storeVars, QueueTypeOK, WorkerTypeOK, TaskState
<1>7. CASE DieStarting(w)
  BY <1>7, LeaveType
     DEF DieStarting, Show, queueVars, storeVars, QueueTypeOK, WorkerTypeOK, TaskState
<1>8. CASE Publish(w)
  BY <1>0, <1>8, GotoType DEF Publish, queueVars, QueueTypeOK, WorkerTypeOK
<1>9. CASE Raise(w)
  BY <1>9, GotoType DEF Raise, queueVars, storeVars, QueueTypeOK, WorkerTypeOK
<1>10. CASE ShowSuccess(w)
  BY <1>10, GotoType
     DEF ShowSuccess, Show, queueVars, storeVars, QueueTypeOK, WorkerTypeOK, TaskState
<1>11. CASE AckTask(w)
  BY <1>11, AckFacts, LeaveType DEF AckTask, storeVars, WorkerTypeOK
<1>12. CASE WriteFailure(w)
  BY <1>0, <1>12, GotoType DEF WriteFailure, queueVars, QueueTypeOK, WorkerTypeOK
<1>13. CASE DieFailing(w)
  BY <1>13, LeaveType DEF DieFailing, queueVars, storeVars, QueueTypeOK, WorkerTypeOK
<1>14. CASE ShowFailed(w)
  BY <1>14, GotoType
     DEF ShowFailed, Show, queueVars, storeVars, QueueTypeOK, WorkerTypeOK, TaskState
<1>15. CASE FailTask(w)
  BY <1>0, <1>15, FailFacts, LeaveType DEF FailTask, storeVars, WorkerTypeOK
<1>16. CASE Heartbeat(w)
  BY <1>16 DEF Heartbeat, Extend, workerVars, storeVars, QueueTypeOK, WorkerTypeOK
<1>17. QED
  BY <1>1, <1>2, <1>3, <1>4, <1>5, <1>6, <1>7, <1>8, <1>9, <1>10, <1>11, <1>12,
     <1>13, <1>14, <1>15, <1>16 DEF WorkerStep, WorkerProgress
-----------------------------------------------------------------------------
(* What leases guarantee while heartbeats keep them.                       *)

(* Where a worker is about to run its task, is running it, or has failed.  *)
Recomputing == {"start", "compute", "fail", "tell", "nack"}

LeaseHeld == \A w \in Worker : work[w] \in Task => work[w] \in inflight \ lapsed
HeldOnce ==
    \A v, w \in Worker : work[v] \in Task /\ work[v] = work[w] => v = w
NotRedone == \A w \in Worker : pc[w] \in Recomputing => ~Finished(work[w])

(* A task that this run has marked done is still in the queue only while   *)
(* its worker is about to acknowledge it, and one that is done is in       *)
(* flight only while somebody has it.                                      *)
Leaving(t) == \E w \in Worker : work[w] = t /\ pc[w] \in {"report", "ack"}
DoneLeaves ==
    /\ \A t \in ran : t \in Enqueued \cup inflight => Leaving(t)
    /\ \A t \in inflight : Finished(t) => \E w \in Worker : work[w] = t

(* A task is visible once or in flight, and in flight for one worker.      *)
Leases ==
    /\ IsInjective(ready)
    /\ Enqueued \cap inflight = {}
    /\ LeaseHeld
    /\ HeldOnce
    /\ NotRedone
    /\ DoneLeaves

(* What a step may change that is not the controller's: it brings no task  *)
(* into the queue, marks what is in flight, shows what is in flight, and   *)
(* dead-letters what was in flight, is not any more, and is not done.      *)
Dies(t) ==
    /\ Times(dlq', t) = Times(dlq, t) + 1
    /\ t \in inflight
    /\ t \notin (Enqueued \cup inflight)'
    /\ ~Finished(t)'
Carried ==
    /\ (Enqueued \cup inflight)' \subseteq Enqueued \cup inflight
    /\ prior' = prior
    /\ ran \subseteq ran'
    /\ ran' \subseteq ran \cup inflight'
    /\ \A t \in Task : Times(dlq', t) = Times(dlq, t) \/ Dies(t)
Moved == Carried /\ \A t \in Task : shown'[t] = shown[t] \/ t \in inflight'

(* What has lapsed nobody has, and is not done.                            *)
LEMMA LapsedFacts ==
  ASSUME QueueTypeOK, Leases
  PROVE  /\ \A w \in Worker : work[w] \notin lapsed
         /\ \A t \in lapsed : ~Finished(t) /\ t \notin ran
<1>1. \A w \in Worker : work[w] \notin lapsed
  BY DEF QueueTypeOK, Leases, LeaseHeld
<1>2. \A t \in lapsed : ~Finished(t)
  BY <1>1 DEF QueueTypeOK, Leases, DoneLeaves
<1>3. QED
  BY <1>1, <1>2 DEF Finished

(* The sweep, with a claim after it (got = {t}) or without (got = {}).     *)
LEMMA SweptLeases ==
  ASSUME QueueTypeOK, Leases, NEW got,
         Enqueued' \cup got = Enqueued \cup Survivors,
         got \cap Enqueued' = {},
         inflight' = (inflight \ lapsed) \cup got,
         lapsed' = {},
         dlq' \in SweptDlq,
         IsInjective(ready'),
         UNCHANGED <<storeVars, shown>>
  PROVE  /\ Moved
         /\ (Enqueued \cap inflight)' = {}
         /\ \A t \in ran : t \in (Enqueued \cup inflight)' => Leaving(t)
         /\ \A w \in Worker : work[w] \in Task => work[w] \in inflight'
         /\ \A w \in Worker : work[w] \notin got
<1>1. /\ Survivors \cap Exhausted(lapsed) = {}
      /\ Survivors \cup Exhausted(lapsed) = lapsed
      /\ lapsed \subseteq inflight /\ inflight \subseteq Task
  BY DEF Survivors, Exhausted, QueueTypeOK
<1>2. Enqueued \cap inflight = {}
  BY DEF Leases
<1>3. (Enqueued \cup inflight)' \subseteq Enqueued \cup inflight
  BY <1>1
<1>4. \A t \in Exhausted(lapsed) : t \notin (Enqueued \cup inflight)'
  BY <1>1, <1>2
<1>5. ASSUME NEW t \in Task
      PROVE  Times(dlq', t) = Times(dlq, t) \/ Dies(t)
  <2>1. Times(dlq', t) = Times(dlq, t) + IF t \in Exhausted(lapsed) THEN 1 ELSE 0
    BY SweptTimes
  <2>2. Times(dlq, t) \in Nat
    BY TimesType
  <2>3. CASE t \in Exhausted(lapsed)
    <3>1. ~Finished(t)'
      BY <1>1, <2>3, LapsedFacts DEF Finished, storeVars
    <3>2. t \in inflight
      BY <1>1, <2>3
    <3>3. Times(dlq', t) = Times(dlq, t) + 1
      BY <2>1, <2>3
    <3>4. QED
      BY <1>4, <2>3, <3>1, <3>2, <3>3 DEF Dies
  <2>4. CASE t \notin Exhausted(lapsed)
    BY <2>1, <2>2, <2>4
  <2>5. QED
    BY <2>3, <2>4
<1>6. Moved
  BY <1>3, <1>5 DEF Moved, Carried, storeVars
<1>7. (Enqueued \cap inflight)' = {}
  BY <1>1, <1>2
<1>8. \A t \in ran : t \in (Enqueued \cup inflight)' => Leaving(t)
  BY <1>3 DEF Leases, DoneLeaves
<1>9. \A w \in Worker : work[w] \in Task => work[w] \in inflight'
  BY DEF Leases, LeaseHeld
<1>10. ASSUME NEW w \in Worker, work[w] \in got PROVE FALSE
  <2>1. work[w] \notin lapsed
    BY LapsedFacts
  <2>2. work[w] \in Enqueued
    BY <1>1, <1>10, <2>1
  <2>3. work[w] \in Task
    BY <2>2, ElementOfSeq DEF Enqueued, ToSet, QueueTypeOK
  <2>4. QED
    BY <1>2, <2>2, <2>3 DEF Leases, LeaseHeld
<1>11. QED
  BY <1>6, <1>7, <1>8, <1>9, <1>10

(* A thread that goes on with its task.                                    *)
LEMMA MovedAlong ==
  ASSUME QueueTypeOK, WorkerTypeOK, Leases, UNCHANGED <<queueVars, work, prior, ran>>,
         NEW w \in Worker, NEW l, Goto(w, l), work[w] \in Task,
         pc[w] \in {"report", "ack"} => l \in {"report", "ack"},
         l \in Recomputing => ~Finished(work[w]),
         \A t \in Task \ {work[w]} : shown'[t] = shown[t]
  PROVE  Leases' /\ Moved
<1>1. /\ UNCHANGED <<ready, inflight, lapsed, dlq>>
      /\ Enqueued' = Enqueued
  BY DEF queueVars, Enqueued
<1>2. pc'[w] = l /\ \A v \in Worker \ {w} : pc'[v] = pc[v]
  BY DEF Goto, WorkerTypeOK
<1>3. \A t : Finished(t)' <=> Finished(t)
  BY DEF Finished
<1>4. \A t : Leaving(t) => Leaving(t)'
  BY <1>2 DEF Leaving
<1>5. IsInjective(ready') /\ (Enqueued \cap inflight)' = {} /\ LeaseHeld' /\ HeldOnce'
  BY <1>1 DEF Leases, LeaseHeld, HeldOnce
<1>6. NotRedone'
  BY <1>2, <1>3 DEF Leases, NotRedone
<1>7. DoneLeaves'
  BY <1>1, <1>3, <1>4 DEF Leases, DoneLeaves
<1>8. work[w] \in inflight'
  BY <1>1 DEF Leases, LeaseHeld
<1>9. Moved
  BY <1>1, <1>8 DEF Moved, Carried
<1>10. QED
  BY <1>5, <1>6, <1>7, <1>9 DEF Leases

(* A thread that gives up its task, which leaves the queue or comes back   *)
(* to it, or dies and leaves it in flight.                                 *)
LEMMA LetGo ==
  ASSUME QueueTypeOK, WorkerTypeOK, Leases, UNCHANGED <<prior, ran>>,
         NEW w \in Worker, NEW t \in Task, t = work[w],
         NEW l \in {"off", "poll"}, Leave(w, l),
         IsInjective(ready'), (Enqueued \cap inflight)' = {},
         inflight \ {t} \subseteq inflight', lapsed' \subseteq lapsed,
         (Enqueued \cup inflight)' \subseteq Enqueued \cup inflight,
         inflight' \subseteq inflight,
         t \in ran => t \notin (Enqueued \cup inflight)',
         t \in inflight' => ~Finished(t),
         \A u \in Task : Times(dlq', u) = Times(dlq, u) \/ Dies(u),
         \A u \in Task : shown'[u] = shown[u] \/ u \in inflight'
  PROVE  Leases' /\ Moved
<1>1. /\ work'[w] = NoTask /\ pc'[w] = l
      /\ \A v \in Worker \ {w} : work'[v] = work[v] /\ pc'[v] = pc[v]
  BY DEF Leave, Goto, WorkerTypeOK
<1>2. NoTask \notin Task
  BY NoTaskAssumption
<1>3. \A v \in Worker \ {w} : work[v] # t
  BY DEF Leases, HeldOnce
<1>4. \A u : Finished(u)' <=> Finished(u)
  BY DEF Finished
<1>5. LeaseHeld' /\ HeldOnce'
  BY <1>1, <1>2, <1>3 DEF Leases, LeaseHeld, HeldOnce
<1>6. NotRedone'
  BY <1>1, <1>4 DEF Leases, NotRedone, Recomputing
<1>7. ASSUME NEW u \in ran', u \in (Enqueued \cup inflight)'
      PROVE  Leaving(u)'
  <2>1. u # t /\ Leaving(u)
    BY <1>7 DEF Leases, DoneLeaves
  <2>2. PICK v \in Worker : work[v] = u /\ pc[v] \in {"report", "ack"}
    BY <2>1 DEF Leaving
  <2>3. v # w
    BY <2>1, <2>2
  <2>4. QED
    BY <1>1, <2>2, <2>3 DEF Leaving
<1>8. ASSUME NEW u \in inflight', Finished(u)'
      PROVE  \E v \in Worker : work'[v] = u
  <2>1. u # t /\ Finished(u) /\ u \in inflight
    BY <1>4, <1>8
  <2>2. PICK v \in Worker : work[v] = u
    BY <2>1 DEF Leases, DoneLeaves
  <2>3. v # w
    BY <2>1, <2>2
  <2>4. QED
    BY <1>1, <2>2, <2>3
<1>9. DoneLeaves'
  BY <1>7, <1>8 DEF DoneLeaves
<1>10. Moved
  BY DEF Moved, Carried
<1>11. QED
  BY <1>5, <1>6, <1>9, <1>10 DEF Leases

LEMMA ClaimLeases ==
  ASSUME QueueTypeOK, WorkerTypeOK, Leases, NEW w \in Worker, ClaimTask(w)
  PROVE  Leases' /\ Moved
<1>1. PICK t \in Task : Claim(t) /\ work' = [work EXCEPT ![w] = t]
  BY DEF ClaimTask
<1>2. /\ pc[w] \in Idling /\ Goto(w, "check")
      /\ UNCHANGED <<storeVars, shown>>
      /\ lapsed' = {} /\ dlq' \in SweptDlq
  BY <1>1 DEF ClaimTask, Claim, TakeHead
<1>3. /\ Enqueued' \cup {t} = Enqueued \cup Survivors
      /\ inflight' = (inflight \ lapsed) \cup {t}
      /\ IsInjective(ready') /\ t \notin Enqueued'
  <2>1. Enqueued \cap lapsed = {} /\ IsInjective(ready)
    BY DEF Leases, QueueTypeOK
  <2>2. QED
    BY <1>1, <2>1, ClaimFacts
<1>4. /\ Moved
      /\ (Enqueued \cap inflight)' = {}
      /\ \A u \in ran : u \in (Enqueued \cup inflight)' => Leaving(u)
      /\ \A v \in Worker : work[v] \in Task => work[v] \in inflight'
      /\ \A v \in Worker : work[v] \notin {t}
  BY <1>2, <1>3, SweptLeases
<1>5. /\ work'[w] = t /\ pc'[w] = "check" /\ work[w] \notin Task
      /\ \A v \in Worker \ {w} : work'[v] = work[v] /\ pc'[v] = pc[v]
  BY <1>1, <1>2 DEF WorkerTypeOK, Goto
<1>6. LeaseHeld' /\ HeldOnce'
  BY <1>2, <1>3, <1>4, <1>5 DEF Leases, LeaseHeld, HeldOnce
<1>7. \A u : Finished(u)' <=> Finished(u)
  BY <1>2 DEF Finished, storeVars
<1>8. NotRedone'
  BY <1>5, <1>7 DEF Leases, NotRedone, Recomputing
<1>9. ASSUME NEW u \in ran', u \in (Enqueued \cup inflight)'
      PROVE  Leaving(u)'
  <2>1. Leaving(u)
    BY <1>2, <1>4, <1>9 DEF storeVars
  <2>2. PICK v \in Worker : work[v] = u /\ pc[v] \in {"report", "ack"}
    BY <2>1 DEF Leaving
  <2>3. v # w
    BY <1>2, <2>2
  <2>4. QED
    BY <1>5, <2>2, <2>3 DEF Leaving
<1>10. ASSUME NEW u \in inflight', Finished(u)', u # t
       PROVE  \E v \in Worker : work'[v] = u
  <2>1. u \in inflight /\ u \in Task
    BY <1>3, <1>10 DEF QueueTypeOK
  <2>2. PICK v \in Worker : work[v] = u
    BY <1>7, <1>10, <2>1 DEF Leases, DoneLeaves
  <2>3. v # w
    BY <1>5, <2>1, <2>2
  <2>4. QED
    BY <1>5, <2>2, <2>3
<1>11. DoneLeaves'
  BY <1>5, <1>9, <1>10 DEF DoneLeaves
<1>12. QED
  BY <1>3, <1>4, <1>6, <1>8, <1>11 DEF Leases

(* A sweep by whoever asks for a task or for the depth.                    *)
LEMMA SweepLeases ==
  ASSUME QueueTypeOK, WorkerTypeOK, Leases, Sweep,
         UNCHANGED <<work, storeVars, shown>>,
         \A w \in Worker : pc'[w] = pc[w] \/ (pc[w] \in Idling /\ pc'[w] \in {"off", "idle"})
  PROVE  Leases' /\ Moved
<1>1. /\ Enqueued' = Enqueued \cup Survivors
      /\ inflight' = inflight \ lapsed
      /\ IsInjective(ready')
      /\ lapsed' = {} /\ dlq' \in SweptDlq
  <2>1. Enqueued \cap lapsed = {} /\ IsInjective(ready)
    BY DEF Leases, QueueTypeOK
  <2>2. QED
    BY <2>1, SweepFacts DEF Sweep
<1>2. /\ Moved
      /\ (Enqueued \cap inflight)' = {}
      /\ \A u \in ran : u \in (Enqueued \cup inflight)' => Leaving(u)
      /\ \A v \in Worker : work[v] \in Task => work[v] \in inflight'
  BY <1>1, SweptLeases
<1>3. \A u : Finished(u)' <=> Finished(u)
  BY DEF Finished, storeVars
<1>4. \A u : Leaving(u) => Leaving(u)'
  BY DEF Leaving
<1>5. LeaseHeld' /\ HeldOnce' /\ NotRedone'
  BY <1>1, <1>2, <1>3 DEF Leases, LeaseHeld, HeldOnce, NotRedone, Recomputing
<1>6. DoneLeaves'
  BY <1>1, <1>2, <1>3, <1>4 DEF Leases, DoneLeaves, storeVars
<1>7. QED
  BY <1>1, <1>2, <1>5, <1>6 DEF Leases

LEMMA PublishLeases ==
  ASSUME QueueTypeOK, WorkerTypeOK, Leases, NEW w \in Worker, Publish(w)
  PROVE  Leases' /\ Moved
<1>1. /\ UNCHANGED <<ready, inflight, lapsed, dlq, work, prior, shown>>
      /\ ran' = ran \cup {work[w]}
      /\ Enqueued' = Enqueued
      /\ work[w] \in Task
  BY DEF Publish, queueVars, Enqueued, WorkerTypeOK
<1>2. /\ pc[w] = "compute" /\ pc'[w] = "report"
      /\ \A v \in Worker \ {w} : pc'[v] = pc[v]
  BY DEF Publish, Goto, WorkerTypeOK
<1>3. \A v \in Worker \ {w} : work[v] # work[w]
  BY <1>1 DEF Leases, HeldOnce
<1>4. IsInjective(ready') /\ (Enqueued \cap inflight)' = {} /\ LeaseHeld' /\ HeldOnce'
  BY <1>1 DEF Leases, LeaseHeld, HeldOnce
<1>5. NotRedone'
  BY <1>1, <1>2, <1>3 DEF Leases, NotRedone, Recomputing, Finished
<1>6. ASSUME NEW u \in ran', u \in (Enqueued \cup inflight)'
      PROVE  Leaving(u)'
  BY <1>1, <1>2, <1>6 DEF Leases, DoneLeaves, Leaving
<1>7. ASSUME NEW u \in inflight', Finished(u)'
      PROVE  \E v \in Worker : work'[v] = u
  BY <1>1, <1>7 DEF Leases, DoneLeaves, Finished
<1>8. DoneLeaves'
  BY <1>6, <1>7 DEF DoneLeaves
<1>9. work[w] \in inflight
  BY <1>1 DEF Leases, LeaseHeld
<1>10. Moved
  BY <1>1, <1>9 DEF Moved, Carried
<1>11. QED
  BY <1>4, <1>5, <1>8, <1>10 DEF Leases

(* A thread gives its task back only when it is done with it, or unable to.*)
LEMMA GivenBackLeases ==
  ASSUME QueueTypeOK, WorkerTypeOK, Leases, NEW w \in Worker,
         AckTask(w) \/ FailTask(w) \/ DieStarting(w) \/ DieFailing(w)
  PROVE  Leases' /\ Moved
<1>0. PICK t \in Task : t = work[w]
  BY DEF AckTask, FailTask, DieStarting, DieFailing, WorkerTypeOK
<1>1. /\ t \in inflight /\ t \notin Enqueued
      /\ UNCHANGED <<prior, ran>>
      /\ IsInjective(ready) /\ Enqueued \cap inflight = {}
  BY <1>0 DEF AckTask, FailTask, DieStarting, DieFailing, Leases, LeaseHeld, storeVars
<1>2. CASE AckTask(w)
  <2>1. /\ UNCHANGED <<ready, dlq, shown>> /\ inflight' = inflight \ {t}
        /\ lapsed' = lapsed \ {t}
        /\ Leave(w, "poll")
    BY <1>0, <1>2 DEF AckTask, Ack, DropLease
  <2>2. Enqueued' = Enqueued
    BY <2>1 DEF Enqueued
  <2>3. (Enqueued \cap inflight)' = {} /\ t \notin (Enqueued \cup inflight)'
    BY <1>0, <1>1, <2>1, <2>2
  <2>4. QED
    BY <1>0, <1>1, <2>1, <2>2, <2>3, LetGo
<1>3. CASE DieStarting(w) \/ DieFailing(w)
  <2>1. /\ UNCHANGED <<ready, inflight, lapsed, dlq>>
        /\ Leave(w, "off")
        /\ \A u \in Task \ {t} : shown'[u] = shown[u]
        /\ pc[w] \in {"start", "fail"}
    BY <1>0, <1>3 DEF DieStarting, DieFailing, queueVars, Show, WorkerTypeOK
  <2>2. Enqueued' = Enqueued
    BY <2>1 DEF Enqueued
  <2>3. ~Finished(t)
    BY <1>0, <2>1 DEF Leases, NotRedone, Recomputing
  <2>4. t \notin ran
    BY <2>3 DEF Finished
  <2>5. \A u \in Task : shown'[u] = shown[u] \/ u \in inflight'
    BY <1>0, <1>1, <2>1
  <2>6. (Enqueued \cap inflight)' = {}
    BY <1>0, <1>1, <2>1, <2>2
  <2>7. QED
    BY <1>0, <1>1, <2>1, <2>2, <2>3, <2>4, <2>5, <2>6, LetGo
<1>4. CASE FailTask(w)
  <2>1. /\ Fail(t) /\ inflight' = inflight \ {t} /\ lapsed' = lapsed \ {t}
        /\ Leave(w, "poll")
        /\ shown' = shown
        /\ pc[w] = "nack"
    BY <1>0, <1>4 DEF FailTask, Fail, DropLease
  <2>2. ~Finished(t)
    BY <1>0, <2>1 DEF Leases, NotRedone, Recomputing
  <2>3. t \notin ran /\ ~Finished(t)'
    BY <1>1, <2>2 DEF Finished
  <2>4. CASE dlq' = dlq /\ Enqueued' = Enqueued \cup {t} /\ IsInjective(ready')
    <3>1. (Enqueued \cap inflight)' = {}
      BY <1>0, <1>1, <2>1, <2>4
    <3>2. QED
      BY <1>0, <1>1, <2>1, <2>3, <2>4, <3>1, LetGo
  <2>5. CASE dlq' = Append(dlq, t) /\ ready' = ready
    <3>1. Enqueued' = Enqueued
      BY <2>5 DEF Enqueued
    <3>2. (Enqueued \cap inflight)' = {} /\ t \notin (Enqueued \cup inflight)'
      BY <1>0, <1>1, <2>1, <3>1
    <3>3. ASSUME NEW u \in Task PROVE Times(dlq', u) = Times(dlq, u) \/ Dies(u)
      <4>1. Times(dlq', u) = Times(dlq, u) + IF u = t THEN 1 ELSE 0
        BY <1>1, <2>5, AppendTimes DEF QueueTypeOK
      <4>2. Times(dlq, u) \in Nat
        BY TimesType
      <4>3. QED
        BY <1>1, <2>3, <3>2, <4>1, <4>2 DEF Dies
    <3>4. QED
      BY <1>0, <1>1, <2>1, <2>3, <2>5, <3>1, <3>2, <3>3, LetGo
  <2>6. QED
    BY <1>0, <1>1, <2>1, <2>4, <2>5, FailFacts DEF Fail, PutBack
<1>5. QED
  BY <1>2, <1>3, <1>4

LEMMA WorkerStepLeases ==
  ASSUME QueueTypeOK, WorkerTypeOK, Leases, NEW w \in Worker, WorkerStep(w)
  PROVE  Leases' /\ Moved
<1>0. pc[w] \in Busy => work[w] \in Task
  BY DEF WorkerTypeOK
<1>1. CASE ClaimTask(w)
  BY <1>1, ClaimLeases
<1>2. CASE FindNothing(w) \/ IdleExit(w)
  <2>1. /\ Sweep /\ UNCHANGED <<work, storeVars, shown>>
        /\ pc[w] \in Idling
        /\ Goto(w, "idle") \/ Goto(w, "off")
    BY <1>2 DEF FindNothing, IdleExit, ClaimNone
  <2>2. \A v \in Worker :
           pc'[v] = pc[v] \/ (pc[v] \in Idling /\ pc'[v] \in {"off", "idle"})
    BY <2>1 DEF Goto, WorkerTypeOK
  <2>3. QED
    BY <2>1, <2>2, SweepLeases
<1>3. CASE Check(w)
  <2>1. /\ UNCHANGED <<queueVars, work, prior, ran, shown>>
        /\ pc[w] = "check" /\ work[w] \in Task
        /\ \/ Goto(w, "skip")
           \/ Goto(w, "start") /\ (Forced \/ ~HasResult(work[w]))
    BY <1>0, <1>3 DEF Check, storeVars
  <2>2. work[w] \notin ran
    <3>1. SUFFICES ASSUME work[w] \in ran PROVE FALSE
      OBVIOUS
    <3>2. work[w] \in inflight
      BY <2>1 DEF Leases, LeaseHeld
    <3>3. PICK v \in Worker : work[v] = work[w] /\ pc[v] \in {"report", "ack"}
      BY <3>1, <3>2 DEF Leases, DoneLeaves, Leaving
    <3>4. v = w
      BY <2>1, <3>3 DEF Leases, HeldOnce
    <3>5. QED
      BY <2>1, <3>3, <3>4
  <2>3. CASE Goto(w, "skip")
    BY <2>1, <2>3, MovedAlong DEF Recomputing
  <2>4. CASE Goto(w, "start") /\ (Forced \/ ~HasResult(work[w]))
    <3>1. ~Finished(work[w])
      BY <2>2, <2>4 DEF Finished, HasResult
    <3>2. QED
      BY <2>1, <2>4, <3>1, MovedAlong
  <2>5. QED
    BY <2>1, <2>3, <2>4
<1>4. CASE ShowSkipped(w) \/ ShowSuccess(w)
  <2>1. /\ UNCHANGED <<queueVars, work, prior, ran>>
        /\ work[w] \in Task
        /\ \/ pc[w] = "skip" /\ Goto(w, "skipAck")
           \/ Goto(w, "ack")
        /\ \A t \in Task \ {work[w]} : shown'[t] = shown[t]
    BY <1>0, <1>4 DEF ShowSkipped, ShowSuccess, storeVars, Show, WorkerTypeOK
  <2>2. QED
    BY <2>1, MovedAlong DEF Recomputing
<1>5. CASE Start(w) \/ ShowFailed(w) \/ Raise(w) \/ WriteFailure(w)
  <2>1. /\ UNCHANGED <<queueVars, work, prior, ran>>
        /\ work[w] \in Task
        /\ pc[w] \in Recomputing
        /\ \E l \in {"compute", "nack", "fail", "tell"} : Goto(w, l)
        /\ \A t \in Task \ {work[w]} : shown'[t] = shown[t]
    BY <1>0, <1>5
       DEF Start, ShowFailed, Raise, WriteFailure, storeVars, Show, WorkerTypeOK, Recomputing
  <2>2. ~Finished(work[w])
    BY <2>1 DEF Leases, NotRedone
  <2>3. pc[w] \notin {"report", "ack"}
    BY <2>1 DEF Recomputing
  <2>4. QED
    BY <2>1, <2>2, <2>3, MovedAlong
<1>6. CASE Publish(w)
  BY <1>6, PublishLeases
<1>7. CASE AckTask(w) \/ FailTask(w) \/ DieStarting(w) \/ DieFailing(w)
  BY <1>7, GivenBackLeases
<1>8. CASE Heartbeat(w)
  <2>1. /\ UNCHANGED <<ready, inflight, dlq, pc, work, prior, ran, shown>>
        /\ lapsed' \subseteq lapsed
        /\ Enqueued' = Enqueued
    BY <1>8 DEF Heartbeat, Extend, workerVars, storeVars, Enqueued
  <2>2. Leases'
    BY <2>1 DEF Leases, LeaseHeld, HeldOnce, NotRedone, DoneLeaves, Leaving, Finished
  <2>3. QED
    BY <2>1, <2>2 DEF Moved, Carried
<1>9. QED
  BY <1>1, <1>2, <1>3, <1>4, <1>5, <1>6, <1>7, <1>8 DEF WorkerStep, WorkerProgress

(* A step that leaves the queue and the held tasks alone; so does a lease  *)
(* that lapses while nobody runs its task, and a spawn.                    *)
LEMMA UndisturbedLeases ==
  ASSUME QueueTypeOK, Leases,
         UNCHANGED <<ready, inflight, work, prior, ran>>,
         \A w \in Worker : pc'[w] = pc[w] \/ (pc[w] = "off" /\ pc'[w] = "poll"),
         \A w \in Worker : work[w] \in Task => work[w] \notin lapsed'
  PROVE  Leases'
<1>1. Enqueued' = Enqueued
  BY DEF Enqueued
<1>2. \A t : (Finished(t)' <=> Finished(t)) /\ (Leaving(t) => Leaving(t)')
  BY DEF Finished, Leaving
<1>3. LeaseHeld' /\ HeldOnce' /\ NotRedone'
  BY <1>2 DEF Leases, LeaseHeld, HeldOnce, NotRedone, Recomputing
<1>4. DoneLeaves'
  BY <1>1, <1>2 DEF Leases, DoneLeaves
<1>5. QED
  BY <1>1, <1>3, <1>4 DEF Leases

LEMMA LapseLeases ==
  ASSUME QueueTypeOK, WorkerTypeOK, Leases, NEW t \in Task, LeaseLapses(t),
         Running(t) = {}
  PROVE  Leases' /\ Moved
<1>1. /\ Running(t) = {} /\ lapsed' = lapsed \cup {t}
      /\ UNCHANGED <<ready, inflight, dlq, pc, work, prior, ran, shown>>
      /\ Enqueued' = Enqueued
  BY DEF LeaseLapses, DeadlinePasses, workerVars, storeVars, Enqueued
<1>2. \A w \in Worker : work[w] \in Task => work[w] \notin lapsed'
  BY <1>1 DEF Running, Leases, LeaseHeld
<1>3. Leases'
  BY <1>1, <1>2, UndisturbedLeases
<1>4. QED
  BY <1>1, <1>3 DEF Moved, Carried

(* Handing a task to the queue that is not there, and not done in this run.*)
LEMMA EnqueueLeases ==
  ASSUME QueueTypeOK, Leases, NEW t \in Task, Enqueue(t),
         t \notin Enqueued \cup inflight, t \notin ran,
         UNCHANGED <<pc, work, prior, ran>>
  PROVE  Leases'
<1>1. /\ Enqueued' = Enqueued \cup {t} /\ IsInjective(ready')
      /\ UNCHANGED <<inflight, lapsed>>
  BY EnqueueFacts DEF Enqueue, Leases
<1>2. \A u : (Finished(u)' <=> Finished(u)) /\ (Leaving(u) => Leaving(u)')
  BY DEF Finished, Leaving
<1>3. LeaseHeld' /\ HeldOnce' /\ NotRedone'
  BY <1>1, <1>2 DEF Leases, LeaseHeld, HeldOnce, NotRedone, Recomputing
<1>4. DoneLeaves'
  BY <1>1, <1>2 DEF Leases, DoneLeaves
<1>5. QED
  BY <1>1, <1>3, <1>4 DEF Leases
=============================================================================
