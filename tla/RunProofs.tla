----------------------------- MODULE RunProofs -----------------------------
(***************************************************************************)
(* Proofs about StageRun and Events.                                       *)
(*                                                                         *)
(* The controller of StageRun, whatever the heartbeats do, whatever is      *)
(* retried, split or skipped, and with or without force: no chunk that a    *)
(* stage waits for drops out of sight, and a stage that returns has every   *)
(* chunk of its manifest.  While heartbeats are prompt, the manifest stays  *)
(* exact, the smoke test gates the stage, and stages keep apart.           *)
(*                                                                         *)
(* Every behaviour of Events is one of StageRun; while heartbeats are       *)
(* prompt the events keep the subscribers in step with the snapshot; and    *)
(* run_done is the last event and announces all.                           *)
(***************************************************************************)
EXTENDS Events, QueueProofs

USE DEF Busy, Beating, Idling

-----------------------------------------------------------------------------
(* After the purge a task is still dead-lettered if it came back more often*)
(* than it was handled.                                                    *)
LEMMA LettersLeftFacts ==
  ASSUME dlq \in Seq(Task), batch \in Seq(Task)
  PROVE  /\ Pick(dlq, LettersLeft) \in Seq(Task)
         /\ \A t \in Task : Times(batch, t) < Times(dlq, t)
                              => t \in ToSet(Pick(dlq, LettersLeft))
<1>1. LettersLeft \in SUBSET DOMAIN dlq
  BY DEF LettersLeft
<1>2. ASSUME NEW t \in Task, Times(batch, t) < Times(dlq, t)
      PROVE  \E i \in LettersLeft : t = dlq[i]
  <2> DEFINE P == Places(dlq, t)
             c == Cardinality(P)
             i == Nth(P, c)
  <2>1. Len(dlq) \in Nat /\ DOMAIN dlq = 1 .. Len(dlq)
    BY LenProperties
  <2>2. Times(batch, t) \in Nat /\ c \in Nat /\ c > 0
    BY <1>2, PlacesFinite DEF Times
  <2>3. P \in SUBSET (1 .. Len(dlq)) /\ IsFiniteSet(P)
    BY <2>1, PlacesFinite DEF Places
  <2>4. i \in P /\ Cardinality({j \in P : j <= i}) = c
    <3>1. c \in 1 .. c
      BY <2>2
    <3>2. QED
      BY <2>1, <2>3, <3>1, NthFacts
  <2>5. {j \in P : j <= i} = P
    BY <2>3, <2>4, FS_Subset
  <2>6. i \in DOMAIN dlq /\ dlq[i] = t
    BY <2>4 DEF Places
  <2>7. {j \in 1 .. i : dlq[j] = dlq[i]} = P
    <3> HIDE DEF i
    <3>1. ASSUME NEW j \in P PROVE j \in 1 .. i /\ dlq[j] = t
      <4>1. j \in 1 .. Len(dlq) /\ dlq[j] = t /\ j <= i
        BY <2>1, <2>5 DEF Places
      <4>2. QED
        BY <2>1, <2>6, <4>1
    <3>2. ASSUME NEW j \in 1 .. i, dlq[j] = t PROVE j \in P
      BY <2>1, <2>6, <3>2 DEF Places
    <3>3. QED
      BY <2>6, <3>1, <3>2
  <2>8. {k \in DOMAIN batch : batch[k] = dlq[i]} = Places(batch, t)
    BY <2>6 DEF Places
  <2>9. i \in LettersLeft
    BY <1>2, <2>6, <2>7, <2>8 DEF LettersLeft, Times
  <2>10. QED
    BY <2>6, <2>9
<1>3. QED
  BY <1>1, <1>2, PickFacts

-----------------------------------------------------------------------------
(* The inductive invariant.                                                *)

(* A thread only gets to its ack with a task that is marked done.          *)
MarkedBeforeAck ==
    \A w \in Worker :
        pc[w] \in {"skip", "skipAck", "report", "ack"} => HasResult(work[w])

(* Which variables of the controller are in use where it is.               *)
Quiet == {"plan", "size", "grow", "depth", "ensure", "dead", "done", "returned"}
Handing == {"enqueue", "show"}
Phases ==
    /\ toEnqueue # <<>> <=> cpc \in Handing
    /\ cpc \in Quiet => batch = <<>> /\ newTasks = {}
    /\ cpc \in Handing /\ batch = <<>> => newTasks = {}
    /\ cpc \in {"fix", "act"} => batch # <<>> /\ fixing # <<>>
    /\ cpc = "settle" => fixing = <<>> /\ budget > 0
    /\ cpc \in Handing /\ batch # <<>> => budget > 0
    /\ gate <=> rest # <<>>

(* The entries the controller is going to purge are there, one for each    *)
(* time it handles the task.                                               *)
LettersThere == \A t \in Task : Times(batch, t) <= Times(dlq, t)

(* A task that was handed to the queue is still owed once those entries    *)
(* are purged.                                                             *)
Secure(t) ==
    HasResult(t) \/ t \in Enqueued \cup inflight \/ Times(batch, t) < Times(dlq, t)
HandedOver == cpc = "show" => Secure(Head(toEnqueue))
NewSecure == \A t \in newTasks : Secure(t) \/ t \in ToSet(toEnqueue)

(* Every chunk of the manifest is done, kept back for after the gate, or   *)
(* waited for, now or from the end of the remediation on.                  *)
Awaited(t) ==
    \/ HasResult(t) \/ t \in ToSet(rest) \/ t \in newTasks
    \/ t \in active /\ (t \in ToSet(batch) => t \in ToSet(fixing))
Listed == \A t \in ToSet(manifest) : Awaited(t)

Debts == LettersThere /\ NewSecure /\ NoneForgotten
StageInv ==
    /\ TypeOK /\ MarkedBeforeAck /\ Phases
    /\ Debts /\ HandedOver /\ Listed /\ ReturnedComplete

-----------------------------------------------------------------------------
(* The queue gives a task up only when it is done or dead-lettered anew.   *)

Kept ==
    \A t \in Task :
        /\ Times(dlq, t) <= Times(dlq', t)
        /\ t \in Enqueued \cup inflight =>
              \/ t \in (Enqueued \cup inflight)'
              \/ HasResult(t)'
              \/ Times(dlq, t) < Times(dlq', t)

Growing == prior \subseteq prior' /\ ran \subseteq ran'

(* What the sweep takes out of flight it makes visible or dead-letters.    *)
LEMMA SweptKept ==
  ASSUME QueueTypeOK, dlq' \in SweptDlq,
         inflight \ lapsed \subseteq inflight',
         Enqueued \cup Survivors \subseteq (Enqueued \cup inflight)'
  PROVE  Kept
<1> SUFFICES ASSUME NEW t \in Task
             PROVE  /\ Times(dlq, t) <= Times(dlq', t)
                    /\ t \in Enqueued \cup inflight =>
                          \/ t \in (Enqueued \cup inflight)'
                          \/ Times(dlq, t) < Times(dlq', t)
  BY DEF Kept
<1>1. Times(dlq, t) \in Nat
  BY TimesType
<1>2. Times(dlq', t) = Times(dlq, t) + IF t \in Exhausted(lapsed) THEN 1 ELSE 0
  BY SweptTimes
<1>3. t \in lapsed => t \in Survivors \/ t \in Exhausted(lapsed)
  BY DEF Survivors
<1>4. Times(dlq, t) <= Times(dlq', t)
  BY <1>1, <1>2
<1>5. t \in Exhausted(lapsed) => Times(dlq, t) < Times(dlq', t)
  BY <1>1, <1>2
<1>6. QED
  BY <1>3, <1>4, <1>5

LEMMA ClaimKept ==
  ASSUME QueueTypeOK, NEW t, Claim(t)
  PROVE  Kept
<1>1. /\ Enqueued' \cup {t} = Enqueued \cup Survivors
      /\ inflight' = (inflight \ lapsed) \cup {t}
  BY ClaimFacts
<1>2. dlq' \in SweptDlq
  BY DEF Claim, TakeHead
<1>3. Enqueued \cup Survivors \subseteq (Enqueued \cup inflight)'
  BY <1>1
<1>4. QED
  BY <1>1, <1>2, <1>3, SweptKept

LEMMA SweepKept ==
  ASSUME QueueTypeOK, Sweep
  PROVE  Kept
<1>1. /\ Enqueued' = Enqueued \cup Survivors
      /\ inflight' = inflight \ lapsed
  BY SweepFacts
<1>2. dlq' \in SweptDlq
  BY DEF Sweep
<1>3. QED
  BY <1>1, <1>2, SweptKept

(* The steps that do not touch the dead-letter list and take no task away. *)
LEMMA UntouchedKept ==
  ASSUME QueueTypeOK, dlq' = dlq, Enqueued \cup inflight \subseteq (Enqueued \cup inflight)'
  PROVE  Kept
BY TimesType DEF Kept

LEMMA EnqueueKept ==
  ASSUME QueueTypeOK, NEW t \in Task, Enqueue(t)
  PROVE  Kept
BY EnqueueFacts, UntouchedKept DEF Enqueue

LEMMA AckKept ==
  ASSUME QueueTypeOK, NEW t \in Task, Ack(t), HasResult(t)'
  PROVE  Kept
<1>1. dlq' = dlq /\ ready' = ready /\ inflight' = inflight \ {t}
  BY DEF Ack, DropLease
<1>2. \A u \in Task : Times(dlq, u) <= Times(dlq', u)
  BY <1>1, TimesType
<1>3. QED
  BY <1>1, <1>2 DEF Kept, Enqueued

LEMMA FailKept ==
  ASSUME QueueTypeOK, NEW t \in Task, Fail(t)
  PROVE  Kept
<1>1. inflight' = inflight \ {t}
  BY DEF Fail, DropLease
<1>2. CASE dlq' = Append(dlq, t) /\ ready' = ready
  <2>1. \A u : Times(dlq', u) = Times(dlq, u) + IF u = t THEN 1 ELSE 0
    BY <1>2, AppendTimes DEF QueueTypeOK
  <2>2. SUFFICES ASSUME NEW u \in Task
                 PROVE  /\ Times(dlq, u) <= Times(dlq', u)
                        /\ u = t => Times(dlq, u) < Times(dlq', u)
    BY <1>1, <1>2 DEF Kept, Enqueued
  <2>3. QED
    BY <2>1, TimesType
<1>3. CASE dlq' = dlq /\ Enqueued' = Enqueued \cup {t}
  BY <1>1, <1>3, UntouchedKept
<1>4. QED
  BY <1>2, <1>3, FailFacts DEF Fail, PutBack

-----------------------------------------------------------------------------
(* A step of a worker keeps what is owed, and gets to an ack only with a   *)
(* task that is done.                                                      *)
LEMMA WorkerStepKept ==
  ASSUME QueueTypeOK, WorkerTypeOK, MarkedBeforeAck, NEW w \in Worker, WorkerStep(w)
  PROVE  Kept /\ Growing /\ MarkedBeforeAck'
<1>0. pc[w] \in Busy => work[w] \in Task
  BY DEF WorkerTypeOK
<1>1. ASSUME queueVars' = queueVars PROVE Kept
  BY <1>1, UntouchedKept DEF queueVars, Enqueued
<1>2. ASSUME NEW l, Goto(w, l), work' = work, Growing,
             l \notin {"skip", "skipAck", "report", "ack"}
                \/ HasResult(work[w])'
      PROVE  MarkedBeforeAck'
  BY <1>2 DEF MarkedBeforeAck, Goto, HasResult, Growing, WorkerTypeOK
<1>3. ASSUME NEW l \in {"off", "poll"}, Leave(w, l), Growing
      PROVE  MarkedBeforeAck'
  BY <1>3 DEF MarkedBeforeAck, Leave, Goto, HasResult, Growing, WorkerTypeOK
<1>4. CASE ClaimTask(w)
  <2>1. PICK t \in Task : Claim(t) /\ work' = [work EXCEPT ![w] = t]
    BY <1>4 DEF ClaimTask
  <2>2. MarkedBeforeAck'
    BY <1>4, <2>1 DEF ClaimTask, Goto, MarkedBeforeAck, HasResult, storeVars, WorkerTypeOK
  <2>3. QED
    BY <1>4, <2>1, <2>2, ClaimKept DEF ClaimTask, Growing, storeVars
<1>5. CASE FindNothing(w)
  <2>1. Sweep /\ Growing
    BY <1>5 DEF FindNothing, ClaimNone, Growing, storeVars
  <2>2. QED
    BY <1>2, <1>5, <2>1, SweepKept DEF FindNothing
<1>6. CASE IdleExit(w)
  <2>1. Sweep /\ Growing
    BY <1>6 DEF IdleExit, ClaimNone, Growing, storeVars
  <2>2. QED
    BY <1>2, <1>6, <2>1, SweepKept DEF IdleExit
<1>7. CASE Check(w)
  <2>1. Growing
    BY <1>7 DEF Check, Growing, storeVars
  <2>2. CASE ~Forced /\ HasResult(work[w])
    <3>1. Goto(w, "skip") /\ HasResult(work[w])' /\ work' = work
      BY <1>7, <2>2 DEF Check, HasResult, storeVars
    <3>2. QED
      BY <1>1, <1>2, <1>7, <2>1, <3>1 DEF Check
  <2>3. CASE ~(~Forced /\ HasResult(work[w]))
    <3>1. Goto(w, "start") /\ work' = work
      BY <1>7, <2>3 DEF Check
    <3>2. QED
      BY <1>1, <1>2, <1>7, <2>1, <3>1 DEF Check
  <2>4. QED
    BY <2>2, <2>3
<1>8. CASE ShowSkipped(w)
  <2>1. Growing /\ HasResult(work[w])'
    BY <1>8 DEF ShowSkipped, Growing, storeVars, MarkedBeforeAck, HasResult
  <2>2. QED
    BY <1>1, <1>2, <1>8, <2>1 DEF ShowSkipped
<1>9. CASE Start(w)
  <2>1. Growing
    BY <1>9 DEF Start, Growing, storeVars
  <2>2. QED
    BY <1>1, <1>2, <1>9, <2>1 DEF Start
<1>10. CASE Publish(w)
  <2>1. Growing /\ HasResult(work[w])'
    BY <1>10 DEF Publish, Growing, HasResult
  <2>2. QED
    BY <1>1, <1>2, <1>10, <2>1 DEF Publish
<1>11. CASE ShowSuccess(w)
  <2>1. Growing /\ HasResult(work[w])'
    BY <1>11 DEF ShowSuccess, Growing, storeVars, MarkedBeforeAck, HasResult
  <2>2. QED
    BY <1>1, <1>2, <1>11, <2>1 DEF ShowSuccess
<1>12. CASE AckTask(w)
  <2>1. PICK t \in Task : t = work[w]
    BY <1>0, <1>12 DEF AckTask
  <2>2. Growing /\ Ack(t) /\ Leave(w, "poll")
    BY <1>12, <2>1 DEF AckTask, Growing, storeVars
  <2>3. HasResult(t)'
    BY <1>12, <2>1, <2>2 DEF AckTask, Growing, MarkedBeforeAck, HasResult
  <2>4. QED
    BY <1>3, <2>2, <2>3, AckKept
<1>13. CASE WriteFailure(w)
  <2>1. Growing
    BY <1>13 DEF WriteFailure, Growing
  <2>2. QED
    BY <1>1, <1>2, <1>13, <2>1 DEF WriteFailure
<1>14. CASE ShowFailed(w)
  <2>1. Growing
    BY <1>14 DEF ShowFailed, Growing, storeVars
  <2>2. QED
    BY <1>1, <1>2, <1>14, <2>1 DEF ShowFailed
<1>15. CASE FailTask(w)
  <2>1. Growing /\ work[w] \in Task
    BY <1>0, <1>15 DEF FailTask, Growing, storeVars
  <2>2. QED
    BY <1>3, <1>15, <2>1, FailKept DEF FailTask
<1>16. CASE DieStarting(w)
  <2>1. Growing
    BY <1>16 DEF DieStarting, Growing, storeVars
  <2>2. QED
    BY <1>1, <1>3, <1>16, <2>1 DEF DieStarting
<1>17. CASE DieFailing(w)
  <2>1. Growing
    BY <1>17 DEF DieFailing, Growing, storeVars
  <2>2. QED
    BY <1>1, <1>3, <1>17, <2>1 DEF DieFailing
<1>18. CASE Raise(w)
  <2>1. Growing
    BY <1>18 DEF Raise, Growing, storeVars
  <2>2. QED
    BY <1>1, <1>2, <1>18, <2>1 DEF Raise
<1>19. CASE Heartbeat(w)
  <2>1. Growing /\ MarkedBeforeAck' /\ dlq' = dlq /\ ready' = ready /\ inflight' = inflight
    BY <1>19 DEF Heartbeat, Extend, workerVars, Growing, MarkedBeforeAck, HasResult
  <2>2. QED
    BY <2>1, UntouchedKept DEF Enqueued
<1>20. QED
  BY <1>4, <1>5, <1>6, <1>7, <1>8, <1>9, <1>10, <1>11, <1>12, <1>13, <1>14,
     <1>15, <1>16, <1>17, <1>18, <1>19 DEF WorkerStep, WorkerProgress

(* What a step that leaves the controller alone leaves of the debts.       *)
LEMMA DebtsStay ==
  ASSUME QueueTypeOK, QueueTypeOK', Debts, Kept, Growing, batch \in Seq(Task),
         active \subseteq Task, newTasks \subseteq Task,
         UNCHANGED <<batch, newTasks, active, toEnqueue>>
  PROVE  Debts' /\ \A t \in Task : Secure(t) => Secure(t)'
<1>1. ASSUME NEW t \in Task
      PROVE  /\ Times(batch, t) \in Nat /\ Times(dlq, t) \in Nat /\ Times(dlq', t) \in Nat
             /\ Times(dlq, t) <= Times(dlq', t)
             /\ t \in DeadLettered' <=> Times(dlq', t) > 0
             /\ t \in DeadLettered <=> Times(dlq, t) > 0
             /\ Times(batch, t) <= Times(dlq, t)
  BY TimesType, PlacesFinite DEF Kept, Debts, LettersThere, QueueTypeOK, DeadLettered
<1>2. LettersThere'
  <2>1. ASSUME NEW t \in Task PROVE Times(batch, t) <= Times(dlq', t)
    BY <1>1
  <2>2. QED
    BY <2>1 DEF LettersThere
<1>3. ASSUME NEW t \in Task, Secure(t) PROVE Secure(t)'
  <2>1. HasResult(t) => HasResult(t)'
    BY DEF HasResult, Growing
  <2>2. Times(batch, t) < Times(dlq, t) => Times(batch, t) < Times(dlq', t)
    BY <1>1
  <2>3. Times(dlq, t) < Times(dlq', t) => Times(batch, t) < Times(dlq', t)
    BY <1>1
  <2>4. QED
    BY <1>3, <2>1, <2>2, <2>3 DEF Secure, Kept
<1>4. NewSecure'
  BY <1>3 DEF Debts, NewSecure
<1>5. NoneForgotten'
  <2>1. SUFFICES ASSUME NEW t \in active
                 PROVE  \/ HasResult(t)'
                        \/ t \in (Enqueued \cup inflight \cup DeadLettered)'
                        \/ t \in ToSet(toEnqueue)
    BY DEF NoneForgotten
  <2>2. HasResult(t) => HasResult(t)'
    BY DEF HasResult, Growing
  <2>3. t \in DeadLettered => t \in DeadLettered'
    BY <1>1
  <2>4. Times(dlq, t) < Times(dlq', t) => t \in DeadLettered'
    BY <1>1
  <2>5. QED
    BY <2>2, <2>3, <2>4 DEF Debts, NoneForgotten, Kept
<1>6. QED
  BY <1>2, <1>3, <1>4, <1>5 DEF Debts

LEMMA ListStays ==
  ASSUME Listed, Growing, UNCHANGED <<manifest, rest, newTasks, active, batch, fixing>>
  PROVE  Listed'
BY DEF Listed, Awaited, HasResult, Growing

(* A step of a worker or of the clock.                                     *)
LEMMA OthersStep ==
  ASSUME StageInv, QueueTypeOK', WorkerTypeOK', Kept, Growing, MarkedBeforeAck',
         UNCHANGED controllerVars
  PROVE  StageInv'
<1> USE DEF controllerVars, drainVars, fixVars
<1>1. TypeOK' /\ Phases'
  BY DEF StageInv, TypeOK, Phases
<1>2. Debts' /\ \A t \in Task : Secure(t) => Secure(t)'
  BY DebtsStay DEF StageInv, TypeOK
<1>3. HandedOver'
  <2>1. cpc = "show" => Head(toEnqueue) \in Task
    BY HeadTailSet DEF StageInv, TypeOK, Phases, Handing
  <2>2. QED
    BY <1>2, <2>1 DEF StageInv, HandedOver
<1>4. Listed'
  BY ListStays DEF StageInv
<1>5. ReturnedComplete'
  BY DEF StageInv, ReturnedComplete, HasResult, Growing
<1>6. QED
  BY <1>1, <1>2, <1>3, <1>4, <1>5 DEF StageInv

-----------------------------------------------------------------------------
(* The steps of the controller that hand out, list and wait for nothing    *)
(* new.                                                                    *)

Waiting == <<toEnqueue, rest, gate, active, batch, fixing, newTasks, manifest>>

LEMMA WaitingStep ==
  ASSUME StageInv, TypeOK', Phases', MarkedBeforeAck', Kept, Growing,
         UNCHANGED Waiting, cpc' \notin {"show", "returned"}
  PROVE  StageInv'
<1> USE DEF Waiting
<1>1. Debts'
  BY DebtsStay DEF StageInv, TypeOK
<1>2. Listed'
  BY ListStays DEF StageInv
<1>3. HandedOver' /\ ReturnedComplete'
  BY DEF HandedOver, ReturnedComplete
<1>4. QED
  BY <1>1, <1>2, <1>3 DEF StageInv

LEMMA QuietlyKept ==
  ASSUME StageInv, UNCHANGED <<queueVars, pc, work, storeVars>>
  PROVE  QueueTypeOK' /\ Kept /\ Growing /\ MarkedBeforeAck'
<1>1. QueueTypeOK'
  BY DEF StageInv, TypeOK, QueueTypeOK, queueVars
<1>2. Kept
  BY UntouchedKept DEF StageInv, TypeOK, queueVars, Enqueued
<1>3. Growing /\ MarkedBeforeAck'
  BY DEF StageInv, MarkedBeforeAck, HasResult, Growing, storeVars
<1>4. QED
  BY <1>1, <1>2, <1>3

LEMMA ShowType ==
  ASSUME WorkerTypeOK, UNCHANGED <<pc, work, storeVars>>,
         NEW t, NEW s \in TaskState, Show(t, s)
  PROVE  WorkerTypeOK'
BY DEF WorkerTypeOK, Show, storeVars

LEMMA DepthType ==
  ASSUME QueueTypeOK'
  PROVE  DepthAfterSweep \in Nat
<1>1. Len(ready') \in Nat
  BY LenProperties DEF QueueTypeOK
<1>2. IsFiniteSet(inflight')
  BY FiniteSubset DEF QueueTypeOK
<1>3. QED
  BY <1>1, <1>2, FS_CardinalityType DEF DepthAfterSweep

LEMMA SizeFleetStep == ASSUME StageInv, SizeFleet PROVE StageInv'
<1> USE DEF SizeFleet
<1>1. QueueTypeOK' /\ Kept
  BY SweepFacts, SweepKept, UntouchedKept
     DEF StageInv, TypeOK, QueueTypeOK, queueVars, Enqueued
<1>2. Growing /\ MarkedBeforeAck' /\ WorkerTypeOK'
  BY DEF StageInv, TypeOK, WorkerTypeOK, MarkedBeforeAck, HasResult, Growing, workerVars
<1>3. MaxWorkers \in Nat \ {0}
  <2>1. Cardinality(Worker) \in Nat
    BY ControllerAssumption, FS_CardinalityType
  <2>2. QED
    BY <2>1, ControllerAssumption
<1>4. want' \in 0 .. MaxWorkers
  BY <1>1, <1>3, DepthType DEF Least, Most
<1>5. TypeOK'
  BY <1>1, <1>2, <1>4 DEF StageInv, TypeOK, CPC, fixVars
<1>6. Phases'
  BY DEF StageInv, Phases, Quiet, Handing, fixVars
<1>7. QED
  BY <1>1, <1>2, <1>5, <1>6, WaitingStep DEF Waiting, fixVars

LEMMA EnsureFleetStep == ASSUME StageInv, EnsureFleet PROVE StageInv'
<1> USE DEF EnsureFleet
<1>1. PICK S \in SUBSET (Worker \ Live) : Spawn(S)
  OBVIOUS
<1>2. WorkerTypeOK' /\ MarkedBeforeAck' /\ Growing
  BY <1>1 DEF StageInv, TypeOK, WorkerTypeOK, MarkedBeforeAck, Growing, HasResult,
              Spawn, Live, storeVars
<1>3. QueueTypeOK' /\ Kept
  BY UntouchedKept DEF StageInv, TypeOK, QueueTypeOK, queueVars, Enqueued
<1>4. MaxWorkers \in Nat
  BY ControllerAssumption, FS_CardinalityType
<1>5. TypeOK'
  BY <1>2, <1>3, <1>4 DEF StageInv, TypeOK, CPC, fixVars
<1>6. Phases'
  BY DEF StageInv, Phases, Quiet, Handing, fixVars
<1>7. QED
  BY <1>2, <1>3, <1>5, <1>6, WaitingStep DEF Waiting, fixVars

LEMMA ReadDepthStep == ASSUME StageInv, ReadDepth PROVE StageInv'
<1> USE DEF ReadDepth
<1>1. QueueTypeOK' /\ Kept
  BY SweepFacts, SweepKept DEF StageInv, TypeOK
<1>2. Growing /\ MarkedBeforeAck' /\ WorkerTypeOK'
  BY DEF StageInv, TypeOK, WorkerTypeOK, MarkedBeforeAck, HasResult, Growing, workerVars
<1>3. MaxWorkers \in Nat
  BY ControllerAssumption, FS_CardinalityType
<1>4. Cardinality(Live) \in Nat
  <2>1. Live \in SUBSET Worker
    BY DEF Live
  <2>2. QED
    BY <2>1, ControllerAssumption, FS_Subset, FS_CardinalityType
<1>5. want' \in 0 .. MaxWorkers
  <2>1. DepthAfterSweep + Cardinality(Live) \in Nat
    BY <1>1, <1>4, DepthType
  <2>2. Least(MaxWorkers, DepthAfterSweep + Cardinality(Live)) \in 0 .. MaxWorkers
    BY <1>3, <2>1 DEF Least
  <2>3. QED
    BY <2>2 DEF StageInv, TypeOK
<1>6. TypeOK'
  BY <1>1, <1>2, <1>5 DEF StageInv, TypeOK, CPC, fixVars
<1>7. Phases'
  BY DEF StageInv, Phases, Quiet, Handing, fixVars
<1>8. QED
  BY <1>1, <1>2, <1>6, <1>7, WaitingStep DEF Waiting, fixVars

LEMMA DeadlineStep == ASSUME StageInv, DeadlineStrikes PROVE StageInv'
<1> USE DEF DeadlineStrikes, drainVars, fixVars
<1>1. QueueTypeOK' /\ Kept /\ Growing /\ MarkedBeforeAck'
  BY QuietlyKept DEF workerVars, storeVars
<1>2. TypeOK' /\ Phases'
  BY <1>1 DEF StageInv, TypeOK, WorkerTypeOK, workerVars, CPC, Ended, Phases, Quiet, Handing
<1>3. QED
  BY <1>1, <1>2, WaitingStep DEF Waiting

LEMMA ShowDeadStep == ASSUME StageInv, ShowDead PROVE StageInv'
<1> USE DEF ShowDead, drainVars, fixVars
<1>1. QueueTypeOK' /\ Kept /\ Growing /\ MarkedBeforeAck'
  BY QuietlyKept
<1>2. WorkerTypeOK'
  BY ShowType DEF StageInv, TypeOK, TaskState
<1>3. TypeOK' /\ Phases'
  BY <1>1, <1>2 DEF StageInv, TypeOK, CPC, Phases, Quiet, Handing
<1>4. QED
  BY <1>1, <1>3, WaitingStep DEF Waiting

LEMMA GiveUpStep == ASSUME StageInv, GiveUp PROVE StageInv'
<1> USE DEF GiveUp, drainVars, fixVars
<1>1. QueueTypeOK' /\ Kept /\ Growing /\ MarkedBeforeAck'
  BY QuietlyKept DEF workerVars, storeVars
<1>2. TypeOK' /\ Phases'
  BY <1>1 DEF StageInv, TypeOK, WorkerTypeOK, workerVars, CPC, Ended, Phases, Quiet, Handing
<1>3. QED
  BY <1>1, <1>2, WaitingStep DEF Waiting

-----------------------------------------------------------------------------
(* Handing tasks to the queue.                                             *)

LEMMA EnqueueNextStep == ASSUME StageInv, EnqueueNext PROVE StageInv'
<1> USE DEF EnqueueNext, drainVars, fixVars
<1>1. Head(toEnqueue) \in Task /\ Enqueue(Head(toEnqueue))
  BY HeadTailSet DEF StageInv, TypeOK, Phases, Handing
<1>2. QueueTypeOK' /\ Kept /\ Head(toEnqueue) \in Enqueued'
  BY <1>1, EnqueueFacts, EnqueueKept DEF StageInv, TypeOK
<1>3. Growing /\ MarkedBeforeAck' /\ WorkerTypeOK'
  BY DEF StageInv, TypeOK, WorkerTypeOK, MarkedBeforeAck, HasResult, Growing, workerVars
<1>4. TypeOK' /\ Phases'
  BY <1>2, <1>3 DEF StageInv, TypeOK, CPC, Phases, Quiet, Handing
<1>5. Debts'
  BY <1>2, <1>3, DebtsStay DEF StageInv, TypeOK
<1>6. Listed'
  BY <1>3, ListStays DEF StageInv
<1>7. HandedOver' /\ ReturnedComplete'
  BY <1>2 DEF HandedOver, Secure, ReturnedComplete
<1>8. QED
  BY <1>3, <1>4, <1>5, <1>6, <1>7 DEF StageInv

LEMMA ShowQueuedStep == ASSUME StageInv, ShowQueued PROVE StageInv'
<1> USE DEF ShowQueued, fixVars
<1>0. /\ Head(toEnqueue) \in Task /\ toEnqueue' \in Seq(Task)
      /\ ToSet(toEnqueue) = {Head(toEnqueue)} \cup ToSet(toEnqueue')
  BY HeadTailSet DEF StageInv, TypeOK, Phases, Handing
<1>1. QueueTypeOK' /\ Kept /\ Growing /\ MarkedBeforeAck'
  BY QuietlyKept
<1>2. WorkerTypeOK'
  BY ShowType DEF StageInv, TypeOK, TaskState
<1>3. cpc' \in {"enqueue", "size", "fix", "settle"}
  OBVIOUS
<1>4. TypeOK'
  BY <1>0, <1>1, <1>2, <1>3 DEF StageInv, TypeOK, CPC
<1>5. Phases'
  <2>1. cpc' = "enqueue" <=> toEnqueue' # <<>>
    OBVIOUS
  <2>2. cpc' = "size" => batch = <<>>
    OBVIOUS
  <2>3. ASSUME cpc' = "fix" PROVE batch # <<>> /\ fixing # <<>>
    <3>1. Tail(toEnqueue) = <<>>
      BY <2>3
    <3>2. batch # <<>>
      BY <2>3, <3>1
    <3>3. QED
      BY <2>3, <3>1, <3>2
  <2>4. ASSUME cpc' = "settle" PROVE batch # <<>> /\ fixing = <<>>
    <3>1. Tail(toEnqueue) = <<>>
      BY <2>4
    <3>2. batch # <<>>
      BY <2>4, <3>1
    <3>3. QED
      BY <2>4, <3>1, <3>2
  <2>5. QED
    BY <1>3, <2>1, <2>2, <2>3, <2>4 DEF StageInv, Phases, Quiet, Handing
<1>6. Secure(Head(toEnqueue)) /\ \A t \in Task : Secure(t) <=> Secure(t)'
  BY DEF StageInv, HandedOver, Secure, HasResult, Enqueued, queueVars, storeVars
<1>7. Debts'
  <2>1. LettersThere'
    BY DEF StageInv, Debts, LettersThere, queueVars
  <2>2. NewSecure'
    BY <1>0, <1>6 DEF StageInv, TypeOK, Debts, NewSecure
  <2>3. Secure(Head(toEnqueue)) =>
          HasResult(Head(toEnqueue))
            \/ Head(toEnqueue) \in Enqueued \cup inflight \cup DeadLettered
    <3>1. Times(batch, Head(toEnqueue)) \in Nat
      BY PlacesFinite DEF StageInv, TypeOK
    <3>2. QED
      BY <3>1, TimesType DEF StageInv, TypeOK, Secure
  <2>4. NoneForgotten'
    BY <1>0, <1>6, <2>3
       DEF StageInv, Debts, NoneForgotten, HasResult, Enqueued, DeadLettered,
           queueVars, storeVars
  <2>5. QED
    BY <2>1, <2>2, <2>4 DEF Debts
<1>8. Listed'
  BY <1>1, ListStays DEF StageInv
<1>9. HandedOver' /\ ReturnedComplete'
  BY <1>3 DEF HandedOver, ReturnedComplete
<1>10. QED
  BY <1>1, <1>4, <1>5, <1>7, <1>8, <1>9 DEF StageInv

-----------------------------------------------------------------------------
(* Launching a drain.                                                      *)

(* Whoever launches the drain of s, with back kept for after the gate, has *)
(* every chunk of the manifest done, in s or in back.                      *)
LEMMA LaunchStep ==
  ASSUME StageInv, cpc \in Quiet,
         NEW s \in Seq(Task), s # <<>>, NEW back \in Seq(Task),
         NEW gated \in BOOLEAN, gated <=> back # <<>>,
         Launch(s, back, gated),
         UNCHANGED <<queueVars, pc, work, storeVars, batch, fixing, newTasks>>,
         manifest' \in Seq(Task),
         \A t \in ToSet(manifest') : HasResult(t) \/ t \in ToSet(s) \cup ToSet(back),
         shown' \in [Task -> TaskState \cup {Unlisted}]
  PROVE  StageInv'
<1> USE DEF Launch
<1>1. QueueTypeOK' /\ Growing /\ MarkedBeforeAck'
  BY QuietlyKept
<1>2. WorkerTypeOK'
  BY DEF StageInv, TypeOK, WorkerTypeOK, storeVars
<1>3. batch = <<>> /\ newTasks = {}
  BY DEF StageInv, Phases
<1>4. TypeOK'
  <2>1. ToSet(s) \subseteq Task
    BY ElementOfSeq DEF ToSet
  <2>2. MaxRemediations \in 0 .. MaxRemediations
    BY ControllerAssumption
  <2>3. QED
    BY <1>1, <1>2, <2>1, <2>2 DEF StageInv, TypeOK, CPC
<1>5. Phases'
  BY <1>3 DEF StageInv, Phases, Quiet, Handing
<1>6. Debts'
  <2>1. LettersThere'
    BY DEF StageInv, Debts, LettersThere, queueVars
  <2>2. QED
    BY <1>3, <2>1 DEF Debts, NewSecure, NoneForgotten
<1>7. Listed'
  <2>1. \A t : t \notin ToSet(batch)
    BY <1>3 DEF ToSet
  <2>2. QED
    BY <2>1 DEF Listed, Awaited, HasResult, storeVars
<1>8. HandedOver' /\ ReturnedComplete'
  BY DEF HandedOver, ReturnedComplete
<1>9. QED
  BY <1>1, <1>4, <1>5, <1>6, <1>7, <1>8 DEF StageInv

LEMMA PlanStageStep == ASSUME StageInv, PlanStage PROVE StageInv'
<1> DEFINE pending == Only(Plan, Pending)
<1>1. /\ pending \in Seq(Task)
      /\ ToSet(pending) = ToSet(Plan) \cap Pending
  BY PlanAssumption, OnlyFacts
<1> HIDE DEF pending
<1>2. PlanFor(pending)
  BY DEF PlanStage, pending
<1>3. \A t \in ToSet(Plan) : HasResult(t) \/ t \in ToSet(pending)
  BY <1>1 DEF Pending
<1>4. /\ manifest' = Plan /\ Plan \in Seq(Task)
      /\ cpc \in Quiet
      /\ UNCHANGED <<queueVars, pc, work, storeVars, batch, fixing, newTasks>>
  BY <1>2, PlanAssumption DEF PlanFor, Quiet
<1>5. shown' \in [Task -> TaskState \cup {Unlisted}]
  BY <1>2 DEF PlanFor, StageInv, TypeOK, WorkerTypeOK, TaskState
<1>6. CASE pending = <<>> /\ cpc' = "returned" /\ UNCHANGED drainVars
  <2>1. QueueTypeOK' /\ Kept /\ Growing /\ MarkedBeforeAck'
    BY <1>4, QuietlyKept
  <2>2. WorkerTypeOK'
    BY <1>4, <1>5 DEF StageInv, TypeOK, WorkerTypeOK, storeVars
  <2>3. TypeOK'
    BY <1>4, <1>6, <2>1, <2>2 DEF StageInv, TypeOK, CPC, Ended, drainVars
  <2>4. Phases'
    BY <1>4, <1>6 DEF StageInv, Phases, Quiet, Handing, drainVars
  <2>5. Debts'
    BY <1>4, <1>6, <2>1, <2>3, DebtsStay DEF StageInv, TypeOK, drainVars
  <2>6. \A t \in ToSet(manifest') : HasResult(t)'
    <3>1. \A t : t \notin ToSet(pending)
      BY <1>6 DEF ToSet
    <3>2. QED
      BY <1>3, <1>4, <3>1 DEF HasResult, storeVars
  <2>7. Listed' /\ HandedOver' /\ ReturnedComplete'
    BY <1>6, <2>6 DEF Listed, Awaited, HandedOver, ReturnedComplete
  <2>8. QED
    BY <2>1, <2>3, <2>4, <2>5, <2>7 DEF StageInv
<1>7. CASE Len(pending) > 1 /\ Launch(<<Head(pending)>>, Tail(pending), TRUE)
  <2>1. pending # <<>>
    BY <1>7
  <2>2. /\ Head(pending) \in Task /\ Tail(pending) \in Seq(Task)
        /\ ToSet(pending) = {Head(pending)} \cup ToSet(Tail(pending))
    BY <1>1, <2>1, HeadTailSet
  <2>3. <<Head(pending)>> \in Seq(Task) /\ Head(pending) \in ToSet(<<Head(pending)>>)
    BY <2>2 DEF ToSet
  <2>4. Tail(pending) # <<>>
    <3>1. Len(Tail(pending)) = Len(pending) - 1 /\ Len(pending) \in Nat
      BY <1>1, <2>1, HeadTailProperties, LenProperties
    <3>2. QED
      BY <1>7, <3>1
  <2>5. \A t \in ToSet(manifest') :
           HasResult(t) \/ t \in ToSet(<<Head(pending)>>) \cup ToSet(Tail(pending))
    BY <1>3, <1>4, <2>2, <2>3
  <2>6. QED
    BY <1>4, <1>5, <1>7, <2>2, <2>3, <2>4, <2>5, LaunchStep
<1>8. CASE pending # <<>> /\ Launch(pending, <<>>, FALSE)
  <2>1. \A t \in ToSet(manifest') : HasResult(t) \/ t \in ToSet(pending) \cup ToSet(<<>>)
    BY <1>3, <1>4
  <2>2. <<>> \in Seq(Task) /\ FALSE \in BOOLEAN /\ (FALSE <=> <<>> # <<>>)
    OBVIOUS
  <2>3. QED
    BY <1>1, <1>4, <1>5, <1>8, <2>1, <2>2, LaunchStep
<1>9. QED
  BY <1>2, <1>6, <1>7, <1>8 DEF PlanFor

(* A drain that is over has every chunk of the manifest but those kept     *)
(* back done.                                                              *)
LEMMA CheckDoneStep == ASSUME StageInv, CheckDone PROVE StageInv'
<1>1. cpc \in Quiet /\ UNCHANGED <<queueVars, workerVars, fixVars>>
  BY DEF CheckDone, Conclude, Quiet
<1>2. batch = <<>> /\ newTasks = {}
  BY <1>1 DEF StageInv, Phases
<1>3. QueueTypeOK' /\ Kept /\ Growing /\ MarkedBeforeAck' /\ WorkerTypeOK'
  <2>1. WorkerTypeOK'
    BY <1>1 DEF StageInv, TypeOK, WorkerTypeOK, workerVars
  <2>2. QED
    BY <1>1, <2>1, QuietlyKept DEF workerVars, storeVars
<1>4. ASSUME \A t \in active : HasResult(t), NEW t \in ToSet(manifest)
      PROVE  HasResult(t) \/ t \in ToSet(rest)
  BY <1>2, <1>4 DEF StageInv, Listed, Awaited
<1>5. CASE cpc' = "depth" /\ UNCHANGED drainVars
  <2>1. TypeOK' /\ Phases'
    BY <1>1, <1>3, <1>5 DEF StageInv, TypeOK, CPC, Phases, Quiet, Handing, drainVars, fixVars
  <2>2. QED
    BY <1>1, <1>3, <1>5, <2>1, WaitingStep DEF Waiting, drainVars, fixVars
<1>6. CASE (\A t \in active : HasResult(t)) /\ gate /\ Launch(rest, <<>>, FALSE)
  <2>1. rest \in Seq(Task) /\ rest # <<>> /\ manifest' \in Seq(Task)
    BY <1>1, <1>6 DEF StageInv, TypeOK, Phases, fixVars
  <2>2. \A t \in ToSet(manifest') : HasResult(t) \/ t \in ToSet(rest) \cup ToSet(<<>>)
    BY <1>1, <1>4, <1>6 DEF fixVars
  <2>3. shown' \in [Task -> TaskState \cup {Unlisted}]
    BY <1>3 DEF WorkerTypeOK
  <2>4. <<>> \in Seq(Task) /\ FALSE \in BOOLEAN /\ (FALSE <=> <<>> # <<>>)
    OBVIOUS
  <2>5. UNCHANGED <<queueVars, pc, work, storeVars, batch, fixing, newTasks>>
    BY <1>1 DEF workerVars, storeVars, fixVars
  <2>6. QED
    BY <1>1, <1>6, <2>1, <2>2, <2>3, <2>4, <2>5, LaunchStep
<1>7. CASE /\ \A t \in active : HasResult(t)
           /\ ~gate
           /\ cpc' = "returned"
           /\ UNCHANGED drainVars
  <2>1. TypeOK' /\ Phases'
    BY <1>1, <1>3, <1>7
       DEF StageInv, TypeOK, CPC, Ended, Phases, Quiet, Handing, drainVars, fixVars
  <2>2. Debts'
    BY <1>1, <1>3, <1>7, DebtsStay DEF StageInv, TypeOK, drainVars, fixVars
  <2>3. Listed'
    BY <1>1, <1>3, <1>7, ListStays DEF StageInv, drainVars, fixVars
  <2>4. \A t : t \notin ToSet(rest)
    BY <1>7 DEF StageInv, Phases, ToSet
  <2>5. \A t \in ToSet(manifest) : HasResult(t)
    BY <1>4, <1>7, <2>4
  <2>6. HandedOver' /\ ReturnedComplete'
    BY <1>1, <1>7, <2>5 DEF HandedOver, ReturnedComplete, HasResult, workerVars, fixVars
  <2>7. QED
    BY <1>3, <2>1, <2>2, <2>3, <2>6 DEF StageInv
<1>8. QED
  BY <1>5, <1>6, <1>7 DEF CheckDone, Conclude

-----------------------------------------------------------------------------
(* Handling dead letters.                                                  *)

(* The batch is taken from the dead-letter list.                           *)
LEMMA FindDeadStep == ASSUME StageInv, FindDead PROVE StageInv'
<1> USE DEF drainVars
<1> DEFINE dead == Only(dlq, active)
<1>1. /\ dead \in Seq(Task)
      /\ \A t : Times(dead, t) <= Times(dlq, t)
  BY OnlyFacts DEF StageInv, TypeOK, QueueTypeOK
<1> HIDE DEF dead
<1>2. /\ cpc = "dead"
      /\ batch' = dead /\ fixing' = dead
      /\ \/ dead = <<>> /\ cpc' = "done"
         \/ dead # <<>> /\ cpc' \in {"fix", "failed"}
      /\ UNCHANGED <<queueVars, workerVars, drainVars, newTasks, manifest>>
  BY DEF FindDead, Handle, dead
<1>3. batch = <<>> /\ newTasks = {} /\ toEnqueue = <<>>
  BY <1>2 DEF StageInv, Phases, Quiet, Handing
<1>4. QueueTypeOK' /\ Kept /\ Growing /\ MarkedBeforeAck'
  BY <1>2, QuietlyKept DEF workerVars, storeVars
<1>5. TypeOK'
  BY <1>1, <1>2, <1>4 DEF StageInv, TypeOK, WorkerTypeOK, workerVars, CPC, Ended
<1>6. Phases'
  BY <1>2, <1>3 DEF StageInv, Phases, Quiet, Handing
<1>7. Debts'
  <2>1. LettersThere'
    BY <1>1, <1>2 DEF LettersThere, queueVars
  <2>2. NewSecure'
    BY <1>2, <1>3 DEF NewSecure
  <2>3. NoneForgotten'
    BY <1>2 DEF StageInv, Debts, NoneForgotten, HasResult, Enqueued, DeadLettered,
                queueVars, workerVars
  <2>4. QED
    BY <2>1, <2>2, <2>3 DEF Debts
<1>8. Listed'
  BY <1>2 DEF StageInv, Listed, Awaited, HasResult, workerVars
<1>9. HandedOver' /\ ReturnedComplete'
  BY <1>2 DEF HandedOver, ReturnedComplete
<1>10. QED
  BY <1>4, <1>5, <1>6, <1>7, <1>8, <1>9 DEF StageInv

(* A chunk that stays awaited and has come back more often than it was     *)
(* handled stays dead-lettered.                                            *)
LEMMA SettleStep == ASSUME StageInv, Settle PROVE StageInv'
<1> DEFINE left == Pick(dlq, LettersLeft)
<1>1. /\ left \in Seq(Task)
      /\ \A t \in Task : Times(batch, t) < Times(dlq, t) => t \in ToSet(left)
  BY LettersLeftFacts DEF StageInv, TypeOK, QueueTypeOK
<1> HIDE DEF left
<1>2. /\ cpc = "settle" /\ cpc' = "depth"
      /\ budget' = budget - 1
      /\ active' = (active \ ToSet(batch)) \cup newTasks
      /\ dlq' = left
      /\ batch' = <<>> /\ newTasks' = {}
      /\ UNCHANGED <<ready, inflight, lapsed, attempt, workerVars, toEnqueue,
                     rest, gate, want, fixing, manifest>>
  BY DEF Settle, SettleWith, left
<1>3. toEnqueue = <<>> /\ fixing = <<>> /\ budget > 0
  BY <1>2 DEF StageInv, Phases, Handing
<1>4. TypeOK'
  <2>1. QueueTypeOK'
    BY <1>1, <1>2 DEF StageInv, TypeOK, QueueTypeOK
  <2>2. WorkerTypeOK'
    BY <1>2 DEF StageInv, TypeOK, WorkerTypeOK, workerVars
  <2>3. budget' \in 0 .. MaxRemediations
    BY <1>2, <1>3, ControllerAssumption DEF StageInv, TypeOK
  <2>4. QED
    BY <1>2, <2>1, <2>2, <2>3 DEF StageInv, TypeOK, CPC
<1>5. MarkedBeforeAck'
  BY <1>2 DEF StageInv, MarkedBeforeAck, HasResult, workerVars
<1>6. Phases'
  BY <1>2, <1>3 DEF StageInv, Phases, Quiet, Handing
<1>7. ASSUME NEW t \in Task
      PROVE  /\ Times(batch, t) \in Nat
             /\ t \in ToSet(batch) <=> Times(batch, t) > 0
             /\ t \in DeadLettered <=> Times(dlq, t) > 0
             /\ Times(dlq, t) \in Nat
  BY PlacesFinite, TimesType DEF StageInv, TypeOK
<1>8. Debts'
  <2>1. LettersThere'
    <3>1. ASSUME NEW t \in Task PROVE Times(<<>>, t) <= Times(left, t)
      <4>1. t \notin ToSet(<<>>)
        BY DEF ToSet
      <4>2. Times(<<>>, t) = 0 /\ Times(left, t) \in Nat
        <5>1. <<>> \in Seq(Task)
          OBVIOUS
        <5>2. Times(<<>>, t) \in Nat /\ ~(Times(<<>>, t) > 0)
          BY <4>1, <5>1, PlacesFinite
        <5>3. Times(left, t) \in Nat
          BY <1>1, PlacesFinite
        <5>4. QED
          BY <5>2, <5>3
      <4>3. QED
        BY <4>2
    <3>2. QED
      BY <1>2, <3>1 DEF LettersThere
  <2>2. NewSecure'
    BY <1>2 DEF NewSecure
  <2>3. ASSUME NEW t \in active' PROVE HasResult(t) \/ t \in Enqueued \cup inflight \cup ToSet(left)
    <3>1. t \in Task
      BY <1>2, <2>3 DEF StageInv, TypeOK
    <3>2. \A u : u \notin ToSet(toEnqueue)
      BY <1>3 DEF ToSet
    <3>3. CASE t \in newTasks
      BY <1>1, <3>1, <3>2, <3>3 DEF StageInv, Debts, NewSecure, Secure
    <3>4. CASE t \in active /\ t \notin ToSet(batch)
      <4>1. t \in DeadLettered => t \in ToSet(left)
        BY <1>1, <1>7, <3>1, <3>4
      <4>2. QED
        BY <3>2, <3>4, <4>1 DEF StageInv, Debts, NoneForgotten
    <3>5. QED
      BY <1>2, <2>3, <3>3, <3>4
  <2>4. NoneForgotten'
    BY <1>2, <2>3 DEF NoneForgotten, HasResult, Enqueued, DeadLettered, workerVars
  <2>5. QED
    BY <2>1, <2>2, <2>4 DEF Debts
<1>9. Listed'
  <2>1. \A t : t \notin ToSet(<<>>)
    BY DEF ToSet
  <2>2. QED
    BY <1>2, <1>3, <2>1 DEF StageInv, Listed, Awaited, HasResult, workerVars
<1>10. HandedOver' /\ ReturnedComplete'
  BY <1>2 DEF HandedOver, ReturnedComplete
<1>11. QED
  BY <1>4, <1>5, <1>6, <1>8, <1>9, <1>10 DEF StageInv

(* A remediation: the tasks in s take the place of the handled one.        *)
LEMMA ApplyStep ==
  ASSUME StageInv, cpc = "act", budget > 0,
         NEW s \in Seq(Task), NEW ids \in Seq(Task), Apply(s, ids),
         \A t \in ToSet(ids) :
            t \in ToSet(s) \/ (t \in ToSet(manifest) /\ t # Head(fixing)),
         QueueTypeOK', WorkerTypeOK',
         UNCHANGED <<ready, inflight, dlq>>
  PROVE  StageInv'
<1> USE DEF Apply, ApplyAwaiting
<1>1. /\ Tail(fixing) \in Seq(Task)
      /\ ToSet(fixing) = {Head(fixing)} \cup ToSet(Tail(fixing))
      /\ toEnqueue = <<>> /\ batch # <<>>
  BY HeadTailSet DEF StageInv, TypeOK, Phases, Handing
<1>2. Growing /\ MarkedBeforeAck'
  BY DEF StageInv, MarkedBeforeAck, HasResult, Growing, storeVars
<1>3. cpc' \in {"enqueue", "fix", "settle"}
  OBVIOUS
<1>4. TypeOK'
  <2>1. ToSet(s) \subseteq Task
    BY ElementOfSeq DEF ToSet
  <2>2. QED
    BY <1>1, <1>3, <2>1 DEF StageInv, TypeOK, CPC
<1>5. Phases'
  <2>1. cpc' = "enqueue" <=> s # <<>>
    OBVIOUS
  <2>2. cpc' = "fix" => Tail(fixing) # <<>>
    OBVIOUS
  <2>3. ASSUME cpc' = "settle" PROVE Tail(fixing) = <<>>
    <3>1. s = <<>>
      BY <2>3
    <3>2. QED
      BY <2>3, <3>1
  <2>4. QED
    BY <1>1, <1>3, <2>1, <2>2, <2>3 DEF StageInv, Phases, Quiet, Handing
<1>6. Debts'
  <2>1. LettersThere'
    BY DEF StageInv, Debts, LettersThere
  <2>2. \A t : t \notin ToSet(toEnqueue)
    BY <1>1 DEF ToSet
  <2>3. NewSecure'
    BY <2>2 DEF StageInv, Debts, NewSecure, Secure, HasResult, Enqueued, storeVars
  <2>4. NoneForgotten'
    BY <2>2 DEF StageInv, Debts, NoneForgotten, HasResult, Enqueued, DeadLettered, storeVars
  <2>5. QED
    BY <2>1, <2>3, <2>4 DEF Debts
<1>7. Listed'
  BY <1>1 DEF StageInv, Listed, Awaited, HasResult, storeVars
<1>8. HandedOver' /\ ReturnedComplete'
  BY <1>3 DEF HandedOver, ReturnedComplete
<1>9. QED
  BY <1>2, <1>4, <1>5, <1>6, <1>7, <1>8 DEF StageInv

LEMMA RetryWithStep == ASSUME StageInv, RetryWith PROVE StageInv'
<1>1. /\ cpc = "act" /\ budget > 0
      /\ Apply(<<Head(fixing)>>, manifest)
      /\ attempt' = [attempt EXCEPT ![Head(fixing)] = 0]
      /\ UNCHANGED <<ready, inflight, lapsed, dlq, shown>>
  BY DEF RetryWith, MayFix
<1>2. Head(fixing) \in Task
  BY <1>1, HeadTailSet DEF StageInv, TypeOK, Phases
<1>3. QueueTypeOK' /\ WorkerTypeOK'
  BY <1>1, <1>2 DEF StageInv, TypeOK, QueueTypeOK, WorkerTypeOK, storeVars,
                    Apply, ApplyAwaiting
<1>4. <<Head(fixing)>> \in Seq(Task) /\ Head(fixing) \in ToSet(<<Head(fixing)>>)
  BY <1>2 DEF ToSet
<1>5. manifest \in Seq(Task) /\ UNCHANGED <<ready, inflight, dlq>>
  BY <1>1 DEF StageInv, TypeOK
<1>6. \A t \in ToSet(manifest) :
         t \in ToSet(<<Head(fixing)>>) \/ (t \in ToSet(manifest) /\ t # Head(fixing))
  <2> SUFFICES ASSUME NEW t \in ToSet(manifest), t = Head(fixing)
               PROVE  t \in ToSet(<<Head(fixing)>>)
    OBVIOUS
  <2>1. QED
    BY <1>4
<1>7. QED
  BY <1>1, <1>3, <1>4, <1>5, <1>6, ApplyStep

LEMMA ResplitStep == ASSUME StageInv, Resplit PROVE StageInv'
<1> DEFINE t == Head(fixing)
           subs == Parts[t]
           others == Only(manifest, Task \ {t})
<1>1. /\ cpc = "act" /\ budget > 0
      /\ Apply(subs, others \o subs)
      /\ shown' = [u \in Task |-> IF u \in ToSet(subs) /\ shown[u] = Unlisted
                                  THEN "pending" ELSE shown[u]]
      /\ attempt' = [u \in Task |-> IF u \in ToSet(subs) THEN 0 ELSE attempt[u]]
      /\ UNCHANGED <<ready, inflight, lapsed, dlq>>
  BY DEF Resplit, MayFix, Without
<1>2. t \in Task
  BY <1>1, HeadTailSet DEF StageInv, TypeOK, Phases
<1>3. subs \in Seq(Task)
  BY <1>2, PlanAssumption
<1>4. others \in Seq(Task) /\ ToSet(others) = ToSet(manifest) \cap (Task \ {t})
  BY OnlyFacts DEF StageInv, TypeOK
<1> HIDE DEF subs, others
<1>5. others \o subs \in Seq(Task) /\ ToSet(others \o subs) = ToSet(others) \cup ToSet(subs)
  BY <1>3, <1>4, ConcatSet
<1>6. QueueTypeOK' /\ WorkerTypeOK'
  BY <1>1 DEF StageInv, TypeOK, QueueTypeOK, WorkerTypeOK, TaskState, storeVars,
              Apply, ApplyAwaiting
<1>7. ASSUME NEW u \in ToSet(others \o subs)
      PROVE  u \in ToSet(subs) \/ (u \in ToSet(manifest) /\ u # Head(fixing))
  <2>1. u \in ToSet(others) \/ u \in ToSet(subs)
    BY <1>5
  <2>2. u \in ToSet(others) => u \in ToSet(manifest) /\ u # t
    BY <1>4
  <2>3. QED
    BY <2>1, <2>2
<1>8. QED
  BY <1>1, <1>3, <1>5, <1>6, <1>7, ApplyStep

LEMMA SkipStep == ASSUME StageInv, Skip PROVE StageInv'
<1> DEFINE t == Head(fixing)
           others == Only(manifest, Task \ {t})
<1>1. /\ cpc = "act" /\ budget > 0
      /\ Show(t, "skipped")
      /\ Apply(<<>>, others)
      /\ UNCHANGED queueVars
  BY DEF Skip, MayFix, Without
<1>2. others \in Seq(Task) /\ ToSet(others) = ToSet(manifest) \cap (Task \ {t})
  BY OnlyFacts DEF StageInv, TypeOK
<1> HIDE DEF others
<1>3. QueueTypeOK'
  BY <1>1 DEF StageInv, TypeOK, QueueTypeOK, queueVars
<1>4. WorkerTypeOK'
  BY <1>1, ShowType DEF StageInv, TypeOK, TaskState, Apply, ApplyAwaiting
<1>5. UNCHANGED <<ready, inflight, dlq>> /\ <<>> \in Seq(Task)
  BY <1>1 DEF queueVars
<1>6. \A u \in ToSet(others) :
         u \in ToSet(<<>>) \/ (u \in ToSet(manifest) /\ u # Head(fixing))
  BY <1>2
<1>7. QED
  BY <1>1, <1>2, <1>3, <1>4, <1>5, <1>6, ApplyStep

-----------------------------------------------------------------------------
(* The invariant holds initially and every step preserves it.              *)

LEMMA InitStageInv == ASSUME Init PROVE StageInv
<1> USE DEF Init
<1>1. QueueTypeOK
  BY DEF QueueInit, QueueTypeOK
<1>2. WorkerTypeOK
  BY NoTaskAssumption DEF WorkerInit, WorkerTypeOK
<1>3. MaxRemediations \in Nat /\ MaxWorkers \in Nat
  BY ControllerAssumption, FS_CardinalityType
<1>4. TypeOK
  <2>1. {toEnqueue, rest, batch, fixing, manifest} \subseteq Seq(Task)
    OBVIOUS
  <2>2. cpc \in CPC /\ gate \in BOOLEAN /\ {active, newTasks} \subseteq SUBSET Task
    BY DEF CPC
  <2>3. budget \in 0 .. MaxRemediations /\ want \in 0 .. MaxWorkers
    BY <1>3
  <2>4. QED
    BY <1>1, <1>2, <2>1, <2>2, <2>3 DEF TypeOK
<1>5. MarkedBeforeAck
  BY DEF MarkedBeforeAck, WorkerInit
<1>6. Phases
  BY DEF Phases, Quiet, Handing
<1>7. LettersThere
  <2>1. batch = dlq
    BY DEF QueueInit
  <2>2. \A t : Times(dlq, t) \in Nat
    BY <1>1, TimesType
  <2>3. QED
    BY <2>1, <2>2 DEF LettersThere
<1>8. NewSecure /\ NoneForgotten /\ HandedOver /\ ReturnedComplete
  BY DEF NewSecure, NoneForgotten, HandedOver, ReturnedComplete
<1>9. Listed
  BY DEF Listed, ToSet
<1>10. QED
  BY <1>4, <1>5, <1>6, <1>7, <1>8, <1>9 DEF StageInv, Debts

LEMMA ControllerStepInv == ASSUME StageInv, ControllerStep PROVE StageInv'
BY PlanStageStep, EnqueueNextStep, ShowQueuedStep, SizeFleetStep,
   EnsureFleetStep, ReadDepthStep, FindDeadStep, SettleStep, CheckDoneStep,
   ShowDeadStep, GiveUpStep, RetryWithStep, ResplitStep, SkipStep
   DEF ControllerStep

LEMMA NextStageInv == ASSUME StageInv, [Next]_vars PROVE StageInv'
<1>1. CASE ControllerStep
  BY <1>1, ControllerStepInv
<1>2. CASE DeadlineStrikes
  BY <1>2, DeadlineStep
<1>3. ASSUME NEW w \in Worker, WorkerStep(w), UNCHANGED controllerVars
      PROVE  StageInv'
  <2>1. QueueTypeOK' /\ WorkerTypeOK'
    BY <1>3, WorkerStepType DEF StageInv, TypeOK
  <2>2. Kept /\ Growing /\ MarkedBeforeAck'
    BY <1>3, WorkerStepKept DEF StageInv, TypeOK
  <2>3. QED
    BY <1>3, <2>1, <2>2, OthersStep
<1>4. ASSUME NEW t \in Task, LeaseLapses(t), UNCHANGED controllerVars
      PROVE  StageInv'
  <2>1. QueueTypeOK' /\ WorkerTypeOK'
    BY <1>4 DEF StageInv, TypeOK, QueueTypeOK, WorkerTypeOK, LeaseLapses,
                DeadlinePasses, workerVars
  <2>2. Kept
    BY <1>4, UntouchedKept DEF StageInv, TypeOK, LeaseLapses, DeadlinePasses, Enqueued
  <2>3. Growing /\ MarkedBeforeAck'
    BY <1>4 DEF StageInv, LeaseLapses, workerVars, Growing, MarkedBeforeAck, HasResult
  <2>4. QED
    BY <1>4, <2>1, <2>2, <2>3, OthersStep
<1>5. CASE UNCHANGED vars
  <2>1. UNCHANGED controllerVars /\ UNCHANGED workerVars /\ UNCHANGED queueVars
    BY <1>5 DEF vars
  <2>2. QueueTypeOK' /\ Kept /\ Growing /\ MarkedBeforeAck'
    BY <2>1, QuietlyKept DEF workerVars, storeVars
  <2>3. WorkerTypeOK'
    BY <2>1 DEF StageInv, TypeOK, WorkerTypeOK, workerVars
  <2>4. QED
    BY <2>1, <2>2, <2>3, OthersStep
<1>6. QED
  BY <1>1, <1>2, <1>3, <1>4, <1>5 DEF Next

LEMMA StageInvHolds == Spec => []StageInv
<1>1. Init => StageInv
  BY InitStageInv
<1>2. StageInv /\ [Next]_vars => StageInv'
  BY NextStageInv
<1>3. QED
  BY <1>1, <1>2, PTL DEF Spec

(* Every variable of a stage's run stays within its type, whatever the     *)
(* heartbeats do (controller.py:155-340).                                  *)
THEOREM StageTypeCorrect == Spec => []TypeOK
<1>1. StageInv => TypeOK
  BY DEF StageInv
<1>2. QED
  BY <1>1, StageInvHolds, PTL

(* No chunk a drain waits for drops out of sight, for any plan, any number *)
(* of workers and of redeliveries, whichever workers die and whichever     *)
(* leases lapse under live workers (controller.py:190-227, 282-340).       *)
THEOREM NoChunkForgotten == Spec => []NoneForgotten
<1>1. StageInv => NoneForgotten
  BY DEF StageInv, Debts
<1>2. QED
  BY <1>1, StageInvHolds, PTL

(* A stage that returns has every chunk of the manifest marked done,       *)
(* whatever was retried, split or skipped on the way                       *)
(* (controller.py:225-227, 311-340).                                       *)
THEOREM StageReturnsComplete == Spec => []ReturnedComplete
<1>1. StageInv => ReturnedComplete
  BY DEF StageInv
<1>2. QED
  BY <1>1, StageInvHolds, PTL

-----------------------------------------------------------------------------
(* While heartbeats are prompt: who has which task.                        *)

(* A task the handler answered with a retry is back in the queue while its *)
(* dead letter still waits to be purged.                                   *)
ToPurge(t) == IF t \in newTasks /\ t \in ToSet(batch) THEN 1 ELSE 0
Dead(t) == Times(dlq, t) > ToPurge(t)

(* What the controller is still going to hand to the queue.                *)
Unsent ==
    IF cpc = "show" THEN ToSet(Tail(toEnqueue)) ELSE ToSet(toEnqueue)
HeldBack == Unsent \cup ToSet(rest)

(* Each task is unsent, kept back, in the queue, dead or gone, in one of   *)
(* these ways only.                                                        *)
Apart ==
    /\ IsInjective(toEnqueue) /\ IsInjective(rest)
    /\ ToSet(toEnqueue) \cap ToSet(rest) = {}
    /\ \A t \in HeldBack : t \notin Enqueued \cup inflight \cup ran
DeadApart ==
    \A t \in Task :
        /\ Times(dlq, t) <= ToPurge(t) + 1
        /\ Dead(t) =>
              /\ t \notin Enqueued \cup inflight \cup HeldBack
              /\ ~Finished(t)

(* The batch is worked off from its head.                                  *)
InOrder ==
    /\ IsInjective(batch) /\ IsInjective(fixing)
    /\ ToSet(fixing) \subseteq ToSet(batch)
    /\ ToSet(batch) \subseteq active
    /\ \A t \in ToSet(fixing) : Dead(t) /\ t \notin newTasks

(* All this is about chunks of the manifest, but for those the batch has   *)
(* just taken from it.                                                     *)
Known == ToSet(manifest) \cup ToSet(batch)
InManifest ==
    /\ ToSet(toEnqueue) \cup ToSet(rest) \cup newTasks \cup ToSet(fixing)
          \subseteq ToSet(manifest)
    /\ Enqueued \cup inflight \cup ran \subseteq ToSet(manifest)
    /\ active \cup DeadLettered \subseteq Known

(* A chunk that was not planned is a part of one that is not listed any    *)
(* more.                                                                   *)
Part(t) ==
    \E whole \in ToSet(Plan) \ ToSet(manifest) :
        Splits(whole) /\ t \in ToSet(Parts[whole])
Grown == \A t \in Known : t \in ToSet(Plan) \/ Part(t)

(* Before the plan nothing has happened.                                   *)
Blank ==
    cpc = "plan" =>
        /\ ready = <<>> /\ inflight = {} /\ dlq = <<>> /\ ran = {}
        /\ manifest = <<>> /\ active = {}
        /\ \A w \in Worker : pc[w] = "off"

(* A stage that is failed by its handler has something to fix.             *)
Unfixed == cpc = "failed" => fixing # <<>>

(* The gate is shut until the smoke task is over.                          *)
Shut == gate /\ rest = Tail(PendingAtStart)
GateHolds == ~Forced /\ Gated /\ cpc # "plan" => SmokeOver \/ Shut

Custody ==
    /\ Leases
    /\ Apart /\ DeadApart /\ InOrder /\ InManifest /\ Grown
    /\ Blank /\ Unfixed /\ GateHolds /\ ManifestExact

LEMMA TimesTypes ==
  ASSUME TypeOK
  PROVE  \A t : /\ Times(dlq, t) \in Nat /\ Times(batch, t) \in Nat
                /\ ToPurge(t) \in {0, 1}
                /\ t \in DeadLettered <=> Times(dlq, t) > 0
BY PlacesFinite, TimesType DEF TypeOK, ToPurge

LEMMA GateStays ==
  ASSUME GateHolds, manifest' = manifest, prior' = prior, ran \subseteq ran',
         cpc # "plan", UNCHANGED <<gate, rest>>
  PROVE  GateHolds'
<1>1. PendingAtStart' = PendingAtStart
  BY DEF PendingAtStart
<1>2. SmokeOver => SmokeOver'
  BY <1>1 DEF SmokeOver, Finished
<1>3. Shut => Shut'
  BY <1>1 DEF Shut
<1>4. QED
  BY <1>1, <1>2, <1>3 DEF GateHolds, Gated

(* A step that hands nothing over, settles nothing and leaves the manifest *)
(* alone.                                                                  *)
LEMMA CustodyKept ==
  ASSUME StageInv, TypeOK', Custody, Leases', Carried,
         \A t \in Task \ ToSet(manifest) : shown'[t] = shown[t],
         UNCHANGED <<rest, gate, active, batch, newTasks, manifest, fixing>>,
         IsInjective(toEnqueue'), ToSet(toEnqueue') \subseteq ToSet(toEnqueue),
         Unsent' = Unsent,
         cpc # "plan", cpc' # "plan", cpc' = "failed" => fixing # <<>>
  PROVE  Custody'
<1>1. /\ HeldBack' = HeldBack /\ Known' = Known
      /\ \A t : ToPurge(t)' = ToPurge(t)
  BY DEF HeldBack, Known, ToPurge
<1>2. \A t \in Task : Times(dlq', t) = Times(dlq, t) \/ Dies(t)
  BY DEF Carried
<1>3. \A t : Times(dlq, t) \in Nat /\ ToPurge(t) \in Nat
  BY TimesTypes DEF StageInv
<1>4. \A t \in Task : Dead(t) => Dead(t)'
  BY <1>1, <1>2, <1>3 DEF Dead, Dies
<1>5. Apart'
  BY <1>1 DEF Custody, Apart, Carried
<1>6. DeadApart'
  <2> SUFFICES ASSUME NEW t \in Task
               PROVE  /\ Times(dlq', t) <= ToPurge(t)' + 1
                      /\ Dead(t)' =>
                            /\ t \notin (Enqueued \cup inflight)' /\ t \notin HeldBack'
                            /\ ~Finished(t)'
    BY DEF DeadApart
  <2>1. CASE Times(dlq', t) = Times(dlq, t)
    <3>1. Dead(t)' <=> Dead(t)
      BY <1>1, <2>1 DEF Dead
    <3>2. Dead(t) => t \notin (Enqueued \cup inflight)' /\ t \notin HeldBack'
      BY <1>1 DEF Custody, DeadApart, Carried
    <3>3. ASSUME Dead(t) PROVE ~Finished(t)'
      <4>1. ~Finished(t) /\ t \notin Enqueued \cup inflight
        BY <3>3 DEF Custody, DeadApart
      <4>2. QED
        BY <4>1 DEF Finished, Carried
    <3>4. QED
      BY <1>1, <2>1, <3>1, <3>2, <3>3 DEF Custody, DeadApart
  <2>2. CASE Dies(t)
    <3>1. t \in inflight /\ t \notin (Enqueued \cup inflight)' /\ ~Finished(t)'
      BY <2>2 DEF Dies
    <3>2. ~Dead(t) /\ t \notin HeldBack
      BY <3>1 DEF Custody, DeadApart, Apart
    <3>3. Times(dlq', t) <= ToPurge(t) + 1
      BY <1>3, <2>2, <3>2 DEF Dead, Dies
    <3>4. QED
      BY <1>1, <3>1, <3>2, <3>3
  <2>3. QED
    BY <1>2, <2>1, <2>2
<1>7. InOrder'
  <2>1. ToSet(fixing) \subseteq Task
    BY ElementOfSeq DEF StageInv, TypeOK, ToSet
  <2>2. QED
    BY <1>4, <2>1 DEF Custody, InOrder
<1>8. InManifest'
  <2>1. (Enqueued \cup inflight)' \cup ran' \subseteq ToSet(manifest)
    BY DEF Custody, InManifest, Carried
  <2>2. ASSUME NEW t \in DeadLettered' PROVE t \in Known
    <3>1. t \in Task /\ Times(dlq', t) > 0
      <4>1. dlq' \in Seq(Task) /\ t \in ToSet(dlq')
        BY DEF TypeOK, QueueTypeOK, DeadLettered
      <4>2. QED
        BY <4>1, PlacesFinite, ElementOfSeq DEF ToSet
    <3>2. CASE Times(dlq', t) = Times(dlq, t)
      BY <3>1, <3>2, TimesTypes DEF StageInv, Custody, InManifest
    <3>3. CASE Dies(t)
      BY <3>3 DEF Dies, Custody, InManifest, Known
    <3>4. QED
      BY <1>2, <3>1, <3>2, <3>3
  <2>3. QED
    BY <1>1, <2>1, <2>2 DEF Custody, InManifest
<1>9. Grown'
  BY <1>1 DEF Custody, Grown, Part
<1>10. Blank' /\ Unfixed'
  BY DEF Blank, Unfixed
<1>11. GateHolds'
  BY GateStays DEF Custody, Carried
<1>12. ManifestExact'
  <2>1. \A t \in Task : Skipped(t) => Skipped(t)'
    BY DEF Skipped
  <2>2. \A t \in ToSet(Plan) : t \in Task /\ ToSet(Parts[t]) \subseteq Task
    BY PlanAssumption, ElementOfSeq DEF ToSet
  <2>3. \A t \in ToSet(Plan) : SplitUp(t) => SplitUp(t)'
    BY <2>1, <2>2 DEF SplitUp
  <2>4. QED
    BY <2>1, <2>2, <2>3 DEF Custody, ManifestExact
<1>13. QED
  BY <1>5, <1>6, <1>7, <1>8, <1>9, <1>10, <1>11, <1>12 DEF Custody

(* The steps that leave the queue, the threads' tasks and the markers.     *)
LEMMA StillLeases ==
  ASSUME QueueTypeOK, Leases,
         UNCHANGED <<ready, inflight, lapsed, dlq, work, prior, ran>>,
         \A w \in Worker : pc'[w] = pc[w] \/ (pc[w] = "off" /\ pc'[w] = "poll")
  PROVE  Leases' /\ Carried
<1>1. \A w \in Worker : work[w] \in Task => work[w] \notin lapsed'
  BY LapsedFacts
<1>2. Leases'
  BY <1>1, UndisturbedLeases
<1>3. Carried
  BY DEF Carried, Enqueued
<1>4. QED
  BY <1>2, <1>3

LEMMA UnsentStays ==
  ASSUME UNCHANGED toEnqueue, cpc # "show", cpc' # "show"
  PROVE  Unsent' = Unsent
BY DEF Unsent

(* A step of a worker or of the clock: there is none before the plan.      *)
LEMMA OthersCustody ==
  ASSUME StageInv, StageInv', Custody, Leases', Moved, UNCHANGED controllerVars,
         cpc # "plan"
  PROVE  Custody'
<1>1. /\ UNCHANGED <<cpc, toEnqueue, rest, gate, active, batch, newTasks, manifest, fixing>>
      /\ TypeOK'
  BY DEF controllerVars, drainVars, fixVars, StageInv
<1>2. Unsent' = Unsent
  BY <1>1 DEF Unsent
<1>3. \A t \in Task \ ToSet(manifest) : shown'[t] = shown[t]
  BY DEF Moved, Carried, Custody, InManifest
<1>4. IsInjective(toEnqueue') /\ (cpc' = "failed" => fixing # <<>>)
  BY <1>1 DEF Custody, Apart, Unfixed
<1>5. QED
  BY <1>1, <1>2, <1>3, <1>4, CustodyKept DEF Moved

LEMMA NobodyPlans ==
  ASSUME StageInv, Custody,
         \/ \E w \in Worker : WorkerStep(w)
         \/ \E t \in Task : LeaseLapses(t)
  PROVE  cpc # "plan"
<1> SUFFICES ASSUME cpc = "plan" PROVE FALSE
  OBVIOUS
<1>1. inflight = {} /\ \A w \in Worker : pc[w] = "off"
  BY DEF Custody, Blank
<1>2. ASSUME NEW w \in Worker, WorkerStep(w) PROVE FALSE
  BY <1>1, <1>2
     DEF WorkerStep, WorkerProgress, ClaimTask, FindNothing, IdleExit, Check,
         ShowSkipped, Start, DieStarting, Publish, Raise, ShowSuccess, AckTask,
         WriteFailure, DieFailing, ShowFailed, FailTask, Heartbeat
<1>3. ASSUME NEW t \in Task, LeaseLapses(t) PROVE FALSE
  BY <1>1, <1>3 DEF LeaseLapses, DeadlinePasses
<1>4. QED
  BY <1>2, <1>3

(* The steps of the controller that leave the tasks where they are.        *)
LEMMA LookingCustody ==
  ASSUME StageInv, StageInv', Custody, Leases', Carried,
         UNCHANGED <<shown, toEnqueue, rest, gate, fixVars, active>>,
         cpc \notin {"plan", "show"}, cpc' \notin {"plan", "show"},
         cpc' = "failed" => fixing # <<>>
  PROVE  Custody'
<1>1. Unsent' = Unsent
  BY UnsentStays
<1>2. IsInjective(toEnqueue') /\ TypeOK'
  BY DEF Custody, Apart, StageInv
<1>3. QED
  BY <1>1, <1>2, CustodyKept DEF fixVars

LEMMA SizeFleetCustody ==
  ASSUME StageInv, StageInv', Custody, SizeFleet PROVE Custody'
<1>1. QueueTypeOK /\ WorkerTypeOK /\ Leases
  BY DEF StageInv, TypeOK, Custody
<1>2. Leases' /\ Carried
  <2>1. CASE UNCHANGED queueVars
    BY <1>1, <2>1, StillLeases DEF SizeFleet, queueVars, workerVars
  <2>2. CASE Sweep
    BY <1>1, <2>2, SweepLeases DEF SizeFleet, workerVars, storeVars, Moved
  <2>3. QED
    BY <2>1, <2>2 DEF SizeFleet
<1>3. QED
  BY <1>2, LookingCustody DEF SizeFleet, workerVars, fixVars

LEMMA EnsureFleetCustody ==
  ASSUME StageInv, StageInv', Custody, EnsureFleet PROVE Custody'
<1>1. QueueTypeOK /\ WorkerTypeOK /\ Leases
  BY DEF StageInv, TypeOK, Custody
<1>2. PICK S \in SUBSET (Worker \ Live) : Spawn(S)
  BY DEF EnsureFleet
<1>3. \A w \in Worker : pc'[w] = pc[w] \/ (pc[w] = "off" /\ pc'[w] = "poll")
  BY <1>2 DEF Spawn, Live
<1>4. Leases' /\ Carried
  BY <1>1, <1>2, <1>3, StillLeases DEF EnsureFleet, Spawn, queueVars, storeVars
<1>5. QED
  BY <1>2, <1>4, LookingCustody DEF EnsureFleet, Spawn, fixVars

LEMMA ReadDepthCustody ==
  ASSUME StageInv, StageInv', Custody, ReadDepth PROVE Custody'
<1>1. QueueTypeOK /\ WorkerTypeOK /\ Leases
  BY DEF StageInv, TypeOK, Custody
<1>2. Leases' /\ Carried
  BY <1>1, SweepLeases DEF ReadDepth, workerVars, storeVars, Moved
<1>3. QED
  BY <1>2, LookingCustody DEF ReadDepth, workerVars, fixVars

LEMMA IdlyCustody ==
  ASSUME StageInv, StageInv', Custody, UNCHANGED <<queueVars, workerVars>>,
         UNCHANGED <<toEnqueue, rest, gate, fixVars, active>>,
         cpc \notin {"plan", "show"}, cpc' \notin {"plan", "show"},
         cpc' = "failed" => fixing # <<>>
  PROVE  Custody'
<1>1. QueueTypeOK /\ Leases
  BY DEF StageInv, TypeOK, Custody
<1>2. Leases' /\ Carried
  BY <1>1, StillLeases DEF queueVars, workerVars
<1>3. QED
  BY <1>2, LookingCustody DEF workerVars

LEMMA DeadlineCustody ==
  ASSUME StageInv, StageInv', Custody, DeadlineStrikes PROVE Custody'
BY IdlyCustody DEF DeadlineStrikes, drainVars

LEMMA GiveUpCustody ==
  ASSUME StageInv, StageInv', Custody, GiveUp PROVE Custody'
<1>1. fixing # <<>>
  BY DEF GiveUp, StageInv, Phases
<1>2. QED
  BY <1>1, IdlyCustody DEF GiveUp, drainVars

(* The controller shows a chunk of the manifest.                           *)
LEMMA ShowDeadCustody ==
  ASSUME StageInv, StageInv', Custody, ShowDead PROVE Custody'
<1>1. /\ QueueTypeOK /\ WorkerTypeOK /\ Leases /\ TypeOK'
      /\ fixing \in Seq(Task) /\ fixing # <<>>
  BY DEF StageInv, TypeOK, Custody, ShowDead, Phases
<1>2. Leases' /\ Carried
  BY <1>1, StillLeases DEF ShowDead, queueVars, storeVars
<1>3. Head(fixing) \in ToSet(manifest)
  BY <1>1, HeadTailSet DEF Custody, InManifest
<1>4. \A t \in Task \ ToSet(manifest) : shown'[t] = shown[t]
  BY <1>1, <1>3 DEF ShowDead, Show, WorkerTypeOK
<1>5. /\ UNCHANGED <<toEnqueue, rest, gate, active, batch, newTasks, manifest, fixing>>
      /\ cpc = "fix" /\ cpc' = "act"
  BY DEF ShowDead, drainVars, fixVars
<1>6. Unsent' = Unsent /\ IsInjective(toEnqueue')
  BY <1>5, UnsentStays DEF Custody, Apart
<1>7. QED
  BY <1>1, <1>2, <1>4, <1>5, <1>6, CustodyKept

LEMMA ShowQueuedCustody ==
  ASSUME StageInv, StageInv', Custody, ShowQueued PROVE Custody'
<1>1. /\ QueueTypeOK /\ WorkerTypeOK /\ Leases /\ TypeOK'
      /\ toEnqueue \in Seq(Task) /\ toEnqueue # <<>>
  BY DEF StageInv, TypeOK, Custody, ShowQueued, Phases, Handing
<1>2. Leases' /\ Carried
  BY <1>1, StillLeases DEF ShowQueued, queueVars, storeVars
<1>3. /\ Head(toEnqueue) \in ToSet(manifest)
      /\ ToSet(Tail(toEnqueue)) \subseteq ToSet(toEnqueue)
      /\ IsInjective(Tail(toEnqueue))
  BY <1>1, HeadTailSet DEF Custody, InManifest, Apart
<1>4. \A t \in Task \ ToSet(manifest) : shown'[t] = shown[t]
  BY <1>1, <1>3 DEF ShowQueued, Show, WorkerTypeOK
<1>5. /\ UNCHANGED <<rest, gate, active, batch, newTasks, manifest, fixing>>
      /\ toEnqueue' = Tail(toEnqueue)
      /\ cpc = "show" /\ cpc' \in {"enqueue", "size", "fix", "settle"}
  BY DEF ShowQueued, fixVars
<1>6. Unsent' = Unsent
  BY <1>5 DEF Unsent
<1>7. QED
  BY <1>1, <1>2, <1>3, <1>4, <1>5, <1>6, CustodyKept

(* A task that was kept back enters the queue.                             *)
LEMMA EnqueueNextCustody ==
  ASSUME StageInv, StageInv', Custody, EnqueueNext PROVE Custody'
<1> DEFINE t == Head(toEnqueue)
<1>1. /\ QueueTypeOK /\ Leases
      /\ toEnqueue \in Seq(Task) /\ toEnqueue # <<>>
  BY DEF StageInv, TypeOK, Custody, EnqueueNext, Phases, Handing
<1>2. /\ cpc = "enqueue" /\ cpc' = "show" /\ Enqueue(t)
      /\ UNCHANGED <<toEnqueue, rest, gate, active, batch, fixing, newTasks, manifest>>
      /\ UNCHANGED <<pc, work, prior, ran, shown>>
      /\ UNCHANGED <<inflight, dlq>>
  BY DEF EnqueueNext, Enqueue, drainVars, fixVars, workerVars
<1>3. /\ t \in Task /\ ToSet(toEnqueue) = {t} \cup ToSet(Tail(toEnqueue))
      /\ t \notin ToSet(Tail(toEnqueue))
  BY <1>1, HeadTailSet DEF Custody, Apart
<1>4. /\ Unsent = ToSet(toEnqueue) /\ Unsent' = ToSet(Tail(toEnqueue))
      /\ t \notin ToSet(rest)
  BY <1>2, <1>3 DEF Unsent, Custody, Apart
<1>5. t \in HeldBack /\ HeldBack' = HeldBack \ {t}
  BY <1>2, <1>3, <1>4 DEF HeldBack
<1>6. t \notin Enqueued \cup inflight \cup ran
  BY <1>5 DEF Custody, Apart
<1> HIDE DEF t
<1>7. Leases'
  BY <1>1, <1>2, <1>3, <1>6, EnqueueLeases
<1>8. Enqueued' = Enqueued \cup {t}
  BY <1>1, <1>2, <1>3, EnqueueFacts
<1>9. /\ \A u : (Dead(u)' <=> Dead(u)) /\ ToPurge(u)' = ToPurge(u)
      /\ \A u : Finished(u)' <=> Finished(u)
      /\ Known' = Known
  BY <1>2 DEF Dead, ToPurge, Finished, Known
<1>10. Apart'
  BY <1>2, <1>5, <1>8 DEF Custody, Apart
<1>11. DeadApart'
  BY <1>2, <1>5, <1>8, <1>9 DEF Custody, DeadApart
<1>12. InOrder'
  BY <1>2, <1>9 DEF Custody, InOrder
<1>13. InManifest'
  <2>1. t \in ToSet(manifest)
    BY <1>3 DEF Custody, InManifest
  <2>2. QED
    BY <1>2, <1>8, <1>9, <2>1 DEF Custody, InManifest, DeadLettered
<1>14. Grown' /\ Blank' /\ Unfixed'
  BY <1>2, <1>9 DEF Custody, Grown, Part, Blank, Unfixed
<1>15. GateHolds'
  BY <1>2, GateStays DEF Custody
<1>16. ManifestExact'
  BY <1>2 DEF Custody, ManifestExact, Skipped, SplitUp
<1>17. QED
  BY <1>7, <1>10, <1>11, <1>12, <1>13, <1>14, <1>15, <1>16 DEF Custody

(* What the plan does: the pending chunks are kept back, in order, and the *)
(* gate is shut when the first of them goes ahead.                         *)
LEMMA PendingPlanned ==
  ASSUME ran = {}, UNCHANGED prior
  PROVE  PendingAtStart' = Only(Plan, Pending)
<1>1. {i \in DOMAIN Plan : Plan[i] \in {t \in Task : Forced \/ t \notin prior}}
        = {i \in DOMAIN Plan : Plan[i] \in Pending}
  <2>1. \A i \in DOMAIN Plan : Plan[i] \in Task /\ Plan[i] \in ToSet(Plan)
    BY PlanAssumption, ElementOfSeq DEF ToSet
  <2>2. QED
    BY <2>1 DEF Pending, HasResult
<1>2. QED
  BY <1>1 DEF PendingAtStart, Only

LEMMA PlanStageCustody ==
  ASSUME StageInv, StageInv', Custody, PlanStage PROVE Custody'
<1> DEFINE p == Only(Plan, Pending)
<1>1. /\ cpc = "plan" /\ cpc' \in {"returned", "enqueue"} /\ manifest' = Plan
      /\ UNCHANGED <<ready, inflight, lapsed, dlq, pc, work, prior, ran, failures>>
      /\ UNCHANGED <<batch, fixing, newTasks>>
  BY DEF PlanStage, PlanFor, Launch, queueVars, storeVars
<1>2. /\ ready = <<>> /\ inflight = {} /\ dlq = <<>> /\ ran = {}
      /\ manifest = <<>> /\ active = {}
      /\ toEnqueue = <<>> /\ batch = <<>> /\ newTasks = {}
      /\ QueueTypeOK /\ Leases
  BY <1>1 DEF Custody, Blank, StageInv, Phases, Quiet, Handing, TypeOK
<1>3. /\ Plan \in Seq(Task) /\ p \in Seq(Task)
      /\ IsInjective(Plan) /\ IsInjective(p)
      /\ ToSet(p) \subseteq ToSet(Plan)
  <2>1. Plan \in Seq(Task) /\ IsInjective(Plan)
    BY PlanAssumption DEF IsInjective
  <2>2. QED
    BY <2>1, OnlyFacts, OnlyInjective
<1>4. /\ Enqueued = {} /\ DeadLettered = {} /\ ToSet(fixing) = {}
      /\ ToSet(manifest) = {} /\ ToSet(batch) = {} /\ ToSet(rest) = {}
  BY <1>2 DEF Enqueued, DeadLettered, Custody, InOrder, InManifest, ToSet
<1>5. /\ IsInjective(toEnqueue') /\ IsInjective(rest')
      /\ ToSet(toEnqueue') \cap ToSet(rest') = {}
      /\ ToSet(toEnqueue') \cup ToSet(rest') \cup active' \subseteq ToSet(Plan)
      /\ Smoke /\ Len(p) > 1 => gate' /\ rest' = Tail(p)
  <2>1. CASE p = <<>> /\ UNCHANGED drainVars
    <3>1. ToSet(toEnqueue) = {} /\ ~(Len(p) > 1)
      BY <1>2, <2>1 DEF ToSet
    <3>2. QED
      BY <1>2, <1>4, <2>1, <3>1 DEF drainVars, Custody, Apart
  <2>2. CASE Smoke /\ Len(p) > 1 /\ Launch(<<Head(p)>>, Tail(p), TRUE)
    <3>1. /\ toEnqueue' = <<Head(p)>> /\ rest' = Tail(p) /\ gate' = TRUE
          /\ active' = ToSet(<<Head(p)>>)
      BY <2>2 DEF Launch
    <3>2. p # <<>>
      BY <1>3, <2>2
    <3>3. /\ IsInjective(Tail(p)) /\ Head(p) \notin ToSet(Tail(p))
          /\ ToSet(p) = {Head(p)} \cup ToSet(Tail(p))
      BY <1>3, <3>2, HeadTailSet
    <3>4. IsInjective(<<Head(p)>>) /\ ToSet(<<Head(p)>>) = {Head(p)}
      BY DEF IsInjective, ToSet
    <3>5. QED
      BY <1>3, <3>1, <3>2, <3>3, <3>4
  <2>3. CASE p # <<>> /\ ~(Smoke /\ Len(p) > 1) /\ Launch(p, <<>>, FALSE)
    <3>1. toEnqueue' = p /\ rest' = <<>> /\ active' = ToSet(p)
      BY <2>3 DEF Launch
    <3>2. IsInjective(<<>>) /\ ToSet(<<>>) = {}
      BY DEF IsInjective, ToSet
    <3>3. QED
      BY <1>3, <2>3, <3>1, <3>2
  <2>4. QED
    BY <2>1, <2>2, <2>3 DEF PlanStage, PlanFor
<1> HIDE DEF p
<1>6. Leases' /\ Carried
  BY <1>1, <1>2, StillLeases
<1>7. /\ Known' = ToSet(Plan) /\ HeldBack' \subseteq ToSet(Plan)
      /\ (Enqueued \cup inflight \cup ran)' = {} /\ DeadLettered' = {}
      /\ ToSet(fixing') = {}
  BY <1>1, <1>2, <1>4, <1>5
     DEF Known, HeldBack, Unsent, Enqueued, DeadLettered
<1>8. Apart'
  BY <1>5, <1>7 DEF Apart
<1>9. DeadApart'
  <2>1. \A t \in Task : Times(dlq', t) = 0
    BY <1>1, <1>2, FS_EmptySet DEF Times, Places
  <2>2. \A t : ToPurge(t)' \in {0, 1}
    BY DEF ToPurge
  <2>3. \A t \in Task : ~Dead(t)' /\ Times(dlq', t) <= ToPurge(t)' + 1
    BY <2>1, <2>2 DEF Dead
  <2>4. QED
    BY <2>3 DEF DeadApart
<1>10. InOrder'
  BY <1>1, <1>2, <1>4, <1>7 DEF Custody, InOrder
<1>11. InManifest'
  BY <1>1, <1>2, <1>5, <1>7 DEF InManifest
<1>12. Grown' /\ Blank' /\ Unfixed'
  BY <1>1, <1>7 DEF Grown, Blank, Unfixed
<1>13. GateHolds'
  <2>1. PendingAtStart' = p
    BY <1>1, <1>2, PendingPlanned DEF p
  <2>2. QED
    BY <1>5, <2>1 DEF GateHolds, Gated, Shut
<1>14. ManifestExact'
  BY <1>1, <1>3 DEF ManifestExact
<1>15. QED
  BY <1>6, <1>8, <1>9, <1>10, <1>11, <1>12, <1>13, <1>14 DEF Custody

(* Nothing has been handled when the dead letters are looked for.          *)
LEMMA FindDeadCustody ==
  ASSUME StageInv, StageInv', Custody, FindDead PROVE Custody'
<1> DEFINE dead == Only(dlq, active)
<1>1. /\ cpc = "dead" /\ cpc' \in {"done", "fix", "failed"}
      /\ cpc' = "failed" => dead # <<>>
      /\ batch' = dead /\ fixing' = dead
      /\ UNCHANGED <<ready, inflight, lapsed, dlq, pc, work, prior, ran, shown>>
      /\ UNCHANGED <<toEnqueue, rest, gate, active, newTasks, manifest>>
  BY DEF FindDead, Handle, queueVars, workerVars, drainVars
<1>2. batch = <<>> /\ newTasks = {} /\ toEnqueue = <<>> /\ dlq \in Seq(Task)
  BY <1>1 DEF StageInv, Phases, Quiet, Handing, TypeOK, QueueTypeOK
<1>3. /\ QueueTypeOK /\ Leases /\ ToSet(batch) = {}
      /\ \A t : ToPurge(t) = 0 /\ ToPurge(t)' = 0
  BY <1>1, <1>2 DEF StageInv, TypeOK, Custody, ToSet, ToPurge
<1>4. IsInjective(dlq)
  <2>1. ASSUME NEW t PROVE Times(dlq, t) <= 1
    <3>1. CASE t \in Task
      BY <1>3, <3>1 DEF Custody, DeadApart
    <3>2. CASE t \notin Task
      <4>1. t \notin ToSet(dlq)
        BY <1>2, <3>2, ElementOfSeq DEF ToSet
      <4>2. QED
        BY <1>2, <4>1, PlacesFinite
    <3>3. QED
      BY <3>1, <3>2
  <2>2. QED
    BY <1>2, <2>1, InjectiveTimes
<1>5. IsInjective(dead) /\ ToSet(dead) = ToSet(dlq) \cap active
  BY <1>2, <1>4, OnlyInjective, OnlyFacts
<1> HIDE DEF dead
<1>6. Leases' /\ Carried
  BY <1>1, <1>3, StillLeases
<1>7. active \subseteq ToSet(manifest) /\ DeadLettered \subseteq ToSet(manifest)
  BY <1>3 DEF Custody, InManifest, Known
<1>8. /\ Known' = ToSet(manifest) /\ Known = ToSet(manifest)
      /\ HeldBack' = HeldBack /\ Enqueued' = Enqueued /\ DeadLettered' = DeadLettered
      /\ \A t : (Dead(t)' <=> Dead(t)) /\ (Finished(t)' <=> Finished(t))
  BY <1>1, <1>3, <1>5, <1>7
     DEF Known, HeldBack, Unsent, Enqueued, DeadLettered, Dead, Finished
<1>9. Apart' /\ DeadApart'
  BY <1>1, <1>3, <1>8 DEF Custody, Apart, DeadApart
<1>10. InOrder'
  <2>1. ASSUME NEW t \in ToSet(dead) PROVE Dead(t)
    <3>1. Times(dlq, t) > 0
      BY <1>2, <1>5, <2>1, PlacesFinite
    <3>2. QED
      BY <1>3, <3>1 DEF Dead
  <2>2. QED
    BY <1>1, <1>2, <1>5, <1>8, <2>1 DEF InOrder
<1>11. InManifest'
  BY <1>1, <1>2, <1>5, <1>7, <1>8 DEF Custody, InManifest
<1>12. Grown' /\ Blank' /\ Unfixed'
  BY <1>1, <1>8 DEF Custody, Grown, Part, Blank, Unfixed
<1>13. GateHolds'
  BY <1>1, GateStays DEF Custody
<1>14. ManifestExact'
  BY <1>1 DEF Custody, ManifestExact, Skipped, SplitUp
<1>15. QED
  BY <1>6, <1>9, <1>10, <1>11, <1>12, <1>13, <1>14 DEF Custody

(* A purge takes the first letter of each task that was handled.           *)
LEMMA LettersPurged ==
  ASSUME dlq \in Seq(Task), batch \in Seq(Task), NEW t \in ToSet(batch)
  PROVE  Times(Pick(dlq, LettersLeft), t) <= Most(1, Times(dlq, t)) - 1
<1> DEFINE P == Places(dlq, t)
           Q == LettersLeft \cap P
           i == Nth(P, 1)
<1>1. /\ LettersLeft \in SUBSET DOMAIN dlq
      /\ Len(dlq) \in Nat /\ DOMAIN dlq = 1 .. Len(dlq)
      /\ IsFiniteSet(P) /\ Cardinality(P) \in Nat /\ Cardinality(P) = Times(dlq, t)
  BY PlacesFinite DEF LettersLeft, Times
<1>2. Times(Pick(dlq, LettersLeft), t) <= Cardinality(Q)
  BY <1>1, PickFacts
<1>3. Times(Pick(dlq, LettersLeft), t) \in Nat
  BY <1>1, PickFacts, PlacesFinite
<1>4. CASE P = {}
  <2>1. Cardinality(Q) = 0 /\ Cardinality(P) = 0
    BY <1>4, FS_EmptySet
  <2>2. QED
    BY <1>1, <1>2, <1>3, <2>1 DEF Most
<1>5. CASE P # {}
  <2>1. Cardinality(P) >= 1
    BY <1>1, <1>5, FS_EmptySet
  <2>2. P \in SUBSET (1 .. Len(dlq))
    BY <1>1 DEF Places
  <2>3. i \in P /\ Cardinality({j \in P : j <= i}) = 1
    <3>1. 1 \in 1 .. Cardinality(P)
      BY <1>1, <2>1
    <3>2. QED
      BY <1>1, <2>2, <3>1, NthFacts
  <2> HIDE DEF i
  <2>4. i \in DOMAIN dlq /\ dlq[i] = t
    BY <2>3 DEF Places
  <2>5. {j \in 1 .. i : dlq[j] = dlq[i]} = {j \in P : j <= i}
    BY <1>1, <2>4 DEF Places
  <2>6. Cardinality({k \in DOMAIN batch : batch[k] = dlq[i]}) >= 1
    <3>1. {k \in DOMAIN batch : batch[k] = dlq[i]} = Places(batch, t)
      BY <2>4 DEF Places
    <3>2. Times(batch, t) > 0 /\ Times(batch, t) \in Nat
      BY PlacesFinite
    <3>3. Times(batch, t) >= 1
      BY <3>2
    <3>4. QED
      BY <3>1, <3>3 DEF Times
  <2>7. i \notin LettersLeft
    <3>1. {k \in DOMAIN batch : batch[k] = dlq[i]} = Places(batch, t)
      BY <2>4 DEF Places
    <3>2. Cardinality({k \in DOMAIN batch : batch[k] = dlq[i]}) \in Nat
      BY <3>1, PlacesFinite DEF Times
    <3>3. Cardinality({j \in 1 .. i : dlq[j] = dlq[i]}) = 1
      BY <2>3, <2>5
    <3>4. QED
      BY <2>6, <3>2, <3>3 DEF LettersLeft
  <2>8. Cardinality(Q) <= Cardinality(P) - 1
    <3>1. Q \subseteq P \ {i}
      BY <2>7
    <3>2. IsFiniteSet(P \ {i}) /\ Cardinality(P \ {i}) = Cardinality(P) - 1
      BY <1>1, <2>3, FS_RemoveElement
    <3>3. QED
      BY <3>1, <3>2, FS_Subset
  <2>9. Cardinality(Q) \in Nat
    BY <1>1, FS_Subset, FS_CardinalityType
  <2>10. QED
    BY <1>1, <1>2, <1>3, <2>1, <2>8, <2>9 DEF Most
<1>6. QED
  BY <1>4, <1>5

(* What was handled is settled: one letter of each is purged.              *)
LEMMA SettleCustody ==
  ASSUME StageInv, StageInv', Custody, Settle PROVE Custody'
<1>1. /\ cpc = "settle" /\ cpc' = "depth"
      /\ active' = (active \ ToSet(batch)) \cup newTasks
      /\ dlq' = Pick(dlq, LettersLeft)
      /\ batch' = <<>> /\ newTasks' = {}
      /\ UNCHANGED <<ready, inflight, lapsed, pc, work, prior, ran, shown>>
      /\ UNCHANGED <<toEnqueue, rest, gate, fixing, manifest>>
  BY DEF Settle, SettleWith, workerVars, storeVars
<1>2. /\ QueueTypeOK /\ Leases /\ TypeOK /\ fixing = <<>>
      /\ dlq \in Seq(Task) /\ batch \in Seq(Task)
      /\ ToSet(batch') = {} /\ ToSet(fixing) = {}
  <2>1. ToSet(<<>>) = {}
    BY DEF ToSet
  <2>2. QED
    BY <1>1, <2>1 DEF Custody, StageInv, TypeOK, QueueTypeOK, Phases
<1>3. \A t : ToPurge(t)' = 0
  BY <1>1 DEF ToPurge
<1>4. ASSUME NEW t \in Task
      PROVE  /\ Times(dlq', t) \in Nat /\ Times(dlq', t) <= 1
             /\ Times(dlq', t) > 0 => Dead(t) /\ (t \in ToSet(batch) => t \in newTasks)
  <2>1. /\ Times(dlq, t) \in Nat /\ ToPurge(t) \in {0, 1}
        /\ Times(dlq, t) <= ToPurge(t) + 1
        /\ ToPurge(t) = 1 <=> t \in newTasks /\ t \in ToSet(batch)
    BY <1>2, TimesTypes DEF Custody, DeadApart, ToPurge
  <2>2. LettersLeft \in SUBSET DOMAIN dlq
    BY DEF LettersLeft
  <2>3. Times(dlq', t) \in Nat /\ Times(dlq', t) <= Times(dlq, t)
    BY <1>1, <1>2, <2>2, PickFacts, PlacesFinite
  <2>4. CASE t \in ToSet(batch)
    <3>1. Times(dlq', t) <= Most(1, Times(dlq, t)) - 1
      BY <1>1, <1>2, <2>4, LettersPurged
    <3>2. QED
      BY <2>1, <2>3, <3>1 DEF Most, Dead
  <2>5. CASE t \notin ToSet(batch)
    BY <2>1, <2>3, <2>5 DEF Dead
  <2>6. QED
    BY <2>4, <2>5
<1>5. Leases'
  <2>1. \A w \in Worker : work[w] \in Task => work[w] \notin lapsed'
    BY <1>1, <1>2, LapsedFacts
  <2>2. QED
    BY <1>1, <1>2, <2>1, UndisturbedLeases
<1>6. /\ HeldBack' = HeldBack /\ Enqueued' = Enqueued
      /\ \A t : Finished(t)' <=> Finished(t)
      /\ Known' = ToSet(manifest)
  BY <1>1, <1>2 DEF HeldBack, Unsent, Enqueued, Finished, Known
<1>7. Apart'
  BY <1>1, <1>6 DEF Custody, Apart
<1>8. DeadApart'
  <2>1. \A t \in Task : Dead(t)' => Dead(t)
    BY <1>1, <1>3, <1>4 DEF Dead
  <2>2. \A t \in Task : Times(dlq', t) <= ToPurge(t)' + 1
    BY <1>3, <1>4
  <2>3. QED
    BY <1>1, <1>6, <2>1, <2>2 DEF Custody, DeadApart
<1>9. InOrder'
  BY <1>1, <1>2 DEF Custody, InOrder, IsInjective, ToSet
<1>10. InManifest'
  <2>1. active' \subseteq ToSet(manifest)
    BY <1>1 DEF Custody, InManifest, Known
  <2>2. ASSUME NEW t \in DeadLettered' PROVE t \in ToSet(manifest)
    <3>1. dlq' \in Seq(Task) /\ t \in ToSet(dlq')
      BY DEF StageInv, TypeOK, QueueTypeOK, DeadLettered
    <3>2. t \in Task /\ Times(dlq', t) > 0
      BY <3>1, PlacesFinite, ElementOfSeq DEF ToSet
    <3>3. Dead(t) /\ (t \in ToSet(batch) => t \in newTasks)
      BY <1>4, <3>2
    <3>4. t \in DeadLettered
      BY <1>2, <3>3, TimesTypes DEF Dead
    <3>5. QED
      BY <3>3, <3>4 DEF Custody, InManifest, Known
  <2>3. QED
    BY <1>1, <1>2, <1>6, <2>1, <2>2 DEF Custody, InManifest
<1>11. Grown' /\ Blank' /\ Unfixed'
  BY <1>1, <1>6 DEF Custody, Grown, Part, Known, Blank, Unfixed
<1>12. GateHolds'
  BY <1>1, GateStays DEF Custody
<1>13. ManifestExact'
  BY <1>1 DEF Custody, ManifestExact, Skipped, SplitUp
<1>14. QED
  BY <1>5, <1>7, <1>8, <1>9, <1>10, <1>11, <1>12, <1>13 DEF Custody

(* The gate opens when what was waited for is done: the smoke task, or     *)
(* what the handler made of it.                                            *)
LEMMA PendingFacts ==
  /\ PendingAtStart \in Seq(Task) /\ IsInjective(PendingAtStart)
  /\ ToSet(PendingAtStart) \subseteq ToSet(Plan)
<1>1. Plan \in Seq(Task) /\ IsInjective(Plan)
  BY PlanAssumption DEF IsInjective
<1>2. QED
  BY <1>1, OnlyFacts, OnlyInjective DEF PendingAtStart

LEMMA SmokeFacts ==
  ASSUME Gated
  PROVE  /\ Head(PendingAtStart) \in ToSet(Plan)
         /\ ToSet(Tail(PendingAtStart)) \subseteq ToSet(Plan)
         /\ Head(PendingAtStart) \notin ToSet(Tail(PendingAtStart))
<1>1. PendingAtStart # <<>>
  BY PendingFacts DEF Gated
<1>2. QED
  BY <1>1, PendingFacts, HeadTailSet

LEMMA GateOpens ==
  ASSUME StageInv, Custody, cpc = "done", \A t \in active : HasResult(t),
         Gated, ~Forced
  PROVE  SmokeOver
<1>1. CASE SmokeOver
  BY <1>1
<1>2. CASE Shut
  <2> DEFINE smoke == Head(PendingAtStart)
  <2>1. SUFFICES ASSUME NEW t \in {smoke} \cup ToSet(Parts[smoke]), t \in ToSet(manifest)
                 PROVE  Finished(t)
    BY DEF SmokeOver
  <2>2. t \notin ToSet(rest)
    BY <1>2, SmokeFacts, PlanAssumption DEF Shut
  <2>3. newTasks = {}
    BY DEF StageInv, Phases, Quiet
  <2>4. HasResult(t)
    BY <2>1, <2>2, <2>3 DEF StageInv, Listed, Awaited
  <2>5. QED
    BY <2>4 DEF HasResult, Finished
<1>3. QED
  BY <1>1, <1>2 DEF Custody, GateHolds

LEMMA CheckDoneCustody ==
  ASSUME StageInv, StageInv', Custody, CheckDone PROVE Custody'
<1>1. CASE cpc' \in {"depth", "returned"} /\ UNCHANGED drainVars
  BY <1>1, IdlyCustody DEF CheckDone, Conclude, drainVars
<1>2. CASE (\A t \in active : HasResult(t)) /\ gate /\ Launch(rest, <<>>, FALSE)
  <2>1. /\ cpc = "done" /\ cpc' = "enqueue"
        /\ toEnqueue' = rest /\ rest' = <<>> /\ active' = ToSet(rest)
        /\ UNCHANGED <<ready, inflight, lapsed, dlq, pc, work, prior, ran, shown>>
        /\ UNCHANGED <<batch, fixing, newTasks, manifest>>
    BY <1>2 DEF CheckDone, Conclude, Launch, queueVars, workerVars, storeVars, fixVars
  <2>2. /\ QueueTypeOK /\ Leases /\ toEnqueue = <<>>
        /\ batch = <<>> /\ newTasks = {}
    BY <2>1 DEF Custody, StageInv, TypeOK, Phases, Handing, Quiet
  <2>3. ToSet(<<>>) = {} /\ IsInjective(<<>>)
    BY DEF ToSet, IsInjective
  <2>4. Leases' /\ Carried
    BY <2>1, <2>2, StillLeases
  <2>5. /\ HeldBack = ToSet(rest) /\ HeldBack' = ToSet(rest)
        /\ Enqueued' = Enqueued /\ DeadLettered' = DeadLettered /\ Known' = Known
        /\ \A t : (Dead(t)' <=> Dead(t)) /\ ToPurge(t)' = ToPurge(t)
        /\ \A t : Finished(t)' <=> Finished(t)
    BY <2>1, <2>2, <2>3
       DEF HeldBack, Unsent, Enqueued, DeadLettered, Known, Dead, ToPurge, Finished
  <2>6. Apart' /\ DeadApart'
    BY <2>1, <2>3, <2>5 DEF Custody, Apart, DeadApart
  <2>7. InOrder' /\ InManifest'
    BY <2>1, <2>2, <2>3, <2>5 DEF Custody, InOrder, InManifest, Known
  <2>8. Grown' /\ Blank' /\ Unfixed'
    BY <2>1, <2>5 DEF Custody, Grown, Part, Blank, Unfixed
  <2>9. GateHolds'
    <3>1. PendingAtStart' = PendingAtStart
      BY <2>1 DEF PendingAtStart
    <3>2. SmokeOver => SmokeOver'
      BY <2>1, <3>1 DEF SmokeOver, Finished
    <3>3. Gated /\ ~Forced => SmokeOver
      BY <1>2, <2>1, GateOpens
    <3>4. QED
      BY <3>1, <3>2, <3>3 DEF GateHolds, Gated
  <2>10. ManifestExact'
    BY <2>1 DEF Custody, ManifestExact, Skipped, SplitUp
  <2>11. QED
    BY <2>4, <2>6, <2>7, <2>8, <2>9, <2>10 DEF Custody
<1>3. QED
  BY <1>1, <1>2 DEF CheckDone, Conclude

-----------------------------------------------------------------------------
(* The remediations.                                                       *)

(* What is known of the task that is being handled.                        *)
LEMMA HandledFacts ==
  ASSUME StageInv, Custody, cpc = "act"
  PROVE  /\ fixing # <<>> /\ fixing \in Seq(Task) /\ toEnqueue = <<>>
         /\ Head(fixing) \in Task
         /\ ToSet(fixing) = {Head(fixing)} \cup ToSet(Tail(fixing))
         /\ IsInjective(Tail(fixing)) /\ Head(fixing) \notin ToSet(Tail(fixing))
         /\ Head(fixing) \in ToSet(manifest) /\ Head(fixing) \in ToSet(batch)
         /\ Head(fixing) \notin newTasks
         /\ Dead(Head(fixing)) /\ ~Finished(Head(fixing))
         /\ Times(dlq, Head(fixing)) = 1
         /\ Head(fixing) \notin Enqueued \cup inflight \cup ran \cup HeldBack
         /\ HeldBack = ToSet(rest)
<1>1. fixing # <<>> /\ fixing \in Seq(Task) /\ toEnqueue = <<>> /\ TypeOK
  BY DEF StageInv, Phases, Handing, TypeOK
<1>2. /\ Head(fixing) \in Task
      /\ ToSet(fixing) = {Head(fixing)} \cup ToSet(Tail(fixing))
      /\ IsInjective(Tail(fixing)) /\ Head(fixing) \notin ToSet(Tail(fixing))
  BY <1>1, HeadTailSet DEF Custody, InOrder
<1>3. /\ Head(fixing) \in ToSet(manifest) /\ Head(fixing) \in ToSet(batch)
      /\ Head(fixing) \notin newTasks /\ Dead(Head(fixing))
  BY <1>2 DEF Custody, InOrder, InManifest
<1>4. Times(dlq, Head(fixing)) = 1
  <2>1. ToPurge(Head(fixing)) = 0
    BY <1>3 DEF ToPurge
  <2>2. Times(dlq, Head(fixing)) \in Nat /\ Times(dlq, Head(fixing)) <= 1
    BY <1>1, <1>2, <2>1, TimesTypes DEF Custody, DeadApart
  <2>3. QED
    BY <1>3, <2>1, <2>2 DEF Dead
<1>5. /\ ~Finished(Head(fixing))
      /\ Head(fixing) \notin Enqueued \cup inflight \cup ran \cup HeldBack
  BY <1>2, <1>3 DEF Custody, DeadApart, Finished
<1>6. HeldBack = ToSet(rest)
  BY <1>1 DEF HeldBack, Unsent, ToSet
<1>7. QED
  BY <1>1, <1>2, <1>3, <1>4, <1>5, <1>6

LEMMA RetryWithCustody ==
  ASSUME StageInv, StageInv', Custody, RetryWith PROVE Custody'
<1>0. PICK t \in Task : t = Head(fixing)
  BY HandledFacts DEF RetryWith, MayFix
<1>1. /\ cpc = "act" /\ cpc' = "enqueue"
      /\ toEnqueue' = <<t>> /\ newTasks' = newTasks \cup {t}
      /\ fixing' = Tail(fixing)
      /\ UNCHANGED <<ready, inflight, lapsed, dlq, pc, work, prior, ran, shown>>
      /\ UNCHANGED <<rest, gate, active, batch, manifest>>
  <2>1. ToSet(<<t>>) = {t} /\ <<t>> # <<>>
    BY DEF ToSet
  <2>2. QED
    BY <1>0, <2>1 DEF RetryWith, MayFix, Apply, ApplyAwaiting, storeVars
<1>2. QueueTypeOK /\ Leases
  BY DEF StageInv, TypeOK, Custody
<1>3. /\ ToSet(fixing) = {t} \cup ToSet(Tail(fixing))
      /\ IsInjective(Tail(fixing)) /\ t \notin ToSet(Tail(fixing))
      /\ t \in ToSet(manifest) /\ t \in ToSet(batch) /\ t \notin newTasks
      /\ Times(dlq, t) = 1
      /\ t \notin Enqueued \cup inflight \cup ran \cup HeldBack
      /\ HeldBack = ToSet(rest)
  BY <1>0, <1>1, HandledFacts
<1>4. IsInjective(<<t>>) /\ ToSet(<<t>>) = {t}
  BY DEF IsInjective, ToSet
<1>5. Leases'
  BY <1>1, <1>2, StillLeases
<1>6. /\ HeldBack' = HeldBack \cup {t} /\ Known' = Known
      /\ Enqueued' = Enqueued /\ DeadLettered' = DeadLettered
      /\ \A u : Finished(u)' <=> Finished(u)
  BY <1>1, <1>3, <1>4 DEF HeldBack, Unsent, Known, Enqueued, DeadLettered, Finished
<1>7. ToPurge(t)' = 1 /\ ToPurge(t) = 0 /\ \A u : u # t => ToPurge(u)' = ToPurge(u)
  BY <1>1, <1>3 DEF ToPurge
<1>8. ~Dead(t)' /\ \A u : u # t => (Dead(u)' <=> Dead(u))
  BY <1>1, <1>3, <1>7 DEF Dead
<1>9. Apart'
  BY <1>1, <1>3, <1>4, <1>6 DEF Custody, Apart
<1>10. DeadApart'
  <2>1. SUFFICES ASSUME NEW u \in Task
                 PROVE  /\ Times(dlq, u) <= ToPurge(u)' + 1
                        /\ Dead(u)' => /\ u \notin Enqueued \cup inflight \cup HeldBack'
                                       /\ ~Finished(u)
    BY <1>1, <1>6 DEF DeadApart
  <2>2. CASE u = t
    BY <1>3, <1>7, <1>8, <2>2
  <2>3. CASE u # t
    BY <1>6, <1>7, <1>8, <2>3 DEF Custody, DeadApart
  <2>4. QED
    BY <2>2, <2>3
<1>11. InOrder'
  BY <1>1, <1>3, <1>8 DEF Custody, InOrder
<1>12. InManifest'
  BY <1>1, <1>3, <1>4, <1>6 DEF Custody, InManifest
<1>13. Grown' /\ Blank' /\ Unfixed'
  BY <1>1, <1>6 DEF Custody, Grown, Part, Blank, Unfixed
<1>14. GateHolds'
  BY <1>1, GateStays DEF Custody
<1>15. ManifestExact'
  BY <1>1 DEF Custody, ManifestExact, Skipped, SplitUp
<1>16. QED
  BY <1>5, <1>9, <1>10, <1>11, <1>12, <1>13, <1>14, <1>15 DEF Custody

LEMMA WithoutFacts ==
  ASSUME StageInv, Custody, NEW t \in Task
  PROVE  /\ Without(t) \in Seq(Task) /\ IsInjective(Without(t))
         /\ ToSet(Without(t)) = ToSet(manifest) \ {t}
<1>1. manifest \in Seq(Task) /\ IsInjective(manifest)
  BY DEF StageInv, TypeOK, Custody, ManifestExact
<1>2. ToSet(manifest) \subseteq Task
  BY <1>1, ElementOfSeq DEF ToSet
<1>3. QED
  BY <1>1, <1>2, OnlyFacts, OnlyInjective DEF Without

LEMMA SkipCustody ==
  ASSUME StageInv, StageInv', Custody, Skip PROVE Custody'
<1>0. PICK t \in Task : t = Head(fixing)
  BY HandledFacts DEF Skip, MayFix
<1>1. /\ cpc = "act" /\ cpc' \in {"fix", "settle"}
      /\ toEnqueue' = <<>> /\ newTasks' = newTasks
      /\ fixing' = Tail(fixing) /\ manifest' = Without(t)
      /\ Show(t, "skipped")
      /\ UNCHANGED <<ready, inflight, lapsed, dlq, pc, work, prior, ran>>
      /\ UNCHANGED <<rest, gate, active, batch>>
  <2>1. ToSet(<<>>) = {}
    BY DEF ToSet
  <2>2. QED
    BY <1>0, <2>1 DEF Skip, MayFix, Apply, ApplyAwaiting, queueVars, storeVars
<1>2. QueueTypeOK /\ WorkerTypeOK /\ Leases
  BY DEF StageInv, TypeOK, Custody
<1>3. /\ ToSet(fixing) = {t} \cup ToSet(Tail(fixing))
      /\ IsInjective(Tail(fixing)) /\ t \notin ToSet(Tail(fixing))
      /\ t \in ToSet(batch) /\ t \notin newTasks
      /\ t \notin Enqueued \cup inflight \cup ran \cup HeldBack
      /\ HeldBack = ToSet(rest) /\ toEnqueue = <<>>
  BY <1>0, <1>1, HandledFacts
<1>4. ToSet(manifest') = ToSet(manifest) \ {t} /\ IsInjective(manifest')
  BY <1>1, WithoutFacts
<1>5. /\ shown'[t] = "skipped" /\ \A u \in Task \ {t} : shown'[u] = shown[u]
  BY <1>1, <1>2 DEF Show, WorkerTypeOK
<1>6. Leases'
  BY <1>1, <1>2, StillLeases
<1>7. /\ HeldBack' = HeldBack /\ Known' = Known
      /\ Enqueued' = Enqueued /\ DeadLettered' = DeadLettered
      /\ \A u : (Finished(u)' <=> Finished(u)) /\ (Dead(u)' <=> Dead(u))
      /\ \A u : ToPurge(u)' = ToPurge(u)
  BY <1>1, <1>3, <1>4
     DEF HeldBack, Unsent, Known, Enqueued, DeadLettered, Finished, Dead, ToPurge
<1>8. Apart' /\ DeadApart'
  BY <1>1, <1>3, <1>7 DEF Custody, Apart, DeadApart
<1>9. InOrder'
  BY <1>1, <1>3, <1>7 DEF Custody, InOrder
<1>10. InManifest'
  <2>1. ToSet(toEnqueue') = {}
    BY <1>1 DEF ToSet
  <2>2. QED
    BY <1>1, <1>3, <1>4, <1>7, <2>1 DEF Custody, InManifest
<1>11. Grown' /\ Blank' /\ Unfixed'
  BY <1>1, <1>4, <1>7 DEF Custody, Grown, Part, Blank, Unfixed
<1>12. GateHolds'
  <2>1. PendingAtStart' = PendingAtStart
    BY <1>1 DEF PendingAtStart
  <2>2. SmokeOver => SmokeOver'
    BY <1>4, <1>7, <2>1 DEF SmokeOver
  <2>3. Shut => Shut'
    BY <1>1, <2>1 DEF Shut
  <2>4. QED
    BY <1>1, <2>1, <2>2, <2>3 DEF Custody, GateHolds, Gated
<1>13. ManifestExact'
  <2>1. \A u \in Task : Skipped(u) => Skipped(u)'
    BY <1>4, <1>5 DEF Skipped
  <2>2. Skipped(t)'
    BY <1>4, <1>5 DEF Skipped
  <2>3. ASSUME NEW u \in ToSet(Plan)
        PROVE  (u \in ToSet(manifest) \/ Skipped(u) \/ SplitUp(u))'
    <3>1. u \in Task /\ ToSet(Parts[u]) \subseteq Task
      BY PlanAssumption, ElementOfSeq DEF ToSet
    <3>2. SplitUp(u) => SplitUp(u)'
      BY <1>4, <2>1, <2>2, <3>1 DEF SplitUp
    <3>3. u \in ToSet(manifest) \/ Skipped(u) \/ SplitUp(u)
      BY <1>1 DEF Custody, ManifestExact
    <3>4. QED
      BY <1>4, <2>1, <2>2, <3>1, <3>2, <3>3
  <2>4. QED
    BY <1>4, <2>3 DEF ManifestExact
<1>14. QED
  BY <1>6, <1>8, <1>9, <1>10, <1>11, <1>12, <1>13 DEF Custody

(* The parts of a task of more than one member are new: it was planned,    *)
(* and nothing that is known is a part of it.                              *)
LEMMA FreshParts ==
  ASSUME Custody, NEW t \in Task, t \in ToSet(manifest), Splits(t)
  PROVE  /\ t \in ToSet(Plan)
         /\ ToSet(Parts[t]) \cap (ToSet(Plan) \cup Known) = {}
<1>1. \A u \in ToSet(Plan) : u \in Task
  BY PlanAssumption, ElementOfSeq DEF ToSet
<1>2. t \in ToSet(Plan)
  <2>1. ASSUME Part(t) PROVE FALSE
    <3>1. PICK whole \in ToSet(Plan) : t \in ToSet(Parts[whole])
      BY <2>1 DEF Part
    <3>2. Len(Parts[t]) <= 1 /\ Len(Parts[t]) \in Nat
      BY <1>1, <3>1, PartsAssumption, PlanAssumption
    <3>3. QED
      BY <3>2 DEF Splits
  <2>2. QED
    BY <2>1 DEF Custody, Grown, Known
<1>3. ASSUME NEW u \in ToSet(Parts[t]), u \in Known PROVE FALSE
  <2>1. u \notin ToSet(Plan)
    BY <1>2, PlanAssumption
  <2>2. PICK whole \in ToSet(Plan) \ ToSet(manifest) : u \in ToSet(Parts[whole])
    BY <1>3, <2>1 DEF Custody, Grown, Part
  <2>3. whole # t
    BY <2>2
  <2>4. QED
    BY <1>1, <2>2, <2>3, PartsAssumption
<1>4. QED
  BY <1>2, <1>3, PlanAssumption

LEMMA ResplitCustody ==
  ASSUME StageInv, StageInv', Custody, Resplit PROVE Custody'
<1>0. PICK t \in Task : t = Head(fixing)
  BY HandledFacts DEF Resplit, MayFix
<1> DEFINE subs == Parts[t]
<1>1. /\ cpc = "act" /\ cpc' = "enqueue" /\ Splits(t)
      /\ toEnqueue' = subs /\ newTasks' = newTasks \cup ToSet(subs)
      /\ fixing' = Tail(fixing) /\ manifest' = Without(t) \o subs
      /\ shown' = [u \in Task |-> IF u \in ToSet(subs) /\ shown[u] = Unlisted
                                  THEN "pending" ELSE shown[u]]
      /\ UNCHANGED <<ready, inflight, lapsed, dlq, pc, work, prior, ran>>
      /\ UNCHANGED <<rest, gate, active, batch>>
  <2>1. subs # <<>>
    BY <1>0 DEF Resplit, Splits
  <2>2. QED
    BY <1>0, <2>1 DEF Resplit, MayFix, Apply, ApplyAwaiting, storeVars
<1>2. /\ QueueTypeOK /\ WorkerTypeOK /\ Leases /\ subs \in Seq(Task)
      /\ IsInjective(subs)
  BY PlanAssumption, PartsAssumption DEF StageInv, TypeOK, Custody
<1>3. /\ ToSet(fixing) = {t} \cup ToSet(Tail(fixing))
      /\ IsInjective(Tail(fixing)) /\ t \notin ToSet(Tail(fixing))
      /\ t \in ToSet(batch) /\ t \notin newTasks /\ t \in ToSet(manifest)
      /\ ~Finished(t)
      /\ t \notin Enqueued \cup inflight \cup ran \cup HeldBack
      /\ HeldBack = ToSet(rest) /\ toEnqueue = <<>>
  BY <1>0, <1>1, HandledFacts
<1>4. t \in ToSet(Plan) /\ ToSet(subs) \cap (ToSet(Plan) \cup Known) = {}
  BY <1>1, <1>3, FreshParts
<1> HIDE DEF subs
<1>5. /\ ToSet(manifest') = (ToSet(manifest) \ {t}) \cup ToSet(subs)
      /\ IsInjective(manifest')
  <2>1. ToSet(Without(t)) \cap ToSet(subs) = {}
    BY <1>4, WithoutFacts DEF Known
  <2>2. QED
    BY <1>1, <1>2, <2>1, WithoutFacts, ConcatSet
<1>6. Leases'
  BY <1>1, <1>2, StillLeases
<1>7. /\ HeldBack' = HeldBack \cup ToSet(subs) /\ Known' = Known \cup ToSet(subs)
      /\ Enqueued' = Enqueued /\ DeadLettered' = DeadLettered
      /\ \A u : (Finished(u)' <=> Finished(u))
  BY <1>1, <1>3, <1>5
     DEF HeldBack, Unsent, Known, Enqueued, DeadLettered, Finished
<1>8. \A u : ToPurge(u)' = ToPurge(u) /\ (Dead(u)' <=> Dead(u))
  <2>1. \A u : ToPurge(u)' = ToPurge(u)
    BY <1>1, <1>4 DEF ToPurge, Known
  <2>2. QED
    BY <1>1, <2>1 DEF Dead
<1>9. ToSet(subs) \cap (ToSet(manifest) \cup Enqueued \cup inflight \cup ran \cup DeadLettered) = {}
  BY <1>4 DEF Custody, InManifest, Known
<1>10. Apart'
  <2>1. ToSet(subs) \cap ToSet(rest) = {}
    BY <1>9 DEF Custody, InManifest
  <2>2. QED
    BY <1>1, <1>2, <1>7, <1>9, <2>1 DEF Custody, Apart
<1>11. DeadApart'
  <2>1. ASSUME NEW u \in Task, Dead(u) PROVE u \notin ToSet(subs)
    <3>1. u \in DeadLettered
      BY <2>1, TimesTypes DEF StageInv, Dead
    <3>2. QED
      BY <1>9, <3>1
  <2>2. QED
    BY <1>1, <1>7, <1>8, <2>1 DEF Custody, DeadApart
<1>12. InOrder'
  <2>1. \A u \in ToSet(Tail(fixing)) : u \notin ToSet(subs)
    BY <1>3, <1>9 DEF Custody, InManifest
  <2>2. QED
    BY <1>1, <1>3, <1>8, <2>1 DEF Custody, InOrder
<1>13. InManifest'
  BY <1>1, <1>3, <1>5, <1>7 DEF Custody, InManifest
<1>14. Grown'
  <2>1. ASSUME NEW u \in Known PROVE u \in ToSet(Plan) \/ Part(u)'
    BY <1>4, <1>5 DEF Custody, Grown, Part
  <2>2. ASSUME NEW u \in ToSet(subs) PROVE Part(u)'
    BY <1>1, <1>3, <1>4, <1>5, <2>2 DEF Part, subs, Known
  <2>3. QED
    BY <1>7, <2>1, <2>2 DEF Grown
<1>15. Blank' /\ Unfixed'
  BY <1>1 DEF Blank, Unfixed
<1>16. GateHolds'
  <2>1. PendingAtStart' = PendingAtStart
    BY <1>1 DEF PendingAtStart
  <2>2. ASSUME Gated, SmokeOver PROVE SmokeOver'
    <3> DEFINE smoke == Head(PendingAtStart)
    <3>1. smoke \in ToSet(Plan) /\ smoke \in Task
      BY <2>2, SmokeFacts, PlanAssumption, ElementOfSeq DEF ToSet
    <3>2. smoke # t
      BY <1>3, <2>2 DEF SmokeOver
    <3>3. ({smoke} \cup ToSet(Parts[smoke])) \cap ToSet(subs) = {}
      BY <1>4, <3>1, <3>2, PartsAssumption DEF subs
    <3>4. QED
      BY <1>5, <1>7, <2>1, <2>2, <3>3 DEF SmokeOver
  <2>3. Shut => Shut'
    BY <1>1, <2>1 DEF Shut
  <2>4. QED
    BY <1>1, <2>1, <2>2, <2>3 DEF Custody, GateHolds, Gated
<1>17. ManifestExact'
  <2>1. ASSUME NEW u \in Task, u \notin ToSet(subs), Skipped(u) PROVE Skipped(u)'
    BY <1>1, <1>5, <2>1 DEF Skipped
  <2>2. ASSUME NEW u \in ToSet(Plan)
        PROVE  (u \in ToSet(manifest) \/ Skipped(u) \/ SplitUp(u))'
    <3>1. u \in Task /\ u \notin ToSet(subs) /\ ToSet(Parts[u]) \subseteq Task
      <4>1. u \in Task
        BY PlanAssumption, ElementOfSeq DEF ToSet
      <4>2. Parts[u] \in Seq(Task)
        BY <4>1, PlanAssumption
      <4>3. QED
        BY <1>4, <4>1, <4>2, ElementOfSeq DEF ToSet
    <3>2. CASE u = t
      BY <1>1, <1>5, <3>2 DEF SplitUp, subs
    <3>3. CASE u # t
      <4>1. ToSet(Parts[u]) \cap ToSet(subs) = {} /\ t \notin ToSet(Parts[u])
        BY <1>4, <3>1, <3>3, PartsAssumption, PlanAssumption DEF subs
      <4>2. SplitUp(u) => SplitUp(u)'
        BY <1>5, <2>1, <3>1, <4>1 DEF SplitUp
      <4>3. QED
        BY <1>1, <1>5, <2>1, <3>1, <3>3, <4>2 DEF Custody, ManifestExact
    <3>4. QED
      BY <3>2, <3>3
  <2>3. QED
    BY <1>5, <2>2 DEF ManifestExact
<1>18. QED
  BY <1>6, <1>10, <1>11, <1>12, <1>13, <1>14, <1>15, <1>16, <1>17 DEF Custody

-----------------------------------------------------------------------------
(* Custody holds initially and every step preserves it.                    *)

LEMMA InitCustody == ASSUME Init PROVE Custody
<1> USE DEF Init, QueueInit, WorkerInit
<1>1. ToSet(<<>>) = {} /\ IsInjective(<<>>)
  BY DEF ToSet, IsInjective
<1>2. \A t : Times(dlq, t) = 0 /\ ToPurge(t) = 0
  BY <1>1, FS_EmptySet DEF Times, Places, ToPurge
<1>3. Enqueued = {} /\ DeadLettered = {} /\ HeldBack = {} /\ Known = {}
  BY <1>1 DEF Enqueued, DeadLettered, HeldBack, Unsent, Known
<1>4. Leases
  <2>1. \A w \in Worker : work[w] \notin Task /\ pc[w] = "off"
    BY NoTaskAssumption
  <2>2. QED
    BY <1>1, <1>3, <2>1
       DEF Leases, LeaseHeld, HeldOnce, NotRedone, DoneLeaves, Recomputing
<1>5. Apart /\ DeadApart
  BY <1>1, <1>2, <1>3 DEF Apart, DeadApart, Dead
<1>6. InOrder /\ InManifest /\ Grown
  BY <1>1, <1>3 DEF InOrder, InManifest, Grown
<1>7. Blank /\ Unfixed /\ GateHolds /\ ManifestExact
  BY <1>1 DEF Blank, Unfixed, GateHolds, ManifestExact
<1>8. QED
  BY <1>4, <1>5, <1>6, <1>7 DEF Custody

LEMMA ControllerCustody ==
  ASSUME StageInv, StageInv', Custody, ControllerStep PROVE Custody'
BY PlanStageCustody, EnqueueNextCustody, ShowQueuedCustody, SizeFleetCustody,
   EnsureFleetCustody, ReadDepthCustody, FindDeadCustody, SettleCustody,
   CheckDoneCustody, ShowDeadCustody, GiveUpCustody, RetryWithCustody,
   ResplitCustody, SkipCustody
   DEF ControllerStep

LEMMA StutterCustody ==
  ASSUME StageInv, StageInv', Custody, UNCHANGED vars PROVE Custody'
<1>1. /\ UNCHANGED <<ready, inflight, lapsed, dlq, pc, work, prior, ran, shown>>
      /\ UNCHANGED <<cpc, toEnqueue, rest, gate, active, batch, newTasks, manifest, fixing>>
  BY DEF vars, queueVars, workerVars, controllerVars, drainVars, fixVars
<1>2. QueueTypeOK /\ Leases
  BY DEF StageInv, TypeOK, Custody
<1>3. Leases' /\ Enqueued' = Enqueued /\ DeadLettered' = DeadLettered
  BY <1>1, <1>2, StillLeases DEF Enqueued, DeadLettered
<1>4. /\ HeldBack' = HeldBack /\ Known' = Known
      /\ \A t : /\ (Finished(t)' <=> Finished(t)) /\ (Dead(t)' <=> Dead(t))
                /\ ToPurge(t)' = ToPurge(t)
  BY <1>1 DEF HeldBack, Unsent, Known, Finished, Dead, ToPurge
<1>5. Apart' /\ DeadApart' /\ InOrder' /\ InManifest'
  BY <1>1, <1>3, <1>4 DEF Custody, Apart, DeadApart, InOrder, InManifest
<1>6. Grown' /\ Blank' /\ Unfixed'
  BY <1>1, <1>4 DEF Custody, Grown, Part, Blank, Unfixed
<1>7. PendingAtStart' = PendingAtStart
  BY <1>1 DEF PendingAtStart
<1>8. GateHolds'
  BY <1>1, <1>4, <1>7 DEF Custody, GateHolds, Gated, SmokeOver, Shut
<1>9. ManifestExact'
  BY <1>1 DEF Custody, ManifestExact, Skipped, SplitUp
<1>10. QED
  BY <1>3, <1>5, <1>6, <1>8, <1>9 DEF Custody

LEMMA NextCustody ==
  ASSUME Prompt, StageInv, StageInv', Custody, [Next]_vars PROVE Custody'
<1>1. QueueTypeOK /\ WorkerTypeOK /\ Leases
  BY DEF StageInv, TypeOK, Custody
<1>2. CASE ControllerStep
  BY <1>2, ControllerCustody
<1>3. CASE DeadlineStrikes
  BY <1>3, DeadlineCustody
<1>4. ASSUME NEW w \in Worker, WorkerStep(w), UNCHANGED controllerVars
      PROVE  Custody'
  BY <1>1, <1>4, WorkerStepLeases, NobodyPlans, OthersCustody
<1>5. ASSUME NEW t \in Task, LeaseLapses(t), UNCHANGED controllerVars
      PROVE  Custody'
  <2>1. Running(t) = {}
    BY <1>5 DEF LeaseLapses
  <2>2. QED
    BY <1>1, <1>5, <2>1, LapseLeases, NobodyPlans, OthersCustody
<1>6. CASE UNCHANGED vars
  BY <1>6, StutterCustody
<1>7. QED
  BY <1>2, <1>3, <1>4, <1>5, <1>6 DEF Next

LEMMA CustodyHolds == ASSUME Prompt PROVE Spec => [](StageInv /\ Custody)
<1>1. Init => StageInv /\ Custody
  BY InitStageInv, InitCustody
<1>2. StageInv /\ Custody /\ [Next]_vars => (StageInv /\ Custody)'
  BY NextStageInv, NextCustody
<1>3. QED
  BY <1>1, <1>2, PTL DEF Spec

(* While heartbeats are prompt the manifest stays a partition of the plan, *)
(* for any plan, any parts, any handler and any budget                     *)
(* (controller.py:311-340).                                                *)
THEOREM ManifestStaysExact == ASSUME Prompt PROVE Spec => []ManifestExact
<1>1. StageInv /\ Custody => ManifestExact
  BY DEF Custody
<1>2. QED
  BY <1>1, CustodyHolds, PTL

(* While heartbeats are prompt a stage fails only over a chunk that did    *)
(* not complete, forced or not (controller.py:208-216, 262-280).           *)
THEOREM StageFailsJustly == ASSUME Prompt PROVE Spec => []FailsJustly
<1>1. ASSUME StageInv, Custody PROVE FailsJustly
  <2>1. SUFFICES ASSUME cpc = "failed" PROVE \E t \in ToSet(batch) : ~Finished(t)
    BY DEF FailsJustly
  <2>2. fixing # <<>> /\ fixing \in Seq(Task)
    BY <1>1, <2>1 DEF Custody, Unfixed, StageInv, TypeOK
  <2>3. Head(fixing) \in ToSet(fixing) /\ Head(fixing) \in Task
    BY <2>2, HeadTailSet
  <2>4. Head(fixing) \in ToSet(batch) /\ ~Finished(Head(fixing))
    BY <1>1, <2>3 DEF Custody, InOrder, DeadApart
  <2>5. QED
    BY <2>4
<1>2. QED
  BY <1>1, CustodyHolds, PTL

(* The smoke gate: while heartbeats are prompt and nothing is forced, no   *)
(* other chunk is handed out before the heaviest pending one, or what the  *)
(* handler made of it, has finished (controller.py:178-188).               *)
THEOREM SmokeGatesFirst == ASSUME Prompt, ~Forced PROVE Spec => []GateFirst
<1>1. ASSUME StageInv, Custody PROVE GateFirst
  <2>1. SUFFICES ASSUME Gated, ~SmokeOver, NEW i \in 2 .. Len(PendingAtStart)
                 PROVE  PendingAtStart[i] \notin Enqueued \cup inflight \cup DeadLettered
    BY DEF GateFirst
  <2> DEFINE t == PendingAtStart[i]
  <2>2. t \in Task /\ t \notin prior
    <3>1. i \in DOMAIN PendingAtStart
      BY PendingFacts
    <3>2. t \in ToSet(PendingAtStart)
      BY <3>1 DEF ToSet
    <3>3. Plan \in Seq(Task)
      BY PlanAssumption
    <3>4. ToSet(PendingAtStart) = ToSet(Plan) \cap {u \in Task : Forced \/ u \notin prior}
      BY <3>3, OnlyFacts DEF PendingAtStart
    <3>5. QED
      BY <3>2, <3>4
  <2>3. CASE cpc = "plan"
    <3>1. Enqueued = {} /\ DeadLettered = {} /\ inflight = {}
      BY <1>1, <2>3 DEF Custody, Blank, Enqueued, DeadLettered, ToSet
    <3>2. QED
      BY <3>1
  <2>4. CASE cpc # "plan"
    <3>1. rest = Tail(PendingAtStart)
      BY <1>1, <2>1, <2>4 DEF Custody, GateHolds, Shut
    <3>2. t \in ToSet(rest)
      <4>1. /\ PendingAtStart # <<>> /\ Len(PendingAtStart) \in Nat
            /\ Len(Tail(PendingAtStart)) = Len(PendingAtStart) - 1
            /\ \A j \in 1 .. Len(Tail(PendingAtStart)) :
                  Tail(PendingAtStart)[j] = PendingAtStart[j + 1]
        <5>1. PendingAtStart \in Seq(Task) /\ Len(PendingAtStart) > 1
          BY <2>1, PendingFacts DEF Gated
        <5>2. QED
          BY <5>1
      <4>2. PICK j \in 1 .. Len(rest) : i = j + 1
        <5>1. i - 1 \in 1 .. Len(rest) /\ i = (i - 1) + 1
          BY <3>1, <4>1
        <5>2. QED
          BY <5>1
      <4>3. Tail(PendingAtStart) \in Seq(Task)
        BY PendingFacts, <4>1
      <4>4. rest[j] = t
        BY <3>1, <4>1, <4>2
      <4>5. j \in DOMAIN rest
        BY <3>1, <4>2, <4>3
      <4>6. rest[j] \in ToSet(rest)
        BY <4>5 DEF ToSet
      <4>7. QED
        BY <4>4, <4>6
    <3>3. t \in HeldBack
      BY <3>2 DEF HeldBack
    <3>4. t \notin Enqueued \cup inflight \cup ran \cup ToSet(toEnqueue)
      BY <1>1, <3>2, <3>3 DEF Custody, Apart
    <3>5. ASSUME t \in DeadLettered PROVE FALSE
      <4>1. /\ Times(dlq, t) \in Nat /\ Times(batch, t) \in Nat
            /\ ToPurge(t) \in {0, 1} /\ Times(dlq, t) > 0
        BY <1>1, <3>5, TimesTypes DEF StageInv
      <4>2. ~Dead(t)
        BY <1>1, <2>2, <3>3 DEF Custody, DeadApart
      <4>3. t \in newTasks /\ t \in ToSet(batch) /\ Times(dlq, t) = 1
        BY <4>1, <4>2 DEF Dead, ToPurge
      <4>4. Times(batch, t) > 0
        BY <1>1, <4>3, PlacesFinite DEF StageInv, TypeOK
      <4>5. Secure(t)
        BY <1>1, <3>4, <4>3 DEF StageInv, Debts, NewSecure
      <4>6. QED
        BY <2>2, <3>4, <4>1, <4>3, <4>4, <4>5 DEF Secure, HasResult
    <3>6. QED
      BY <3>4, <3>5
  <2>5. QED
    BY <2>3, <2>4
<1>2. QED
  BY <1>1, CustodyHolds, PTL

(* Who is executing a chunk has one that is not done.                      *)
LEMMA BarrierStands == ASSUME ~Forced, StageInv, Custody PROVE Barrier
<1>1. SUFFICES ASSUME cpc = "returned", NEW w \in Executing PROVE FALSE
  BY DEF Barrier
<1>2. w \in Worker /\ pc[w] \in Recomputing /\ work[w] \in Task
  BY DEF Executing, Recomputing, StageInv, TypeOK, WorkerTypeOK
<1>3. ~Finished(work[w]) /\ work[w] \in inflight
  BY <1>2 DEF Custody, Leases, NotRedone, LeaseHeld
<1>4. HasResult(work[w])
  BY <1>1, <1>3 DEF Custody, InManifest, StageInv, ReturnedComplete
<1>5. QED
  BY <1>3, <1>4 DEF HasResult, Finished

(* The stage barrier: while heartbeats are prompt and nothing is forced,   *)
(* no worker is executing a chunk of a stage that has returned             *)
(* (controller.py:225-227, worker.py:62-67).                               *)
THEOREM StageBarrier == ASSUME Prompt, ~Forced PROVE Spec => []Barrier
<1>1. StageInv /\ Custody => Barrier
  BY BarrierStands
<1>2. QED
  BY <1>1, CustodyHolds, PTL

-----------------------------------------------------------------------------
(* Events.                                                                 *)

(* What thread p has yet to say of task t. *)
Says(p, t, s) ==
    \E i \in DOMAIN owe[p] : owe[p][i] = [task |-> t, state |-> s]
Speaks(p, t) == \E s \in TaskState : Says(p, t, s)

OweType == owe \in [Thread -> Seq(Event)]

LEMMA EventType ==
  ASSUME NEW e \in Event
  PROVE  e.task \in Task /\ e.state \in TaskState /\ e = [task |-> e.task, state |-> e.state]
BY DEF Event

LEMMA SpeakerOwes ==
  ASSUME OweType, NEW p \in Thread, NEW t
  PROVE  /\ Speaks(p, t) <=> \E i \in DOMAIN owe[p] : owe[p][i].task = t
         /\ \A s : Says(p, t, s) => t \in Task /\ s \in TaskState /\ Speaks(p, t)
<1>1. \A i \in DOMAIN owe[p] : owe[p][i] \in Event
  BY ElementOfSeq DEF OweType
<1>2. ASSUME NEW s, Says(p, t, s) PROVE t \in Task /\ s \in TaskState
  <2>1. [task |-> t, state |-> s] \in Event
    BY <1>1, <1>2 DEF Says
  <2>2. QED
    BY <2>1, EventType
<1>3. ASSUME NEW i \in DOMAIN owe[p], owe[p][i].task = t PROVE Speaks(p, t)
  <2>1. owe[p][i].state \in TaskState /\ owe[p][i] = [task |-> t, state |-> owe[p][i].state]
    BY <1>1, <1>3, EventType
  <2>2. QED
    BY <2>1 DEF Speaks, Says
<1>4. ASSUME NEW s, Says(p, t, s) PROVE \E i \in DOMAIN owe[p] : owe[p][i].task = t
  <2>1. PICK i \in DOMAIN owe[p] : owe[p][i] = [task |-> t, state |-> s]
    BY <1>4 DEF Says
  <2>2. QED
    BY <2>1
<1>5. \A s : Says(p, t, s) => t \in Task /\ s \in TaskState /\ Speaks(p, t)
  BY <1>2 DEF Speaks
<1>6. Speaks(p, t) <=> \E i \in DOMAIN owe[p] : owe[p][i].task = t
  BY <1>3, <1>4 DEF Speaks
<1>7. QED
  BY <1>5, <1>6

LEMMA OwedSpoken ==
  ASSUME OweType, NEW t
  PROVE  Owed(t) <=> \E p \in Thread : Speaks(p, t)
BY SpeakerOwes DEF Owed

(* A thread that owes nothing takes on what it is to tell. *)
LEMMA ToldFacts ==
  ASSUME OweType, NEW p \in Thread, Idle(p), NEW x \in Seq(Task), NEW state \in TaskState,
         TellAll(p, x, state)
  PROVE  /\ OweType'
         /\ \A q \in Thread \ {p} : owe'[q] = owe[q]
         /\ \A q \in Thread : \A t, s :
               Says(q, t, s)' <=>
                  \/ q # p /\ Says(q, t, s)
                  \/ q = p /\ t \in ToSet(x) /\ s = state
         /\ UNCHANGED <<heard, concluded, joined, givenUp, finale>>
<1> DEFINE told == [i \in DOMAIN x |-> [task |-> x[i], state |-> state]]
<1>1. owe' = [owe EXCEPT ![p] = told]
  BY DEF TellAll
<1>2. told \in Seq(Event)
  <2>1. \A i \in 1 .. Len(x) : [task |-> x[i], state |-> state] \in Event
    BY ElementOfSeq DEF Event
  <2>2. DOMAIN x = 1 .. Len(x) /\ Len(x) \in Nat
    OBVIOUS
  <2>3. QED
    BY <2>1, <2>2
<1>3. owe'[p] = told /\ \A q \in Thread \ {p} : owe'[q] = owe[q]
  BY <1>1 DEF OweType
<1>4. OweType'
  BY <1>1, <1>2 DEF OweType
<1>5. ASSUME NEW t, NEW s
      PROVE  Says(p, t, s)' <=> t \in ToSet(x) /\ s = state
  <2>1. \A i \in DOMAIN x :
           told[i] = [task |-> t, state |-> s] <=> x[i] = t /\ s = state
    <3>1. \A a, b : [task |-> a, state |-> b] = [task |-> t, state |-> s]
                        <=> a = t /\ b = s
      OBVIOUS
    <3>2. QED
      BY <3>1
  <2>2. DOMAIN told = DOMAIN x
    OBVIOUS
  <2>3. QED
    BY <1>3, <2>1, <2>2 DEF Says, ToSet
<1>6. \A q \in Thread \ {p} : \A t, s : Says(q, t, s)' <=> Says(q, t, s)
  BY <1>3 DEF Says
<1>7. QED
  BY <1>3, <1>4, <1>5, <1>6 DEF TellAll

LEMMA ToldOne ==
  ASSUME OweType, NEW p \in Thread, Idle(p), NEW u \in Task, NEW state \in TaskState,
         Tell(p, u, state)
  PROVE  /\ OweType'
         /\ \A q \in Thread \ {p} : owe'[q] = owe[q]
         /\ \A q \in Thread : \A t, s :
               Says(q, t, s)' <=>
                  \/ q # p /\ Says(q, t, s)
                  \/ q = p /\ t = u /\ s = state
         /\ UNCHANGED <<heard, concluded, joined, givenUp, finale>>
<1>1. PICK x \in Seq(Task) : x = <<u>>
  <2>1. <<u>> \in Seq(Task)
    OBVIOUS
  <2>2. QED
    BY <2>1, Zenon
<1>2. TellAll(p, x, state)
  BY <1>1 DEF Tell
<1>3. \A t : t \in ToSet(x) <=> t = u
  <2>1. DOMAIN x = {1} /\ x[1] = u
    BY <1>1
  <2>2. QED
    BY <2>1 DEF ToSet
<1>4. QED
  BY <1>2, <1>3, ToldFacts

(* An event that is out is not owed any more; all others are. *)
LEMMA EmitFacts ==
  ASSUME OweType, heard \in [Task -> TaskState \cup {Unlisted}], concluded \subseteq Task,
         NEW p \in Thread, Emit(p)
  PROVE  \E u \in Task, state \in TaskState :
            /\ Says(p, u, state)
            /\ OweType'
            /\ heard' \in [Task -> TaskState \cup {Unlisted}]
            /\ heard'[u] = state
            /\ \A t \in Task \ {u} : heard'[t] = heard[t]
            /\ concluded' = IF state \in {"success", "skipped"}
                            THEN concluded \cup {u} ELSE concluded
            /\ \A q \in Thread \ {p} : owe'[q] = owe[q]
            /\ \A q \in Thread : \A t, s : Says(q, t, s)' => Says(q, t, s)
            /\ \A q \in Thread : \A t, s :
                  Says(q, t, s) => Says(q, t, s)' \/ (q = p /\ t = u /\ s = state)
<1>1. owe[p] \in Seq(Event) /\ owe[p] # <<>>
  BY DEF OweType, Emit, Idle
<1>2. PICK e \in Event : e = Head(owe[p])
  BY <1>1, HeadTailProperties
<1>3. PICK r \in Seq(Event) : r = Tail(owe[p])
  BY <1>1, HeadTailProperties
<1>4. /\ owe' = [owe EXCEPT ![p] = r]
      /\ heard' = [heard EXCEPT ![e.task] = e.state]
      /\ concluded' = IF e.state \in {"success", "skipped"}
                      THEN concluded \cup {e.task} ELSE concluded
  BY <1>2, <1>3 DEF Emit
<1>5. e.task \in Task /\ e.state \in TaskState /\ e = [task |-> e.task, state |-> e.state]
  BY EventType
<1>6. owe'[p] = r /\ OweType' /\ \A q \in Thread \ {p} : owe'[q] = owe[q]
  BY <1>4 DEF OweType
<1>7. ToSet(owe[p]) = {e} \cup ToSet(r)
  BY <1>1, <1>2, <1>3, HeadTailSet
<1>8. \A t, s : /\ Says(p, t, s) <=> [task |-> t, state |-> s] \in ToSet(owe[p])
                /\ Says(p, t, s)' <=> [task |-> t, state |-> s] \in ToSet(r)
  BY <1>6 DEF Says, ToSet
<1>9. \A q \in Thread \ {p} : \A t, s : Says(q, t, s)' <=> Says(q, t, s)
  BY <1>6 DEF Says
<1>10. \A t, s : [task |-> t, state |-> s] = e <=> t = e.task /\ s = e.state
  BY <1>5
<1>11. Says(p, e.task, e.state)
  BY <1>5, <1>7, <1>8
<1>12. \A q \in Thread : \A t, s : Says(q, t, s)' => Says(q, t, s)
  BY <1>7, <1>8, <1>9
<1>13. \A q \in Thread : \A t, s :
         Says(q, t, s) => Says(q, t, s)' \/ (q = p /\ t = e.task /\ s = e.state)
  BY <1>7, <1>8, <1>9, <1>10
<1>14. PICK u \in Task, state \in TaskState : u = e.task /\ state = e.state
  BY <1>5
<1>15. heard' = [heard EXCEPT ![u] = state]
  BY <1>4, <1>14
<1>16. /\ heard' \in [Task -> TaskState \cup {Unlisted}]
       /\ heard'[u] = state
       /\ \A t \in Task \ {u} : heard'[t] = heard[t]
  BY <1>15
<1>17. /\ Says(p, u, state)
       /\ concluded' = IF state \in {"success", "skipped"}
                       THEN concluded \cup {u} ELSE concluded
  BY <1>4, <1>11, <1>14
<1>18. \A q \in Thread : \A t, s :
         Says(q, t, s) => Says(q, t, s)' \/ (q = p /\ t = u /\ s = state)
  BY <1>13, <1>14
<1>19. QED
  BY <1>6, <1>12, <1>16, <1>17, <1>18, Zenon

-----------------------------------------------------------------------------
(* The steps are those of StageRun.                                        *)

LEMMA ThreadFacts == /\ Worker \subseteq Thread /\ Controller \in Thread
                     /\ \A p \in Thread : p \in Worker \/ p = Controller
                     /\ Controller \notin Worker
BY ThreadAssumption DEF Thread

LEMMA WorkerTellsStep ==
  ASSUME NEW w, WorkerTells(w) PROVE WorkerStep(w)
BY DEF WorkerTells, WorkerStep, WorkerProgress

LEMMA WorkerSilentStep ==
  ASSUME NEW w, WorkerIsSilent(w) PROVE WorkerStep(w) /\ UNCHANGED eventVars
BY DEF WorkerIsSilent, WorkerStep, WorkerProgress

LEMMA WorkerFailsStep ==
  ASSUME NEW w, WorkerFails(w) PROVE WorkerStep(w)
BY DEF WorkerFails, WorkerStep, WorkerProgress

LEMMA ControllerTellsStep == ASSUME ControllerTells PROVE ControllerStep
BY DEF ControllerTells, ControllerStep

LEMMA ControllerSilentStep ==
  ASSUME ControllerIsSilent PROVE ControllerStep /\ UNCHANGED eventVars
BY DEF ControllerIsSilent, ControllerStep

LEMMA EventsStep == ASSUME [EventsNext]_allVars PROVE [Next]_vars
<1>1. CASE ControllerGoesOn \/ TimesOut
  BY <1>1, ControllerTellsStep, ControllerSilentStep
     DEF ControllerGoesOn, TimesOut, Next
<1>2. CASE RunGoesOn
  BY <1>2 DEF RunGoesOn, StageDone, RunFailed, RunDone, Join, GiveUpOn
<1>3. ASSUME NEW p \in Thread, Emit(p) PROVE UNCHANGED vars
  BY <1>3 DEF Emit
<1>4. ASSUME NEW w \in Worker, WorkerGoesOn(w) \/ WorkerStops(w) \/ WorkerExits(w)
      PROVE  Next
  <2>1. WorkerStep(w) /\ UNCHANGED controllerVars
    BY <1>4, WorkerTellsStep, WorkerSilentStep, WorkerFailsStep
       DEF WorkerGoesOn, WorkerStops, WorkerExits, WorkerStep
  <2>2. QED
    BY <2>1 DEF Next
<1>5. CASE LeaseMoves
  BY <1>5 DEF LeaseMoves, LeaseRunsOut, Next, WorkerStep
<1>6. CASE UNCHANGED allVars
  BY <1>6 DEF allVars
<1>7. QED
  BY <1>1, <1>2, <1>3, <1>4, <1>5, <1>6 DEF EventsNext

(* Every run with its events is a run of the stage: emitting and joining   *)
(* changes nothing the queue, the workers or the controller look at        *)
(* (tracker.py:64-76, controller.py:142-155).                              *)
THEOREM EventsRunTheStage == EventsSpec => Spec
<1>1. EventsInit => Init
  BY DEF EventsInit
<1>2. [EventsNext]_allVars => [Next]_vars
  BY EventsStep
<1>3. QED
  BY <1>1, <1>2, PTL DEF EventsSpec, Spec

-----------------------------------------------------------------------------
(* What a thread that tells of its task does to everything else.           *)

USE DEF Busy, Beating, Idling

WorkerSpeaks(w) ==
    \/ WorkerTells(w)
    \/ DieStarting(w) /\ Tell(w, work[w], "running")

LEMMA WorkerVoice ==
  ASSUME WorkerTypeOK, NEW w \in Worker,
         WorkerSpeaks(w)
  PROVE  \E u \in Task, state \in TaskState :
            /\ u = work[w]
            /\ Tell(w, u, state)
            /\ Show(u, state)
            /\ UNCHANGED <<queueVars, storeVars>>
            /\ \A v \in Worker \ {w} : work'[v] = work[v] /\ pc'[v] = pc[v]
            /\ work'[w] \in {u, NoTask}
            /\ pc'[w] \in {"ack", "skipAck"} => state \in {"success", "skipped"}
            /\ pc[w] # "off"
<1>1. CASE ShowSkipped(w) /\ Tell(w, work[w], "skipped")
  <2>1. work[w] \in Task
    BY <1>1 DEF ShowSkipped, WorkerTypeOK
  <2>2. /\ Show(work[w], "skipped")
        /\ UNCHANGED <<queueVars, storeVars>>
        /\ \A v \in Worker \ {w} : work'[v] = work[v] /\ pc'[v] = pc[v]
        /\ work'[w] = work[w] /\ pc[w] # "off"
    BY <1>1 DEF ShowSkipped, Goto, WorkerTypeOK
  <2>3. PICK u \in Task, state \in TaskState : u = work[w] /\ state = "skipped"
    BY <2>1 DEF TaskState
  <2>4. Tell(w, u, state) /\ Show(u, state)
    BY <1>1, <2>2, <2>3
  <2>5. QED
    BY <2>2, <2>3, <2>4
<1>2. CASE Start(w) /\ Tell(w, work[w], "running")
  <2>1. work[w] \in Task
    BY <1>2 DEF Start, WorkerTypeOK
  <2>2. /\ Show(work[w], "running")
        /\ UNCHANGED <<queueVars, storeVars>>
        /\ \A v \in Worker \ {w} : work'[v] = work[v] /\ pc'[v] = pc[v]
        /\ work'[w] = work[w] /\ pc'[w] = "compute" /\ pc[w] # "off"
    BY <1>2 DEF Start, Goto, WorkerTypeOK
  <2>3. PICK u \in Task, state \in TaskState : u = work[w] /\ state = "running"
    BY <2>1 DEF TaskState
  <2>4. Tell(w, u, state) /\ Show(u, state)
    BY <1>2, <2>2, <2>3
  <2>5. QED
    BY <2>2, <2>3, <2>4
<1>3. CASE ShowSuccess(w) /\ Tell(w, work[w], "success")
  <2>1. work[w] \in Task
    BY <1>3 DEF ShowSuccess, WorkerTypeOK
  <2>2. /\ Show(work[w], "success")
        /\ UNCHANGED <<queueVars, storeVars>>
        /\ \A v \in Worker \ {w} : work'[v] = work[v] /\ pc'[v] = pc[v]
        /\ work'[w] = work[w] /\ pc[w] # "off"
    BY <1>3 DEF ShowSuccess, Goto, WorkerTypeOK
  <2>3. PICK u \in Task, state \in TaskState : u = work[w] /\ state = "success"
    BY <2>1 DEF TaskState
  <2>4. Tell(w, u, state) /\ Show(u, state)
    BY <1>3, <2>2, <2>3
  <2>5. QED
    BY <2>2, <2>3, <2>4
<1>4. CASE ShowFailed(w) /\ Tell(w, work[w], "failed")
  <2>1. work[w] \in Task
    BY <1>4 DEF ShowFailed, WorkerTypeOK
  <2>2. /\ Show(work[w], "failed")
        /\ UNCHANGED <<queueVars, storeVars>>
        /\ \A v \in Worker \ {w} : work'[v] = work[v] /\ pc'[v] = pc[v]
        /\ work'[w] = work[w] /\ pc'[w] = "nack" /\ pc[w] # "off"
    BY <1>4 DEF ShowFailed, Goto, WorkerTypeOK
  <2>3. PICK u \in Task, state \in TaskState : u = work[w] /\ state = "failed"
    BY <2>1 DEF TaskState
  <2>4. Tell(w, u, state) /\ Show(u, state)
    BY <1>4, <2>2, <2>3
  <2>5. QED
    BY <2>2, <2>3, <2>4
<1>5. CASE DieStarting(w) /\ Tell(w, work[w], "running")
  <2>1. work[w] \in Task
    BY <1>5 DEF DieStarting, WorkerTypeOK
  <2>2. /\ Show(work[w], "running")
        /\ UNCHANGED <<queueVars, storeVars>>
        /\ \A v \in Worker \ {w} : work'[v] = work[v] /\ pc'[v] = pc[v]
        /\ work'[w] = NoTask /\ pc'[w] = "off" /\ pc[w] # "off"
    BY <1>5 DEF DieStarting, Leave, Goto, WorkerTypeOK
  <2>3. PICK u \in Task, state \in TaskState : u = work[w] /\ state = "running"
    BY <2>1 DEF TaskState
  <2>4. Tell(w, u, state) /\ Show(u, state)
    BY <1>5, <2>2, <2>3
  <2>5. QED
    BY <2>2, <2>3, <2>4
<1>6. QED
  BY <1>1, <1>2, <1>3, <1>4, <1>5 DEF WorkerTells, WorkerSpeaks

LEMMA CachedFacts ==
  /\ Cached \in Seq(Task)
  /\ \A t : t \in ToSet(Cached) <=> t \in ToSet(Plan) /\ ~Forced /\ HasResult(t)
<1>1. Plan \in Seq(Task) /\ ToSet(Plan) \subseteq Task
  BY PlanAssumption, ElementOfSeq DEF ToSet
<1>2. /\ Cached \in Seq(Task)
      /\ ToSet(Cached) = ToSet(Plan) \cap {t \in Task : ~Forced /\ HasResult(t)}
  BY <1>1, OnlyFacts DEF Cached
<1>3. QED
  BY <1>1, <1>2

LEMMA ControllerVoice ==
  ASSUME StageInv, ControllerTells
  PROVE  \E x \in Seq(Task), state \in TaskState :
            /\ TellAll(Controller, x, state)
            /\ \/ PlanStage /\ x = Cached /\ state = "skipped"
               \/ ShowQueued /\ state = "queued"
               \/ \E u \in Task : /\ u = Head(fixing) /\ x = <<u>>
                                  /\ \/ ShowDead /\ state = "failed"
                                     \/ Skip /\ state = "skipped"
<1>1. {"skipped", "queued", "failed"} \subseteq TaskState
  BY DEF TaskState
<1>2. CASE PlanStage /\ TellAll(Controller, Cached, "skipped")
  BY <1>1, <1>2, CachedFacts
<1>3. CASE ShowQueued /\ Tell(Controller, Head(toEnqueue), "queued")
  <2>1. toEnqueue # <<>> /\ toEnqueue \in Seq(Task)
    BY <1>3 DEF ShowQueued, StageInv, Phases, Handing, TypeOK
  <2>2. Head(toEnqueue) \in Task
    BY <2>1, HeadTailSet
  <2>3. <<Head(toEnqueue)>> \in Seq(Task)
    BY <2>2
  <2>4. QED
    BY <1>1, <1>3, <2>3 DEF Tell
<1>4. ASSUME ShowDead \/ Skip
      PROVE  Head(fixing) \in Task /\ <<Head(fixing)>> \in Seq(Task)
  <2>1. fixing # <<>> /\ fixing \in Seq(Task)
    BY <1>4 DEF ShowDead, Skip, MayFix, StageInv, Phases, TypeOK
  <2>2. Head(fixing) \in Task
    BY <2>1, HeadTailSet
  <2>3. QED
    BY <2>2
<1>5. CASE ShowDead /\ Tell(Controller, Head(fixing), "failed")
  <2>1. PICK u \in Task : u = Head(fixing)
    BY <1>4, <1>5
  <2>2. <<u>> \in Seq(Task) /\ TellAll(Controller, <<u>>, "failed")
    BY <1>5, <2>1 DEF Tell
  <2>3. QED
    BY <1>1, <1>5, <2>1, <2>2
<1>6. CASE Skip /\ Tell(Controller, Head(fixing), "skipped")
  <2>1. PICK u \in Task : u = Head(fixing)
    BY <1>4, <1>6
  <2>2. <<u>> \in Seq(Task) /\ TellAll(Controller, <<u>>, "skipped")
    BY <1>6, <2>1 DEF Tell
  <2>3. QED
    BY <1>1, <1>6, <2>1, <2>2
<1>7. QED
  BY <1>2, <1>3, <1>5, <1>6 DEF ControllerTells

-----------------------------------------------------------------------------
(* Types.                                                                  *)

SubscriberType ==
    /\ heard \in [Task -> TaskState \cup {Unlisted}]
    /\ concluded \subseteq Task
RunType ==
    /\ {joined, givenUp} \subseteq SUBSET Worker
    /\ finale \in {"none", "stage_done", "run_done", "run_failed"}

(* Every step tells, emits, or leaves the events alone. *)
WorkerQuietly(w) ==
    /\ Idle(w)
    /\ WorkerIsSilent(w) \/ Raise(w) \/ DieFailing(w) \/ IdleExit(w)
    /\ UNCHANGED <<controllerVars, eventVars>>
Quietly ==
    \/ Idle(Controller) /\ ControllerIsSilent
    \/ TimesOut
    \/ \E w \in Worker : WorkerQuietly(w)
    \/ LeaseMoves
    \/ RunGoesOn
    \/ UNCHANGED allVars

LEMMA EventKinds ==
  ASSUME [EventsNext]_allVars
  PROVE  \/ \E w \in Worker :
              /\ Idle(w) /\ UNCHANGED controllerVars /\ WorkerStep(w)
              /\ WorkerSpeaks(w)
         \/ Idle(Controller) /\ ControllerTells
         \/ \E p \in Thread : Emit(p)
         \/ Quietly
<1>1. ASSUME NEW w \in Worker, WorkerGoesOn(w) \/ WorkerStops(w) \/ WorkerExits(w)
      PROVE  \/ WorkerQuietly(w)
             \/ /\ Idle(w) /\ UNCHANGED controllerVars /\ WorkerStep(w)
                /\ WorkerSpeaks(w)
  <2>1. /\ Idle(w) /\ UNCHANGED controllerVars
        /\ WorkerQuietly(w) \/ WorkerSpeaks(w)
    BY <1>1, WorkerSilentStep
       DEF WorkerGoesOn, WorkerStops, WorkerExits, WorkerFails, WorkerSpeaks,
           WorkerQuietly
  <2>2. WorkerSpeaks(w) => WorkerStep(w)
    BY WorkerTellsStep, WorkerFailsStep DEF WorkerSpeaks, WorkerFails
  <2>3. QED
    BY <2>1, <2>2
<1>2. QED
  BY <1>1 DEF EventsNext, ControllerGoesOn, Quietly

LEMMA QuietFacts ==
  ASSUME Quietly
  PROVE  /\ UNCHANGED <<owe, heard, concluded>>
         /\ RunGoesOn \/ UNCHANGED <<joined, givenUp, finale>>
<1>1. ASSUME UNCHANGED eventVars PROVE UNCHANGED <<owe, heard, concluded, joined, givenUp, finale>>
  BY <1>1 DEF eventVars
<1>2. QED
  BY <1>1 DEF Quietly, WorkerQuietly, ControllerIsSilent, TimesOut, LeaseMoves,
     RunGoesOn, StageDone, RunFailed, RunDone, Join, GiveUpOn, allVars

LEMMA NextEventsType ==
  ASSUME StageInv, EventsTypeOK, [EventsNext]_allVars PROVE EventsTypeOK'
<1>1. TypeOK'
  BY EventsStep, NextStageInv DEF StageInv
<1>2. OweType /\ SubscriberType /\ RunType /\ WorkerTypeOK
  BY DEF EventsTypeOK, OweType, SubscriberType, RunType, TypeOK
<1>3. OweType' /\ SubscriberType'
  <2>1. ASSUME NEW w \in Worker, Idle(w),
               WorkerSpeaks(w)
        PROVE  OweType' /\ SubscriberType'
    <3>1. PICK u \in Task, state \in TaskState : Tell(w, u, state)
      BY <1>2, <2>1, WorkerVoice
    <3>2. OweType' /\ UNCHANGED <<heard, concluded>>
      BY <1>2, <2>1, <3>1, ToldOne, ThreadFacts
    <3>3. QED
      BY <1>2, <3>2 DEF SubscriberType
  <2>2. CASE Idle(Controller) /\ ControllerTells
    <3>1. PICK x \in Seq(Task), state \in TaskState : TellAll(Controller, x, state)
      BY <2>2, ControllerVoice
    <3>2. OweType' /\ UNCHANGED <<heard, concluded>>
      BY <1>2, <2>2, <3>1, ToldFacts, ThreadFacts
    <3>3. QED
      BY <1>2, <3>2 DEF SubscriberType
  <2>3. ASSUME NEW p \in Thread, Emit(p) PROVE OweType' /\ SubscriberType'
    BY <1>2, <2>3, EmitFacts DEF SubscriberType
  <2>4. CASE Quietly
    BY <1>2, <2>4, QuietFacts DEF OweType, SubscriberType
  <2>5. QED
    BY <2>1, <2>2, <2>3, <2>4, EventKinds
<1>4. RunType'
  <2>1. CASE UNCHANGED <<joined, givenUp, finale>>
    BY <1>2, <2>1 DEF RunType
  <2>2. CASE RunGoesOn
    BY <1>2, <2>2 DEF RunType, RunGoesOn, StageDone, RunFailed, RunDone, Join, GiveUpOn
  <2>3. CASE ~RunGoesOn
    <3>1. UNCHANGED <<joined, givenUp, finale>>
      BY <2>3 DEF EventsNext, allVars, eventVars, LeaseMoves, LeaseRunsOut,
         ControllerGoesOn, ControllerTells, ControllerIsSilent, TimesOut, Tell,
         TellAll, Emit, WorkerGoesOn, WorkerTells, WorkerIsSilent, WorkerStops,
         WorkerFails, WorkerExits
    <3>2. QED
      BY <2>1, <3>1
  <2>4. QED
    BY <2>2, <2>3
<1>5. QED
  BY <1>1, <1>3, <1>4 DEF EventsTypeOK, OweType, SubscriberType, RunType

LEMMA InitEventsType == ASSUME EventsInit PROVE StageInv /\ EventsTypeOK
<1>1. Init /\ StageInv
  BY InitStageInv DEF EventsInit
<1>2. OweType
  <2>1. <<>> \in Seq(Event)
    OBVIOUS
  <2>2. QED
    BY <2>1 DEF EventsInit, OweType
<1>3. QED
  BY <1>1, <1>2 DEF EventsInit, EventsTypeOK, OweType, StageInv

(* The events, what the subscriber has heard and what drain has joined are *)
(* well typed whatever the heartbeats do (tracker.py:64-104).              *)
THEOREM EventsTypeCorrect == EventsSpec => []EventsTypeOK
<1>1. StageInv /\ EventsTypeOK /\ [EventsNext]_allVars => (StageInv /\ EventsTypeOK)'
  BY NextEventsType, EventsStep, NextStageInv
<1>2. EventsInit => StageInv /\ EventsTypeOK
  BY InitEventsType
<1>3. QED
  BY <1>1, <1>2, PTL DEF EventsSpec

-----------------------------------------------------------------------------
(* While heartbeats are prompt: what the threads that owe an event speak of.*)

(* A worker speaks of a task whose lease it still keeps, alone.            *)
Alone(w, t) ==
    /\ t \in inflight \ lapsed
    /\ \A v \in Worker \ {w} : work[v] # t /\ ~Speaks(v, t)
WorkersAlone == \A w \in Worker, t \in Task : Speaks(w, t) => Alone(w, t)

(* What it is going to say is what the snapshot has, but for a QUEUED that *)
(* the controller has put over it.                                         *)
WorkersTrue ==
    \A w \in Worker, t \in Task, s \in TaskState :
        Says(w, t, s) => shown[t] \in {s, "queued"}

(* The controller, but for QUEUED, speaks of tasks no worker can get.      *)
ControllerTrue ==
    \A t \in Task, s \in TaskState :
        Says(Controller, t, s) /\ s # "queued" =>
            shown[t] = s /\ t \notin Enqueued \cup inflight

Silence ==
    cpc = "plan" => /\ heard = [t \in Task |-> Unlisted]
                    /\ \A p \in Thread : Idle(p)

Voices == WorkersAlone /\ WorkersTrue /\ ControllerTrue /\ Silence

LEMMA IdleIsSilent ==
  ASSUME NEW p, Idle(p) PROVE \A t, s : ~Says(p, t, s) /\ ~Speaks(p, t)
BY DEF Idle, Says, Speaks

LEMMA PlansOnce == ASSUME [Next]_vars, cpc' = "plan" PROVE cpc = "plan"
<1>1. CASE ControllerStep
  BY <1>1 DEF ControllerStep, PlanStage, PlanFor, Launch, EnqueueNext, ShowQueued,
     SizeFleet, EnsureFleet, ReadDepth, FindDead, Handle, Settle, SettleWith,
     CheckDone, Conclude, ShowDead, GiveUp, RetryWith, Resplit, Skip, Apply,
     ApplyAwaiting
<1>2. CASE DeadlineStrikes
  BY <1>2 DEF DeadlineStrikes
<1>3. CASE UNCHANGED cpc
  BY <1>3
<1>4. QED
  BY <1>1, <1>2, <1>3 DEF Next, vars, controllerVars

(* A task that is in flight and not lapsed stays, for all that others do.  *)
LEMMA WorkerAway ==
  ASSUME QueueTypeOK, WorkerTypeOK, Leases, NEW v \in Worker, WorkerStep(v),
         NEW t \in inflight \ lapsed, work[v] # t \/ Heartbeat(v)
  PROVE  /\ t \in (inflight \ lapsed)'
         /\ \A u \in Worker : work'[u] = t => work[u] = t
<1>1. CASE ClaimTask(v)
  <2>1. PICK got \in Task : Claim(got) /\ work' = [work EXCEPT ![v] = got]
    BY <1>1 DEF ClaimTask
  <2>2. /\ Enqueued' \cup {got} = Enqueued \cup Survivors
        /\ inflight' = (inflight \ lapsed) \cup {got} /\ lapsed' = {}
    BY <2>1, ClaimFacts DEF Claim
  <2>3. got # t
    BY <2>2 DEF Survivors, Leases
  <2>4. QED
    BY <2>1, <2>2, <2>3 DEF WorkerTypeOK
<1>2. CASE FindNothing(v) \/ IdleExit(v)
  <2>1. inflight' = inflight \ lapsed /\ lapsed' = {} /\ work' = work
    BY <1>2 DEF FindNothing, IdleExit, ClaimNone, Sweep
  <2>2. QED
    BY <2>1
<1>3. CASE \/ Check(v) \/ ShowSkipped(v) \/ Start(v) \/ Publish(v) \/ Raise(v)
           \/ ShowSuccess(v) \/ WriteFailure(v) \/ ShowFailed(v)
  <2>1. inflight' = inflight /\ lapsed' = lapsed /\ work' = work
    BY <1>3 DEF Check, ShowSkipped, Start, Publish, Raise, ShowSuccess,
       WriteFailure, ShowFailed, queueVars
  <2>2. QED
    BY <2>1
<1>4. CASE DieStarting(v) \/ DieFailing(v) \/ AckTask(v) \/ FailTask(v)
  <2>1. /\ work' = [work EXCEPT ![v] = NoTask]
        /\ inflight \ {work[v]} \subseteq inflight' /\ lapsed' \subseteq lapsed
    BY <1>4 DEF DieStarting, DieFailing, AckTask, FailTask, Leave, Ack, Fail,
       DropLease, queueVars
  <2>2. work[v] # t
    BY <1>4 DEF DieStarting, DieFailing, AckTask, FailTask, Heartbeat, queueVars,
       workerVars, Leave, Goto, WorkerTypeOK
  <2>3. NoTask # t
    BY NoTaskAssumption DEF QueueTypeOK
  <2>4. QED
    BY <2>1, <2>2, <2>3 DEF WorkerTypeOK
<1>5. CASE Heartbeat(v)
  <2>1. inflight' = inflight /\ lapsed' \subseteq lapsed /\ work' = work
    BY <1>5 DEF Heartbeat, Extend, workerVars
  <2>2. QED
    BY <2>1
<1>6. QED
  BY <1>1, <1>2, <1>3, <1>4, <1>5 DEF WorkerStep, WorkerProgress

LEMMA ControllerAway ==
  ASSUME ControllerStep \/ DeadlineStrikes, NEW t \in inflight \ lapsed
  PROVE  t \in (inflight \ lapsed)' /\ work' = work
<1>1. CASE \/ PlanStage \/ EnqueueNext \/ ShowQueued \/ EnsureFleet \/ FindDead
           \/ Settle \/ CheckDone \/ ShowDead \/ GiveUp \/ RetryWith \/ Resplit
           \/ Skip \/ DeadlineStrikes
  <2>1. UNCHANGED <<inflight, lapsed, work>>
    BY <1>1 DEF PlanStage, PlanFor, EnqueueNext, Enqueue, ShowQueued, EnsureFleet,
       Spawn, FindDead, Handle, Settle, SettleWith, CheckDone, Conclude, ShowDead,
       GiveUp, RetryWith, Resplit, Skip, DeadlineStrikes, Apply, ApplyAwaiting,
       queueVars, workerVars
  <2>2. QED
    BY <2>1
<1>2. CASE SizeFleet \/ ReadDepth
  <2>1. /\ \/ UNCHANGED <<inflight, lapsed>>
           \/ inflight' = inflight \ lapsed /\ lapsed' = {}
        /\ work' = work
    BY <1>2 DEF SizeFleet, ReadDepth, Sweep, queueVars, workerVars
  <2>2. QED
    BY <2>1
<1>3. QED
  BY <1>1, <1>2 DEF ControllerStep

(* What the steps that tell nothing may do to the snapshot.                *)
LEMMA ControllerSilentShown ==
  ASSUME WorkerTypeOK, ControllerIsSilent, NEW t \in Task
  PROVE  \/ shown'[t] = shown[t]
         \/ shown[t] = Unlisted /\ shown'[t] = "pending"
<1>1. CASE Resplit
  BY <1>1 DEF Resplit, WorkerTypeOK
<1>2. CASE \/ EnqueueNext \/ SizeFleet \/ EnsureFleet \/ ReadDepth \/ FindDead
           \/ Settle \/ CheckDone \/ GiveUp \/ RetryWith
  <2>1. UNCHANGED shown
    BY <1>2 DEF EnqueueNext, SizeFleet, EnsureFleet, Spawn, ReadDepth, FindDead,
       Handle, Settle, SettleWith, CheckDone, Conclude, GiveUp, RetryWith, workerVars
  <2>2. QED
    BY <2>1
<1>3. QED
  BY <1>1, <1>2 DEF ControllerIsSilent

LEMMA WorkerSilentShown ==
  ASSUME NEW w \in Worker,
         WorkerIsSilent(w) \/ Raise(w) \/ DieFailing(w) \/ IdleExit(w) \/ Heartbeat(w)
  PROVE  shown' = shown
BY DEF WorkerIsSilent, ClaimTask, FindNothing, Check, Publish, AckTask, WriteFailure,
   FailTask, Raise, DieFailing, IdleExit, Heartbeat, workerVars

LEMMA VoicesKept ==
  ASSUME OweType, Voices, UNCHANGED <<owe, heard>>,
         \A w \in Worker, t \in Task : Speaks(w, t) =>
            /\ t \in (inflight \ lapsed)'
            /\ \A v \in Worker : work'[v] = t => work[v] = t
            /\ shown[t] \in TaskState => shown'[t] \in {shown[t], "queued"},
         \A t \in Task : Speaks(Controller, t) =>
            /\ shown'[t] = shown[t]
            /\ t \in (Enqueued \cup inflight)' => t \in Enqueued \cup inflight,
         cpc' = "plan" => cpc = "plan"
  PROVE  Voices'
<1>1. \A p, t, s : Says(p, t, s)' <=> Says(p, t, s)
  BY DEF Says
<1>2. \A p, t : Speaks(p, t)' <=> Speaks(p, t)
  BY <1>1 DEF Speaks
<1>3. WorkersAlone'
  BY <1>2 DEF Voices, WorkersAlone, Alone
<1>4. WorkersTrue'
  <2> SUFFICES ASSUME NEW w \in Worker, NEW t \in Task, NEW s \in TaskState,
                      Says(w, t, s)'
               PROVE  shown'[t] \in {s, "queued"}
    BY DEF WorkersTrue
  <2>1. Says(w, t, s) /\ Speaks(w, t)
    BY <1>1 DEF Speaks
  <2>2. shown[t] \in {s, "queued"} /\ "queued" \in TaskState
    BY <2>1 DEF Voices, WorkersTrue, TaskState
  <2>3. QED
    BY <2>1, <2>2
<1>5. ControllerTrue'
  BY <1>1 DEF Voices, ControllerTrue, Speaks
<1>6. Silence'
  BY DEF Voices, Silence, Idle
<1>7. QED
  BY <1>3, <1>4, <1>5, <1>6 DEF Voices

LEMMA WorkerTellsVoices ==
  ASSUME OweType, StageInv, Custody, Voices, NEW w \in Worker, Idle(w),
         UNCHANGED controllerVars, WorkerStep(w),
         WorkerSpeaks(w)
  PROVE  Voices'
<1>0. WorkerTypeOK /\ QueueTypeOK
  BY DEF StageInv, TypeOK
<1>1. PICK u \in Task, state \in TaskState :
        /\ u = work[w]
        /\ Tell(w, u, state)
        /\ Show(u, state)
        /\ UNCHANGED <<queueVars, storeVars>>
        /\ \A v \in Worker \ {w} : work'[v] = work[v] /\ pc'[v] = pc[v]
        /\ work'[w] \in {u, NoTask}
  BY <1>0, WorkerVoice
<1>2. \A q \in Thread : \A t, s :
        Says(q, t, s)' <=> \/ q # w /\ Says(q, t, s)
                           \/ q = w /\ t = u /\ s = state
  BY <1>1, ToldOne, ThreadFacts
<1>3. \A q \in Thread : \A t :
        Speaks(q, t)' <=> \/ q # w /\ Speaks(q, t)
                          \/ q = w /\ t = u
  BY <1>2 DEF Speaks
<1>4. u \in inflight \ lapsed /\ \A v \in Worker \ {w} : work[v] # u
  BY <1>1 DEF Custody, Leases, LeaseHeld, HeldOnce
<1>5. UNCHANGED <<inflight, lapsed, ready, cpc>>
  BY <1>1 DEF queueVars, controllerVars
<1>6. shown'[u] = state /\ \A t \in Task \ {u} : shown'[t] = shown[t]
  BY <1>0, <1>1 DEF Show, WorkerTypeOK
<1>7. \A v \in Worker \ {w}, t \in Task : Speaks(v, t) => t # u /\ Alone(v, t)
  BY <1>1 DEF Voices, WorkersAlone, Alone
<1>8. WorkersAlone'
  <2> SUFFICES ASSUME NEW v \in Worker, NEW t \in Task, Speaks(v, t)'
               PROVE  /\ t \in (inflight \ lapsed)'
                      /\ \A x \in Worker \ {v} : work'[x] # t /\ ~Speaks(x, t)'
    BY DEF WorkersAlone, Alone
  <2>1. CASE v = w
    <3>1. t = u
      BY <1>3, <2>1, ThreadFacts
    <3>2. \A x \in Worker \ {v} : ~Speaks(x, t)'
      BY <1>3, <1>7, <2>1, <3>1, ThreadFacts
    <3>3. QED
      BY <1>1, <1>4, <1>5, <2>1, <3>1, <3>2
  <2>2. CASE v # w
    <3>1. Speaks(v, t) /\ t # u /\ Alone(v, t)
      BY <1>3, <1>7, <2>2, ThreadFacts
    <3>2. t # NoTask
      BY NoTaskAssumption
    <3>3. \A x \in Worker \ {v} : ~Speaks(x, t)'
      BY <1>3, <3>1, ThreadFacts DEF Alone
    <3>4. QED
      BY <1>1, <1>5, <3>1, <3>2, <3>3 DEF Alone
  <2>3. QED
    BY <2>1, <2>2
<1>9. WorkersTrue'
  <2> SUFFICES ASSUME NEW v \in Worker, NEW t \in Task, NEW s \in TaskState,
                      Says(v, t, s)'
               PROVE  shown'[t] \in {s, "queued"}
    BY DEF WorkersTrue
  <2>1. CASE v = w
    BY <1>2, <1>6, <2>1, ThreadFacts
  <2>2. CASE v # w
    <3>1. Says(v, t, s) /\ Speaks(v, t)
      BY <1>2, <2>2, ThreadFacts DEF Speaks
    <3>2. QED
      BY <1>6, <1>7, <2>2, <3>1 DEF Voices, WorkersTrue
  <2>3. QED
    BY <2>1, <2>2
<1>10. ControllerTrue'
  <2> SUFFICES ASSUME NEW t \in Task, NEW s \in TaskState,
                      Says(Controller, t, s)', s # "queued"
               PROVE  shown'[t] = s /\ t \notin (Enqueued \cup inflight)'
    BY DEF ControllerTrue
  <2>1. Says(Controller, t, s)
    BY <1>2, ThreadFacts
  <2>2. shown[t] = s /\ t \notin Enqueued \cup inflight
    BY <2>1 DEF Voices, ControllerTrue
  <2>3. QED
    BY <1>4, <1>5, <1>6, <2>2 DEF Enqueued
<1>11. Silence'
  BY <1>5, NobodyPlans DEF Silence
<1>12. QED
  BY <1>8, <1>9, <1>10, <1>11 DEF Voices

LEMMA ControllerTellsVoices ==
  ASSUME OweType, StageInv, Custody, Voices, Idle(Controller), ControllerTells
  PROVE  Voices'
<1>0. WorkerTypeOK /\ TypeOK
  BY DEF StageInv, TypeOK
<1>1. PICK x \in Seq(Task), state \in TaskState :
        /\ TellAll(Controller, x, state)
        /\ \/ PlanStage /\ x = Cached /\ state = "skipped"
           \/ ShowQueued /\ state = "queued"
           \/ \E u \in Task : /\ u = Head(fixing) /\ x = <<u>>
                              /\ \/ ShowDead /\ state = "failed"
                                 \/ Skip /\ state = "skipped"
  BY ControllerVoice
<1>2. \A q \in Thread : \A t, s :
        Says(q, t, s)' <=> \/ q # Controller /\ Says(q, t, s)
                           \/ q = Controller /\ t \in ToSet(x) /\ s = state
  BY <1>1, ToldFacts, ThreadFacts
<1>3. \A w \in Worker : \A t, s : Says(w, t, s)' <=> Says(w, t, s)
  BY <1>2, ThreadFacts
<1>4. \A w \in Worker : \A t : Speaks(w, t)' <=> Speaks(w, t)
  BY <1>3 DEF Speaks
<1>5. ControllerStep
  BY ControllerTellsStep
<1>6. WorkersAlone'
  <2> SUFFICES ASSUME NEW w \in Worker, NEW t \in Task, Speaks(w, t)'
               PROVE  Alone(w, t)'
    BY DEF WorkersAlone
  <2>1. Alone(w, t) /\ t \in inflight \ lapsed
    BY <1>4 DEF Voices, WorkersAlone, Alone
  <2>2. t \in (inflight \ lapsed)' /\ work' = work
    BY <1>5, <2>1, ControllerAway
  <2>3. QED
    BY <1>4, <2>1, <2>2 DEF Alone
<1>7. cpc' # "plan"
  BY <1>1 DEF PlanStage, PlanFor, Launch, ShowQueued, ShowDead, Skip, Apply,
     ApplyAwaiting
<1>8. Silence'
  BY <1>7 DEF Silence
<1>9. CASE PlanStage /\ x = Cached /\ state = "skipped"
  <2>1. cpc = "plan" /\ \A p \in Thread : Idle(p)
    BY <1>9 DEF PlanStage, PlanFor, Voices, Silence
  <2>2. WorkersTrue'
    BY <1>3, <2>1, IdleIsSilent, ThreadFacts DEF WorkersTrue
  <2>3. ControllerTrue'
    <3> SUFFICES ASSUME NEW t \in Task, NEW s \in TaskState, Says(Controller, t, s)'
                 PROVE  shown'[t] = s /\ t \notin (Enqueued \cup inflight)'
      BY DEF ControllerTrue
    <3>1. t \in ToSet(Plan) /\ ~Forced /\ HasResult(t) /\ s = "skipped"
      BY <1>2, <1>9, CachedFacts, ThreadFacts
    <3>2. Plan \in Seq(Task)
      BY PlanAssumption
    <3>3. t \notin ToSet(Only(Plan, Pending))
      BY <3>1, <3>2, OnlyFacts DEF Pending
    <3>4. shown'[t] = "skipped"
      BY <1>9, <3>1, <3>3 DEF PlanStage, PlanFor
    <3>5. ready' = <<>> /\ inflight' = {}
      BY <1>9, <2>1 DEF PlanStage, PlanFor, queueVars, Custody, Blank
    <3>6. Enqueued' = {}
      BY <3>5 DEF Enqueued, ToSet
    <3>7. QED
      BY <3>1, <3>4, <3>5, <3>6
  <2>4. QED
    BY <1>6, <1>8, <2>2, <2>3 DEF Voices
<1>10. CASE ShowQueued /\ state = "queued"
  <2>1. Head(toEnqueue) \in Task
    <3>1. toEnqueue # <<>> /\ toEnqueue \in Seq(Task)
      BY <1>10 DEF ShowQueued, StageInv, Phases, Handing, TypeOK
    <3>2. QED
      BY <3>1, HeadTailSet
  <2>2. \A t \in Task : shown'[t] \in {shown[t], "queued"}
    BY <1>0, <1>10, <2>1 DEF ShowQueued, Show, WorkerTypeOK
  <2>3. WorkersTrue'
    BY <1>3, <2>2 DEF Voices, WorkersTrue
  <2>4. ControllerTrue'
    BY <1>2, <1>10, ThreadFacts DEF ControllerTrue
  <2>5. QED
    BY <1>6, <1>8, <2>3, <2>4 DEF Voices
<1>11. ASSUME NEW u \in Task, u = Head(fixing), x = <<u>>,
              (ShowDead /\ state = "failed") \/ (Skip /\ state = "skipped")
       PROVE  Voices'
  <2>1. cpc \in {"fix", "act"}
    BY <1>11 DEF ShowDead, Skip, MayFix
  <2>2. fixing # <<>> /\ fixing \in Seq(Task)
    BY <2>1 DEF StageInv, Phases, TypeOK
  <2>3. u \in ToSet(fixing)
    BY <1>11, <2>2, HeadTailSet
  <2>4. u \notin Enqueued \cup inflight
    BY <2>3 DEF Custody, InOrder, DeadApart
  <2>5. /\ shown'[u] = state /\ \A t \in Task \ {u} : shown'[t] = shown[t]
        /\ UNCHANGED <<ready, inflight>>
    BY <1>0, <1>11 DEF ShowDead, Skip, Show, queueVars, WorkerTypeOK
  <2>6. WorkersTrue'
    <3>1. ASSUME NEW w \in Worker, NEW t \in Task, NEW s \in TaskState, Says(w, t, s)
          PROVE  t # u /\ shown[t] \in {s, "queued"}
      BY <2>4, <3>1 DEF Voices, WorkersTrue, WorkersAlone, Alone, Speaks
    <3>2. QED
      BY <1>3, <2>5, <3>1 DEF WorkersTrue
  <2>7. ControllerTrue'
    <3>1. \A t : t \in ToSet(x) <=> t = u
      <4>1. DOMAIN x = {1} /\ x[1] = u
        BY <1>11
      <4>2. QED
        BY <4>1 DEF ToSet
    <3>2. QED
      BY <1>2, <2>4, <2>5, <3>1, ThreadFacts DEF ControllerTrue, Enqueued
  <2>8. QED
    BY <1>6, <1>8, <2>6, <2>7 DEF Voices
<1>12. QED
  BY <1>1, <1>9, <1>10, <1>11

LEMMA EmitVoices ==
  ASSUME OweType, SubscriberType, Voices, NEW p \in Thread, Emit(p) PROVE Voices'
<1>1. \A q \in Thread : \A t, s : Says(q, t, s)' => Says(q, t, s)
  BY EmitFacts DEF SubscriberType
<1>2. \A q \in Thread : \A t : Speaks(q, t)' => Speaks(q, t)
  BY <1>1 DEF Speaks
<1>3. UNCHANGED <<inflight, lapsed, ready, work, shown, cpc>>
  BY DEF Emit, vars, queueVars, workerVars, controllerVars
<1>4. WorkersAlone'
  BY <1>2, <1>3, ThreadFacts DEF Voices, WorkersAlone, Alone
<1>5. WorkersTrue' /\ ControllerTrue'
  BY <1>1, <1>3, ThreadFacts DEF Voices, WorkersTrue, ControllerTrue, Enqueued
<1>6. cpc # "plan"
  BY DEF Emit, Voices, Silence
<1>7. Silence'
  BY <1>3, <1>6 DEF Silence
<1>8. QED
  BY <1>4, <1>5, <1>7 DEF Voices

(* A step that tells and emits nothing.                                    *)
LEMMA SilentVoices ==
  ASSUME OweType, StageInv, Custody, StageInv', Leases', Prompt, Voices,
         Quietly, [EventsNext]_allVars
  PROVE  Voices'
<1>0. /\ QueueTypeOK /\ WorkerTypeOK /\ Leases
      /\ UNCHANGED <<owe, heard>>
  BY QuietFacts DEF StageInv, TypeOK, Custody
<1>1. cpc' = "plan" => cpc = "plan"
  BY EventsStep, PlansOnce
<1>2. \A w \in Worker, t \in Task : Speaks(w, t) =>
        /\ t \in inflight \ lapsed
        /\ \A v \in Worker \ {w} : work[v] # t
        /\ shown[t] \in TaskState
  <2>1. ASSUME NEW w \in Worker, NEW t \in Task, Speaks(w, t)
        PROVE  shown[t] \in TaskState
    <3>1. PICK s \in TaskState : Says(w, t, s)
      BY <2>1 DEF Speaks
    <3>2. QED
      BY <3>1 DEF Voices, WorkersTrue, TaskState
  <2>2. QED
    BY <2>1 DEF Voices, WorkersAlone, Alone
<1>3. ASSUME UNCHANGED vars PROVE Voices'
  <2>1. UNCHANGED <<inflight, lapsed, ready, work, shown>>
    BY <1>3 DEF vars, queueVars, workerVars
  <2>2. Enqueued' = Enqueued
    BY <2>1 DEF Enqueued
  <2>3. QED
    BY <1>0, <1>1, <1>2, <2>1, <2>2, VoicesKept
<1>4. CASE \/ Idle(Controller) /\ ControllerIsSilent
           \/ TimesOut
  <2>1. Idle(Controller) /\ (ControllerStep \/ DeadlineStrikes)
    BY <1>4, ControllerSilentStep DEF TimesOut
  <2>2. \A t : ~Speaks(Controller, t)
    BY <2>1, IdleIsSilent
  <2>3. \A t \in Task : shown'[t] = shown[t] \/ shown[t] = Unlisted
    BY <1>0, <1>4, ControllerSilentShown DEF TimesOut, DeadlineStrikes, workerVars
  <2>4. Unlisted \notin TaskState
    BY DEF Unlisted, TaskState
  <2>5. \A w \in Worker, t \in Task : Speaks(w, t) =>
          /\ t \in (inflight \ lapsed)'
          /\ \A v \in Worker : work'[v] = t => work[v] = t
          /\ shown'[t] = shown[t]
    BY <1>2, <2>1, <2>3, <2>4, ControllerAway
  <2>6. QED
    BY <1>0, <1>1, <2>2, <2>5, VoicesKept
<1>5. ASSUME NEW v \in Worker, WorkerStep(v), UNCHANGED shown, Idle(v) \/ Heartbeat(v)
      PROVE  Voices'
  <2>1. Carried
    BY <1>0, <1>5, WorkerStepLeases DEF Moved
  <2>2. ASSUME NEW w \in Worker, NEW t \in Task, Speaks(w, t)
        PROVE  /\ t \in (inflight \ lapsed)'
               /\ \A x \in Worker : work'[x] = t => work[x] = t
    <3>1. work[v] # t \/ Heartbeat(v)
      BY <1>2, <1>5, <2>2, IdleIsSilent
    <3>2. QED
      BY <1>0, <1>2, <1>5, <2>2, <3>1, WorkerAway
  <2>3. QED
    BY <1>0, <1>1, <1>5, <2>1, <2>2, VoicesKept DEF Carried
<1>6. ASSUME NEW u \in Task, LeaseRunsOut(u) PROVE Voices'
  <2>1. /\ UNCHANGED <<ready, inflight, work, shown>> /\ lapsed' = lapsed \cup {u}
    BY <1>6 DEF LeaseRunsOut, LeaseLapses, DeadlinePasses, workerVars
  <2>2. \A w \in Worker : ~Speaks(w, u)
    BY <1>6, SpeakerOwes, ThreadFacts DEF LeaseRunsOut
  <2>3. QED
    BY <1>0, <1>1, <1>2, <2>1, <2>2, VoicesKept DEF Enqueued
<1>7. ASSUME NEW w \in Worker, WorkerQuietly(w) PROVE Voices'
  <2>1. Idle(w) /\ WorkerStep(w)
    BY <1>7, WorkerSilentStep DEF WorkerQuietly, WorkerStep
  <2>2. QED
    BY <1>5, <1>7, <2>1, WorkerSilentShown DEF WorkerQuietly
<1>8. CASE LeaseMoves
  BY <1>5, <1>6, <1>8, WorkerSilentShown DEF LeaseMoves, WorkerStep
<1>9. CASE RunGoesOn
  BY <1>3, <1>9 DEF RunGoesOn, StageDone, RunFailed, RunDone, Join, GiveUpOn
<1>10. CASE UNCHANGED allVars
  BY <1>3, <1>10 DEF allVars
<1>11. QED
  BY <1>4, <1>7, <1>8, <1>9, <1>10 DEF Quietly

LEMMA NextVoices ==
  ASSUME EventsTypeOK, StageInv, Custody, StageInv', Custody', Prompt, Voices,
         [EventsNext]_allVars
  PROVE  Voices'
<1>1. OweType /\ SubscriberType /\ Leases'
  BY DEF EventsTypeOK, OweType, SubscriberType, Custody
<1>2. QED
  BY <1>1, EventKinds, WorkerTellsVoices, ControllerTellsVoices, EmitVoices, SilentVoices

(* The snapshot, by steps that tell nothing.                               *)
LEMMA QuietShown ==
  ASSUME WorkerTypeOK, Quietly, NEW t \in Task
  PROVE  \/ shown'[t] = shown[t]
         \/ shown[t] = Unlisted /\ shown'[t] = "pending"
<1>1. CASE ControllerIsSilent
  BY <1>1, ControllerSilentShown
<1>2. ASSUME NEW w \in Worker, WorkerQuietly(w) \/ Heartbeat(w) PROVE shown' = shown
  BY <1>2, WorkerSilentShown DEF WorkerQuietly
<1>3. CASE TimesOut \/ RunGoesOn \/ UNCHANGED allVars \/ \E u \in Task : LeaseRunsOut(u)
  <2>1. shown' = shown
    BY <1>3 DEF TimesOut, DeadlineStrikes, RunGoesOn, StageDone, RunFailed, RunDone,
       Join, GiveUpOn, allVars, vars, workerVars, LeaseRunsOut, LeaseLapses
  <2>2. QED
    BY <2>1
<1>4. QED
  BY <1>1, <1>2, <1>3 DEF Quietly, LeaseMoves

LEMMA NextInStep ==
  ASSUME EventsTypeOK, StageInv, Custody, Voices, InStep, [EventsNext]_allVars
  PROVE  InStep'
<1>0. OweType /\ SubscriberType /\ WorkerTypeOK
  BY DEF EventsTypeOK, OweType, SubscriberType, StageInv, TypeOK
<1>1. \A t : Owed(t) <=> \E p \in Thread : Speaks(p, t)
  BY <1>0, OwedSpoken
<1>2. ASSUME NEW t, NEW p \in Thread, Speaks(p, t)' PROVE Owed(t)'
  <2>1. PICK s \in TaskState, i \in DOMAIN owe'[p] :
          owe'[p][i] = [task |-> t, state |-> s]
    BY <1>2 DEF Speaks, Says
  <2>2. owe'[p][i].task = t
    BY <2>1
  <2>3. QED
    BY <2>2 DEF Owed
<1>3. ASSUME NEW w \in Worker, Idle(w), WorkerSpeaks(w) PROVE InStep'
  <2>1. PICK u \in Task, state \in TaskState : Tell(w, u, state) /\ Show(u, state)
    BY <1>0, <1>3, WorkerVoice
  <2>2. /\ OweType' /\ heard' = heard
        /\ \A q \in Thread : \A t, s :
             Says(q, t, s)' <=> \/ q # w /\ Says(q, t, s)
                                \/ q = w /\ t = u /\ s = state
    BY <1>0, <1>3, <2>1, ToldOne, ThreadFacts
  <2>3. \A t \in Task \ {u} : shown'[t] = shown[t]
    BY <1>0, <2>1 DEF Show, WorkerTypeOK
  <2>4. \A p \in Thread : \A t : Speaks(p, t) \/ (p = w /\ t = u) => Speaks(p, t)'
    BY <1>3, <2>2, IdleIsSilent DEF Speaks
  <2>5. \A t : Owed(t) \/ t = u => Owed(t)'
    BY <1>1, <1>2, <2>2, <2>4, ThreadFacts
  <2>6. QED
    BY <2>2, <2>3, <2>5 DEF InStep
<1>4. CASE Idle(Controller) /\ ControllerTells
  <2>1. PICK x \in Seq(Task), state \in TaskState :
          /\ TellAll(Controller, x, state)
          /\ \/ PlanStage /\ x = Cached /\ state = "skipped"
             \/ ShowQueued /\ state = "queued"
             \/ \E u \in Task : /\ u = Head(fixing) /\ x = <<u>>
                                /\ \/ ShowDead /\ state = "failed"
                                   \/ Skip /\ state = "skipped"
    BY <1>4, ControllerVoice
  <2>2. /\ OweType' /\ heard' = heard
        /\ \A q \in Thread : \A t, s :
             Says(q, t, s)' <=> \/ q # Controller /\ Says(q, t, s)
                                \/ q = Controller /\ t \in ToSet(x) /\ s = state
    BY <1>0, <1>4, <2>1, ToldFacts, ThreadFacts
  <2>3. \A p \in Thread : \A t :
          Speaks(p, t) \/ (p = Controller /\ t \in ToSet(x)) => Speaks(p, t)'
    BY <1>4, <2>2, IdleIsSilent DEF Speaks
  <2>4. \A t : Owed(t) \/ t \in ToSet(x) => Owed(t)'
    BY <1>1, <1>2, <2>2, <2>3, ThreadFacts
  <2>5. CASE PlanStage /\ x = Cached
    <3>1. heard = [t \in Task |-> Unlisted]
      BY <2>5 DEF PlanStage, PlanFor, Voices, Silence
    <3>2. \A p \in Thread : Idle(p)
      BY <2>5 DEF PlanStage, PlanFor, Voices, Silence
    <3>3. \A t \in Task : t \in ToSet(Only(Plan, Pending))
                <=> t \in ToSet(Plan) /\ t \notin ToSet(Cached)
      <4>1. Plan \in Seq(Task)
        BY PlanAssumption
      <4>2. QED
        BY <4>1, OnlyFacts, CachedFacts DEF Pending
    <3>4. \A t \in Task : \/ t \in ToSet(Cached)
                          \/ shown'[t] = shown[t]
                          \/ shown'[t] = "pending"
      BY <2>5, <3>3 DEF PlanStage, PlanFor
    <3>5. \A t \in Task : ~Owed(t)
      BY <1>1, <3>2, IdleIsSilent
    <3>6. \A t \in Task : heard'[t] = Unlisted
      BY <2>2, <3>1
    <3>7. QED
      BY <2>2, <2>4, <2>5, <3>4, <3>5, <3>6 DEF InStep, Unlisted
  <2>6. CASE ShowQueued
    <3>1. \A t \in Task : shown'[t] = shown[t] \/ shown'[t] = "queued"
      BY <1>0, <2>6 DEF ShowQueued, Show, WorkerTypeOK
    <3>2. QED
      BY <2>2, <2>4, <3>1 DEF InStep
  <2>7. ASSUME NEW u \in Task, u = Head(fixing), x = <<u>>, ShowDead \/ Skip
        PROVE  InStep'
    <3>1. \A t \in Task \ {u} : shown'[t] = shown[t]
      BY <1>0, <2>7 DEF ShowDead, Skip, Show, WorkerTypeOK
    <3>2. u \in ToSet(x)
      <4>1. DOMAIN x = {1} /\ x[1] = u
        BY <2>7
      <4>2. QED
        BY <4>1 DEF ToSet
    <3>3. QED
      BY <2>2, <2>4, <3>1, <3>2 DEF InStep
  <2>8. QED
    BY <2>1, <2>5, <2>6, <2>7
<1>5. ASSUME NEW p \in Thread, Emit(p) PROVE InStep'
  <2>1. PICK u \in Task, state \in TaskState :
            /\ Says(p, u, state)
            /\ OweType'
            /\ heard'[u] = state
            /\ \A t \in Task \ {u} : heard'[t] = heard[t]
            /\ \A q \in Thread : \A t, s :
                  Says(q, t, s) => Says(q, t, s)' \/ (q = p /\ t = u /\ s = state)
    BY <1>0, <1>5, EmitFacts DEF SubscriberType
  <2>2. shown' = shown
    BY <1>5 DEF Emit, vars, workerVars
  <2>3. state = "queued" \/ shown[u] \in {state, "queued"}
    BY <2>1, ThreadFacts DEF Voices, WorkersTrue, ControllerTrue
  <2>4. \A q \in Thread : \A t \in Task \ {u} : Speaks(q, t) => Speaks(q, t)'
    BY <2>1 DEF Speaks
  <2>5. \A t \in Task \ {u} : Owed(t) => Owed(t)'
    BY <1>1, <1>2, <2>1, <2>4
  <2>6. QED
    BY <2>1, <2>2, <2>3, <2>5 DEF InStep
<1>6. CASE Quietly
  <2>1. /\ heard' = heard /\ owe' = owe
        /\ \A t \in Task : \/ shown'[t] = shown[t]
                           \/ shown[t] = Unlisted /\ shown'[t] = "pending"
    BY <1>0, <1>6, QuietFacts, QuietShown
  <2>2. \A t : Owed(t)' <=> Owed(t)
    BY <2>1 DEF Owed
  <2>3. QED
    BY <2>1, <2>2 DEF InStep, Unlisted
<1>7. QED
  BY <1>3, <1>4, <1>5, <1>6, EventKinds

LEMMA InitVoices == ASSUME EventsInit PROVE Voices /\ InStep
<1>1. \A p \in Thread : Idle(p)
  BY DEF EventsInit, Idle
<1>2. \A p \in Thread : \A t, s : ~Says(p, t, s) /\ ~Speaks(p, t)
  BY <1>1, IdleIsSilent
<1>3. Voices
  BY <1>1, <1>2, ThreadFacts
     DEF Voices, WorkersAlone, WorkersTrue, ControllerTrue, Silence, EventsInit
<1>4. InStep
  BY DEF InStep, EventsInit, Init
<1>5. QED
  BY <1>3, <1>4

Followed == StageInv /\ EventsTypeOK /\ Custody /\ Voices /\ InStep

LEMMA FollowedHolds == ASSUME Prompt PROVE EventsSpec => []Followed
<1>1. EventsInit => Followed
  BY InitEventsType, InitCustody, InitVoices DEF Followed, EventsInit
<1>2. Followed /\ [EventsNext]_allVars => Followed'
  <2> SUFFICES ASSUME Followed, [EventsNext]_allVars PROVE Followed'
    OBVIOUS
  <2>1. [Next]_vars
    BY EventsStep
  <2>2. StageInv' /\ EventsTypeOK'
    BY <2>1, NextStageInv, NextEventsType DEF Followed
  <2>3. Custody'
    BY <2>1, <2>2, NextCustody DEF Followed
  <2>4. Voices' /\ InStep'
    BY <2>2, <2>3, NextVoices, NextInStep DEF Followed
  <2>5. QED
    BY <2>2, <2>3, <2>4 DEF Followed
<1>3. QED
  BY <1>1, <1>2, PTL DEF EventsSpec

(* While heartbeats are prompt, a subscriber that nobody owes an event has  *)
(* of each task what the snapshot has, but for QUEUED, though events leave  *)
(* the lock that orders the snapshot (tracker.py:64-76,                     *)
(* controller.py:188-189).                                                  *)
THEOREM EventsStayInStep == ASSUME Prompt PROVE EventsSpec => []InStep
<1>1. Followed => InStep
  BY DEF Followed
<1>2. QED
  BY <1>1, FollowedHolds, PTL

-----------------------------------------------------------------------------
(* A stage that nobody works on any more has nothing left to be worked on, *)
(* not even a chunk that a previous run had done already.                  *)

AllDone ==
    /\ cpc \in {"dead", "done", "returned"}
    /\ Live = {}
    /\ \A t \in active : HasResult(t)
Tended == AllDone => ready = <<>>
Staffed == cpc = "ensure" => want >= 1
Opened == cpc \in {"plan", "returned"} => ~gate
Tending == Tended /\ Staffed /\ Opened

LEMMA StillAwaited ==
  ASSUME StageInv, Custody, cpc \in Quiet, NEW t \in Enqueued \cup inflight,
         ~HasResult(t)
  PROVE  t \in active
<1>1. t \in ToSet(manifest) /\ t \notin ToSet(rest)
  BY DEF Custody, InManifest, Apart, HeldBack
<1>2. newTasks = {}
  BY DEF StageInv, Phases
<1>3. QED
  BY <1>1, <1>2 DEF StageInv, Listed, Awaited

LEMMA WorkerTended ==
  ASSUME ~Forced, StageInv, Custody, Tended, NEW w \in Worker, WorkerStep(w),
         UNCHANGED controllerVars
  PROVE  Tended'
<1> SUFFICES ASSUME AllDone' PROVE ready' = <<>>
  BY DEF Tended
<1>0. QueueTypeOK /\ WorkerTypeOK /\ Leases
  BY DEF StageInv, TypeOK, Custody
<1>1. cpc \in Quiet /\ active' = active /\ pc'[w] = "off"
  BY DEF AllDone, Quiet, Live, controllerVars, drainVars
<1>2. CASE IdleExit(w)
  BY <1>2 DEF IdleExit, ClaimNone
<1>3. CASE DieStarting(w) \/ DieFailing(w)
  <2>1. work[w] \in Task /\ pc[w] \in Recomputing /\ UNCHANGED <<prior, ran>>
    BY <1>0, <1>3 DEF DieStarting, DieFailing, Recomputing, WorkerTypeOK, storeVars
  <2>2. work[w] \in inflight /\ ~HasResult(work[w])
    BY <1>0, <2>1 DEF Leases, LeaseHeld, NotRedone, Finished, HasResult
  <2>3. work[w] \in active
    BY <1>1, <2>2, StillAwaited
  <2>4. HasResult(work[w])
    BY <1>1, <2>1, <2>3 DEF AllDone, HasResult
  <2>5. QED
    BY <2>2, <2>4
<1>4. CASE ~(IdleExit(w) \/ DieStarting(w) \/ DieFailing(w))
  <2>1. pc'[w] # "off"
    BY <1>0, <1>4
       DEF WorkerStep, WorkerProgress, ClaimTask, FindNothing, Check, ShowSkipped,
           Start, Publish, Raise, ShowSuccess, AckTask, WriteFailure, ShowFailed,
           FailTask, Heartbeat, Goto, Leave, workerVars, WorkerTypeOK
  <2>2. QED
    BY <1>1, <2>1
<1>5. QED
  BY <1>2, <1>3, <1>4

LEMMA EnsureFleetTended ==
  ASSUME TypeOK, Staffed, EnsureFleet PROVE Tended'
<1> SUFFICES ASSUME AllDone' PROVE FALSE
  BY DEF Tended
<1>1. cpc = "ensure" /\ Live' = {}
  BY DEF EnsureFleet, AllDone
<1>2. PICK S \in SUBSET (Worker \ Live) :
        Cardinality(S) = Most(want, Cardinality(Live)) - Cardinality(Live) /\ Spawn(S)
  BY DEF EnsureFleet
<1>3. Live = {} /\ S = {}
  <2>1. pc' = [w \in Worker |-> IF w \in S THEN "poll" ELSE pc[w]]
    BY <1>2 DEF Spawn
  <2>2. \A w \in Worker : pc'[w] = "off"
    BY <1>1 DEF Live
  <2>3. \A w \in Worker : w \notin S /\ pc[w] = "off"
    BY <2>1, <2>2
  <2>4. QED
    BY <1>2, <2>3 DEF Live
<1>4. Cardinality(Live) = 0 /\ Cardinality(S) = 0
  BY <1>3, FS_EmptySet
<1>5. want \in Nat /\ want >= 1
  BY <1>1, ControllerAssumption DEF Staffed, TypeOK
<1>6. Most(want, 0) = want
  BY <1>5 DEF Most
<1>7. QED
  BY <1>2, <1>4, <1>5, <1>6

LEMMA ReadDepthTending ==
  ASSUME StageInv, StageInv', ReadDepth PROVE Tending'
<1>1. ready' \in Seq(Task) /\ Len(ready') \in Nat
  BY DEF StageInv, TypeOK, QueueTypeOK
<1>2. Cardinality(inflight') \in Nat /\ Cardinality(Live) \in Nat
  <2>1. inflight' \in SUBSET Task
    BY DEF StageInv, TypeOK, QueueTypeOK
  <2>2. IsFiniteSet(inflight')
    BY <2>1, FiniteSubset
  <2>3. IsFiniteSet(Live)
    BY ControllerAssumption, FS_Subset DEF Live
  <2>4. QED
    BY <2>2, <2>3, FS_CardinalityType
<1>3. CASE DepthAfterSweep = 0 /\ cpc' = "dead"
  <2>1. Len(ready') = 0
    BY <1>1, <1>2, <1>3 DEF DepthAfterSweep
  <2>2. ready' = <<>>
    BY <1>1, <2>1
  <2>3. QED
    BY <1>3, <2>2 DEF Tending, Tended, Staffed, Opened
<1>4. CASE /\ DepthAfterSweep > 0 /\ cpc' = "ensure"
           /\ want' = Least(MaxWorkers, DepthAfterSweep + Cardinality(Live))
  <2>1. MaxWorkers \in Nat /\ MaxWorkers >= 1
    <3>1. IsFiniteSet(Worker) /\ MaxWorkers \in 1 .. Cardinality(Worker)
      BY ControllerAssumption
    <3>2. Cardinality(Worker) \in Nat
      BY <3>1, FS_CardinalityType
    <3>3. QED
      BY <3>1, <3>2
  <2>2. DepthAfterSweep \in Nat
    BY <1>1, <1>2 DEF DepthAfterSweep
  <2>3. DepthAfterSweep + Cardinality(Live) \in Nat /\ DepthAfterSweep + Cardinality(Live) >= 1
    BY <1>2, <1>4, <2>2
  <2>4. want' >= 1
    BY <1>4, <2>1, <2>3 DEF Least
  <2>5. QED
    BY <1>4, <2>4 DEF Tending, Tended, AllDone, Staffed, Opened
<1>5. QED
  BY <1>3, <1>4 DEF ReadDepth

LEMMA ControllerTending ==
  ASSUME StageInv, StageInv', Custody, Tending, ControllerStep \/ DeadlineStrikes
  PROVE  Tending'
<1>1. CASE PlanStage
  <2>1. /\ cpc = "plan" /\ ready' = <<>> /\ cpc' \in {"returned", "enqueue"}
        /\ cpc' = "returned" => gate' = gate
    BY <1>1 DEF PlanStage, PlanFor, Launch, drainVars, queueVars, Custody, Blank
  <2>2. QED
    BY <2>1 DEF Tending, Tended, Staffed, Opened
<1>2. CASE EnsureFleet
  <2>1. cpc' \in {"depth", "dead"}
    BY <1>2 DEF EnsureFleet
  <2>2. Tended'
    BY <1>2, EnsureFleetTended DEF StageInv, Tending
  <2>3. QED
    BY <2>1, <2>2 DEF Tending, Staffed, Opened
<1>3. CASE ReadDepth
  BY <1>3, ReadDepthTending
<1>4. CASE FindDead
  <2>1. /\ cpc = "dead" /\ cpc' \in {"done", "fix", "failed"}
        /\ UNCHANGED <<ready, pc, active, prior, ran>>
    BY <1>4 DEF FindDead, Handle, queueVars, workerVars, storeVars, drainVars
  <2>2. AllDone' => AllDone
    BY <2>1 DEF AllDone, Live, HasResult
  <2>3. QED
    BY <2>1, <2>2 DEF Tending, Tended, Staffed, Opened
<1>5. CASE CheckDone
  <2>1. /\ cpc = "done" /\ cpc' \in {"depth", "enqueue", "returned"}
        /\ UNCHANGED <<ready, pc, prior, ran>>
        /\ cpc' = "returned" => active' = active /\ gate' = gate /\ ~gate
    BY <1>5 DEF CheckDone, Conclude, Launch, queueVars, workerVars, storeVars, drainVars
  <2>2. AllDone' => AllDone
    BY <2>1 DEF AllDone, Live, HasResult
  <2>3. QED
    BY <2>1, <2>2 DEF Tending, Tended, Staffed, Opened
<1>6. CASE \/ EnqueueNext \/ ShowQueued \/ SizeFleet \/ Settle \/ ShowDead \/ GiveUp
           \/ RetryWith \/ Resplit \/ Skip \/ DeadlineStrikes
  <2>1. cpc' \notin {"dead", "done", "returned", "ensure", "plan"}
    BY <1>6 DEF EnqueueNext, ShowQueued, SizeFleet, Settle, SettleWith, ShowDead,
       GiveUp, RetryWith, Resplit, Skip, Apply, ApplyAwaiting, DeadlineStrikes
  <2>2. QED
    BY <2>1 DEF Tending, Tended, AllDone, Staffed, Opened
<1>7. QED
  BY <1>1, <1>2, <1>3, <1>4, <1>5, <1>6 DEF ControllerStep

LEMMA NextTending ==
  ASSUME ~Forced, StageInv, StageInv', Custody, Tending, [Next]_vars
  PROVE  Tending'
<1>1. CASE ControllerStep \/ DeadlineStrikes
  BY <1>1, ControllerTending
<1>2. ASSUME UNCHANGED controllerVars PROVE Staffed' /\ Opened'
  BY <1>2 DEF controllerVars, drainVars, Tending, Staffed, Opened
<1>3. ASSUME NEW w \in Worker, WorkerStep(w), UNCHANGED controllerVars
      PROVE  Tending'
  BY <1>2, <1>3, WorkerTended DEF Tending
<1>4. ASSUME UNCHANGED <<ready, pc, prior, ran, controllerVars>> PROVE Tending'
  <2>1. AllDone' <=> AllDone
    BY <1>4 DEF AllDone, Live, HasResult, controllerVars, drainVars
  <2>2. QED
    BY <1>2, <1>4, <2>1 DEF Tending, Tended
<1>5. ASSUME NEW t \in Task, LeaseLapses(t), UNCHANGED controllerVars
      PROVE  Tending'
  BY <1>4, <1>5 DEF LeaseLapses, DeadlinePasses, workerVars, storeVars
<1>6. CASE UNCHANGED vars
  BY <1>4, <1>6 DEF vars, queueVars, workerVars, storeVars
<1>7. QED
  BY <1>1, <1>3, <1>5, <1>6 DEF Next

-----------------------------------------------------------------------------
(* The end of the run.                                                     *)

Closing ==
    /\ finale # "none" => cpc \in Ended /\ Idle(Controller)
    /\ finale \in {"stage_done", "run_done"} => cpc = "returned"
    /\ \A w \in joined : /\ finale \in {"stage_done", "run_done"}
                         /\ pc[w] = "off" /\ Idle(w)
    /\ finale = "run_done" => joined \cup givenUp = Worker

LEMMA EndedStays ==
  ASSUME cpc \in Ended PROVE ~ControllerStep /\ ~DeadlineStrikes
BY DEF Ended, ControllerStep, DeadlineStrikes, PlanStage, PlanFor, EnqueueNext,
   ShowQueued, SizeFleet, EnsureFleet, ReadDepth, FindDead, Handle, Settle, SettleWith,
   CheckDone, Conclude, ShowDead, GiveUp, RetryWith, Resplit, Skip, MayFix

LEMMA OffIsOff ==
  ASSUME NEW w \in Worker, pc[w] = "off" PROVE ~WorkerStep(w)
BY DEF WorkerStep, WorkerProgress, ClaimTask, FindNothing, IdleExit, Check,
   ShowSkipped, Start, DieStarting, Publish, Raise, ShowSuccess, AckTask,
   WriteFailure, DieFailing, ShowFailed, FailTask, Heartbeat

LEMMA OthersStay ==
  ASSUME WorkerTypeOK, NEW v \in Worker, NEW w \in Worker \ {v}, WorkerStep(v)
  PROVE  pc'[w] = pc[w] /\ work'[w] = work[w]
BY DEF WorkerStep, WorkerProgress, ClaimTask, FindNothing, IdleExit, Check,
   ShowSkipped, Start, DieStarting, Publish, Raise, ShowSuccess, AckTask,
   WriteFailure, DieFailing, ShowFailed, FailTask, Heartbeat, Goto, Leave,
   WorkerTypeOK, workerVars

LEMMA OffStays ==
  ASSUME WorkerTypeOK, cpc \in Ended, [Next]_vars, NEW w \in Worker, pc[w] = "off"
  PROVE  cpc' = cpc /\ pc'[w] = "off"
<1>1. ASSUME NEW v \in Worker, WorkerStep(v) PROVE pc'[w] = "off"
  BY <1>1, OffIsOff, OthersStay
<1>2. ASSUME NEW t \in Task, LeaseLapses(t) PROVE pc'[w] = "off"
  BY <1>2 DEF LeaseLapses, workerVars
<1>3. QED
  BY <1>1, <1>2, EndedStays DEF Next, vars, controllerVars, workerVars

LEMMA IdleStays ==
  ASSUME OweType, SubscriberType, StageInv, [EventsNext]_allVars, NEW p \in Thread,
         Idle(p), p \in Worker => pc[p] = "off", p = Controller => cpc \in Ended
  PROVE  Idle(p)'
<1>0. WorkerTypeOK
  BY DEF StageInv, TypeOK
<1>1. ASSUME NEW w \in Worker, Idle(w), WorkerSpeaks(w), WorkerStep(w)
      PROVE  owe'[p] = owe[p]
  <2>1. p # w
    BY <1>1, OffIsOff
  <2>2. PICK u \in Task, state \in TaskState : Tell(w, u, state)
    BY <1>0, <1>1, WorkerVoice
  <2>3. QED
    BY <1>1, <2>1, <2>2, ToldOne, ThreadFacts
<1>2. CASE Idle(Controller) /\ ControllerTells
  <2>1. p # Controller
    BY <1>2, EndedStays, ControllerTellsStep
  <2>2. PICK x \in Seq(Task), state \in TaskState : TellAll(Controller, x, state)
    BY <1>2, ControllerVoice
  <2>3. QED
    BY <1>2, <2>1, <2>2, ToldFacts, ThreadFacts DEF Idle
<1>3. ASSUME NEW q \in Thread, Emit(q) PROVE owe'[p] = owe[p]
  <2>1. p # q
    BY <1>3 DEF Emit
  <2>2. QED
    BY <1>3, <2>1, EmitFacts DEF SubscriberType
<1>4. QED
  BY <1>1, <1>2, <1>3, EventKinds, QuietFacts DEF Idle

LEMMA NextClosing ==
  ASSUME ~Forced, EventsTypeOK, StageInv, Custody, Closing, [EventsNext]_allVars
  PROVE  Closing'
<1>0. /\ OweType /\ SubscriberType /\ WorkerTypeOK /\ [Next]_vars
      /\ joined \subseteq Worker
  BY EventsStep DEF EventsTypeOK, OweType, SubscriberType, StageInv, TypeOK
<1>1. cpc \in Ended => cpc' = cpc
  BY <1>0, EndedStays DEF Next, vars, controllerVars
<1>2. cpc \in Ended /\ Idle(Controller) => Idle(Controller)'
  BY <1>0, IdleStays, ThreadFacts
<1>3. ASSUME NEW w \in Worker, cpc \in Ended, pc[w] = "off", Idle(w)
      PROVE  pc'[w] = "off" /\ Idle(w)'
  BY <1>0, <1>3, OffStays, IdleStays, ThreadFacts
<1>4. CASE UNCHANGED <<joined, givenUp, finale>>
  BY <1>0, <1>1, <1>2, <1>3, <1>4 DEF Closing, Ended
<1>5. ASSUME RunGoesOn PROVE Closing'
  <2>1. UNCHANGED <<cpc, pc, owe>>
    BY <1>5 DEF RunGoesOn, StageDone, RunFailed, RunDone, Join, GiveUpOn, vars, workerVars,
       controllerVars
  <2>2. \A p : Idle(p)' <=> Idle(p)
    BY <2>1 DEF Idle
  <2>3. CASE StageDone
    BY <2>1, <2>2, <2>3 DEF StageDone, Closing, Ended
  <2>4. CASE RunFailed
    BY <2>1, <2>2, <2>4 DEF RunFailed, Closing, Ended
  <2>5. CASE RunDone
    BY <2>1, <2>2, <2>5 DEF RunDone, Closing
  <2>6. ASSUME NEW w \in Worker, Join(w) PROVE Closing'
    <3>1. /\ finale = "stage_done" /\ finale' = finale /\ joined' = joined \cup {w}
          /\ pc[w] = "off" /\ Idle(w)
      BY <2>6 DEF Join, Draining, ThreadEnded
    <3>2. cpc' \in Ended /\ Idle(Controller)' /\ cpc' = "returned"
      BY <2>1, <2>2, <3>1 DEF Closing
    <3>3. ASSUME NEW v \in joined' PROVE pc'[v] = "off" /\ Idle(v)'
      BY <2>1, <2>2, <3>1, <3>3 DEF Closing
    <3>4. finale' # "run_done" /\ finale' = "stage_done"
      BY <3>1
    <3>5. QED
      BY <3>2, <3>3, <3>4 DEF Closing
  <2>7. ASSUME NEW w \in Worker, GiveUpOn(w) PROVE Closing'
    <3>1. finale = "stage_done" /\ finale' = finale /\ joined' = joined
      BY <2>7 DEF GiveUpOn, Draining
    <3>2. cpc' \in Ended /\ Idle(Controller)' /\ cpc' = "returned"
      BY <2>1, <2>2, <3>1 DEF Closing
    <3>3. ASSUME NEW v \in joined' PROVE pc'[v] = "off" /\ Idle(v)'
      BY <2>1, <2>2, <3>1, <3>3 DEF Closing
    <3>4. finale' # "run_done" /\ finale' = "stage_done"
      BY <3>1
    <3>5. QED
      BY <3>2, <3>3, <3>4 DEF Closing
  <2>8. QED
    BY <1>5, <2>3, <2>4, <2>5, <2>6, <2>7 DEF RunGoesOn
<1>6. ASSUME ~RunGoesOn PROVE UNCHANGED <<joined, givenUp, finale>>
  BY <1>6 DEF EventsNext, allVars, eventVars, LeaseMoves, LeaseRunsOut,
     ControllerGoesOn, ControllerTells, ControllerIsSilent, TimesOut, Tell,
     TellAll, Emit, WorkerGoesOn, WorkerTells, WorkerIsSilent, WorkerStops,
     WorkerFails, WorkerExits
<1>7. QED
  BY <1>4, <1>5, <1>6

-----------------------------------------------------------------------------
(* Every chunk of the manifest that is done is announced, or still on its  *)
(* way to a worker that will announce it.                                  *)

Coming == HeldBack \cup Enqueued \cup inflight
Said(p, t) == t \in concluded \/ Says(p, t, "success") \/ Says(p, t, "skipped")
Concluding(t) == \E p \in Thread : Said(p, t)
Acking(w) == pc[w] \in {"ack", "skipAck"}

DoneAnnounced ==
    \A t \in ToSet(manifest) : Finished(t) => Concluding(t) \/ t \in Coming
AckedAfter == \A w \in Worker : Acking(w) => Said(w, work[w])
Announced == DoneAnnounced /\ AckedAfter

LEMMA SaidStays ==
  ASSUME EventsTypeOK, StageInv, [EventsNext]_allVars, NEW p \in Thread, NEW t \in Task,
         Said(p, t)
  PROVE  Said(p, t)'
<1>0. OweType /\ SubscriberType /\ WorkerTypeOK
  BY DEF EventsTypeOK, OweType, SubscriberType, StageInv, TypeOK
<1>1. ASSUME NEW w \in Worker, Idle(w), WorkerSpeaks(w) PROVE Said(p, t)'
  <2>1. PICK u \in Task, state \in TaskState : Tell(w, u, state)
    BY <1>0, <1>1, WorkerVoice
  <2>2. \A s : Says(p, t, s) => Says(p, t, s)'
    BY <1>0, <1>1, <2>1, ToldOne, IdleIsSilent, ThreadFacts
  <2>3. concluded' = concluded
    BY <1>0, <1>1, <2>1, ToldOne, ThreadFacts
  <2>4. QED
    BY <2>2, <2>3 DEF Said
<1>2. CASE Idle(Controller) /\ ControllerTells
  <2>1. PICK x \in Seq(Task), state \in TaskState : TellAll(Controller, x, state)
    BY <1>2, ControllerVoice
  <2>2. \A s : Says(p, t, s) => Says(p, t, s)'
    BY <1>0, <1>2, <2>1, ToldFacts, IdleIsSilent, ThreadFacts
  <2>3. concluded' = concluded
    BY <1>0, <1>2, <2>1, ToldFacts, ThreadFacts
  <2>4. QED
    BY <2>2, <2>3 DEF Said
<1>3. ASSUME NEW q \in Thread, Emit(q) PROVE Said(p, t)'
  <2>1. PICK u \in Task, state \in TaskState :
          /\ concluded' = IF state \in {"success", "skipped"}
                          THEN concluded \cup {u} ELSE concluded
          /\ \A r \in Thread : \A x, s :
                Says(r, x, s) => Says(r, x, s)' \/ (r = q /\ x = u /\ s = state)
    BY <1>0, <1>3, EmitFacts DEF SubscriberType
  <2>2. QED
    BY <2>1 DEF Said
<1>4. CASE Quietly
  <2>1. UNCHANGED <<owe, concluded>>
    BY <1>4, QuietFacts
  <2>2. QED
    BY <2>1 DEF Said, Says
<1>5. QED
  BY <1>1, <1>2, <1>3, <1>4, EventKinds

(* What is done and was on its way stays so, until it is acknowledged.     *)
LEMMA WorkerComing ==
  ASSUME StageInv, Custody, NEW w \in Worker, WorkerStep(w), UNCHANGED controllerVars,
         NEW t, Finished(t)'
  PROVE  \/ t \in Coming'
         \/ Finished(t) /\ t \notin Coming
         \/ AckTask(w) /\ Acking(w) /\ t = work[w]
<1>0. QueueTypeOK /\ WorkerTypeOK /\ Leases
  BY DEF StageInv, TypeOK, Custody
<1>1. HeldBack' = HeldBack
  BY DEF HeldBack, Unsent, controllerVars, drainVars
<1>2. Finished(t) \/ t \in inflight'
  BY <1>0, WorkerStepLeases DEF Moved, Carried, Finished
<1>3. SUFFICES ASSUME Finished(t), t \in Enqueued \cup inflight
               PROVE  \/ t \in (Enqueued \cup inflight)'
                      \/ AckTask(w) /\ Acking(w) /\ t = work[w]
  BY <1>1, <1>2 DEF Coming
<1>4. t \notin lapsed
  BY <1>0, <1>3, LapsedFacts
<1>5. CASE ClaimTask(w)
  <2>1. PICK got : Claim(got)
    BY <1>5 DEF ClaimTask
  <2>2. /\ Enqueued' \cup {got} = Enqueued \cup Survivors
        /\ inflight' = (inflight \ lapsed) \cup {got}
    BY <1>0, <2>1, ClaimFacts
  <2>3. QED
    BY <1>3, <1>4, <2>2
<1>6. CASE FindNothing(w) \/ IdleExit(w)
  <2>1. Enqueued' = Enqueued \cup Survivors /\ inflight' = inflight \ lapsed
    BY <1>0, <1>6, SweepFacts DEF FindNothing, IdleExit, ClaimNone
  <2>2. QED
    BY <1>3, <1>4, <2>1
<1>7. CASE FailTask(w)
  <2>1. pc[w] = "nack" /\ Fail(work[w]) /\ work[w] \in Task
    BY <1>0, <1>7 DEF FailTask, WorkerTypeOK
  <2>2. t # work[w]
    BY <1>0, <1>3, <2>1 DEF Leases, NotRedone, Recomputing
  <2>3. Enqueued \subseteq Enqueued'
    BY <1>0, <2>1, FailFacts DEF Enqueued
  <2>4. inflight' = inflight \ {work[w]}
    BY <2>1 DEF Fail, DropLease
  <2>5. QED
    BY <1>3, <2>2, <2>3, <2>4
<1>8. CASE AckTask(w)
  <2>1. Acking(w) /\ inflight' = inflight \ {work[w]} /\ ready' = ready
    BY <1>8 DEF AckTask, Acking, Ack, DropLease
  <2>2. QED
    BY <1>3, <1>8, <2>1 DEF Enqueued
<1>9. CASE \/ Check(w) \/ ShowSkipped(w) \/ Start(w) \/ DieStarting(w) \/ Publish(w)
           \/ Raise(w) \/ ShowSuccess(w) \/ WriteFailure(w) \/ DieFailing(w)
           \/ ShowFailed(w) \/ Heartbeat(w)
  <2>1. UNCHANGED <<ready, inflight>>
    BY <1>9 DEF Check, ShowSkipped, Start, DieStarting, Publish, Raise, ShowSuccess,
       WriteFailure, DieFailing, ShowFailed, Heartbeat, Extend, queueVars
  <2>2. QED
    BY <1>3, <2>1 DEF Enqueued
<1>10. QED
  BY <1>5, <1>6, <1>7, <1>8, <1>9 DEF WorkerStep, WorkerProgress

LEMMA SweptComing ==
  ASSUME StageInv, Custody, Sweep, HeldBack \subseteq HeldBack', NEW t \in Coming, Finished(t)
  PROVE  t \in Coming'
<1>1. QueueTypeOK /\ WorkerTypeOK /\ Leases
  BY DEF StageInv, TypeOK, Custody
<1>2. t \notin lapsed
  BY <1>1, LapsedFacts
<1>3. Enqueued' = Enqueued \cup Survivors /\ inflight' = inflight \ lapsed
  BY <1>1, SweepFacts
<1>4. QED
  BY <1>2, <1>3 DEF Coming

LEMMA ControllerComing ==
  ASSUME StageInv, Custody, ControllerStep \/ DeadlineStrikes, ~PlanStage,
         NEW t \in ToSet(manifest'), Finished(t)'
  PROVE  /\ Finished(t)
         /\ t \in Coming' \/ (t \in ToSet(manifest) /\ t \notin Coming)
<1>0. TypeOK /\ QueueTypeOK
  BY DEF StageInv, TypeOK
<1>1. Finished(t)
  BY DEF ControllerStep, DeadlineStrikes, EnqueueNext, ShowQueued, SizeFleet,
     EnsureFleet, Spawn, ReadDepth, FindDead, Handle, Settle, SettleWith, CheckDone,
     Conclude, ShowDead, GiveUp, RetryWith, Resplit, Skip, Apply, ApplyAwaiting,
     workerVars, storeVars, Finished
<1>2. SUFFICES t \in Coming' \/ (t \in ToSet(manifest) /\ t \notin Coming)
  BY <1>1
<1>3. CASE EnqueueNext
  <2>1. cpc = "enqueue" /\ cpc' = "show" /\ toEnqueue # <<>> /\ toEnqueue \in Seq(Task)
    BY <1>0, <1>3 DEF EnqueueNext, StageInv, Phases, Handing, TypeOK
  <2>2. /\ Enqueue(Head(toEnqueue)) /\ UNCHANGED <<toEnqueue, rest, manifest, inflight>>
    BY <1>3 DEF EnqueueNext, Enqueue, drainVars, fixVars
  <2>3. /\ ToSet(toEnqueue) = {Head(toEnqueue)} \cup ToSet(Tail(toEnqueue))
        /\ Head(toEnqueue) \in Task
    BY <2>1, HeadTailSet
  <2>4. PICK h \in Task : h = Head(toEnqueue)
    BY <2>3
  <2>5. Enqueued' = Enqueued \cup {h}
    BY <1>0, <2>2, <2>4, EnqueueFacts
  <2>6. Coming \subseteq Coming'
    BY <2>1, <2>2, <2>3, <2>4, <2>5 DEF Coming, HeldBack, Unsent
  <2>7. QED
    BY <2>2, <2>6
<1>4. CASE ShowQueued
  <2>1. /\ cpc = "show" /\ cpc' # "show" /\ toEnqueue' = Tail(toEnqueue)
        /\ UNCHANGED <<rest, ready, inflight, manifest>>
    BY <1>4 DEF ShowQueued, queueVars, fixVars
  <2>2. QED
    BY <2>1 DEF Coming, HeldBack, Unsent, Enqueued
<1>5. CASE SizeFleet \/ ReadDepth
  <2>1. /\ UNCHANGED <<toEnqueue, rest, manifest>> /\ cpc # "show" /\ cpc' # "show"
        /\ Sweep \/ UNCHANGED <<ready, inflight>>
    BY <1>5 DEF SizeFleet, ReadDepth, fixVars, queueVars
  <2>2. HeldBack' = HeldBack
    BY <2>1 DEF HeldBack, Unsent
  <2>3. QED
    BY <1>1, <2>1, <2>2, SweptComing DEF Coming, Enqueued
<1>6. CASE \/ EnsureFleet \/ FindDead \/ Settle \/ ShowDead \/ GiveUp \/ DeadlineStrikes
  <2>1. /\ UNCHANGED <<toEnqueue, rest, manifest, ready, inflight>>
        /\ cpc # "show" /\ cpc' # "show"
    BY <1>6 DEF EnsureFleet, FindDead, Handle, Settle, SettleWith, ShowDead, GiveUp,
       DeadlineStrikes, drainVars, fixVars, queueVars
  <2>2. QED
    BY <2>1 DEF Coming, HeldBack, Unsent, Enqueued
<1>7. CASE CheckDone
  <2>1. /\ UNCHANGED <<manifest, ready, inflight>> /\ cpc = "done" /\ cpc' # "show"
        /\ \/ UNCHANGED <<toEnqueue, rest>>
           \/ toEnqueue' = rest
    BY <1>7 DEF CheckDone, Conclude, Launch, drainVars, fixVars, queueVars
  <2>2. toEnqueue = <<>>
    BY <2>1 DEF StageInv, Phases, Handing
  <2>3. ToSet(<<>>) = {}
    BY DEF ToSet
  <2>4. HeldBack \subseteq HeldBack'
    BY <2>1, <2>2, <2>3 DEF HeldBack, Unsent
  <2>5. QED
    BY <2>1, <2>4 DEF Coming, Enqueued
<1>8. CASE RetryWith \/ Resplit \/ Skip
  <2>1. /\ UNCHANGED <<rest, ready, inflight>> /\ cpc = "act" /\ cpc' # "show"
    BY <1>8 DEF RetryWith, Resplit, Skip, MayFix, Apply, ApplyAwaiting, queueVars
  <2>2. HeldBack = ToSet(rest)
    BY <2>1, HandledFacts
  <2>3. Coming \subseteq Coming'
    BY <2>1, <2>2 DEF Coming, HeldBack, Enqueued
  <2>4. t \in ToSet(manifest) \/ t \in ToSet(toEnqueue')
    <3>1. CASE RetryWith
      BY <3>1 DEF RetryWith, Apply, ApplyAwaiting
    <3>2. PICK h \in Task : h = Head(fixing)
      BY <2>1, HandledFacts
    <3>3. Without(h) \in Seq(Task) /\ ToSet(Without(h)) \subseteq ToSet(manifest)
      BY WithoutFacts
    <3>4. CASE Skip
      BY <3>2, <3>3, <3>4 DEF Skip, Apply, ApplyAwaiting
    <3>5. CASE Resplit
      <4>1. manifest' = Without(h) \o Parts[h] /\ toEnqueue' = Parts[h]
        BY <3>2, <3>5 DEF Resplit, Apply, ApplyAwaiting
      <4>2. Parts[h] \in Seq(Task)
        BY PlanAssumption
      <4>3. ToSet(manifest') = ToSet(Without(h)) \cup ToSet(Parts[h])
        BY <3>3, <4>1, <4>2, ConcatSet
      <4>4. QED
        BY <3>3, <4>1, <4>3
    <3>6. QED
      BY <1>8, <3>1, <3>4, <3>5
  <2>5. ToSet(toEnqueue') \subseteq Coming'
    BY <2>1 DEF Coming, HeldBack, Unsent
  <2>6. QED
    BY <2>3, <2>4, <2>5
<1>9. QED
  BY <1>3, <1>4, <1>5, <1>6, <1>7, <1>8 DEF ControllerStep

LEMMA PlanTells ==
  ASSUME [EventsNext]_allVars, PlanStage
  PROVE  Idle(Controller) /\ TellAll(Controller, Cached, "skipped")
<1>1. cpc = "plan" /\ cpc' # "plan"
  BY DEF PlanStage, PlanFor, Launch
<1>2. ~UNCHANGED cpc
  BY <1>1
<1>3. ~ControllerIsSilent /\ ~TimesOut
  BY <1>1 DEF ControllerIsSilent, EnqueueNext, SizeFleet, EnsureFleet, ReadDepth,
     FindDead, Handle, Settle, SettleWith, CheckDone, Conclude, GiveUp, RetryWith,
     Resplit, MayFix, TimesOut, DeadlineStrikes
<1>4. Idle(Controller) /\ ControllerTells
  BY <1>2, <1>3, EventKinds
     DEF Quietly, WorkerQuietly, LeaseMoves, RunGoesOn, StageDone, RunFailed, RunDone,
         Join, GiveUpOn, Emit, allVars, vars, controllerVars
<1>5. QED
  BY <1>1, <1>4 DEF ControllerTells, ShowQueued, ShowDead, Skip, MayFix

LEMMA AckingStays ==
  ASSUME WorkerTypeOK, NEW w \in Worker, Acking(w)',
         ControllerTells \/ Quietly \/ \E p \in Thread : Emit(p)
  PROVE  Acking(w) /\ work'[w] = work[w]
<1>1. ASSUME pc'[w] \in {pc[w], "poll"}, work' = work
      PROVE  Acking(w) /\ work'[w] = work[w]
  BY <1>1 DEF Acking
<1>2. CASE ControllerStep \/ DeadlineStrikes
  BY <1>1, <1>2
     DEF ControllerStep, DeadlineStrikes, PlanStage, PlanFor, EnqueueNext, ShowQueued,
         SizeFleet, EnsureFleet, Spawn, ReadDepth, FindDead, Handle, Settle,
         SettleWith, CheckDone, Conclude, ShowDead, GiveUp, RetryWith, Resplit, Skip,
         Apply, ApplyAwaiting, workerVars
<1>3. ASSUME NEW v \in Worker, WorkerQuietly(v)
      PROVE  Acking(w) /\ work'[w] = work[w]
  <2>1. WorkerStep(v)
    BY <1>3, WorkerSilentStep DEF WorkerQuietly, WorkerStep
  <2>2. CASE v # w
    BY <2>1, <2>2, OthersStay DEF Acking
  <2>3. CASE v = w
    <3>1. pc'[w] \in {"check", "idle", "skip", "start", "report", "poll", "tell", "fail", "off"}
      BY <1>3, <2>3
         DEF WorkerQuietly, WorkerIsSilent, ClaimTask, FindNothing, IdleExit, Check,
             Publish, Raise, AckTask, WriteFailure, DieFailing, FailTask, Goto, Leave,
             WorkerTypeOK
    <3>2. QED
      BY <3>1 DEF Acking
  <2>4. QED
    BY <2>2, <2>3
<1>4. ASSUME UNCHANGED <<pc, work>> PROVE Acking(w) /\ work'[w] = work[w]
  BY <1>4 DEF Acking
<1>5. CASE LeaseMoves
  BY <1>4, <1>5 DEF LeaseMoves, LeaseRunsOut, LeaseLapses, Heartbeat, workerVars
<1>6. CASE RunGoesOn \/ UNCHANGED allVars \/ \E p \in Thread : Emit(p)
  BY <1>4, <1>6 DEF RunGoesOn, StageDone, RunFailed, RunDone, Join, GiveUpOn, Emit, allVars, vars,
     workerVars
<1>7. QED
  BY <1>2, <1>3, <1>5, <1>6, ControllerTellsStep, ControllerSilentStep DEF Quietly, TimesOut

LEMMA NextAckedAfter ==
  ASSUME EventsTypeOK, StageInv, StageInv', Announced, [EventsNext]_allVars
  PROVE  AckedAfter'
<1> SUFFICES ASSUME NEW w \in Worker, Acking(w)' PROVE Said(w, work[w])'
  BY DEF AckedAfter
<1>0. /\ OweType /\ SubscriberType /\ WorkerTypeOK
      /\ work'[w] \in Task
  BY DEF EventsTypeOK, OweType, SubscriberType, StageInv, TypeOK, WorkerTypeOK, Acking
<1>1. PICK t \in Task : t = work'[w]
  BY <1>0
<1>2. ASSUME Acking(w), work'[w] = work[w] PROVE Said(w, t)'
  <2>1. Said(w, t)
    BY <1>1, <1>2 DEF Announced, AckedAfter
  <2>2. QED
    BY <2>1, SaidStays, ThreadFacts
<1>3. ASSUME NEW v \in Worker, Idle(v), WorkerStep(v), WorkerSpeaks(v)
      PROVE  Said(w, t)'
  <2>1. CASE v # w
    BY <1>0, <1>2, <1>3, <2>1, OthersStay DEF Acking
  <2>2. CASE v = w
    <3>1. PICK u \in Task, state \in TaskState :
            /\ Tell(w, u, state)
            /\ work'[w] \in {u, NoTask}
            /\ pc'[w] \in {"ack", "skipAck"} => state \in {"success", "skipped"}
      BY <1>0, <1>3, <2>2, WorkerVoice
    <3>2. u = t /\ state \in {"success", "skipped"}
      BY <1>1, <3>1, NoTaskAssumption DEF Acking
    <3>3. Says(w, u, state)'
      BY <1>0, <1>3, <2>2, <3>1, ToldOne, ThreadFacts
    <3>4. QED
      BY <3>2, <3>3 DEF Said
  <2>3. QED
    BY <2>1, <2>2
<1>4. ASSUME ControllerTells \/ Quietly \/ \E p \in Thread : Emit(p)
      PROVE  Said(w, t)'
  BY <1>0, <1>2, <1>4, AckingStays
<1>5. Said(w, t)'
  BY <1>3, <1>4, EventKinds
<1>6. Says(w, work[w], "success")' \/ Says(w, work[w], "skipped")' \/ work'[w] \in concluded'
  BY <1>1, <1>5 DEF Said, Says
<1>7. QED
  BY <1>6 DEF Said

LEMMA NextDoneAnnounced ==
  ASSUME ~Forced, EventsTypeOK, StageInv, StageInv', Custody, Announced,
         [EventsNext]_allVars
  PROVE  DoneAnnounced'
<1> SUFFICES ASSUME NEW t \in ToSet(manifest'), Finished(t)'
             PROVE  Concluding(t)' \/ t \in Coming'
  BY DEF DoneAnnounced
<1>0. OweType /\ t \in Task
  <2>1. manifest' \in Seq(Task)
    BY DEF StageInv, TypeOK
  <2>2. QED
    BY <2>1, ElementOfSeq DEF ToSet, EventsTypeOK, OweType
<1>1. ASSUME NEW p \in Thread, Said(p, t) PROVE Concluding(t)'
  BY <1>0, <1>1, SaidStays DEF Concluding
<1>2. ASSUME t \in ToSet(manifest), Finished(t), t \notin Coming PROVE Concluding(t)'
  <2>1. Concluding(t)
    BY <1>2 DEF Announced, DoneAnnounced
  <2>2. PICK p \in Thread : Said(p, t)
    BY <2>1 DEF Concluding
  <2>3. QED
    BY <1>1, <2>2
<1>3. CASE PlanStage
  <2>1. TellAll(Controller, Cached, "skipped") /\ Idle(Controller)
    BY <1>3, PlanTells
  <2>2. manifest' = Plan /\ UNCHANGED <<prior, ran>> /\ ran = {}
    BY <1>3 DEF PlanStage, PlanFor, storeVars, Custody, Blank
  <2>3. t \in ToSet(Plan) /\ t \in prior
    BY <2>2 DEF Finished
  <2>4. t \in ToSet(Cached)
    BY <2>3, CachedFacts DEF HasResult
  <2>5. PICK x \in Seq(Task), state \in TaskState : x = Cached /\ state = "skipped"
    BY CachedFacts DEF TaskState
  <2>6. TellAll(Controller, x, state)
    BY <2>1, <2>5
  <2>7. Says(Controller, t, state)'
    BY <1>0, <2>1, <2>4, <2>5, <2>6, ToldFacts, ThreadFacts
  <2>8. QED
    BY <2>5, <2>7, ThreadFacts DEF Concluding, Said
<1>4. CASE (ControllerStep \/ DeadlineStrikes) /\ ~PlanStage
  BY <1>2, <1>4, ControllerComing
<1>5. ASSUME NEW w \in Worker, WorkerStep(w), UNCHANGED controllerVars
      PROVE  Concluding(t)' \/ t \in Coming'
  <2>1. manifest' = manifest
    BY <1>5 DEF controllerVars, fixVars
  <2>2. Acking(w) /\ t = work[w] => Concluding(t)'
    BY <1>1, ThreadFacts DEF Announced, AckedAfter
  <2>3. QED
    BY <1>2, <1>5, <2>1, <2>2, WorkerComing
<1>6. ASSUME UNCHANGED <<ready, inflight, prior, ran, controllerVars>>
      PROVE  Concluding(t)' \/ t \in Coming'
  BY <1>2, <1>6 DEF Coming, HeldBack, Unsent, Enqueued, Finished, controllerVars,
     drainVars, fixVars
<1>7. ASSUME NEW u \in Task, LeaseLapses(u), UNCHANGED controllerVars
      PROVE  Concluding(t)' \/ t \in Coming'
  BY <1>6, <1>7 DEF LeaseLapses, DeadlinePasses, workerVars, storeVars
<1>8. CASE UNCHANGED vars
  BY <1>6, <1>8 DEF vars, queueVars, workerVars, storeVars
<1>9. QED
  BY <1>3, <1>4, <1>5, <1>7, <1>8, EventsStep DEF Next

LEMMA InitEnding == ASSUME EventsInit PROVE Tending /\ Closing /\ Announced
<1>1. Tending
  BY DEF Tending, Tended, AllDone, Staffed, Opened, EventsInit, Init
<1>2. Closing
  BY DEF Closing, EventsInit
<1>3. manifest = <<>> /\ \A w \in Worker : pc[w] = "off"
  BY DEF EventsInit, Init, WorkerInit
<1>4. ToSet(manifest) = {}
  BY <1>3 DEF ToSet
<1>5. Announced
  BY <1>3, <1>4 DEF Announced, DoneAnnounced, AckedAfter, Acking
<1>6. QED
  BY <1>1, <1>2, <1>5

Ending == Tending /\ Closing /\ Announced

LEMMA EndingHolds == ASSUME Prompt, ~Forced PROVE EventsSpec => [](Followed /\ Ending)
<1>1. EventsInit => Ending
  BY InitEnding DEF Ending
<1>2. Followed /\ Followed' /\ Ending /\ [EventsNext]_allVars => Ending'
  <2> SUFFICES ASSUME Followed, Followed', Ending, [EventsNext]_allVars PROVE Ending'
    OBVIOUS
  <2>1. [Next]_vars
    BY EventsStep
  <2>2. Tending'
    BY <2>1, NextTending DEF Followed, Ending
  <2>3. Closing'
    BY NextClosing DEF Followed, Ending
  <2>4. Announced'
    BY NextAckedAfter, NextDoneAnnounced DEF Followed, Ending, Announced
  <2>5. QED
    BY <2>2, <2>3, <2>4 DEF Ending
<1>3. QED
  BY <1>1, <1>2, FollowedHolds, PTL DEF EventsSpec

(* What is so when run_done is out.                                        *)
LEMMA WhenRunIsDone ==
  ASSUME ~Forced, Followed, Ending, finale = "run_done"
  PROVE  /\ \A w \in Worker \ givenUp : ThreadEnded(w)
         /\ Executing = {} /\ Idle(Controller) /\ HeldBack = {}
         /\ \A t \in ToSet(manifest) \cup LeftOver : Finished(t)
         /\ LeftOver # {} => Lingering # {}
<1>1. StageInv /\ Custody /\ Tending /\ Closing
  BY DEF Followed, Ending
<1>2. /\ cpc = "returned" /\ ~gate
      /\ \A w \in Worker \ givenUp : pc[w] = "off" /\ Idle(w)
      /\ Idle(Controller)
  BY <1>1 DEF Closing, Tending, Opened
<1>3. Executing = {}
  BY <1>1, <1>2, BarrierStands DEF Barrier
<1>4. \A t \in ToSet(manifest) : HasResult(t)
  BY <1>1, <1>2 DEF StageInv, ReturnedComplete
<1>5. batch = <<>> /\ toEnqueue = <<>> /\ rest = <<>>
  BY <1>1, <1>2 DEF StageInv, Phases, Quiet, Handing
<1>6. ToSet(<<>>) = {}
  BY DEF ToSet
<1>7. HeldBack = {}
  BY <1>2, <1>5, <1>6 DEF HeldBack, Unsent
<1>8. active \subseteq ToSet(manifest)
  BY <1>1, <1>5, <1>6 DEF Custody, InManifest, Known
<1>9. \A t \in ToSet(manifest) \cup LeftOver : t \in Task => Finished(t)
  BY <1>1, <1>4 DEF LeftOver, Custody, InManifest, Finished, HasResult
<1>10. \A t \in ToSet(manifest) \cup LeftOver : t \in Task
  BY <1>1 DEF LeftOver, Custody, InManifest, StageInv, TypeOK, QueueTypeOK, Enqueued, ToSet
<1>11. ASSUME Live = {} PROVE LeftOver = {}
  <2>1. AllDone
    BY <1>2, <1>4, <1>8, <1>11 DEF AllDone
  <2>2. Enqueued = {}
    BY <1>1, <1>6, <2>1 DEF Tending, Tended, Enqueued
  <2>3. \A w \in Worker : work[w] = NoTask
    BY <1>1, <1>11 DEF Live, StageInv, TypeOK, WorkerTypeOK
  <2>4. ASSUME NEW t \in inflight PROVE FALSE
    BY <1>1, <1>9, <1>10, <2>3, <2>4, NoTaskAssumption
       DEF LeftOver, Custody, Leases, DoneLeaves
  <2>5. QED
    BY <2>2, <2>4 DEF LeftOver
<1>12. Live \subseteq Lingering
  BY <1>2 DEF Live, Lingering
<1>13. QED
  BY <1>2, <1>3, <1>7, <1>9, <1>10, <1>11, <1>12 DEF ThreadEnded

(* While heartbeats are prompt and nothing is forced, run_done ends a run: *)
(* whichever threads died on the way and whichever drain gave up on, after *)
(* it nobody executes a chunk, no thread that was joined does anything,    *)
(* and what the queue still has are finished chunks that some thread drain *)
(* gave up on is there to acknowledge; if it gave up on none, nothing      *)
(* follows (fleet/local.py:52-55, tests/test_events.py:33-34).             *)
THEOREM RunDoneIsLast == ASSUME Prompt, ~Forced PROVE EventsSpec => []RunDoneLast
<1>1. Followed /\ Ending => RunDoneLast
  BY WhenRunIsDone DEF RunDoneLast
<1>2. QED
  BY <1>1, EndingHolds, PTL

(* Whoever has heard run_done has heard of every chunk of the manifest     *)
(* that it succeeded or was skipped, also from the threads that drain gave *)
(* up on, but for the chunks these have not acknowledged yet               *)
(* (README.md:105-107, fleet/local.py:52-55).                              *)
THEOREM EventsAnnounceAll == ASSUME Prompt, ~Forced PROVE EventsSpec => []AllAnnounced
<1>1. ASSUME Followed, Ending PROVE AllAnnounced
  <2>1. SUFFICES ASSUME finale = "run_done", NEW t \in ToSet(manifest) \ LeftOver
                 PROVE  t \in concluded
    BY DEF AllAnnounced
  <2>2. Finished(t) /\ t \notin Coming /\ t \in Task
    BY <1>1, <2>1, WhenRunIsDone
       DEF Coming, LeftOver, Followed, StageInv, TypeOK, ToSet
  <2>3. PICK p \in Thread : Said(p, t)
    BY <1>1, <2>1, <2>2 DEF Ending, Announced, DoneAnnounced, Concluding
  <2>4. ~Speaks(p, t)
    <3>1. CASE p \in Worker
      BY <1>1, <2>1, <2>2, <3>1
         DEF Followed, Voices, WorkersAlone, Alone, LeftOver
    <3>2. CASE p = Controller
      BY <1>1, <2>1, <3>2, WhenRunIsDone, IdleIsSilent
    <3>3. QED
      BY <3>1, <3>2 DEF Thread
  <2>5. OweType
    BY <1>1 DEF Followed, EventsTypeOK, OweType
  <2>6. QED
    BY <2>3, <2>4, <2>5, SpeakerOwes DEF Said
<1>2. QED
  BY <1>1, EndingHolds, PTL
=============================================================================
