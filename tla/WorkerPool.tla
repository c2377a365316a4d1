----------------------------- MODULE WorkerPool -----------------------------
(***************************************************************************)
(* The task plane and the compute plane of a local run: worker threads     *)
(* that share one LocalQueue, one store and one tracker, fed by a client   *)
(* that stands for the controller's loop over a batch of tasks             *)
(* (controller.py:187-190): it enqueues each task, then shows it queued,   *)
(* and it keeps the fleet from dying out while the queue is not empty      *)
(* (LocalFleet.ensure).  StageRun replaces the client by the controller.   *)
(***************************************************************************)
EXTENDS Worker

VARIABLES
    todo,       \* tasks the client has not enqueued
    announced,  \* the task it has enqueued and not yet shown queued
    stalled     \* history: a lease has run out under a worker that was alive

vars == <<queueVars, workerVars, todo, announced, stalled>>

TypeOK ==
    /\ QueueTypeOK
    /\ WorkerTypeOK
    /\ todo \subseteq Task
    /\ announced \in Task \cup {NoTask}
    /\ stalled \in BOOLEAN

Init ==
    /\ QueueInit
    /\ WorkerInit
    /\ todo = Task
    /\ announced = NoTask
    /\ stalled = FALSE
    /\ shown = [t \in Task |-> "pending"]

(* queue.enqueue(t), then tracker.set_state(t, QUEUED). *)
Submit(t) ==
    /\ announced = NoTask
    /\ t \in todo
    /\ Enqueue(t)
    /\ todo' = todo \ {t}
    /\ announced' = t
    /\ UNCHANGED <<workerVars, stalled>>

ShowQueued ==
    /\ announced # NoTask
    /\ Show(announced, "queued")
    /\ announced' = NoTask
    /\ UNCHANGED <<queueVars, pc, work, storeVars, todo, stalled>>

(* fleet.ensure: the fleet may grow whenever the queue's depth is above 0. *)
Grow(w) ==
    /\ ready # <<>> \/ inflight # {}
    /\ w \notin Live
    /\ Spawn({w})
    /\ UNCHANGED <<queueVars, todo, announced, stalled>>

(* A lease runs out, of a dead worker or of one whose heartbeats do not    *)
(* come through.                                                           *)
LeaseRunsOut(t) ==
    /\ LeaseLapses(t)
    /\ stalled' = (stalled \/ Running(t) # {})
    /\ UNCHANGED <<todo, announced>>

ClientStep == ShowQueued \/ \E t \in Task : Submit(t)

Next ==
    \/ ClientStep
    \/ \E w \in Worker : Grow(w)
    \/ \E w \in Worker : WorkerStep(w) /\ UNCHANGED <<todo, announced, stalled>>
    \/ \E t \in Task : LeaseRunsOut(t)

Spec == Init /\ [][Next]_vars

-----------------------------------------------------------------------------
(* No task is ever lost: once handed over, a task that is not marked done  *)
(* is visible, in flight or dead-lettered, whatever threads die and        *)
(* whichever workers answer for a lease they no longer hold.  (ack and     *)
(* fail pop the lease by key, local.py:58-69.)                             *)
Lost(t) ==
    /\ t \notin todo
    /\ ~Finished(t)
    /\ t \notin Enqueued \cup inflight \cup DeadLettered

NotLost == \A t \in Task : ~Lost(t)

(* What the tracker shows as finished is finished: success and skipped are *)
(* only pushed after the completion marker exists (worker.py:28-30, 61-64).*)
ShownTrue ==
    \A t \in Task : shown[t] \in {"success", "skipped"} => Finished(t)

(* Until a lease has run out under a live worker, a task is never executed *)
(* by two workers at once, not even after its worker died and its lease    *)
(* was swept: the lease is what makes one fleet draining many tasks safe   *)
(* (base.py:3-6).                                                          *)
OneExecutor ==
    ~stalled => \A t \in Task : \A v, w \in Running(t) : v = w

(* Until then, and unless it is forced, a chunk that is done is not        *)
(* recomputed: redelivery only follows a delivery that did not finish      *)
(* (worker.py:27-32, markers.py:4-5).                                      *)
NoRecompute ==
    ~stalled => \A w \in Worker :
        pc[w] \in {"start", "compute", "fail", "tell", "nack"}
            => ~Finished(work[w])

(* Until then a dead-lettered task is out of the system: no copy of it is  *)
(* visible, in flight or at a worker, and it has no completion marker.     *)
DeadIsFinal ==
    ~stalled => \A t \in DeadLettered :
        /\ t \notin Enqueued \cup inflight \cup ran
        /\ Running(t) = {}

(* Until then the queue with its workers is the queue base.py promises:    *)
(* every step is one of LeasedQueue, or nothing LeasedQueue sees.          *)
Leased == INSTANCE LeasedQueue WITH
    waiting <- Enqueued, leased <- inflight, dead <- DeadLettered,
    tries <- attempt
ImplementsLeasedQueue ==
    Leased!Init /\ [][stalled' \/ Leased!Next]_Leased!vars

(* Whatever the heartbeats do, it is a task plane that delivers at least   *)
(* once and at most MaxRedeliveries + 1 times.                             *)
Copies(t) == Cardinality({i \in DOMAIN ready : ready[i] = t})
RedeliveriesLeft(t) ==
    IF attempt[t] < MaxRedeliveries THEN MaxRedeliveries - attempt[t] ELSE 0

Plane == INSTANCE TaskPlane WITH
    owed <- {t \in Enqueued \cup inflight :
                ~Finished(t) /\ t \notin DeadLettered},
    done <- {t \in Task : Finished(t)},
    dead <- DeadLettered,
    credit <- [t \in Task |-> Copies(t) + RedeliveriesLeft(t)]
ImplementsTaskPlane == Plane!Spec

=============================================================================
