----------------------------- MODULE LocalQueue -----------------------------
(***************************************************************************)
(* gleanflow/queue/local.py: the in-memory leased queue with redelivery    *)
(* and a dead-letter list.  Every public method of LocalQueue takes the    *)
(* lock for its whole body, so each is one action here, written as a       *)
(* fragment over the queue's own variables for other modules to conjoin.   *)
(*                                                                         *)
(* A Task object is abstracted to its key.  Its attempt counter lives in   *)
(* the Task and not in the queue; it is indexed by key, since every copy   *)
(* of a task in the queue is a reference to the same object (but for parts *)
(* of a task that was split twice: see LettersLeft in StageRun). A deadline*)
(* is abstracted to whether the clock has passed it (lapsed): nothing else *)
(* of the time is ever compared.                                           *)
(***************************************************************************)
EXTENDS Naturals, SequencesExt, FiniteSets

CONSTANTS
    Task,               \* the keys of the tasks of the run
    MaxRedeliveries     \* LocalQueue(max_redeliveries)

ASSUME TaskAssumption == IsFiniteSet(Task)
ASSUME MaxAssumption == MaxRedeliveries \in Nat

VARIABLES
    ready,      \* _ready, the deque of visible tasks
    inflight,   \* the keys of _inflight, the claimed tasks
    lapsed,     \* those in flight whose deadline has passed, unswept so far
    dlq,        \* the dead-letter list
    attempt     \* Task.attempt of each task

queueVars == <<ready, inflight, lapsed, dlq, attempt>>

QueueTypeOK ==
    /\ ready \in Seq(Task)
    /\ inflight \subseteq Task
    /\ lapsed \subseteq inflight
    /\ dlq \in Seq(Task)
    /\ attempt \in [Task -> Nat]

QueueInit ==
    /\ ready = <<>>
    /\ inflight = {}
    /\ lapsed = {}
    /\ dlq = <<>>
    /\ attempt = [t \in Task |-> 0]

Enqueued == ToSet(ready)
DeadLettered == ToSet(dlq)

-----------------------------------------------------------------------------
(* Giving a task back costs one attempt, and past the limit the task is    *)
(* dead-lettered instead.                                                  *)

(* Slip: dead-letter one delivery early. *)
ExhaustedEarly(S) == {t \in S : attempt[t] + 1 >= MaxRedeliveries}

Exhausted(S) == {t \in S : attempt[t] + 1 > MaxRedeliveries}

Charge(S) == attempt' = [t \in Task |-> attempt[t] + IF t \in S THEN 1 ELSE 0]

(* What _sweep leaves in _ready and in dlq.  It walks the dictionary in    *)
(* insertion order, which no property depends on: any order is allowed.    *)
SweptReady == {ready \o back : back \in SetToSeqs(lapsed \ Exhausted(lapsed))}
SweptDlq == {dlq \o dead : dead \in SetToSeqs(Exhausted(lapsed))}

(* The clock passes the deadline of a claimed task. *)
DeadlinePasses(t) ==
    /\ t \in inflight \ lapsed
    /\ lapsed' = lapsed \cup {t}
    /\ UNCHANGED <<ready, inflight, dlq, attempt>>

Enqueue(t) ==
    /\ ready' = Append(ready, t)
    /\ UNCHANGED <<inflight, lapsed, dlq, attempt>>

(* Slip: the head is read and not popped. *)
PeekHead(t) ==
    /\ \E visible \in SweptReady :
          /\ visible # <<>>
          /\ t = Head(visible)
          /\ ready' = visible
    /\ inflight' = (inflight \ lapsed) \cup {t}
    /\ dlq' \in SweptDlq

(* claim: sweep, then lease the head of what is visible. *)
TakeHead(t) ==
    /\ \E visible \in SweptReady :
          /\ visible # <<>>
          /\ t = Head(visible)
          /\ ready' = Tail(visible)
    /\ inflight' = (inflight \ lapsed) \cup {t}
    /\ dlq' \in SweptDlq

(* Slip: the sweep forgets which deadlines had passed. *)
ClaimKeepsLapsed(t) == TakeHead(t) /\ Charge(lapsed) /\ UNCHANGED lapsed

(* Slip: an expired lease costs no attempt. *)
ClaimWithoutCharge(t) == TakeHead(t) /\ lapsed' = {} /\ UNCHANGED attempt

Claim(t) ==
    /\ TakeHead(t)
    /\ lapsed' = {}
    /\ Charge(lapsed)

(* The sweep alone, all that depth() changes. *)
Sweep ==
    /\ ready' \in SweptReady
    /\ inflight' = inflight \ lapsed
    /\ lapsed' = {}
    /\ dlq' \in SweptDlq
    /\ Charge(lapsed)

(* claim when nothing is visible after the sweep: it returns None. *)
ClaimNone ==
    /\ Sweep
    /\ ready' = <<>>

(* depth() of the swept queue. *)
DepthAfterSweep == Len(ready') + Cardinality(inflight')

(* extend moves the deadline of whoever holds the key, also when the old   *)
(* one has passed and nothing has swept it yet.                            *)
Extend(t) ==
    /\ t \in inflight
    /\ lapsed' = lapsed \ {t}
    /\ UNCHANGED <<ready, inflight, dlq, attempt>>

(* ack and fail go by the key alone: nothing checks that the caller is the *)
(* one that holds the lease.                                               *)
DropLease(t) ==
    /\ inflight' = inflight \ {t}
    /\ lapsed' = lapsed \ {t}

Ack(t) ==
    /\ DropLease(t)
    /\ UNCHANGED <<ready, dlq, attempt>>

PutBack(t) ==
    \/ /\ t \in Exhausted({t})
       /\ dlq' = Append(dlq, t)
       /\ UNCHANGED ready
    \/ /\ t \notin Exhausted({t})
       /\ ready' = Append(ready, t)
       /\ UNCHANGED dlq

(* Slip: fail re-queues the task also when it dead-letters it. *)
FailAlwaysRequeues(t) ==
    /\ DropLease(t)
    /\ Charge({t})
    /\ ready' = Append(ready, t)
    /\ dlq' = IF t \in Exhausted({t}) THEN Append(dlq, t) ELSE dlq

Fail(t) ==
    /\ DropLease(t)
    /\ Charge({t})
    /\ PutBack(t)
=============================================================================
