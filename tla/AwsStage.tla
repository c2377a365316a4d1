------------------------------ MODULE AwsStage ------------------------------
(***************************************************************************)
(* One stage on the AWS backend: Controller._run_stage and _drain against  *)
(* SqsQueue and BatchFleet.  The controller is one process; one action is  *)
(* one round of requests to one service.                                   *)
(*                                                                         *)
(* SqsQueue has no dlq attribute, so that _drain reads an empty list of    *)
(* dead letters (controller.py:206) and none of the failure handling of    *)
(* StageRun is ever reached.                                               *)
(***************************************************************************)
EXTENDS BatchWorker, SubSequences

CONSTANTS
    Plan,           \* the stage's tasks as planned, heaviest first
    Smoke,          \* Controller.smoke
    MaxWorkers,     \* cfg.max_workers
    FailureCap      \* cfg.worker_failure_cap

ASSUME AwsAssumption ==
    /\ Plan \in Seq(Task)
    /\ \A i, j \in DOMAIN Plan : Plan[i] = Plan[j] => i = j
    /\ Smoke \in BOOLEAN
    /\ {MaxWorkers, FailureCap} \subseteq Nat \ {0}

VARIABLES
    cpc,        \* where the controller is
    toEnqueue,  \* tasks it is about to enqueue, in order
    rest,       \* _run_stage's rest, kept back while the smoke task runs
    gate,       \* _drain's gate
    active,     \* _drain's active
    want,       \* the fleet size it is about to ask for
    shown       \* the state the tracker shows for each task

controllerVars == <<cpc, toEnqueue, rest, gate, active, want, shown>>
vars == <<sqsVars, batchVars, controllerVars>>

Ended == {"returned", "dying", "timedOut"}
CPC == {"plan", "enqueue", "size", "grow", "depth", "ensure", "refresh",
        "done", "guard"} \cup Ended

TypeOK ==
    /\ SqsTypeOK
    /\ BatchTypeOK
    /\ cpc \in CPC
    /\ {toEnqueue, rest} \subseteq Seq(Task)
    /\ gate \in BOOLEAN
    /\ active \subseteq Task
    /\ want \in 0 .. MaxWorkers
    /\ shown \in [Task -> {"pending", "queued", "running", "success", "skipped"}]

Init ==
    /\ SqsInit
    /\ BatchInit
    /\ cpc = "plan"
    /\ toEnqueue = <<>>
    /\ rest = <<>>
    /\ gate = FALSE
    /\ active = {}
    /\ want = 0
    /\ shown = [t \in Task |-> "pending"]

-----------------------------------------------------------------------------
(* _run_stage. *)

Launch(s, back, gated) ==
    /\ toEnqueue' = s
    /\ rest' = back
    /\ gate' = gated
    /\ active' = ToSet(s)
    /\ cpc' = IF s = <<>> THEN "size" ELSE "enqueue"

PlanStage ==
    /\ cpc = "plan"
    /\ LET pending == Only(Plan, Task \ results)
       IN  /\ shown' = [t \in Task |-> IF HasResult(t) THEN "skipped" ELSE shown[t]]
           /\ \/ /\ pending = <<>>
                 /\ cpc' = "returned"
                 /\ UNCHANGED <<toEnqueue, rest, gate, active>>
              \/ /\ Smoke /\ Len(pending) > 1
                 /\ Launch(<<Head(pending)>>, Tail(pending), TRUE)
              \/ /\ pending # <<>> /\ ~(Smoke /\ Len(pending) > 1)
                 /\ Launch(pending, <<>>, FALSE)
    /\ UNCHANGED <<sqsVars, batchVars, want>>

(* send_message, then QUEUED: no worker pushes states here. *)
EnqueueNext ==
    /\ cpc = "enqueue"
    /\ Enqueue(Head(toEnqueue))
    /\ shown' = [shown EXCEPT ![Head(toEnqueue)] = "queued"]
    /\ toEnqueue' = Tail(toEnqueue)
    /\ cpc' = IF Tail(toEnqueue) = <<>> THEN "size" ELSE "enqueue"
    /\ UNCHANGED <<batchVars, rest, gate, active, want>>

Least(m, n) == IF m < n THEN m ELSE n
Most(m, n) == IF m < n THEN n ELSE m

SizeFleet ==
    /\ cpc = "size"
    /\ \E depth \in DepthReading :
          want' = IF gate THEN 1 ELSE Least(MaxWorkers, Most(1, depth))
    /\ cpc' = "grow"
    /\ UNCHANGED <<sqsVars, batchVars, toEnqueue, rest, gate, active, shown>>

(* fleet.ensure(want).  The jobs left to submit are bounded by Job. *)
EnsureFleet ==
    /\ cpc \in {"grow", "ensure"}
    /\ LET n == Least(want, MaxWorkers)
           missing == Most(n, Cardinality(LiveJobs)) - Cardinality(LiveJobs)
           unused == {j \in Job : pc[j] = "unsubmitted"}
       IN  \E S \in SUBSET unused :
              /\ Cardinality(S) = Least(missing, Cardinality(unused))
              /\ SubmitJobs(S)
    /\ want' = 0
    /\ cpc' = IF cpc = "grow" THEN "depth" ELSE "refresh"
    /\ UNCHANGED <<sqsVars, toEnqueue, rest, gate, active, shown>>

-----------------------------------------------------------------------------
(* _drain, one round. *)

(* Slip: the missing workers are not capped. *)
ReadDepthUncapped ==
    /\ cpc = "depth"
    /\ \E depth \in DepthReading :
          /\ want' = depth + Cardinality(LiveJobs)
          /\ cpc' = IF depth = 0 THEN "refresh" ELSE "ensure"
    /\ UNCHANGED <<sqsVars, batchVars, toEnqueue, rest, gate, active, shown>>

ReadDepth ==
    /\ cpc = "depth"
    /\ \E depth \in DepthReading :
          \/ /\ depth = 0
             /\ cpc' = "refresh"
             /\ UNCHANGED want
          \/ /\ depth > 0
             /\ cpc' = "ensure"
             /\ want' = Least(MaxWorkers, depth + Cardinality(LiveJobs))
    /\ UNCHANGED <<sqsVars, batchVars, toEnqueue, rest, gate, active, shown>>

DeadlineStrikes ==
    /\ cpc = "depth"
    /\ cpc' = "timedOut"
    /\ UNCHANGED <<sqsVars, batchVars, toEnqueue, rest, gate, active, want, shown>>

(* _refresh_from_markers: a cleared marker still exists. *)
Refresh ==
    /\ cpc = "refresh"
    /\ shown' = [t \in Task |->
                    IF t \notin active THEN shown[t]
                    ELSE IF HasResult(t) THEN "success"
                    ELSE IF t \in runmarks THEN "running" ELSE shown[t]]
    /\ cpc' = "done"
    /\ UNCHANGED <<sqsVars, batchVars, toEnqueue, rest, gate, active, want>>

Conclude(drained) ==
    /\ cpc = "done"
    /\ \/ /\ ~drained
          /\ cpc' = IF \E t \in active : HasResult(t) THEN "depth" ELSE "guard"
          /\ UNCHANGED <<toEnqueue, rest, gate, active>>
       \/ /\ drained /\ gate
          /\ Launch(rest, <<>>, FALSE)
       \/ /\ drained /\ ~gate
          /\ cpc' = "returned"
          /\ UNCHANGED <<toEnqueue, rest, gate, active>>
    /\ UNCHANGED <<sqsVars, batchVars, want, shown>>

(* Slip: an empty queue is taken for a drained stage. *)
CheckQueueEmpty == Conclude(At("visible") \cup At("hidden") = {})

CheckDone == Conclude(\A t \in active : HasResult(t))

(* Slip: one job too many has to fail. *)
GuardLate ==
    /\ cpc = "guard"
    /\ cpc' = IF Cardinality(FailedJobs) > FailureCap THEN "dying" ELSE "depth"
    /\ UNCHANGED <<sqsVars, batchVars, toEnqueue, rest, gate, active, want, shown>>

(* The crash-loop guard, over every job the fleet ever submitted. *)
Guard ==
    /\ cpc = "guard"
    /\ cpc' = IF Cardinality(FailedJobs) >= FailureCap THEN "dying" ELSE "depth"
    /\ UNCHANGED <<sqsVars, batchVars, toEnqueue, rest, gate, active, want, shown>>

ControllerStep ==
    \/ PlanStage \/ EnqueueNext \/ SizeFleet \/ EnsureFleet
    \/ ReadDepth \/ Refresh \/ CheckDone \/ Guard

(* What SQS does by itself. *)
ServiceStep(t) == LeaseLapses(t) \/ (Redrive(t) /\ UNCHANGED batchVars)

Next ==
    \/ ControllerStep
    \/ DeadlineStrikes
    \/ \E j \in Job : BatchStep(j) /\ UNCHANGED controllerVars
    \/ \E t \in Task : ServiceStep(t) /\ UNCHANGED controllerVars

Spec == Init /\ [][Next]_vars

(* Requests are answered, live jobs are scheduled, and the service redrives*)
(* and lets visibility timeouts run out.  Nothing forces a failure.        *)
Fairness ==
    /\ WF_vars(ControllerStep)
    /\ \A j \in Job : WF_vars(BatchProgress(j) /\ UNCHANGED controllerVars)
    /\ \A t \in Task : WF_vars(ServiceStep(t) /\ UNCHANGED controllerVars)

FairSpec == Spec /\ Fairness

-----------------------------------------------------------------------------
(* While heartbeats are prompt, SQS with its worker processes is the queue *)
(* that base.py promises, although it counts receives where LocalQueue     *)
(* counts failed deliveries, and its limit includes the first delivery.    *)
Spent == {t \in At("visible") : receives[t] = MaxReceives}
Leased == INSTANCE LeasedQueue WITH
    MaxRedeliveries <- MaxReceives - 1,
    waiting <- At("visible") \ Spent, leased <- At("hidden"),
    dead <- At("dead") \cup Spent,
    tries <- [t \in Task |-> receives[t]
                - IF t \in At("hidden") \cup At("deleted") THEN 1 ELSE 0]
ImplementsLeasedQueue == Leased!Spec

(* While heartbeats are prompt, no two processes run the same task, though *)
(* each may be killed at any time and started again (worker.py:3-7).       *)
OneExecutor == \A t \in Task : \A i, j \in Running(t) : i = j

(* While heartbeats are prompt, a chunk that is done is not recomputed: a  *)
(* process killed between its marker and its ack costs a redelivery that   *)
(* is skipped (worker.py:27-32).                                           *)
NoRecompute ==
    \A j \in Job : pc[j] \in {"start", "compute", "nack"} => ~HasResult(work[j])

(* A message is only deleted once its chunk is done, whatever is killed    *)
(* and whichever receipt handles are stale (worker.py:61-67, sqs.py:48-51).*)
DeletedIsDone == \A t \in At("deleted") : HasResult(t)

(* A stage that returns has a completion marker for every chunk of its     *)
(* plan (controller.py:225-227).                                           *)
ReturnedComplete == cpc = "returned" => ToSet(Plan) \subseteq results

(* The crash-loop guard: a stage none of whose chunks completes does not   *)
(* hang once as many jobs as the cap have failed (controller.py:229-241).  *)
CrashLooping ==
    /\ Cardinality(FailedJobs) >= FailureCap
    /\ active \cap results = {}
CrashLoopEnds == [](CrashLooping => <>(cpc \in Ended \/ ~CrashLooping))

-----------------------------------------------------------------------------
(* What the docs say of a stage and the code does not keep on AWS.         *)

(* "on a dead-lettered chunk, invoke the agent and (under budget) apply    *)
(* its remediation" (controller.py:194-195): the drain loop notices a dead *)
(* letter, if only to fail the stage.                                      *)
DeadNoticed ==
    \A t \in Task :
        (message[t] = "dead" /\ t \in active \ results) ~> cpc \in Ended

(* "not one task has completed" (controller.py:230), "0 task progress"     *)
(* (config.py:36): the crash-loop guard only aborts a stage in which no    *)
(* task has completed, not even the smoke task.                            *)
AbortsWithoutProgress ==
    cpc = "dying" => \A t \in Task : shown[t] # "success"
=============================================================================
