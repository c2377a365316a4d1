----------------------------- MODULE BatchWorker -----------------------------
(***************************************************************************)
(* gleanflow/worker.py as the container of an AWS Batch job runs it, and   *)
(* the job itself as gleanflow/fleet/batch.py submits it.  A job is a      *)
(* process of its own: it may be killed between any two requests (a Spot   *)
(* eviction, an out-of-memory kill), and an error its code does not catch  *)
(* ends it too.  Batch starts it again until its attempts are used up.     *)
(*                                                                         *)
(* One action is one request: to the queue, or the put of a marker.  There *)
(* is no tracker in a worker process, and no force either: the environment *)
(* _submit_one builds has no FORCE for worker.main to read.                *)
(***************************************************************************)
EXTENDS SqsQueue

CONSTANTS
    NoTask,     \* what a process that runs nothing has as its task
    Attempts,   \* retryStrategy attempts of a job
    Prompt      \* heartbeats keep the lease of a live process from lapsing

ASSUME BatchAssumption ==
    /\ NoTask \notin Task
    /\ Attempts \in Nat \ {0}
    /\ Prompt \in BOOLEAN

VARIABLES
    pc,         \* where each process is, or how its job ended
    lives,      \* attempts each job has left
    work,       \* the task each process holds
    results,    \* tasks with a completion marker
    runmarks    \* tasks with a running marker

batchVars == <<pc, lives, work, results, runmarks>>

JobEnd == {"unsubmitted", "succeeded", "failed"}
Holding == {"check", "skipAck", "start", "compute", "ack", "nack"}

BatchTypeOK ==
    /\ pc \in [Job -> JobEnd \cup {"boot", "poll"} \cup Holding]
    /\ lives \in [Job -> 0 .. Attempts]
    /\ work \in [Job -> Task \cup {NoTask}]
    /\ \A j \in Job : pc[j] \in Holding <=> work[j] \in Task
    /\ results \subseteq Task
    /\ runmarks \subseteq Task

(* Markers of an earlier run are still there when this one begins. *)
BatchInit ==
    /\ pc = [j \in Job |-> "unsubmitted"]
    /\ lives = [j \in Job |-> Attempts]
    /\ work = [j \in Job |-> NoTask]
    /\ results \in SUBSET Task
    /\ runmarks \in {S \in SUBSET Task : results \subseteq S}

HasResult(t) == t \in results
LiveJobs == {j \in Job : pc[j] \notin JobEnd}
FailedJobs == {j \in Job : pc[j] = "failed"}
Running(t) == {j \in Job : work[j] = t}

Goto(j, l) == pc' = [pc EXCEPT ![j] = l]
Drop(j) == work' = [work EXCEPT ![j] = NoTask]

-----------------------------------------------------------------------------
(* The process comes up: entrypoint.sh, the user's code, worker.main. *)
Boot(j) ==
    /\ pc[j] = "boot"
    /\ Goto(j, "poll")
    /\ UNCHANGED <<sqsVars, lives, work, results, runmarks>>

ClaimTask(j) ==
    /\ pc[j] = "poll"
    /\ \E t \in Task :
          /\ Claim(t, j)
          /\ work' = [work EXCEPT ![j] = t]
    /\ Goto(j, "check")
    /\ UNCHANGED <<lives, results, runmarks>>

(* Nothing to claim for as long as the idle timeout: the job succeeds. *)
IdleExit(j) ==
    /\ pc[j] = "poll"
    /\ ClaimNone
    /\ Goto(j, "succeeded")
    /\ UNCHANGED <<sqsVars, lives, work, results, runmarks>>

(* Slip: the completion marker is not looked at. *)
CheckNothing(j) ==
    /\ pc[j] = "check"
    /\ Goto(j, "start")
    /\ UNCHANGED <<sqsVars, lives, work, results, runmarks>>

Check(j) ==
    /\ pc[j] = "check"
    /\ Goto(j, IF HasResult(work[j]) THEN "skipAck" ELSE "start")
    /\ UNCHANGED <<sqsVars, lives, work, results, runmarks>>

(* put of the running marker; an error here ends the process. *)
Start(j) ==
    /\ pc[j] = "start"
    /\ runmarks' = runmarks \cup {work[j]}
    /\ Goto(j, "compute")
    /\ UNCHANGED <<sqsVars, lives, work, results>>

(* stage.fn, finalize and the put of the completion marker.                *)
(* clear_running, which follows here and in Raise, overwrites the running  *)
(* marker and swallows its errors: the marker, whose existence is all that *)
(* is ever read, stays.                                                    *)
Publish(j) ==
    /\ pc[j] = "compute"
    /\ results' = results \cup {work[j]}
    /\ Goto(j, "ack")
    /\ UNCHANGED <<sqsVars, lives, work, runmarks>>

(* stage.fn raises; nothing on this backend reads the failure marker. *)
Raise(j) ==
    /\ pc[j] = "compute"
    /\ Goto(j, "nack")
    /\ UNCHANGED <<sqsVars, lives, work, results, runmarks>>

(* Slip: a failed task is acknowledged like any other. *)
AckAlways(j) ==
    /\ pc[j] \in {"skipAck", "ack", "nack"}
    /\ Ack(work[j], j)
    /\ Drop(j)
    /\ Goto(j, "poll")
    /\ UNCHANGED <<lives, results, runmarks>>

AckTask(j) ==
    /\ pc[j] \in {"skipAck", "ack"}
    /\ Ack(work[j], j)
    /\ Drop(j)
    /\ Goto(j, "poll")
    /\ UNCHANGED <<lives, results, runmarks>>

(* delete_message raises after the task has run: the process catches it as *)
(* a failure of the task, and polls on.  Its receipt is gone by then, so   *)
(* that queue.fail does nothing.  (After a skip nothing catches it: Crash.)*)
AckRaises(j) ==
    /\ pc[j] = "ack"
    /\ Drop(j)
    /\ Goto(j, "poll")
    /\ UNCHANGED <<sqsVars, lives, results, runmarks>>

FailTask(j) ==
    /\ pc[j] = "nack"
    /\ Fail(work[j])
    /\ Drop(j)
    /\ Goto(j, "poll")
    /\ UNCHANGED <<lives, results, runmarks>>

(* The end of a process: Batch starts the job again, or it has FAILED. *)
Die(j) ==
    /\ lives' = [lives EXCEPT ![j] = @ - 1]
    /\ Goto(j, IF lives[j] > 1 THEN "boot" ELSE "failed")
    /\ Drop(j)
    /\ UNCHANGED <<results, runmarks>>

Crash(j) ==
    /\ j \in LiveJobs
    /\ Die(j)
    /\ UNCHANGED sqsVars

(* queue.fail raises in the exception handler of run_task.  Uncaught. *)
FailDies(j) ==
    /\ pc[j] = "nack"
    /\ FailRaises(work[j], j)
    /\ Die(j)

(* A lease runs out: of a dead process, or unless Prompt of a live one.    *)
LeaseLapses(t) ==
    /\ Prompt => Running(t) = {}
    /\ TimeOut(t)
    /\ UNCHANGED batchVars

(* BatchFleet.ensure: one more job for each that is missing. *)
SubmitJobs(S) ==
    /\ pc' = [j \in Job |-> IF j \in S THEN "boot" ELSE pc[j]]
    /\ UNCHANGED <<lives, work, results, runmarks>>

(* What a process does by itself, but for its failures. *)
BatchProgress(j) ==
    \/ Boot(j) \/ ClaimTask(j) \/ Check(j) \/ Start(j) \/ Publish(j)
    \/ AckTask(j) \/ FailTask(j) \/ FailDies(j)

BatchStep(j) ==
    \/ BatchProgress(j) \/ IdleExit(j)
    \/ Raise(j) \/ AckRaises(j) \/ Crash(j)
=============================================================================
