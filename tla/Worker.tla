------------------------------- MODULE Worker -------------------------------
(***************************************************************************)
(* gleanflow/worker.py: poll_loop and run_task, as each worker thread of a *)
(* LocalFleet runs them.  One action is one access to state the threads    *)
(* share: the queue (under its lock), the tracker (under its lock), a      *)
(* marker in the store (one atomic put or one existence test).  Steps on a *)
(* thread's own state, and writes nobody reads on the local backend (the   *)
(* running marker, the telemetry), are folded into the next one.           *)
(*                                                                         *)
(* The user's stage function is outside the repository: it either produces *)
(* its outputs or raises (Raise).                                          *)
(***************************************************************************)
EXTENDS LocalQueue

CONSTANTS
    Worker,     \* slots for live worker threads
    NoTask,     \* what a thread that runs nothing has as its task
    Forced,      \* run_task's force: recompute what is already marked done
    Prompt      \* heartbeats keep the lease of a live worker from lapsing

ASSUME NoTaskAssumption == NoTask \notin Task
ASSUME ModeAssumption == Forced \in BOOLEAN /\ Prompt \in BOOLEAN

VARIABLES
    pc,         \* where each thread is
    work,       \* the task each thread holds in its local variable
    prior,      \* completion markers left by an earlier run
    ran,        \* completion markers written by this run
    failures,   \* tasks with a failure marker
    shown       \* the state the tracker shows for each task

storeVars == <<prior, ran, failures>>
workerVars == <<pc, work, prior, ran, failures, shown>>

Idling == {"poll", "idle"}
Beating == {"compute", "report", "ack", "fail", "tell", "nack"}
Busy == Beating \cup {"check", "skip", "skipAck", "start"}

(* TaskState, and Unlisted for a task the tracker has not been told of. *)
TaskState == {"pending", "queued", "running", "success", "failed", "skipped"}
Unlisted == "unlisted"

WorkerTypeOK ==
    /\ pc \in [Worker -> {"off"} \cup Idling \cup Busy]
    /\ work \in [Worker -> Task \cup {NoTask}]
    /\ \A w \in Worker : pc[w] \in Busy <=> work[w] \in Task
    /\ prior \subseteq Task
    /\ ran \subseteq Task
    /\ failures \subseteq Task
    /\ shown \in [Task -> TaskState \cup {Unlisted}]

(* No thread yet; an earlier run may have left any completion markers. *)
WorkerInit ==
    /\ pc = [w \in Worker |-> "off"]
    /\ work = [w \in Worker |-> NoTask]
    /\ prior \in SUBSET Task
    /\ ran = {}
    /\ failures = {}

HasResult(t) == t \in prior \cup ran

(* Finished as far as this run is concerned: force disregards the markers  *)
(* of earlier runs.                                                        *)
Finished(t) == t \in ran \/ (~Forced /\ t \in prior)

Live == {w \in Worker : pc[w] # "off"}
Running(t) == {w \in Worker : work[w] = t}

Goto(w, l) == pc' = [pc EXCEPT ![w] = l]
Show(t, s) == shown' = [shown EXCEPT ![t] = s]

(* The thread lets go of its task and goes on to l. *)
Leave(w, l) ==
    /\ Goto(w, l)
    /\ work' = [work EXCEPT ![w] = NoTask]

-----------------------------------------------------------------------------
(* poll_loop. *)

ClaimTask(w) ==
    /\ pc[w] \in Idling
    /\ \E t \in Task :
          /\ Claim(t)
          /\ work' = [work EXCEPT ![w] = t]
    /\ Goto(w, "check")
    /\ UNCHANGED <<storeVars, shown>>

(* An empty claim; the first one only starts the idle clock. *)
FindNothing(w) ==
    /\ pc[w] \in Idling
    /\ ClaimNone
    /\ Goto(w, "idle")
    /\ UNCHANGED <<work, storeVars, shown>>

(* An empty claim once the idle timeout is over: the thread returns. *)
IdleExit(w) ==
    /\ pc[w] = "idle"
    /\ ClaimNone
    /\ Goto(w, "off")
    /\ UNCHANGED <<work, storeVars, shown>>

-----------------------------------------------------------------------------
(* run_task: a task that is marked done is skipped and acknowledged. *)

(* Slip: the completion marker is not looked at. *)
CheckNothing(w) ==
    /\ pc[w] = "check"
    /\ Goto(w, "start")
    /\ UNCHANGED <<queueVars, work, storeVars, shown>>

Check(w) ==
    /\ pc[w] = "check"
    /\ Goto(w, IF ~Forced /\ HasResult(work[w]) THEN "skip" ELSE "start")
    /\ UNCHANGED <<queueVars, work, storeVars, shown>>

ShowSkipped(w) ==
    /\ pc[w] = "skip"
    /\ Show(work[w], "skipped")
    /\ Goto(w, "skipAck")
    /\ UNCHANGED <<queueVars, work, storeVars>>

(* Otherwise it is shown running, the running marker is written and the    *)
(* heartbeat starts.                                                       *)
Start(w) ==
    /\ pc[w] = "start"
    /\ Show(work[w], "running")
    /\ Goto(w, "compute")
    /\ UNCHANGED <<queueVars, work, storeVars>>

(* The put of the running marker raises outside the try: the thread dies   *)
(* and leaves the task in flight.                                          *)
DieStarting(w) ==
    /\ pc[w] = "start"
    /\ Show(work[w], "running")
    /\ Leave(w, "off")
    /\ UNCHANGED <<queueVars, storeVars>>

(* Slip: success is reported ahead of the completion marker. *)
PublishNothingYet(w) ==
    /\ pc[w] = "compute"
    /\ Goto(w, "report")
    /\ UNCHANGED <<queueVars, work, storeVars, shown>>

(* stage.fn and finalize succeed and the completion marker is written. *)
Publish(w) ==
    /\ pc[w] = "compute"
    /\ ran' = ran \cup {work[w]}
    /\ Goto(w, "report")
    /\ UNCHANGED <<queueVars, work, prior, failures, shown>>

(* stage.fn, finalize or the put of the completion marker raises. *)
Raise(w) ==
    /\ pc[w] = "compute"
    /\ Goto(w, "fail")
    /\ UNCHANGED <<queueVars, work, storeVars, shown>>

ShowSuccess(w) ==
    /\ pc[w] = "report"
    /\ Show(work[w], "success")
    /\ Goto(w, "ack")
    /\ UNCHANGED <<queueVars, work, storeVars>>

AckTask(w) ==
    /\ pc[w] \in {"ack", "skipAck"}
    /\ Ack(work[w])
    /\ Leave(w, "poll")
    /\ UNCHANGED <<storeVars, shown>>

WriteFailure(w) ==
    /\ pc[w] = "fail"
    /\ failures' = failures \cup {work[w]}
    /\ Goto(w, "tell")
    /\ UNCHANGED <<queueVars, work, prior, ran, shown>>

(* The put of the failure marker raises inside the handler: the thread     *)
(* dies before it reaches queue.fail.                                      *)
DieFailing(w) ==
    /\ pc[w] = "fail"
    /\ Leave(w, "off")
    /\ UNCHANGED <<queueVars, storeVars, shown>>

ShowFailed(w) ==
    /\ pc[w] = "tell"
    /\ Show(work[w], "failed")
    /\ Goto(w, "nack")
    /\ UNCHANGED <<queueVars, work, storeVars>>

(* Slip: a failed task is acknowledged like any other. *)
AckFailure(w) ==
    /\ pc[w] = "nack"
    /\ Ack(work[w])
    /\ Leave(w, "poll")
    /\ UNCHANGED <<storeVars, shown>>

FailTask(w) ==
    /\ pc[w] = "nack"
    /\ Fail(work[w])
    /\ Leave(w, "poll")
    /\ UNCHANGED <<storeVars, shown>>

-----------------------------------------------------------------------------
(* Leases against the clock. *)

(* A lease lapses when its holder is gone; unless heartbeats are Prompt,   *)
(* also under a live holder (a suspended laptop, a stalled process).       *)
LeaseLapses(t) ==
    /\ Prompt => Running(t) = {}
    /\ DeadlinePasses(t)
    /\ UNCHANGED workerVars

(* The heartbeat thread, which runs until run_task returns. *)
Heartbeat(w) ==
    /\ pc[w] \in Beating
    /\ work[w] \in lapsed
    /\ Extend(work[w])
    /\ UNCHANGED workerVars

(* LocalFleet._spawn of the threads in S. *)
Spawn(S) ==
    /\ S \subseteq Worker \ Live
    /\ pc' = [w \in Worker |-> IF w \in S THEN "poll" ELSE pc[w]]
    /\ UNCHANGED <<work, storeVars, shown>>

(* The steps a thread takes by itself, but for the failures. *)
WorkerProgress(w) ==
    \/ ClaimTask(w) \/ FindNothing(w) \/ Check(w) \/ ShowSkipped(w)
    \/ Start(w) \/ Publish(w) \/ ShowSuccess(w) \/ AckTask(w)
    \/ WriteFailure(w) \/ ShowFailed(w) \/ FailTask(w)

WorkerStep(w) ==
    \/ WorkerProgress(w) \/ IdleExit(w)
    \/ DieStarting(w) \/ Raise(w) \/ DieFailing(w)
    \/ Heartbeat(w)
=============================================================================
