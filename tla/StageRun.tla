------------------------------ MODULE StageRun ------------------------------
(***************************************************************************)
(* gleanflow/controller.py: Controller._run_stage, _drain and the          *)
(* remediations, running one stage of a local run against the queue, the   *)
(* store, the tracker and the worker threads of module Worker.             *)
(*                                                                         *)
(* The controller is one thread.  As in Worker, one action is one access   *)
(* to shared state: a queue method, a tracker method, a read of the        *)
(* dead-letter list, one pass over the completion markers (they are never  *)
(* deleted, so a pass reads as if all at its end), a round of spawns.  The *)
(* manifest is written by the controller alone.                            *)
(*                                                                         *)
(* The failure handler is user code or an LLM: it may answer with any of   *)
(* Remediations.  The six-hour deadline of _drain may strike on any round. *)
(***************************************************************************)
EXTENDS Worker, SubSequences

CONSTANTS
    Plan,               \* the stage's tasks as planned, heaviest first
    Parts,              \* the one-member subtasks _resplit makes of a task
    Smoke,              \* Controller.smoke
    Handler,            \* whether there is a failure handler
    Remediate,          \* failure_policy = "remediate"
    Remediations,       \* the actions the handler may answer with
    MaxRemediations,    \* cfg.max_remediations
    MaxWorkers          \* Controller.max_workers

ASSUME PlanAssumption ==
    /\ Plan \in Seq(Task)
    /\ \A i, j \in DOMAIN Plan : Plan[i] = Plan[j] => i = j
    /\ Parts \in [Task -> Seq(Task)]
    /\ \A t \in ToSet(Plan) : ToSet(Parts[t]) \cap ToSet(Plan) = {}
(* A part has one member, and its key names the task and the member.       *)
ASSUME PartsAssumption ==
    \A t \in Task :
        /\ IsInjective(Parts[t])
        /\ \A u \in Task \ {t} : ToSet(Parts[t]) \cap ToSet(Parts[u]) = {}
        /\ \A part \in ToSet(Parts[t]) : Len(Parts[part]) <= 1
ASSUME ControllerAssumption ==
    /\ {Smoke, Handler, Remediate} \subseteq BOOLEAN
    /\ Remediations \subseteq {"retry_with", "resplit", "skip", "report"}
    /\ MaxRemediations \in Nat
    /\ IsFiniteSet(Worker) /\ MaxWorkers \in 1 .. Cardinality(Worker)

VARIABLES
    cpc,        \* where the controller is
    toEnqueue,  \* tasks it is about to enqueue, in order
    rest,       \* _run_stage's rest, kept back while the smoke task runs
    gate,       \* _drain's gate
    active,     \* _drain's active, by key
    budget,     \* _drain's budget
    want,       \* the fleet size it is about to ask for
    batch,      \* _drain's dead
    fixing,     \* the part of batch _handle_failures has yet to handle
    newTasks,   \* what _handle_failures is going to return
    manifest    \* the ids of the stage's manifest

drainVars == <<toEnqueue, rest, gate, active, budget, want>>
fixVars == <<batch, fixing, newTasks, manifest>>
controllerVars == <<cpc, drainVars, fixVars>>
vars == <<queueVars, workerVars, controllerVars>>

Ended == {"returned", "failed", "timedOut"}
CPC == {"plan", "enqueue", "show", "size", "grow", "depth", "ensure", "dead",
        "fix", "act", "settle", "done"} \cup Ended

TypeOK ==
    /\ QueueTypeOK
    /\ WorkerTypeOK
    /\ cpc \in CPC
    /\ {toEnqueue, rest, batch, fixing, manifest} \subseteq Seq(Task)
    /\ gate \in BOOLEAN
    /\ {active, newTasks} \subseteq SUBSET Task
    /\ budget \in 0 .. MaxRemediations
    /\ want \in 0 .. MaxWorkers

Init ==
    /\ QueueInit
    /\ WorkerInit
    /\ shown = [t \in Task |-> Unlisted]
    /\ cpc = "plan"
    /\ toEnqueue = <<>>
    /\ rest = <<>>
    /\ gate = FALSE
    /\ active = {}
    /\ budget = 0
    /\ want = 0
    /\ batch = <<>>
    /\ fixing = <<>>
    /\ newTasks = {}
    /\ manifest = <<>>

-----------------------------------------------------------------------------
(* _run_stage. *)

(* A call of _drain on the tasks in s, each enqueued first; back is what   *)
(* _run_stage keeps for after the gate.                                    *)
Launch(s, back, gated) ==
    /\ toEnqueue' = s
    /\ rest' = back
    /\ gate' = gated
    /\ active' = ToSet(s)
    /\ budget' = MaxRemediations
    /\ cpc' = "enqueue"
    /\ UNCHANGED want

(* _plan writes the manifest, the cached chunks are shown skipped, and of  *)
(* the pending ones the first goes ahead as the smoke task.                *)
PlanFor(pending) ==
    /\ cpc = "plan"
    /\ manifest' = Plan
    /\ shown' = [t \in Task |-> IF t \in ToSet(pending) THEN "pending"
                                ELSE IF t \in ToSet(Plan) THEN "skipped"
                                ELSE shown[t]]
    /\ \/ /\ pending = <<>>
          /\ cpc' = "returned"
          /\ UNCHANGED drainVars
       \/ /\ Smoke /\ Len(pending) > 1
          /\ Launch(<<Head(pending)>>, Tail(pending), TRUE)
       \/ /\ pending # <<>> /\ ~(Smoke /\ Len(pending) > 1)
          /\ Launch(pending, <<>>, FALSE)
    /\ UNCHANGED <<queueVars, pc, work, storeVars, batch, fixing, newTasks>>

Pending == {t \in ToSet(Plan) : Forced \/ ~HasResult(t)}

(* Slip: the pending chunks are taken lightest first. *)
PlanLightestFirst == PlanFor(Reverse(Only(Plan, Pending)))

PlanStage == PlanFor(Only(Plan, Pending))

EnqueueNext ==
    /\ cpc = "enqueue"
    /\ Enqueue(Head(toEnqueue))
    /\ cpc' = "show"
    /\ UNCHANGED <<workerVars, drainVars, fixVars>>

(* Then QUEUED is shown, and the loop goes on, either in _run_stage or in  *)
(* _handle_failures.                                                       *)
ShowQueued ==
    /\ cpc = "show"
    /\ Show(Head(toEnqueue), "queued")
    /\ toEnqueue' = Tail(toEnqueue)
    /\ cpc' = CASE Tail(toEnqueue) # <<>> -> "enqueue"
                [] Tail(toEnqueue) = <<>> /\ batch = <<>> -> "size"
                [] Tail(toEnqueue) = <<>> /\ batch # <<>> /\ fixing # <<>> -> "fix"
                [] OTHER -> "settle"
    /\ UNCHANGED <<queueVars, pc, work, storeVars, rest, gate, active, budget,
                   want, fixVars>>

Least(m, n) == IF m < n THEN m ELSE n
Most(m, n) == IF m < n THEN n ELSE m

(* One worker for the smoke task; otherwise as many as the queue is deep.  *)
SizeFleet ==
    /\ cpc = "size"
    /\ \/ /\ gate
          /\ want' = 1
          /\ UNCHANGED queueVars
       \/ /\ ~gate
          /\ Sweep
          /\ want' = Least(MaxWorkers, Most(1, DepthAfterSweep))
    /\ cpc' = "grow"
    /\ UNCHANGED <<workerVars, toEnqueue, rest, gate, active, budget, fixVars>>

(* fleet.ensure(want): threads are spawned while fewer are alive.          *)
EnsureFleet ==
    /\ cpc \in {"grow", "ensure"}
    /\ \E S \in SUBSET (Worker \ Live) :
          /\ Cardinality(S) = Most(want, Cardinality(Live)) - Cardinality(Live)
          /\ Spawn(S)
    /\ want' = 0
    /\ cpc' = IF cpc = "grow" THEN "depth" ELSE "dead"
    /\ UNCHANGED <<queueVars, toEnqueue, rest, gate, active, budget, fixVars>>

-----------------------------------------------------------------------------
(* _drain, one round. *)

(* Slip: the fleet is not topped up while the stage drains. *)
ReadDepthOnly ==
    /\ cpc = "depth"
    /\ Sweep
    /\ cpc' = "dead"
    /\ UNCHANGED <<workerVars, drainVars, fixVars>>

(* Slip: the fleet size asked for is not capped. *)
ReadDepthUncapped ==
    /\ cpc = "depth"
    /\ Sweep
    /\ want' = DepthAfterSweep + Cardinality(Live)
    /\ cpc' = IF DepthAfterSweep = 0 THEN "dead" ELSE "ensure"
    /\ UNCHANGED <<workerVars, toEnqueue, rest, gate, active, budget, fixVars>>

ReadDepth ==
    /\ cpc = "depth"
    /\ Sweep
    /\ \/ /\ DepthAfterSweep = 0
          /\ cpc' = "dead"
          /\ UNCHANGED want
       \/ /\ DepthAfterSweep > 0
          /\ cpc' = "ensure"
          /\ want' = Least(MaxWorkers, DepthAfterSweep + Cardinality(Live))
    /\ UNCHANGED <<workerVars, toEnqueue, rest, gate, active, budget, fixVars>>

DeadlineStrikes ==
    /\ cpc = "depth"
    /\ cpc' = "timedOut"
    /\ UNCHANGED <<queueVars, workerVars, drainVars, fixVars>>

Handle(dead) ==
    /\ cpc = "dead"
    /\ batch' = dead
    /\ fixing' = dead
    /\ cpc' = CASE dead = <<>> -> "done"
                [] dead # <<>> /\ Handler -> "fix"
                [] OTHER -> "failed"
    /\ UNCHANGED <<queueVars, workerVars, drainVars, newTasks, manifest>>

(* Slip: failure markers are taken for dead letters. *)
FindFailed == Handle(Only(Plan, active \cap failures))

(* The dead letters of active tasks; without a handler they fail the stage *)
(* at once.                                                                *)
FindDead == Handle(Only(dlq, active))

(* The handled tasks leave active and the dead-letter list, the new ones   *)
(* enter active.                                                           *)
SettleWith(left, letters) ==
    /\ cpc = "settle"
    /\ budget' = left
    /\ active' = (active \ ToSet(batch)) \cup newTasks
    /\ dlq' = letters
    /\ batch' = <<>>
    /\ newTasks' = {}
    /\ cpc' = "depth"
    /\ UNCHANGED <<ready, inflight, lapsed, attempt, workerVars, toEnqueue,
                   rest, gate, want, fixing, manifest>>

(* dlq.remove of each handled task: its first entry, once for each time it *)
(* was handled, since more may have come in while the batch was.           *)
(* Going by the key is exact as long as a key has one Task object, since   *)
(* dlq.remove compares the fields.  Only _resplit makes new objects, so a  *)
(* part has two once its task was split twice, which takes two dead        *)
(* letters of it in one batch, and so a lease lapsed under a live worker.  *)
(* Then the code may also leave an old letter, to be handled once more.    *)
LettersLeft ==
    {i \in DOMAIN dlq : Cardinality({j \in 1 .. i : dlq[j] = dlq[i]})
                            > Cardinality({k \in DOMAIN batch : batch[k] = dlq[i]})}

(* Slip: every entry of a handled task is purged. *)
SettleAll == SettleWith(budget - 1, Only(dlq, Task \ ToSet(batch)))

(* budget -= 1, once for the whole batch. *)
Settle == SettleWith(budget - 1, Pick(dlq, LettersLeft))

(* Done: the gate opens and the rest is launched, or the stage returns;    *)
(* otherwise another round.                                                *)
Conclude(drained) ==
    /\ cpc = "done"
    /\ \/ /\ ~drained
          /\ cpc' = "depth"
          /\ UNCHANGED drainVars
       \/ /\ drained /\ gate
          /\ Launch(rest, <<>>, FALSE)
       \/ /\ drained /\ ~gate
          /\ cpc' = "returned"
          /\ UNCHANGED drainVars
    /\ UNCHANGED <<queueVars, workerVars, fixVars>>

(* Slip: the stage returns once some chunk is done. *)
CheckSomeDone == Conclude(\E t \in active : HasResult(t))

CheckDone == Conclude(\A t \in active : HasResult(t))

-----------------------------------------------------------------------------
(* _handle_failures, for the first task still to be handled. *)

ShowDead ==
    /\ cpc = "fix"
    /\ Show(Head(fixing), "failed")
    /\ cpc' = "act"
    /\ UNCHANGED <<queueVars, pc, work, storeVars, drainVars, fixVars>>

(* The policy, the budget or the handler's answer ends the stage.          *)
GiveUp ==
    /\ cpc = "act"
    /\ ~Remediate \/ budget = 0 \/ "report" \in Remediations
    /\ cpc' = "failed"
    /\ UNCHANGED <<queueVars, workerVars, drainVars, fixVars>>

(* One remediation of the task: s is enqueued, ids replace the task in the *)
(* manifest, and the drain is going to wait for the tasks in awaited.      *)
ApplyAwaiting(s, ids, awaited) ==
    /\ toEnqueue' = s
    /\ newTasks' = newTasks \cup awaited
    /\ manifest' = ids
    /\ fixing' = Tail(fixing)
    /\ cpc' = CASE s # <<>> -> "enqueue"
                [] s = <<>> /\ Tail(fixing) # <<>> -> "fix"
                [] OTHER -> "settle"
    /\ UNCHANGED <<rest, gate, active, budget, want, batch, pc, work, storeVars>>

(* Slip: what a remediation enqueues is not waited for. *)
ApplyUnawaited(s, ids) == ApplyAwaiting(s, ids, {})

Apply(s, ids) == ApplyAwaiting(s, ids, ToSet(s))

MayFix(action) ==
    /\ cpc = "act"
    /\ Remediate /\ budget > 0
    /\ action \in Remediations

Splits(t) == Len(Parts[t]) > 1
Without(t) == Only(manifest, Task \ {t})

(* retry_with, and a resplit of a task with nothing to split.  The attempt *)
(* counter is reset outside the queue's lock.                              *)
RetryWith ==
    /\ \/ MayFix("retry_with")
       \/ MayFix("resplit") /\ ~Splits(Head(fixing))
    /\ attempt' = [attempt EXCEPT ![Head(fixing)] = 0]
    /\ Apply(<<Head(fixing)>>, manifest)
    /\ UNCHANGED <<ready, inflight, lapsed, dlq, shown>>

(* Slip: the new manifest lists the parts alone. *)
ResplitDropsOthers ==
    /\ MayFix("resplit")
    /\ Splits(Head(fixing))
    /\ Apply(Parts[Head(fixing)], Parts[Head(fixing)])
    /\ UNCHANGED <<queueVars, shown>>

(* The members of the task become tasks of their own, with their attempts  *)
(* at 0; the tracker is told of those it does not know (set_tasks).        *)
Resplit ==
    /\ MayFix("resplit")
    /\ Splits(Head(fixing))
    /\ LET subs == Parts[Head(fixing)]
       IN  /\ Apply(subs, Without(Head(fixing)) \o subs)
           /\ shown' = [t \in Task |->
                            IF t \in ToSet(subs) /\ shown[t] = Unlisted
                            THEN "pending" ELSE shown[t]]
           /\ attempt' = [t \in Task |->
                            IF t \in ToSet(subs) THEN 0 ELSE attempt[t]]
    /\ UNCHANGED <<ready, inflight, lapsed, dlq>>

Skip ==
    /\ MayFix("skip")
    /\ Show(Head(fixing), "skipped")
    /\ Apply(<<>>, Without(Head(fixing)))
    /\ UNCHANGED queueVars

ControllerStep ==
    \/ PlanStage \/ EnqueueNext \/ ShowQueued \/ SizeFleet \/ EnsureFleet
    \/ ReadDepth \/ FindDead \/ Settle \/ CheckDone
    \/ ShowDead \/ GiveUp \/ RetryWith \/ Resplit \/ Skip

Next ==
    \/ ControllerStep
    \/ DeadlineStrikes
    \/ \E w \in Worker : WorkerStep(w) /\ UNCHANGED controllerVars
    \/ \E t \in Task : LeaseLapses(t) /\ UNCHANGED controllerVars

Spec == Init /\ [][Next]_vars

-----------------------------------------------------------------------------
(* A chunk that _drain waits for can still finish: until it is marked done *)
(* it is visible, in flight, dead-lettered or about to be enqueued, also   *)
(* in the middle of a remediation and after a dlq.remove that raced a      *)
(* worker's fail (controller.py:208-223).  Otherwise the stage would hang. *)
NoneForgotten ==
    \A t \in active :
        \/ HasResult(t)
        \/ t \in Enqueued \cup inflight \cup DeadLettered \cup ToSet(toEnqueue)

(* A stage that returns has a completion marker for every chunk of the     *)
(* manifest its downstream stages will read, whatever was split, retried   *)
(* or skipped (controller.py:225-227, 311-340).                            *)
ReturnedComplete ==
    cpc = "returned" => \A t \in ToSet(manifest) : HasResult(t)

(* While heartbeats are prompt, the manifest downstream stages enumerate   *)
(* stays a partition of the plan: no chunk is listed twice, and one that   *)
(* is not listed any more was skipped, or all its parts are in its place   *)
(* (controller.py:311-340).                                                *)
Skipped(t) == t \notin ToSet(manifest) /\ shown[t] = "skipped"
SplitUp(t) ==
    /\ Splits(t)
    /\ \A part \in ToSet(Parts[t]) : part \in ToSet(manifest) \/ Skipped(part)
ManifestExact ==
    /\ IsInjective(manifest)
    /\ cpc # "plan" =>
        \A t \in ToSet(Plan) : t \in ToSet(manifest) \/ Skipped(t) \/ SplitUp(t)

(* The smoke gate: while heartbeats are prompt and nothing is forced, no   *)
(* other chunk is handed to a worker before the heaviest pending one, or   *)
(* what the handler made of it, has finished (controller.py:178-188).      *)
PendingAtStart == Only(Plan, {t \in Task : Forced \/ t \notin prior})
Gated == Smoke /\ Len(PendingAtStart) > 1
SmokeOver ==
    LET smoke == Head(PendingAtStart)
    IN  \A t \in {smoke} \cup ToSet(Parts[smoke]) :
            t \in ToSet(manifest) => Finished(t)
GateFirst ==
    Gated => \A i \in 2 .. Len(PendingAtStart) :
                \/ SmokeOver
                \/ PendingAtStart[i] \notin
                        Enqueued \cup inflight \cup DeadLettered

(* The stage barrier: while heartbeats are prompt and nothing is forced,   *)
(* no worker is executing a chunk of a stage that has returned, so the     *)
(* downstream stage never reads outputs that are being written             *)
(* (controller.py:225-227).                                                *)
Executing == {w \in Worker : pc[w] \in {"start", "compute", "fail", "tell", "nack"}}
Barrier == cpc = "returned" => Executing = {}

(* While heartbeats are prompt, a stage is only failed over a chunk that   *)
(* did not complete.                                                       *)
FailsJustly == cpc = "failed" => \E t \in ToSet(batch) : ~Finished(t)

=============================================================================
