# gleanflow in TLA+

gleanflow turns a DAG of Python functions into chunked tasks, hands them out
through a leased queue to a fleet of workers, and waits stage by stage.  What is
hard about it is not the computation but the bookkeeping around it: leases that
lapse under live workers, workers that die between two steps, a controller that
repairs failed chunks while others run, markers in an object store that outlive
the run that wrote them.  This directory holds TLA+ modules of that bookkeeping,
TLC configurations that check them on small instances, and proofs of the most
important invariants for every value of the constants.

Paths below are relative to `src/gleanflow/` unless they start with `src/`.

## 1. The system

| Part | State it keeps | Operations | Talks to |
| --- | --- | --- | --- |
| Local queue, `queue/local.py` | ready list, leases with deadlines, attempts, dead-letter list; one lock | enqueue, claim, extend, ack, fail, depth (each sweeps lapsed leases first, except enqueue, extend, ack and fail) | worker threads, controller |
| SQS queue, `queue/sqs.py` | the messages and the dead-letter queue (at AWS), receipt handles (in each process) | the same, by requests | worker processes, controller |
| Worker, `worker.py` | the task it holds, a heartbeat thread | poll_loop, run_task, main | queue, store, tracker, user code |
| Local fleet, `fleet/local.py` | threads | ensure, running, drain | worker |
| Batch fleet, `fleet/batch.py` | ids of the jobs submitted | ensure, running, failed_count, last_failure, deliver_code | AWS Batch |
| Controller, `controller.py` | active tasks, smoke gate, remediation budget | run, _plan, _run_stage, _drain, _handle_failures, _retry_with, _resplit, _skip, _refresh_from_markers | all of the above, failure agent |
| Planning, `partition.py` | none | pack, one_to_one | controller |
| Task input and output, `context.py`, `store.py` | row buffer and part number of a writer; objects in the store | input, write, finalize, PartWriter | store |
| Markers, `markers.py` | result, failure and running objects in the store | write and exists of each | worker, controller |
| Pipeline, `pipeline.py` | the DAG | topo_order, deps_of | controller |
| Tracker, `tracker.py` | state of every task, subscribers | set_tasks, set_state, emit, snapshot | controller, workers, web server |
| Failure agent, `agent.py` | none | one answer per failure event | controller |
| Checkpoints, `ckpt.py` | checkpoint objects, local files | restore, save, fit | user code, store |
| Web server, `web/server.py` | webhooks, event streams with a queue each, the queue of the dispatcher | subscribe, unsubscribe, stream, dispatch; read-only requests | tracker, subscribers |
| Monitor, polars helpers, command line, infrastructure | — | — | the operating system, other libraries, terraform |

Hard behaviours, and what has to hold of them:

* **Interleaving.**  Worker threads, the heartbeat of each, the sweep done by
  whoever calls the queue next, and the controller all run at once.  No task may
  be lost, and with prompt heartbeats none may be run by two workers or run
  again once done.
* **Crashes.**  A put that raises outside of `run_task`'s `try` kills a worker
  thread; a Batch job may be killed anywhere and is started again.  A task comes
  back when its lease runs out; a message is deleted only for a chunk that is
  done.
* **Late answers.**  `ack` and `fail` of LocalQueue go by key, those of SqsQueue
  by a receipt handle that may be stale.
* **Repair while running.**  The controller copies the dead-letter list, takes
  its time over each entry, then removes entries while workers add more.  The
  chunks it waits for must stay findable, and the manifest exact.
* **Ordering.**  Data before completion marker, marker before "success" and
  before ack; smoke task before the rest; a stage before the stages reading it.
* **Restart.**  Markers, manifests, parts and checkpoints of an earlier run are
  still there in the next, and are trusted.
* **Telling others.**  Events leave outside the tracker's lock, and subscriptions
  change unlocked under the dispatcher.  Subscribers must miss nothing, and
  `run_done` must be the last they hear, as far as the fleet's drain, which
  waits for each thread only so long, can see to it.
* **Limits.**  Redeliveries, the remediation budget, the size of the fleet, the
  target weight of a chunk, the rows of a part, the crash-loop cap.

The full list, line by line, is under `hazards` in `PROJECT.json`, with the
properties that cover each one.

## 2. Modules

    LeasedQueue   TaskPlane           abstract: what queue/base.py promises
         ^  refinement  ^
    LocalQueue <- Worker <- WorkerPool          the pool by itself
                     ^----- StageRun <- Events  with the controller of a stage, its events
    SqsQueue <- BatchWorker <- AwsStage         the same on AWS
    DataPlane                                   what the chunks hold, over runs
    Checkpoint                                  the fit of one task, over crashes and runs
    Push                                        webhooks and event streams
    SubSequences                                helpers of StageRun, AwsStage and DataPlane

    SequenceProofs <- QueueProofs <- WorkerPoolProofs
          ^                 ^------- RunProofs
          ^---- AwsProofs, PushProofs, DataProofs
    CheckpointProofs

**LocalQueue** has `queue/local.py`: `ready` (a sequence of keys), `inflight`
(the keys of `_inflight`), `attempt`, `dlq` and `lapsed`, the leases whose
deadline has passed and that no sweep has seen yet.  Time is abstracted to this
set.  Each operation is a fragment that the modules above conjoin: `Sweep`,
`Enqueue`, `Claim`, `Extend`, `Ack`, `Fail`, `DepthAfterSweep`.  `_sweep` is part
of the action that calls it, as it is in the code.

**Worker** has `run_task` and `poll_loop`, one action for each queue call, store
operation or tracker update, because these are the points between which another
thread may act.  `DieStarting` and `DieFailing` are the exceptions that escape
`run_task`.  The markers of the store are `prior` (of earlier runs) and `ran`.

**WorkerPool** composes both with a client that submits tasks as `_run_stage`
does and tops up the fleet.  `stalled` is history: a lease has run out under a worker
that was alive (`LeaseRunsOut`), so that its heartbeats and its answer come late.  What
needs the lease to be held is stated until then, everything else for ever.

**StageRun** composes both with `Controller._run_stage` and `_drain`: planning,
the smoke gate, enqueue and QUEUED as two steps, the sizing of the fleet, the
round of depth, dead letters and completion markers, `_handle_failures` with
every answer the handler may give, and the way each remediation changes the
manifest.  A Task object is its key, with one attempt counter, which is exact but for a part of a
chunk that was split twice.  That takes two dead letters of the chunk in one batch, and so a lease
that ran out under a live worker.  The part then has two objects, `dlq.remove`, which compares
their fields, may leave an old letter to be handled again, and each object has its own counter; the
model removes a letter for each one handled, and has one counter.

**Events** puts a subscriber beside StageRun.  `set_state` changes the snapshot under
the tracker's lock and calls the subscribers after it has let go of it: a thread that has
shown a state owes the event (`owe`) and does nothing else before `Emit`.  `StageDone`,
`RunFailed` and `RunDone` are the end of `Controller.run`.  Before `RunDone` comes
`LocalFleet.drain`, which for each thread waits until it has ended (`Join`) or
stops waiting ten seconds past the idle timeout (`GiveUpOn`), whatever the thread is at: in
the function of its task, in a subscriber, before its ack, or polling.  `givenUp` has
the threads it gave up on; they go on.

**LeasedQueue** is the queue `queue/base.py` describes: a task is waiting, leased,
dead or done; only a leased task is acked or given back.  **TaskPlane** is what is
left of it when leases lapse under live workers: at least once, with a bounded
number of deliveries.

**SqsQueue**, **BatchWorker**, **AwsStage** are the AWS counterparts.  SQS itself and
the restarts of a Batch job are outside the repository and modelled from the way
they are used and configured: the redrive policy of `infra/main.tf.tmpl`, the
retry strategy in `BatchFleet._submit_one`.  A request is an action.  A process
may be killed at any point of it (`Crash`).  `Ack` with a handle of a message that is
deleted already succeeds, and the process polls on; a `delete_message` that raises after the
task has run is caught as a failure of the task, for which `queue.fail` then does
nothing, its receipt being gone (`AckRaises`); after a skip nothing catches it, and it is one of
the ends of `Crash`.  `DepthReading` lets the approximate
counters of SQS lag behind arbitrarily.  A request of the controller that raises
ends the run like `DeadlineStrikes`, and is not a separate action.  The environment
`_submit_one` builds has no FORCE, so that there is no force on AWS.

**DataPlane** follows the rows instead: a source of weighted members, `pack` and
`one_to_one`, the manifest without members that `_plan` writes, `Ctx.input`, the
buffer and the parts of `PartWriter`, the completion marker, and runs that are cut
short and begun again.  It takes from the task plane only what the other modules
establish: a planned chunk may be run by any worker, by two at once, and again,
until it is marked.  The stage functions pass their input on row by row.

The controller may split or skip a chunk of a stage while it runs (`Remediate`), at
most `MaxFixes` times, as `_resplit` and `_skip` change the manifest; the `_plan` of the
next run undoes it while the markers stay.

**Checkpoint** is `ckpt.py` with the `get_file` of both stores: workers on disks,
`restore` (list, fetch or trust the local file), the block loop of `fit`, `save_model`
in place, and the put.  A process may be killed anywhere, its disk may go with it or not
(`site`), and a later run may ask for other rounds.  A booster is its number of rounds.

**Push** is the dispatcher thread of the web server with the request threads that
register webhooks and open streams.  Each step of an unlocked structure is an
action: `TakeId` and `CountId` are the two halves of handing out an id, `CopyHooks` and
`CopyStreams` the copies the dispatcher iterates over.  It starts where Events ends:
`Emit` is the subscriber that puts each event on the dispatcher's queue.

`MC*` modules give constants to TLC and nothing else.  A definition preceded by
the comment "Slip" is never used by a specification: it is a plausible mistake in
the definition after it, kept to show that the properties would notice.

## 3. What the runs check

| Run | Instance | Shows |
| --- | --- | --- |
| `pool` | 2 tasks, 3 threads, 1 redelivery, leases that run out any time | type, `NotLost`, `ShownTrue`, refinement of TaskPlane; until a lease has run out under a live worker `OneExecutor`, `NoRecompute`, `DeadIsFinal`, refinement of LeasedQueue |
| `stage_prompt` | 2 chunks, one of which splits in two; gate; every remediation | type, `NoneForgotten`, `ReturnedComplete`, `ManifestExact`, `GateFirst`, `Barrier`, `FailsJustly` |
| `run_events` | 2 chunks, gate, retry and skip, threads die or are given up by drain, no redelivery but by retry | `InStep`, `RunDoneLast`, `AllAnnounced`, `EndIsAnnounced` |
| `checkpoints` | 2 workers; one machine, two containers, or two machines with one bucket; asks of 3 rounds by 2 and 2 by 1; 2 crashes | `StoredWhole`, `FitAnswers`, `ResumesAtLatest`, `RestoresWhole`, `FitReturns` |
| `aws_stage` | 2 chunks, gate, 2 jobs of 2 attempts, 2 receives, prompt heartbeats | type, `OneExecutor`, `NoRecompute`, `DeletedIsDone`, `ReturnedComplete`, refinement of LeasedQueue |
| `aws_lapse` | 1 chunk, 2 jobs of 2 attempts, 3 receives, timeouts any time | `DeletedIsDone`, `CrashLoopEnds` |
| `data_resume` | 3 stages (a packed one, then one that keeps its chunks and one that packs them), up to 2 members of 1 or 3 rows, parts of 2 rows, 2 workers, 2 runs, 1 split or skip | type, `PackSound`, `ResumeComplete`, `DoneIsFrozen` |
| `push` | 2 webhooks, one of which may fail and one with a filter; 2 streams, one with a filter; 2 events | type, `HooksHearAll`, `StreamsHearAll`, `StayersAreTold` |

*Prompt* is the assumption that heartbeats arrive: a lease lapses only when no
worker is running its task.  The code does not guarantee it (a paused process, a
refused request), which is why what remains true without it is proved without it
(section 4: nothing is lost, forgotten or deleted too soon, and a stage that returns
is complete) and `pool` and `aws_lapse` are run without it.  In `pool` the three properties
and the refinement that need it hold up to the first lapse under a live worker, which is
as long as they can: their states before it are those of a pool with prompt heartbeats.

The bounds are the smallest at which the interesting cases meet.  Two workers are
enough for a race over a lease, its holder and the successor; in `pool` a third is left
to take what a late `fail` of the first makes visible while the second still has it, and the second
task lets the queue order matter.  One
redelivery exercises "again" and "too often"; in `run_events` a chunk is redelivered only
by a retry of the controller, so that a failure, its dead letter and its retry all fit.
Two chunks give the gate something to hold back.  (A batch of dead letters in which one is
handled and the next gives up takes two at once with budget left, and is beyond these bounds;
`ManifestStaysExact` covers the manifest for any.)  Two jobs with two attempts reach the crash-loop
cap of 2.  Parts of 2 rows with members of 1 or 3 make a member span two parts and leave
a part unfilled; two runs are one restart, and workers of the first survive into
the second.  Two asks with different blocks let a shorter fit meet the checkpoints of a
longer one, and two crashes hit a fit in its restore after they hit it in its save.
Two streams are the least of which one can leave while the other is next; with two events
a subscription falls between them.  The bounds by name: `MaxMembers`, `MaxRuns`,
`MaxFixes` in DataPlane, `MaxRounds` and `MaxCrashes` in Checkpoint, `MaxEvents` in Push, `Job` in AwsStage
(as many jobs as are ever submitted), `MaxRedeliveries`, `MaxReceives`, `Attempts` and
`MaxRemediations`, which are parameters of the program.  Symmetry is over workers or
jobs, and never used together with a liveness property.  `CHECK_DEADLOCK FALSE`
everywhere: a run that has ended and idle workers that have exited really do stop.

**Fairness.**  `EndIsAnnounced` and `CrashLoopEnds` assume that a thread or process that is
alive is scheduled, that the controller keeps going (its loop sleeps and goes on;
the failure handler and the subscribers return), that a thread that finds nothing reaches
its idle timeout, and that the lease of a dead worker runs out.  `FitReturns` assumes
that the task is delivered again and that a process goes on until it is killed;
crashes are bounded.  `StayersAreTold` assumes that the dispatcher, whose POSTs have
a time limit, and the threads of the streams are scheduled; it holds while the server lives,
which `run` sees to by holding it open unless asked not to.  Nothing forces a failure, a crash, an event or
the six-hour deadline, and nothing forces user code to succeed.

**Violations.**  Four runs state what a comment or a document says and find a counterexample:

* `stage_force_no_barrier`: with `force`, `_drain` takes the markers of an earlier
  run for this one's; the stage returns while its workers still recompute what the next
  stage is going to read (`controller.py:225` against `controller.py:9`).
* `aws_dead_unnoticed`: `_drain` reads `getattr(queue, "dlq", [])`, SqsQueue has no
  `dlq`, and a dead-lettered chunk is never noticed on AWS.  What is left
  is the deadline six hours on, which the run's fairness does not force.
* `aws_guard_forgets`: the crash-loop guard counts jobs that failed since the run
  began but completions since the drain began, and so aborts a fan-out whose smoke task has
  completed.  In the traces TLC gives, jobs fail after the smoke task has completed,
  and the guard says that no task has.
* `data_grows`: `pack` numbers chunks by position; when the source has grown, the
  last chunk keeps its id with more members, and its old marker skips it.

Reading the code for the model also showed these, which no run states: `run_done` is not
always the last event, nor has every chunk been announced by then, as `tests/test_events.py:33-34`
and `src/README.md:105-107` have it, since a thread that drain gave up on still announces and
acknowledges what it has finished (`RunDoneLast` and `AllAnnounced` say what is left of it);
`config.py:35` dead-letters "after this many failed deliveries", LocalQueue after one more,
as its tests expect; two requests that
subscribe at once may be given one id, and then the second callback replaces the first and
either of them removes it (`HooksHearAll` leaves such callbacks out); `FitReturns`
needs its premise, since a torn local copy of a stored round is trusted for ever
on a disk that outlives its process, and `FitAnswers` its second
disjunct, since a checkpoint is found by the task key alone, whatever it was trained
on and for; a split or a skip followed by a re-run of a packed stage downstream may lose or
repeat rows, for the reason `data_grows` shows, which is why `ResumeComplete` speaks of
stages that find the chunks they pack as the earlier runs did; after a lapse
a late `fail` makes a task visible that another worker holds, a chunk can be marked
done and dead-lettered, and two dead letters of one chunk are split twice; the
remediation budget, "per stage" in `config.py:50`, is renewed after the gate and spent once per batch; the
fleet grows by the queue depth in every round, up to `max_workers`, because
depth already counts held tasks; QUEUED may overwrite SUCCESS for good; LocalQueue
delivers once more than SQS with the same `max_redeliveries`; a cleared running
marker still exists, so AWS shows a failed chunk as running.

## 4. What is proved

All for any finite or infinite set of tasks and workers the assumptions allow, by TLAPS.

* `SequenceProofs`, `QueueProofs`: lemmas about sequences as lists with repetitions
  (how often an element occurs after an append, a purge, a comprehension), and about the
  operators of LocalQueue: where `Sweep`, `Claim` and `Fail` leave a task.  `Induct` and
  `SequenceInduct` are induction over the naturals and over sequences, for sets instead of
  operators: the least element of a set of naturals comes from the library's order of the finite sets, which is
  well-founded.  With them `FlattenSteps`, `FlattenConcat` and `FlattenHas` say what
  `FlattenSeq` comes to, and `InjectiveLen` that a sequence without repetitions is as long as it has elements.
* `WorkerPoolProofs`: `TypeCorrect`, `NoTaskLost`, `NothingShownTooSoon`.  No assumption
  about heartbeats.  `NotLost` is inductive only with the fact that a worker that is about to
  acknowledge has a completion marker to show for it.
  `OneExecutorOnly`, `DoneIsNotRedone`, `DeadLettersAreFinal`, until a lease has run out under a
  live worker, which with `Prompt` none does: `SteadyInv` has `LeaseInv` as long as `stalled` is
  false, and `stalled` stays true (`StalledForGood`).  In `LeaseInv` are the type, `InOnePlace` (a task
  is in the ready list at most once, and not there and in flight or dead),
  `LeaseHeld` (a worker that holds a task holds its lease), `OneExecutor`, `OnItsWayOut` (a task
  that is done is only still with a worker that is about to acknowledge it) and
  `NoRecompute`.  None of the three properties is inductive without the others: that nobody else
  runs a task follows from the lease, and that the lease is not given away twice from
  the places.  `QueueIsLeased`: until then the pool implements LeasedQueue.  Initial
  states map to initial states, and each step to a step or a stutter, under `LeaseInv`.
  `PlaneDelivers`, whatever leases run out: the pool implements TaskPlane.
  A task handed over stays owed by `NotLost`; its credit is its copies in the ready list
  and the redeliveries not yet charged, and a sweep, a failure and a late answer
  each charge what they put back.
* `RunProofs`, of StageRun: `StageTypeCorrect`, `NoChunkForgotten`, `StageReturnsComplete`, without
  `Prompt`, with or without force, for any plan and any way to split.  In `StageInv`, a chunk the drain loop
  waits for is done, in the queue, or has come back more often than the controller is
  about to purge (`Secure`); the entries to be purged are there (`LettersThere`);
  and every chunk of the manifest is done, kept back, waited for, or about to be
  (`Listed`).  Counting is what makes it inductive: a chunk may be dead-lettered
  again while its earlier dead letter is being handled.  `Kept` says what one step of a worker may do to this: it gives up a task
  only if that is done or dead-lettered anew.
  From `Prompt`: `ManifestStaysExact` and `StageFailsJustly`, and, when nothing is forced,
  `SmokeGatesFirst` and `StageBarrier`.  Their invariant is `Custody`: each task is unsent,
  kept back, in the queue, in flight, dead or finished, in one of these ways only (`Apart`,
  `DeadApart`); the batch of dead letters is worked off from its head, and all in it
  are still dead (`InOrder`); everything in hand is in the manifest, or in the batch that
  has just taken it out (`InManifest`); a chunk that was not planned is a part of one
  that is not listed any more (`Grown`).  `Grown` needs `PartsAssumption`: parts of different tasks
  differ and a part is not split again, as their keys and their single member see to.
* `RunProofs`, of Events: `EventsRunTheStage`, that Events only adds to StageRun, so that everything proved of a
  stage holds of it with its subscribers; `EventsTypeCorrect`.  From `Prompt`, `EventsStayInStep`, by `Voices`: a worker that owes an event still
  has the lease of its task alone, owes what the snapshot shows unless QUEUED has come over it,
  and the controller, but for QUEUED, speaks of tasks that no worker can get.  From `Prompt` and without
  force, `RunDoneIsLast` and `EventsAnnounceAll`: a stage without live workers whose chunks are all done has an
  empty queue (`Tending`), the end of the run goes through
  its steps in order, whichever threads drain gives up (`Closing`), and a finished chunk has been announced, is going to be by whoever owes the event,
  or is on its way to a worker who will (`Announced`).
* `AwsProofs`: `AwsTypeCorrect`, `OnlyDoneIsDeleted`, `AwsReturnsComplete` whatever lapses and
  whichever requests with stale handles go through or raise, and from
  `Prompt` `OneExecutorAtATime` and `DoneIsNotRecomputed`, for any number of jobs and attempts.  In
  `AwsInv`, `LeaseHeld` says that the message of a task that is being run is hidden
  and its latest receipt the runner's, from which the last two follow; `PlanHeld` that
  every chunk of the plan is done, waited for or kept back.
  From `Prompt`, `SqsQueueIsLeased`: SQS on AWS implements LeasedQueue as well.  `MessageMoves` has what can
  happen to a message, five moves in all, and each is a step of LeasedQueue or a
  stutter; a message on its last receive is dead to LeasedQueue as soon as it is visible again, which the
  redrive policy only follows up.
* `CheckpointProofs`: `CheckpointsAreWhole`, `FitsAnswer`, `NoBlockTwice`, `RestoredIsWhole`, for
  any workers, disks, sites and asks.  `Inv` says what a worker at each point of the fit knows of its file, its model
  and the store, that nobody else uses its disk (`Alone`), and that where disks go with
  their processes only a writer has a torn file (`NoLitter`).
* `PushProofs`: `PushTypeCorrect`, `HooksAreToldAll`, `StreamsAreToldAll`, for any callbacks, streams,
  filters and numbers of events.  `Pushing` says that ids are counted once for each registration that got so
  far (`Counted`), that a callback leaves the dict only by its own request unless another
  has its id (`Kept`), that the list of streams has the open ones, each once (`Open`), and that the round the dispatcher
  goes through has clients that came, each once, all due the event in hand
  (`Rounds`).  With `Told(c)`, the number of events up to which a client is to have been told, a
  step of the dispatcher moves `Told(c)` on exactly when it serves `c`, and no other step does.

* `DataProofs`: `PackingIsSound`, for any weights, members and target.  `InHand` is what `pack` has in hand
  after some of the chunks: the chunks made and the one it fills hold just their members, in order, and
  none is empty; `Weighs` adds what each weighs and why it was closed.  Both are shown to stay so
  over one chunk more (`PackedSteps` has that step out of `FoldLeft`).
  `DataTypeCorrect`, by `TypeInv`: the manifest of the stage that runs is that of its tasks, together they
  have no more members than the source, a chunk has a member and weighs one for each, only a numbered
  chunk has several, and a task of the source has members the source has.  Without this the ids of
  a split chunk and the rows a task reads could not be kept to their ranges.
  `DoneStaysFrozen`, of the action property `DoneIsFrozen`, by `FrozenInv`: the stages before the one that
  runs are done (`Passed`), what a stage that has begun packs is done and stays listed as it is (`Fixed`),
  tasks, and attempts at them, read only what is done and have the members the plan of their chunk gives them
  (`Planned`, `Begun`), the parts of a chunk are the first that its input is cut into, and all of them when
  it is done (`Written`), and an attempt has the rest of that input before it (`Writing`).  The
  argument is circular in time: what is written again is the same because the input has not changed, and
  that has not because what is done is only ever written again.  Which stages are settled is a recursion over
  the pipeline; `SettledSettles` gets its equation and `SettledInShrinks` that a stage found
  changed unsettles, and never settles.
  `ResumesComplete`, of `ResumeComplete`, by `ResumeInv`: to `FrozenInv` it adds that the tasks of the stage
  that runs have each chunk upstream once, but for those skipped, and those that are no parts of others in their
  order (`Covering`); that `lost` is exactly the rows of the chunks no task has (`Missed`), and nothing yet for
  the stages to come (`NotYet`); that no manifest names a chunk twice (`Distinct`: a second task of the same id
  would have the same members, which `Covering` excludes); and that the stages before have delivered (`Delivered`).
  When the last task is done, `Written` makes the parts of each chunk its input, so that the output of the stage is
  what its members are spread to, one after the other (`DoneOutput`), hence what it reads without what is
  lost (`DeliversNow`); and that stays, because what is done is frozen.  `Delivered` is not inductive by
  itself: what a stage delivers is decided by the plan and the remediations long before.  The lemmas are about
  `Spread`, which maps the elements of a sequence to sequences and joins these (`SpreadFlatten`, `SpreadInjective`,
  `SpreadOnly`), about the cut into parts and back (`WholeFlattens`), and about the recursions over the pipeline
  (`DescendExists`, `DescendSame`).  It holds for any tree of stages, any targets, part size and source, any
  number of workers, runs and fixes.

*Prompt* and *no force* are hypotheses where the code needs them: without the first two workers
may hold one task, and `stage_force_no_barrier` shows what force does to the barrier.

Every safety property of a passing run is the statement of a theorem.  Only model-checked: liveness
(`EndIsAnnounced`, `CrashLoopEnds`, `FitReturns`, `StayersAreTold`), which needs ENABLED.

## 5. Not modelled, and the plan

Not modelled: the memory monitor (it samples counters of the operating system, which are
only reported); the polars helpers (expressions over another library); the command
line, the infrastructure and code delivery (pure I/O); the LLM behind the failure agent
and the heuristic that stands in for it, whose answer is any of those the controller allows; the
records of tasks and stages and the configuration, which are the constants of the
modules; `write_bytes`, `write_model`, `aux`; partition hooks and stages without an
upstream; failures of the controller's own requests, which end the run as the deadline
does; the request handlers of the web server that only read.

What could be added: how `topo_order` finds the order of the stages; Push over the events of Events.
