------------------------------- MODULE Events -------------------------------
(***************************************************************************)
(* The events of a local run: Tracker.set_state and emit (tracker.py) under *)
(* the worker threads and the controller of StageRun, and what              *)
(* Controller.run emits around the stage, a run of one stage.               *)
(*                                                                         *)
(* set_state changes the snapshot under the tracker's lock and calls the    *)
(* subscribers after it has let go of it.  StageRun has the first as Show;  *)
(* here the thread then owes its subscriber the event, and does nothing     *)
(* else before it has emitted it.  Every subscriber is called for every     *)
(* event and may not disturb another, so that one stands for all of them.   *)
(***************************************************************************)
EXTENDS StageRun

CONSTANT Controller     \* the controller's thread

ASSUME ThreadAssumption == Controller \notin Worker

Thread == Worker \cup {Controller}
Event == [task : Task, state : TaskState]

VARIABLES
    owe,        \* the events each thread has yet to emit
    heard,      \* the last state the subscriber was told of each task
    concluded,   \* the tasks it was told to be done with: success or skipped
    joined,     \* the threads that LocalFleet.drain has joined
    givenUp,    \* the threads that were still alive when it stopped waiting
    finale      \* the last event of Controller.run itself

eventVars == <<owe, heard, concluded, joined, givenUp, finale>>
allVars == <<vars, eventVars>>

EventsTypeOK ==
    /\ TypeOK
    /\ owe \in [Thread -> Seq(Event)]
    /\ heard \in [Task -> TaskState \cup {Unlisted}]
    /\ concluded \subseteq Task
    /\ {joined, givenUp} \subseteq SUBSET Worker
    /\ finale \in {"none", "stage_done", "run_done", "run_failed"}

EventsInit ==
    /\ Init
    /\ owe = [p \in Thread |-> <<>>]
    /\ heard = [t \in Task |-> Unlisted]
    /\ concluded = {}
    /\ joined = {}
    /\ givenUp = {}
    /\ finale = "none"

Idle(p) == owe[p] = <<>>

(* set_state of the tasks in s, one after the other. *)
TellAll(p, s, state) ==
    /\ owe' = [owe EXCEPT ![p] = [i \in DOMAIN s |-> [task |-> s[i], state |-> state]]]
    /\ UNCHANGED <<heard, concluded, joined, givenUp, finale>>

Tell(p, t, state) == TellAll(p, <<t>>, state)

(* emit of the next event: the subscriber's view follows it. *)
Emit(p) ==
    /\ ~Idle(p)
    /\ LET e == Head(owe[p])
       IN  /\ heard' = [heard EXCEPT ![e.task] = e.state]
           /\ concluded' = IF e.state \in {"success", "skipped"}
                          THEN concluded \cup {e.task} ELSE concluded
    /\ owe' = [owe EXCEPT ![p] = Tail(@)]
    /\ UNCHANGED <<vars, joined, givenUp, finale>>

-----------------------------------------------------------------------------
(* The steps of a worker thread. *)

WorkerTells(w) ==
    \/ ShowSkipped(w) /\ Tell(w, work[w], "skipped")
    \/ Start(w) /\ Tell(w, work[w], "running")
    \/ ShowSuccess(w) /\ Tell(w, work[w], "success")
    \/ ShowFailed(w) /\ Tell(w, work[w], "failed")

WorkerIsSilent(w) ==
    /\ \/ ClaimTask(w) \/ FindNothing(w) \/ Check(w) \/ Publish(w)
       \/ AckTask(w) \/ WriteFailure(w) \/ FailTask(w)
    /\ UNCHANGED eventVars

WorkerFails(w) ==
    \/ DieStarting(w) /\ Tell(w, work[w], "running")
    \/ (Raise(w) \/ DieFailing(w)) /\ UNCHANGED eventVars

(* Slip: a thread goes on before its event is out. *)
WorkerRunsAhead(w) ==
    /\ WorkerTells(w) \/ WorkerIsSilent(w)
    /\ UNCHANGED controllerVars

WorkerGoesOn(w) ==
    /\ Idle(w)
    /\ WorkerTells(w) \/ WorkerIsSilent(w)
    /\ UNCHANGED controllerVars

WorkerStops(w) ==
    /\ Idle(w)
    /\ WorkerFails(w)
    /\ UNCHANGED controllerVars

WorkerExits(w) ==
    /\ Idle(w)
    /\ IdleExit(w)
    /\ UNCHANGED <<controllerVars, eventVars>>

(* A thread that is still in a subscriber keeps its task's lease as well. *)
LeaseRunsOut(t) ==
    /\ LeaseLapses(t)
    /\ Prompt => \A p \in Thread : \A i \in DOMAIN owe[p] : owe[p][i].task # t
    /\ UNCHANGED <<controllerVars, eventVars>>

LeaseMoves ==
    /\ UNCHANGED <<controllerVars, eventVars>>
    /\ \/ \E t \in Task : LeaseRunsOut(t)
       \/ \E w \in Worker : Heartbeat(w)

-----------------------------------------------------------------------------
(* The steps of the controller. *)

(* Slip: chunks that are cached are not announced. *)
NoneCached == <<>>

Cached == Only(Plan, {t \in Task : ~Forced /\ HasResult(t)})

ControllerTells ==
    \/ PlanStage /\ TellAll(Controller, Cached, "skipped")
    \/ ShowQueued /\ Tell(Controller, Head(toEnqueue), "queued")
    \/ ShowDead /\ Tell(Controller, Head(fixing), "failed")
    \/ Skip /\ Tell(Controller, Head(fixing), "skipped")

ControllerIsSilent ==
    /\ \/ EnqueueNext \/ SizeFleet \/ EnsureFleet \/ ReadDepth \/ FindDead
       \/ Settle \/ CheckDone \/ GiveUp \/ RetryWith \/ Resplit
    /\ UNCHANGED eventVars

ControllerGoesOn ==
    /\ Idle(Controller)
    /\ ControllerTells \/ ControllerIsSilent

TimesOut ==
    /\ Idle(Controller)
    /\ DeadlineStrikes
    /\ UNCHANGED eventVars

(* Controller.run, after its only stage. *)
StageDone ==
    /\ cpc = "returned" /\ Idle(Controller)
    /\ finale = "none"
    /\ finale' = "stage_done"
    /\ UNCHANGED <<vars, owe, heard, concluded, joined, givenUp>>

RunFailed ==
    /\ cpc \in {"failed", "timedOut"} /\ Idle(Controller)
    /\ finale = "none"
    /\ finale' = "run_failed"
    /\ UNCHANGED <<vars, owe, heard, concluded, joined, givenUp>>

(* drain goes through the threads of the fleet: it waits for each until it *)
(* ends, and for no longer than ten seconds past the idle timeout.         *)
Draining(w) == finale = "stage_done" /\ w \notin joined \cup givenUp
ThreadEnded(w) == pc[w] = "off" /\ Idle(w)

(* Slip: drain does not wait. *)
JoinAtOnce(w) ==
    /\ Draining(w)
    /\ joined' = joined \cup {w}
    /\ UNCHANGED <<vars, owe, heard, concluded, givenUp, finale>>

Join(w) ==
    /\ Draining(w)
    /\ ThreadEnded(w)
    /\ joined' = joined \cup {w}
    /\ UNCHANGED <<vars, owe, heard, concluded, givenUp, finale>>

(* The wait times out, whatever the thread is at: in the task's function,  *)
(* in a subscriber, before its ack, or polling.  It goes on regardless.    *)
GiveUpOn(w) ==
    /\ Draining(w)
    /\ ~ThreadEnded(w)
    /\ givenUp' = givenUp \cup {w}
    /\ UNCHANGED <<vars, owe, heard, concluded, joined, finale>>

RunDone ==
    /\ finale = "stage_done"
    /\ joined \cup givenUp = Worker
    /\ finale' = "run_done"
    /\ UNCHANGED <<vars, owe, heard, concluded, joined, givenUp>>

RunGoesOn ==
    \/ StageDone \/ RunFailed \/ RunDone
    \/ \E w \in Worker : Join(w) \/ GiveUpOn(w)

EventsNext ==
    \/ ControllerGoesOn \/ TimesOut \/ RunGoesOn
    \/ \E p \in Thread : Emit(p)
    \/ \E w \in Worker :
          WorkerGoesOn(w) \/ WorkerStops(w) \/ WorkerExits(w)
    \/ LeaseMoves

(* Threads are scheduled, the handler answers, subscribers return, the      *)
(* lease of a dead worker runs out, and a thread that finds nothing reaches *)
(* its idle timeout.  Nothing forces a failure or the deadline.             *)
EventsFairness ==
    /\ WF_allVars(ControllerGoesOn \/ RunGoesOn \/ Emit(Controller))
    /\ \A w \in Worker : WF_allVars(WorkerGoesOn(w) \/ WorkerExits(w) \/ Emit(w))
    /\ WF_allVars(\E t \in Task : LeaseRunsOut(t))

EventsSpec == EventsInit /\ [][EventsNext]_allVars /\ EventsFairness

-----------------------------------------------------------------------------
(* While heartbeats are prompt, a subscriber that nobody owes an event has  *)
(* of each task what the snapshot has, but for QUEUED: the controller's     *)
(* QUEUED and a worker's state may reach it, and the snapshot, in either    *)
(* order (tracker.py:64-76, controller.py:188-189).                         *)
Owed(t) == \E p \in Thread : \E i \in DOMAIN owe[p] : owe[p][i].task = t
InStep ==
    \A t \in Task :
        \/ Owed(t)
        \/ heard[t] = shown[t]
        \/ "queued" \in {heard[t], shown[t]}
        \/ heard[t] = Unlisted /\ shown[t] = "pending"

(* While heartbeats are prompt and nothing is forced, run_done ends the    *)
(* run: after it no thread that was joined does anything, nobody executes  *)
(* a chunk, and what the queue still has are finished chunks, which only a *)
(* thread that drain gave up on has yet to announce and acknowledge        *)
(* (fleet/local.py:52-55, controller.py:142-155).  When drain gave up on   *)
(* none, run_done is the last event (tests/test_events.py:33-34).          *)
Lingering == {w \in givenUp : pc[w] # "off"}
LeftOver == Enqueued \cup inflight
RunDoneLast ==
    finale = "run_done" =>
        /\ \A w \in Worker \ givenUp : ThreadEnded(w)
        /\ Executing = {}
        /\ \A t \in LeftOver : Finished(t) /\ Lingering # {}

(* Whoever has heard run_done has heard of every chunk of the manifest     *)
(* that it succeeded or was skipped, so that the events are enough to      *)
(* follow a run (README.md:105-107); but for chunks that a thread drain    *)
(* gave up on has not acknowledged.                                        *)
AllAnnounced ==
    finale = "run_done" =>
        \A t \in ToSet(manifest) \ LeftOver : t \in concluded

(* A run ends with run_done or run_failed, even if workers die on the way.  *)
EndIsAnnounced == <>(finale \in {"run_done", "run_failed"})
=============================================================================
