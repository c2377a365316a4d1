----------------------------- MODULE LeasedQueue -----------------------------
(***************************************************************************)
(* What gleanflow/queue/base.py and the docstring of queue/local.py promise *)
(* of a task queue: a claimed task is invisible to every other worker until *)
(* its lease expires; an expired or failed delivery makes it visible again  *)
(* and costs one attempt; a task that has used up its redeliveries is       *)
(* dead-lettered; only an acknowledged or dead-lettered task leaves.  A     *)
(* task is therefore always in exactly one place.  Order is no part of the  *)
(* promise.                                                                 *)
(***************************************************************************)
EXTENDS Naturals

CONSTANTS Task, MaxRedeliveries

VARIABLES
    waiting,    \* visible tasks
    leased,     \* claimed tasks
    dead,       \* dead-lettered tasks
    tries       \* deliveries of each task that came to nothing

vars == <<waiting, leased, dead, tries>>

Known == waiting \cup leased \cup dead

Init ==
    /\ waiting = {}
    /\ leased = {}
    /\ dead = {}
    /\ tries = [t \in Task |-> 0]

(* The tasks in S come back, each to be redelivered or dead-lettered. *)
Redeliverable(S) == {t \in S : tries[t] < MaxRedeliveries}
CountTry(S) == tries' = [t \in Task |-> tries[t] + IF t \in S THEN 1 ELSE 0]
Bury(S) == dead' = dead \cup (S \ Redeliverable(S))

Enqueue(t) ==
    /\ t \notin Known
    /\ waiting' = waiting \cup {t}
    /\ UNCHANGED <<leased, dead, tries>>

(* A delivery may first notice the leases in S that have expired. *)
Deliver(S, t) ==
    /\ S \subseteq leased
    /\ t \in waiting \cup Redeliverable(S)
    /\ waiting' = (waiting \cup Redeliverable(S)) \ {t}
    /\ leased' = (leased \ S) \cup {t}
    /\ Bury(S)
    /\ CountTry(S)

GiveBack(S) ==
    /\ S \subseteq leased
    /\ waiting' = waiting \cup Redeliverable(S)
    /\ leased' = leased \ S
    /\ Bury(S)
    /\ CountTry(S)

Complete(t) ==
    /\ t \in leased
    /\ leased' = leased \ {t}
    /\ UNCHANGED <<waiting, dead, tries>>

Next ==
    \/ \E t \in Task : Enqueue(t) \/ Complete(t)
    \/ \E S \in SUBSET leased : GiveBack(S) \/ \E t \in Task : Deliver(S, t)

Spec == Init /\ [][Next]_vars
=============================================================================
