------------------------------ MODULE TaskPlane ------------------------------
(***************************************************************************)
(* What is left of the promise of LeasedQueue when a lease may lapse under  *)
(* a worker that is still alive, so that several workers hold one task at   *)
(* once: at-least-once delivery, a bounded number of times.  A task that    *)
(* was handed over stays owed until it is marked done or dead-lettered, and *)
(* every delivery spends one of the MaxRedeliveries + 1 credits it has.     *)
(***************************************************************************)
EXTENDS Naturals

CONSTANTS Task, MaxRedeliveries

VARIABLES
    owed,       \* tasks handed over, neither done nor dead-lettered
    done,       \* tasks with a completion marker
    dead,       \* dead-lettered tasks
    credit      \* deliveries that may still be made of each task

vars == <<owed, done, dead, credit>>

Init ==
    /\ owed = {}
    /\ done \in SUBSET Task
    /\ dead = {}
    /\ credit = [t \in Task |-> MaxRedeliveries]

HandOver(t) ==
    /\ owed' = owed \cup ({t} \ (done \cup dead))
    /\ credit' = [credit EXCEPT ![t] = @ + 1]
    /\ UNCHANGED <<done, dead>>

(* Expired leases noticed on the way may dead-letter some tasks, at the     *)
(* price of the credit they have left.                                      *)
Bury(S) ==
    /\ dead' = dead \cup S
    /\ owed' = owed \ S

Deliver(t, S) ==
    /\ t \in owed \cup done \cup dead
    /\ credit[t] > 0
    /\ credit' = [credit EXCEPT ![t] = @ - 1]
    /\ Bury(S)
    /\ UNCHANGED done

DeadLetter(S) ==
    /\ Bury(S)
    /\ UNCHANGED <<done, credit>>

Finish(t) ==
    /\ done' = done \cup {t}
    /\ owed' = owed \ {t}
    /\ UNCHANGED <<dead, credit>>

Next ==
    \/ \E t \in Task : HandOver(t) \/ Finish(t)
    \/ \E S \in SUBSET Task : DeadLetter(S) \/ \E t \in Task : Deliver(t, S)

Spec == Init /\ [][Next]_vars
=============================================================================
