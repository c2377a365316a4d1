------------------------------ MODULE SqsQueue ------------------------------
(***************************************************************************)
(* gleanflow/queue/sqs.py over Amazon SQS: the leased task queue of the    *)
(* AWS backend, written like LocalQueue as fragments for other modules to  *)
(* conjoin.  The queue itself is a service outside the repository; it is   *)
(* modelled from how sqs.py and the redrive policy in infra/main.tf.tmpl   *)
(* use it.                                                                 *)
(*                                                                         *)
(* The controller sends one message per task, so a message is its task's   *)
(* key.  A receipt handle is abstracted to the worker process it was given *)
(* to: a process has one task at a time, and only the handle of the latest *)
(* receive still counts.                                                   *)
(***************************************************************************)
EXTENDS Naturals, FiniteSets

CONSTANTS
    Task,           \* the keys of the tasks of the run
    Job,            \* the worker processes that may receive them
    Nobody,         \* no process
    MaxReceives     \* maxReceiveCount of the redrive policy

ASSUME SqsAssumption ==
    /\ IsFiniteSet(Task) /\ IsFiniteSet(Job)
    /\ Nobody \notin Job
    /\ MaxReceives \in Nat \ {0}

VARIABLES
    message,    \* where the message of each task is
    receives,   \* its receive count
    holder      \* the process that received it last

sqsVars == <<message, receives, holder>>

Place == {"unsent", "visible", "hidden", "deleted", "dead"}

SqsTypeOK ==
    /\ message \in [Task -> Place]
    /\ receives \in [Task -> 0 .. MaxReceives]
    /\ holder \in [Task -> Job \cup {Nobody}]

SqsInit ==
    /\ message = [t \in Task |-> "unsent"]
    /\ receives = [t \in Task |-> 0]
    /\ holder = [t \in Task |-> Nobody]

At(place) == {t \in Task : message[t] = place}
Move(t, place) == message' = [message EXCEPT ![t] = place]

-----------------------------------------------------------------------------
(* What the service does by itself. *)

(* The visibility timeout of a received message runs out. *)
TimeOut(t) ==
    /\ message[t] = "hidden"
    /\ Move(t, "visible")
    /\ UNCHANGED <<receives, holder>>

(* The redrive policy moves what was received too often. *)
Redrive(t) ==
    /\ message[t] = "visible"
    /\ receives[t] = MaxReceives
    /\ Move(t, "dead")
    /\ UNCHANGED <<receives, holder>>

-----------------------------------------------------------------------------
(* SqsQueue. *)

Enqueue(t) ==
    /\ message[t] = "unsent"
    /\ Move(t, "visible")
    /\ UNCHANGED <<receives, holder>>

(* Slip: received with no visibility timeout. *)
ClaimShared(t, j) ==
    /\ message[t] = "visible"
    /\ receives[t] < MaxReceives
    /\ receives' = [receives EXCEPT ![t] = @ + 1]
    /\ holder' = [holder EXCEPT ![t] = j]
    /\ UNCHANGED message

(* receive_message, of one message; it hides it for the lease. *)
Claim(t, j) ==
    /\ message[t] = "visible"
    /\ receives[t] < MaxReceives
    /\ Move(t, "hidden")
    /\ receives' = [receives EXCEPT ![t] = @ + 1]
    /\ holder' = [holder EXCEPT ![t] = j]

(* Nothing is received. *)
ClaimNone == \A t \in At("visible") : receives[t] = MaxReceives

(* delete_message.  With a handle that is not the latest any more, the     *)
(* request succeeds and the message may or may not go; it succeeds as well *)
(* when a stale handle has deleted the message or the policy has moved it. *)
Ack(t, j) ==
    /\ \/ /\ message[t] \in {"visible", "hidden"}
          /\ Move(t, "deleted")
       \/ /\ holder[t] # j \/ message[t] \in {"deleted", "dead"}
          /\ UNCHANGED message
    /\ UNCHANGED <<receives, holder>>

(* Slip: requeued by sending it again, so that its receives start over. *)
FailResends(t) ==
    /\ message[t] = "hidden"
    /\ Move(t, "visible")
    /\ receives' = [receives EXCEPT ![t] = 0]
    /\ UNCHANGED holder

(* change_message_visibility to 0 makes the message visible at once; it    *)
(* raises when the message is not in flight any more (FailRaises).         *)
Fail(t) ==
    /\ message[t] = "hidden"
    /\ Move(t, "visible")
    /\ UNCHANGED <<receives, holder>>

FailRaises(t, j) ==
    /\ message[t] # "hidden" \/ holder[t] # j
    /\ UNCHANGED sqsVars

(* What depth() may return: the two counters it adds are approximate, and  *)
(* may lag behind any number of sends, receives and deletes.               *)
DepthReading == 0 .. Cardinality({t \in Task : message[t] # "unsent"})
=============================================================================
