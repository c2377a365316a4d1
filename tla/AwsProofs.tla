----------------------------- MODULE AwsProofs -----------------------------
(***************************************************************************)
(* The AWS backend of AwsStage, for every plan, number of jobs, attempts   *)
(* and receives: whatever is killed and whichever visibility timeouts run  *)
(* out, a message is only deleted for a chunk that is done and a stage     *)
(* that returns is complete; and with prompt heartbeats no chunk has two   *)
(* executors or is computed again.                                         *)
(***************************************************************************)
EXTENDS AwsStage, SequenceProofs

USE DEF JobEnd, Holding

-----------------------------------------------------------------------------
(* The inductive invariant.                                                *)

(* A process gets to its ack only with a task that is done.                *)
DoneAtAck ==
    \A j \in Job : pc[j] \in {"skipAck", "ack"} => HasResult(work[j])

(* A job that has not ended has attempts left.                             *)
Alive == \A j \in Job : pc[j] \notin {"succeeded", "failed"} => lives[j] > 0

(* Every chunk of the plan is done, waited for or kept back.               *)
PlanHeld ==
    /\ cpc = "enqueue" => toEnqueue # <<>>
    /\ ~gate => rest = <<>>
    /\ cpc # "plan" =>
          \A t \in ToSet(Plan) : HasResult(t) \/ t \in active \cup ToSet(rest)

(* With prompt heartbeats the message of a task that is being run is       *)
(* hidden, and its latest receipt is the runner's.                         *)
LeaseHeld ==
    Prompt => \A j \in Job : pc[j] \in Holding =>
                 message[work[j]] = "hidden" /\ holder[work[j]] = j

AwsInv ==
    /\ TypeOK /\ DoneAtAck /\ Alive /\ DeletedIsDone /\ PlanHeld
    /\ ReturnedComplete /\ LeaseHeld /\ (Prompt => NoRecompute)

LEMMA InitAwsInv == ASSUME Init PROVE AwsInv
<1> USE DEF Init, SqsInit, BatchInit
<1>1. SqsTypeOK
  BY SqsAssumption DEF SqsTypeOK, Place
<1>2. BatchTypeOK
  BY BatchAssumption DEF BatchTypeOK
<1>3. TypeOK
  <2>1. {toEnqueue, rest} \subseteq Seq(Task)
    OBVIOUS
  <2>2. 0 \in 0 .. MaxWorkers
    BY AwsAssumption
  <2>3. QED
    BY <1>1, <1>2, <2>1, <2>2 DEF TypeOK, CPC
<1>4. DoneAtAck /\ DeletedIsDone /\ PlanHeld /\ ReturnedComplete
  BY DEF DoneAtAck, DeletedIsDone, At, PlanHeld, ReturnedComplete
<1>5. LeaseHeld /\ NoRecompute /\ Alive
  BY BatchAssumption DEF LeaseHeld, NoRecompute, Alive
<1>6. QED
  BY <1>3, <1>4, <1>5 DEF AwsInv

-----------------------------------------------------------------------------
(* The steps of the worker processes.                                      *)

LEMMA BatchStepType ==
  ASSUME SqsTypeOK, BatchTypeOK, Alive, NEW j \in Job, BatchStep(j)
  PROVE  SqsTypeOK' /\ BatchTypeOK' /\ results \subseteq results'
<1> USE DEF Goto, Drop
<1>0. pc[j] \in Holding => work[j] \in Task
  BY DEF BatchTypeOK
<1>1. ASSUME UNCHANGED sqsVars PROVE SqsTypeOK'
  BY <1>1 DEF SqsTypeOK, sqsVars
<1>2. CASE Boot(j)
  BY <1>1, <1>2 DEF Boot, BatchTypeOK
<1>3. CASE ClaimTask(j)
  <2>1. PICK t \in Task : Claim(t, j) /\ work' = [work EXCEPT ![j] = t]
    BY <1>3 DEF ClaimTask
  <2>2. SqsTypeOK'
    <3>1. receives[t] \in 0 .. MaxReceives /\ receives[t] < MaxReceives
      BY <2>1 DEF Claim, SqsTypeOK
    <3>2. receives[t] + 1 \in 0 .. MaxReceives
      BY <3>1, SqsAssumption
    <3>3. QED
      BY <2>1, <3>2 DEF Claim, Move, SqsTypeOK, Place
  <2>3. BatchTypeOK'
    BY <1>3, <2>1 DEF ClaimTask, BatchTypeOK
  <2>4. QED
    BY <1>3, <2>2, <2>3 DEF ClaimTask
<1>4. CASE IdleExit(j)
  BY <1>1, <1>4 DEF IdleExit, BatchTypeOK
<1>5. CASE Check(j)
  BY <1>1, <1>5 DEF Check, BatchTypeOK
<1>6. CASE Start(j)
  BY <1>0, <1>1, <1>6 DEF Start, BatchTypeOK
<1>7. CASE Publish(j)
  BY <1>0, <1>1, <1>7 DEF Publish, BatchTypeOK
<1>8. CASE Raise(j)
  BY <1>1, <1>8 DEF Raise, BatchTypeOK
<1>9. CASE AckTask(j)
  <2>1. SqsTypeOK'
    BY <1>9 DEF AckTask, Ack, Move, SqsTypeOK, Place
  <2>2. QED
    BY <1>9, <2>1, BatchAssumption DEF AckTask, BatchTypeOK
<1>10. CASE FailTask(j)
  <2>1. SqsTypeOK'
    BY <1>10 DEF FailTask, Fail, Move, SqsTypeOK, Place
  <2>2. QED
    BY <1>10, <2>1, BatchAssumption DEF FailTask, BatchTypeOK
<1>11. ASSUME Die(j), j \in LiveJobs PROVE BatchTypeOK' /\ results \subseteq results'
  <2>1. lives[j] \in 1 .. Attempts
    BY <1>11 DEF BatchTypeOK, Alive, LiveJobs
  <2>2. lives' \in [Job -> 0 .. Attempts]
    BY <1>11, <2>1, BatchAssumption DEF Die, BatchTypeOK
  <2>3. QED
    BY <1>11, <2>2, BatchAssumption DEF Die, BatchTypeOK
<1>12. CASE Crash(j)
  BY <1>1, <1>11, <1>12 DEF Crash
<1>13. CASE FailDies(j)
  BY <1>1, <1>11, <1>13 DEF FailDies, FailRaises, LiveJobs
<1>14. CASE AckRaises(j)
  BY <1>1, <1>14, BatchAssumption DEF AckRaises, BatchTypeOK
<1>15. QED
  BY <1>2, <1>3, <1>4, <1>5, <1>6, <1>7, <1>8, <1>9, <1>10, <1>12, <1>13, <1>14
     DEF BatchStep, BatchProgress

LEMMA BatchStepInv ==
  ASSUME AwsInv, NEW j \in Job, BatchStep(j), UNCHANGED controllerVars
  PROVE  AwsInv'
<1> USE DEF Goto, Drop, HasResult, At
<1>0. /\ SqsTypeOK /\ BatchTypeOK /\ DoneAtAck /\ Alive /\ DeletedIsDone
      /\ LeaseHeld /\ (Prompt => NoRecompute)
      /\ pc \in [Job -> JobEnd \cup {"boot", "poll"} \cup Holding]
      /\ work \in [Job -> Task \cup {NoTask}] /\ lives \in [Job -> 0 .. Attempts]
      /\ \A i \in Job : pc[i] \in Holding <=> work[i] \in Task
      /\ message \in [Task -> Place] /\ holder \in [Task -> Job \cup {Nobody}]
      /\ NoTask \notin Task
  BY BatchAssumption DEF AwsInv, TypeOK, BatchTypeOK, SqsTypeOK
<1>1. SqsTypeOK' /\ BatchTypeOK' /\ results \subseteq results'
  BY <1>0, BatchStepType
<1>2. TypeOK'
  BY <1>1 DEF AwsInv, TypeOK, controllerVars
<1>3. PlanHeld' /\ ReturnedComplete'
  BY <1>1 DEF AwsInv, PlanHeld, ReturnedComplete, controllerVars
<1> DEFINE Rest == /\ DoneAtAck /\ Alive /\ DeletedIsDone
                   /\ LeaseHeld /\ (Prompt => NoRecompute)
<1> SUFFICES Rest'
  BY <1>2, <1>3 DEF AwsInv
<1> USE DEF DoneAtAck, Alive, DeletedIsDone, LeaseHeld, NoRecompute
<1>4. CASE Boot(j)
  BY <1>0, <1>4 DEF Boot, sqsVars
<1>5. CASE ClaimTask(j)
  <2>1. PICK t \in Task : Claim(t, j) /\ work' = [work EXCEPT ![j] = t]
    BY <1>5 DEF ClaimTask
  <2>2. DoneAtAck' /\ Alive' /\ DeletedIsDone'
    BY <1>0, <1>5, <2>1 DEF ClaimTask, Claim, Move
  <2>3. LeaseHeld'
    <3>1. SUFFICES ASSUME Prompt, NEW i \in Job, pc'[i] \in Holding
                   PROVE  message'[work'[i]] = "hidden" /\ holder'[work'[i]] = i
      BY <1>5 DEF ClaimTask
    <3>2. CASE i = j
      BY <1>0, <2>1, <3>2 DEF Claim, Move
    <3>3. CASE i # j
      <4>1. /\ pc[i] \in Holding /\ work'[i] = work[i] /\ work[i] \in Task
            /\ message[work[i]] = "hidden" /\ holder[work[i]] = i
        BY <1>0, <1>5, <2>1, <3>1, <3>3 DEF ClaimTask
      <4>2. work[i] # t
        BY <2>1, <4>1 DEF Claim
      <4>3. QED
        BY <1>0, <2>1, <4>1, <4>2 DEF Claim, Move
    <3>4. QED
      BY <3>2, <3>3
  <2>4. Prompt => NoRecompute'
    BY <1>0, <1>5, <2>1 DEF ClaimTask
  <2>5. QED
    BY <2>2, <2>3, <2>4
<1>6. CASE IdleExit(j)
  BY <1>0, <1>6 DEF IdleExit, sqsVars
<1>7. CASE Check(j)
  BY <1>0, <1>7 DEF Check, sqsVars
<1>8. CASE Start(j)
  BY <1>0, <1>8 DEF Start, sqsVars
<1>9. CASE Publish(j)
  <2>1. DoneAtAck' /\ Alive' /\ DeletedIsDone' /\ LeaseHeld'
    BY <1>0, <1>9 DEF Publish, sqsVars
  <2>2. Prompt => NoRecompute'
    <3>1. SUFFICES ASSUME Prompt, NEW i \in Job,
                          pc'[i] \in {"start", "compute", "nack"}
                   PROVE  work'[i] \notin results'
      BY <1>9 DEF Publish
    <3>2. i # j /\ pc[i] = pc'[i] /\ pc[i] \in Holding /\ pc[j] \in Holding
      BY <1>0, <1>9, <3>1 DEF Publish
    <3>3. work[i] # work[j] /\ work[i] \notin results
      BY <1>0, <3>1, <3>2
    <3>4. QED
      BY <1>9, <3>3 DEF Publish
  <2>3. QED
    BY <2>1, <2>2
<1>10. CASE Raise(j)
  BY <1>0, <1>10 DEF Raise, sqsVars
<1>11. CASE AckTask(j)
  <2>1. /\ work[j] \in Task /\ HasResult(work[j])
        /\ \A i \in Job : i # j => pc'[i] = pc[i] /\ work'[i] = work[i]
        /\ pc'[j] = "poll" /\ lives' = lives /\ results' = results
        /\ holder' = holder
        /\ \A t \in Task : message'[t] # message[t] => t = work[j] /\ message'[t] = "deleted"
    BY <1>0, <1>11 DEF AckTask, Ack, Move
  <2>2. DoneAtAck' /\ Alive' /\ DeletedIsDone' /\ (Prompt => NoRecompute')
    <3>1. DoneAtAck' /\ Alive' /\ DeletedIsDone'
      BY <1>0, <2>1
    <3>2. Prompt => NoRecompute'
      BY <1>0, <2>1
    <3>3. QED
      BY <3>1, <3>2
  <2>3. LeaseHeld'
    <3>1. SUFFICES ASSUME Prompt, NEW i \in Job, pc'[i] \in Holding
                   PROVE  message'[work'[i]] = "hidden" /\ holder'[work'[i]] = i
      BY <1>11 DEF AckTask
    <3>2. i # j /\ pc[i] \in Holding /\ pc[j] \in Holding /\ work[i] \in Task
      BY <1>0, <1>11, <2>1, <3>1 DEF AckTask
    <3>3. work[i] # work[j] /\ message[work[i]] = "hidden" /\ holder[work[i]] = i
      BY <1>0, <3>1, <3>2
    <3>4. QED
      BY <2>1, <3>2, <3>3
  <2>4. QED
    BY <2>2, <2>3
<1>12. CASE FailTask(j)
  <2>1. /\ work[j] \in Task
        /\ \A i \in Job : i # j => pc'[i] = pc[i] /\ work'[i] = work[i]
        /\ pc'[j] = "poll" /\ lives' = lives /\ results' = results
        /\ holder' = holder
        /\ \A t \in Task : message'[t] # message[t] => t = work[j] /\ message'[t] = "visible"
    BY <1>0, <1>12 DEF FailTask, Fail, Move
  <2>2. DoneAtAck' /\ Alive' /\ DeletedIsDone'
    BY <1>0, <2>1
  <2>3. Prompt => NoRecompute'
    BY <1>0, <2>1
  <2>4. LeaseHeld'
    <3>1. SUFFICES ASSUME Prompt, NEW i \in Job, pc'[i] \in Holding
                   PROVE  message'[work'[i]] = "hidden" /\ holder'[work'[i]] = i
      BY <1>12 DEF FailTask
    <3>2. i # j /\ pc[i] \in Holding /\ pc[j] \in Holding /\ work[i] \in Task
      BY <1>0, <1>12, <2>1, <3>1 DEF FailTask
    <3>3. work[i] # work[j] /\ message[work[i]] = "hidden" /\ holder[work[i]] = i
      BY <1>0, <3>1, <3>2
    <3>4. QED
      BY <2>1, <3>2, <3>3
  <2>5. QED
    BY <2>2, <2>3, <2>4
<1>13. ASSUME Die(j), UNCHANGED sqsVars, pc[j] \notin JobEnd PROVE Rest'
  <2>1. /\ \A i \in Job : i # j => /\ pc'[i] = pc[i] /\ work'[i] = work[i]
                                   /\ lives'[i] = lives[i]
        /\ pc'[j] \in {"boot", "failed"} /\ results' = results
        /\ message' = message /\ holder' = holder
    BY <1>0, <1>13 DEF Die, sqsVars
  <2>2. pc'[j] = "boot" => lives'[j] > 0
    BY <1>0, <1>13 DEF Die
  <2>3. Alive'
    BY <1>0, <2>1, <2>2
  <2>4. DoneAtAck' /\ DeletedIsDone'
    BY <1>0, <2>1
  <2>5. LeaseHeld'
    BY <1>0, <2>1
  <2>6. Prompt => NoRecompute'
    BY <1>0, <2>1
  <2>7. QED
    BY <2>3, <2>4, <2>5, <2>6
<1>14. CASE Crash(j)
  BY <1>13, <1>14 DEF Crash, LiveJobs
<1>15. CASE FailDies(j)
  BY <1>13, <1>15 DEF FailDies, FailRaises
<1>16. CASE AckRaises(j)
  BY <1>0, <1>16 DEF AckRaises, sqsVars
<1>17. QED
  BY <1>4, <1>5, <1>6, <1>7, <1>8, <1>9, <1>10, <1>11, <1>12, <1>14, <1>15, <1>16
     DEF BatchStep, BatchProgress

-----------------------------------------------------------------------------
(* The steps of the service.                                               *)

LEMMA ServiceStepInv ==
  ASSUME AwsInv, NEW t \in Task, ServiceStep(t), UNCHANGED controllerVars
  PROVE  AwsInv'
<1> USE DEF HasResult, At
<1>0. /\ SqsTypeOK /\ BatchTypeOK /\ DoneAtAck /\ Alive /\ DeletedIsDone
      /\ LeaseHeld /\ (Prompt => NoRecompute)
      /\ message \in [Task -> Place]
      /\ \A i \in Job : pc[i] \in Holding <=> work[i] \in Task
  BY DEF AwsInv, TypeOK, BatchTypeOK, SqsTypeOK
<1>1. /\ UNCHANGED <<batchVars, receives, holder>>
      /\ \E place \in {"visible", "dead"} :
            message' = [message EXCEPT ![t] = place]
      /\ Prompt => message[t] # "hidden" \/ Running(t) = {}
  BY DEF ServiceStep, LeaseLapses, TimeOut, Redrive, Move
<1>2. SqsTypeOK' /\ BatchTypeOK'
  BY <1>0, <1>1 DEF SqsTypeOK, BatchTypeOK, batchVars, Place
<1>3. TypeOK'
  BY <1>2 DEF AwsInv, TypeOK, controllerVars
<1>4. PlanHeld' /\ ReturnedComplete'
  BY <1>1 DEF AwsInv, PlanHeld, ReturnedComplete, controllerVars, batchVars
<1>5. DoneAtAck' /\ Alive' /\ DeletedIsDone'
  BY <1>0, <1>1 DEF DoneAtAck, Alive, DeletedIsDone, batchVars
<1>6. Prompt => NoRecompute'
  BY <1>0, <1>1 DEF NoRecompute, batchVars
<1>7. LeaseHeld'
  <2>1. SUFFICES ASSUME Prompt, NEW i \in Job, pc[i] \in Holding
                 PROVE  message'[work[i]] = "hidden" /\ holder[work[i]] = i
    BY <1>1 DEF LeaseHeld, batchVars
  <2>2. work[i] \in Task /\ message[work[i]] = "hidden" /\ holder[work[i]] = i
    BY <1>0, <2>1 DEF LeaseHeld
  <2>3. work[i] # t
    BY <1>1, <2>1, <2>2 DEF Running
  <2>4. QED
    BY <1>0, <1>1, <2>2, <2>3
<1>8. QED
  BY <1>3, <1>4, <1>5, <1>6, <1>7 DEF AwsInv

-----------------------------------------------------------------------------
(* The steps of the controller.                                            *)

(* A step that leaves the queue and the workers alone.                     *)
LEMMA Undisturbed ==
  ASSUME AwsInv, UNCHANGED <<sqsVars, batchVars>>
  PROVE  /\ SqsTypeOK' /\ BatchTypeOK' /\ DoneAtAck' /\ Alive' /\ DeletedIsDone'
         /\ LeaseHeld' /\ (Prompt => NoRecompute')
<1> USE DEF AwsInv, TypeOK, sqsVars, batchVars, HasResult, At
<1>1. SqsTypeOK' /\ BatchTypeOK'
  BY DEF SqsTypeOK, BatchTypeOK
<1>2. DoneAtAck' /\ Alive' /\ DeletedIsDone'
  BY DEF DoneAtAck, Alive, DeletedIsDone
<1>3. LeaseHeld' /\ (Prompt => NoRecompute')
  BY DEF LeaseHeld, NoRecompute
<1>4. QED
  BY <1>1, <1>2, <1>3

LEMMA LaunchFacts ==
  ASSUME NEW s \in Seq(Task), NEW back \in Seq(Task), NEW g \in BOOLEAN,
         Launch(s, back, g)
  PROVE  /\ toEnqueue' \in Seq(Task) /\ rest' = back /\ gate' = g
         /\ active' = ToSet(s) /\ active' \subseteq Task
         /\ cpc' \in {"enqueue", "size"}
         /\ cpc' = "enqueue" => toEnqueue' # <<>>
<1>1. \A i \in DOMAIN s : s[i] \in Task
  BY LenProperties, ElementOfSeq
<1>2. ToSet(s) \subseteq Task
  BY <1>1 DEF ToSet
<1>3. QED
  BY <1>2 DEF Launch

LEMMA SingleSet ==
  ASSUME NEW S, NEW e \in S
  PROVE  <<e>> \in Seq(S) /\ ToSet(<<e>>) = {e}
<1> DEFINE s == <<e>>
<1>1. s \in Seq(S) /\ DOMAIN s = 1 .. 1 /\ s[1] = e
  OBVIOUS
<1>2. DOMAIN s = {1}
  BY <1>1
<1>3. ToSet(s) = {e}
  BY <1>1, <1>2 DEF ToSet
<1>4. QED
  BY <1>1, <1>3

LEMMA PlanStageInv ==
  ASSUME AwsInv, PlanStage
  PROVE  AwsInv'
<1> DEFINE pending == Only(Plan, Task \ results)
<1>0. TypeOK /\ PlanHeld /\ Plan \in Seq(Task) /\ cpc = "plan"
  BY AwsAssumption DEF AwsInv, PlanStage
<1>1. pending \in Seq(Task) /\ ToSet(pending) = ToSet(Plan) \cap (Task \ results)
  BY <1>0, OnlyFacts
<1>2. ToSet(Plan) \subseteq Task
  <2>1. \A i \in DOMAIN Plan : Plan[i] \in Task
    BY <1>0, LenProperties, ElementOfSeq
  <2>2. QED
    BY <2>1 DEF ToSet
<1>3. \A t \in ToSet(Plan) : t \in results \/ t \in ToSet(pending)
  BY <1>1, <1>2
<1>4. /\ SqsTypeOK' /\ BatchTypeOK' /\ DoneAtAck' /\ Alive' /\ DeletedIsDone'
      /\ LeaseHeld' /\ (Prompt => NoRecompute')
  BY Undisturbed DEF PlanStage
<1>5. want' \in 0 .. MaxWorkers /\ results' = results
  BY <1>0 DEF PlanStage, TypeOK, batchVars
<1>6. shown' \in [Task -> {"pending", "queued", "running", "success", "skipped"}]
  BY <1>0 DEF PlanStage, TypeOK
<1>7. /\ cpc' \in CPC /\ {toEnqueue', rest'} \subseteq Seq(Task)
      /\ gate' \in BOOLEAN /\ active' \subseteq Task
      /\ PlanHeld' /\ ReturnedComplete'
  <2>1. CASE pending = <<>> /\ cpc' = "returned"
             /\ UNCHANGED <<toEnqueue, rest, gate, active>>
    <3>1. ToSet(pending) = {}
      BY <2>1 DEF ToSet
    <3>2. ToSet(Plan) \subseteq results'
      BY <1>3, <1>5, <3>1
    <3>3. QED
      BY <1>0, <2>1, <3>2
         DEF TypeOK, CPC, Ended, PlanHeld, ReturnedComplete, HasResult
  <2>2. CASE Len(pending) > 1 /\ Launch(<<Head(pending)>>, Tail(pending), TRUE)
    <3>1. pending # <<>>
      BY <2>2
    <3>2. /\ Head(pending) \in Task /\ Tail(pending) \in Seq(Task)
          /\ ToSet(pending) = {Head(pending)} \cup ToSet(Tail(pending))
      BY <1>1, <3>1, HeadTailSet
    <3>3. <<Head(pending)>> \in Seq(Task) /\ ToSet(<<Head(pending)>>) = {Head(pending)}
      BY <3>2, SingleSet
    <3>4. /\ toEnqueue' \in Seq(Task) /\ rest' = Tail(pending) /\ gate' = TRUE
          /\ active' = {Head(pending)} /\ active' \subseteq Task
          /\ cpc' \in {"enqueue", "size"}
          /\ cpc' = "enqueue" => toEnqueue' # <<>>
      BY <2>2, <3>2, <3>3, LaunchFacts
    <3>5. \A t \in ToSet(Plan) : t \in results' \/ t \in active' \cup ToSet(rest')
      BY <1>3, <1>5, <3>2, <3>4
    <3>6. PlanHeld' /\ ReturnedComplete'
      BY <3>4, <3>5 DEF PlanHeld, ReturnedComplete, HasResult
    <3>7. cpc' \in CPC
      BY <3>4 DEF CPC
    <3>8. QED
      BY <3>2, <3>4, <3>6, <3>7
  <2>3. CASE Launch(pending, <<>>, FALSE)
    <3>1. /\ toEnqueue' \in Seq(Task) /\ rest' = <<>> /\ gate' = FALSE
          /\ active' = ToSet(pending) /\ active' \subseteq Task
          /\ cpc' \in {"enqueue", "size"}
          /\ cpc' = "enqueue" => toEnqueue' # <<>>
      <4>1. <<>> \in Seq(Task)
        OBVIOUS
      <4>2. QED
        BY <1>1, <2>3, <4>1, LaunchFacts
    <3>2. \A t \in ToSet(Plan) : t \in results' \/ t \in active' \cup ToSet(rest')
      BY <1>3, <1>5, <3>1
    <3>3. PlanHeld' /\ ReturnedComplete'
      BY <3>1, <3>2 DEF PlanHeld, ReturnedComplete, HasResult
    <3>4. cpc' \in CPC
      BY <3>1 DEF CPC
    <3>5. <<>> \in Seq(Task) /\ FALSE \in BOOLEAN
      OBVIOUS
    <3>6. QED
      BY <3>1, <3>3, <3>4, <3>5
  <2>4. QED
    BY <2>1, <2>2, <2>3 DEF PlanStage
<1>8. TypeOK'
  BY <1>4, <1>5, <1>6, <1>7 DEF TypeOK
<1>9. QED
  BY <1>4, <1>7, <1>8 DEF AwsInv

LEMMA EnqueueNextInv ==
  ASSUME AwsInv, EnqueueNext
  PROVE  AwsInv'
<1> USE DEF HasResult, At
<1> DEFINE h == Head(toEnqueue)
<1>0. /\ TypeOK /\ SqsTypeOK /\ BatchTypeOK /\ DoneAtAck /\ Alive
      /\ DeletedIsDone /\ PlanHeld /\ LeaseHeld /\ (Prompt => NoRecompute)
      /\ toEnqueue \in Seq(Task) /\ cpc = "enqueue" /\ toEnqueue # <<>>
      /\ UNCHANGED <<batchVars, rest, gate, active, want, receives, holder>>
  BY DEF AwsInv, TypeOK, PlanHeld, EnqueueNext, Enqueue
<1>1. h \in Task /\ Tail(toEnqueue) \in Seq(Task)
  BY <1>0, HeadTailSet
<1>2. /\ message[h] = "unsent" /\ message' = [message EXCEPT ![h] = "visible"]
      /\ toEnqueue' = Tail(toEnqueue)
      /\ shown' = [shown EXCEPT ![h] = "queued"]
      /\ cpc' = IF Tail(toEnqueue) = <<>> THEN "size" ELSE "enqueue"
  BY DEF EnqueueNext, Enqueue, Move
<1>3. SqsTypeOK' /\ BatchTypeOK'
  BY <1>0, <1>1, <1>2 DEF SqsTypeOK, BatchTypeOK, batchVars, Place
<1>4. TypeOK'
  <2>1. cpc' \in CPC
    BY <1>2 DEF CPC
  <2>2. shown' \in [Task -> {"pending", "queued", "running", "success", "skipped"}]
    BY <1>0, <1>1, <1>2 DEF TypeOK
  <2>3. QED
    BY <1>0, <1>1, <1>2, <1>3, <2>1, <2>2 DEF TypeOK
<1>5. DoneAtAck' /\ Alive' /\ DeletedIsDone' /\ (Prompt => NoRecompute')
  <2>1. DoneAtAck' /\ Alive' /\ DeletedIsDone'
    BY <1>0, <1>1, <1>2 DEF DoneAtAck, Alive, DeletedIsDone, batchVars, SqsTypeOK
  <2>2. Prompt => NoRecompute'
    BY <1>0 DEF NoRecompute, batchVars
  <2>3. QED
    BY <2>1, <2>2
<1>6. LeaseHeld'
  BY <1>0, <1>1, <1>2 DEF LeaseHeld, batchVars, SqsTypeOK, BatchTypeOK
<1>7. PlanHeld' /\ ReturnedComplete'
  <2>1. \A t \in ToSet(Plan) : t \in results' \/ t \in active' \cup ToSet(rest')
    BY <1>0 DEF PlanHeld, batchVars
  <2>2. QED
    BY <1>0, <1>2, <2>1 DEF PlanHeld, ReturnedComplete
<1>8. QED
  BY <1>4, <1>5, <1>6, <1>7 DEF AwsInv

LEMMA EnsureFleetInv ==
  ASSUME AwsInv, EnsureFleet
  PROVE  AwsInv'
<1> USE DEF HasResult, At
<1>0. /\ TypeOK /\ SqsTypeOK /\ BatchTypeOK /\ DoneAtAck /\ Alive
      /\ DeletedIsDone /\ PlanHeld /\ LeaseHeld /\ (Prompt => NoRecompute)
      /\ UNCHANGED <<sqsVars, toEnqueue, rest, gate, active, shown>>
      /\ UNCHANGED <<lives, work, results, runmarks>>
      /\ cpc' \in {"depth", "refresh"} /\ want' = 0
      /\ \A j \in Job : pc[j] \in Holding <=> work[j] \in Task
  BY DEF AwsInv, TypeOK, BatchTypeOK, EnsureFleet, SubmitJobs
<1>1. PICK S \in SUBSET {j \in Job : pc[j] = "unsubmitted"} :
         pc' = [j \in Job |-> IF j \in S THEN "boot" ELSE pc[j]]
  BY DEF EnsureFleet, SubmitJobs
<1>2. SqsTypeOK' /\ BatchTypeOK'
  <2>1. SqsTypeOK'
    BY <1>0 DEF SqsTypeOK, sqsVars
  <2>2. BatchTypeOK'
    BY <1>0, <1>1 DEF BatchTypeOK
  <2>3. QED
    BY <2>1, <2>2
<1>3. TypeOK'
  <2>1. cpc' \in CPC
    BY <1>0 DEF CPC
  <2>2. want' \in 0 .. MaxWorkers
    BY <1>0, AwsAssumption
  <2>3. QED
    BY <1>0, <1>2, <2>1, <2>2 DEF TypeOK
<1>4. DoneAtAck' /\ Alive' /\ DeletedIsDone'
  BY <1>0, <1>1 DEF DoneAtAck, Alive, DeletedIsDone, sqsVars
<1>5. LeaseHeld'
  BY <1>0, <1>1 DEF LeaseHeld, sqsVars
<1>6. Prompt => NoRecompute'
  BY <1>0, <1>1 DEF NoRecompute, sqsVars
<1>7. PlanHeld' /\ ReturnedComplete'
  <2>1. \A t \in ToSet(Plan) : t \in results' \/ t \in active' \cup ToSet(rest')
    BY <1>0 DEF PlanHeld, EnsureFleet
  <2>2. QED
    BY <1>0, <2>1 DEF PlanHeld, ReturnedComplete
<1>8. QED
  BY <1>3, <1>4, <1>5, <1>6, <1>7 DEF AwsInv

LEMMA CheckDoneInv ==
  ASSUME AwsInv, CheckDone
  PROVE  AwsInv'
<1> USE DEF HasResult
<1>0. /\ TypeOK /\ PlanHeld /\ rest \in Seq(Task) /\ gate \in BOOLEAN
      /\ UNCHANGED <<sqsVars, batchVars, want, shown>> /\ cpc = "done"
      /\ results' = results
      /\ \A t \in ToSet(Plan) : t \in results \/ t \in active \cup ToSet(rest)
  BY DEF AwsInv, TypeOK, PlanHeld, CheckDone, Conclude, batchVars
<1>1. /\ SqsTypeOK' /\ BatchTypeOK' /\ DoneAtAck' /\ Alive' /\ DeletedIsDone'
      /\ LeaseHeld' /\ (Prompt => NoRecompute')
  BY <1>0, Undisturbed
<1>2. /\ cpc' \in CPC /\ toEnqueue' \in Seq(Task) /\ rest' \in Seq(Task)
      /\ gate' \in BOOLEAN /\ active' \subseteq Task
      /\ PlanHeld' /\ ReturnedComplete'
  <2>1. CASE /\ cpc' \in {"depth", "guard"}
             /\ UNCHANGED <<toEnqueue, rest, gate, active>>
    <3>1. \A t \in ToSet(Plan) : t \in results' \/ t \in active' \cup ToSet(rest')
      BY <1>0, <2>1
    <3>2. PlanHeld' /\ ReturnedComplete'
      BY <1>0, <2>1, <3>1 DEF PlanHeld, ReturnedComplete
    <3>3. cpc' \in CPC
      BY <2>1 DEF CPC
    <3>4. QED
      BY <1>0, <2>1, <3>2, <3>3 DEF TypeOK
  <2>2. CASE (\A t \in active : t \in results) /\ gate /\ Launch(rest, <<>>, FALSE)
    <3>1. /\ toEnqueue' \in Seq(Task) /\ rest' = <<>> /\ gate' = FALSE
          /\ active' = ToSet(rest) /\ active' \subseteq Task
          /\ cpc' \in {"enqueue", "size"}
          /\ cpc' = "enqueue" => toEnqueue' # <<>>
      <4>1. <<>> \in Seq(Task)
        OBVIOUS
      <4>2. QED
        BY <1>0, <2>2, <4>1, LaunchFacts
    <3>2. \A t \in ToSet(Plan) : t \in results' \/ t \in active' \cup ToSet(rest')
      BY <1>0, <2>2, <3>1
    <3>3. PlanHeld' /\ ReturnedComplete'
      BY <3>1, <3>2 DEF PlanHeld, ReturnedComplete
    <3>4. cpc' \in CPC
      BY <3>1 DEF CPC
    <3>5. <<>> \in Seq(Task) /\ FALSE \in BOOLEAN
      OBVIOUS
    <3>6. QED
      BY <3>1, <3>3, <3>4, <3>5
  <2>3. CASE /\ \A t \in active : t \in results
             /\ ~gate /\ cpc' = "returned"
             /\ UNCHANGED <<toEnqueue, rest, gate, active>>
    <3>1. rest = <<>>
      BY <1>0, <2>3 DEF PlanHeld
    <3>2. ToSet(rest) = {}
      BY <3>1 DEF ToSet
    <3>3. ToSet(Plan) \subseteq results'
      BY <1>0, <2>3, <3>2
    <3>4. PlanHeld' /\ ReturnedComplete'
      BY <1>0, <2>3, <3>1, <3>3 DEF PlanHeld, ReturnedComplete
    <3>5. cpc' \in CPC
      BY <2>3 DEF CPC, Ended
    <3>6. QED
      BY <1>0, <2>3, <3>4, <3>5 DEF TypeOK
  <2>4. QED
    BY <2>1, <2>2, <2>3 DEF CheckDone, Conclude
<1>3. TypeOK'
  BY <1>0, <1>1, <1>2 DEF TypeOK
<1>4. QED
  BY <1>1, <1>2, <1>3 DEF AwsInv

(* Steps that only move the controller on, or ask for a fleet size.        *)
LEMMA QuietStepInv ==
  ASSUME AwsInv, SizeFleet \/ ReadDepth \/ DeadlineStrikes \/ Refresh \/ Guard
  PROVE  AwsInv'
<1> USE DEF HasResult
<1>0. /\ TypeOK /\ PlanHeld
      /\ UNCHANGED <<sqsVars, batchVars, toEnqueue, rest, gate, active>>
      /\ cpc' \in {"grow", "refresh", "ensure", "timedOut", "done", "dying", "depth"}
      /\ cpc # "plan" /\ results' = results
  BY DEF AwsInv, SizeFleet, ReadDepth, DeadlineStrikes, Refresh, Guard, batchVars
<1>1. /\ SqsTypeOK' /\ BatchTypeOK' /\ DoneAtAck' /\ Alive' /\ DeletedIsDone'
      /\ LeaseHeld' /\ (Prompt => NoRecompute')
  BY <1>0, Undisturbed
<1>2. want' \in 0 .. MaxWorkers
  <2>1. MaxWorkers \in Nat \ {0} /\ want \in 0 .. MaxWorkers
    BY <1>0, AwsAssumption DEF TypeOK
  <2>2. \A n \in Nat : Least(MaxWorkers, n) \in 0 .. MaxWorkers
    BY <2>1 DEF Least
  <2>3. DepthReading \subseteq Nat
    BY DEF DepthReading
  <2>4. CASE SizeFleet
    <3>1. PICK depth \in DepthReading :
             want' = IF gate THEN 1 ELSE Least(MaxWorkers, Most(1, depth))
      BY <2>4 DEF SizeFleet
    <3>2. Most(1, depth) \in Nat
      BY <2>3 DEF Most
    <3>3. QED
      BY <2>1, <2>2, <3>1, <3>2
  <2>5. CASE ReadDepth
    <3>1. Cardinality(LiveJobs) \in Nat
      BY SqsAssumption, FS_Subset, FS_CardinalityType DEF LiveJobs
    <3>2. PICK depth \in DepthReading :
             UNCHANGED want \/ want' = Least(MaxWorkers, depth + Cardinality(LiveJobs))
      BY <2>5 DEF ReadDepth
    <3>3. depth + Cardinality(LiveJobs) \in Nat
      BY <2>3, <3>1
    <3>4. QED
      BY <2>1, <2>2, <3>2, <3>3
  <2>6. QED
    BY <2>1, <2>4, <2>5 DEF DeadlineStrikes, Refresh, Guard
<1>3. shown' \in [Task -> {"pending", "queued", "running", "success", "skipped"}]
  BY <1>0 DEF TypeOK, SizeFleet, ReadDepth, DeadlineStrikes, Refresh, Guard
<1>4. cpc' \in CPC
  BY <1>0 DEF CPC, Ended
<1>5. TypeOK'
  BY <1>0, <1>1, <1>2, <1>3, <1>4 DEF TypeOK
<1>6. PlanHeld' /\ ReturnedComplete'
  <2>1. \A t \in ToSet(Plan) : t \in results' \/ t \in active' \cup ToSet(rest')
    BY <1>0 DEF PlanHeld
  <2>2. QED
    BY <1>0, <2>1 DEF PlanHeld, ReturnedComplete
<1>7. QED
  BY <1>1, <1>5, <1>6 DEF AwsInv

-----------------------------------------------------------------------------
LEMMA StepAwsInv ==
  ASSUME AwsInv, [Next]_vars
  PROVE  AwsInv'
<1>1. CASE ControllerStep \/ DeadlineStrikes
  BY <1>1, PlanStageInv, EnqueueNextInv, EnsureFleetInv, CheckDoneInv, QuietStepInv
     DEF ControllerStep
<1>2. CASE \E j \in Job : BatchStep(j) /\ UNCHANGED controllerVars
  BY <1>2, BatchStepInv
<1>3. CASE \E t \in Task : ServiceStep(t) /\ UNCHANGED controllerVars
  BY <1>3, ServiceStepInv
<1>4. CASE UNCHANGED vars
  <2>1. UNCHANGED <<sqsVars, batchVars, controllerVars>>
    BY <1>4 DEF vars
  <2>2. TypeOK'
    BY <2>1, Undisturbed DEF AwsInv, TypeOK, controllerVars
  <2>3. PlanHeld' /\ ReturnedComplete'
    BY <2>1 DEF AwsInv, PlanHeld, ReturnedComplete, HasResult, controllerVars, batchVars
  <2>4. QED
    BY <2>1, <2>2, <2>3, Undisturbed DEF AwsInv
<1>5. QED
  BY <1>1, <1>2, <1>3, <1>4 DEF Next

LEMMA AwsInvariant == Spec => []AwsInv
<1>1. QED
  BY InitAwsInv, StepAwsInv, PTL DEF Spec

(* Every variable of a stage on AWS keeps to its range (queue/sqs.py,      *)
(* worker.py, fleet/batch.py, controller.py:84-257).                       *)
THEOREM AwsTypeCorrect == Spec => []TypeOK
<1>1. AwsInv => TypeOK
  BY DEF AwsInv
<1>2. QED
  BY <1>1, AwsInvariant, PTL

(* Whatever is killed and whichever visibility timeouts run out, a message *)
(* is only deleted once its chunk is done (worker.py:61-67, sqs.py:48-51). *)
THEOREM OnlyDoneIsDeleted == Spec => []DeletedIsDone
<1>1. AwsInv => DeletedIsDone
  BY DEF AwsInv
<1>2. QED
  BY <1>1, AwsInvariant, PTL

(* A stage that returns has a completion marker for every chunk of its     *)
(* plan, for every plan and every number of jobs (controller.py:225-227).  *)
THEOREM AwsReturnsComplete == Spec => []ReturnedComplete
<1>1. AwsInv => ReturnedComplete
  BY DEF AwsInv
<1>2. QED
  BY <1>1, AwsInvariant, PTL

(* With prompt heartbeats no chunk is run by two processes, however many   *)
(* there are and whichever of them are killed (worker.py:3-7).             *)
THEOREM OneExecutorAtATime == Spec => [](Prompt => OneExecutor)
<1>1. AwsInv => (Prompt => OneExecutor)
  <2>1. SUFFICES ASSUME AwsInv, Prompt, NEW t \in Task,
                        NEW i \in Running(t), NEW j \in Running(t)
                 PROVE  i = j
    BY DEF OneExecutor
  <2>2. \A k \in Running(t) : k \in Job /\ work[k] = t /\ pc[k] \in Holding
    BY <2>1 DEF AwsInv, TypeOK, BatchTypeOK, Running
  <2>3. \A k \in Running(t) : holder[t] = k
    BY <2>1, <2>2 DEF AwsInv, LeaseHeld
  <2>4. QED
    BY <2>3
<1>2. QED
  BY <1>1, AwsInvariant, PTL

(* With prompt heartbeats a chunk that is done is not computed again: a    *)
(* process killed between its marker and its ack costs a redelivery that   *)
(* is skipped (worker.py:27-32).                                           *)
THEOREM DoneIsNotRecomputed == Spec => [](Prompt => NoRecompute)
<1>1. AwsInv => (Prompt => NoRecompute)
  BY DEF AwsInv
<1>2. QED
  BY <1>1, AwsInvariant, PTL

-----------------------------------------------------------------------------
(* SQS and its worker processes as the queue of base.py.                   *)

(* A message has been received as often as its receipts say.               *)
Counting == \A t \in Task : message[t] = "unsent" => receives[t] = 0

(* What moves a message while heartbeats are prompt.                       *)
Received(t) ==
    /\ message[t] = "visible" /\ receives[t] < MaxReceives
    /\ message' = [message EXCEPT ![t] = "hidden"]
    /\ receives' = [receives EXCEPT ![t] = @ + 1]
Moved(t, from, to) ==
    /\ message[t] = from
    /\ message' = [message EXCEPT ![t] = to]
    /\ receives' = receives

LEMMA MessageMoves ==
  ASSUME AwsInv, Prompt, [Next]_vars
  PROVE  \/ UNCHANGED <<message, receives>>
         \/ \E t \in Task :
               \/ Moved(t, "unsent", "visible") \/ Received(t)
               \/ Moved(t, "hidden", "deleted") \/ Moved(t, "hidden", "visible")
               \/ Moved(t, "visible", "dead") /\ receives[t] = MaxReceives
<1> DEFINE Goal == \/ UNCHANGED <<message, receives>>
                   \/ \E t \in Task :
                         \/ Moved(t, "unsent", "visible") \/ Received(t)
                         \/ Moved(t, "hidden", "deleted") \/ Moved(t, "hidden", "visible")
                         \/ Moved(t, "visible", "dead") /\ receives[t] = MaxReceives
<1>0. /\ TypeOK /\ BatchTypeOK /\ LeaseHeld
  BY DEF AwsInv, TypeOK
<1>1. CASE EnqueueNext
  <2>1. cpc = "enqueue" /\ toEnqueue \in Seq(Task) /\ toEnqueue # <<>>
    BY <1>1 DEF EnqueueNext, AwsInv, TypeOK, PlanHeld
  <2>2. PICK t \in Task : t = Head(toEnqueue)
    BY <2>1, HeadTailProperties
  <2>3. Moved(t, "unsent", "visible")
    BY <1>1, <2>2 DEF EnqueueNext, Enqueue, Move, Moved
  <2>4. QED
    BY <2>3
<1>2. CASE (ControllerStep /\ ~EnqueueNext) \/ DeadlineStrikes \/ UNCHANGED vars
  BY <1>2 DEF ControllerStep, PlanStage, SizeFleet, EnsureFleet, ReadDepth, Refresh,
     CheckDone, Conclude, Guard, DeadlineStrikes, vars, sqsVars
<1>3. ASSUME NEW j \in Job, BatchStep(j) PROVE Goal
  <2>1. CASE ClaimTask(j)
    <3>1. PICK t \in Task : Claim(t, j)
      BY <2>1 DEF ClaimTask
    <3>2. Received(t)
      BY <3>1 DEF Claim, Move, Received
    <3>3. QED
      BY <3>2
  <2>2. CASE AckTask(j)
    <3>1. PICK t \in Task : t = work[j] /\ message[t] = "hidden" /\ holder[t] = j
      BY <1>0, <2>2 DEF AckTask, LeaseHeld, BatchTypeOK
    <3>2. Moved(t, "hidden", "deleted") \/ UNCHANGED <<message, receives>>
      BY <2>2, <3>1 DEF AckTask, Ack, Move, Moved
    <3>3. QED
      BY <3>2
  <2>3. CASE FailTask(j)
    <3>1. PICK t \in Task : t = work[j]
      BY <1>0, <2>3 DEF FailTask, BatchTypeOK
    <3>2. Moved(t, "hidden", "visible")
      BY <2>3, <3>1 DEF FailTask, Fail, Move, Moved
    <3>3. QED
      BY <3>2
  <2>4. CASE ~ClaimTask(j) /\ ~AckTask(j) /\ ~FailTask(j)
    BY <1>3, <2>4 DEF BatchStep, BatchProgress, Boot, Check, Start, Publish, FailDies,
       FailRaises, IdleExit, Raise, AckRaises, Crash, sqsVars
  <2>5. QED
    BY <2>1, <2>2, <2>3, <2>4
<1>4. ASSUME NEW t \in Task, ServiceStep(t) PROVE Goal
  BY <1>4 DEF ServiceStep, LeaseLapses, TimeOut, Redrive, Move, Moved
<1>5. QED
  BY <1>1, <1>2, <1>3, <1>4 DEF Next

LEMMA NextCounting ==
  ASSUME AwsInv, Prompt, Counting, [Next]_vars PROVE Counting'
<1>1. message \in [Task -> Place] /\ receives \in [Task -> 0 .. MaxReceives]
  BY DEF AwsInv, TypeOK, SqsTypeOK
<1>2. QED
  BY <1>1, MessageMoves DEF Counting, Moved, Received

(* The places of the abstract queue, message by message.                   *)
LEMMA LeasedPlaces ==
  /\ \A t : t \in At("visible") \ Spent <=>
        t \in Task /\ message[t] = "visible" /\ receives[t] # MaxReceives
  /\ \A t : t \in At("hidden") <=> t \in Task /\ message[t] = "hidden"
  /\ \A t : t \in At("dead") \cup Spent <=>
        /\ t \in Task
        /\ \/ message[t] = "dead"
           \/ message[t] = "visible" /\ receives[t] = MaxReceives
BY DEF At, Spent

(* The abstract queue's waiting, leased, dead and tries, as Leased maps     *)
(* them.                                                                    *)
Waits == At("visible") \ Spent
Leases == At("hidden")
Buried == At("dead") \cup Spent
Tries == [t \in Task |-> receives[t] - IF t \in At("hidden") \cup At("deleted") THEN 1 ELSE 0]

(* What becomes of them in a step.                                         *)
LEMMA LeasedMoves ==
  ASSUME AwsInv, Prompt, Counting, [Next]_vars
  PROVE  [Leased!Next]_Leased!vars
<1>0. /\ message \in [Task -> Place] /\ receives \in [Task -> 0 .. MaxReceives]
      /\ MaxReceives \in Nat \ {0}
  BY SqsAssumption DEF AwsInv, TypeOK, SqsTypeOK
<1>1. /\ \A t : t \in Waits <=> t \in Task /\ message[t] = "visible" /\ receives[t] # MaxReceives
      /\ \A t : t \in Leases <=> t \in Task /\ message[t] = "hidden"
      /\ \A t : t \in Buried <=>
            /\ t \in Task
            /\ \/ message[t] = "dead"
               \/ message[t] = "visible" /\ receives[t] = MaxReceives
  BY LeasedPlaces DEF Waits, Leases, Buried
<1>2. /\ \A t : t \in Waits' <=>
            t \in Task /\ message'[t] = "visible" /\ receives'[t] # MaxReceives
      /\ \A t : t \in Leases' <=> t \in Task /\ message'[t] = "hidden"
      /\ \A t : t \in Buried' <=>
            /\ t \in Task
            /\ \/ message'[t] = "dead"
               \/ message'[t] = "visible" /\ receives'[t] = MaxReceives
  BY DEF Waits, Leases, Buried, At, Spent
<1>3. /\ Tries = [t \in Task |-> IF message[t] \in {"hidden", "deleted"} THEN receives[t] - 1
                             ELSE receives[t]]
      /\ Tries' = [t \in Task |-> IF message'[t] \in {"hidden", "deleted"} THEN receives'[t] - 1
                              ELSE receives'[t] - 0]
  <2>1. \A t \in Task : receives[t] - 0 = receives[t]
    BY <1>0
  <2>2. QED
    BY <2>1 DEF Tries, At
<1>4. CASE UNCHANGED <<message, receives>>
  <2>1. Leased!vars' = Leased!vars
    BY <1>4 DEF Leased!vars, At, Spent
  <2>2. QED
    BY <2>1
<1>5. ASSUME Waits' = Waits, Leases' = Leases, Buried' = Buried, Tries' = Tries PROVE [Leased!Next]_Leased!vars
  <2>1. Leased!vars' = Leased!vars
    BY <1>5 DEF Leased!vars, Waits, Leases, Buried, Tries
  <2>2. QED
    BY <2>1
<1>6. ASSUME NEW t \in Task, Moved(t, "unsent", "visible")
      PROVE  [Leased!Next]_Leased!vars
  <2>1. receives[t] = 0 /\ receives' = receives
    BY <1>6 DEF Counting, Moved
  <2>2. t \notin Waits \cup Leases \cup Buried
    BY <1>1, <1>6 DEF Moved
  <2>3. Waits' = Waits \cup {t} /\ Leases' = Leases /\ Buried' = Buried
    BY <1>0, <1>1, <1>2, <1>6, <2>1 DEF Moved
  <2>4. Tries' = Tries
    BY <1>0, <1>3, <1>6 DEF Moved
  <2>5. Leased!Enqueue(t)
    BY <2>2, <2>3, <2>4 DEF Leased!Enqueue, Leased!Known, Waits, Leases, Buried, Tries
  <2>6. QED
    BY <2>5 DEF Leased!Next
<1>7. ASSUME NEW t \in Task, Moved(t, "hidden", "deleted")
      PROVE  [Leased!Next]_Leased!vars
  <2>1. t \in Leases /\ Leases' = Leases \ {t} /\ Waits' = Waits /\ Buried' = Buried
    BY <1>0, <1>1, <1>2, <1>7 DEF Moved
  <2>2. Tries' = Tries
    BY <1>0, <1>3, <1>7 DEF Moved
  <2>3. Leased!Complete(t)
    BY <2>1, <2>2 DEF Leased!Complete, Waits, Leases, Buried, Tries
  <2>4. QED
    BY <2>3 DEF Leased!Next
<1>8. ASSUME NEW t \in Task, Moved(t, "visible", "dead"), receives[t] = MaxReceives
      PROVE  [Leased!Next]_Leased!vars
  <2>1. Waits' = Waits /\ Leases' = Leases /\ Buried' = Buried
    BY <1>0, <1>1, <1>2, <1>8 DEF Moved
  <2>2. Tries' = Tries
    BY <1>0, <1>3, <1>8 DEF Moved
  <2>3. QED
    BY <1>5, <2>1, <2>2
<1>9. ASSUME NEW t \in Task, Received(t)
      PROVE  [Leased!Next]_Leased!vars
  <2>0. /\ message[t] = "visible" /\ receives[t] # MaxReceives /\ message'[t] = "hidden"
        /\ \A u \in Task \ {t} : message'[u] = message[u] /\ receives'[u] = receives[u]
    BY <1>0, <1>9 DEF Received
  <2>1. t \in Waits /\ t \notin Leases /\ Waits' = Waits \ {t} /\ Leases' = Leases \cup {t} /\ Buried' = Buried
    <3>1. t \in Waits /\ t \notin Leases /\ t \notin Buried
      BY <1>1, <2>0
    <3>2. t \notin Waits' /\ t \in Leases' /\ t \notin Buried'
      BY <1>2, <2>0
    <3>3. \A u : u # t => (u \in Waits' <=> u \in Waits) /\ (u \in Leases' <=> u \in Leases)
                           /\ (u \in Buried' <=> u \in Buried)
      BY <1>1, <1>2, <2>0
    <3>4. QED
      BY <3>1, <3>2, <3>3
  <2>2. \A u \in Task : Tries'[u] = Tries[u] + 0
    BY <1>0, <1>3, <1>9 DEF Received
  <2>3. Tries' = [u \in Task |-> Tries[u] + IF u \in {} THEN 1 ELSE 0]
    BY <1>3, <2>2
  <2>4. Leased!Redeliverable({}) = {}
    BY DEF Leased!Redeliverable
  <2>5. Leased!CountTry({})
    BY <2>3 DEF Leased!CountTry, Tries
  <2>6. Leased!Bury({})
    BY <2>1, <2>4 DEF Leased!Bury, Buried
  <2>7. /\ {} \subseteq Leases /\ t \in Waits \cup {}
        /\ Waits' = (Waits \cup {}) \ {t} /\ Leases' = (Leases \ {}) \cup {t}
    BY <2>1
  <2>8. Leased!Deliver({}, t)
    BY <2>4, <2>5, <2>6, <2>7 DEF Leased!Deliver, Waits, Leases
  <2>9. QED
    BY <2>8 DEF Leased!Next
<1>10. ASSUME NEW t \in Task, Moved(t, "hidden", "visible")
       PROVE  [Leased!Next]_Leased!vars
  <2>1. /\ t \in Leases /\ Leases' = Leases \ {t} /\ t \notin Waits /\ t \notin Buried
        /\ Waits' = IF receives[t] = MaxReceives THEN Waits ELSE Waits \cup {t}
        /\ Buried' = IF receives[t] = MaxReceives THEN Buried \cup {t} ELSE Buried
    BY <1>0, <1>1, <1>2, <1>10 DEF Moved
  <2>2. Tries[t] = receives[t] - 1
    BY <1>3, <1>10 DEF Moved
  <2>3. Tries[t] < MaxReceives - 1 <=> receives[t] # MaxReceives
    BY <1>0, <2>2
  <2>4. Leased!Redeliverable({t}) = IF receives[t] = MaxReceives THEN {} ELSE {t}
    BY <2>3 DEF Leased!Redeliverable, Tries
  <2>5. Waits' = Waits \cup Leased!Redeliverable({t}) /\ Buried' = Buried \cup ({t} \ Leased!Redeliverable({t}))
    BY <2>1, <2>4
  <2>6. \A u \in Task : Tries'[u] = Tries[u] + IF u \in {t} THEN 1 ELSE 0
    BY <1>0, <1>3, <1>10 DEF Moved
  <2>7. Tries' = [u \in Task |-> Tries[u] + IF u \in {t} THEN 1 ELSE 0]
    BY <1>3, <2>6
  <2>8. Leased!CountTry({t})
    BY <2>7 DEF Leased!CountTry, Tries
  <2>9. Leased!Bury({t})
    BY <2>5 DEF Leased!Bury, Buried
  <2>10. Leased!GiveBack({t}) /\ {t} \in SUBSET Leases
    BY <2>1, <2>5, <2>8, <2>9 DEF Leased!GiveBack, Waits, Leases
  <2>11. QED
    BY <2>10 DEF Leased!Next, Leases
<1>11. QED
  BY <1>4, <1>6, <1>7, <1>8, <1>9, <1>10, MessageMoves

LEMMA InitAwsLeased == ASSUME Init PROVE Leased!Init /\ Counting
<1>1. At("visible") = {} /\ At("hidden") = {} /\ At("deleted") = {} /\ At("dead") = {}
  BY DEF Init, SqsInit, At
<1>2. Spent = {} /\ \A t \in Task : receives[t] = 0
  BY <1>1 DEF Init, SqsInit, Spent
<1>3. QED
  BY <1>1, <1>2 DEF Leased!Init, Counting

(* While heartbeats are prompt, SQS keeps what base.py promises, whatever  *)
(* is killed and started again: a received message is in nobody else's     *)
(* reach until it is given back or its process has died, each return costs *)
(* one of the redeliveries, and only a delete or the redrive policy takes  *)
(* a message out (queue/base.py:10-31, queue/sqs.py:29-66).                *)
THEOREM SqsQueueIsLeased ==
  ASSUME Prompt
  PROVE  Spec => ImplementsLeasedQueue
<1>1. Counting /\ AwsInv /\ [Next]_vars => Counting'
  BY NextCounting
<1>2. Init => Leased!Init /\ Counting
  BY InitAwsLeased
<1>3. Counting /\ AwsInv /\ [Next]_vars => [Leased!Next]_Leased!vars
  BY LeasedMoves
<1>4. QED
  BY <1>1, <1>2, <1>3, AwsInvariant, PTL DEF Spec, ImplementsLeasedQueue, Leased!Spec
=============================================================================
