----------------------------- MODULE Checkpoint -----------------------------
(***************************************************************************)
(* gleanflow/ckpt.py: the fit of one task in blocks of rounds, the booster  *)
(* saved to a local file after each block and mirrored to the store, and    *)
(* the latest one restored by the next delivery of the task.                *)
(*                                                                         *)
(* A delivery runs in a worker process on some machine's disk.  A process   *)
(* may be killed at any point; whether its disk outlives it, and which      *)
(* store it uses, is the site's.  Deliveries on one disk do not overlap     *)
(* (heartbeats are prompt); those on different disks may.                   *)
(*                                                                         *)
(* xgboost is outside the repository.  A booster is the number of rounds it *)
(* was trained.  save_model writes its file in place, so that a process     *)
(* killed inside it leaves a torn file, and a torn file raises when it is   *)
(* read.                                                                    *)
(***************************************************************************)
EXTENDS Naturals

CONSTANTS
    Worker,     \* the worker processes
    Disk,       \* the disks they may run on
    Sites,      \* the sites: on, the disk of each worker; wiped, a disk goes
                \* with its process; s3, the store is S3 and not local
    Asks,       \* what a fit may be asked: rounds, every
    MaxRounds,  \* bound: no ask is for more rounds
    MaxCrashes, \* bound: processes killed and attempts that raise
    None,       \* no file, no model, no fit
    Torn        \* a file whose writer did not finish

Round == 1 .. MaxRounds
Booster == Nat
File == Booster \cup {None, Torn}
Ask == [rounds : Round, every : Nat \ {0}]

ASSUME SiteAssumption ==
    Sites \subseteq [on : [Worker -> Disk], wiped : BOOLEAN, s3 : BOOLEAN]
ASSUME AskAssumption == Asks \subseteq Ask /\ {MaxRounds, MaxCrashes} \subseteq Nat
ASSUME FileAssumption == {None, Torn} \cap Booster = {} /\ None # Torn

VARIABLES
    site,       \* the site
    asked,      \* what the current run asks of the fit
    past,       \* history: everything a run has asked
    answered,   \* the current run has its model
    stored,     \* ckpt/<key>/round-<k>.json in the store
    files,      \* round-<k>.json in the work directory on each disk
    pc,         \* where each worker is
    ask,        \* the arguments of its fit
    done,       \* its rounds done
    model,      \* the model in its memory
    crashes     \* crashes so far

vars == <<site, asked, past, answered, stored, files, pc, ask, done, model, crashes>>

PC == {"off", "restore", "fetch", "copying", "loop", "save", "saving", "put"}

TypeOK ==
    /\ site \in Sites
    /\ asked \in Asks /\ past \subseteq Asks
    /\ answered \in BOOLEAN
    /\ stored \in [Round -> File]
    /\ files \in [Disk -> [Round -> File]]
    /\ pc \in [Worker -> PC]
    /\ ask \in [Worker -> Asks \cup {None}]
    /\ done \in [Worker -> 0 .. MaxRounds]
    /\ model \in [Worker -> Booster \cup {None}]
    /\ crashes \in 0 .. MaxCrashes

Empty == [k \in Round |-> None]

Init ==
    /\ site \in Sites
    /\ asked \in Asks
    /\ past = {asked}
    /\ answered = FALSE
    /\ stored = Empty
    /\ files = [d \in Disk |-> Empty]
    /\ pc = [w \in Worker |-> "off"]
    /\ ask = [w \in Worker |-> None]
    /\ done = [w \in Worker |-> 0]
    /\ model = [w \in Worker |-> None]
    /\ crashes = 0

On(w) == site.on[w]
Busy(d) == \E w \in Worker : pc[w] # "off" /\ On(w) = d
Goto(w, l) == pc' = [pc EXCEPT ![w] = l]

(* The fit is over, one way or another. *)
Leave(w) ==
    /\ Goto(w, "off")
    /\ ask' = [ask EXCEPT ![w] = None]
    /\ done' = [done EXCEPT ![w] = 0]
    /\ model' = [model EXCEPT ![w] = None]

(* The file the worker's booster is in; a worker that has done no rounds    *)
(* has none.                                                                *)
Local(w) == files[On(w)][done[w]]
WriteLocal(w, content) == files' = [files EXCEPT ![On(w)][done[w]] = content]

-----------------------------------------------------------------------------
(* The task plane delivers the task until the fit has returned. *)
Deliver(w) ==
    /\ ~answered
    /\ pc[w] = "off"
    /\ ~Busy(On(w))
    /\ Goto(w, "restore")
    /\ ask' = [ask EXCEPT ![w] = asked]
    /\ UNCHANGED <<site, asked, past, answered, stored, files, done, model, crashes>>

(* A later run asks again, of a chunk with the same key: by force, or   *)
(* after its marker was lost, perhaps with other parameters.                *)
AskAgain(a) ==
    /\ answered \/ a \notin past
    /\ asked' = a
    /\ past' = past \cup {a}
    /\ answered' = FALSE
    /\ UNCHANGED <<site, stored, files, pc, ask, done, model, crashes>>

-----------------------------------------------------------------------------
(* restore. *)

Stored == {k \in Round : stored[k] # None}

(* Slip: the round that was stored first. *)
Earliest == IF Stored = {} THEN 0 ELSE CHOOSE k \in Stored : \A j \in Stored : k <= j

(* The greatest round with a checkpoint; 0 without one. *)
Latest == IF Stored = {} THEN 0 ELSE CHOOSE k \in Stored : \A j \in Stored : j <= k

Restore(w) ==
    /\ pc[w] = "restore"
    /\ done' = [done EXCEPT ![w] = Latest]
    /\ Goto(w, IF Latest = 0 THEN "loop" ELSE "fetch")
    /\ UNCHANGED <<site, asked, past, answered, stored, files, ask, model, crashes>>

(* get_file takes a local file for the stored one. *)
FetchCached(w) ==
    /\ pc[w] = "fetch"
    /\ Local(w) # None
    /\ Goto(w, "loop")
    /\ UNCHANGED <<site, asked, past, answered, stored, files, ask, done, model, crashes>>

(* Without one it downloads to a .part file that it renames (Store); the    *)
(* local store copies in place instead.                                     *)
Fetch(w) ==
    /\ pc[w] = "fetch"
    /\ Local(w) = None
    /\ \/ site.s3 /\ WriteLocal(w, stored[done[w]]) /\ Goto(w, "loop")
       \/ ~site.s3 /\ WriteLocal(w, Torn) /\ Goto(w, "copying")
    /\ UNCHANGED <<site, asked, past, answered, stored, ask, done, model, crashes>>

Copied(w) ==
    /\ pc[w] = "copying"
    /\ WriteLocal(w, stored[done[w]])
    /\ Goto(w, "loop")
    /\ UNCHANGED <<site, asked, past, answered, stored, ask, done, model, crashes>>

-----------------------------------------------------------------------------
(* fit. *)

(* Slip: every block is a whole one. *)
WholeBlock(w) == ask[w].every

Block(w) ==
    IF ask[w].every < ask[w].rounds - done[w] THEN ask[w].every
    ELSE ask[w].rounds - done[w]

(* clf.fit(X, y, xgb_model=booster), which reads the booster's file.        *)
Continued(w) ==
    IF done[w] = 0 THEN Block(w) ELSE Local(w) + Block(w)

(* Slip: while done <= rounds. *)
TrainPastEnd(w) ==
    /\ pc[w] = "loop"
    /\ done[w] <= ask[w].rounds
    /\ done[w] > 0 => Local(w) # Torn
    /\ model' = [model EXCEPT ![w] = Continued(w)]
    /\ done' = [done EXCEPT ![w] = @ + Block(w)]
    /\ Goto(w, "save")
    /\ UNCHANGED <<site, asked, past, answered, stored, files, ask, crashes>>

Train(w) ==
    /\ pc[w] = "loop"
    /\ done[w] < ask[w].rounds
    /\ done[w] > 0 => Local(w) # Torn
    /\ model' = [model EXCEPT ![w] = Continued(w)]
    /\ done' = [done EXCEPT ![w] = @ + Block(w)]
    /\ Goto(w, "save")
    /\ UNCHANGED <<site, asked, past, answered, stored, files, ask, crashes>>

SaveModel(w) ==
    /\ pc[w] = "save"
    /\ WriteLocal(w, Torn)
    /\ Goto(w, "saving")
    /\ UNCHANGED <<site, asked, past, answered, stored, ask, done, model, crashes>>

ModelSaved(w) ==
    /\ pc[w] = "saving"
    /\ WriteLocal(w, model[w])
    /\ Goto(w, "put")
    /\ UNCHANGED <<site, asked, past, answered, stored, ask, done, model, crashes>>

(* Slip: the file is mirrored while it is still being written. *)
MirrorEarly(w) ==
    /\ pc[w] \in {"saving", "put"}
    /\ stored' = [stored EXCEPT ![done[w]] = Local(w)]
    /\ Goto(w, "loop")
    /\ UNCHANGED <<site, asked, past, answered, files, ask, done, model, crashes>>

(* Slip: the checkpoint goes by the name of the last one. *)
SaveAsLast(w) ==
    /\ pc[w] = "put"
    /\ stored' = [stored EXCEPT ![ask[w].rounds] = Local(w)]
    /\ Goto(w, "loop")
    /\ UNCHANGED <<site, asked, past, answered, files, ask, done, model, crashes>>

(* save: put_file reads the local file and puts it, which is atomic: S3     *)
(* puts are, and the local store writes a .part file that it renames and    *)
(* does not list.                                                           *)
Save(w) ==
    /\ pc[w] = "put"
    /\ stored' = [stored EXCEPT ![done[w]] = Local(w)]
    /\ Goto(w, "loop")
    /\ UNCHANGED <<site, asked, past, answered, files, ask, done, model, crashes>>

(* What fit has restored is enough already: the model is loaded. *)
Load(w) ==
    /\ pc[w] = "loop"
    /\ done[w] >= ask[w].rounds
    /\ model[w] = None
    /\ Local(w) # Torn
    /\ model' = [model EXCEPT ![w] = Local(w)]
    /\ UNCHANGED <<site, asked, past, answered, stored, files, pc, ask, done, crashes>>

Returning(w) == pc[w] = "loop" /\ done[w] >= ask[w].rounds /\ model[w] # None

Return(w) ==
    /\ Returning(w)
    /\ Leave(w)
    /\ answered' = (answered \/ ask[w] = asked)
    /\ UNCHANGED <<site, asked, past, stored, files, crashes>>

(* A torn booster cannot be read: the attempt fails, and the task comes     *)
(* back.                                                                    *)
RaiseTorn(w) ==
    /\ pc[w] = "loop"
    /\ done[w] > 0 /\ Local(w) = Torn
    /\ Leave(w)
    /\ UNCHANGED <<site, asked, past, answered, stored, files, crashes>>

-----------------------------------------------------------------------------
(* Failures. *)

(* clf.fit or a request to the store raises. *)
Raise(w) ==
    /\ pc[w] \in {"restore", "fetch", "loop", "put"}
    /\ crashes < MaxCrashes
    /\ crashes' = crashes + 1
    /\ Leave(w)
    /\ UNCHANGED <<site, asked, past, answered, stored, files>>

(* The process is killed: a Spot eviction, the memory limit, Ctrl-C. *)
Crash(w) ==
    /\ pc[w] # "off"
    /\ crashes < MaxCrashes
    /\ crashes' = crashes + 1
    /\ Leave(w)
    /\ files' = IF site.wiped THEN [files EXCEPT ![On(w)] = Empty] ELSE files
    /\ UNCHANGED <<site, asked, past, answered, stored>>

(* The work directory is a cache and may be cleared: a reboot does it to    *)
(* /tmp.                                                                    *)
CacheCleared(d) ==
    /\ ~Busy(d)
    /\ files[d] # Empty
    /\ files' = [files EXCEPT ![d] = Empty]
    /\ UNCHANGED <<site, asked, past, answered, stored, pc, ask, done, model, crashes>>

Fit(w) ==
    \/ Restore(w) \/ FetchCached(w) \/ Fetch(w) \/ Copied(w)
    \/ Train(w) \/ SaveModel(w) \/ ModelSaved(w) \/ Save(w)
    \/ Load(w) \/ Return(w) \/ RaiseTorn(w)

Next ==
    \/ \E w \in Worker : Deliver(w) \/ Fit(w) \/ Raise(w) \/ Crash(w)
    \/ \E a \in Asks : AskAgain(a)
    \/ \E d \in Disk : CacheCleared(d)

Spec == Init /\ [][Next]_vars

(* Processes run, and a task whose attempt failed is delivered again, to no *)
(* worker in particular.                                                    *)
Fairness ==
    /\ WF_vars(\E w \in Worker : Deliver(w))
    /\ \A w \in Worker : WF_vars(Fit(w))

FairSpec == Spec /\ Fairness

-----------------------------------------------------------------------------
(* Whatever processes are killed, a checkpoint in the store is whole, and   *)
(* the one named round-<k> has k rounds: a file is mirrored only once it is *)
(* complete, and a torn one that was left behind never gets there           *)
(* (ckpt.py:35-36, 53-58, store.py:38-40).                                  *)
StoredWhole ==
    \A k \in Stored : stored[k] = k

(* A fit returns the rounds it was asked for, after any number of crashes,  *)
(* with another block size in between, and beside another delivery of the   *)
(* task: provided no run asked for more under the same key, of which the    *)
(* checkpoint would be taken for the answer (ckpt.py:38-60).                *)
FitAnswers ==
    \A w \in Worker : Returning(w) =>
        \/ model[w] = ask[w].rounds
        \/ \E a \in past : a.rounds > ask[w].rounds

(* On one machine no block that has reached the store is trained again,     *)
(* whatever crashed in between: a worker that dies mid-fit resumes where it *)
(* left off (ckpt.py:3-8).                                                  *)
OneMachine == \A v, w \in Worker : On(v) = On(w)
ResumesAtLatest ==
    OneMachine => \A w \in Worker : pc[w] = "save" => \A k \in Stored : k < done[w]

(* Where a disk goes with its process, a restored booster is whole: get_file*)
(* may take a local file for the stored one only because a file left torn   *)
(* is never found by a later process (store.py:42-46, ckpt.py:43-44).       *)
RestoresWhole ==
    site.wiped => \A w \in Worker :
        pc[w] = "loop" /\ done[w] > 0 => Local(w) = done[w]

(* A torn file that nobody is writing has the name of a stored round. *)
Writing(d, k) ==
    \E w \in Worker : pc[w] \in {"copying", "saving"} /\ On(w) = d /\ done[w] = k
Poisoned ==
    \E d \in Disk, k \in Stored : files[d][k] = Torn /\ ~Writing(d, k)

(* If crashes cease, every fit that a run asks for returns; the one thing   *)
(* that may keep it from it is a torn local file that get_file takes for a  *)
(* stored one, in every attempt again (ckpt.py:3-8, store.py:42-46).        *)
FitReturns == []~Poisoned => (~answered ~> answered)
=============================================================================
