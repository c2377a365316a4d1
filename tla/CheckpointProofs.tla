-------------------------- MODULE CheckpointProofs --------------------------
(***************************************************************************)
(* What TLC checks of Checkpoint on two workers and three rounds, proved    *)
(* for any workers, disks, sites and asks: type correctness and the four    *)
(* invariants of the fit.  None of them is inductive by itself; Inv adds    *)
(* what a worker at each point of the fit knows of its file, its model and  *)
(* the store, and that nobody else touches its disk.                        *)
(***************************************************************************)
EXTENDS Checkpoint, WellFoundedInduction, TLAPS

(* At most one live worker on each disk. *)
Alone ==
    \A v, w \in Worker :
        pc[v] # "off" /\ pc[w] # "off" /\ On(v) = On(w) => v = w

(* A local file is torn or has the rounds of its name. *)
Named == \A d \in Disk, k \in Round : files[d][k] \in {None, Torn, k}

(* Nothing longer was ever stored than some run asked for. *)
AllAsked == asked \in past /\ \A k \in Stored : \E a \in past : k <= a.rounds

(* Where disks go with their processes, only a writer has a torn file. *)
NoLitter ==
    site.wiped => \A d \in Disk, k \in Round : files[d][k] = Torn => Writing(d, k)

Knows(w) ==
    /\ pc[w] # "off" => ask[w] \in past /\ \E a \in past : done[w] <= a.rounds
    /\ pc[w] \in {"off", "restore"} => done[w] = 0 /\ model[w] = None
    /\ pc[w] \in {"fetch", "copying"} => done[w] \in Stored /\ model[w] = None
    /\ pc[w] \in {"save", "saving", "put"} => done[w] > 0 /\ model[w] = done[w]
    /\ pc[w] = "loop" => model[w] \in {None, done[w]}
HasFile(w) ==
    /\ pc[w] = "loop" /\ done[w] > 0 => Local(w) \in {Torn, done[w]}
    /\ pc[w] = "put" => Local(w) = done[w]
IsAhead(w) ==
    OneMachine =>
        /\ pc[w] \in {"fetch", "copying", "loop"} => \A k \in Stored : k <= done[w]
        /\ pc[w] \in {"save", "saving", "put"} => \A k \in Stored : k < done[w]

Sound(w) == Knows(w) /\ HasFile(w) /\ IsAhead(w)

Inv ==
    /\ TypeOK /\ Alone /\ Named /\ StoredWhole /\ AllAsked /\ NoLitter
    /\ \A w \in Worker : Sound(w)

-----------------------------------------------------------------------------
Less == {ss \in Nat \X Nat : ss[1] < ss[2]}

LEMMA LessWellFounded == IsWellFoundedOn(Less, Nat)
BY NatLessThanWellFounded, Zenon DEF OpToRel, Less

(* A set of rounds has a greatest one, so that Latest names a checkpoint.   *)
LEMMA LatestFacts ==
  ASSUME MaxRounds \in Nat
  PROVE  /\ Latest \in 0 .. MaxRounds
         /\ Latest # 0 => Latest \in Stored
         /\ \A k \in Stored : k <= Latest
<1>1. CASE Stored = {}
  BY <1>1 DEF Latest
<1>2. CASE Stored # {}
  <2> DEFINE Left == {n \in 0 .. MaxRounds : \E k \in Stored : n = MaxRounds - k}
  <2>1. Stored \subseteq 1 .. MaxRounds
    BY DEF Stored, Round
  <2>2. Left \subseteq Nat /\ Left # {}
    <3>1. PICK k \in Stored : TRUE
      BY <1>2
    <3>2. MaxRounds - k \in 0 .. MaxRounds
      BY <2>1, <3>1
    <3>3. QED
      BY <3>2
  <2>3. PICK n \in Left : \A m \in Left : ~(<<m, n>> \in Less)
    <3> HIDE DEF Left
    <3>1. QED
      BY <2>2, WFMin, LessWellFounded
  <2>4. \A m \in Left : n <= m
    <3> SUFFICES ASSUME NEW m \in Left PROVE n <= m
      OBVIOUS
    <3>1. m \in Nat /\ n \in Nat
      BY <2>2
    <3>2. <<m, n>> \notin Less
      BY <2>3
    <3>3. ~(m < n)
      BY <3>1, <3>2 DEF Less
    <3>4. QED
      BY <3>1, <3>3
  <2>5. PICK k \in Stored : n = MaxRounds - k
    OBVIOUS
  <2>6. \A j \in Stored : j <= k
    <3> SUFFICES ASSUME NEW j \in Stored PROVE j <= k
      OBVIOUS
    <3>1. MaxRounds - j \in Left
      BY <2>1
    <3>2. QED
      BY <2>1, <2>4, <2>5, <3>1
  <2>7. Latest \in Stored /\ \A j \in Stored : j <= Latest
    BY <1>2, <2>6 DEF Latest
  <2>8. QED
    BY <2>1, <2>7
<1>3. QED
  BY <1>1, <1>2

LEMMA Constants ==
  /\ MaxRounds \in Nat /\ MaxCrashes \in Nat
  /\ None \notin Nat /\ Torn \notin Nat /\ None # Torn
  /\ \A a \in Asks : a.rounds \in 1 .. MaxRounds /\ a.every \in Nat /\ a.every > 0
  /\ \A s \in Sites : s.on \in [Worker -> Disk]
BY AskAssumption, FileAssumption, SiteAssumption DEF Ask, Round, Booster

LEMMA InitInv == Init => Inv
<1> SUFFICES ASSUME Init PROVE Inv
  OBVIOUS
<1>0. 0 \in 0 .. MaxRounds /\ 0 \in 0 .. MaxCrashes
  BY Constants
<1>1. TypeOK
  BY <1>0 DEF Init, TypeOK, PC, Empty, File
<1>2. Stored = {}
  BY DEF Init, Empty, Stored
<1>3. Alone /\ Named /\ StoredWhole /\ AllAsked /\ NoLitter
  BY <1>2, Constants DEF Init, Alone, Named, StoredWhole, AllAsked, NoLitter, Empty
<1>4. \A w \in Worker : Sound(w)
  BY <1>2 DEF Init, Sound, Knows, HasFile, IsAhead
<1>5. QED
  BY <1>1, <1>3, <1>4 DEF Inv

-----------------------------------------------------------------------------
(* What a step of w leaves to the others.  They lose nothing they know of   *)
(* as long as their disk is left alone and the store only grows, and on one *)
(* machine there are no others.                                             *)
LEMMA OthersSound ==
  ASSUME NEW v, Sound(v),
         site' = site, past \subseteq past',
         Stored \subseteq Stored',
         OneMachine /\ pc[v] # "off" => Stored' \subseteq Stored,
         pc'[v] = pc[v], ask'[v] = ask[v], done'[v] = done[v], model'[v] = model[v],
         pc[v] # "off" => files'[On(v)] = files[On(v)]
  PROVE  Sound(v)'
<1>1. Knows(v)'
  BY DEF Sound, Knows
<1>2. HasFile(v)'
  BY DEF Sound, HasFile, Local, On
<1>3. IsAhead(v)'
  BY DEF Sound, IsAhead, OneMachine, On
<1>4. QED
  BY <1>1, <1>2, <1>3 DEF Sound

Others(w) ==
    /\ UNCHANGED <<site, asked, past>>
    /\ \A v \in Worker \ {w} :
          /\ pc'[v] = pc[v] /\ ask'[v] = ask[v]
          /\ done'[v] = done[v] /\ model'[v] = model[v]
    /\ \A d \in Disk \ {On(w)} : files'[d] = files[d]

LEMMA OnDisk == TypeOK => \A w \in Worker : On(w) \in Disk
BY Constants DEF TypeOK, On

LEMMA StepSound ==
  ASSUME Inv, NEW w \in Worker, Others(w), pc[w] # "off", Stored \subseteq Stored',
         Sound(w)'
  PROVE  Alone' /\ \A v \in Worker : Sound(v)'
<1>1. Alone'
  BY DEF Inv, Alone, Others, On
<1>2. ASSUME NEW v \in Worker \ {w} PROVE Sound(v)'
  <2>1. OneMachine => pc[v] = "off"
    BY <1>2 DEF Inv, Alone, OneMachine
  <2>2. pc[v] # "off" => files'[On(v)] = files[On(v)]
    BY <1>2, OnDisk DEF Inv, Alone, Others
  <2>3. QED
    BY <1>2, <2>1, <2>2, OthersSound DEF Inv, Others
<1>3. QED
  BY <1>1, <1>2

LEMMA StepTidy ==
  ASSUME Inv, NEW w \in Worker, Others(w), pc[w] # "off",
         \A k \in Round : site.wiped /\ files'[On(w)][k] = Torn =>
             pc'[w] \in {"copying", "saving"} /\ done'[w] = k
  PROVE  NoLitter'
<1> SUFFICES ASSUME site'.wiped, NEW d \in Disk, NEW k \in Round, files'[d][k] = Torn
             PROVE  Writing(d, k)'
  BY DEF NoLitter
<1>1. CASE d = On(w)
  BY <1>1 DEF Writing, Others, On
<1>2. CASE d # On(w)
  <2>1. PICK v \in Worker : /\ pc[v] \in {"copying", "saving"}
                            /\ On(v) = d /\ done[v] = k
    BY <1>2 DEF Inv, NoLitter, Writing, Others
  <2>2. QED
    BY <1>2, <2>1 DEF Writing, Others, On
<1>3. QED
  BY <1>1, <1>2

(* On a disk that goes with its process, a worker that is not writing       *)
(* meets no torn file.                                                      *)
LEMMA NoneTorn ==
  ASSUME Inv, NEW w \in Worker, pc[w] \notin {"off", "copying", "saving"}, site.wiped,
         NEW k \in Round
  PROVE  files[On(w)][k] # Torn
BY OnDisk DEF Inv, NoLitter, Writing, Alone

(* A step that leaves all files and the store alone needs only to be sound. *)
LEMMA ReaderStep ==
  ASSUME Inv, NEW w \in Worker, Others(w), pc[w] \notin {"off", "copying", "saving"},
         UNCHANGED <<stored, files>>, TypeOK', Sound(w)'
  PROVE  Inv'
<1>1. Alone' /\ \A v \in Worker : Sound(v)'
  BY StepSound DEF Stored
<1>2. Named' /\ StoredWhole' /\ AllAsked'
  BY DEF Inv, Named, StoredWhole, AllAsked, Stored, Others
<1>3. NoLitter'
  BY NoneTorn, StepTidy, OnDisk DEF Inv
<1>4. QED
  BY <1>1, <1>2, <1>3 DEF Inv

(* So does one that writes the local file of its rounds.                    *)
LEMMA WriterStep ==
  ASSUME Inv, NEW w \in Worker, Others(w), pc[w] # "off",
         NEW c \in {Torn, done[w]}, WriteLocal(w, c), done[w] \in Round,
         done'[w] = done[w], stored' = stored,
         c = Torn => pc'[w] \in {"copying", "saving"},
         TypeOK', Sound(w)'
  PROVE  Inv'
<1>0. /\ files \in [Disk -> [Round -> File]] /\ On(w) \in Disk
      /\ \A k \in Round : files'[On(w)][k] = IF k = done[w] THEN c ELSE files[On(w)][k]
      /\ \A d \in Disk \ {On(w)} : files'[d] = files[d]
  BY OnDisk DEF Inv, TypeOK, WriteLocal
<1>1. Alone' /\ \A v \in Worker : Sound(v)'
  BY StepSound DEF Stored
<1>2. StoredWhole' /\ AllAsked'
  BY DEF Inv, StoredWhole, AllAsked, Stored, Others
<1>3. Named'
  BY <1>0 DEF Inv, Named
<1>4. NoLitter'
  <2>1. ASSUME NEW k \in Round, site.wiped, files'[On(w)][k] = Torn
        PROVE  pc'[w] \in {"copying", "saving"} /\ done'[w] = k
    <3>1. c # Torn => c = done[w] /\ done[w] \in Nat
      BY Constants DEF Round
    <3>2. CASE k = done[w]
      BY <1>0, <2>1, <3>2
    <3>3. CASE k # done[w]
      <4>1. files[On(w)][k] = Torn
        BY <1>0, <2>1, <3>3
      <4>2. Writing(On(w), k)
        BY <1>0, <2>1, <4>1 DEF Inv, NoLitter
      <4>3. QED
        BY <3>3, <4>2 DEF Writing, Inv, Alone
    <3>4. QED
      BY <3>2, <3>3
  <2>2. QED
    BY <2>1, StepTidy
<1>5. QED
  BY <1>1, <1>2, <1>3, <1>4 DEF Inv

-----------------------------------------------------------------------------
(* The steps of a fit. *)

LEMMA RestoreStep == ASSUME Inv, NEW w \in Worker, Restore(w) PROVE Inv'
<1>1. Others(w) /\ pc[w] = "restore" /\ UNCHANGED <<stored, files>>
  BY DEF Restore, Others, Inv, TypeOK, Goto
<1>2. /\ done'[w] = Latest /\ ask'[w] = ask[w] /\ model'[w] = model[w]
      /\ pc'[w] = IF Latest = 0 THEN "loop" ELSE "fetch"
      /\ Stored' = Stored
  BY DEF Restore, Goto, Inv, TypeOK, Stored
<1>3. /\ Latest \in 0 .. MaxRounds
      /\ Latest # 0 => Latest \in Stored
      /\ \A k \in Stored : k <= Latest
  BY LatestFacts, Constants
<1>4. TypeOK'
  BY <1>3 DEF Restore, Goto, Inv, TypeOK, PC
<1>5. Sound(w)'
  <2>1. \E a \in past : Latest <= a.rounds
    BY <1>1, <1>3, Constants DEF Inv, Sound, Knows, TypeOK, AllAsked
  <2>2. Knows(w)'
    BY <1>1, <1>2, <1>3, <2>1 DEF Inv, Sound, Knows, Others
  <2>3. HasFile(w)' /\ IsAhead(w)'
    BY <1>1, <1>2, <1>3 DEF HasFile, IsAhead
  <2>4. QED
    BY <2>2, <2>3 DEF Sound
<1>6. QED
  BY <1>1, <1>4, <1>5, ReaderStep

LEMMA FetchCachedStep == ASSUME Inv, NEW w \in Worker, FetchCached(w) PROVE Inv'
<1>1. Others(w) /\ pc[w] = "fetch" /\ UNCHANGED <<stored, files>>
  BY DEF FetchCached, Others, Inv, TypeOK, Goto
<1>2. /\ done'[w] = done[w] /\ ask'[w] = ask[w] /\ model'[w] = model[w]
      /\ pc'[w] = "loop"
      /\ Stored' = Stored
  BY DEF FetchCached, Goto, Inv, TypeOK, Stored
<1>3. TypeOK'
  BY DEF FetchCached, Goto, Inv, TypeOK, PC
<1>4. done[w] \in Round /\ Local(w) \in {Torn, done[w]} /\ Local(w)' = Local(w)
  BY <1>1, <1>2, OnDisk
     DEF FetchCached, Inv, Sound, Knows, Stored, Named, Local, On, Others
<1>5. Sound(w)'
  BY <1>1, <1>2, <1>4 DEF Inv, Sound, Knows, HasFile, IsAhead, OneMachine, On, Others
<1>6. QED
  BY <1>1, <1>3, <1>5, ReaderStep

LEMMA TrainStep == ASSUME Inv, NEW w \in Worker, Train(w) PROVE Inv'
<1>1. Others(w) /\ pc[w] = "loop" /\ UNCHANGED <<stored, files>>
  BY DEF Train, Others, Inv, TypeOK, Goto
<1>2. /\ ask[w] \in past /\ ask[w].rounds \in 1 .. MaxRounds
      /\ ask[w].every \in Nat /\ ask[w].every > 0
      /\ done[w] \in Nat /\ done[w] < ask[w].rounds
  BY <1>1, Constants DEF Train, Inv, TypeOK, Sound, Knows
<1>3. /\ Block(w) \in Nat /\ Block(w) > 0
      /\ done[w] + Block(w) <= ask[w].rounds
  BY <1>2 DEF Block
<1>4. Continued(w) = done[w] + Block(w)
  <2>1. done[w] > 0 => Local(w) = done[w]
    BY <1>1 DEF Train, Inv, Sound, HasFile
  <2>2. QED
    BY <1>2, <1>3, <2>1 DEF Continued
<1>5. /\ done'[w] = done[w] + Block(w) /\ model'[w] = done'[w]
      /\ pc'[w] = "save" /\ ask'[w] = ask[w] /\ Stored' = Stored
  BY <1>4 DEF Train, Goto, Inv, TypeOK, Stored
<1>6. TypeOK'
  <2>1. done[w] + Block(w) \in 0 .. MaxRounds /\ Continued(w) \in Booster
    BY <1>2, <1>3, <1>4, Constants DEF Booster
  <2>2. QED
    BY <2>1 DEF Train, Goto, Inv, TypeOK, PC
<1>7. Sound(w)'
  <2>1. Knows(w)'
    BY <1>1, <1>2, <1>3, <1>5 DEF Knows, Others
  <2>2. IsAhead(w)'
    <3>1. OneMachine => \A k \in Stored : k < done[w] + Block(w)
      BY <1>1, <1>2, <1>3 DEF Inv, Sound, IsAhead, Stored, Round
    <3>2. QED
      BY <1>1, <1>5, <3>1 DEF IsAhead, OneMachine, On, Others
  <2>3. QED
    BY <1>5, <2>1, <2>2 DEF Sound, HasFile
<1>8. QED
  BY <1>1, <1>6, <1>7, ReaderStep

LEMMA LoadStep == ASSUME Inv, NEW w \in Worker, Load(w) PROVE Inv'
<1>1. Others(w) /\ pc[w] = "loop" /\ UNCHANGED <<stored, files>>
  BY DEF Load, Others, Inv, TypeOK
<1>2. done[w] > 0 /\ Local(w) = done[w] /\ done[w] \in Nat
  <2>1. ask[w].rounds > 0 /\ ask[w].rounds \in Nat
    BY <1>1, Constants DEF Inv, TypeOK, Sound, Knows
  <2>2. done[w] >= ask[w].rounds /\ done[w] \in Nat
    BY DEF Load, Inv, TypeOK
  <2>3. QED
    BY <1>1, <2>1, <2>2 DEF Load, Inv, Sound, HasFile
<1>3. /\ done'[w] = done[w] /\ model'[w] = done[w] /\ ask'[w] = ask[w]
      /\ pc'[w] = pc[w] /\ Local(w)' = Local(w) /\ Stored' = Stored
  BY <1>2 DEF Load, Inv, TypeOK, Stored, Local, On
<1>4. TypeOK'
  BY <1>2 DEF Load, Inv, TypeOK, Booster
<1>5. Sound(w)'
  BY <1>1, <1>2, <1>3
     DEF Inv, Sound, Knows, HasFile, IsAhead, OneMachine, On, Others
<1>6. QED
  BY <1>1, <1>4, <1>5, ReaderStep

(* A worker that has left knows nothing and may not be wrong. *)
LEMMA LeftSound ==
  ASSUME Inv, NEW w \in Worker, Leave(w)
  PROVE  /\ Sound(w)'
         /\ pc' \in [Worker -> PC] /\ ask' \in [Worker -> Asks \cup {None}]
         /\ done' \in [Worker -> 0 .. MaxRounds]
         /\ model' \in [Worker -> Booster \cup {None}]
<1>1. /\ pc'[w] = "off" /\ done'[w] = 0 /\ model'[w] = None
  BY DEF Leave, Goto, Inv, TypeOK
<1>2. Sound(w)'
  BY <1>1 DEF Sound, Knows, HasFile, IsAhead
<1>3. 0 \in 0 .. MaxRounds
  BY Constants
<1>4. QED
  BY <1>2, <1>3 DEF Leave, Goto, Inv, TypeOK, PC

LEMMA EndStep ==
  ASSUME Inv, NEW w \in Worker, Return(w) \/ RaiseTorn(w) \/ Raise(w)
  PROVE  Inv'
<1>1. Others(w) /\ Leave(w) /\ UNCHANGED <<stored, files>>
      /\ pc[w] \notin {"off", "copying", "saving"}
  BY DEF Return, Returning, RaiseTorn, Raise, Leave, Goto, Others, Inv, TypeOK
<1>2. TypeOK'
  <2>1. crashes' \in 0 .. MaxCrashes
    BY Constants DEF Return, RaiseTorn, Raise, Inv, TypeOK
  <2>2. /\ UNCHANGED <<site, asked, past, stored, files>>
        /\ answered' \in BOOLEAN
    BY DEF Return, RaiseTorn, Raise, Inv, TypeOK
  <2>3. QED
    BY <1>1, <2>1, <2>2, LeftSound DEF Inv, TypeOK
<1>3. QED
  BY <1>1, <1>2, LeftSound, ReaderStep

(* The steps that write the worker's file. *)

LEMMA FileWritten ==
  ASSUME Inv, NEW w \in Worker, done[w] \in Round, WriteLocal(w, done[w])
  PROVE  files' \in [Disk -> [Round -> File]]
<1>1. done[w] \in File
  BY Constants DEF Round, File, Booster
<1>2. QED
  BY <1>1 DEF WriteLocal, Inv, TypeOK

LEMMA FetchStep == ASSUME Inv, NEW w \in Worker, Fetch(w) PROVE Inv'
<1>1. /\ Others(w) /\ pc[w] = "fetch" /\ stored' = stored
      /\ done'[w] = done[w] /\ ask'[w] = ask[w] /\ model'[w] = model[w]
      /\ Stored' = Stored
  BY OnDisk DEF Fetch, WriteLocal, Others, Inv, TypeOK, Goto, Stored
<1>2. done[w] \in Round /\ stored[done[w]] = done[w] /\ done[w] > 0
  BY <1>1, Constants DEF Inv, Sound, Knows, Stored, StoredWhole, Round
<1>3. CASE pc'[w] = "loop" /\ WriteLocal(w, done[w]) /\ Goto(w, "loop")
  <2>1. TypeOK'
    BY <1>2, <1>3, Constants
       DEF Fetch, WriteLocal, Goto, Inv, TypeOK, PC, File, Booster, Round
  <2>2. Local(w)' = done[w]
    BY <1>1, <1>2, <1>3, OnDisk DEF WriteLocal, Local, On, Others, Inv, TypeOK
  <2>3. Sound(w)'
    BY <1>1, <1>2, <1>3, <2>2
       DEF Inv, Sound, Knows, HasFile, IsAhead, OneMachine, On, Others
  <2>4. done[w] # Torn
    BY <1>2, Constants DEF Round
  <2>5. QED
    BY <1>1, <1>2, <1>3, <2>1, <2>3, <2>4, WriterStep
<1>4. CASE pc'[w] = "copying" /\ WriteLocal(w, Torn) /\ Goto(w, "copying")
  <2>1. TypeOK'
    BY <1>2, <1>4 DEF Fetch, WriteLocal, Goto, Inv, TypeOK, PC, File
  <2>2. Sound(w)'
    BY <1>1, <1>2, <1>4
       DEF Inv, Sound, Knows, HasFile, IsAhead, OneMachine, On, Others
  <2>3. QED
    BY <1>1, <1>2, <1>4, <2>1, <2>2, WriterStep
<1>5. QED
  BY <1>2, <1>3, <1>4 DEF Fetch, Goto, Inv, TypeOK

LEMMA CopiedStep == ASSUME Inv, NEW w \in Worker, Copied(w) PROVE Inv'
<1>1. /\ Others(w) /\ pc[w] = "copying" /\ stored' = stored
      /\ done'[w] = done[w] /\ ask'[w] = ask[w] /\ model'[w] = model[w]
      /\ pc'[w] = "loop" /\ Stored' = Stored
  BY OnDisk DEF Copied, WriteLocal, Others, Inv, TypeOK, Goto, Stored
<1>2. done[w] \in Round /\ stored[done[w]] = done[w] /\ done[w] > 0
  BY <1>1, Constants DEF Inv, Sound, Knows, Stored, StoredWhole, Round
<1>3. WriteLocal(w, done[w]) /\ done[w] # Torn
  BY <1>2, Constants DEF Copied, Round
<1>4. TypeOK'
  <2>1. files' \in [Disk -> [Round -> File]]
    BY <1>2, <1>3, FileWritten
  <2>2. QED
    BY <2>1 DEF Copied, Goto, Inv, TypeOK, PC
<1>5. Local(w)' = done[w]
  BY <1>1, <1>2, <1>3, OnDisk DEF WriteLocal, Local, On, Others, Inv, TypeOK
<1>6. Sound(w)'
  BY <1>1, <1>2, <1>5
     DEF Inv, Sound, Knows, HasFile, IsAhead, OneMachine, On, Others
<1>7. QED
  BY <1>1, <1>2, <1>3, <1>4, <1>6, WriterStep

LEMMA SaveModelStep == ASSUME Inv, NEW w \in Worker, SaveModel(w) PROVE Inv'
<1>1. /\ Others(w) /\ pc[w] = "save" /\ stored' = stored
      /\ done'[w] = done[w] /\ ask'[w] = ask[w] /\ model'[w] = model[w]
      /\ pc'[w] = "saving" /\ Stored' = Stored
  BY OnDisk DEF SaveModel, WriteLocal, Others, Inv, TypeOK, Goto, Stored
<1>2. done[w] \in Round
  BY <1>1, Constants DEF Inv, Sound, Knows, TypeOK, Round
<1>3. TypeOK'
  BY <1>2 DEF SaveModel, WriteLocal, Goto, Inv, TypeOK, PC, File
<1>4. Sound(w)'
  BY <1>1, <1>2 DEF Inv, Sound, Knows, HasFile, IsAhead, OneMachine, On, Others
<1>5. QED
  BY <1>1, <1>2, <1>3, <1>4, WriterStep DEF SaveModel

LEMMA ModelSavedStep == ASSUME Inv, NEW w \in Worker, ModelSaved(w) PROVE Inv'
<1>1. /\ Others(w) /\ pc[w] = "saving" /\ stored' = stored
      /\ done'[w] = done[w] /\ ask'[w] = ask[w] /\ model'[w] = model[w]
      /\ pc'[w] = "put" /\ Stored' = Stored
  BY OnDisk DEF ModelSaved, WriteLocal, Others, Inv, TypeOK, Goto, Stored
<1>2. done[w] \in Round /\ model[w] = done[w] /\ done[w] # Torn
  BY <1>1, Constants DEF Inv, Sound, Knows, TypeOK, Round
<1>3. WriteLocal(w, done[w])
  BY <1>2 DEF ModelSaved
<1>4. TypeOK'
  <2>1. files' \in [Disk -> [Round -> File]]
    BY <1>2, <1>3, FileWritten
  <2>2. QED
    BY <2>1 DEF ModelSaved, Goto, Inv, TypeOK, PC
<1>5. Local(w)' = done[w]
  BY <1>1, <1>2, <1>3, OnDisk DEF WriteLocal, Local, On, Others, Inv, TypeOK
<1>6. Sound(w)'
  BY <1>1, <1>2, <1>5
     DEF Inv, Sound, Knows, HasFile, IsAhead, OneMachine, On, Others
<1>7. QED
  BY <1>1, <1>2, <1>3, <1>4, <1>6, WriterStep

LEMMA SaveStep == ASSUME Inv, NEW w \in Worker, Save(w) PROVE Inv'
<1>1. /\ Others(w) /\ pc[w] = "put" /\ files' = files
      /\ done'[w] = done[w] /\ ask'[w] = ask[w] /\ model'[w] = model[w]
      /\ pc'[w] = "loop" /\ Local(w)' = Local(w)
  BY DEF Save, Others, Inv, TypeOK, Goto, Local, On
<1>2. done[w] \in Round /\ done[w] > 0 /\ Local(w) = done[w] /\ done[w] # None
  BY <1>1, Constants DEF Inv, Sound, Knows, HasFile, TypeOK, Round
<1>3. /\ stored' = [stored EXCEPT ![done[w]] = done[w]]
      /\ stored \in [Round -> File]
  BY <1>2 DEF Save, Inv, TypeOK
<1>4. Stored' = Stored \cup {done[w]}
  BY <1>2, <1>3 DEF Stored
<1>5. TypeOK'
  BY <1>2, <1>3, Constants DEF Save, Goto, Inv, TypeOK, PC, File, Booster, Round
<1>6. StoredWhole' /\ Named'
  BY <1>1, <1>3, <1>4 DEF Inv, StoredWhole, Named, Stored
<1>7. AllAsked'
  <2>1. \E a \in past : done[w] <= a.rounds
    BY <1>1 DEF Inv, Sound, Knows
  <2>2. QED
    BY <1>1, <1>4, <2>1 DEF Inv, AllAsked, Others
<1>8. Sound(w)'
  <2>1. Knows(w)' /\ HasFile(w)'
    BY <1>1, <1>2 DEF Inv, Sound, Knows, HasFile, Others
  <2>2. IsAhead(w)'
    <3>1. OneMachine => \A k \in Stored : k < done[w]
      BY <1>1 DEF Inv, Sound, IsAhead
    <3>2. \A k \in Stored \cup {done[w]} : k \in Nat
      BY <1>2, Constants DEF Stored, Round
    <3>3. OneMachine => \A k \in Stored' : k <= done[w]
      BY <1>4, <3>1, <3>2
    <3>4. QED
      BY <1>1, <3>3 DEF IsAhead, OneMachine, On, Others
  <2>3. QED
    BY <2>1, <2>2 DEF Sound
<1>9. Alone' /\ \A v \in Worker : Sound(v)'
  BY <1>1, <1>4, <1>8, StepSound
<1>10. NoLitter'
  BY <1>1, NoneTorn, StepTidy, OnDisk DEF Inv
<1>11. QED
  BY <1>5, <1>6, <1>7, <1>9, <1>10 DEF Inv

-----------------------------------------------------------------------------
(* The steps around it. *)

LEMMA CrashStep == ASSUME Inv, NEW w \in Worker, Crash(w) PROVE Inv'
<1>1. /\ Others(w) /\ Leave(w) /\ pc[w] # "off" /\ stored' = stored
      /\ UNCHANGED <<site, asked, past, answered>> /\ Stored' = Stored
  BY OnDisk DEF Crash, Leave, Goto, Others, Inv, TypeOK, Stored
<1>2. files' = IF site.wiped THEN [files EXCEPT ![On(w)] = Empty] ELSE files
  BY DEF Crash
<1>3. TypeOK'
  <2>1. crashes' \in 0 .. MaxCrashes
    BY Constants DEF Crash, Inv, TypeOK
  <2>2. files' \in [Disk -> [Round -> File]]
    BY <1>2, OnDisk DEF Inv, TypeOK, Empty, File
  <2>3. QED
    BY <1>1, <2>1, <2>2, LeftSound DEF Inv, TypeOK
<1>4. Named'
  BY <1>2, OnDisk DEF Inv, TypeOK, Named, Empty
<1>5. StoredWhole' /\ AllAsked'
  BY <1>1 DEF Inv, StoredWhole, AllAsked, Stored, Others
<1>6. Alone' /\ \A v \in Worker : Sound(v)'
  BY <1>1, LeftSound, StepSound
<1>7. NoLitter'
  <2>1. site.wiped => \A k \in Round : files'[On(w)][k] # Torn
    BY <1>2, Constants, OnDisk DEF Inv, TypeOK, Empty
  <2>2. QED
    BY <1>1, <2>1, StepTidy
<1>8. QED
  BY <1>3, <1>4, <1>5, <1>6, <1>7 DEF Inv

LEMMA DeliverStep == ASSUME Inv, NEW w \in Worker, Deliver(w) PROVE Inv'
<1>1. /\ Others(w) /\ pc[w] = "off" /\ UNCHANGED <<stored, files>>
      /\ done'[w] = done[w] /\ ask'[w] = asked /\ model'[w] = model[w]
      /\ pc'[w] = "restore" /\ Stored' = Stored
  BY DEF Deliver, Others, Inv, TypeOK, Goto, Stored
<1>2. TypeOK'
  BY DEF Deliver, Goto, Inv, TypeOK, PC
<1>3. Alone'
  BY <1>1 DEF Deliver, Busy, Inv, Alone, Others, On
<1>4. Named' /\ StoredWhole' /\ AllAsked'
  BY <1>1 DEF Inv, Named, StoredWhole, AllAsked, Stored, Others
<1>5. NoLitter'
  BY <1>1 DEF Inv, NoLitter, Writing, Others, On
<1>6. Sound(w)'
  <2>1. asked \in past /\ 0 <= asked.rounds
    BY Constants DEF Inv, TypeOK, AllAsked
  <2>2. QED
    BY <1>1, <2>1 DEF Inv, Sound, Knows, HasFile, IsAhead, Others
<1>7. \A v \in Worker \ {w} : Sound(v)'
  BY <1>1, OthersSound DEF Inv, Others
<1>8. QED
  BY <1>2, <1>3, <1>4, <1>5, <1>6, <1>7 DEF Inv

LEMMA AskAgainStep == ASSUME Inv, NEW a \in Asks, AskAgain(a) PROVE Inv'
<1>1. /\ UNCHANGED <<site, stored, files, pc, ask, done, model, crashes>>
      /\ past \subseteq past' /\ a \in past' /\ asked' = a /\ Stored' = Stored
  BY DEF AskAgain, Stored
<1>2. TypeOK'
  BY DEF AskAgain, Inv, TypeOK
<1>3. Alone' /\ Named' /\ StoredWhole' /\ AllAsked' /\ NoLitter'
  BY <1>1 DEF Inv, Alone, Named, StoredWhole, AllAsked, NoLitter, Writing, On, Stored
<1>4. \A v \in Worker : Sound(v)'
  BY <1>1, OthersSound DEF Inv
<1>5. QED
  BY <1>2, <1>3, <1>4 DEF Inv

LEMMA CacheClearedStep == ASSUME Inv, NEW d \in Disk, CacheCleared(d) PROVE Inv'
<1>1. /\ UNCHANGED <<site, asked, past, answered, stored, pc, ask, done, model, crashes>>
      /\ files' = [files EXCEPT ![d] = Empty] /\ Stored' = Stored
      /\ \A v \in Worker : pc[v] # "off" => On(v) # d
  BY DEF CacheCleared, Busy, Stored
<1>2. TypeOK'
  BY <1>1 DEF Inv, TypeOK, Empty, File
<1>3. Alone' /\ StoredWhole' /\ AllAsked'
  BY <1>1 DEF Inv, Alone, StoredWhole, AllAsked, On, Stored
<1>4. Named'
  BY <1>1 DEF Inv, TypeOK, Named, Empty
<1>5. NoLitter'
  BY <1>1, Constants DEF Inv, TypeOK, NoLitter, Writing, Empty, On
<1>6. ASSUME NEW v \in Worker PROVE Sound(v)'
  <2>1. pc[v] # "off" => files'[On(v)] = files[On(v)]
    BY <1>1, OnDisk DEF Inv, TypeOK
  <2>2. QED
    BY <1>1, <2>1, OthersSound DEF Inv
<1>7. QED
  BY <1>2, <1>3, <1>4, <1>5, <1>6 DEF Inv

LEMMA NextInv == Inv /\ [Next]_vars => Inv'
<1> SUFFICES ASSUME Inv, [Next]_vars PROVE Inv'
  OBVIOUS
<1>1. ASSUME NEW w \in Worker, Fit(w) PROVE Inv'
  BY <1>1, RestoreStep, FetchCachedStep, FetchStep, CopiedStep, TrainStep,
     SaveModelStep, ModelSavedStep, SaveStep, LoadStep, EndStep DEF Fit
<1>2. ASSUME NEW w \in Worker, Deliver(w) \/ Raise(w) \/ Crash(w) PROVE Inv'
  BY <1>2, DeliverStep, EndStep, CrashStep
<1>3. ASSUME NEW a \in Asks, AskAgain(a) PROVE Inv'
  BY <1>3, AskAgainStep
<1>4. ASSUME NEW d \in Disk, CacheCleared(d) PROVE Inv'
  BY <1>4, CacheClearedStep
<1>5. CASE UNCHANGED vars
  <2>1. /\ Stored' = Stored /\ TypeOK'
        /\ UNCHANGED <<site, asked, past, stored, files, pc, ask, done, model>>
    BY <1>5 DEF vars, Stored, Inv, TypeOK
  <2>2. \A v \in Worker : Sound(v)'
    BY <2>1, OthersSound DEF Inv
  <2>3. Alone' /\ Named' /\ StoredWhole' /\ AllAsked' /\ NoLitter'
    BY <2>1 DEF Inv, Alone, Named, StoredWhole, AllAsked, NoLitter, Writing, On
  <2>4. QED
    BY <2>1, <2>2, <2>3 DEF Inv
<1>6. QED
  BY <1>1, <1>2, <1>3, <1>4, <1>5 DEF Next

LEMMA InvHolds == Spec => []Inv
BY InitInv, NextInv, PTL DEF Spec

-----------------------------------------------------------------------------
(* Whatever processes are killed, wherever their disks are and whatever the *)
(* runs ask, a checkpoint in the store has the rounds of its name           *)
(* (ckpt.py:35-36, 53-58).                                                  *)
THEOREM CheckpointsAreWhole == Spec => []StoredWhole
<1>1. Inv => StoredWhole
  BY DEF Inv
<1>2. QED
  BY <1>1, InvHolds, PTL

(* A fit returns the rounds it was asked for, unless some run asked for     *)
(* more under the same key (ckpt.py:38-60).                                 *)
THEOREM FitsAnswer == Spec => []FitAnswers
<1>1. Inv => FitAnswers
  <2> SUFFICES ASSUME Inv, NEW w \in Worker, Returning(w), model[w] # ask[w].rounds
               PROVE  \E a \in past : a.rounds > ask[w].rounds
    BY DEF FitAnswers
  <2>1. /\ model[w] = done[w] /\ done[w] >= ask[w].rounds /\ done[w] \in Nat
        /\ ask[w].rounds \in Nat /\ \A a \in past : a.rounds \in Nat
    BY Constants DEF Inv, TypeOK, Sound, Knows, Returning
  <2>2. PICK a \in past : done[w] <= a.rounds
    BY DEF Inv, Sound, Knows, Returning
  <2>3. QED
    BY <2>1, <2>2
<1>2. QED
  BY <1>1, InvHolds, PTL

(* On one machine a fit always goes on from the last block that was stored  *)
(* (ckpt.py:3-8, 38-52).                                                    *)
THEOREM NoBlockTwice == Spec => []ResumesAtLatest
<1>1. Inv => ResumesAtLatest
  BY DEF Inv, Sound, IsAhead, ResumesAtLatest, OneMachine
<1>2. QED
  BY <1>1, InvHolds, PTL

(* Where disks go with their processes, what a fit continues from is whole, *)
(* although get_file trusts whatever file it finds (store.py:42-52).        *)
THEOREM RestoredIsWhole == Spec => []RestoresWhole
<1>1. Inv => RestoresWhole
  <2> SUFFICES ASSUME Inv, site.wiped, NEW w \in Worker, pc[w] = "loop", done[w] > 0
               PROVE  Local(w) = done[w]
    BY DEF RestoresWhole
  <2>1. done[w] \in Round
    BY Constants DEF Inv, TypeOK, Round
  <2>2. Local(w) # Torn
    BY <2>1, NoneTorn DEF Local
  <2>3. QED
    BY <2>2 DEF Inv, Sound, HasFile
<1>2. QED
  BY <1>1, InvHolds, PTL
=============================================================================
