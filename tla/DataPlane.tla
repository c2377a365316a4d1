------------------------------ MODULE DataPlane ------------------------------
(***************************************************************************)
(* What the chunks of a pipeline hold: planning (partition.py,             *)
(* Controller._plan), the input and output of a task (context.py,          *)
(* PartWriter in store.py) and the runs of a pipeline that begin where an  *)
(* earlier one was cut short (Controller.run, markers.py).                 *)
(*                                                                         *)
(* The pipeline is a source and its stages, numbered in topo_order.  The   *)
(* task plane is reduced to what LeasedQueue and StageRun show it to be:   *)
(* a planned chunk may be run, and run again, by any worker until it is    *)
(* marked done, a worker may stop at any time, a lapsed lease may give a   *)
(* chunk to two workers at once, and one that keeps failing may be split   *)
(* into its members or skipped.                                            *)
(*                                                                         *)
(* The function of every stage passes its input on, row by row.            *)
(***************************************************************************)
EXTENDS SubSequences

CONSTANTS
    Reads,      \* what each stage reads: an earlier stage, or 0, the source
    Target,     \* target_rows of each stage; 0 when it is not given
    Cap,        \* cap_rows, the rows of a part
    Worker,     \* the workers
    Idle,       \* what a worker that runs nothing runs
    Weights,    \* the rows a member of the source may have
    MaxMembers, \* bound: members of the source
    MaxRuns,    \* bound: runs of the pipeline
    MaxFixes    \* bound: chunks split or skipped

Stage == DOMAIN Reads

ASSUME DataAssumption ==
    /\ Reads \in Seq(Nat) /\ Reads # <<>>
    /\ \A s \in Stage : Reads[s] < s
    /\ Target \in [Stage -> Nat]
    /\ Cap \in Nat \ {0}
    /\ Weights \subseteq Nat \ {0} /\ Weights # {} /\ IsFiniteSet(Weights)
    /\ {MaxMembers, MaxRuns, MaxFixes} \subseteq Nat

VARIABLES
    source,     \* the weights of the source's members, which it enumerates
    manifest,   \* the _manifest.json of each stage
    parts,      \* the part files of each chunk, as sequences of rows
    results,    \* chunks with a completion marker
    stage,      \* the stage that runs; 0 between two runs
    runs,       \* runs begun
    tasks,      \* the stage's tasks: chunks with their members
    exec,       \* what each worker runs: its task, its input left, its writer
    fixes,      \* chunks split or skipped
    lost,       \* history: the rows that each stage of this run has skipped
    moved       \* history: the stages, and the source as 0, whose chunks a
                \* later run has found changed

vars == <<source, manifest, parts, results, stage, runs, tasks, exec, fixes, lost, moved>>

(* A member of the source has its place for an id, from 1.  A chunk of a   *)
(* stage has the id of its member, or when pack makes it its own place,    *)
(* from 0; a part of it adds the place of its member.  A task's key is its *)
(* stage and its id.                                                       *)
Place == 0 .. MaxMembers
Id == {<<n>> : n \in Place} \cup (Place \X Place)
Key == Stage \X Id

MostRows == MaxMembers * (CHOOSE n \in Weights : \A m \in Weights : m <= n)
Row == (1 .. MaxMembers) \X (1 .. MostRows)
Weight == Nat \ {0}
Chunk == [id : Id, weight : Weight]
Task == [id : Id, weight : Weight, members : Seq(Id), stage : Stage]
Attempt == [task : Task, feed : Seq(Row), buf : Seq(Row), part : Nat, closed : BOOLEAN]

Finished == Len(Reads) + 1

TypeOK ==
    /\ source \in Seq(Weights) /\ Len(source) <= MaxMembers
    /\ \A s \in Stage : manifest[s] \in Seq(Chunk)
    /\ \A k \in Key : parts[k] \in Seq(Seq(Row))
    /\ results \subseteq Key
    /\ stage \in 0 .. Finished
    /\ runs \in 0 .. MaxRuns
    /\ tasks \in Seq(Task)
    /\ \A w \in Worker : \/ exec[w] = Idle
                         \/ /\ exec[w] \in Attempt
                            /\ Len(exec[w].buf) < Cap
    /\ fixes \in 0 .. MaxFixes
    /\ lost \in [Stage -> SUBSET Row]
    /\ moved \subseteq {0} \cup Stage

Init ==
    /\ source \in BoundedSeq(Weights, MaxMembers)
    /\ manifest = [s \in Stage |-> <<>>]
    /\ parts = [k \in Key |-> <<>>]
    /\ results = {}
    /\ stage = 0
    /\ runs = 0
    /\ tasks = <<>>
    /\ exec = [w \in Worker |-> Idle]
    /\ fixes = 0
    /\ lost = [s \in Stage |-> {}]
    /\ moved = {}

-----------------------------------------------------------------------------
(* partition.py. *)

Ids(chunks) == [i \in DOMAIN chunks |-> chunks[i].id]

OneToOne(chunks) ==
    [i \in DOMAIN chunks |->
        [id |-> chunks[i].id, members |-> <<chunks[i].id>>, weight |-> chunks[i].weight]]

(* What pack has in hand: the chunks made, and the one it fills. *)
NothingPacked == [out |-> <<>>, cur |-> <<>>, weight |-> 0]

Flush(p) ==
    IF p.cur = <<>> THEN p
    ELSE [NothingPacked EXCEPT !.out =
            Append(p.out, [id |-> <<Len(p.out)>>, members |-> p.cur, weight |-> p.weight])]

Add(p, m) == [p EXCEPT !.cur = Append(@, m.id), !.weight = @ + m.weight]

(* Slip: the weight is looked at after the member is in. *)
PackOver(chunks, target) ==
    LET Step(p, m) == Add(IF p.weight > target THEN Flush(p) ELSE p, m)
    IN  Flush(FoldLeft(Step, NothingPacked, chunks)).out

Pack(chunks, target) ==
    LET Step(p, m) == Add(IF p.weight + m.weight > target THEN Flush(p) ELSE p, m)
    IN  Flush(FoldLeft(Step, NothingPacked, chunks)).out

-----------------------------------------------------------------------------
(* Controller. *)

UpstreamChunks(s) ==
    IF Reads[s] = 0 THEN [i \in DOMAIN source |-> [id |-> <<i>>, weight |-> source[i]]]
    ELSE manifest[Reads[s]]

Entries(chunks) == [i \in DOMAIN chunks |-> [id |-> chunks[i].id, weight |-> chunks[i].weight]]

Chunks(s) ==
    IF Target[s] > 0 THEN Pack(UpstreamChunks(s), Target[s]) ELSE OneToOne(UpstreamChunks(s))

TasksOf(s, chunks) ==
    [i \in DOMAIN chunks |->
        [id |-> chunks[i].id, weight |-> chunks[i].weight,
         members |-> chunks[i].members, stage |-> s]]

(* _plan: the manifest is written anew, without the members.               *)
Plan(s) ==
    /\ manifest' = [manifest EXCEPT ![s] = Entries(Chunks(s))]
    /\ tasks' = TasksOf(s, Chunks(s))
    /\ stage' = s
    /\ moved' = IF manifest[s] \in {<<>>, manifest'[s]} THEN moved ELSE moved \cup {s}

KeyOf(t) == <<t.stage, t.id>>
HasResult(t) == KeyOf(t) \in results

StartRun ==
    /\ stage \in {0, Finished}
    /\ runs < MaxRuns
    /\ runs' = runs + 1
    /\ Plan(1)
    /\ lost' = [s \in Stage |-> {}]
    /\ UNCHANGED <<source, parts, results, exec, fixes>>

(* Every task of the stage is marked done: on with the next stage. *)
StageDone ==
    /\ stage \in Stage
    /\ \A t \in ToSet(tasks) : HasResult(t)
    /\ \/ /\ stage + 1 \in Stage
          /\ Plan(stage + 1)
       \/ /\ stage + 1 = Finished
          /\ stage' = Finished
          /\ tasks' = <<>>
          /\ UNCHANGED <<manifest, moved>>
    /\ UNCHANGED <<source, parts, results, runs, exec, fixes, lost>>

(* The run ends early: a stage raises, or the controller is killed. *)
RunCutShort ==
    /\ stage \in Stage
    /\ stage' = 0
    /\ tasks' = <<>>
    /\ UNCHANGED <<source, manifest, parts, results, runs, exec, fixes, lost, moved>>

(* Outside the program: the source enumerates one more member. *)
SourceGrows ==
    /\ stage \in {0, Finished} /\ runs > 0
    /\ Len(source) < MaxMembers
    /\ \E n \in Weights : source' = Append(source, n)
    /\ moved' = moved \cup {0}
    /\ stage' = 0
    /\ UNCHANGED <<manifest, parts, results, runs, tasks, exec, fixes, lost>>

-----------------------------------------------------------------------------
(* What a task reads. *)

MemberRows(m) == [k \in 1 .. source[m] |-> <<m, k>>]
ChunkRows(k) == FlattenSeq(parts[k])

(* Ctx.input: of a source by its reader, of a stage by listing the prefix  *)
(* of each member.                                                         *)
Input(s, members) ==
    FlattenSeq([i \in DOMAIN members |->
        IF Reads[s] = 0 THEN MemberRows(members[i][1])
        ELSE ChunkRows(<<Reads[s], members[i]>>)])

-----------------------------------------------------------------------------
(* The remediations of a chunk that keeps failing (StageRun has when).      *)

Without(seq, id) == Only(seq, {c \in ToSet(seq) : c.id # id})

PartsOf(t) ==
    [j \in DOMAIN t.members |->
        [id |-> Append(t.id, j - 1), weight |-> t.weight \div Len(t.members),
         members |-> <<t.members[j]>>, stage |-> t.stage]]

(* Slip: the chunk stays in the manifest beside its parts. *)
ReplaceBeside(t, new) ==
    /\ manifest' = [manifest EXCEPT ![t.stage] = @ \o Entries(new)]
    /\ tasks' = Without(tasks, t.id) \o new

(* _manifest_replace, and the stage waits for what is new instead.          *)
Replace(t, new) ==
    /\ manifest' = [manifest EXCEPT ![t.stage] = Without(@, t.id) \o Entries(new)]
    /\ tasks' = Without(tasks, t.id) \o new

Resplit(t) ==
    /\ Len(t.members) > 1
    /\ Replace(t, PartsOf(t))
    /\ UNCHANGED lost

Skip(t) ==
    /\ Replace(t, <<>>)
    /\ lost' = [lost EXCEPT ![t.stage] = @ \cup ToSet(Input(t.stage, t.members))]

Remediate ==
    /\ fixes < MaxFixes
    /\ fixes' = fixes + 1
    /\ \E t \in ToSet(tasks) : ~HasResult(t) /\ (Resplit(t) \/ Skip(t))
    /\ UNCHANGED <<source, parts, results, stage, runs, exec, moved>>

-----------------------------------------------------------------------------
(* A worker: run_task, with Ctx and PartWriter. *)

Begin(w) ==
    /\ exec[w] = Idle
    /\ \E t \in ToSet(tasks) :
          /\ ~HasResult(t)
          /\ exec' = [exec EXCEPT ![w] =
                [task |-> t, feed |-> Input(t.stage, t.members),
                 buf |-> <<>>, part |-> 0, closed |-> FALSE]]
    /\ UNCHANGED <<source, manifest, parts, results, stage, runs, tasks, fixes, lost, moved>>

(* Slip: a part goes after those that an earlier attempt has left. *)
PutPartAfter(k, n, rows) == [parts EXCEPT ![k] = Append(@, rows)]

(* put_bytes of part n of a chunk, over the one of an earlier attempt. *)
PutPart(k, n, rows) ==
    [parts EXCEPT ![k] = IF n < Len(@) THEN [@ EXCEPT ![n + 1] = rows] ELSE Append(@, rows)]

(* _flush of the rows in the buffer. *)
WritePart(w, rows) ==
    parts' = PutPart(KeyOf(exec[w].task), exec[w].part, rows)

(* Slip: a part is one row too long. *)
WriteRowOver(w) ==
    /\ exec[w] # Idle
    /\ exec[w].feed # <<>>
    /\ LET buf == Append(exec[w].buf, Head(exec[w].feed))
           full == Len(buf) > Cap
       IN  /\ exec' = [exec EXCEPT ![w].feed = Tail(@),
                                   ![w].buf = IF full THEN <<>> ELSE buf,
                                   ![w].part = IF full THEN @ + 1 ELSE @]
           /\ IF full THEN WritePart(w, buf) ELSE UNCHANGED parts
    /\ UNCHANGED <<source, manifest, results, stage, runs, tasks, fixes, lost, moved>>

(* PartWriter.write of the next row. *)
WriteRow(w) ==
    /\ exec[w] # Idle
    /\ exec[w].feed # <<>>
    /\ LET buf == Append(exec[w].buf, Head(exec[w].feed))
           full == Len(buf) >= Cap
       IN  /\ exec' = [exec EXCEPT ![w].feed = Tail(@),
                                   ![w].buf = IF full THEN <<>> ELSE buf,
                                   ![w].part = IF full THEN @ + 1 ELSE @]
           /\ IF full THEN WritePart(w, buf) ELSE UNCHANGED parts
    /\ UNCHANGED <<source, manifest, results, stage, runs, tasks, fixes, lost, moved>>

(* Ctx.finalize: PartWriter.close flushes what is left. *)
Finalize(w) ==
    /\ exec[w] # Idle
    /\ exec[w].feed = <<>> /\ ~exec[w].closed
    /\ exec' = [exec EXCEPT ![w].closed = TRUE, ![w].buf = <<>>]
    /\ IF exec[w].buf = <<>> THEN UNCHANGED parts ELSE WritePart(w, exec[w].buf)
    /\ UNCHANGED <<source, manifest, results, stage, runs, tasks, fixes, lost, moved>>

(* write_result. *)
Mark(w) ==
    /\ exec[w] # Idle
    /\ exec[w].closed
    /\ results' = results \cup {KeyOf(exec[w].task)}
    /\ exec' = [exec EXCEPT ![w] = Idle]
    /\ UNCHANGED <<source, manifest, parts, stage, runs, tasks, fixes, lost, moved>>

(* The attempt ends before its marker: the function or the worker fails. *)
Fail(w) ==
    /\ exec[w] # Idle
    /\ exec' = [exec EXCEPT ![w] = Idle]
    /\ UNCHANGED <<source, manifest, parts, results, stage, runs, tasks, fixes, lost, moved>>

WorkerStep(w) ==
    Begin(w) \/ WriteRow(w) \/ Finalize(w) \/ Mark(w) \/ Fail(w)

Next ==
    \/ StartRun \/ StageDone \/ RunCutShort \/ SourceGrows \/ Remediate
    \/ \E w \in Worker : WorkerStep(w)

Spec == Init /\ [][Next]_vars

-----------------------------------------------------------------------------
(* Packing keeps every member, in order and once, and weighs what it packs;*)
(* a chunk is heavier than the target only if it is a single member, and   *)
(* was closed only because the next member did not fit: of any list of     *)
(* chunks, so that it is enough to look before the first run               *)
(* (partition.py:43-74).                                                   *)
PackSound ==
    runs = 0 =>
        \A weights \in BoundedSeq(Weights, 2 * MaxMembers), target \in 1 .. MostRows :
            LET up == [i \in DOMAIN weights |-> [id |-> i, weight |-> weights[i]]]
                chunks == Pack(up, target)
                Rows(m) == [k \in 1 .. weights[m] |-> <<m, k>>]
                WeightOf(ids) == Len(FlattenSeq([j \in DOMAIN ids |-> Rows(ids[j])]))
            IN  /\ FlattenSeq([i \in DOMAIN chunks |-> chunks[i].members]) = Ids(up)
                /\ \A i \in DOMAIN chunks :
                      /\ chunks[i].weight = WeightOf(chunks[i].members)
                      /\ chunks[i].weight <= target \/ Len(chunks[i].members) = 1
                      /\ i > 1 => chunks[i - 1].weight
                                    + weights[Head(chunks[i].members)] > target

(* The output of a stage: the rows a stage that reads it would read. *)
Output(s) ==
    FlattenSeq([i \in DOMAIN manifest[s] |-> ChunkRows(<<s, manifest[s][i].id>>)])

SourceRows == FlattenSeq([m \in DOMAIN source |-> MemberRows(m)])

(* No stage on the way to s packs chunks that another run found changed. *)
Settled[s \in 0 .. Len(Reads)] ==
    s = 0 \/ (Settled[Reads[s]] /\ (Target[s] = 0 \/ Reads[s] \notin moved))

Unsplit[s \in 0 .. Len(Reads)] ==
    s = 0 \/ (Unsplit[Reads[s]] /\ \A c \in ToSet(manifest[s]) : Len(c.id) = 1)

LostBefore[s \in 0 .. Len(Reads)] ==
    IF s = 0 THEN {} ELSE lost[s] \cup LostBefore[Reads[s]]

(* Resume: once a run is past a stage, the stage's output is every row of  *)
(* the source once, but for those this run has skipped, and in order unless*)
(* a chunk was split: whatever workers failed, whichever two ran the same  *)
(* chunk, wherever earlier runs were cut short, and though the plan undoes *)
(* what they split or skipped.  But a stage that packs must find the chunks*)
(* it packs as the earlier runs did (README.md:14, controller.py:105,      *)
(* 225-227, 336-340, worker.py:52-61).                                     *)
ResumeComplete ==
    \A s \in Stage : s < stage /\ Settled[s] =>
        LET kept == Only(SourceRows, Row \ LostBefore[s])
        IN  /\ Len(Output(s)) = Len(kept) /\ ToSet(Output(s)) = ToSet(kept)
            /\ Unsplit[s] => Output(s) = kept

(* While it may be resumed from, the data of a chunk that is marked done   *)
(* does not change any more, though another worker may still be writing it *)
(* after its lease lapsed (store.py:175-182, worker.py:52-61).             *)
DoneIsFrozen ==
    [][\A k \in results : Settled[k[1]] => parts'[k] = parts[k]]_vars

(* What the README says, "completion markers skip already-done chunks on   *)
(* re-run" (README.md:14), of chunks whose id is "stable within a stage"   *)
(* (partition.py:22): a chunk that is skipped has been done.  The chunks   *)
(* that pack makes are numbered, and the number of one stays the same when *)
(* its members change.                                                     *)
SkippedIsDone == \A s \in Stage : s < stage => Output(s) = SourceRows
=============================================================================
