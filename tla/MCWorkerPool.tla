---------------------------- MODULE MCWorkerPool ----------------------------
(* Instances of WorkerPool for TLC.  Worker threads are interchangeable,   *)
(* and so are tasks: the client may submit them in any order.              *)
EXTENDS WorkerPool

Symmetry == Permutations(Worker) \cup Permutations(Task)
=============================================================================
