----------------------------- MODULE MCStageRun -----------------------------
(* Instances of StageRun for TLC: a stage of two chunks, the first of which *)
(* packs two members and can be resplit.                                    *)
EXTENDS StageRun

CONSTANTS a, b, a1, a2

TwoChunks == <<a, b>>
PartsOfA == [t \in Task |-> IF t = a THEN <<a1, a2>> ELSE <<>>]

Symmetry == Permutations(Worker)
=============================================================================
