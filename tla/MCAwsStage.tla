----------------------------- MODULE MCAwsStage -----------------------------
(* Instances of AwsStage for TLC: stages of two chunks and of one.          *)
EXTENDS AwsStage

CONSTANTS a, b

TwoChunks == <<a, b>>
OneChunk == <<a>>

Symmetry == Permutations(Job)
=============================================================================
