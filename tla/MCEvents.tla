------------------------------ MODULE MCEvents ------------------------------
(* Instances of Events for TLC: a stage of two chunks. *)
EXTENDS Events

CONSTANTS a, b

TwoChunks == <<a, b>>
NoParts == [t \in Task |-> <<>>]
=============================================================================
