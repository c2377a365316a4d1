---------------------------- MODULE MCCheckpoint ----------------------------
(* Instances of Checkpoint for TLC: two workers on one machine with the     *)
(* local store, in two containers, or on two machines that share a bucket.  *)
EXTENDS Checkpoint

CONSTANTS v, w, d1, d2

Apart == [u \in Worker |-> IF u = v THEN d1 ELSE d2]
ThreeSites == {
    [on |-> [u \in Worker |-> d1], wiped |-> FALSE, s3 |-> FALSE],
    [on |-> Apart, wiped |-> TRUE, s3 |-> TRUE],
    [on |-> Apart, wiped |-> FALSE, s3 |-> TRUE]}

(* Two blocks of which the last is a short one; fewer rounds, in other      *)
(* blocks.                                                                  *)
TwoAsks == {[rounds |-> 3, every |-> 2], [rounds |-> 2, every |-> 1]}
=============================================================================
