------------------------------- MODULE MCPush -------------------------------
(* An instance of Push for TLC: two callbacks, the second of which fails    *)
(* and only wants the failures, and two streams, the second filtered too.   *)
EXTENDS Push

CONSTANTS h, flaky, s, t

AskedHere == [c \in Client |-> IF c \in {h, s} THEN {} ELSE {"failed"}]
KindsHere == {{"task", "failed"}, {"run_done"}}
=============================================================================
