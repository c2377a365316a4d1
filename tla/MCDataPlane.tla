---------------------------- MODULE MCDataPlane ----------------------------
(* Instances of DataPlane for TLC.                                          *)
EXTENDS DataPlane

(* A stage that packs the source, one with a chunk for each of its chunks,  *)
(* and one that packs those of the first.                                   *)
Fork == <<0, 1, 1>>
PackKeepPack == <<2, 0, 1>>

(* A stage with a chunk for each member of the source, and one that packs   *)
(* those chunks.                                                            *)
Chain == <<0, 1>>
NoneTwo == <<0, 2>>


Symmetry == Permutations(Worker)
=============================================================================
