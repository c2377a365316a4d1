---------------------------- MODULE SubSequences ----------------------------
(***************************************************************************)
(* List comprehensions and counts over sequences, as the controller has    *)
(* them: [t for t in s if ...], s.count(t).                                *)
(***************************************************************************)
EXTENDS Naturals, SequencesExt, FiniteSets

(* What is at the places in P of the sequence s, in the order of s, and    *)
(* what of s is in S.                                                      *)
Nth(P, n) == CHOOSE i \in P : Cardinality({j \in P : j <= i}) = n
Pick(s, P) == [n \in 1 .. Cardinality(P) |-> s[Nth(P, n)]]
Only(s, S) == Pick(s, {i \in DOMAIN s : s[i] \in S})

(* Where, and how often, t occurs in s.                                    *)
Places(s, t) == {i \in DOMAIN s : s[i] = t}
Times(s, t) == Cardinality(Places(s, t))
=============================================================================
