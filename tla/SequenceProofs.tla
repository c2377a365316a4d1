--------------------------- MODULE SequenceProofs ---------------------------
(***************************************************************************)
(* Facts about sequences: their sets of elements, how often an element     *)
(* occurs in one, what Pick and Only pick, what FlattenSeq comes to, and   *)
(* what a function spreads the elements of one to.                         *)
(***************************************************************************)
EXTENDS SubSequences, FiniteSetTheorems, SequenceTheorems, TLAPS

(* An enumeration of a finite set is a sequence of exactly its elements,   *)
(* each once.                                                              *)
LEMMA Enumeration ==
  ASSUME NEW S, IsFiniteSet(S), NEW s \in SetToSeqs(S)
  PROVE  /\ s \in Seq(S)
         /\ ToSet(s) = S
         /\ IsInjective(s)
<1> DEFINE n == Cardinality(S)
<1>1. n \in Nat
  BY FS_CardinalityType
<1>2. /\ s \in [1..n -> S]
      /\ \A i, j \in 1..n : i # j => s[i] # s[j]
  BY DEF SetToSeqs
<1>3. s \in Seq(S) /\ DOMAIN s = 1..n
  BY <1>1, <1>2
<1>4. s \in Injection(1..n, S)
  BY <1>2 DEF Injection, IsInjective
<1>5. IsFiniteSet(1..n) /\ Cardinality(1..n) = n
  BY <1>1, FS_Interval
<1>6. s \in Surjection(1..n, S)
  BY <1>4, <1>5, FS_Injection
<1>7. ToSet(s) = S
  BY <1>2, <1>3, <1>6 DEF ToSet, Surjection
<1>8. QED
  BY <1>2, <1>3, <1>7 DEF IsInjective

(* What a concatenation holds, and when it holds nothing twice.            *)
LEMMA ConcatSet ==
  ASSUME NEW S, NEW s \in Seq(S), NEW r \in Seq(S)
  PROVE  /\ s \o r \in Seq(S)
         /\ ToSet(s \o r) = ToSet(s) \cup ToSet(r)
         /\ IsInjective(s) /\ IsInjective(r) /\ ToSet(s) \cap ToSet(r) = {}
              => IsInjective(s \o r)
<1> DEFINE c == s \o r
<1>1. /\ c \in Seq(S)
      /\ Len(c) = Len(s) + Len(r)
      /\ \A i \in 1 .. Len(s) + Len(r) :
            c[i] = IF i <= Len(s) THEN s[i] ELSE r[i - Len(s)]
  BY ConcatProperties
<1>2. /\ Len(s) \in Nat /\ DOMAIN s = 1 .. Len(s)
      /\ Len(r) \in Nat /\ DOMAIN r = 1 .. Len(r)
      /\ DOMAIN c = 1 .. Len(s) + Len(r)
  BY <1>1, LenProperties
<1> HIDE DEF c
<1>3. ToSet(c) = ToSet(s) \cup ToSet(r)
  <2>1. ASSUME NEW x \in ToSet(c) PROVE x \in ToSet(s) \cup ToSet(r)
    <3>1. PICK i \in 1 .. Len(s) + Len(r) : x = c[i]
      BY <1>2 DEF ToSet
    <3>2. CASE i <= Len(s)
      BY <3>1, <3>2, <1>1, <1>2 DEF ToSet
    <3>3. CASE i > Len(s)
      <4>1. i - Len(s) \in 1 .. Len(r) /\ x = r[i - Len(s)]
        BY <3>1, <3>3, <1>1, <1>2
      <4>2. QED
        BY <4>1, <1>2 DEF ToSet
    <3>4. QED
      BY <3>1, <3>2, <3>3, <1>2
  <2>2. ASSUME NEW x \in ToSet(s) PROVE x \in ToSet(c)
    <3>1. PICK i \in 1 .. Len(s) : x = s[i]
      BY <1>2 DEF ToSet
    <3>2. i \in 1 .. Len(s) + Len(r) /\ x = c[i]
      BY <3>1, <1>1, <1>2
    <3>3. QED
      BY <3>2, <1>2 DEF ToSet
  <2>3. ASSUME NEW x \in ToSet(r) PROVE x \in ToSet(c)
    <3>1. PICK i \in 1 .. Len(r) : x = r[i]
      BY <1>2 DEF ToSet
    <3>2. /\ i + Len(s) \in 1 .. Len(s) + Len(r)
          /\ ~(i + Len(s) <= Len(s))
          /\ (i + Len(s)) - Len(s) = i
      BY <1>2
    <3>3. x = c[i + Len(s)]
      BY <3>1, <3>2, <1>1
    <3>4. QED
      BY <3>2, <3>3, <1>2 DEF ToSet
  <2>4. QED
    BY <2>1, <2>2, <2>3
<1>4. ASSUME IsInjective(s), IsInjective(r), ToSet(s) \cap ToSet(r) = {},
             NEW i \in DOMAIN c, NEW j \in DOMAIN c, c[i] = c[j]
      PROVE  i = j
  <2>1. \A k \in DOMAIN c :
            \/ k \in 1 .. Len(s) /\ c[k] = s[k] /\ c[k] \in ToSet(s)
            \/ /\ k - Len(s) \in 1 .. Len(r) /\ c[k] = r[k - Len(s)]
               /\ c[k] \in ToSet(r)
    <3> TAKE k \in DOMAIN c
    <3>1. CASE k <= Len(s)
      BY <3>1, <1>1, <1>2 DEF ToSet
    <3>2. CASE k > Len(s)
      <4>1. k - Len(s) \in 1 .. Len(r) /\ c[k] = r[k - Len(s)]
        BY <3>2, <1>1, <1>2
      <4>2. QED
        BY <4>1, <1>2 DEF ToSet
    <3>3. QED
      BY <3>1, <3>2, <1>2
  <2>2. CASE i \in 1 .. Len(s) /\ c[i] = s[i] /\ c[i] \in ToSet(s)
    <3>1. j \in 1 .. Len(s) /\ c[j] = s[j]
      BY <2>1, <2>2, <1>4
    <3>2. QED
      BY <2>2, <3>1, <1>2, <1>4 DEF IsInjective
  <2>3. CASE /\ i - Len(s) \in 1 .. Len(r) /\ c[i] = r[i - Len(s)]
             /\ c[i] \in ToSet(r)
    <3>1. j - Len(s) \in 1 .. Len(r) /\ c[j] = r[j - Len(s)]
      BY <2>1, <2>3, <1>4
    <3>2. i - Len(s) = j - Len(s)
      BY <2>3, <3>1, <1>2, <1>4 DEF IsInjective
    <3>3. QED
      BY <3>2, <1>2
  <2>4. QED
    BY <2>1, <2>2, <2>3
<1>5. QED
  BY <1>1, <1>3, <1>4 DEF IsInjective, c

LEMMA AppendSet ==
  ASSUME NEW S, NEW s \in Seq(S), NEW e \in S
  PROVE  /\ Append(s, e) \in Seq(S)
         /\ ToSet(Append(s, e)) = ToSet(s) \cup {e}
         /\ IsInjective(s) /\ e \notin ToSet(s) => IsInjective(Append(s, e))
<1>1. /\ Append(s, e) \in Seq(S)
      /\ Len(Append(s, e)) = Len(s) + 1
      /\ \A i \in 1 .. Len(s) : Append(s, e)[i] = s[i]
      /\ Append(s, e)[Len(s) + 1] = e
  BY AppendProperties
<1>2. Len(s) \in Nat /\ DOMAIN s = 1 .. Len(s)
  BY LenProperties
<1>3. DOMAIN Append(s, e) = 1 .. Len(s) + 1
  BY <1>1, LenProperties
<1>4. 1 .. Len(s) + 1 = (1 .. Len(s)) \cup {Len(s) + 1}
  BY <1>2
<1>5. ToSet(Append(s, e)) = ToSet(s) \cup {e}
  BY <1>1, <1>2, <1>3, <1>4 DEF ToSet
<1>6. ASSUME IsInjective(s), e \notin ToSet(s) PROVE IsInjective(Append(s, e))
  BY <1>1, <1>2, <1>3, <1>4, <1>6 DEF ToSet, IsInjective
<1>7. QED
  BY <1>1, <1>5, <1>6

LEMMA HeadTailSet ==
  ASSUME NEW S, NEW s \in Seq(S), s # <<>>
  PROVE  /\ Head(s) \in S
         /\ Tail(s) \in Seq(S)
         /\ ToSet(s) = {Head(s)} \cup ToSet(Tail(s))
         /\ IsInjective(s) => IsInjective(Tail(s)) /\ Head(s) \notin ToSet(Tail(s))
<1>1. /\ Head(s) \in S
      /\ Tail(s) \in Seq(S)
      /\ Len(Tail(s)) = Len(s) - 1
      /\ \A i \in 1 .. Len(Tail(s)) : Tail(s)[i] = s[i + 1]
  BY HeadTailProperties
<1>2. Len(s) \in Nat \ {0} /\ DOMAIN s = 1 .. Len(s)
  BY LenProperties, EmptySeq
<1>3. DOMAIN Tail(s) = 1 .. Len(s) - 1
  BY <1>1, LenProperties
<1>4. Head(s) = s[1]
  BY <1>2
<1>5. \A i \in 1 .. Len(s) - 1 : i + 1 \in 1 .. Len(s) /\ Tail(s)[i] = s[i + 1]
  BY <1>1, <1>2
<1>6. \A i \in 1 .. Len(s) : i = 1 \/ (i - 1 \in 1 .. Len(s) - 1 /\ s[i] = Tail(s)[i - 1])
  BY <1>1, <1>2
<1>7. 1 \in 1 .. Len(s)
  BY <1>2
<1>8. ToSet(s) = {Head(s)} \cup ToSet(Tail(s))
  <2>1. ASSUME NEW x \in ToSet(s) PROVE x \in {Head(s)} \cup ToSet(Tail(s))
    <3>1. PICK i \in 1 .. Len(s) : x = s[i]
      BY <1>2 DEF ToSet
    <3>2. CASE i = 1
      BY <3>1, <3>2, <1>4
    <3>3. CASE i - 1 \in 1 .. Len(s) - 1 /\ s[i] = Tail(s)[i - 1]
      BY <3>1, <3>3, <1>3 DEF ToSet
    <3>4. QED
      BY <3>2, <3>3, <1>6
  <2>2. Head(s) \in ToSet(s)
    BY <1>2, <1>4, <1>7 DEF ToSet
  <2>3. ToSet(Tail(s)) \subseteq ToSet(s)
    BY <1>2, <1>3, <1>5 DEF ToSet
  <2>4. QED
    BY <2>1, <2>2, <2>3
<1>9. ASSUME IsInjective(s)
      PROVE  IsInjective(Tail(s)) /\ Head(s) \notin ToSet(Tail(s))
  BY <1>2, <1>3, <1>4, <1>5, <1>7, <1>9 DEF ToSet, IsInjective
<1>10. QED
  BY <1>1, <1>8, <1>9

-----------------------------------------------------------------------------
(* How often an element occurs in a sequence.                              *)

LEMMA PlacesFinite ==
  ASSUME NEW S, NEW s \in Seq(S), NEW t
  PROVE  /\ IsFiniteSet(Places(s, t))
         /\ Times(s, t) \in Nat
         /\ t \in ToSet(s) <=> Times(s, t) > 0
<1>1. Len(s) \in Nat /\ DOMAIN s = 1 .. Len(s)
  BY LenProperties
<1>2. IsFiniteSet(1 .. Len(s))
  BY <1>1, FS_Interval
<1>3. IsFiniteSet(Places(s, t))
  BY <1>1, <1>2, FS_Subset DEF Places
<1>4. Times(s, t) \in Nat
  BY <1>3, FS_CardinalityType DEF Times
<1>5. t \in ToSet(s) <=> Places(s, t) # {}
  BY DEF ToSet, Places
<1>6. Times(s, t) = 0 <=> Places(s, t) = {}
  BY <1>3, FS_EmptySet DEF Times
<1>7. QED
  BY <1>3, <1>4, <1>5, <1>6

LEMMA AppendTimes ==
  ASSUME NEW S, NEW s \in Seq(S), NEW e \in S, NEW t
  PROVE  Times(Append(s, e), t) = Times(s, t) + IF t = e THEN 1 ELSE 0
<1> DEFINE a == Append(s, e)
<1>1. /\ a \in Seq(S)
      /\ Len(a) = Len(s) + 1
      /\ \A i \in 1 .. Len(s) : a[i] = s[i]
      /\ a[Len(s) + 1] = e
  BY AppendProperties
<1>2. Len(s) \in Nat /\ DOMAIN s = 1 .. Len(s) /\ DOMAIN a = 1 .. Len(s) + 1
  BY <1>1, LenProperties
<1>3. IsFiniteSet(Places(s, t)) /\ Times(s, t) \in Nat
  BY PlacesFinite
<1> HIDE DEF a
<1>4. CASE t = e
  <2>1. Places(a, t) = Places(s, t) \cup {Len(s) + 1}
    BY <1>1, <1>2, <1>4 DEF Places
  <2>2. Len(s) + 1 \notin Places(s, t)
    BY <1>2 DEF Places
  <2>3. Cardinality(Places(a, t)) = Cardinality(Places(s, t)) + 1
    BY <1>3, <2>1, <2>2, FS_AddElement
  <2>4. QED
    BY <1>4, <2>3 DEF Times, a
<1>5. CASE t # e
  <2>1. Places(a, t) = Places(s, t)
    BY <1>1, <1>2, <1>5 DEF Places
  <2>2. QED
    BY <1>3, <1>5, <2>1 DEF Times, a
<1>6. QED
  BY <1>4, <1>5

LEMMA TailTimes ==
  ASSUME NEW S, NEW s \in Seq(S), s # <<>>, NEW t
  PROVE  Times(s, t) = Times(Tail(s), t) + IF t = Head(s) THEN 1 ELSE 0
<1> DEFINE r == Tail(s)
           rest == Places(s, t) \ {1}
           f == [i \in Places(r, t) |-> i + 1]
<1>1. /\ Head(s) = s[1]
      /\ r \in Seq(S)
      /\ Len(r) = Len(s) - 1
      /\ \A i \in 1 .. Len(r) : r[i] = s[i + 1]
  BY HeadTailProperties
<1>2. Len(s) \in Nat /\ DOMAIN s = 1 .. Len(s) /\ DOMAIN r = 1 .. Len(s) - 1 /\ Len(s) > 0
  BY <1>1, LenProperties, EmptySeq
<1>3. /\ IsFiniteSet(Places(s, t)) /\ Times(s, t) \in Nat
      /\ IsFiniteSet(Places(r, t)) /\ Times(r, t) \in Nat
  BY <1>1, PlacesFinite
<1> HIDE DEF r
<1>4. Places(r, t) \subseteq Nat /\ Places(s, t) \subseteq Nat
  BY <1>2 DEF Places
<1>5. f \in [Places(r, t) -> rest]
  BY <1>1, <1>2 DEF Places
<1>6. \A i, j \in Places(r, t) : f[i] = f[j] => i = j
  BY <1>4
<1>7. \A k \in rest : \E i \in Places(r, t) : f[i] = k
  <2> SUFFICES ASSUME NEW k \in rest PROVE \E i \in Places(r, t) : f[i] = k
    OBVIOUS
  <2>1. k \in 2 .. Len(s) /\ s[k] = t
    BY <1>2 DEF Places
  <2>2. k - 1 \in 1 .. Len(s) - 1 /\ (k - 1) + 1 = k
    BY <1>2, <2>1
  <2>3. k - 1 \in Places(r, t)
    BY <1>1, <1>2, <2>1, <2>2 DEF Places
  <2>4. QED
    BY <2>2, <2>3
<1>8. f \in Bijection(Places(r, t), rest)
  BY <1>5, <1>6, <1>7 DEF Bijection, Injection, Surjection, IsInjective
<1>9. Cardinality(rest) = Cardinality(Places(r, t))
  BY <1>3, <1>8, FS_Bijection DEF ExistsBijection
<1>10. 1 \in Places(s, t) <=> t = Head(s)
  BY <1>1, <1>2 DEF Places
<1>11. Cardinality(rest) = IF t = Head(s) THEN Times(s, t) - 1 ELSE Times(s, t)
  BY <1>3, <1>10, FS_RemoveElement DEF Times
<1>12. QED
  BY <1>3, <1>9, <1>11 DEF Times, r

(* An enumeration of R put at the end adds each of its elements once.      *)
LEMMA EnumerationTimes ==
  ASSUME NEW S, NEW s \in Seq(S), NEW R \in SUBSET S, IsFiniteSet(R),
         NEW b \in SetToSeqs(R), NEW t
  PROVE  Times(s \o b, t) = Times(s, t) + IF t \in R THEN 1 ELSE 0
<1> DEFINE c == s \o b
<1>1. b \in Seq(R) /\ ToSet(b) = R /\ IsInjective(b)
  BY Enumeration
<1>2. b \in Seq(S) /\ Len(b) \in Nat /\ DOMAIN b = 1 .. Len(b)
  BY <1>1, LenProperties, SeqDef
<1>3. Len(s) \in Nat /\ DOMAIN s = 1 .. Len(s)
  BY LenProperties
<1>4. /\ c \in Seq(S)
      /\ Len(c) = Len(s) + Len(b)
      /\ \A i \in 1 .. Len(s) + Len(b) :
            c[i] = IF i <= Len(s) THEN s[i] ELSE b[i - Len(s)]
  BY <1>2, ConcatProperties
<1>5. DOMAIN c = 1 .. Len(s) + Len(b)
  BY <1>4, LenProperties
<1>6. IsFiniteSet(Places(s, t)) /\ Times(s, t) \in Nat
  BY PlacesFinite
<1> HIDE DEF c
<1>7. \A i \in 1 .. Len(s) : c[i] = s[i]
  BY <1>2, <1>3, <1>4
<1>8. \A j \in 1 .. Len(b) : Len(s) + j \in DOMAIN c /\ c[Len(s) + j] = b[j]
  <2> SUFFICES ASSUME NEW j \in 1 .. Len(b)
               PROVE  Len(s) + j \in DOMAIN c /\ c[Len(s) + j] = b[j]
    OBVIOUS
  <2>1. /\ Len(s) + j \in 1 .. Len(s) + Len(b)
        /\ ~(Len(s) + j <= Len(s)) /\ (Len(s) + j) - Len(s) = j
    BY <1>2, <1>3
  <2>2. QED
    BY <1>4, <1>5, <2>1
<1>9. \A i \in DOMAIN c : i \in 1 .. Len(s) \/ \E j \in 1 .. Len(b) : i = Len(s) + j
  <2> SUFFICES ASSUME NEW i \in DOMAIN c, i \notin 1 .. Len(s)
               PROVE  \E j \in 1 .. Len(b) : i = Len(s) + j
    OBVIOUS
  <2>1. i - Len(s) \in 1 .. Len(b) /\ i = Len(s) + (i - Len(s))
    BY <1>2, <1>3, <1>5
  <2>2. QED
    BY <2>1
<1>10. DOMAIN s \subseteq DOMAIN c
  BY <1>2, <1>3, <1>5
<1>11. CASE t \in R
  <2>1. PICK j \in 1 .. Len(b) : b[j] = t
    BY <1>1, <1>2, <1>11 DEF ToSet
  <2>2. \A k \in 1 .. Len(b) : b[k] = t => k = j
    BY <1>2, <2>1, <1>1 DEF IsInjective
  <2>3. Places(c, t) = Places(s, t) \cup {Len(s) + j}
    <3>1. Len(s) + j \in Places(c, t)
      BY <1>8, <2>1 DEF Places
    <3>2. Places(s, t) \subseteq Places(c, t)
      BY <1>3, <1>7, <1>10 DEF Places
    <3>3. \A i \in Places(c, t) : i \in Places(s, t) \/ i = Len(s) + j
      <4> SUFFICES ASSUME NEW i \in Places(c, t), i \notin Places(s, t)
                   PROVE  i = Len(s) + j
        OBVIOUS
      <4>1. i \in DOMAIN c /\ c[i] = t
        BY DEF Places
      <4>2. i \notin 1 .. Len(s)
        BY <1>3, <1>7, <4>1 DEF Places
      <4>3. PICK k \in 1 .. Len(b) : i = Len(s) + k
        BY <1>9, <4>1, <4>2
      <4>4. b[k] = t
        BY <1>8, <4>1, <4>3
      <4>5. QED
        BY <2>2, <4>3, <4>4
    <3>4. QED
      BY <3>1, <3>2, <3>3
  <2>4. Len(s) + j \notin Places(s, t)
    BY <1>2, <1>3 DEF Places
  <2>5. Cardinality(Places(c, t)) = Cardinality(Places(s, t)) + 1
    BY <1>6, <2>3, <2>4, FS_AddElement
  <2>6. QED
    BY <1>11, <2>5 DEF Times, c
<1>12. CASE t \notin R
  <2>1. \A j \in 1 .. Len(b) : b[j] # t
    BY <1>1, <1>2, <1>12 DEF ToSet
  <2>2. Places(c, t) = Places(s, t)
    BY <1>3, <1>7, <1>8, <1>9, <1>10, <2>1 DEF Places
  <2>3. QED
    BY <1>6, <1>12, <2>2 DEF Times, c
<1>13. QED
  BY <1>11, <1>12

-----------------------------------------------------------------------------
(* What Pick and Only pick.                                                *)

LEMMA NthFacts ==
  ASSUME NEW m \in Nat, NEW P \in SUBSET (1 .. m)
  PROVE  /\ IsFiniteSet(P) /\ Cardinality(P) \in Nat
         /\ \A n \in 1 .. Cardinality(P) :
               /\ Nth(P, n) \in P
               /\ Cardinality({j \in P : j <= Nth(P, n)}) = n
         /\ \A i \in P : \E n \in 1 .. Cardinality(P) : Nth(P, n) = i
<1> DEFINE c == Cardinality(P)
           Upto(i) == {j \in P : j <= i}
           rank == [i \in P |-> Cardinality(Upto(i))]
<1>0. \A j \in P : j \in Int
  OBVIOUS
<1>1. IsFiniteSet(P) /\ c \in Nat
  <2>1. IsFiniteSet(1 .. m)
    BY FS_Interval
  <2>2. IsFiniteSet(P)
    BY <2>1, FS_Subset
  <2>3. QED
    BY <2>2, FS_CardinalityType
<1>2. ASSUME NEW i \in P
      PROVE  IsFiniteSet(Upto(i)) /\ Cardinality(Upto(i)) \in 1 .. c
  <2>1. Upto(i) \in SUBSET P /\ i \in Upto(i)
    OBVIOUS
  <2>2. IsFiniteSet(Upto(i)) /\ Cardinality(Upto(i)) <= c
    BY <1>1, <2>1, FS_Subset
  <2>3. Cardinality(Upto(i)) \in Nat /\ Cardinality(Upto(i)) # 0
    BY <2>1, <2>2, FS_CardinalityType, FS_EmptySet
  <2>4. QED
    BY <1>1, <2>2, <2>3
<1>3. ASSUME NEW i \in P, NEW k \in P, i < k
      PROVE  Cardinality(Upto(i)) # Cardinality(Upto(k))
  <2>1. Upto(i) \in SUBSET Upto(k) /\ k \in Upto(k) /\ k \notin Upto(i)
    <3>1. i \in Int /\ k \in Int
      BY <1>0
    <3>2. ASSUME NEW j \in P, j <= i PROVE j <= k
      BY <1>0, <1>3, <3>1, <3>2
    <3>3. ~(k <= i)
      BY <1>3, <3>1
    <3>4. Upto(i) \in SUBSET Upto(k)
      BY <3>2
    <3>5. k \in Upto(k)
      BY <3>1
    <3>6. k \notin Upto(i)
      BY <3>3
    <3>7. QED
      BY <3>4, <3>5, <3>6
  <2>2. QED
    BY <1>2, <2>1, FS_Subset
<1>4. rank \in Injection(P, 1 .. c)
  <2>1. rank \in [P -> 1 .. c]
    BY <1>2
  <2>2. \A i, k \in P : rank[i] = rank[k] => i = k
    <3> SUFFICES ASSUME NEW i \in P, NEW k \in P, i # k PROVE rank[i] # rank[k]
      OBVIOUS
    <3>1. i < k \/ k < i
      OBVIOUS
    <3>2. QED
      BY <1>3, <3>1
  <2>3. QED
    BY <2>1, <2>2 DEF Injection, IsInjective
<1>5. IsFiniteSet(1 .. c) /\ Cardinality(1 .. c) = c
  BY <1>1, FS_Interval
<1>6. rank \in Surjection(P, 1 .. c)
  BY <1>4, <1>5, FS_Injection
<1>7. ASSUME NEW n \in 1 .. c
      PROVE  Nth(P, n) \in P /\ Cardinality(Upto(Nth(P, n))) = n
  <2>1. \E i \in P : Cardinality(Upto(i)) = n
    BY <1>6 DEF Surjection
  <2>2. QED
    BY <2>1 DEF Nth
<1>8. ASSUME NEW i \in P PROVE \E n \in 1 .. c : Nth(P, n) = i
  <2>1. rank[i] \in 1 .. c
    BY <1>2
  <2>2. Nth(P, rank[i]) \in P /\ rank[Nth(P, rank[i])] = rank[i]
    BY <1>7, <2>1
  <2>3. Nth(P, rank[i]) = i
    BY <1>4, <2>2 DEF Injection, IsInjective
  <2>4. QED
    BY <2>1, <2>3
<1>9. QED
  BY <1>1, <1>7, <1>8

LEMMA PickFacts ==
  ASSUME NEW S, NEW s \in Seq(S), NEW P \in SUBSET DOMAIN s
  PROVE  /\ Pick(s, P) \in Seq(S)
         /\ \A t : t \in ToSet(Pick(s, P)) <=> \E i \in P : t = s[i]
         /\ \A t : Times(Pick(s, P), t) <= Cardinality(P \cap Places(s, t))
         /\ \A t : Times(Pick(s, P), t) <= Times(s, t)
<1> DEFINE c == Cardinality(P)
           p == Pick(s, P)
<1>1. Len(s) \in Nat /\ DOMAIN s = 1 .. Len(s) /\ \A i \in DOMAIN s : s[i] \in S
  BY LenProperties, ElementOfSeq
<1>2. /\ IsFiniteSet(P) /\ c \in Nat
      /\ \A n \in 1 .. c :
            Nth(P, n) \in P /\ Cardinality({j \in P : j <= Nth(P, n)}) = n
      /\ \A i \in P : \E n \in 1 .. c : Nth(P, n) = i
  BY <1>1, NthFacts
<1>3. DOMAIN p = 1 .. c /\ \A n \in 1 .. c : p[n] = s[Nth(P, n)]
  BY DEF Pick
<1>4. p \in Seq(S)
  <2>1. \A n \in 1 .. c : s[Nth(P, n)] \in S
    BY <1>1, <1>2
  <2>2. QED
    BY <1>2, <2>1, IsASeq DEF Pick
<1> HIDE DEF p, c
<1>5. ASSUME NEW t PROVE t \in ToSet(p) <=> \E i \in P : t = s[i]
  <2>1. t \in ToSet(p) <=> \E n \in 1 .. c : t = p[n]
    BY <1>3 DEF ToSet
  <2>2. ASSUME NEW n \in 1 .. c, t = p[n] PROVE \E i \in P : t = s[i]
    BY <1>2, <1>3, <2>2
  <2>3. ASSUME NEW i \in P, t = s[i] PROVE \E n \in 1 .. c : t = p[n]
    <3>1. PICK n \in 1 .. c : Nth(P, n) = i
      BY <1>2
    <3>2. QED
      BY <1>3, <2>3, <3>1
  <2>4. QED
    BY <2>1, <2>2, <2>3
<1>6. ASSUME NEW t
      PROVE  /\ Times(p, t) <= Cardinality(P \cap Places(s, t))
             /\ Times(p, t) <= Times(s, t)
  <2> DEFINE f == [n \in Places(p, t) |-> Nth(P, n)]
  <2>1. f \in [Places(p, t) -> P \cap Places(s, t)]
    <3>1. ASSUME NEW n \in Places(p, t) PROVE Nth(P, n) \in P \cap Places(s, t)
      <4>1. n \in 1 .. c /\ p[n] = t
        BY <1>3 DEF Places
      <4>2. Nth(P, n) \in P /\ s[Nth(P, n)] = t
        BY <1>2, <1>3, <4>1
      <4>3. QED
        BY <4>2 DEF Places
    <3>2. QED
      BY <3>1
  <2>2. ASSUME NEW m \in Places(p, t), NEW n \in Places(p, t), f[m] = f[n]
        PROVE  m = n
    <3>1. m \in 1 .. c /\ n \in 1 .. c
      BY <1>3 DEF Places
    <3>2. Nth(P, m) = Nth(P, n)
      BY <2>2
    <3>3. QED
      BY <1>2, <3>1, <3>2
  <2>3. f \in Injection(Places(p, t), P \cap Places(s, t))
    BY <2>1, <2>2 DEF Injection, IsInjective
  <2>4. IsFiniteSet(Places(s, t)) /\ Times(s, t) \in Nat
    BY PlacesFinite
  <2>5. /\ IsFiniteSet(P \cap Places(s, t))
        /\ Cardinality(P \cap Places(s, t)) <= Times(s, t)
        /\ Cardinality(P \cap Places(s, t)) \in Nat
    BY <2>4, FS_Subset, FS_CardinalityType DEF Times
  <2>6. Times(p, t) <= Cardinality(P \cap Places(s, t)) /\ Times(p, t) \in Nat
    BY <1>4, <2>3, <2>5, FS_Injection, PlacesFinite DEF Times
  <2>7. QED
    BY <2>4, <2>5, <2>6
<1>7. QED
  BY <1>4, <1>5, <1>6 DEF p

LEMMA OnlyFacts ==
  ASSUME NEW S, NEW s \in Seq(S), NEW R
  PROVE  /\ Only(s, R) \in Seq(S)
         /\ ToSet(Only(s, R)) = ToSet(s) \cap R
         /\ \A t : Times(Only(s, R), t) <= Times(s, t)
<1> DEFINE P == {i \in DOMAIN s : s[i] \in R}
<1>1. P \in SUBSET DOMAIN s
  OBVIOUS
<1>2. /\ Only(s, R) \in Seq(S)
      /\ \A t : t \in ToSet(Only(s, R)) <=> \E i \in P : t = s[i]
      /\ \A t : Times(Only(s, R), t) <= Times(s, t)
  BY <1>1, PickFacts DEF Only
<1>3. \A t : t \in ToSet(s) \cap R <=> \E i \in P : t = s[i]
  <2>1. ASSUME NEW t PROVE t \in ToSet(s) \cap R <=> \E i \in P : t = s[i]
    BY DEF ToSet
  <2>2. QED
    BY <2>1
<1>4. ToSet(Only(s, R)) = ToSet(s) \cap R
  BY <1>2, <1>3
<1>5. QED
  BY <1>2, <1>4

(* A sequence without repetitions has each element at most once.           *)
LEMMA InjectiveTimes ==
  ASSUME NEW S, NEW s \in Seq(S)
  PROVE  IsInjective(s) <=> \A t : Times(s, t) <= 1
<1>1. ASSUME IsInjective(s), NEW t PROVE Times(s, t) <= 1
  <2>1. CASE Places(s, t) = {}
    BY <2>1, FS_EmptySet DEF Times
  <2>2. CASE Places(s, t) # {}
    <3>1. PICK i \in Places(s, t) : TRUE
      BY <2>2
    <3>2. Places(s, t) = {i}
      BY <1>1, <3>1 DEF Places, IsInjective
    <3>3. Times(s, t) = 1
      BY <3>2, FS_Singleton DEF Times
    <3>4. QED
      BY <3>3
  <2>3. QED
    BY <2>1, <2>2
<1>2. ASSUME \A t : Times(s, t) <= 1,
             NEW i \in DOMAIN s, NEW j \in DOMAIN s, s[i] = s[j], i # j
      PROVE  FALSE
  <2>1. {i, j} \subseteq Places(s, s[i]) /\ IsFiniteSet(Places(s, s[i]))
    BY <1>2, PlacesFinite DEF Places
  <2>2. Cardinality({i, j}) = 2
    <3>1. IsFiniteSet({i}) /\ Cardinality({i}) = 1
      BY FS_Singleton
    <3>2. Cardinality({i} \cup {j}) = Cardinality({i}) + 1
      BY <1>2, <3>1, FS_AddElement
    <3>3. {i, j} = {i} \cup {j}
      OBVIOUS
    <3>4. QED
      BY <3>1, <3>2, <3>3
  <2>3. Cardinality({i, j}) <= Times(s, s[i])
    BY <2>1, FS_Subset DEF Times
  <2>4. Times(s, s[i]) <= 1 /\ Times(s, s[i]) \in Nat
    BY <1>2, PlacesFinite
  <2>5. QED
    BY <2>2, <2>3, <2>4
<1>3. QED
  BY <1>1, <1>2 DEF IsInjective

LEMMA OnlyInjective ==
  ASSUME NEW S, NEW s \in Seq(S), NEW R, IsInjective(s)
  PROVE  IsInjective(Only(s, R))
<1>1. Only(s, R) \in Seq(S) /\ \A t : Times(Only(s, R), t) <= Times(s, t)
  BY OnlyFacts
<1>2. \A t : /\ Times(s, t) <= 1 /\ Times(s, t) \in Nat
             /\ Times(Only(s, R), t) \in Nat
  BY <1>1, InjectiveTimes, PlacesFinite
<1>3. \A t : Times(Only(s, R), t) <= 1
  BY <1>1, <1>2
<1>4. QED
  BY <1>1, <1>3, InjectiveTimes

-----------------------------------------------------------------------------
(* Induction, from the order of the finite sets: no operator is a           *)
(* parameter.                                                              *)

LEMMA LeastNatural ==
  ASSUME NEW S, S \subseteq Nat, S # {}
  PROVE  \E x \in S : \A y \in S : x <= y
<1> DEFINE Below == {0 .. n : n \in S}
<1>1. IsWellFoundedOn(StrictSubsetOrdering(Nat), FiniteSubsetsOf(Nat))
  BY FS_StrictSubsetOrderingWellFounded
<1>2. Below \subseteq FiniteSubsetsOf(Nat)
  <2>1. \A n \in S : IsFiniteSet(0 .. n)
    BY FS_Interval
  <2>2. QED
    BY <2>1 DEF FiniteSubsetsOf
<1>3. Below # {}
  OBVIOUS
<1>4. PICK B \in Below : \A C \in Below : ~ (<<C, B>> \in StrictSubsetOrdering(Nat))
  <2> HIDE DEF Below
  <2>1. QED
    BY <1>1, <1>2, <1>3, WFMin
<1>5. PICK x \in S : B = 0 .. x
  BY <1>4
<1>6. ASSUME NEW y \in S, y < x PROVE FALSE
  <2>1. /\ 0 .. y \in SUBSET Nat /\ 0 .. x \in SUBSET Nat
        /\ 0 .. y \subseteq 0 .. x /\ x \in 0 .. x /\ x \notin 0 .. y
    BY <1>6
  <2>2. <<0 .. y, 0 .. x>> \in StrictSubsetOrdering(Nat)
    BY <2>1 DEF StrictSubsetOrdering
  <2>3. QED
    BY <1>4, <1>5, <2>2
<1>7. QED
  BY <1>6

LEMMA Induct ==
  ASSUME NEW S, 0 \in S, \A n \in Nat : n \in S => n + 1 \in S
  PROVE  Nat \subseteq S
<1> SUFFICES ASSUME Nat \ S # {} PROVE FALSE
  OBVIOUS
<1>1. PICK x \in Nat \ S : \A y \in Nat \ S : x <= y
  BY LeastNatural
<1>2. x # 0 /\ x - 1 \in Nat
  BY <1>1
<1>3. x - 1 \in S
  BY <1>1, <1>2
<1>4. QED
  BY <1>1, <1>2, <1>3

(* A set of sequences that holds the empty one, and with a sequence all it  *)
(* can be continued to by one element, holds them all.                     *)
LEMMA SequenceInduct ==
  ASSUME NEW S, NEW P, <<>> \in P,
         \A s \in Seq(S), e \in S : s \in P => Append(s, e) \in P
  PROVE  Seq(S) \subseteq P
<1> DEFINE N == {n \in Nat : \A s \in Seq(S) : Len(s) = n => s \in P}
<1>1. 0 \in N
  <2>1. \A s \in Seq(S) : Len(s) = 0 => s = <<>>
    BY EmptySeq
  <2>2. QED
    BY <2>1
<1>2. ASSUME NEW n \in Nat, n \in N PROVE n + 1 \in N
  <2> SUFFICES ASSUME NEW s \in Seq(S), Len(s) = n + 1 PROVE s \in P
    OBVIOUS
  <2>1. s # <<>> /\ n + 1 # 0
    BY EmptySeq
  <2>2. PICK q \in Seq(S), e \in S : s = Append(q, e)
    BY <2>1, SequenceEmptyOrAppend
  <2>3. Len(s) = Len(q) + 1 /\ Len(q) \in Nat
    BY <2>2, AppendProperties, LenProperties
  <2>4. Len(q) = n
    BY <2>3
  <2>5. q \in P
    BY <1>2, <2>4
  <2>6. QED
    BY <2>2, <2>5
<1>3. Nat \subseteq N
  <2> HIDE DEF N
  <2>1. QED
    BY <1>1, <1>2, Induct
<1>4. QED
  BY <1>3, LenProperties

(* All about the sequence that a function over 1 .. n is.                   *)
LEMMA FunctionSeq ==
  ASSUME NEW S, NEW n \in Nat, NEW f \in [1 .. n -> S]
  PROVE  f \in Seq(S) /\ Len(f) = n /\ DOMAIN f = 1 .. n
<1>1. f \in Seq(S)
  BY IsASeq
<1>2. DOMAIN f = 1 .. n /\ DOMAIN f = 1 .. Len(f) /\ Len(f) \in Nat
  BY <1>1, LenProperties
<1>3. QED
  BY <1>1, <1>2

-----------------------------------------------------------------------------
(* FlattenSeq.                                                             *)

(* f has what the first n sequences of q come to, one after the other.     *)
Flattens(q, n, f) ==
    f = [i \in 1 .. n |-> IF i = 1 THEN q[i] ELSE f[i - 1] \o q[i]]

LEMMA FlattensExists ==
  ASSUME NEW S, NEW q \in Seq(Seq(S))
  PROVE  \A n \in Nat : n <= Len(q) =>
            \E f : Flattens(q, n, f) /\ f \in [1 .. n -> Seq(S)]
<1> DEFINE N == {n \in Nat : n <= Len(q) =>
                    \E f : Flattens(q, n, f) /\ f \in [1 .. n -> Seq(S)]}
<1>0. Len(q) \in Nat /\ DOMAIN q = 1 .. Len(q) /\ \A i \in 1 .. Len(q) : q[i] \in Seq(S)
  BY LenProperties, ElementOfSeq
<1>1. 0 \in N
  <2> DEFINE f == [i \in 1 .. 0 |-> {}]
  <2>1. 1 .. 0 = {}
    OBVIOUS
  <2>2. Flattens(q, 0, f) /\ f \in [1 .. 0 -> Seq(S)]
    BY <2>1 DEF Flattens
  <2>3. QED
    BY <2>2
<1>2. ASSUME NEW n \in Nat, n \in N PROVE n + 1 \in N
  <2> SUFFICES ASSUME n + 1 <= Len(q)
               PROVE  \E f : Flattens(q, n + 1, f) /\ f \in [1 .. n + 1 -> Seq(S)]
    OBVIOUS
  <2>1. PICK g : Flattens(q, n, g) /\ g \in [1 .. n -> Seq(S)]
    BY <1>0, <1>2
  <2>2. \A i \in 1 .. n : g[i] = IF i = 1 THEN q[i] ELSE g[i - 1] \o q[i]
    BY <2>1 DEF Flattens
  <2> DEFINE last == IF n + 1 = 1 THEN q[n + 1] ELSE g[n] \o q[n + 1]
             f == [i \in 1 .. n + 1 |-> IF i = n + 1 THEN last ELSE g[i]]
  <2>3. last \in Seq(S)
    <3>1. q[n + 1] \in Seq(S)
      BY <1>0
    <3>2. CASE n = 0
      BY <3>1, <3>2
    <3>3. CASE n # 0
      <4>1. g[n] \in Seq(S)
        BY <2>1, <3>3
      <4>2. g[n] \o q[n + 1] \in Seq(S)
        BY <3>1, <4>1, ConcatProperties
      <4>3. QED
        BY <3>3, <4>2
    <3>4. QED
      BY <3>2, <3>3
  <2> HIDE DEF last
  <2>4. f \in [1 .. n + 1 -> Seq(S)]
    BY <2>1, <2>3
  <2>5. ASSUME NEW i \in 1 .. n + 1
        PROVE  f[i] = IF i = 1 THEN q[i] ELSE f[i - 1] \o q[i]
    <3>1. CASE i = n + 1
      <4>1. f[i] = last
        BY <3>1
      <4>2. n + 1 # 1 => f[i - 1] = g[n]
        BY <3>1
      <4>3. QED
        BY <3>1, <4>1, <4>2 DEF last
    <3>2. CASE i # n + 1
      <4>1. i \in 1 .. n /\ f[i] = g[i]
        BY <3>2
      <4>2. i # 1 => f[i - 1] = g[i - 1]
        BY <3>2
      <4>3. QED
        BY <2>2, <4>1, <4>2
    <3>3. QED
      BY <3>1, <3>2
  <2>6. Flattens(q, n + 1, f)
    <3>1. f = [i \in 1 .. n + 1 |-> IF i = 1 THEN q[i] ELSE f[i - 1] \o q[i]]
      BY <2>5
    <3> HIDE DEF f
    <3>2. QED
      BY <3>1 DEF Flattens
  <2>7. QED
    BY <2>4, <2>6
<1>3. Nat \subseteq N
  <2> HIDE DEF N
  <2>1. QED
    BY <1>1, <1>2, Induct
<1>4. QED
  BY <1>3

(* q and r have the same first n elements. *)
Agree(q, r, n) == \A i \in 1 .. n : q[i] = r[i]

LEMMA FlattensUnique ==
  ASSUME NEW q, NEW r, NEW n \in Nat, NEW m \in Nat, NEW f, NEW g,
         Flattens(q, n, f), Flattens(r, m, g), n <= m,
         Agree(q, r, n)
  PROVE  Agree(f, g, n)
<1>0. \A i \in 1 .. n : q[i] = r[i]
  BY DEF Agree
<1> DEFINE N == {k \in Nat : k \in 1 .. n => f[k] = g[k]}
<1>1. /\ \A i \in 1 .. n : f[i] = IF i = 1 THEN q[i] ELSE f[i - 1] \o q[i]
      /\ \A i \in 1 .. n : g[i] = IF i = 1 THEN r[i] ELSE g[i - 1] \o r[i]
  <2>1. \A i \in 1 .. n : f[i] = IF i = 1 THEN q[i] ELSE f[i - 1] \o q[i]
    BY DEF Flattens
  <2>2. \A i \in 1 .. m : g[i] = IF i = 1 THEN r[i] ELSE g[i - 1] \o r[i]
    BY DEF Flattens
  <2>3. 1 .. n \subseteq 1 .. m
    OBVIOUS
  <2>4. QED
    BY <2>1, <2>2, <2>3
<1>2. 0 \in N
  OBVIOUS
<1>3. ASSUME NEW k \in Nat, k \in N PROVE k + 1 \in N
  <2> SUFFICES ASSUME k + 1 \in 1 .. n PROVE f[k + 1] = g[k + 1]
    OBVIOUS
  <2>1. k + 1 - 1 = k
    OBVIOUS
  <2>2. CASE k = 0
    BY <1>0, <1>1, <2>2
  <2>3. CASE k # 0
    <3>1. f[k] = g[k]
      BY <1>3, <2>3
    <3>2. f[k + 1] = f[k] \o q[k + 1] /\ g[k + 1] = g[k] \o q[k + 1]
      <4>1. PICK j \in 1 .. n : j = k + 1 /\ j # 1 /\ j - 1 = k
        BY <2>1, <2>3
      <4>2. f[j] = f[j - 1] \o q[j] /\ g[j] = g[j - 1] \o q[j]
        BY <1>0, <1>1, <4>1
      <4>3. QED
        BY <4>1, <4>2
    <3>3. QED
      BY <3>1, <3>2
  <2>4. QED
    BY <2>2, <2>3
<1>4. Nat \subseteq N
  <2> HIDE DEF N
  <2>1. QED
    BY <1>2, <1>3, Induct
<1>5. QED
  BY <1>4 DEF Agree

(* What FlattenSeq comes to, by one sequence more at the end.               *)
LEMMA FlattenSteps ==
  ASSUME NEW S
  PROVE  /\ FlattenSeq(<<>>) = <<>>
         /\ \A q \in Seq(Seq(S)) : FlattenSeq(q) \in Seq(S)
         /\ \A q \in Seq(Seq(S)), x \in Seq(S) :
               FlattenSeq(Append(q, x)) = FlattenSeq(q) \o x
<1>1. FlattenSeq(<<>>) = <<>>
  BY DEF FlattenSeq
<1>2. ASSUME NEW q \in Seq(Seq(S)), q # <<>>
      PROVE  \E f : /\ Flattens(q, Len(q), f) /\ f \in [1 .. Len(q) -> Seq(S)]
                    /\ FlattenSeq(q) = f[Len(q)] /\ Len(q) \in Nat \ {0}
  <2> DEFINE f == CHOOSE f : Flattens(q, Len(q), f)
  <2>1. Len(q) \in Nat \ {0}
    BY <1>2, LenProperties, EmptySeq
  <2>2. PICK g : Flattens(q, Len(q), g) /\ g \in [1 .. Len(q) -> Seq(S)]
    <3>1. PICK n \in Nat : n = Len(q) /\ n <= Len(q)
      BY <2>1
    <3>2. \E g : Flattens(q, n, g) /\ g \in [1 .. n -> Seq(S)]
      BY <3>1, FlattensExists
    <3>3. QED
      BY <3>1, <3>2
  <2>3. Flattens(q, Len(q), f)
    BY <2>2
  <2>4. FlattenSeq(q) = f[Len(q)]
    BY <2>1 DEF FlattenSeq, Flattens
  <2> HIDE DEF f
  <2>5. \A i \in 1 .. Len(q) : f[i] = g[i]
    <3>1. Agree(q, q, Len(q))
      BY DEF Agree
    <3>2. Agree(f, g, Len(q))
      BY <2>1, <2>2, <2>3, <3>1, FlattensUnique
    <3>3. QED
      BY <3>2 DEF Agree
  <2>6. f = [i \in 1 .. Len(q) |-> f[i]]
    BY <2>3 DEF Flattens
  <2>7. f \in [1 .. Len(q) -> Seq(S)]
    BY <2>2, <2>5, <2>6
  <2>8. QED
    BY <2>1, <2>3, <2>4, <2>7
<1>3. ASSUME NEW q \in Seq(Seq(S)) PROVE FlattenSeq(q) \in Seq(S)
  <2>1. CASE q = <<>>
    BY <1>1, <2>1, EmptySeq
  <2>2. CASE q # <<>>
    <3>1. PICK f \in [1 .. Len(q) -> Seq(S)] : FlattenSeq(q) = f[Len(q)] /\ Len(q) \in Nat \ {0}
      BY <1>2, <2>2
    <3>2. PICK n \in Nat \ {0} : n = Len(q)
      BY <3>1
    <3>3. f \in [1 .. n -> Seq(S)] /\ n \in 1 .. n /\ FlattenSeq(q) = f[n]
      BY <3>1, <3>2
    <3> HIDE <3>1, <3>2
    <3>4. QED
      BY <3>3
  <2>3. QED
    BY <2>1, <2>2
<1>4. ASSUME NEW q \in Seq(Seq(S)), NEW x \in Seq(S)
      PROVE  FlattenSeq(Append(q, x)) = FlattenSeq(q) \o x
  <2> DEFINE r == Append(q, x)
  <2>1. /\ r \in Seq(Seq(S)) /\ r # <<>> /\ Len(r) = Len(q) + 1
        /\ \A i \in 1 .. Len(q) : r[i] = q[i]
        /\ r[Len(q) + 1] = x /\ Len(q) \in Nat
    BY AppendProperties, LenProperties
  <2> HIDE DEF r
  <2>2. PICK g : /\ Flattens(r, Len(r), g) /\ g \in [1 .. Len(r) -> Seq(S)]
                 /\ FlattenSeq(r) = g[Len(r)]
    BY <1>2, <2>1
  <2>3. CASE q = <<>>
    <3>1. Len(q) = 0 /\ Len(r) = 1
      BY <2>1, <2>3, EmptySeq
    <3>2. g[1] = r[1]
      BY <2>2, <3>1 DEF Flattens
    <3>3. FlattenSeq(r) = x
      BY <2>1, <2>2, <3>1, <3>2
    <3>4. FlattenSeq(q) \o x = x
      BY <1>1, <2>3, ConcatEmptySeq
    <3>5. QED
      BY <3>3, <3>4 DEF r
  <2>4. CASE q # <<>>
    <3>1. PICK f : /\ Flattens(q, Len(q), f)
                   /\ FlattenSeq(q) = f[Len(q)] /\ Len(q) \in Nat \ {0}
      BY <1>2, <2>4
    <3>2. \A i \in 1 .. Len(q) : f[i] = g[i]
      <4>1. Len(q) <= Len(r) /\ Len(r) \in Nat /\ \A i \in 1 .. Len(q) : q[i] = r[i]
        BY <2>1
      <4>2. PICK n \in Nat, m \in Nat : n = Len(q) /\ m = Len(r)
        BY <2>1, <4>1
      <4>3. Flattens(q, n, f) /\ Flattens(r, m, g) /\ n <= m
           /\ Agree(q, r, n)
        BY <2>2, <3>1, <4>1, <4>2 DEF Agree
      <4>4. Agree(f, g, n)
        BY <4>3, FlattensUnique
      <4>5. QED
        BY <4>2, <4>4 DEF Agree
    <3>3. g[Len(q)] = f[Len(q)]
      BY <3>1, <3>2
    <3>4. \A i \in 1 .. Len(r) : g[i] = IF i = 1 THEN r[i] ELSE g[i - 1] \o r[i]
      BY <2>2 DEF Flattens
    <3>5. Len(r) \in 1 .. Len(r) /\ Len(r) # 1 /\ Len(r) - 1 = Len(q)
      BY <2>1, <3>1
    <3>6. g[Len(r)] = g[Len(q)] \o r[Len(r)]
      BY <3>4, <3>5
    <3>7. QED
      BY <2>1, <2>2, <3>1, <3>3, <3>6 DEF r
  <2>5. QED
    BY <2>3, <2>4
<1>5. QED
  BY <1>1, <1>3, <1>4

LEMMA FlattenConcat ==
  ASSUME NEW S, NEW p \in Seq(Seq(S)), NEW q \in Seq(Seq(S))
  PROVE  FlattenSeq(p \o q) = FlattenSeq(p) \o FlattenSeq(q)
<1> DEFINE P == {r \in Seq(Seq(S)) : FlattenSeq(p \o r) = FlattenSeq(p) \o FlattenSeq(r)}
<1>1. <<>> \in P
  <2>1. <<>> \in Seq(Seq(S)) /\ p \o <<>> = p
    BY EmptySeq, ConcatEmptySeq
  <2>2. FlattenSeq(p) \o <<>> = FlattenSeq(p)
    BY FlattenSteps, ConcatEmptySeq
  <2>3. QED
    BY <2>1, <2>2, FlattenSteps
<1>2. ASSUME NEW r \in Seq(Seq(S)), NEW x \in Seq(S), r \in P PROVE Append(r, x) \in P
  <2>1. Append(r, x) \in Seq(Seq(S)) /\ Append(r, x) = r \o <<x>>
    BY AppendProperties, AppendIsConcat
  <2>2. <<x>> \in Seq(Seq(S))
    OBVIOUS
  <2>3. p \o Append(r, x) = (p \o r) \o <<x>>
    BY <2>1, <2>2, ConcatAssociative
  <2>4. p \o r \in Seq(Seq(S))
    BY ConcatProperties
  <2>5. p \o Append(r, x) = Append(p \o r, x)
    BY <2>3, <2>4, AppendIsConcat
  <2>6. FlattenSeq(p \o Append(r, x)) = (FlattenSeq(p) \o FlattenSeq(r)) \o x
    BY <1>2, <2>4, <2>5, FlattenSteps
  <2>7. FlattenSeq(p) \in Seq(S) /\ FlattenSeq(r) \in Seq(S)
    BY FlattenSteps
  <2>8. (FlattenSeq(p) \o FlattenSeq(r)) \o x = FlattenSeq(p) \o (FlattenSeq(r) \o x)
    <3>1. PICK u \in Seq(S), v \in Seq(S) : u = FlattenSeq(p) /\ v = FlattenSeq(r)
      BY <2>7
    <3>2. (u \o v) \o x = u \o (v \o x)
      BY ConcatAssociative
    <3>3. QED
      BY <3>1, <3>2
  <2>9. FlattenSeq(Append(r, x)) = FlattenSeq(r) \o x
    BY FlattenSteps
  <2>10. FlattenSeq(p \o Append(r, x)) = FlattenSeq(p) \o FlattenSeq(Append(r, x))
    BY <2>6, <2>8, <2>9
  <2>11. QED
    BY <2>1, <2>10
<1>3. Seq(Seq(S)) \subseteq P
  <2> HIDE DEF P
  <2>1. QED
    BY <1>1, <1>2, SequenceInduct
<1>4. QED
  BY <1>3

(* The elements of a flattened sequence. *)
LEMMA FlattenHas ==
  ASSUME NEW S, NEW q \in Seq(Seq(S)), NEW x
  PROVE  x \in ToSet(FlattenSeq(q)) <=> \E i \in DOMAIN q : x \in ToSet(q[i])
<1> DEFINE P == {r \in Seq(Seq(S)) :
                    ToSet(FlattenSeq(r)) = UNION {ToSet(y) : y \in ToSet(r)}}
<1>1. <<>> \in P
  <2>1. <<>> \in Seq(Seq(S)) /\ ToSet(<<>>) = {}
    BY DEF ToSet
  <2>2. QED
    BY <2>1, FlattenSteps
<1>2. ASSUME NEW r \in Seq(Seq(S)), NEW y \in Seq(S), r \in P PROVE Append(r, y) \in P
  <2>1. Append(r, y) \in Seq(Seq(S)) /\ ToSet(Append(r, y)) = ToSet(r) \cup {y}
    BY AppendSet
  <2>2. FlattenSeq(Append(r, y)) = FlattenSeq(r) \o y /\ FlattenSeq(r) \in Seq(S)
    BY FlattenSteps
  <2>3. ToSet(FlattenSeq(Append(r, y))) = ToSet(FlattenSeq(r)) \cup ToSet(y)
    BY <2>2, ConcatSet
  <2>4. QED
    BY <1>2, <2>1, <2>3
<1>3. Seq(Seq(S)) \subseteq P
  <2> HIDE DEF P
  <2>1. QED
    BY <1>1, <1>2, SequenceInduct
<1>4. ToSet(FlattenSeq(q)) = UNION {ToSet(y) : y \in ToSet(q)}
  BY <1>3
<1>5. \A y : y \in ToSet(q) <=> \E i \in DOMAIN q : y = q[i]
  BY DEF ToSet
<1>6. QED
  BY <1>4, <1>5

LEMMA NthUnique ==
  ASSUME NEW m \in Nat, NEW P \in SUBSET (1 .. m), NEW i \in P
  PROVE  Nth(P, Cardinality({j \in P : j <= i})) = i
<1>1. PICK n \in 1 .. Cardinality(P) : Nth(P, n) = i
  BY NthFacts
<1>2. Cardinality({j \in P : j <= Nth(P, n)}) = n
  BY NthFacts
<1>3. QED
  BY <1>1, <1>2

LEMMA PickAppend ==
  ASSUME NEW S, NEW s \in Seq(S), NEW e \in S, NEW m \in Nat, m = Len(s),
         NEW P \in SUBSET (1 .. m), NEW Q \in SUBSET (1 .. m + 1), Q = P \cup {m + 1}
  PROVE  /\ Pick(Append(s, e), P) = Pick(s, P)
         /\ Pick(Append(s, e), Q) = Append(Pick(s, P), e)
<1>1. PICK t : /\ t = Append(s, e) /\ t \in Seq(S) /\ DOMAIN t = 1 .. m + 1
               /\ \A i \in 1 .. m : t[i] = s[i] /\ s[i] \in S
               /\ t[m + 1] = e
  <2>1. /\ Append(s, e) \in Seq(S) /\ DOMAIN Append(s, e) = 1 .. m + 1
        /\ \A i \in 1 .. m : Append(s, e)[i] = s[i]
        /\ Append(s, e)[m + 1] = e
    BY AppendProperties, LenProperties
  <2>2. \A i \in 1 .. m : s[i] \in S
    BY ElementOfSeq
  <2>3. PICK t : t = Append(s, e)
    OBVIOUS
  <2>4. /\ t \in Seq(S) /\ DOMAIN t = 1 .. m + 1
        /\ \A i \in 1 .. m : t[i] = s[i] /\ s[i] \in S
        /\ t[m + 1] = e
    BY <2>1, <2>2, <2>3
  <2>5. QED
    BY <2>3, <2>4
<1>2. m + 1 \in Nat /\ m + 1 \notin P /\ P \subseteq Q
  OBVIOUS
<1>3. PICK c \in Nat : c = Cardinality(P) /\ Cardinality(Q) = c + 1
  <2>1. IsFiniteSet(P) /\ Cardinality(P) \in Nat
    BY NthFacts
  <2>2. QED
    BY <1>2, <2>1, FS_AddElement
<1>4. ASSUME NEW n \in 1 .. c PROVE Nth(Q, n) = Nth(P, n) /\ Nth(P, n) \in P
  <2>1. PICK i \in P : i = Nth(P, n) /\ Cardinality({j \in P : j <= i}) = n
    <3>1. \A k \in 1 .. Cardinality(P) :
              Nth(P, k) \in P /\ Cardinality({j \in P : j <= Nth(P, k)}) = k
      BY NthFacts
    <3>2. Nth(P, n) \in P /\ Cardinality({j \in P : j <= Nth(P, n)}) = n
      BY <1>3, <3>1
    <3>3. PICK i \in P : i = Nth(P, n)
      BY <3>2
    <3>4. QED
      BY <3>2, <3>3
  <2>2. {j \in Q : j <= i} = {j \in P : j <= i} /\ i \in Q
    OBVIOUS
  <2>3. Nth(Q, Cardinality({j \in Q : j <= i})) = i
    BY <1>2, <2>2, NthUnique
  <2>4. QED
    BY <2>1, <2>2, <2>3
<1>5. Nth(Q, c + 1) = m + 1
  <2>1. {j \in Q : j <= m + 1} = Q /\ m + 1 \in Q
    OBVIOUS
  <2>2. Nth(Q, Cardinality({j \in Q : j <= m + 1})) = m + 1
    BY <1>2, <2>1, NthUnique
  <2>3. QED
    BY <1>3, <2>1, <2>2
<1>6. Pick(t, P) = Pick(s, P)
  <2>1. \A n \in 1 .. c : t[Nth(P, n)] = s[Nth(P, n)]
    BY <1>1, <1>4
  <2>2. Pick(t, P) = [n \in 1 .. c |-> t[Nth(P, n)]] /\ Pick(s, P) = [n \in 1 .. c |-> s[Nth(P, n)]]
    BY <1>3 DEF Pick
  <2>3. QED
    BY <2>1, <2>2
<1>7. PICK p : p = Pick(s, P) /\ p = [n \in 1 .. c |-> s[Nth(P, n)]]
  BY <1>3 DEF Pick
<1>8. PICK q : q = Pick(t, Q) /\ q = [n \in 1 .. c + 1 |-> t[Nth(Q, n)]]
  BY <1>3 DEF Pick
<1>9. p \in Seq(S) /\ Len(p) = c
  <2>1. \A n \in 1 .. c : s[Nth(P, n)] \in S
    BY <1>1, <1>4
  <2>2. p \in [1 .. c -> S]
    BY <1>7, <2>1
  <2>3. QED
    BY <2>2, FunctionSeq
<1>10. \A n \in 1 .. c : q[n] = p[n]
  <2> SUFFICES ASSUME NEW n \in 1 .. c PROVE q[n] = p[n]
    OBVIOUS
  <2>1. n \in 1 .. c + 1
    OBVIOUS
  <2>2. q[n] = t[Nth(Q, n)] /\ p[n] = s[Nth(P, n)]
    BY <1>7, <1>8, <2>1
  <2>3. QED
    BY <1>1, <1>4, <2>2
<1>11. q[c + 1] = e
  <2>1. c + 1 \in 1 .. c + 1
    OBVIOUS
  <2>2. q[c + 1] = t[Nth(Q, c + 1)]
    BY <1>8, <2>1
  <2>3. QED
    BY <1>1, <1>5, <2>2
<1>12. q \in Seq(S) /\ Len(q) = c + 1
  <2>1. \A n \in 1 .. c + 1 : n \in 1 .. c \/ n = c + 1
    OBVIOUS
  <2>2. \A n \in 1 .. c : q[n] \in S
    BY <1>1, <1>4, <1>7, <1>10
  <2>3. \A n \in 1 .. c + 1 : q[n] \in S
    BY <1>11, <2>1, <2>2
  <2>4. q \in [1 .. c + 1 -> S]
    BY <1>8, <2>3
  <2>5. QED
    BY <2>4, FunctionSeq
<1>13. PICK a : a = Append(p, e) /\ a \in Seq(S) /\ Len(a) = c + 1 /\ a[c + 1] = e
                /\ \A n \in 1 .. c : a[n] = p[n]
  <2>1. /\ Append(p, e) \in Seq(S) /\ Len(Append(p, e)) = c + 1
        /\ Append(p, e)[c + 1] = e
        /\ \A n \in 1 .. c : Append(p, e)[n] = p[n]
    BY <1>9, AppendProperties
  <2>2. PICK a : a = Append(p, e)
    OBVIOUS
  <2>3. /\ a \in Seq(S) /\ Len(a) = c + 1 /\ a[c + 1] = e
        /\ \A n \in 1 .. c : a[n] = p[n]
    BY <2>1, <2>2
  <2>4. QED
    BY <2>2, <2>3
<1>14. \A n \in 1 .. c + 1 : q[n] = a[n]
  BY <1>10, <1>11, <1>13
<1>15. q = a
  BY <1>12, <1>13, <1>14, SeqEqual
<1>16. QED
  BY <1>1, <1>6, <1>7, <1>8, <1>13, <1>15

(* Only, by one element more at the end. *)
LEMMA OnlySteps ==
  ASSUME NEW S, NEW s \in Seq(S), NEW e \in S, NEW R
  PROVE  /\ Only(<<>>, R) = <<>>
         /\ Only(Append(s, e), R) = IF e \in R THEN Append(Only(s, R), e) ELSE Only(s, R)
<1>1. Only(<<>>, R) = <<>>
  <2>1. {i \in DOMAIN << >> : << >>[i] \in R} = {}
    OBVIOUS
  <2>2. Cardinality({}) = 0
    BY FS_EmptySet
  <2>3. 1 .. 0 = {}
    OBVIOUS
  <2>4. QED
    BY <2>1, <2>2, <2>3 DEF Only, Pick
<1>2. PICK m \in Nat : m = Len(s) /\ DOMAIN s = 1 .. m
  BY LenProperties
<1>3. PICK t : /\ t = Append(s, e) /\ t \in Seq(S) /\ DOMAIN t = 1 .. m + 1
               /\ \A i \in 1 .. m : t[i] = s[i]
               /\ t[m + 1] = e
  <2>1. /\ Append(s, e) \in Seq(S) /\ DOMAIN Append(s, e) = 1 .. m + 1
        /\ \A i \in 1 .. m : Append(s, e)[i] = s[i]
        /\ Append(s, e)[m + 1] = e
    BY <1>2, AppendProperties, LenProperties
  <2>2. PICK t : t = Append(s, e)
    OBVIOUS
  <2>3. /\ t \in Seq(S) /\ DOMAIN t = 1 .. m + 1
        /\ \A i \in 1 .. m : t[i] = s[i]
        /\ t[m + 1] = e
    BY <2>1, <2>2
  <2>4. QED
    BY <2>2, <2>3
<1>4. PICK P \in SUBSET (1 .. m) : P = {i \in DOMAIN s : s[i] \in R}
  BY <1>2
<1>5. PICK Q \in SUBSET (1 .. m + 1) : Q = {i \in DOMAIN t : t[i] \in R}
  BY <1>3
<1>6. Only(t, R) = Pick(t, Q) /\ Only(s, R) = Pick(s, P)
  BY <1>4, <1>5 DEF Only
<1>7. CASE e \in R
  <2>1. Q = P \cup {m + 1}
    BY <1>2, <1>3, <1>4, <1>5, <1>7
  <2>2. Pick(t, Q) = Append(Pick(s, P), e)
    BY <1>2, <1>3, <2>1, PickAppend
  <2>3. QED
    BY <1>1, <1>3, <1>6, <1>7, <2>2
<1>8. CASE e \notin R
  <2>1. Q = P
    BY <1>2, <1>3, <1>4, <1>5, <1>8
  <2>2. PICK M \in SUBSET (1 .. m + 1) : M = P \cup {m + 1}
    <3>1. P \cup {m + 1} \in SUBSET (1 .. m + 1)
      OBVIOUS
    <3>2. QED
      BY <3>1
  <2>3. M = P \cup {m + 1} /\ m = Len(s)
    BY <1>2, <2>2
  <2>4. /\ Pick(Append(s, e), P) = Pick(s, P)
        /\ Pick(Append(s, e), M) = Append(Pick(s, P), e)
    BY <2>3, PickAppend
  <2>5. Only(t, R) = Only(s, R)
    BY <1>3, <1>6, <2>1, <2>4
  <2>6. QED
    BY <1>1, <1>3, <1>8, <2>5
<1>9. QED
  BY <1>7, <1>8

-----------------------------------------------------------------------------
(* Sequences of a known length.                                             *)

LEMMA AppendConcat ==
  ASSUME NEW S, NEW s \in Seq(S), NEW r \in Seq(S), NEW e \in S
  PROVE  s \o Append(r, e) = Append(s \o r, e)
<1>1. <<e>> \in Seq(S)
  OBVIOUS
<1>2. Append(r, e) = r \o <<e>>
  BY AppendIsConcat
<1>3. s \o (r \o <<e>>) = (s \o r) \o <<e>>
  BY <1>1, ConcatAssociative
<1>4. s \o r \in Seq(S)
  BY ConcatProperties
<1>5. Append(s \o r, e) = (s \o r) \o <<e>>
  BY <1>4, AppendIsConcat
<1>6. QED
  BY <1>2, <1>3, <1>5

LEMMA OnlyNothing ==
  ASSUME NEW R
  PROVE  Only(<<>>, R) = <<>>
<1>1. {i \in DOMAIN <<>> : (<<>>)[i] \in R} = {}
  OBVIOUS
<1>2. Cardinality({}) = 0
  BY FS_EmptySet
<1>3. QED
  BY <1>1, <1>2 DEF Only, Pick

LEMMA Largest ==
  ASSUME NEW S, S \subseteq Nat, IsFiniteSet(S), S # {}
  PROVE  \E x \in S : \A y \in S : y <= x
<1> DEFINE N == {n \in Nat : \A T \in SUBSET S :
                    Cardinality(T) = n + 1 => \E x \in T : \A y \in T : y <= x}
<1>1. 0 \in N
  <2> SUFFICES ASSUME NEW T \in SUBSET S, Cardinality(T) = 0 + 1
               PROVE  \E x \in T : \A y \in T : y <= x
    OBVIOUS
  <2> IsFiniteSet(T)
    BY FS_Subset
  <2> Cardinality(T) = 1
    OBVIOUS
  <2>1. PICK x : T = {x}
    BY FS_Singleton
  <2>2. QED
    BY <2>1
<1>2. ASSUME NEW n \in Nat, n \in N PROVE n + 1 \in N
  <2> SUFFICES ASSUME NEW T \in SUBSET S, Cardinality(T) = n + 1 + 1
               PROVE  \E x \in T : \A y \in T : y <= x
    OBVIOUS
  <2>1. IsFiniteSet(T)
    BY FS_Subset
  <2>2. T # {}
    <3>1. Cardinality({}) = 0
      BY FS_EmptySet
    <3>2. QED
      BY <3>1
  <2> PICK a \in T : TRUE
    BY <2>2
  <2>3. Cardinality(T \ {a}) = n + 1
    <3>1. Cardinality(T \ {a}) = Cardinality(T) - 1
      BY <2>1, FS_RemoveElement
    <3>2. QED
      BY <3>1
  <2>4. PICK x \in T \ {a} : \A y \in T \ {a} : y <= x
    BY <1>2, <2>3
  <2>5. CASE a <= x
    BY <2>4, <2>5
  <2>6. CASE ~(a <= x)
    BY <2>4, <2>6
  <2>7. QED
    BY <2>5, <2>6
<1>3. Nat \subseteq N
  <2> HIDE DEF N
  <2>1. QED
    BY <1>1, <1>2, Induct
<1>4. PICK n \in Nat : Cardinality(S) = n + 1
  <2>1. Cardinality(S) \in Nat /\ Cardinality(S) # 0
    BY FS_CardinalityType, FS_EmptySet
  <2>2. Cardinality(S) - 1 \in Nat /\ Cardinality(S) = (Cardinality(S) - 1) + 1
    BY <2>1
  <2>3. QED
    BY <2>2
<1>5. QED
  BY <1>3, <1>4

LEMMA OneElement ==
  ASSUME NEW I, NEW i \in I
  PROVE  <<i>> \in Seq(I) /\ Len(<<i>>) = 1 /\ <<i>> # <<>> /\ (<<i>>)[1] = i
OBVIOUS

LEMMA ConcatAt ==
  ASSUME NEW S, NEW p \in Seq(S), NEW q \in Seq(S), NEW m \in Nat, NEW n \in Nat,
         m = Len(p), n = Len(q)
  PROVE  /\ p \o q \in Seq(S) /\ Len(p \o q) = m + n
         /\ \A i \in 1 .. m : (p \o q)[i] = p[i]
         /\ \A i \in 1 .. n : (p \o q)[m + i] = q[i]
<1>1. /\ p \o q \in Seq(S) /\ Len(p \o q) = m + n
      /\ \A i \in 1 .. m + n : (p \o q)[i] = IF i <= m THEN p[i] ELSE q[i - m]
  BY ConcatProperties
<1>2. ASSUME NEW i \in 1 .. m PROVE (p \o q)[i] = p[i]
  <2>1. i \in 1 .. m + n /\ i <= m
    OBVIOUS
  <2>2. QED
    BY <1>1, <2>1
<1>3. ASSUME NEW i \in 1 .. n PROVE (p \o q)[m + i] = q[i]
  <2>1. PICK j \in 1 .. m + n : j = m + i /\ ~(j <= m) /\ j - m = i
    OBVIOUS
  <2>2. QED
    BY <1>1, <2>1
<1>4. QED
  BY <1>1, <1>2, <1>3

(* Two sequences of as many elements are the same if these are.             *)
LEMMA SameSequence ==
  ASSUME NEW S, NEW p \in Seq(S), NEW q \in Seq(S), NEW n \in Nat, Len(p) = n, Len(q) = n,
         Agree(p, q, n)
  PROVE  p = q
<1>1. p \in [1 .. n -> S] /\ q \in [1 .. n -> S]
  BY LenProperties
<1>2. QED
  BY <1>1 DEF Agree

LEMMA FlattenSingles ==
  ASSUME NEW I
  PROVE  \A q \in Seq(I) : FlattenSeq([j \in DOMAIN q |-> <<q[j]>>]) = q
<1> DEFINE F(q) == [j \in DOMAIN q |-> <<q[j]>>]
           P == {q \in Seq(I) : FlattenSeq(F(q)) = q}
<1>1. <<>> \in P
  <2>1. F(<<>>) = <<>>
    OBVIOUS
  <2>2. QED
    BY <2>1, FlattenSteps, EmptySeq
<1>2. ASSUME NEW q \in Seq(I), NEW i \in I, q \in P PROVE Append(q, i) \in P
  <2>1. PICK n \in Nat : n = Len(q) /\ DOMAIN q = 1 .. n
    BY LenProperties
  <2>2. PICK a : a = Append(q, i)
    OBVIOUS
  <2>3. /\ a \in Seq(I) /\ DOMAIN a = 1 .. n + 1
        /\ \A j \in 1 .. n : a[j] = q[j]
        /\ a[n + 1] = i
    BY <2>1, <2>2, AppendProperties, LenProperties
  <2>4. \A j \in 1 .. n : q[j] \in I
    BY <2>1, ElementOfSeq
  <2>5. F(q) \in [1 .. n -> Seq(I)]
    BY <2>1, <2>4
  <2>6. PICK f \in Seq(Seq(I)) : f = F(q) /\ Len(f) = n
    BY <2>5, FunctionSeq
  <2>7. PICK x \in Seq(I) : x = <<i>>
    BY OneElement
  <2>8. PICK r : r = Append(f, x)
    OBVIOUS
  <2>9. /\ r \in Seq(Seq(I)) /\ Len(r) = n + 1
        /\ \A j \in 1 .. n : r[j] = f[j]
        /\ r[n + 1] = x
    BY <2>6, <2>8, AppendProperties
  <2>10. r \in [1 .. n + 1 -> Seq(I)]
    BY <2>9, LenProperties
  <2>11. \A j \in 1 .. n + 1 : <<a[j]>> = r[j]
    <3> SUFFICES ASSUME NEW j \in 1 .. n + 1 PROVE <<a[j]>> = r[j]
      OBVIOUS
    <3>1. CASE j \in 1 .. n
      BY <3>1, <2>1, <2>3, <2>6, <2>9
    <3>2. CASE j = n + 1
      BY <3>2, <2>3, <2>7, <2>9
    <3>3. j \in 1 .. n \/ j = n + 1
      OBVIOUS
    <3>4. QED
      BY <3>1, <3>2, <3>3
  <2>12. F(a) = r
    BY <2>3, <2>10, <2>11
  <2>13. FlattenSeq(r) = FlattenSeq(f) \o x
    BY <2>8, FlattenSteps
  <2>14. FlattenSeq(f) = q
    BY <1>2, <2>6
  <2>15. q \o x = a
    BY <2>2, <2>7, AppendIsConcat
  <2>16. FlattenSeq(F(a)) = a
    BY <2>12, <2>13, <2>14, <2>15
  <2> HIDE DEF F
  <2>17. QED
    BY <2>2, <2>3, <2>16
<1>3. Seq(I) \subseteq P
  <2> HIDE DEF P
  <2>1. QED
    BY <1>1, <1>2, SequenceInduct
<1>4. QED
  BY <1>3

LEMMA AppendToOne ==
  ASSUME NEW p, NEW i
  PROVE  Append(<<p>>, i) = <<p, i>>
<1> DEFINE S == {p, i}
<1>1. PICK o \in Seq(S) : o = <<p>> /\ Len(o) = 1 /\ o[1] = p
  BY OneElement
<1>2. PICK y : y = Append(o, i)
  OBVIOUS
<1>3. y \in Seq(S) /\ Len(y) = 2 /\ y[1] = p /\ y[2] = i
  BY <1>1, <1>2, AppendProperties
<1>4. PICK z \in Seq(S) : z = <<p, i>> /\ Len(z) = 2 /\ z[1] = p /\ z[2] = i
  <2>1. <<p, i>> \in Seq(S)
    <3>1. p \in S /\ i \in S
      OBVIOUS
    <3> HIDE DEF S
    <3>2. QED
      BY <3>1
  <2> HIDE DEF S
  <2>2. QED
    BY <2>1
<1>5. Agree(y, z, 2)
  BY <1>3, <1>4 DEF Agree
<1>6. y = z
  BY <1>3, <1>4, <1>5, SameSequence
<1>7. QED
  BY <1>1, <1>2, <1>4, <1>6

-----------------------------------------------------------------------------
(* Only, of what is put together, and of what is only some already.         *)

LEMMA OnlySame ==
  ASSUME NEW S, NEW s \in Seq(S), NEW A, NEW B, ToSet(s) \cap A = ToSet(s) \cap B
  PROVE  Only(s, A) = Only(s, B)
<1>1. \A i \in DOMAIN s : s[i] \in A <=> s[i] \in B
  BY DEF ToSet
<1>2. {i \in DOMAIN s : s[i] \in A} = {i \in DOMAIN s : s[i] \in B}
  BY <1>1
<1>3. QED
  BY <1>2 DEF Only

LEMMA NothingIn ==
  ASSUME NEW S, NEW s \in Seq(S), ToSet(s) = {}
  PROVE  s = <<>>
<1>1. DOMAIN s = {}
  BY DEF ToSet
<1>2. DOMAIN s = 1 .. Len(s) /\ Len(s) \in Nat
  BY LenProperties
<1>3. Len(s) = 0
  <2>1. Len(s) > 0 => 1 \in DOMAIN s
    BY <1>2
  <2>2. QED
    BY <1>1, <1>2, <2>1
<1>4. QED
  BY <1>3, EmptySeq

LEMMA OnlyNone ==
  ASSUME NEW S, NEW s \in Seq(S), NEW A, ToSet(s) \cap A = {}
  PROVE  Only(s, A) = <<>>
<1>1. Only(s, A) \in Seq(S) /\ ToSet(Only(s, A)) = {}
  BY OnlyFacts
<1>2. QED
  BY <1>1, NothingIn

LEMMA OnlyAll ==
  ASSUME NEW S, NEW A
  PROVE  \A s \in Seq(S) : ToSet(s) \subseteq A => Only(s, A) = s
<1> DEFINE P == {s \in Seq(S) : ToSet(s) \subseteq A => Only(s, A) = s}
<1>1. <<>> \in P
  BY OnlyNothing
<1>2. ASSUME NEW s \in Seq(S), NEW e \in S, s \in P PROVE Append(s, e) \in P
  <2>1. Append(s, e) \in Seq(S) /\ ToSet(Append(s, e)) = ToSet(s) \cup {e}
    BY AppendSet
  <2>2. ASSUME ToSet(Append(s, e)) \subseteq A PROVE Only(Append(s, e), A) = Append(s, e)
    <3>1. e \in A /\ Only(s, A) = s
      BY <1>2, <2>1, <2>2
    <3>2. QED
      BY <3>1, OnlySteps
  <2>3. QED
    BY <2>1, <2>2
<1>3. Seq(S) \subseteq P
  <2> HIDE DEF P
  <2>1. QED
    BY <1>1, <1>2, SequenceInduct
<1>4. QED
  BY <1>3

LEMMA OnlyConcat ==
  ASSUME NEW S, NEW p \in Seq(S), NEW R
  PROVE  \A q \in Seq(S) : Only(p \o q, R) = Only(p, R) \o Only(q, R)
<1> DEFINE P == {q \in Seq(S) : Only(p \o q, R) = Only(p, R) \o Only(q, R)}
<1>1. <<>> \in P
  <2>1. p \o <<>> = p /\ Only(p, R) \o <<>> = Only(p, R)
    <3>1. Only(p, R) \in Seq(S)
      BY OnlyFacts
    <3>2. QED
      BY <3>1, ConcatEmptySeq
  <2>2. Only(<<>>, R) = <<>>
    BY OnlyNothing
  <2>3. <<>> \in Seq(S)
    BY EmptySeq
  <2>4. QED
    BY <2>1, <2>2, <2>3, Zenon
<1>2. ASSUME NEW q \in Seq(S), NEW e \in S, q \in P PROVE Append(q, e) \in P
  <2>1. p \o Append(q, e) = Append(p \o q, e) /\ p \o q \in Seq(S) /\ Append(q, e) \in Seq(S)
    BY AppendConcat, ConcatSet, AppendSet
  <2>2. PICK a \in Seq(S), b \in Seq(S) : a = Only(p, R) /\ b = Only(q, R)
    BY OnlyFacts
  <2>3. PICK x \in Seq(S) : x = p \o q
    BY <2>1
  <2>4. Only(x, R) = a \o b
    BY <1>2, <2>2, <2>3
  <2>5. CASE e \in R
    <3>1. Only(Append(x, e), R) = Append(a \o b, e)
      BY <2>4, <2>5, OnlySteps
    <3>2. Only(Append(q, e), R) = Append(b, e)
      BY <2>2, <2>5, OnlySteps
    <3>3. a \o Append(b, e) = Append(a \o b, e)
      BY AppendConcat
    <3>4. QED
      BY <2>1, <2>2, <2>3, <3>1, <3>2, <3>3
  <2>6. CASE e \notin R
    <3>1. Only(Append(x, e), R) = a \o b
      BY <2>4, <2>6, OnlySteps
    <3>2. Only(Append(q, e), R) = b
      BY <2>2, <2>6, OnlySteps
    <3>3. QED
      BY <2>1, <2>2, <2>3, <3>1, <3>2
  <2>7. QED
    BY <2>5, <2>6
<1>3. Seq(S) \subseteq P
  <2> HIDE DEF P
  <2>1. QED
    BY <1>1, <1>2, SequenceInduct
<1>4. QED
  BY <1>3

LEMMA OnlyOnly ==
  ASSUME NEW S, NEW A, NEW B
  PROVE  \A s \in Seq(S) : Only(Only(s, A), B) = Only(s, A \cap B)
<1> DEFINE P == {s \in Seq(S) : Only(Only(s, A), B) = Only(s, A \cap B)}
<1>1. <<>> \in P
  BY OnlyNothing
<1>2. ASSUME NEW s \in Seq(S), NEW e \in S, s \in P PROVE Append(s, e) \in P
  <2>1. Append(s, e) \in Seq(S)
    BY AppendSet
  <2>2. PICK a \in Seq(S) : a = Only(s, A)
    BY OnlyFacts
  <2>3. Only(a, B) = Only(s, A \cap B)
    BY <1>2, <2>2
  <2>4. Only(Append(s, e), A) = IF e \in A THEN Append(a, e) ELSE a
    BY <2>2, OnlySteps
  <2>5. Only(Append(s, e), A \cap B)
          = IF e \in A \cap B THEN Append(Only(s, A \cap B), e) ELSE Only(s, A \cap B)
    BY OnlySteps
  <2>6. Only(Append(a, e), B) = IF e \in B THEN Append(Only(a, B), e) ELSE Only(a, B)
    BY OnlySteps
  <2>7. Only(Only(Append(s, e), A), B) = Only(Append(s, e), A \cap B)
    <3>1. CASE e \notin A
      <4>1. e \notin A \cap B
        BY <3>1
      <4>2. QED
        BY <2>3, <2>4, <2>5, <3>1, <4>1, Zenon
    <3>2. CASE e \in A /\ e \in B
      <4>1. e \in A \cap B
        BY <3>2
      <4>2. Only(Append(s, e), A) = Append(a, e)
        BY <2>4, <3>2, Zenon
      <4>3. Only(Append(a, e), B) = Append(Only(a, B), e)
        BY <2>6, <3>2, Zenon
      <4>4. Only(Append(s, e), A \cap B) = Append(Only(s, A \cap B), e)
        BY <2>5, <4>1, Zenon
      <4>5. QED
        BY <2>3, <4>2, <4>3, <4>4, Zenon
    <3>3. CASE e \in A /\ e \notin B
      <4>1. e \notin A \cap B
        BY <3>3
      <4>2. Only(Append(s, e), A) = Append(a, e)
        BY <2>4, <3>3, Zenon
      <4>3. Only(Append(a, e), B) = Only(a, B)
        BY <2>6, <3>3, Zenon
      <4>4. Only(Append(s, e), A \cap B) = Only(s, A \cap B)
        BY <2>5, <4>1, Zenon
      <4>5. QED
        BY <2>3, <4>2, <4>3, <4>4, Zenon
    <3>4. QED
      BY <3>1, <3>2, <3>3, Zenon
  <2>8. QED
    BY <2>1, <2>7
<1>3. Seq(S) \subseteq P
  <2> HIDE DEF P
  <2>1. QED
    BY <1>1, <1>2, SequenceInduct
<1>4. QED
  BY <1>3

-----------------------------------------------------------------------------
(* Sequences without repetitions.                                           *)

LEMMA ConcatInjective ==
  ASSUME NEW S, NEW s \in Seq(S), NEW r \in Seq(S), IsInjective(s \o r)
  PROVE  IsInjective(s) /\ IsInjective(r) /\ ToSet(s) \cap ToSet(r) = {}
<1>1. PICK m \in Nat, n \in Nat : /\ m = Len(s) /\ DOMAIN s = 1 .. m
                                  /\ n = Len(r) /\ DOMAIN r = 1 .. n
  BY LenProperties
<1>2. PICK x : x = s \o r
  OBVIOUS
<1>3. /\ x \in Seq(S) /\ Len(x) = m + n
      /\ \A i \in 1 .. m : x[i] = s[i]
      /\ \A i \in 1 .. n : x[m + i] = r[i]
  BY <1>1, <1>2, ConcatAt
<1>4. DOMAIN x = 1 .. m + n
  BY <1>3, LenProperties
<1>5. \A i, j \in 1 .. m + n : x[i] = x[j] => i = j
  BY <1>2, <1>4 DEF IsInjective
<1>6. IsInjective(s)
  BY <1>1, <1>3, <1>5 DEF IsInjective
<1>7. IsInjective(r)
  <2> SUFFICES ASSUME NEW i \in 1 .. n, NEW j \in 1 .. n, r[i] = r[j] PROVE i = j
    BY <1>1 DEF IsInjective
  <2>1. m + i \in 1 .. m + n /\ m + j \in 1 .. m + n
    OBVIOUS
  <2>2. x[m + i] = x[m + j]
    BY <1>3
  <2>3. m + i = m + j
    BY <1>5, <2>1, <2>2
  <2>4. QED
    BY <2>3
<1>8. ASSUME NEW i \in 1 .. m, NEW j \in 1 .. n, s[i] = r[j] PROVE FALSE
  <2>1. i \in 1 .. m + n /\ m + j \in 1 .. m + n /\ i # m + j
    OBVIOUS
  <2>2. x[i] = x[m + j]
    BY <1>3, <1>8
  <2>3. QED
    BY <1>5, <2>1, <2>2
<1>9. ToSet(s) \cap ToSet(r) = {}
  BY <1>1, <1>8 DEF ToSet
<1>10. QED
  BY <1>6, <1>7, <1>9

LEMMA AppendInjects ==
  ASSUME NEW S, NEW s \in Seq(S), NEW e \in S, IsInjective(Append(s, e))
  PROVE  IsInjective(s) /\ e \notin ToSet(s)
<1>1. <<e>> \in Seq(S) /\ Append(s, e) = s \o <<e>>
  BY AppendIsConcat, OneElement
<1>2. IsInjective(s \o <<e>>)
  BY <1>1
<1>3. IsInjective(s) /\ ToSet(s) \cap ToSet(<<e>>) = {}
  BY <1>1, <1>2, ConcatInjective
<1>4. e \in ToSet(<<e>>)
  BY DEF ToSet
<1>5. QED
  BY <1>3, <1>4

(* They are as long as they have elements.                                  *)
LEMMA InjectiveLen ==
  ASSUME NEW S
  PROVE  \A s \in Seq(S) : IsInjective(s) =>
            IsFiniteSet(ToSet(s)) /\ Cardinality(ToSet(s)) = Len(s)
<1> DEFINE P == {s \in Seq(S) : IsInjective(s) =>
                    IsFiniteSet(ToSet(s)) /\ Cardinality(ToSet(s)) = Len(s)}
<1>1. <<>> \in P
  <2>1. ToSet(<<>>) = {} /\ Len(<<>>) = 0 /\ <<>> \in Seq(S)
    BY EmptySeq DEF ToSet
  <2>2. QED
    BY <2>1, FS_EmptySet
<1>2. ASSUME NEW s \in Seq(S), NEW e \in S, s \in P PROVE Append(s, e) \in P
  <2>1. Append(s, e) \in Seq(S) /\ ToSet(Append(s, e)) = ToSet(s) \cup {e}
    BY AppendSet
  <2>2. Len(Append(s, e)) = Len(s) + 1
    BY AppendProperties
  <2>3. ASSUME IsInjective(Append(s, e))
        PROVE  /\ IsFiniteSet(ToSet(s) \cup {e})
               /\ Cardinality(ToSet(s) \cup {e}) = Len(s) + 1
    <3>1. IsInjective(s) /\ e \notin ToSet(s)
      BY <2>3, AppendInjects
    <3>2. IsFiniteSet(ToSet(s)) /\ Cardinality(ToSet(s)) = Len(s)
      BY <1>2, <3>1
    <3>3. QED
      BY <3>1, <3>2, FS_AddElement
  <2>4. QED
    BY <2>1, <2>2, <2>3
<1>3. Seq(S) \subseteq P
  <2> HIDE DEF P
  <2>1. QED
    BY <1>1, <1>2, SequenceInduct
<1>4. QED
  BY <1>3

-----------------------------------------------------------------------------
(* What a function spreads each element of a sequence to, one after the     *)
(* other.                                                                   *)

Spread(G, q) == FlattenSeq([i \in DOMAIN q |-> G[q[i]]])
Maps(G, I, S) == G \in [I -> Seq(S)]

LEMMA SpreadSteps ==
  ASSUME NEW I, NEW S, NEW G, Maps(G, I, S)
  PROVE  /\ Spread(G, <<>>) = <<>>
         /\ \A q \in Seq(I) : Spread(G, q) \in Seq(S)
         /\ \A q \in Seq(I), e \in I :
               Spread(G, Append(q, e)) = Spread(G, q) \o G[e]
<1>0. G \in [I -> Seq(S)]
  BY DEF Maps
<1> DEFINE E(q) == [i \in DOMAIN q |-> G[q[i]]]
<1>1. ASSUME NEW q \in Seq(I), NEW n \in Nat, n = Len(q)
      PROVE  /\ E(q) \in Seq(Seq(S)) /\ Len(E(q)) = n /\ DOMAIN E(q) = 1 .. n
  <2>1. DOMAIN q = 1 .. n
    BY <1>1, LenProperties
  <2>2. \A i \in 1 .. n : G[q[i]] \in Seq(S)
    BY <1>0, <2>1, ElementOfSeq
  <2>3. E(q) \in [1 .. n -> Seq(S)]
    BY <2>1, <2>2
  <2> HIDE DEF E
  <2>4. QED
    BY <2>3, FunctionSeq
<1>2. Spread(G, <<>>) = <<>>
  <2>1. E(<<>>) = <<>>
    <3>1. <<>> \in Seq(I) /\ Len(<<>>) = 0 /\ 0 \in Nat
      BY EmptySeq
    <3>2. E(<<>>) \in Seq(Seq(S)) /\ Len(E(<<>>)) = 0
      BY <1>1, <3>1
    <3> HIDE DEF E
    <3>3. QED
      BY <3>2, EmptySeq
  <2>2. QED
    BY <2>1, FlattenSteps DEF Spread
<1>3. ASSUME NEW q \in Seq(I) PROVE Spread(G, q) \in Seq(S)
  <2>1. E(q) \in Seq(Seq(S))
    BY <1>1, LenProperties
  <2>2. QED
    BY <2>1, FlattenSteps DEF Spread
<1>4. ASSUME NEW q \in Seq(I), NEW e \in I
      PROVE  Spread(G, Append(q, e)) = Spread(G, q) \o G[e]
  <2>1. PICK n \in Nat : n = Len(q) /\ DOMAIN q = 1 .. n
    BY LenProperties
  <2>2. PICK r : /\ r = Append(q, e) /\ r \in Seq(I) /\ Len(r) = n + 1
                 /\ \A i \in 1 .. n : r[i] = q[i]
                 /\ r[n + 1] = e
    <3>1. /\ Append(q, e) \in Seq(I) /\ Len(Append(q, e)) = n + 1
          /\ \A i \in 1 .. n : Append(q, e)[i] = q[i]
          /\ Append(q, e)[n + 1] = e
      BY <2>1, AppendProperties
    <3>2. QED
      BY <3>1
  <2>3. DOMAIN r = 1 .. n + 1
    BY <2>2, LenProperties
  <2>4. E(q) \in Seq(Seq(S)) /\ Len(E(q)) = n /\ DOMAIN E(q) = 1 .. n
    BY <1>1, <2>1
  <2>5. E(r) \in Seq(Seq(S)) /\ Len(E(r)) = n + 1
    <3> HIDE DEF E
    <3>1. PICK k \in Nat : k = n + 1
      OBVIOUS
    <3>2. r \in Seq(I) /\ k = Len(r)
      BY <2>2, <3>1
    <3>3. E(r) \in Seq(Seq(S)) /\ Len(E(r)) = k
      BY <1>1, <3>2
    <3>4. QED
      BY <3>1, <3>3
  <2>6. \A i \in 1 .. n : E(r)[i] = E(q)[i]
    BY <2>1, <2>2, <2>3
  <2>7. E(r)[n + 1] = G[e]
    BY <2>2, <2>3
  <2>8. G[e] \in Seq(S)
    BY <1>0
  <2>9. PICK f \in Seq(Seq(S)), g \in Seq(Seq(S)), y \in Seq(S) : f = E(q) /\ g = E(r) /\ y = G[e]
    BY <2>4, <2>5, <2>8
  <2>10. /\ Append(f, y) \in Seq(Seq(S)) /\ Len(Append(f, y)) = n + 1
         /\ \A i \in 1 .. n : Append(f, y)[i] = f[i]
         /\ Append(f, y)[n + 1] = y
    BY <2>4, <2>9, AppendProperties
  <2>11. Agree(g, Append(f, y), n + 1)
    <3>1. ASSUME NEW i \in 1 .. n + 1 PROVE g[i] = Append(f, y)[i]
      <4>1. CASE i \in 1 .. n
        BY <4>1, <2>6, <2>9, <2>10
      <4>2. CASE i = n + 1
        BY <4>2, <2>7, <2>9, <2>10
      <4>3. i \in 1 .. n \/ i = n + 1
        OBVIOUS
      <4>4. QED
        BY <4>1, <4>2, <4>3
    <3>2. QED
      BY <3>1 DEF Agree
  <2>12. g = Append(f, y)
    <3>1. PICK h \in Seq(Seq(S)) : h = Append(f, y)
      BY <2>10
    <3>2. Len(h) = n + 1 /\ Len(g) = n + 1 /\ n + 1 \in Nat /\ Agree(g, h, n + 1)
      BY <2>5, <2>9, <2>10, <2>11, <3>1
    <3>3. g = h
      BY <3>2, SameSequence
    <3>4. QED
      BY <3>1, <3>3
  <2>13. FlattenSeq(g) = FlattenSeq(f) \o y
    BY <2>12, FlattenSteps
  <2>14. QED
    BY <2>2, <2>9, <2>13 DEF Spread
<1>5. QED
  BY <1>2, <1>3, <1>4

(* Concatenation by another name, which the provers do not look into.       *)
Cat(a, b) == a \o b

LEMMA CatFacts ==
  ASSUME NEW S, NEW a \in Seq(S), NEW b \in Seq(S), NEW c \in Seq(S)
  PROVE  /\ Cat(a, b) \in Seq(S)
         /\ Cat(Cat(a, b), c) = Cat(a, Cat(b, c))
         /\ Cat(a, <<>>) = a
<1>1. a \o b \in Seq(S)
  BY ConcatProperties
<1>2. (a \o b) \o c = a \o (b \o c)
  BY ConcatAssociative
<1>3. a \o <<>> = a
  BY ConcatEmptySeq
<1>4. QED
  BY <1>1, <1>2, <1>3, Zenon DEF Cat

LEMMA CatAppend ==
  ASSUME NEW S, NEW s \in Seq(S), NEW r \in Seq(S), NEW e \in S
  PROVE  Cat(s, Append(r, e)) = Append(Cat(s, r), e)
BY AppendConcat DEF Cat

LEMMA OnlyCat ==
  ASSUME NEW S, NEW p \in Seq(S), NEW q \in Seq(S), NEW R
  PROVE  Only(Cat(p, q), R) = Cat(Only(p, R), Only(q, R))
<1>1. \A r \in Seq(S) : Only(p \o r, R) = Only(p, R) \o Only(r, R)
  BY OnlyConcat
<1>2. Only(p \o q, R) = Only(p, R) \o Only(q, R)
  BY <1>1
<1>3. QED
  BY <1>2, Zenon DEF Cat

LEMMA SpreadNext ==
  ASSUME NEW I, NEW S, NEW G, Maps(G, I, S), NEW q \in Seq(I), NEW e \in I
  PROVE  /\ Spread(G, q) \in Seq(S) /\ G[e] \in Seq(S)
         /\ Spread(G, Append(q, e)) = Cat(Spread(G, q), G[e])
<1>1. G[e] \in Seq(S)
  BY DEF Maps
<1>2. QED
  BY <1>1, SpreadSteps DEF Cat

LEMMA SpreadConcatNext ==
  ASSUME NEW I, NEW S, NEW G, Maps(G, I, S), NEW p \in Seq(I), NEW q \in Seq(I), NEW e \in I,
         Spread(G, Cat(p, q)) = Cat(Spread(G, p), Spread(G, q))
  PROVE  Spread(G, Cat(p, Append(q, e))) = Cat(Spread(G, p), Spread(G, Append(q, e)))
<1>1. Cat(p, Append(q, e)) = Append(Cat(p, q), e)
  BY CatAppend
<1>2. PICK x \in Seq(I) : x = Cat(p, q)
  BY CatFacts
<1>3. PICK a \in Seq(S), b \in Seq(S), y \in Seq(S) :
        a = Spread(G, p) /\ b = Spread(G, q) /\ y = G[e]
  BY SpreadNext
<1>4. Spread(G, Append(x, e)) = Cat(Spread(G, x), y)
  BY <1>3, SpreadNext
<1>5. Spread(G, Append(q, e)) = Cat(b, y)
  BY <1>3, SpreadNext
<1>6. Cat(Cat(a, b), y) = Cat(a, Cat(b, y))
  BY CatFacts
<1>7. QED
  BY <1>1, <1>2, <1>3, <1>4, <1>5, <1>6, Zenon

LEMMA SpreadCat ==
  ASSUME NEW I, NEW S, NEW G, Maps(G, I, S), NEW p \in Seq(I)
  PROVE  \A q \in Seq(I) : Spread(G, Cat(p, q)) = Cat(Spread(G, p), Spread(G, q))
<1> DEFINE P == {q \in Seq(I) : Spread(G, Cat(p, q)) = Cat(Spread(G, p), Spread(G, q))}
<1>1. <<>> \in P
  <2>0. PICK a \in Seq(S) : a = Spread(G, p)
    BY SpreadSteps
  <2>1. Cat(p, <<>>) = p /\ Cat(a, <<>>) = a /\ <<>> \in Seq(I)
    BY CatFacts, EmptySeq
  <2>2. Spread(G, <<>>) = <<>>
    BY SpreadSteps
  <2>3. QED
    BY <2>0, <2>1, <2>2
<1>2. ASSUME NEW q \in Seq(I), NEW e \in I, q \in P PROVE Append(q, e) \in P
  <2>1. Spread(G, Cat(p, q)) = Cat(Spread(G, p), Spread(G, q))
    BY <1>2
  <2>2. Append(q, e) \in Seq(I)
    BY AppendSet
  <2>3. Spread(G, Cat(p, Append(q, e))) = Cat(Spread(G, p), Spread(G, Append(q, e)))
    <3> HIDE DEF P
    <3>1. QED
      BY <2>1, SpreadConcatNext
  <2>4. QED
    BY <2>2, <2>3, Zenon
<1>3. Seq(I) \subseteq P
  <2> HIDE DEF P
  <2>1. QED
    BY <1>1, <1>2, SequenceInduct
<1>4. QED
  BY <1>3

LEMMA SpreadTwo ==
  ASSUME NEW I, NEW S, NEW G, Maps(G, I, S), NEW p \in Seq(I), NEW q \in Seq(I)
  PROVE  Spread(G, Cat(p, q)) = Cat(Spread(G, p), Spread(G, q))
BY SpreadCat

(* The elements of J are sequences of I, and flattening makes one of them.  *)
ListsFrom(I, J) ==
    \A q \in Seq(J) : \A x \in J :
       /\ FlattenSeq(q) \in Seq(I) /\ x \in Seq(I)
       /\ FlattenSeq(Append(q, x)) = Cat(FlattenSeq(q), x)

LEMMA SpreadFlattenNext ==
  ASSUME NEW I, NEW S, NEW G, Maps(G, I, S), NEW J, NEW H, Maps(H, J, S),
         NEW q \in Seq(J), NEW f \in Seq(I), NEW e \in Seq(I), e \in J,
         H[e] = Spread(G, e), Spread(G, f) = Spread(H, q)
  PROVE  Spread(G, Cat(f, e)) = Spread(H, Append(q, e))
<1>1. Spread(G, Cat(f, e)) = Cat(Spread(G, f), Spread(G, e))
  BY SpreadTwo
<1>2. Spread(H, Append(q, e)) = Cat(Spread(H, q), H[e])
  BY SpreadNext
<1>3. QED
  BY <1>1, <1>2, Zenon

(* What a list of lists is spread to, is each of them's, one after another. *)
LEMMA SpreadFlatten ==
  ASSUME NEW I, NEW S, NEW G, Maps(G, I, S), NEW J, ListsFrom(I, J),
         NEW H, Maps(H, J, S), \A x \in J : H[x] = Spread(G, x)
  PROVE  \A q \in Seq(J) : Spread(G, FlattenSeq(q)) = Spread(H, q)
<1> DEFINE P == {q \in Seq(J) : Spread(G, FlattenSeq(q)) = Spread(H, q)}
<1>1. <<>> \in P
  <2>1. Spread(G, <<>>) = <<>> /\ FlattenSeq(<<>>) = <<>>
    BY SpreadSteps, FlattenSteps
  <2>2. Spread(H, <<>>) = <<>>
    BY SpreadSteps
  <2>3. <<>> \in Seq(J)
    BY EmptySeq
  <2>4. QED
    BY <2>1, <2>2, <2>3
<1>2. ASSUME NEW q \in Seq(J), NEW e \in J, q \in P PROVE Append(q, e) \in P
  <2>1. Append(q, e) \in Seq(J)
    BY AppendSet
  <2>2. H[e] = Spread(G, e) /\ Spread(G, FlattenSeq(q)) = Spread(H, q)
    BY <1>2
  <2>3. FlattenSeq(Append(q, e)) = Cat(FlattenSeq(q), e)
    BY Zenon DEF ListsFrom
  <2>4. PICK f \in Seq(I), x \in Seq(I) : f = FlattenSeq(q) /\ x = e /\ x \in J
    BY Zenon DEF ListsFrom
  <2>5. Spread(G, Cat(f, e)) = Spread(H, Append(q, e))
    <3> HIDE DEF P
    <3>1. Spread(G, f) = Spread(H, q) /\ H[x] = Spread(G, x)
      BY <2>2, <2>4, Zenon
    <3>2. Spread(G, Cat(f, x)) = Spread(H, Append(q, x))
      BY <2>4, <3>1, SpreadFlattenNext
    <3>3. QED
      BY <2>4, <3>2, Zenon
  <2>6. QED
    BY <2>1, <2>3, <2>4, <2>5, Zenon
<1>3. Seq(J) \subseteq P
  <2> HIDE DEF P
  <2>1. QED
    BY <1>1, <1>2, SequenceInduct
<1>4. QED
  BY <1>3

LEMMA SpreadHas ==
  ASSUME NEW I, NEW S, NEW G, Maps(G, I, S), NEW x
  PROVE  \A q \in Seq(I) : x \in ToSet(Spread(G, q)) <=> \E m \in ToSet(q) : x \in ToSet(G[m])
<1>s. \A r \in Seq(I), f \in I : Spread(G, Append(r, f)) = Spread(G, r) \o G[f]
  BY SpreadSteps
<1> DEFINE P == {q \in Seq(I) :
                   x \in ToSet(Spread(G, q)) <=> \E m \in ToSet(q) : x \in ToSet(G[m])}
<1>1. <<>> \in P
  <2>1. Spread(G, <<>>) = <<>>
    BY SpreadSteps
  <2>2. ToSet(<<>>) = {}
    BY DEF ToSet
  <2>3. QED
    BY <2>1, <2>2
<1>2. ASSUME NEW q \in Seq(I), NEW e \in I, q \in P PROVE Append(q, e) \in P
  <2>1. Append(q, e) \in Seq(I) /\ ToSet(Append(q, e)) = ToSet(q) \cup {e}
    BY AppendSet
  <2>2. PICK b \in Seq(S), y \in Seq(S) : b = Spread(G, q) /\ y = G[e]
    BY SpreadNext
  <2>3. Spread(G, Append(q, e)) = b \o y
    <3>1. Spread(G, Append(q, e)) = Cat(Spread(G, q), G[e])
      BY SpreadNext
    <3>2. QED
      BY <2>2, <3>1, Zenon DEF Cat
  <2>4. ToSet(b \o y) = ToSet(b) \cup ToSet(y)
    BY ConcatSet
  <2>5. x \in ToSet(b) <=> \E m \in ToSet(q) : x \in ToSet(G[m])
    BY <1>2, <2>2
  <2>6. QED
    BY <2>1, <2>2, <2>3, <2>4, <2>5
<1>3. Seq(I) \subseteq P
  <2> HIDE DEF P
  <2>1. QED
    BY <1>1, <1>2, SequenceInduct
<1>4. QED
  BY <1>3

(* Of different elements nothing is the same, nor of one twice.             *)
Separate(G, T) ==
    /\ \A a \in T : IsInjective(G[a])
    /\ \A a, b \in T : a # b => ToSet(G[a]) \cap ToSet(G[b]) = {}

LEMMA SpreadInjective ==
  ASSUME NEW I, NEW S, NEW G, Maps(G, I, S), NEW T, Separate(G, T)
  PROVE  \A q \in Seq(I) : IsInjective(q) /\ ToSet(q) \subseteq T => IsInjective(Spread(G, q))
<1>s. \A r \in Seq(I), f \in I : Spread(G, Append(r, f)) = Spread(G, r) \o G[f]
  BY SpreadSteps
<1> DEFINE P == {q \in Seq(I) :
                   IsInjective(q) /\ ToSet(q) \subseteq T => IsInjective(Spread(G, q))}
<1>1. <<>> \in P
  <2>1. Spread(G, <<>>) = <<>>
    BY SpreadSteps
  <2>2. IsInjective(<<>>)
    BY DEF IsInjective
  <2>3. QED
    BY <2>1, <2>2
<1>2. ASSUME NEW q \in Seq(I), NEW e \in I, q \in P PROVE Append(q, e) \in P
  <2>1. Append(q, e) \in Seq(I) /\ ToSet(Append(q, e)) = ToSet(q) \cup {e}
    BY AppendSet
  <2> SUFFICES ASSUME IsInjective(Append(q, e)), ToSet(Append(q, e)) \subseteq T
               PROVE  IsInjective(Spread(G, Append(q, e)))
    BY <2>1
  <2>2. PICK b \in Seq(S), y \in Seq(S) : b = Spread(G, q) /\ y = G[e]
    BY SpreadNext
  <2>3. Spread(G, Append(q, e)) = b \o y
    <3>1. Spread(G, Append(q, e)) = Spread(G, q) \o G[e]
      BY <1>s, Zenon
    <3>2. QED
      BY <2>2, <3>1, Zenon
  <2>4. IsInjective(q) /\ e \notin ToSet(q)
    BY AppendInjects
  <2>5. IsInjective(b)
    BY <1>2, <2>1, <2>2, <2>4
  <2>6. IsInjective(y)
    BY <2>1, <2>2 DEF Separate
  <2>7. ToSet(b) \cap ToSet(y) = {}
    <3> SUFFICES ASSUME NEW x \in ToSet(b), x \in ToSet(y) PROVE FALSE
      OBVIOUS
    <3>1. PICK m \in ToSet(q) : x \in ToSet(G[m])
      BY <2>2, SpreadHas
    <3>2. m # e /\ m \in T /\ e \in T
      BY <2>1, <2>4
    <3>3. ToSet(G[m]) \cap ToSet(G[e]) = {}
      BY <3>2 DEF Separate
    <3>4. QED
      BY <2>2, <3>1, <3>3
  <2>8. QED
    BY <2>3, <2>5, <2>6, <2>7, ConcatSet
<1>3. Seq(I) \subseteq P
  <2> HIDE DEF P
  <2>1. QED
    BY <1>1, <1>2, SequenceInduct
<1>4. QED
  BY <1>3

LEMMA SpreadApart ==
  ASSUME NEW I, NEW S, NEW G, Maps(G, I, S)
  PROVE  \A q \in Seq(I) : IsInjective(Spread(G, q)) => Separate(G, ToSet(q))
<1>s. \A r \in Seq(I), f \in I : Spread(G, Append(r, f)) = Spread(G, r) \o G[f]
  BY SpreadSteps
<1> DEFINE P == {q \in Seq(I) : IsInjective(Spread(G, q)) => Separate(G, ToSet(q))}
<1>1. <<>> \in P
  <2>1. ToSet(<<>>) = {}
    BY DEF ToSet
  <2>2. QED
    BY <2>1 DEF Separate
<1>2. ASSUME NEW q \in Seq(I), NEW e \in I, q \in P PROVE Append(q, e) \in P
  <2>1. Append(q, e) \in Seq(I) /\ ToSet(Append(q, e)) = ToSet(q) \cup {e}
    BY AppendSet
  <2> SUFFICES ASSUME IsInjective(Spread(G, Append(q, e)))
               PROVE  Separate(G, ToSet(q) \cup {e})
    BY <2>1
  <2>2. PICK b \in Seq(S), y \in Seq(S) : b = Spread(G, q) /\ y = G[e]
    BY SpreadNext
  <2>3. Spread(G, Append(q, e)) = b \o y
    <3>1. Spread(G, Append(q, e)) = Cat(Spread(G, q), G[e])
      BY SpreadNext
    <3>2. QED
      BY <2>2, <3>1, Zenon DEF Cat
  <2>4. IsInjective(b \o y)
    BY <2>3
  <2>5. IsInjective(b) /\ IsInjective(y) /\ ToSet(b) \cap ToSet(y) = {}
    BY <2>4, ConcatInjective
  <2>6. Separate(G, ToSet(q))
    BY <1>2, <2>2, <2>5
  <2>7. ASSUME NEW m \in ToSet(q) PROVE ToSet(G[m]) \subseteq ToSet(b)
    <3> SUFFICES ASSUME NEW x \in ToSet(G[m]) PROVE x \in ToSet(b)
      OBVIOUS
    <3>1. x \in ToSet(Spread(G, q))
      BY SpreadHas
    <3>2. QED
      BY <2>2, <3>1
  <2>8. \A m \in ToSet(q) : ToSet(G[m]) \cap ToSet(G[e]) = {}
    BY <2>2, <2>5, <2>7
  <2>9. IsInjective(G[e])
    BY <2>2, <2>5
  <2>10. QED
    BY <2>6, <2>8, <2>9 DEF Separate
<1>3. Seq(I) \subseteq P
  <2> HIDE DEF P
  <2>1. QED
    BY <1>1, <1>2, SequenceInduct
<1>4. QED
  BY <1>3

(* What some of the elements are spread to is only some of what all are.    *)
LEMMA SpreadOnly ==
  ASSUME NEW I, NEW S, NEW G, Maps(G, I, S), NEW R
  PROVE  \A q \in Seq(I) : IsInjective(Spread(G, q)) =>
            Spread(G, Only(q, R)) = Only(Spread(G, q), ToSet(Spread(G, Only(q, R))))
<1>s. \A r \in Seq(I), f \in I : Spread(G, Append(r, f)) = Spread(G, r) \o G[f]
  BY SpreadSteps
<1>t. \A A : \A p, r \in Seq(S) : Only(p \o r, A) = Only(p, A) \o Only(r, A)
  BY OnlyConcat
<1> DEFINE P == {q \in Seq(I) : IsInjective(Spread(G, q)) =>
                   Spread(G, Only(q, R)) = Only(Spread(G, q), ToSet(Spread(G, Only(q, R))))}
<1>1. <<>> \in P
  <2>1. Spread(G, <<>>) = <<>> /\ Only(<<>>, R) = <<>>
    BY SpreadSteps, OnlyNothing
  <2>2. Only(<<>>, ToSet(<<>>)) = <<>>
    BY OnlyNothing
  <2>3. QED
    BY <2>1, <2>2
<1>2. ASSUME NEW q \in Seq(I), NEW e \in I, q \in P PROVE Append(q, e) \in P
  <2>1. Append(q, e) \in Seq(I)
    BY AppendSet
  <2> SUFFICES ASSUME IsInjective(Spread(G, Append(q, e)))
               PROVE  Spread(G, Only(Append(q, e), R))
                        = Only(Spread(G, Append(q, e)), ToSet(Spread(G, Only(Append(q, e), R))))
    BY <2>1
  <2>2. PICK b \in Seq(S), y \in Seq(S) : b = Spread(G, q) /\ y = G[e]
    BY SpreadNext
  <2>3. Spread(G, Append(q, e)) = b \o y
    <3>1. Spread(G, Append(q, e)) = Spread(G, q) \o G[e]
      BY <1>s, Zenon
    <3>2. QED
      BY <2>2, <3>1, Zenon
  <2>4. IsInjective(b \o y)
    BY <2>3
  <2>5. IsInjective(b) /\ ToSet(b) \cap ToSet(y) = {}
    BY <2>4, ConcatInjective
  <2>6. PICK o \in Seq(I) : o = Only(q, R)
    BY OnlyFacts
  <2>7. PICK z \in Seq(S) : z = Spread(G, o)
    BY SpreadSteps
  <2>8. z = Only(b, ToSet(z))
    BY <1>2, <2>2, <2>5, <2>6, <2>7
  <2>9. ToSet(z) \subseteq ToSet(b)
    <3>1. ToSet(Only(b, ToSet(z))) = ToSet(b) \cap ToSet(z)
      BY OnlyFacts
    <3>2. QED
      BY <2>8, <3>1
  <2>10. CASE e \in R
    <3>1. Only(Append(q, e), R) = Append(o, e)
      BY <2>6, <2>10, OnlySteps
    <3>2. Spread(G, Append(o, e)) = z \o y
      <4>1. Spread(G, Append(o, e)) = Spread(G, o) \o G[e]
        BY <1>s, Zenon
      <4>2. QED
        BY <2>2, <2>7, <4>1, Zenon
    <3>3. PICK A : A = ToSet(z \o y) /\ A = ToSet(z) \cup ToSet(y)
      BY ConcatSet
    <3>4. Only(b \o y, A) = Only(b, A) \o Only(y, A)
      BY <1>t, Zenon
    <3>5. Only(b, A) = z
      <4>1. ToSet(b) \cap A = ToSet(b) \cap ToSet(z)
        BY <2>5, <3>3
      <4>2. Only(b, A) = Only(b, ToSet(z))
        BY <4>1, OnlySame
      <4>3. QED
        BY <2>8, <4>2
    <3>6. Only(y, A) = y
      <4>1. ToSet(y) \subseteq A
        BY <3>3
      <4>2. QED
        BY <4>1, OnlyAll
    <3>7. QED
      BY <2>3, <3>1, <3>2, <3>3, <3>4, <3>5, <3>6
  <2>11. CASE e \notin R
    <3>1. Only(Append(q, e), R) = o
      BY <2>6, <2>11, OnlySteps
    <3>2. Only(b \o y, ToSet(z)) = Only(b, ToSet(z)) \o Only(y, ToSet(z))
      BY <1>t, Zenon
    <3>3. Only(y, ToSet(z)) = <<>>
      <4>1. ToSet(y) \cap ToSet(z) = {}
        BY <2>5, <2>9
      <4>2. QED
        BY <4>1, OnlyNone
    <3>4. z \o <<>> = z
      BY ConcatEmptySeq
    <3>5. Only(b \o y, ToSet(z)) = z
      BY <2>8, <3>2, <3>3, <3>4
    <3>6. QED
      BY <2>3, <2>7, <3>1, <3>5
  <2>12. QED
    BY <2>10, <2>11
<1>3. Seq(I) \subseteq P
  <2> HIDE DEF P
  <2>1. QED
    BY <1>1, <1>2, SequenceInduct
<1>4. QED
  BY <1>3

(* A sequence has no element twice if what it is spread to has none, and no *)
(* element is spread to nothing.                                            *)
LEMMA SpreadPlaces ==
  ASSUME NEW I, NEW S, NEW G, Maps(G, I, S), NEW q \in Seq(I), IsInjective(Spread(G, q)),
         \A e \in ToSet(q) : G[e] # <<>>
  PROVE  IsInjective(q)
<1> DEFINE P == {r \in Seq(I) : IsInjective(Spread(G, r)) /\ (\A e \in ToSet(r) : G[e] # <<>>)
                                  => IsInjective(r)}
<1>1. <<>> \in P
  BY DEF IsInjective
<1>2. ASSUME NEW r \in Seq(I), NEW e \in I, r \in P PROVE Append(r, e) \in P
  <2>0. Append(r, e) \in Seq(I)
    BY AppendSet
  <2> SUFFICES ASSUME IsInjective(Spread(G, Append(r, e))),
                      \A d \in ToSet(Append(r, e)) : G[d] # <<>>
               PROVE  IsInjective(Append(r, e))
    BY <2>0
  <2>1. /\ ToSet(Append(r, e)) = ToSet(r) \cup {e}
        /\ IsInjective(r) /\ e \notin ToSet(r) => IsInjective(Append(r, e))
    BY AppendSet
  <2>2. /\ Spread(G, r) \in Seq(S) /\ G[e] \in Seq(S)
        /\ Spread(G, Append(r, e)) = Cat(Spread(G, r), G[e])
    BY SpreadNext
  <2>3. IsInjective(Spread(G, r) \o G[e])
    BY <2>2, Zenon DEF Cat
  <2>4. IsInjective(Spread(G, r)) /\ ToSet(Spread(G, r)) \cap ToSet(G[e]) = {}
    BY <2>2, <2>3, ConcatInjective
  <2>5. IsInjective(r)
    BY <1>2, <2>1, <2>4
  <2>6. e \notin ToSet(r)
    <3> SUFFICES ASSUME e \in ToSet(r) PROVE FALSE
      OBVIOUS
    <3> HIDE DEF P
    <3>1. \A x : x \in ToSet(Spread(G, r)) <=> \E m \in ToSet(r) : x \in ToSet(G[m])
      BY SpreadHas
    <3>2. ToSet(G[e]) = {}
      BY <2>4, <3>1
    <3>3. G[e] = <<>>
      BY <2>2, <3>2, NothingIn
    <3>4. G[e] # <<>>
      BY <2>1
    <3>5. QED
      BY <3>3, <3>4
  <2>7. QED
    BY <2>1, <2>5, <2>6
<1>3. Seq(I) \subseteq P
  <2> HIDE DEF P
  <2>1. \A r \in Seq(I), e \in I : r \in P => Append(r, e) \in P
    BY <1>2
  <2>2. QED
    BY <1>1, <2>1, SequenceInduct
<1>4. QED
  BY <1>3

(* A sequence of what is in a set is one of that set's elements.            *)
LEMMA SeqWithin ==
  ASSUME NEW S, NEW q \in Seq(S), NEW I, ToSet(q) \subseteq I
  PROVE  q \in Seq(I)
<1>1. PICK n \in Nat : n = Len(q) /\ DOMAIN q = 1 .. n
  BY LenProperties
<1>2. q \in [1 .. n -> S]
  BY <1>1, LenProperties
<1>3. \A i \in 1 .. n : q[i] \in I
  BY <1>1 DEF ToSet
<1>4. q \in [1 .. n -> I]
  BY <1>2, <1>3
<1>5. QED
  BY <1>4, FunctionSeq
=============================================================================
