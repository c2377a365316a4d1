----------------------------- MODULE DataProofs -----------------------------
(***************************************************************************)
(* Proofs about DataPlane: whatever is packed keeps every member, in order *)
(* and once; a plan, and what it is split into, stays within the types;    *)
(* what is done does not change; and a stage that a run is past has all of *)
(* the source that the run has not skipped.                                *)
(*                                                                         *)
(* What FoldLeft and FlattenSeq come to is found by induction, which is     *)
(* taken from the order of the finite sets (Induct, SequenceInduct).       *)
(***************************************************************************)
EXTENDS DataPlane, SequenceProofs

-----------------------------------------------------------------------------
(* pack, chunk by chunk.                                                   *)

PackStep(p, m, target) == Add(IF p.weight + m.weight > target THEN Flush(p) ELSE p, m)

(* What FoldLeft builds: what is packed after the chunks at the places s,   *)
(* of which only the 1 .. n matter.                                        *)
Packs(chunks, target, n, it) ==
    it = [s \in SUBSET (1 .. n) |->
            IF s = {} THEN NothingPacked
            ELSE PackStep(it[s \ {Max(s)}], chunks[Max(s)], target)]
Packed(chunks, target) ==
    (CHOOSE it : Packs(chunks, target, Len(chunks), it))[1 .. Len(chunks)]

LEMMA PackIsPacked ==
  ASSUME NEW S, NEW chunks \in Seq(S), NEW target
  PROVE  Pack(chunks, target) = Flush(Packed(chunks, target)).out
<1>1. DOMAIN chunks = 1 .. Len(chunks)
  BY LenProperties
<1>2. QED
  BY <1>1 DEF Pack, FoldLeft, MapThenFoldSet, Packed, Packs, PackStep

LEMMA MaxFacts ==
  ASSUME NEW n \in Nat, NEW s \in SUBSET (1 .. n + 1), n + 1 \in s
  PROVE  Max(s) = n + 1
<1>1. \A y \in s : n + 1 >= y
  OBVIOUS
<1>2. \A x \in s : (\A y \in s : x >= y) => x = n + 1
  OBVIOUS
<1>3. QED
  BY <1>1, <1>2 DEF Max

LEMMA PacksExists ==
  ASSUME NEW chunks, NEW target
  PROVE  \A n \in Nat : \E it : Packs(chunks, target, n, it)
<1> DEFINE N == {n \in Nat : \E it : Packs(chunks, target, n, it)}
<1>1. 0 \in N
  <2> DEFINE it == [s \in SUBSET (1 .. 0) |-> NothingPacked]
  <2>1. \A s \in SUBSET (1 .. 0) : s = {}
    OBVIOUS
  <2>2. it = [s \in SUBSET (1 .. 0) |->
            IF s = {} THEN NothingPacked
            ELSE PackStep(it[s \ {Max(s)}], chunks[Max(s)], target)]
    BY <2>1
  <2> HIDE DEF it
  <2>3. QED
    BY <2>2 DEF Packs
<1>2. ASSUME NEW n \in Nat, n \in N PROVE n + 1 \in N
  <2>1. PICK g : Packs(chunks, target, n, g)
    BY <1>2
  <2>2. g = [s \in SUBSET (1 .. n) |->
            IF s = {} THEN NothingPacked
            ELSE PackStep(g[s \ {Max(s)}], chunks[Max(s)], target)]
    BY <2>1 DEF Packs
  <2> DEFINE f == [s \in SUBSET (1 .. n + 1) |->
                    IF n + 1 \in s THEN PackStep(g[s \ {n + 1}], chunks[n + 1], target)
                    ELSE g[s]]
  <2>3. ASSUME NEW s \in SUBSET (1 .. n + 1)
        PROVE  f[s] = IF s = {} THEN NothingPacked
                      ELSE PackStep(f[s \ {Max(s)}], chunks[Max(s)], target)
    <3>1. CASE n + 1 \in s
      <4>1. Max(s) = n + 1
        BY <3>1, MaxFacts
      <4>2. s \ {n + 1} \in SUBSET (1 .. n + 1) /\ n + 1 \notin s \ {n + 1}
        OBVIOUS
      <4>3. f[s \ {n + 1}] = g[s \ {n + 1}]
        BY <4>2
      <4>4. f[s] = PackStep(g[s \ {n + 1}], chunks[n + 1], target)
        BY <3>1
      <4>5. QED
        BY <3>1, <4>1, <4>3, <4>4
    <3>2. CASE n + 1 \notin s
      <4>1. s \in SUBSET (1 .. n)
        BY <3>2
      <4>2. f[s] = g[s]
        BY <3>2
      <4>3. g[s] = IF s = {} THEN NothingPacked
                   ELSE PackStep(g[s \ {Max(s)}], chunks[Max(s)], target)
        BY <2>2, <4>1
      <4>4. s \ {Max(s)} \in SUBSET (1 .. n + 1) /\ n + 1 \notin s \ {Max(s)}
        BY <3>2
      <4>5. f[s \ {Max(s)}] = g[s \ {Max(s)}]
        BY <4>4
      <4>6. QED
        BY <4>2, <4>3, <4>5
    <3>3. QED
      BY <3>1, <3>2
  <2>4. f = [s \in SUBSET (1 .. n + 1) |->
            IF s = {} THEN NothingPacked
            ELSE PackStep(f[s \ {Max(s)}], chunks[Max(s)], target)]
    BY <2>3
  <2> HIDE DEF f
  <2>5. Packs(chunks, target, n + 1, f)
    BY <2>4 DEF Packs
  <2>6. QED
    BY <2>5
<1>3. Nat \subseteq N
  <2> HIDE DEF N
  <2>1. QED
    BY <1>1, <1>2, Induct
<1>4. QED
  BY <1>3

(* It packs the chunks one after the other. *)
PacksInTurn(chunks, target, n, it) ==
    /\ it[1 .. 0] = NothingPacked
    /\ \A k \in Nat : k + 1 <= n =>
          it[1 .. k + 1] = PackStep(it[1 .. k], chunks[k + 1], target)

LEMMA PacksStep ==
  ASSUME NEW chunks, NEW target, NEW n \in Nat, NEW it, Packs(chunks, target, n, it)
  PROVE  PacksInTurn(chunks, target, n, it)
<1>1. \A s \in SUBSET (1 .. n) :
          it[s] = IF s = {} THEN NothingPacked
                  ELSE PackStep(it[s \ {Max(s)}], chunks[Max(s)], target)
  BY DEF Packs
<1>2. 1 .. 0 = {}
  OBVIOUS
<1>3. it[1 .. 0] = NothingPacked
  BY <1>1, <1>2
<1>4. ASSUME NEW k \in Nat, k + 1 <= n
      PROVE  it[1 .. k + 1] = PackStep(it[1 .. k], chunks[k + 1], target)
  <2>1. PICK s \in SUBSET (1 .. n) : s = 1 .. k + 1
    <3>1. 1 .. k + 1 \in SUBSET (1 .. n)
      BY <1>4
    <3>2. QED
      BY <3>1
  <2>2. k + 1 \in s /\ s \in SUBSET (1 .. k + 1) /\ s \ {k + 1} = 1 .. k
    BY <2>1
  <2>3. Max(s) = k + 1
    BY <2>2, MaxFacts
  <2>4. it[s] = PackStep(it[s \ {k + 1}], chunks[k + 1], target)
    BY <1>1, <2>2, <2>3
  <2>5. QED
    BY <2>1, <2>2, <2>4
<1>5. QED
  BY <1>3, <1>4 DEF PacksInTurn

(* Where the chunks are the same, what is packed is.                        *)
LEMMA PacksUnique ==
  ASSUME NEW q, NEW r, NEW target, NEW n \in Nat, NEW m \in Nat, NEW f, NEW g,
         Packs(q, target, n, f), Packs(r, target, m, g), n <= m, Agree(q, r, n)
  PROVE  f[1 .. n] = g[1 .. n]
<1> DEFINE N == {k \in Nat : k <= n => f[1 .. k] = g[1 .. k]}
<1>1. PacksInTurn(q, target, n, f)
  BY PacksStep
<1>2. PacksInTurn(r, target, m, g)
  BY PacksStep
<1>3. 0 \in N
  BY <1>1, <1>2 DEF PacksInTurn
<1>4. ASSUME NEW k \in Nat, k \in N PROVE k + 1 \in N
  <2> SUFFICES ASSUME k + 1 <= n PROVE f[1 .. k + 1] = g[1 .. k + 1]
    OBVIOUS
  <2>1. f[1 .. k] = g[1 .. k]
    BY <1>4
  <2>2. k + 1 <= m
    OBVIOUS
  <2>3. q[k + 1] = r[k + 1]
    BY DEF Agree
  <2>4. QED
    BY <1>1, <1>2, <2>1, <2>2, <2>3 DEF PacksInTurn
<1>5. Nat \subseteq N
  <2> HIDE DEF N
  <2>1. QED
    BY <1>3, <1>4, Induct
<1>6. QED
  BY <1>5

(* Packed, by one chunk more.                                              *)
LEMMA PackedSteps ==
  ASSUME NEW S, NEW target
  PROVE  /\ Packed(<<>>, target) = NothingPacked
         /\ \A q \in Seq(S), c \in S :
               Packed(Append(q, c), target) = PackStep(Packed(q, target), c, target)
<1>1. ASSUME NEW q \in Seq(S)
      PROVE  \E it : /\ Packs(q, target, Len(q), it) /\ Len(q) \in Nat
                     /\ Packed(q, target) = it[1 .. Len(q)]
  <2>1. Len(q) \in Nat
    BY LenProperties
  <2>2. \E it : Packs(q, target, Len(q), it)
    BY <2>1, PacksExists
  <2>3. QED
    BY <2>1, <2>2 DEF Packed
<1>2. Packed(<<>>, target) = NothingPacked
  <2>1. <<>> \in Seq(S) /\ Len(<<>>) = 0
    BY EmptySeq
  <2>2. PICK it : Packs(<<>>, target, 0, it) /\ Packed(<<>>, target) = it[1 .. 0]
    BY <1>1, <2>1
  <2>3. it[1 .. 0] = NothingPacked
    BY <2>2, PacksStep DEF PacksInTurn
  <2>4. QED
    BY <2>2, <2>3
<1>3. ASSUME NEW q \in Seq(S), NEW c \in S
      PROVE  Packed(Append(q, c), target) = PackStep(Packed(q, target), c, target)
  <2>1. /\ Append(q, c) \in Seq(S) /\ Len(Append(q, c)) = Len(q) + 1
        /\ Append(q, c)[Len(q) + 1] = c /\ Agree(q, Append(q, c), Len(q))
    BY AppendProperties DEF Agree
  <2>2. PICK n \in Nat : n = Len(q)
    BY LenProperties
  <2>3. PICK f : Packs(q, target, n, f) /\ Packed(q, target) = f[1 .. n]
    BY <1>1, <2>2
  <2>4. PICK g : /\ Packs(Append(q, c), target, n + 1, g)
                 /\ Packed(Append(q, c), target) = g[1 .. n + 1]
    BY <1>1, <2>1, <2>2
  <2>5. f[1 .. n] = g[1 .. n]
    <3>1. n <= n + 1 /\ n + 1 \in Nat /\ Agree(q, Append(q, c), n)
      BY <2>1, <2>2
    <3>2. QED
      BY <2>3, <2>4, <3>1, PacksUnique
  <2>6. g[1 .. n + 1] = PackStep(g[1 .. n], Append(q, c)[n + 1], target)
    <3>1. n + 1 \in Nat /\ n + 1 <= n + 1
      OBVIOUS
    <3>2. PacksInTurn(Append(q, c), target, n + 1, g)
      BY <2>4, <3>1, PacksStep
    <3>3. QED
      BY <3>1, <3>2 DEF PacksInTurn
  <2>7. Append(q, c)[n + 1] = c
    BY <2>1, <2>2
  <2>8. QED
    BY <2>3, <2>4, <2>5, <2>6, <2>7
<1>4. QED
  BY <1>2, <1>3

-----------------------------------------------------------------------------
(* The members of what is packed.                                           *)

Members(chunks) == [i \in DOMAIN chunks |-> chunks[i].members]

(* C is a set of chunks, or of tasks, of members in I. *)
HaveMembers(C, I) == \A c \in C : c.members \in Seq(I)

(* A chunk of pack, of members in I. *)
Bundle(I) == [id : {<<n>> : n \in Nat}, members : Seq(I), weight : Weight]

(* What pack has in hand once it has seen the members ids: they are in its  *)
(* chunks in order, or in the one it fills, and weigh one at least.         *)
Made(p, ids, I) ==
    /\ p \in [out : Seq(Bundle(I)), cur : Seq(I), weight : Nat]
    /\ p.weight >= Len(p.cur)
    /\ \A i \in DOMAIN p.out :
          /\ p.out[i].id = <<i - 1>>
          /\ p.out[i].members # <<>>
          /\ p.out[i].weight >= Len(p.out[i].members)
    /\ Len(p.out) + Len(p.cur) <= Len(ids)
    /\ FlattenSeq(Members(p.out)) \o p.cur = ids
InHand(p, ids, I) ==
    /\ Made(p, ids, I)
    /\ p.cur = <<>> => p.out = <<>> /\ p.weight = 0

LEMMA MembersType ==
  ASSUME NEW I, NEW C, HaveMembers(C, I), NEW s \in Seq(C), NEW n \in Nat, n = Len(s)
  PROVE  Members(s) \in Seq(Seq(I)) /\ Len(Members(s)) = n /\ DOMAIN Members(s) = 1 .. n
<1>1. DOMAIN s = 1 .. n
  BY LenProperties
<1>2. \A i \in 1 .. n : s[i] \in C
  BY <1>1, ElementOfSeq
<1>3. \A i \in 1 .. n : s[i].members \in Seq(I)
  BY <1>2 DEF HaveMembers
<1>4. Members(s) \in [1 .. n -> Seq(I)]
  BY <1>1, <1>3 DEF Members
<1>5. QED
  BY <1>4, FunctionSeq

LEMMA MembersAppend ==
  ASSUME NEW I, NEW C, HaveMembers(C, I), NEW s \in Seq(C), NEW c \in C
  PROVE  /\ Members(s) \in Seq(Seq(I))
         /\ Members(Append(s, c)) = Append(Members(s), c.members)
<1>1. PICK n \in Nat : n = Len(s) /\ DOMAIN s = 1 .. n
  BY LenProperties
<1>3. Members(s) \in Seq(Seq(I)) /\ Len(Members(s)) = n /\ DOMAIN Members(s) = 1 .. n
  BY <1>1, MembersType
<1>4. /\ DOMAIN Append(s, c) = 1 .. n + 1
      /\ \A i \in 1 .. n : Append(s, c)[i] = s[i]
      /\ Append(s, c)[n + 1] = c
  BY <1>1, AppendProperties, LenProperties
<1>5. c.members \in Seq(I)
  BY DEF HaveMembers
<1>6. PICK ms \in Seq(Seq(I)) : ms = Members(s)
  BY <1>3
<1>7. PICK x \in Seq(I) : x = c.members
  BY <1>5
<1>8. /\ Append(ms, x) \in Seq(Seq(I)) /\ Len(Append(ms, x)) = n + 1
      /\ \A i \in 1 .. n : Append(ms, x)[i] = ms[i]
      /\ Append(ms, x)[n + 1] = x
  BY <1>3, <1>6, AppendProperties
<1>9. DOMAIN Append(ms, x) = 1 .. n + 1
  BY <1>8, LenProperties
<1>10. Members(Append(s, c)) = [i \in 1 .. n + 1 |-> Append(ms, x)[i]]
  <2>1. \A i \in 1 .. n + 1 : Append(s, c)[i].members = Append(ms, x)[i]
    <3> SUFFICES ASSUME NEW i \in 1 .. n + 1
                 PROVE  Append(s, c)[i].members = Append(ms, x)[i]
      OBVIOUS
    <3>1. CASE i \in 1 .. n
      BY <3>1, <1>1, <1>4, <1>6, <1>8 DEF Members
    <3>2. CASE i = n + 1
      BY <3>2, <1>4, <1>7, <1>8
    <3>3. i \in 1 .. n \/ i = n + 1
      OBVIOUS
    <3>4. QED
      BY <3>1, <3>2, <3>3
  <2>2. QED
    BY <2>1, <1>4 DEF Members
<1>11. Append(ms, x) = [i \in 1 .. n + 1 |-> Append(ms, x)[i]]
  <2>1. PICK y : y = Append(ms, x)
    OBVIOUS
  <2>2. y \in [1 .. n + 1 -> Seq(I)]
    BY <2>1, <1>8, LenProperties
  <2>3. y = [i \in 1 .. n + 1 |-> y[i]]
    BY <2>2
  <2>4. QED
    BY <2>1, <2>3
<1>12. QED
  BY <1>3, <1>6, <1>7, <1>10, <1>11

LEMMA BundlesHaveMembers ==
  ASSUME NEW I
  PROVE  HaveMembers(Bundle(I), I)
BY DEF HaveMembers, Bundle

LEMMA FlushKeeps ==
  ASSUME NEW I, NEW ids \in Seq(I), NEW p, InHand(p, ids, I)
  PROVE  /\ Flush(p) \in [out : Seq(Bundle(I)), cur : Seq(I), weight : Nat]
         /\ Flush(p).cur = <<>> /\ Flush(p).weight = 0
         /\ \A i \in DOMAIN Flush(p).out :
               /\ Flush(p).out[i].id = <<i - 1>>
               /\ Flush(p).out[i].members # <<>>
               /\ Flush(p).out[i].weight >= Len(Flush(p).out[i].members)
         /\ Len(Flush(p).out) <= Len(ids)
         /\ FlattenSeq(Members(Flush(p).out)) = ids
<1>1. PICK out \in Seq(Bundle(I)), cur \in Seq(I), weight \in Nat :
        p.out = out /\ p.cur = cur /\ p.weight = weight
  BY DEF InHand, Made
<1>2. CASE cur = <<>>
  <2>1. Flush(p) = p /\ out = <<>> /\ weight = 0
    BY <1>1, <1>2 DEF Flush, InHand, Made
  <2>2. p.cur = <<>> /\ p.weight = 0
    BY <2>1, <1>1, <1>2
  <2>3. FlattenSeq(Members(p.out)) = ids
    <3>1. FlattenSeq(Members(p.out)) \in Seq(I)
      <4>1. Members(out) \in Seq(Seq(I))
        BY MembersType, LenProperties, BundlesHaveMembers
      <4>2. QED
        BY <4>1, <1>1, FlattenSteps
    <3>2. FlattenSeq(Members(p.out)) \o <<>> = FlattenSeq(Members(p.out))
      BY <3>1, ConcatEmptySeq
    <3>3. QED
      BY <3>2, <2>2 DEF InHand, Made
  <2>4. Len(p.out) <= Len(ids)
    BY <2>1, <1>1, LenProperties, EmptySeq
  <2>5. QED
    BY <2>1, <2>2, <2>3, <2>4 DEF InHand, Made
<1>3. CASE cur # <<>>
  <2>1. PICK n \in Nat : n = Len(out) /\ DOMAIN out = 1 .. n
    BY LenProperties
  <2>2. PICK k \in Nat : k = Len(cur) /\ k > 0 /\ k <= weight /\ n + k <= Len(ids)
    BY <1>1, <1>3, <2>1, LenProperties, EmptySeq DEF InHand, Made
  <2>3. PICK c : c = [id |-> <<n>>, members |-> cur, weight |-> weight]
    OBVIOUS
  <2>4. c \in Bundle(I) /\ c.id = <<n>> /\ c.members = cur /\ c.weight = weight
    BY <2>2, <2>3 DEF Bundle, Weight
  <2>5. PICK o : o = Append(out, c)
    OBVIOUS
  <2>6. /\ o \in Seq(Bundle(I)) /\ Len(o) = n + 1 /\ DOMAIN o = 1 .. n + 1
        /\ \A i \in 1 .. n : o[i] = out[i]
        /\ o[n + 1] = c
    BY <2>1, <2>4, <2>5, AppendProperties, LenProperties
  <2>7. Flush(p) = [out |-> o, cur |-> <<>>, weight |-> 0]
    BY <1>1, <1>3, <2>1, <2>3, <2>5 DEF Flush, NothingPacked
  <2>8. \A i \in 1 .. n + 1 : /\ o[i].id = <<i - 1>>
                              /\ o[i].members # <<>>
                              /\ o[i].weight >= Len(o[i].members)
    <3> SUFFICES ASSUME NEW i \in 1 .. n + 1
                 PROVE  /\ o[i].id = <<i - 1>>
                        /\ o[i].members # <<>>
                        /\ o[i].weight >= Len(o[i].members)
      OBVIOUS
    <3>1. CASE i \in 1 .. n
      BY <3>1, <1>1, <2>1, <2>6 DEF InHand, Made
    <3>2. CASE i = n + 1
      <4>1. i - 1 = n
        BY <3>2
      <4>2. QED
        BY <4>1, <3>2, <1>3, <2>2, <2>4, <2>6
    <3>3. QED
      BY <3>1, <3>2
  <2>9. FlattenSeq(Members(o)) = ids
    <3>1. Members(o) = Append(Members(out), cur) /\ Members(out) \in Seq(Seq(I))
      BY <2>4, <2>5, MembersAppend, BundlesHaveMembers
    <3>2. PICK ms \in Seq(Seq(I)) : ms = Members(out)
      BY <3>1
    <3>3. FlattenSeq(Append(ms, cur)) = FlattenSeq(ms) \o cur
      BY FlattenSteps
    <3>4. QED
      BY <3>1, <3>2, <3>3, <1>1 DEF InHand, Made
  <2>10. n + 1 <= Len(ids)
    BY <2>2, LenProperties
  <2>11. QED
    BY <2>6, <2>7, <2>8, <2>9, <2>10, EmptySeq
<1>4. QED
  BY <1>2, <1>3

LEMMA AddKeeps ==
  ASSUME NEW I, NEW ids \in Seq(I), NEW p, Made(p, ids, I),
         NEW m \in [id : I, weight : Weight]
  PROVE  InHand(Add(p, m), Append(ids, m.id), I)
<1>1. PICK out \in Seq(Bundle(I)), cur \in Seq(I), weight \in Nat :
        p = [out |-> out, cur |-> cur, weight |-> weight]
  BY DEF Made
<1>2. PICK i \in I, v \in Nat : m.id = i /\ m.weight = v /\ v > 0
  BY DEF Weight
<1>3. PICK c : c = Append(cur, i)
  OBVIOUS
<1>4. c \in Seq(I) /\ Len(c) = Len(cur) + 1 /\ c # <<>>
  BY <1>3, AppendProperties, EmptySeq, LenProperties
<1>5. Add(p, m) = [out |-> out, cur |-> c, weight |-> weight + v]
  <2>1. Append(p.cur, m.id) = c /\ p.weight + m.weight = weight + v
    BY <1>1, <1>2, <1>3
  <2>2. Add(p, m) = [p EXCEPT !.cur = c, !.weight = weight + v]
    BY <2>1 DEF Add
  <2>3. QED
    BY <2>2, <1>1
<1>6. Len(cur) \in Nat /\ Len(out) \in Nat /\ Len(ids) \in Nat /\ Len(Append(ids, i)) = Len(ids) + 1
  BY LenProperties, AppendProperties
<1>7. weight + v >= Len(c) /\ Len(out) + Len(c) <= Len(Append(ids, i))
  <2>1. weight >= Len(cur) /\ Len(out) + Len(cur) <= Len(ids)
    BY <1>1 DEF Made
  <2>2. QED
    BY <2>1, <1>2, <1>4, <1>6
<1>8. FlattenSeq(Members(out)) \o c = Append(ids, i)
  <2>2. Members(out) \in Seq(Seq(I))
    BY MembersType, LenProperties, BundlesHaveMembers
  <2>3. PICK f \in Seq(I) : f = FlattenSeq(Members(out))
    BY <2>2, FlattenSteps
  <2>4. f \o cur = ids
    BY <1>1, <2>3 DEF Made
  <2>5. f \o Append(cur, i) = Append(f \o cur, i)
    BY AppendConcat
  <2>6. QED
    BY <2>3, <2>4, <2>5, <1>3
<1>9. \A j \in DOMAIN out : /\ out[j].id = <<j - 1>>
                            /\ out[j].members # <<>>
                            /\ out[j].weight >= Len(out[j].members)
  BY <1>1 DEF Made
<1>10. PICK r : r = [out |-> out, cur |-> c, weight |-> weight + v]
  OBVIOUS
<1>11. r.out = out /\ r.cur = c /\ r.weight = weight + v /\ weight + v \in Nat
  BY <1>2, <1>10
<1>12. r \in [out : Seq(Bundle(I)), cur : Seq(I), weight : Nat]
  BY <1>4, <1>10, <1>11
<1>13. InHand(r, Append(ids, i), I)
  BY <1>4, <1>7, <1>8, <1>9, <1>11, <1>12 DEF InHand, Made
<1>14. QED
  BY <1>2, <1>5, <1>10, <1>13

-----------------------------------------------------------------------------
(* Packing keeps every member, in order and once.                           *)

LEMMA IdsAppend ==
  ASSUME NEW I, NEW q \in Seq([id : I, weight : Weight]), NEW m \in [id : I, weight : Weight]
  PROVE  /\ Ids(q) \in Seq(I) /\ Len(Ids(q)) = Len(q)
         /\ Ids(Append(q, m)) = Append(Ids(q), m.id)
<1>1. PICK n \in Nat : n = Len(q) /\ DOMAIN q = 1 .. n
  BY LenProperties
<1>2. \A i \in 1 .. n : q[i] \in [id : I, weight : Weight]
  BY <1>1, ElementOfSeq
<1>3. \A i \in 1 .. n : q[i].id \in I
  BY <1>2
<1>4. Ids(q) \in [1 .. n -> I]
  BY <1>1, <1>3 DEF Ids
<1>5. Ids(q) \in Seq(I) /\ Len(Ids(q)) = n /\ DOMAIN Ids(q) = 1 .. n
  BY <1>4, FunctionSeq
<1>6. PICK ids \in Seq(I) : ids = Ids(q)
  BY <1>5
<1>7. PICK i \in I : i = m.id
  OBVIOUS
<1>8. PICK y : y = Append(ids, i)
  OBVIOUS
<1>9. /\ y \in Seq(I) /\ Len(y) = n + 1
      /\ \A j \in 1 .. n : y[j] = ids[j]
      /\ y[n + 1] = i
  BY <1>5, <1>6, <1>8, AppendProperties
<1>10. y \in [1 .. n + 1 -> I]
  BY <1>9, LenProperties
<1>11. /\ DOMAIN Append(q, m) = 1 .. n + 1
       /\ \A j \in 1 .. n : Append(q, m)[j] = q[j]
       /\ Append(q, m)[n + 1] = m
  BY <1>1, AppendProperties, LenProperties
<1>12. \A j \in 1 .. n + 1 : Append(q, m)[j].id = y[j]
  <2> SUFFICES ASSUME NEW j \in 1 .. n + 1 PROVE Append(q, m)[j].id = y[j]
    OBVIOUS
  <2>1. CASE j \in 1 .. n
    BY <2>1, <1>1, <1>6, <1>9, <1>11 DEF Ids
  <2>2. CASE j = n + 1
    BY <2>2, <1>7, <1>9, <1>11
  <2>3. j \in 1 .. n \/ j = n + 1
    OBVIOUS
  <2>4. QED
    BY <2>1, <2>2, <2>3
<1>13. Ids(Append(q, m)) = [j \in 1 .. n + 1 |-> y[j]]
  BY <1>11, <1>12 DEF Ids
<1>14. y = [j \in 1 .. n + 1 |-> y[j]]
  BY <1>10
<1>15. QED
  BY <1>1, <1>5, <1>6, <1>7, <1>8, <1>13, <1>14

LEMMA NothingInHand ==
  ASSUME NEW I
  PROVE  InHand(NothingPacked, <<>>, I)
<1>1. <<>> \in Seq(Bundle(I)) /\ <<>> \in Seq(I) /\ Len(<<>>) = 0 /\ DOMAIN <<>> = {}
  BY EmptySeq
<1>2. Members(<<>>) = <<>>
  BY DEF Members
<1>3. FlattenSeq(<<>>) \o <<>> = <<>>
  BY FlattenSteps, <1>1, ConcatEmptySeq
<1>4. QED
  BY <1>1, <1>2, <1>3 DEF InHand, Made, NothingPacked

LEMMA PackStepKeeps ==
  ASSUME NEW I, NEW ids \in Seq(I), NEW p, InHand(p, ids, I), NEW target,
         NEW m \in [id : I, weight : Weight]
  PROVE  InHand(PackStep(p, m, target), Append(ids, m.id), I)
<1>1. PICK r : r = Flush(p)
  OBVIOUS
<1>2. InHand(Add(r, m), Append(ids, m.id), I)
  <2>1. /\ r \in [out : Seq(Bundle(I)), cur : Seq(I), weight : Nat]
        /\ r.cur = <<>> /\ r.weight = 0
        /\ \A i \in DOMAIN r.out :
               /\ r.out[i].id = <<i - 1>>
               /\ r.out[i].members # <<>>
               /\ r.out[i].weight >= Len(r.out[i].members)
        /\ Len(r.out) <= Len(ids)
        /\ FlattenSeq(Members(r.out)) = ids
    BY <1>1, FlushKeeps
  <2>2. r.weight >= Len(r.cur) /\ Len(r.out) + Len(r.cur) <= Len(ids)
    BY <2>1, EmptySeq, LenProperties
  <2>3. FlattenSeq(Members(r.out)) \o r.cur = ids
    BY <2>1, ConcatEmptySeq
  <2>4. Made(r, ids, I)
    BY <2>1, <2>2, <2>3 DEF Made
  <2>5. QED
    BY <2>4, AddKeeps
<1>3. InHand(Add(p, m), Append(ids, m.id), I)
  <2>1. Made(p, ids, I)
    BY DEF InHand
  <2>2. QED
    BY <2>1, AddKeeps
<1>4. PackStep(p, m, target) \in {Add(r, m), Add(p, m)}
  BY <1>1 DEF PackStep
<1>5. QED
  BY <1>2, <1>3, <1>4

LEMMA PackedInHand ==
  ASSUME NEW I, NEW q \in Seq([id : I, weight : Weight]), NEW target
  PROVE  InHand(Packed(q, target), Ids(q), I)
<1> DEFINE C == [id : I, weight : Weight]
           P == {r \in Seq(C) : InHand(Packed(r, target), Ids(r), I)}
<1>1. <<>> \in P
  <2>1. Ids(<<>>) = <<>>
    BY DEF Ids
  <2>2. QED
    BY <2>1, NothingInHand, PackedSteps, EmptySeq
<1>2. ASSUME NEW r \in Seq(C), NEW m \in C, r \in P PROVE Append(r, m) \in P
  <2>1. Append(r, m) \in Seq(C)
    BY AppendProperties
  <2>2. Packed(Append(r, m), target) = PackStep(Packed(r, target), m, target)
    BY PackedSteps
  <2>3. Ids(r) \in Seq(I) /\ Ids(Append(r, m)) = Append(Ids(r), m.id)
    BY IdsAppend
  <2>4. PICK ids \in Seq(I) : ids = Ids(r)
    BY <2>3
  <2>5. PICK p : p = Packed(r, target)
    OBVIOUS
  <2>6. InHand(p, ids, I)
    BY <1>2, <2>4, <2>5
  <2>7. InHand(PackStep(p, m, target), Append(ids, m.id), I)
    BY <2>6, PackStepKeeps
  <2>8. QED
    BY <2>1, <2>2, <2>3, <2>4, <2>5, <2>7
<1>3. Seq(C) \subseteq P
  <2> HIDE DEF P, C
  <2>1. QED
    BY <1>1, <1>2, SequenceInduct
<1>4. QED
  BY <1>3

(* What pack makes: chunks numbered from 0 that hold every member, in order *)
(* and once, no chunk empty, and no more chunks than members.               *)
LEMMA PackKeeps ==
  ASSUME NEW I, NEW q \in Seq([id : I, weight : Weight]), NEW target
  PROVE  /\ Pack(q, target) \in Seq(Bundle(I))
         /\ \A i \in DOMAIN Pack(q, target) :
               /\ Pack(q, target)[i].id = <<i - 1>>
               /\ Pack(q, target)[i].members # <<>>
               /\ Pack(q, target)[i].weight >= Len(Pack(q, target)[i].members)
         /\ Len(Pack(q, target)) <= Len(q)
         /\ FlattenSeq(Members(Pack(q, target))) = Ids(q)
<1>1. PICK p : p = Packed(q, target)
  OBVIOUS
<1>2. PICK ids \in Seq(I) : ids = Ids(q) /\ Len(ids) = Len(q)
  <2>1. PICK n \in Nat : n = Len(q) /\ DOMAIN q = 1 .. n
    BY LenProperties
  <2>2. \A i \in 1 .. n : q[i] \in [id : I, weight : Weight]
    BY <2>1, ElementOfSeq
  <2>3. Ids(q) \in [1 .. n -> I]
    BY <2>1, <2>2 DEF Ids
  <2>4. QED
    BY <2>1, <2>3, FunctionSeq
<1>3. InHand(p, ids, I)
  BY <1>1, <1>2, PackedInHand
<1>4. PICK r : r = Flush(p)
  OBVIOUS
<1>5. Pack(q, target) = r.out
  BY <1>1, <1>4, PackIsPacked
<1>6. /\ r.out \in Seq(Bundle(I))
      /\ \A i \in DOMAIN r.out :
               /\ r.out[i].id = <<i - 1>>
               /\ r.out[i].members # <<>>
               /\ r.out[i].weight >= Len(r.out[i].members)
      /\ Len(r.out) <= Len(ids)
      /\ FlattenSeq(Members(r.out)) = ids
  BY <1>3, <1>4, FlushKeeps
<1>7. QED
  BY <1>2, <1>5, <1>6

-----------------------------------------------------------------------------
(* What is packed weighs what its members do.                               *)

(* The rows of the members ids, of which W says how many each has.          *)
MemberLoad(W, m) == [k \in 1 .. W[m] |-> <<m, k>>]
Load(W, ids) == FlattenSeq([j \in DOMAIN ids |-> MemberLoad(W, ids[j])])

LEMMA LoadAppend ==
  ASSUME NEW I, NEW W \in [I -> Nat \ {0}], NEW ids \in Seq(I)
  PROVE  /\ Len(Load(W, <<>>)) = 0
         /\ Len(Load(W, ids)) \in Nat
         /\ \A i \in I : Len(Load(W, Append(ids, i))) = Len(Load(W, ids)) + W[i]
<1> DEFINE R == I \X Nat
<1>1. Load(W, <<>>) = <<>>
  <2>1. [j \in DOMAIN <<>> |-> MemberLoad(W, (<<>>)[j])] = <<>>
    OBVIOUS
  <2>2. QED
    BY <2>1, FlattenSteps DEF Load
<1>2. PICK n \in Nat : n = Len(ids) /\ DOMAIN ids = 1 .. n
  BY LenProperties
<1>3. \A i \in I : MemberLoad(W, i) \in Seq(R) /\ Len(MemberLoad(W, i)) = W[i]
  <2> SUFFICES ASSUME NEW i \in I
               PROVE  MemberLoad(W, i) \in Seq(R) /\ Len(MemberLoad(W, i)) = W[i]
    OBVIOUS
  <2>1. W[i] \in Nat
    OBVIOUS
  <2>2. MemberLoad(W, i) \in [1 .. W[i] -> R]
    BY <2>1 DEF MemberLoad
  <2>3. QED
    BY <2>1, <2>2, FunctionSeq
<1>4. PICK ls \in Seq(Seq(R)) : /\ ls = [j \in DOMAIN ids |-> MemberLoad(W, ids[j])]
                                /\ Len(ls) = n /\ DOMAIN ls = 1 .. n
  <2>1. \A j \in 1 .. n : ids[j] \in I
    BY <1>2, ElementOfSeq
  <2>2. PICK f : f = [j \in DOMAIN ids |-> MemberLoad(W, ids[j])]
    OBVIOUS
  <2>3. \A j \in 1 .. n : MemberLoad(W, ids[j]) \in Seq(R)
    BY <1>3, <2>1
  <2>4. f \in [1 .. n -> Seq(R)]
    BY <1>2, <2>2, <2>3
  <2>5. f \in Seq(Seq(R)) /\ Len(f) = n /\ DOMAIN f = 1 .. n
    BY <2>4, FunctionSeq
  <2>6. QED
    BY <2>2, <2>5
<1>5. PICK f \in Seq(R) : f = Load(W, ids)
  BY <1>4, FlattenSteps DEF Load
<1>6. ASSUME NEW i \in I
      PROVE  Len(Load(W, Append(ids, i))) = Len(f) + W[i]
  <2>1. PICK x \in Seq(R) : x = MemberLoad(W, i) /\ Len(x) = W[i]
    BY <1>3
  <2>2. PICK a : a = Append(ids, i)
    OBVIOUS
  <2>3. /\ DOMAIN a = 1 .. n + 1 /\ a[n + 1] = i
        /\ \A j \in 1 .. n : a[j] = ids[j]
    BY <1>2, <2>2, AppendProperties, LenProperties
  <2>4. PICK y : y = Append(ls, x)
    OBVIOUS
  <2>5. /\ y \in Seq(Seq(R)) /\ Len(y) = n + 1 /\ y[n + 1] = x
        /\ \A j \in 1 .. n : y[j] = ls[j]
    BY <1>4, <2>4, AppendProperties
  <2>6. y \in [1 .. n + 1 -> Seq(R)]
    BY <2>5, LenProperties
  <2>7. y = [j \in 1 .. n + 1 |-> y[j]]
    BY <2>6
  <2>8. \A j \in 1 .. n + 1 : MemberLoad(W, a[j]) = y[j]
    <3> SUFFICES ASSUME NEW j \in 1 .. n + 1 PROVE MemberLoad(W, a[j]) = y[j]
      OBVIOUS
    <3>1. CASE j \in 1 .. n
      BY <3>1, <1>2, <1>4, <2>3, <2>5
    <3>2. CASE j = n + 1
      BY <3>2, <2>1, <2>3, <2>5
    <3>3. j \in 1 .. n \/ j = n + 1
      OBVIOUS
    <3>4. QED
      BY <3>1, <3>2, <3>3
  <2>9. [j \in DOMAIN a |-> MemberLoad(W, a[j])] = y
    BY <2>3, <2>7, <2>8
  <2>10. Load(W, a) = FlattenSeq(ls) \o x
    BY <2>4, <2>9, FlattenSteps DEF Load
  <2>11. FlattenSeq(ls) = f
    BY <1>4, <1>5 DEF Load
  <2>12. Len(f \o x) = Len(f) + Len(x)
    BY ConcatProperties
  <2>13. QED
    BY <2>1, <2>2, <2>10, <2>11, <2>12
<1>7. Len(f) \in Nat
  BY LenProperties
<1>8. QED
  BY <1>1, <1>5, <1>6, <1>7, EmptySeq

LEMMA LoadOne ==
  ASSUME NEW I, NEW W \in [I -> Nat \ {0}], NEW i \in I
  PROVE  Len(Load(W, Append(<<>>, i))) = W[i]
<1>1. PICK e \in Seq(I) : e = <<>>
  BY EmptySeq
<1>2. Len(Load(W, Append(e, i))) = Len(Load(W, e)) + W[i]
  BY LoadAppend
<1>3. Len(Load(W, <<>>)) = 0
  BY <1>1, LoadAppend
<1>4. W[i] \in Nat
  OBVIOUS
<1>5. QED
  BY <1>1, <1>2, <1>3, <1>4

(* A chunk weighs what its members do, is heavier than the target only as a *)
(* single member, and was closed only because the next member did not fit.  *)
Fits(out, i, W, target) ==
    /\ out[i].weight = Len(Load(W, out[i].members))
    /\ out[i].weight <= target \/ Len(out[i].members) = 1
    /\ i > 1 => out[i - 1].weight + W[Head(out[i].members)] > target

Weighs(p, W, target) ==
    /\ p.weight = Len(Load(W, p.cur))
    /\ p.weight <= target \/ Len(p.cur) = 1
    /\ \A i \in DOMAIN p.out : Fits(p.out, i, W, target)
    /\ p.cur # <<>> /\ p.out # <<>> =>
          p.out[Len(p.out)].weight + W[Head(p.cur)] > target

(* Where pack closes a chunk.                                              *)
LEMMA FlushWeighs ==
  ASSUME NEW I, NEW W \in [I -> Nat \ {0}], NEW target \in Nat, NEW ids, NEW p,
         InHand(p, ids, I), Weighs(p, W, target)
  PROVE  /\ \A i \in DOMAIN Flush(p).out : Fits(Flush(p).out, i, W, target)
         /\ p.cur # <<>> => /\ Flush(p).out # <<>>
                            /\ Flush(p).out[Len(Flush(p).out)].weight = p.weight
<1>1. PICK out \in Seq(Bundle(I)), cur \in Seq(I), weight \in Nat :
        p.out = out /\ p.cur = cur /\ p.weight = weight
  BY DEF InHand, Made
<1>2. CASE cur = <<>>
  BY <1>1, <1>2 DEF Flush, Weighs
<1>3. CASE cur # <<>>
  <2>1. PICK n \in Nat : n = Len(out) /\ DOMAIN out = 1 .. n
    BY LenProperties
  <2>3. PICK c : c = [id |-> <<n>>, members |-> cur, weight |-> weight]
    OBVIOUS
  <2>4. c \in Bundle(I) /\ c.members = cur /\ c.weight = weight
    <3>1. weight >= Len(cur) /\ Len(cur) \in Nat \ {0}
      BY <1>1, <1>3, EmptySeq, LenProperties DEF InHand, Made
    <3>2. QED
      BY <2>3, <3>1 DEF Bundle, Weight
  <2>5. PICK o : o = Append(out, c)
    OBVIOUS
  <2>6. /\ o \in Seq(Bundle(I)) /\ Len(o) = n + 1 /\ DOMAIN o = 1 .. n + 1
        /\ \A i \in 1 .. n : o[i] = out[i]
        /\ o[n + 1] = c
    BY <2>1, <2>4, <2>5, AppendProperties, LenProperties
  <2>7. Flush(p).out = o
    BY <1>1, <1>3, <2>1, <2>3, <2>5 DEF Flush, NothingPacked
  <2>8. ASSUME NEW i \in 1 .. n + 1
        PROVE  Fits(o, i, W, target)
    <3>1. CASE i \in 1 .. n
      <4>1. Fits(out, i, W, target)
        BY <3>1, <1>1, <2>1 DEF Weighs
      <4>2. o[i] = out[i] /\ (i > 1 => o[i - 1] = out[i - 1])
        BY <3>1, <2>6
      <4>3. QED
        BY <4>1, <4>2 DEF Fits
    <3>2. CASE i = n + 1
      <4>1. o[i] = c /\ i - 1 = n /\ (i > 1 => o[n] = out[n])
        BY <3>2, <2>6
      <4>2. /\ weight = Len(Load(W, cur))
            /\ weight <= target \/ Len(cur) = 1
            /\ cur # <<>> /\ out # <<>> => out[n].weight + W[Head(cur)] > target
        BY <1>1, <2>1 DEF Weighs
      <4>3. i > 1 => out # <<>>
        BY <3>2, <2>1, EmptySeq
      <4>4. QED
        BY <4>1, <4>2, <4>3, <1>3, <2>4 DEF Fits
    <3>3. i \in 1 .. n \/ i = n + 1
      OBVIOUS
    <3>4. QED
      BY <3>1, <3>2, <3>3
  <2>9. o # <<>>
    BY <2>6, EmptySeq
  <2>10. o[Len(o)].weight = weight
    BY <2>4, <2>6
  <2>11. QED
    BY <1>1, <2>6, <2>7, <2>8, <2>9, <2>10
<1>4. QED
  BY <1>2, <1>3

LEMMA PackStepWeighs ==
  ASSUME NEW I, NEW W \in [I -> Nat \ {0}], NEW target \in Nat, NEW ids \in Seq(I), NEW p,
         InHand(p, ids, I), Weighs(p, W, target),
         NEW m \in [id : I, weight : Weight], m.weight = W[m.id]
  PROVE  Weighs(PackStep(p, m, target), W, target)
<1>0. /\ \A j \in DOMAIN Flush(p).out : Fits(Flush(p).out, j, W, target)
      /\ p.cur # <<>> => /\ Flush(p).out # <<>>
                         /\ Flush(p).out[Len(Flush(p).out)].weight = p.weight
  BY FlushWeighs
<1>1. PICK out \in Seq(Bundle(I)), cur \in Seq(I), weight \in Nat :
        /\ p = [out |-> out, cur |-> cur, weight |-> weight]
        /\ p.out = out /\ p.cur = cur /\ p.weight = weight
  BY DEF InHand, Made
<1>2. PICK i \in I, v \in Nat : m.id = i /\ m.weight = v /\ W[i] = v /\ v > 0
  BY DEF Weight
<1>3. W \in [I -> Nat]
  OBVIOUS
<1>4. weight = Len(Load(W, cur))
  BY <1>1 DEF Weighs
<1>5. CASE weight + v > target
  <2>1. PICK r : r = Flush(p)
    OBVIOUS
  <2>2. /\ r \in [out : Seq(Bundle(I)), cur : Seq(I), weight : Nat]
        /\ r.cur = <<>> /\ r.weight = 0
    BY <2>1, FlushKeeps
  <2>3. PICK o \in Seq(Bundle(I)) : r = [out |-> o, cur |-> <<>>, weight |-> 0] /\ r.out = o
    BY <2>2
  <2>4. /\ \A j \in DOMAIN o : Fits(o, j, W, target)
        /\ cur # <<>> => o # <<>> /\ o[Len(o)].weight = weight
    <3>1. Flush(p).out = o /\ p.cur = cur /\ p.weight = weight
      BY <1>1, <2>1, <2>3
    <3>2. QED
      BY <1>0, <3>1
  <2>5. cur = <<>> => o = <<>>
    <3>1. cur = <<>> => out = <<>>
      BY <1>1 DEF InHand, Made
    <3>2. cur = <<>> => r = p
      BY <1>1, <2>1 DEF Flush
    <3>3. QED
      BY <3>1, <3>2, <1>1, <2>3
  <2>6. PICK c : c = Append(<<>>, i)
    OBVIOUS
  <2>7. c \in Seq(I) /\ Len(c) = 1 /\ Head(c) = i /\ c # <<>>
    BY <2>6, EmptySeq, AppendProperties, HeadTailAppend
  <2>8. Len(Load(W, c)) = v
    BY <2>6, <1>2, LoadOne
  <2>9. PackStep(p, m, target) = [out |-> o, cur |-> c, weight |-> v]
    <3>1. PackStep(p, m, target) = Add(r, m)
      BY <1>1, <1>2, <1>5, <2>1 DEF PackStep
    <3>2. Append(r.cur, m.id) = c /\ r.weight + m.weight = v
      BY <2>3, <2>6, <1>2
    <3>3. Add(r, m) = [r EXCEPT !.cur = c, !.weight = v]
      BY <3>2 DEF Add
    <3>4. QED
      BY <3>1, <3>3, <2>3
  <2>10. o # <<>> => o[Len(o)].weight + W[i] > target
    <3>1. o # <<>> => o[Len(o)].weight = weight
      BY <2>4, <2>5
    <3>2. QED
      BY <3>1, <1>2, <1>5
  <2>11. QED
    BY <2>4, <2>7, <2>8, <2>9, <2>10 DEF Weighs
<1>6. CASE ~(weight + v > target)
  <2>1. PICK c : c = Append(cur, i)
    OBVIOUS
  <2>2. /\ c \in Seq(I) /\ c # <<>>
        /\ Head(c) = IF cur = <<>> THEN i ELSE Head(cur)
    BY <2>1, EmptySeq, AppendProperties, HeadTailAppend, LenProperties
  <2>3. Len(Load(W, c)) = weight + v
    BY <1>2, <1>3, <1>4, <2>1, LoadAppend
  <2>4. PackStep(p, m, target) = [out |-> out, cur |-> c, weight |-> weight + v]
    <3>1. PackStep(p, m, target) = Add(p, m)
      BY <1>1, <1>2, <1>6 DEF PackStep
    <3>2. Append(p.cur, m.id) = c /\ p.weight + m.weight = weight + v
      BY <2>1, <1>1, <1>2
    <3>3. Add(p, m) = [p EXCEPT !.cur = c, !.weight = weight + v]
      BY <3>2 DEF Add
    <3>4. QED
      BY <3>1, <3>3, <1>1
  <2>5. weight + v <= target
    BY <1>6
  <2>6. cur = <<>> => out = <<>>
    BY <1>1 DEF InHand, Made
  <2>7. /\ \A j \in DOMAIN out : Fits(out, j, W, target)
        /\ cur # <<>> /\ out # <<>> => out[Len(out)].weight + W[Head(cur)] > target
    BY <1>1 DEF Weighs
  <2>8. out # <<>> => out[Len(out)].weight + W[Head(c)] > target
    BY <2>2, <2>6, <2>7
  <2>9. QED
    BY <2>2, <2>3, <2>4, <2>5, <2>7, <2>8 DEF Weighs
<1>7. QED
  BY <1>5, <1>6

(* A list of chunks that weigh what W says.                                *)
Weighed(q, W) == \A i \in DOMAIN q : q[i].weight = W[q[i].id]

LEMMA PackedWeighs ==
  ASSUME NEW I, NEW W \in [I -> Nat \ {0}], NEW target \in Nat
  PROVE  \A q \in Seq([id : I, weight : Weight]) :
            Weighed(q, W) => Weighs(Packed(q, target), W, target)
<1> DEFINE C == [id : I, weight : Weight]
           P == {q \in Seq(C) : Weighed(q, W) => Weighs(Packed(q, target), W, target)}
<1>1. <<>> \in P
  <2>1. Len(Load(W, <<>>)) = 0
    <3>1. W \in [I -> Nat] /\ <<>> \in Seq(I)
      BY EmptySeq
    <3>2. QED
      BY <3>1, LoadAppend
  <2>2. Weighs(NothingPacked, W, target)
    BY <2>1 DEF Weighs, NothingPacked
  <2>3. QED
    BY <2>2, PackedSteps, EmptySeq
<1>2. ASSUME NEW r \in Seq(C), NEW m \in C, r \in P PROVE Append(r, m) \in P
  <2> SUFFICES ASSUME Weighed(Append(r, m), W)
               PROVE  Weighs(Packed(Append(r, m), target), W, target)
    BY AppendProperties
  <2>1. PICK n \in Nat : n = Len(r) /\ DOMAIN r = 1 .. n
    BY LenProperties
  <2>2. PICK y : y = Append(r, m)
    OBVIOUS
  <2>3. /\ DOMAIN y = 1 .. n + 1 /\ y[n + 1] = m
        /\ \A j \in 1 .. n : y[j] = r[j]
    BY <2>1, <2>2, AppendProperties, LenProperties
  <2>4. Weighed(r, W) /\ m.weight = W[m.id]
    <3>1. \A j \in 1 .. n + 1 : y[j].weight = W[y[j].id]
      BY <2>2, <2>3 DEF Weighed
    <3>2. n + 1 \in 1 .. n + 1 /\ \A j \in 1 .. n : j \in 1 .. n + 1
      BY <2>1
    <3>3. \A j \in 1 .. n : r[j].weight = W[r[j].id]
      BY <2>3, <3>1, <3>2
    <3>4. m.weight = W[m.id]
      BY <2>3, <3>1, <3>2
    <3>5. QED
      BY <2>1, <3>3, <3>4 DEF Weighed
  <2>5. PICK ids \in Seq(I) : ids = Ids(r)
    BY IdsAppend
  <2>6. PICK p : p = Packed(r, target)
    OBVIOUS
  <2>7. InHand(p, ids, I)
    BY <2>5, <2>6, PackedInHand
  <2>8. Weighs(p, W, target)
    BY <2>4, <2>6, <1>2
  <2>9. Weighs(PackStep(p, m, target), W, target)
    <3>1. m.weight = W[m.id] /\ m \in [id : I, weight : Weight]
      BY <2>4
    <3>2. QED
      BY <2>7, <2>8, <3>1, PackStepWeighs
  <2>10. Packed(Append(r, m), target) = PackStep(p, m, target)
    <3> HIDE DEF P, C
    <3>1. Packed(Append(r, m), target) = PackStep(Packed(r, target), m, target)
      BY PackedSteps
    <3>2. QED
      BY <3>1, <2>6
  <2>11. QED
    BY <2>9, <2>10
<1>3. Seq(C) \subseteq P
  <2> HIDE DEF P, C
  <2>1. QED
    BY <1>1, <1>2, SequenceInduct
<1>4. QED
  BY <1>3

LEMMA PackFits ==
  ASSUME NEW I, NEW W \in [I -> Nat \ {0}], NEW target \in Nat,
         NEW q \in Seq([id : I, weight : Weight]), Weighed(q, W)
  PROVE  \A i \in DOMAIN Pack(q, target) : Fits(Pack(q, target), i, W, target)
<1>1. PICK p : p = Packed(q, target)
  OBVIOUS
<1>2. InHand(p, Ids(q), I) /\ Weighs(p, W, target)
  BY <1>1, PackedInHand, PackedWeighs
<1>3. W \in [I -> Nat]
  OBVIOUS
<1>4. \A i \in DOMAIN Flush(p).out : Fits(Flush(p).out, i, W, target)
  BY <1>2, <1>3, FlushWeighs
<1>5. QED
  BY <1>1, <1>4, PackIsPacked

(* It holds of Pack itself, whatever the state.                            *)
LEMMA PackingIsSoundAnywhere == PackSound
<1>1. SUFFICES ASSUME NEW weights \in BoundedSeq(Weights, 2 * MaxMembers),
                      NEW target \in 1 .. MostRows
      PROVE  LET up == [i \in DOMAIN weights |-> [id |-> i, weight |-> weights[i]]]
                 chunks == Pack(up, target)
                 Rows(m) == [k \in 1 .. weights[m] |-> <<m, k>>]
                 WeightOf(ids) == Len(FlattenSeq([j \in DOMAIN ids |-> Rows(ids[j])]))
             IN  /\ FlattenSeq([i \in DOMAIN chunks |-> chunks[i].members]) = Ids(up)
                 /\ \A i \in DOMAIN chunks :
                       /\ chunks[i].weight = WeightOf(chunks[i].members)
                       /\ chunks[i].weight <= target \/ Len(chunks[i].members) = 1
                       /\ i > 1 => chunks[i - 1].weight
                                     + weights[Head(chunks[i].members)] > target
  BY DEF PackSound
<1> DEFINE up == [i \in DOMAIN weights |-> [id |-> i, weight |-> weights[i]]]
           I == DOMAIN weights
<1>2. PICK n \in Nat : n = Len(weights) /\ I = 1 .. n /\ weights \in [1 .. n -> Nat \ {0}]
  <2>1. weights \in Seq(Weights)
    <3>1. PICK n \in 0 .. 2 * MaxMembers : weights \in [1 .. n -> Weights]
      BY DEF BoundedSeq, SeqOf
    <3>2. QED
      BY <3>1, FunctionSeq
  <2>2. Weights \subseteq Nat \ {0}
    BY DataAssumption
  <2>3. QED
    BY <2>1, <2>2, LenProperties
<1>3. up \in Seq([id : I, weight : Weight]) /\ Weighed(up, weights)
  <2>1. up \in [1 .. n -> [id : I, weight : Weight]]
    BY <1>2 DEF Weight
  <2>2. up \in Seq([id : I, weight : Weight])
    BY <2>1, <1>2, FunctionSeq
  <2>3. QED
    BY <2>2, <1>2 DEF Weighed
<1>4. target \in Nat
  OBVIOUS
<1>5. weights \in [I -> Nat \ {0}]
  BY <1>2
<1> HIDE DEF up, I
<1>6. FlattenSeq(Members(Pack(up, target))) = Ids(up)
  BY <1>3, <1>4, PackKeeps
<1>7. \A i \in DOMAIN Pack(up, target) : Fits(Pack(up, target), i, weights, target)
  BY <1>3, <1>4, <1>5, PackFits
<1>8. QED
  BY <1>6, <1>7 DEF Members, Fits, Load, MemberLoad, up

(* Packing is sound, whatever the list of chunks and the target: every     *)
(* member is in one chunk, in order, a chunk weighs what its members do,    *)
(* and is too heavy only as a single member (partition.py:43-74).           *)
THEOREM PackingIsSound == Spec => []PackSound
<1>1. Spec => []PackSound
  BY PackingIsSoundAnywhere, PTL
<1>2. QED
  BY <1>1

-----------------------------------------------------------------------------
(* Some of the chunks.                                                      *)

(* What flattening the members of some of the chunks comes to.              *)
LEMMA MembersOfSome ==
  ASSUME NEW I, NEW C, HaveMembers(C, I), NEW R
  PROVE  \A q \in Seq(C) :
            /\ FlattenSeq(Members(q)) \in Seq(I)
            /\ Len(FlattenSeq(Members(Only(q, R)))) <= Len(FlattenSeq(Members(q)))
            /\ \A t \in ToSet(q) \ R :
                  Len(FlattenSeq(Members(Only(q, R)))) + Len(t.members)
                    <= Len(FlattenSeq(Members(q)))
<1> DEFINE L(q) == Len(FlattenSeq(Members(q)))
           P == {q \in Seq(C) : /\ L(Only(q, R)) <= L(q)
                                /\ \A t \in ToSet(q) \ R : L(Only(q, R)) + Len(t.members) <= L(q)}
<1>1. \A q \in Seq(C) : FlattenSeq(Members(q)) \in Seq(I)
  BY MembersType, LenProperties, FlattenSteps
<1>2. \A q \in Seq(C) : L(q) \in Nat /\ Only(q, R) \in Seq(C)
  <2> SUFFICES ASSUME NEW q \in Seq(C) PROVE L(q) \in Nat /\ Only(q, R) \in Seq(C)
    OBVIOUS
  <2>1. PICK f \in Seq(I) : f = FlattenSeq(Members(q))
    BY <1>1
  <2>2. QED
    BY <2>1, LenProperties, OnlyFacts
<1>3. \A q \in Seq(C), e \in C : L(Append(q, e)) = L(q) + Len(e.members) /\ Len(e.members) \in Nat
  <2> SUFFICES ASSUME NEW q \in Seq(C), NEW e \in C
               PROVE  L(Append(q, e)) = L(q) + Len(e.members) /\ Len(e.members) \in Nat
    OBVIOUS
  <2>1. PICK x \in Seq(I) : x = e.members
    BY DEF HaveMembers
  <2>2. PICK ms \in Seq(Seq(I)) : ms = Members(q)
    BY MembersAppend
  <2>3. Members(Append(q, e)) = Append(ms, x)
    BY <2>1, <2>2, MembersAppend
  <2>4. PICK f \in Seq(I) : f = FlattenSeq(ms)
    BY FlattenSteps
  <2>5. FlattenSeq(Append(ms, x)) = f \o x
    BY <2>4, FlattenSteps
  <2>6. Len(f \o x) = Len(f) + Len(x)
    BY ConcatProperties
  <2>7. QED
    BY <2>1, <2>2, <2>3, <2>4, <2>5, <2>6, LenProperties
<1>4. <<>> \in P
  <2>1. Only(<<>>, R) = <<>> /\ <<>> \in Seq(C)
    BY EmptySeq, OnlyNothing
  <2>2. ToSet(<<>>) = {}
    BY DEF ToSet
  <2>3. L(<<>>) \in Nat
    BY <1>2, <2>1
  <2> HIDE DEF L
  <2>4. QED
    BY <2>1, <2>2, <2>3
<1>5. ASSUME NEW q \in Seq(C), NEW e \in C, q \in P PROVE Append(q, e) \in P
  <2>1. PICK a : a = Append(q, e)
    OBVIOUS
  <2>2. a \in Seq(C) /\ ToSet(a) = ToSet(q) \cup {e}
    BY <2>1, AppendSet
  <2>3. PICK o \in Seq(C) : o = Only(q, R)
    BY <1>2
  <2>4. Only(a, R) = IF e \in R THEN Append(o, e) ELSE o
    BY <2>1, <2>3, OnlySteps
  <2>5. /\ L(o) <= L(q) /\ L(o) \in Nat /\ L(q) \in Nat
        /\ \A t \in ToSet(q) \ R : L(o) + Len(t.members) <= L(q)
    BY <1>2, <1>5, <2>3
  <2>6. /\ L(a) = L(q) + Len(e.members) /\ Len(e.members) \in Nat
        /\ L(Append(o, e)) = L(o) + Len(e.members)
    BY <1>3, <2>1
  <2>7. \A t \in ToSet(q) : Len(t.members) \in Nat
    <3>1. ToSet(q) \subseteq C
      BY ElementOfSeq, LenProperties DEF ToSet
    <3>2. QED
      BY <3>1, <1>3
  <2> HIDE DEF L
  <2>8. CASE e \in R
    <3>1. \A t \in ToSet(a) \ R : t \in ToSet(q) \ R
      BY <2>2, <2>8
    <3>2. L(Only(a, R)) = L(o) + Len(e.members)
      BY <2>4, <2>6, <2>8
    <3>3. \A t \in ToSet(a) \ R : L(Only(a, R)) + Len(t.members) <= L(a)
      BY <3>1, <3>2, <2>5, <2>6, <2>7
    <3>4. QED
      BY <2>1, <2>2, <2>5, <2>6, <3>2, <3>3
  <2>9. CASE e \notin R
    <3>1. L(Only(a, R)) = L(o)
      BY <2>4, <2>9
    <3>2. ASSUME NEW t \in ToSet(a) \ R PROVE L(Only(a, R)) + Len(t.members) <= L(a)
      <4>1. CASE t \in ToSet(q)
        BY <4>1, <3>1, <2>5, <2>6, <2>7
      <4>2. CASE t = e
        BY <4>2, <3>1, <2>5, <2>6
      <4>3. QED
        BY <4>1, <4>2, <2>2
    <3>3. QED
      BY <2>1, <2>2, <2>5, <2>6, <3>1, <3>2
  <2>10. QED
    BY <2>8, <2>9
<1>6. Seq(C) \subseteq P
  <2> HIDE DEF P
  <2>1. QED
    BY <1>4, <1>5, SequenceInduct
<1>7. QED
  BY <1>1, <1>6

(* There are no more chunks than members, where none is empty.              *)
LEMMA NoMoreThanMembers ==
  ASSUME NEW I, NEW C, HaveMembers(C, I), \A c \in C : c.members # <<>>
  PROVE  \A q \in Seq(C) : Len(q) <= Len(FlattenSeq(Members(q)))
<1> DEFINE L(q) == Len(FlattenSeq(Members(q)))
           P == {q \in Seq(C) : Len(q) <= L(q)}
<1>1. \A q \in Seq(C) : L(q) \in Nat
  <2> SUFFICES ASSUME NEW q \in Seq(C) PROVE L(q) \in Nat
    OBVIOUS
  <2>1. PICK f \in Seq(I) : f = FlattenSeq(Members(q))
    BY MembersOfSome
  <2>2. QED
    BY <2>1, LenProperties
<1>2. <<>> \in P
  <2>1. <<>> \in Seq(C) /\ Len(<<>>) = 0
    BY EmptySeq
  <2>2. L(<<>>) \in Nat
    BY <1>1, <2>1
  <2> HIDE DEF L
  <2>3. QED
    BY <2>1, <2>2
<1>3. ASSUME NEW q \in Seq(C), NEW e \in C, q \in P PROVE Append(q, e) \in P
  <2>1. PICK x \in Seq(I) : x = e.members /\ x # <<>>
    BY DEF HaveMembers
  <2>2. PICK ms \in Seq(Seq(I)) : ms = Members(q)
    BY MembersAppend
  <2>3. Members(Append(q, e)) = Append(ms, x)
    BY <2>1, <2>2, MembersAppend
  <2>4. PICK f \in Seq(I) : f = FlattenSeq(ms)
    BY FlattenSteps
  <2>5. FlattenSeq(Append(ms, x)) = f \o x
    BY <2>4, FlattenSteps
  <2>6. Len(f \o x) = Len(f) + Len(x) /\ Len(f) \in Nat /\ Len(x) \in Nat /\ Len(x) > 0
    BY <2>1, ConcatProperties, LenProperties, EmptySeq
  <2>7. Append(q, e) \in Seq(C) /\ Len(Append(q, e)) = Len(q) + 1 /\ Len(q) \in Nat
    BY AppendProperties, LenProperties
  <2>8. Len(q) <= Len(f)
    BY <1>3, <2>2, <2>4
  <2>9. L(Append(q, e)) = Len(f) + Len(x)
    BY <2>3, <2>5, <2>6
  <2> HIDE DEF L
  <2>10. QED
    BY <2>6, <2>7, <2>8, <2>9
<1>4. Seq(C) \subseteq P
  <2> HIDE DEF P
  <2>1. QED
    BY <1>2, <1>3, SequenceInduct
<1>5. QED
  BY <1>4

-----------------------------------------------------------------------------
(* What is planned.                                                         *)

(* A chunk as planning has it. *)
PlanChunk == [id : Id, members : Seq(Id), weight : Weight]

(* It, or its task, has members, and weighs one for each at least; only a   *)
(* numbered one has more than one. *)
Filled(c) ==
    /\ c.members # <<>>
    /\ c.weight >= Len(c.members)
    /\ Len(c.members) > 1 => Len(c.id) = 1

(* A chunk with its weight alone, and one of its own member.               *)
Plain(I) == [id : I, weight : Weight]
Own(I) == [id : I, members : Seq(I), weight : Weight]
AsOwn(c) == [id |-> c.id, members |-> <<c.id>>, weight |-> c.weight]

LEMMA AsOwnType ==
  ASSUME NEW I, NEW c \in Plain(I)
  PROVE  AsOwn(c) \in Own(I) /\ AsOwn(c).members = <<c.id>> /\ c.id \in I
<1>1. PICK i \in I, v \in Weight : c.id = i /\ c.weight = v
  BY DEF Plain
<1>2. <<i>> \in Seq(I)
  OBVIOUS
<1>3. QED
  BY <1>1, <1>2 DEF AsOwn, Own

LEMMA OneToOneSteps ==
  ASSUME NEW I, NEW q \in Seq(Plain(I)), NEW n \in Nat, n = Len(q)
  PROVE  /\ OneToOne(q) \in Seq(Own(I))
         /\ Len(OneToOne(q)) = n /\ DOMAIN OneToOne(q) = 1 .. n
         /\ \A i \in 1 .. n : OneToOne(q)[i] = AsOwn(q[i])
<1>1. DOMAIN q = 1 .. n
  BY LenProperties
<1>2. \A i \in 1 .. n : q[i] \in Plain(I)
  BY <1>1, ElementOfSeq
<1>3. \A i \in 1 .. n : AsOwn(q[i]) \in Own(I)
  BY <1>2, AsOwnType
<1>4. OneToOne(q) = [i \in 1 .. n |-> AsOwn(q[i])]
  BY <1>1 DEF OneToOne, AsOwn
<1>5. OneToOne(q) \in [1 .. n -> Own(I)]
  BY <1>3, <1>4
<1>6. \A i \in 1 .. n : OneToOne(q)[i] = AsOwn(q[i])
  BY <1>4
<1>7. QED
  BY <1>5, <1>6, FunctionSeq

LEMMA OneToOneKeeps ==
  ASSUME NEW I, NEW q \in Seq(Plain(I))
  PROVE  FlattenSeq(Members(OneToOne(q))) = Ids(q)
<1>1. PICK n \in Nat : n = Len(q) /\ DOMAIN q = 1 .. n
  BY LenProperties
<1>2. \A i \in 1 .. n : q[i] \in Plain(I)
  BY <1>1, ElementOfSeq
<1>3. Ids(q) \in [1 .. n -> I]
  BY <1>1, <1>2 DEF Plain, Ids
<1>4. Ids(q) \in Seq(I)
  BY <1>3, FunctionSeq
<1>5. \A i \in 1 .. n : <<Ids(q)[i]>> = OneToOne(q)[i].members
  BY <1>1 DEF Ids, OneToOne
<1>6. DOMAIN Ids(q) = 1 .. n /\ DOMAIN OneToOne(q) = 1 .. n
  BY <1>1 DEF Ids, OneToOne
<1>7. Members(OneToOne(q)) = [i \in DOMAIN Ids(q) |-> <<Ids(q)[i]>>]
  BY <1>5, <1>6 DEF Members
<1>8. QED
  BY <1>4, <1>7, FlattenSingles

(* What a stage is planned as, by what it packs or takes one by one.         *)
LEMMA PlannedShape ==
  ASSUME NEW up \in Seq(Chunk), Len(up) <= MaxMembers, NEW target \in Nat, NEW chunks,
         chunks = IF target > 0 THEN Pack(up, target) ELSE OneToOne(up)
  PROVE  /\ chunks \in Seq(PlanChunk)
         /\ \A i \in DOMAIN chunks : Filled(chunks[i])
         /\ FlattenSeq(Members(chunks)) = Ids(up)
<1>1. PICK n \in Nat : n = Len(up) /\ n <= MaxMembers
  BY LenProperties
<1>2. Chunk = [id : Id, weight : Weight] /\ MaxMembers \in Nat
  BY DataAssumption DEF Chunk
<1>3. up \in Seq([id : Id, weight : Weight])
  BY <1>2
<1>4. CASE target > 0
  <2>1. chunks = Pack(up, target)
    BY <1>4
  <2>2. /\ chunks \in Seq(Bundle(Id))
        /\ \A i \in DOMAIN chunks :
              /\ chunks[i].id = <<i - 1>>
              /\ chunks[i].members # <<>>
              /\ chunks[i].weight >= Len(chunks[i].members)
        /\ Len(chunks) <= Len(up)
        /\ FlattenSeq(Members(chunks)) = Ids(up)
    <3>1. /\ Pack(up, target) \in Seq(Bundle(Id))
          /\ \A i \in DOMAIN Pack(up, target) :
                /\ Pack(up, target)[i].id = <<i - 1>>
                /\ Pack(up, target)[i].members # <<>>
                /\ Pack(up, target)[i].weight >= Len(Pack(up, target)[i].members)
          /\ Len(Pack(up, target)) <= Len(up)
          /\ FlattenSeq(Members(Pack(up, target))) = Ids(up)
      BY <1>3, PackKeeps, Zenon
    <3>2. QED
      BY <2>1, <3>1
  <2>3. PICK m \in Nat : m = Len(chunks) /\ DOMAIN chunks = 1 .. m /\ m <= MaxMembers
    BY <1>1, <1>2, <2>2, LenProperties
  <2>4. ASSUME NEW i \in 1 .. m PROVE chunks[i] \in PlanChunk /\ Filled(chunks[i])
    <3>1. chunks[i] \in Bundle(Id)
      BY <2>2, <2>3, ElementOfSeq
    <3>2. chunks[i].id = <<i - 1>> /\ i - 1 \in Place
      BY <1>2, <2>2, <2>3 DEF Place
    <3>3. chunks[i].id \in Id /\ Len(chunks[i].id) = 1
      BY <3>2 DEF Id
    <3>4. chunks[i] \in PlanChunk
      BY <3>1, <3>3 DEF Bundle, PlanChunk
    <3>5. QED
      BY <3>3, <3>4, <2>2, <2>3 DEF Filled
  <2>5. chunks \in [1 .. m -> PlanChunk]
    BY <2>2, <2>3, <2>4, LenProperties
  <2>6. chunks \in Seq(PlanChunk)
    BY <2>5, FunctionSeq
  <2>7. QED
    BY <2>2, <2>3, <2>4, <2>6
<1>5. CASE ~(target > 0)
  <2>1. chunks = OneToOne(up)
    BY <1>5
  <2>2. up \in Seq(Plain(Id)) /\ Own(Id) = PlanChunk
    BY <1>3 DEF Plain, Own, PlanChunk
  <2>3. /\ chunks \in Seq(PlanChunk) /\ DOMAIN chunks = 1 .. n
        /\ \A i \in 1 .. n : chunks[i] = AsOwn(up[i])
    BY <1>1, <2>1, <2>2, OneToOneSteps
  <2>4. ASSUME NEW i \in 1 .. n PROVE Filled(chunks[i])
    <3>1. chunks[i] \in PlanChunk
      BY <2>3, ElementOfSeq, LenProperties
    <3>2. PICK u \in Plain(Id) : u = up[i]
      BY <1>1, <2>2, ElementOfSeq
    <3>3. PICK j \in Id : AsOwn(u).members = <<j>>
      BY AsOwnType
    <3>4. PICK c \in PlanChunk : c = chunks[i] /\ c.members = <<j>>
      BY <2>3, <3>1, <3>2, <3>3
    <3>5. c.weight \in Nat \ {0}
      BY DEF PlanChunk, Weight
    <3>6. Len(c.members) = 1 /\ c.members # <<>>
      <4>1. Len(<<j>>) = 1 /\ <<j>> # <<>>
        OBVIOUS
      <4>2. QED
        BY <3>4, <4>1, Zenon
    <3>7. Filled(c)
      BY <3>5, <3>6 DEF Filled
    <3>8. QED
      BY <3>4, <3>7
  <2>5. FlattenSeq(Members(chunks)) = Ids(up)
    BY <2>1, <2>2, OneToOneKeeps
  <2>6. QED
    BY <2>3, <2>4, <2>5
<1>6. QED
  BY <1>4, <1>5

(* The tasks of planned chunks.                                             *)
LEMMA TasksOfShape ==
  ASSUME NEW s \in Stage, NEW chunks \in Seq(PlanChunk)
  PROVE  /\ TasksOf(s, chunks) \in Seq(Task)
         /\ Members(TasksOf(s, chunks)) = Members(chunks)
         /\ Entries(TasksOf(s, chunks)) = Entries(chunks)
         /\ DOMAIN TasksOf(s, chunks) = DOMAIN chunks
         /\ \A i \in DOMAIN chunks :
               TasksOf(s, chunks)[i] =
                  [id |-> chunks[i].id, weight |-> chunks[i].weight,
                   members |-> chunks[i].members, stage |-> s]
<1>1. PICK n \in Nat : n = Len(chunks) /\ DOMAIN chunks = 1 .. n
  BY LenProperties
<1>2. PICK q : q = TasksOf(s, chunks)
  OBVIOUS
<1>3. /\ DOMAIN q = 1 .. n
      /\ \A i \in 1 .. n : q[i] = [id |-> chunks[i].id, weight |-> chunks[i].weight,
                                   members |-> chunks[i].members, stage |-> s]
      /\ q = [i \in 1 .. n |-> q[i]]
  BY <1>1, <1>2 DEF TasksOf
<1>4. \A i \in 1 .. n : q[i] \in Task
  <2>1. \A i \in 1 .. n : chunks[i] \in PlanChunk
    BY <1>1, ElementOfSeq
  <2>2. QED
    BY <1>3, <2>1 DEF PlanChunk, Task
<1>5. q \in Seq(Task)
  <2>1. q \in [1 .. n -> Task]
    BY <1>3, <1>4
  <2>2. QED
    BY <2>1, FunctionSeq
<1>6. Members(q) = Members(chunks)
  BY <1>1, <1>3 DEF Members
<1>7. Entries(q) = Entries(chunks)
  BY <1>1, <1>3 DEF Entries
<1>8. QED
  BY <1>1, <1>2, <1>3, <1>5, <1>6, <1>7

-----------------------------------------------------------------------------
(* Manifests, and the tasks that a task is split into.                      *)

LEMMA MembersConcat ==
  ASSUME NEW I, NEW C, HaveMembers(C, I), NEW p \in Seq(C), NEW q \in Seq(C)
  PROVE  /\ Members(p) \in Seq(Seq(I)) /\ Members(q) \in Seq(Seq(I))
         /\ Members(p \o q) = Members(p) \o Members(q)
         /\ FlattenSeq(Members(p \o q)) = FlattenSeq(Members(p)) \o FlattenSeq(Members(q))
<1>1. PICK m \in Nat, n \in Nat : /\ m = Len(p) /\ DOMAIN p = 1 .. m
                                  /\ n = Len(q) /\ DOMAIN q = 1 .. n
  BY LenProperties
<1>2. PICK c : c = p \o q
  OBVIOUS
<1>3. /\ c \in Seq(C) /\ Len(c) = m + n
      /\ \A i \in 1 .. m : c[i] = p[i]
      /\ \A i \in 1 .. n : c[m + i] = q[i]
  BY <1>1, <1>2, ConcatAt
<1>4. PICK k \in Nat : k = m + n
  OBVIOUS
<1>5. PICK a \in Seq(Seq(I)) : a = Members(p) /\ Len(a) = m
  BY <1>1, MembersType
<1>6. PICK b \in Seq(Seq(I)) : b = Members(q) /\ Len(b) = n
  BY <1>1, MembersType
<1>7. PICK d : d = a \o b
  OBVIOUS
<1>8. /\ d \in Seq(Seq(I)) /\ Len(d) = m + n
      /\ \A i \in 1 .. m : d[i] = a[i]
      /\ \A i \in 1 .. n : d[m + i] = b[i]
  <2>1. m = Len(a) /\ n = Len(b)
    BY <1>5, <1>6
  <2>2. /\ a \o b \in Seq(Seq(I)) /\ Len(a \o b) = m + n
        /\ \A i \in 1 .. m : (a \o b)[i] = a[i]
        /\ \A i \in 1 .. n : (a \o b)[m + i] = b[i]
    BY <2>1, ConcatAt
  <2>3. QED
    BY <2>2, <1>7
<1>9. PICK e \in Seq(Seq(I)) : e = Members(c) /\ Len(e) = k
  BY <1>3, <1>4, MembersType
<1>10. ASSUME NEW i \in 1 .. k PROVE e[i] = d[i]
  <2>1. e[i] = c[i].members
    BY <1>3, <1>4, <1>9, LenProperties DEF Members
  <2>2. CASE i \in 1 .. m
    BY <2>1, <2>2, <1>1, <1>3, <1>5, <1>8 DEF Members
  <2>3. CASE i \notin 1 .. m
    <3>1. PICK j \in 1 .. n : i = m + j
      <4>1. i - m \in 1 .. n /\ i = m + (i - m)
        BY <2>3, <1>4
      <4>2. QED
        BY <4>1
    <3>2. QED
      BY <2>1, <3>1, <1>1, <1>3, <1>6, <1>8 DEF Members
  <2>4. QED
    BY <2>2, <2>3
<1>11. Members(c) = d
  <2>1. Agree(e, d, k)
    BY <1>10 DEF Agree
  <2>2. e = d
    BY <2>1, <1>4, <1>8, <1>9, SameSequence
  <2>3. QED
    BY <2>2, <1>9
<1>12. FlattenSeq(d) = FlattenSeq(a) \o FlattenSeq(b)
  BY <1>7, FlattenConcat
<1>13. QED
  BY <1>2, <1>5, <1>6, <1>7, <1>11, <1>12

(* The entry of a chunk in a manifest.                                      *)
Entry(c) == [id |-> c.id, weight |-> c.weight]

LEMMA EntriesFacts ==
  ASSUME NEW C, NEW q \in Seq(C), NEW n \in Nat, n = Len(q)
  PROVE  /\ DOMAIN Entries(q) = 1 .. n
         /\ \A i \in 1 .. n : Entries(q)[i] = Entry(q[i])
         /\ Entries(q) = [i \in 1 .. n |-> Entry(q[i])]
<1>1. DOMAIN q = 1 .. n
  BY LenProperties
<1>2. QED
  BY <1>1 DEF Entries, Entry

(* What has an id and a weight.                                             *)
HaveEntries(C) == \A c \in C : c.id \in Id /\ c.weight \in Weight

LEMMA EntriesType ==
  ASSUME NEW C, HaveEntries(C), NEW q \in Seq(C), NEW n \in Nat, n = Len(q)
  PROVE  Entries(q) \in Seq(Chunk) /\ Len(Entries(q)) = n
<1>1. DOMAIN q = 1 .. n
  BY LenProperties
<1>2. \A i \in 1 .. n : q[i] \in C
  BY <1>1, ElementOfSeq
<1>3. \A i \in 1 .. n : Entry(q[i]) \in Chunk
  BY <1>2 DEF HaveEntries, Entry, Chunk
<1>4. Entries(q) \in [1 .. n -> Chunk]
  BY <1>3, EntriesFacts
<1>5. QED
  BY <1>4, FunctionSeq

LEMMA EntriesConcat ==
  ASSUME NEW C, HaveEntries(C), NEW p \in Seq(C), NEW q \in Seq(C)
  PROVE  Entries(p \o q) = Entries(p) \o Entries(q)
<1>1. PICK m \in Nat, n \in Nat : m = Len(p) /\ n = Len(q)
  BY LenProperties
<1>2. PICK c : c = p \o q
  OBVIOUS
<1>3. /\ c \in Seq(C) /\ Len(c) = m + n
      /\ \A i \in 1 .. m : c[i] = p[i]
      /\ \A i \in 1 .. n : c[m + i] = q[i]
  <2>1. /\ p \o q \in Seq(C) /\ Len(p \o q) = m + n
        /\ \A i \in 1 .. m : (p \o q)[i] = p[i]
        /\ \A i \in 1 .. n : (p \o q)[m + i] = q[i]
    BY <1>1, ConcatAt
  <2>2. QED
    BY <1>2, <2>1
<1>4. PICK k \in Nat : k = m + n
  OBVIOUS
<1>5. PICK a \in Seq(Chunk) : /\ a = Entries(p) /\ Len(a) = m
                              /\ \A i \in 1 .. m : a[i] = Entry(p[i])
  BY <1>1, EntriesType, EntriesFacts
<1>6. PICK b \in Seq(Chunk) : /\ b = Entries(q) /\ Len(b) = n
                              /\ \A i \in 1 .. n : b[i] = Entry(q[i])
  BY <1>1, EntriesType, EntriesFacts
<1>7. PICK d : d = a \o b
  OBVIOUS
<1>8. /\ d \in Seq(Chunk) /\ Len(d) = m + n
      /\ \A i \in 1 .. m : d[i] = a[i]
      /\ \A i \in 1 .. n : d[m + i] = b[i]
  <2>1. m = Len(a) /\ n = Len(b)
    BY <1>5, <1>6
  <2>2. /\ a \o b \in Seq(Chunk) /\ Len(a \o b) = m + n
        /\ \A i \in 1 .. m : (a \o b)[i] = a[i]
        /\ \A i \in 1 .. n : (a \o b)[m + i] = b[i]
    BY <2>1, ConcatAt
  <2>3. QED
    BY <2>2, <1>7
<1>9. PICK e \in Seq(Chunk) : /\ e = Entries(c) /\ Len(e) = k
                              /\ \A i \in 1 .. k : e[i] = Entry(c[i])
  BY <1>3, <1>4, EntriesType, EntriesFacts
<1>10. ASSUME NEW i \in 1 .. k PROVE e[i] = d[i]
  <2>1. CASE i \in 1 .. m
    BY <2>1, <1>3, <1>5, <1>8, <1>9
  <2>2. CASE i \notin 1 .. m
    <3>1. PICK j \in 1 .. n : i = m + j
      <4>1. i - m \in 1 .. n /\ i = m + (i - m)
        BY <2>2, <1>4
      <4>2. QED
        BY <4>1
    <3>2. e[i] = Entry(c[i]) /\ d[i] = b[j] /\ c[i] = q[j] /\ b[j] = Entry(q[j])
      BY <3>1, <1>3, <1>6, <1>8, <1>9
    <3>3. QED
      BY <3>2
  <2>3. QED
    BY <2>1, <2>2
<1>11. e = d
  <2>1. Agree(e, d, k)
    BY <1>10 DEF Agree
  <2>2. QED
    BY <2>1, <1>4, <1>8, <1>9, SameSequence
<1>12. QED
  BY <1>2, <1>5, <1>6, <1>7, <1>9, <1>11

LEMMA EntriesWithout ==
  ASSUME NEW C, HaveEntries(C), NEW q \in Seq(C), NEW id
  PROVE  Entries(Without(q, id)) = Without(Entries(q), id)
<1>1. PICK n \in Nat : n = Len(q) /\ DOMAIN q = 1 .. n
  BY LenProperties
<1>2. PICK e : /\ e = Entries(q) /\ DOMAIN e = 1 .. n
               /\ \A i \in 1 .. n : e[i] = Entry(q[i])
  BY <1>1, EntriesFacts
<1>3. \A i \in 1 .. n : e[i].id = q[i].id
  BY <1>2 DEF Entry
<1>4. PICK P : P = {i \in 1 .. n : q[i].id # id}
  OBVIOUS
<1>5. {i \in DOMAIN q : q[i] \in {c \in ToSet(q) : c.id # id}} = P
  BY <1>1, <1>4 DEF ToSet
<1>6. {i \in DOMAIN e : e[i] \in {c \in ToSet(e) : c.id # id}} = P
  BY <1>2, <1>3, <1>4 DEF ToSet
<1>7. Without(q, id) = Pick(q, P) /\ Without(e, id) = Pick(e, P)
  BY <1>5, <1>6 DEF Without, Only
<1>8. \A k \in 1 .. Cardinality(P) : Nth(P, k) \in 1 .. n
  BY <1>4, NthFacts
<1>9. Entries(Pick(q, P)) = [k \in 1 .. Cardinality(P) |-> Entry(q[Nth(P, k)])]
  BY DEF Entries, Entry, Pick
<1>10. Pick(e, P) = [k \in 1 .. Cardinality(P) |-> Entry(q[Nth(P, k)])]
  BY <1>2, <1>8 DEF Pick
<1>11. QED
  BY <1>2, <1>7, <1>9, <1>10

(* What a chunk is split into.                                              *)
LEMMA PartsOfShape ==
  ASSUME NEW t \in Task, Filled(t), Len(t.members) > 1, Len(t.members) <= MaxMembers
  PROVE  /\ PartsOf(t) \in Seq(Task)
         /\ DOMAIN PartsOf(t) = DOMAIN t.members
         /\ \A j \in DOMAIN t.members :
               /\ PartsOf(t)[j].id = Append(t.id, j - 1)
               /\ PartsOf(t)[j].members = <<t.members[j]>>
               /\ PartsOf(t)[j].stage = t.stage
               /\ Filled(PartsOf(t)[j])
         /\ FlattenSeq(Members(PartsOf(t))) = t.members
<1>1. PICK ms \in Seq(Id), n \in Nat : /\ ms = t.members /\ n = Len(ms) /\ DOMAIN ms = 1 .. n
                                       /\ n > 1 /\ n <= MaxMembers
  BY LenProperties DEF Task
<1>2. PICK h \in Nat : h = t.weight /\ h >= n
  BY <1>1 DEF Task, Weight, Filled
<1>3. PICK p \in Place : t.id = <<p>>
  <2>1. t.id \in Id /\ Len(t.id) = 1
    BY DEF Task, Filled
  <2>2. QED
    BY <2>1 DEF Id
<1>4. h \div n \in Nat \ {0}
  BY <1>1, <1>2
<1>5. PICK q : q = PartsOf(t)
  OBVIOUS
<1>6. /\ DOMAIN q = 1 .. n
      /\ \A j \in 1 .. n : q[j] = [id |-> Append(t.id, j - 1), weight |-> h \div n,
                                   members |-> <<ms[j]>>, stage |-> t.stage]
      /\ q = [j \in 1 .. n |-> q[j]]
  BY <1>1, <1>2, <1>5 DEF PartsOf
<1>7. ASSUME NEW j \in 1 .. n
      PROVE  q[j] \in Task /\ Filled(q[j])
  <2>1. j - 1 \in Place
    BY <1>1, DataAssumption DEF Place
  <2>2. Append(t.id, j - 1) = <<p, j - 1>>
    <3>1. PICK i \in Place : i = j - 1
      BY <2>1
    <3>2. Append(<<p>>, i) = <<p, i>>
      BY AppendToOne
    <3>3. QED
      BY <1>3, <3>1, <3>2
  <2>3. Append(t.id, j - 1) \in Id
    BY <2>1, <2>2 DEF Id
  <2>4. PICK m \in Id : m = ms[j]
    BY <1>1, ElementOfSeq
  <2>5. <<m>> \in Seq(Id) /\ Len(<<m>>) = 1 /\ <<m>> # <<>>
    BY OneElement
  <2>6. t.stage \in Stage
    BY DEF Task
  <2>7. q[j] \in Task
    <3>1. PICK i \in Id, v \in Weight, x \in Seq(Id), s \in Stage :
            i = Append(t.id, j - 1) /\ v = h \div n /\ x = <<m>> /\ s = t.stage
      BY <1>4, <2>3, <2>5, <2>6 DEF Weight
    <3>2. q[j] = [id |-> i, weight |-> v, members |-> x, stage |-> s]
      BY <1>6, <2>4, <3>1
    <3>3. [id |-> i, weight |-> v, members |-> x, stage |-> s] \in Task
      BY DEF Task
    <3>4. QED
      BY <3>2, <3>3
  <2>8. q[j].members = <<m>> /\ q[j].weight = h \div n
    BY <1>6, <2>4
  <2>9. Filled(q[j])
    BY <1>4, <2>5, <2>8 DEF Filled
  <2>10. QED
    BY <2>7, <2>9
<1>8. q \in Seq(Task)
  <2>1. q \in [1 .. n -> Task]
    BY <1>6, <1>7
  <2>2. QED
    BY <2>1, FunctionSeq
<1>9. Members(q) = [j \in DOMAIN ms |-> <<ms[j]>>]
  <2>1. \A j \in 1 .. n : q[j].members = <<ms[j]>>
    BY <1>6
  <2>2. QED
    BY <2>1, <1>1, <1>6 DEF Members
<1>10. FlattenSeq(Members(q)) = ms
  BY <1>9, FlattenSingles
<1>11. \A j \in 1 .. n : /\ q[j].id = Append(t.id, j - 1)
                           /\ q[j].members = <<ms[j]>>
                           /\ q[j].stage = t.stage
  BY <1>6
<1>12. QED
  BY <1>1, <1>5, <1>6, <1>7, <1>8, <1>10, <1>11

-----------------------------------------------------------------------------
(* The type invariant.                                                      *)

(* A task of the source has members that the source has.                    *)
Sourced(s, members) ==
    Reads[s] = 0 => \A m \in ToSet(members) : \E n \in DOMAIN source : m = <<n>>

Tables ==
    /\ source \in Seq(Weights) /\ Len(source) <= MaxMembers
    /\ manifest \in [Stage -> Seq(Chunk)]
    /\ \A s \in Stage : Len(manifest[s]) <= MaxMembers
    /\ stage \in 0 .. Finished
    /\ moved \subseteq {0} \cup Stage

(* The tasks are those of the stage that runs, and are its manifest.         *)
TasksFit ==
    /\ tasks \in Seq(Task)
    /\ Len(FlattenSeq(Members(tasks))) <= MaxMembers
    /\ stage \notin Stage => tasks = <<>>
    /\ stage \in Stage => manifest[stage] = Entries(tasks)
    /\ \A t \in ToSet(tasks) : t.stage = stage /\ Filled(t) /\ Sourced(t.stage, t.members)

Attempts ==
    /\ parts \in [Key -> Seq(Seq(Row))]
    /\ results \subseteq Key
    /\ exec \in [Worker -> Attempt \cup {Idle}]
    /\ \A w \in Worker : exec[w] # Idle =>
          /\ Len(exec[w].buf) < Cap
          /\ Sourced(exec[w].task.stage, exec[w].task.members)
    /\ lost \in [Stage -> SUBSET Row]

Counts == runs \in 0 .. MaxRuns /\ fixes \in 0 .. MaxFixes

TypeInv == Tables /\ TasksFit /\ Attempts /\ Counts

LEMMA ConstantsFacts ==
  /\ Stage = 1 .. Len(Reads) /\ Len(Reads) \in Nat \ {0} /\ 1 \in Stage
  /\ Finished \in Nat /\ Finished = Len(Reads) + 1
  /\ \A s \in Stage : s \in Nat \ {0} /\ Reads[s] \in Nat /\ Reads[s] < s
                      /\ (Reads[s] # 0 => Reads[s] \in Stage) /\ Target[s] \in Nat
  /\ MaxMembers \in Nat /\ MaxRuns \in Nat /\ MaxFixes \in Nat
  /\ Cap \in Nat /\ Cap > 0
<1>1. Reads \in Seq(Nat) /\ Reads # <<>> /\ Target \in [Stage -> Nat]
  BY DataAssumption
<1>2. Len(Reads) \in Nat \ {0} /\ Stage = 1 .. Len(Reads)
  BY <1>1, LenProperties, EmptySeq DEF Stage
<1>3. \A s \in Stage : Reads[s] \in Nat /\ Reads[s] < s
  BY <1>1, <1>2, ElementOfSeq, DataAssumption
<1>4. \A s \in Stage : Reads[s] # 0 => Reads[s] \in Stage
  BY <1>2, <1>3
<1>5. QED
  BY <1>1, <1>2, <1>3, <1>4, DataAssumption DEF Finished

LEMMA TypeInvType ==
  ASSUME TypeInv
  PROVE  TypeOK
BY DEF TypeInv, Tables, TasksFit, Attempts, Counts, TypeOK

(* What the task of a stage reads are rows.                                 *)
LEMMA MemberRowsType ==
  ASSUME Tables, NEW n \in DOMAIN source
  PROVE  /\ MemberRows(n) \in Seq(Row) /\ Len(MemberRows(n)) = source[n]
         /\ source[n] \in Nat \ {0}
<1>1. n \in 1 .. MaxMembers /\ source[n] \in Weights /\ MaxMembers \in Nat
  BY LenProperties, ElementOfSeq, ConstantsFacts DEF Tables
<1>2. source[n] \in Nat \ {0} /\ Weights \subseteq Nat /\ IsFiniteSet(Weights) /\ Weights # {}
  BY <1>1, DataAssumption
<1>3. PICK most \in Nat : /\ most = CHOOSE x \in Weights : \A m \in Weights : m <= x
                          /\ \A m \in Weights : m <= most
  <2>1. \E x \in Weights : \A m \in Weights : m <= x
    BY <1>2, Largest
  <2>2. QED
    BY <1>2, <2>1
<1>4. MostRows = MaxMembers * most
  BY <1>3 DEF MostRows
<1>5. source[n] <= MostRows /\ MostRows \in Nat
  <2>1. source[n] <= most
    BY <1>1, <1>3
  <2>2. most <= MaxMembers * most /\ MaxMembers * most \in Nat
    BY <1>1
  <2>3. QED
    BY <1>2, <1>4, <2>1, <2>2
<1>6. \A k \in 1 .. source[n] : <<n, k>> \in Row
  BY <1>1, <1>2, <1>5 DEF Row
<1>7. MemberRows(n) \in [1 .. source[n] -> Row]
  BY <1>6 DEF MemberRows
<1>8. QED
  BY <1>2, <1>7, FunctionSeq

LEMMA InputType ==
  ASSUME Tables, parts \in [Key -> Seq(Seq(Row))], NEW s \in Stage, NEW members \in Seq(Id),
         Sourced(s, members)
  PROVE  Input(s, members) \in Seq(Row)
<1>1. PICK n \in Nat : n = Len(members) /\ DOMAIN members = 1 .. n
  BY LenProperties
<1> DEFINE R(i) == IF Reads[s] = 0 THEN MemberRows(members[i][1])
                   ELSE ChunkRows(<<Reads[s], members[i]>>)
<1>2. ASSUME NEW i \in 1 .. n PROVE R(i) \in Seq(Row)
  <2>1. members[i] \in Id /\ members[i] \in ToSet(members)
    BY <1>1, ElementOfSeq DEF ToSet
  <2>2. CASE Reads[s] = 0
    <3>1. PICK m \in DOMAIN source : members[i] = <<m>>
      BY <2>1, <2>2 DEF Sourced
    <3>2. members[i][1] = m
      BY <3>1
    <3>3. MemberRows(m) \in Seq(Row)
      BY MemberRowsType
    <3>4. QED
      BY <2>2, <3>2, <3>3
  <2>3. CASE Reads[s] # 0
    <3>1. <<Reads[s], members[i]>> \in Key
      BY <2>1, <2>3, ConstantsFacts DEF Key
    <3>2. PICK p \in Seq(Seq(Row)) : p = parts[<<Reads[s], members[i]>>]
      BY <3>1
    <3>3. FlattenSeq(p) \in Seq(Row)
      BY FlattenSteps
    <3>4. QED
      BY <2>3, <3>2, <3>3 DEF ChunkRows
  <2>4. QED
    BY <2>2, <2>3
<1>3. [i \in DOMAIN members |-> R(i)] \in [1 .. n -> Seq(Row)]
  BY <1>1, <1>2
<1>4. [i \in DOMAIN members |-> R(i)] \in Seq(Seq(Row))
  BY <1>3, FunctionSeq
<1>5. FlattenSeq([i \in DOMAIN members |-> R(i)]) \in Seq(Row)
  BY <1>4, FlattenSteps
<1>6. QED
  BY <1>5 DEF Input

(* What a stage has upstream of it.                                         *)
LEMMA UpstreamType ==
  ASSUME Tables, NEW s \in Stage
  PROVE  /\ UpstreamChunks(s) \in Seq(Chunk)
         /\ Len(UpstreamChunks(s)) <= MaxMembers
         /\ Reads[s] = 0 => \A i \in DOMAIN UpstreamChunks(s) :
               i \in DOMAIN source /\ UpstreamChunks(s)[i].id = <<i>>
<1>1. CASE Reads[s] = 0
  <2>1. PICK n \in Nat : n = Len(source) /\ DOMAIN source = 1 .. n /\ n <= MaxMembers
    BY LenProperties DEF Tables
  <2>2. PICK up : up = UpstreamChunks(s)
    OBVIOUS
  <2>3. up = [i \in 1 .. n |-> [id |-> <<i>>, weight |-> source[i]]]
    BY <1>1, <2>1, <2>2 DEF UpstreamChunks
  <2>4. ASSUME NEW i \in 1 .. n PROVE [id |-> <<i>>, weight |-> source[i]] \in Chunk
    <3>1. i \in Place
      BY <2>1, ConstantsFacts DEF Place
    <3>2. <<i>> \in Id
      BY <3>1 DEF Id
    <3>3. source[i] \in Weight
      BY <2>1, ElementOfSeq, DataAssumption DEF Tables, Weight
    <3>4. QED
      BY <3>2, <3>3 DEF Chunk
  <2>5. up \in [1 .. n -> Chunk]
    BY <2>3, <2>4
  <2>6. up \in Seq(Chunk) /\ Len(up) = n /\ DOMAIN up = 1 .. n
    BY <2>5, FunctionSeq
  <2>7. \A i \in 1 .. n : up[i].id = <<i>>
    BY <2>3
  <2>8. QED
    BY <2>1, <2>2, <2>6, <2>7
<1>2. CASE Reads[s] # 0
  <2>1. UpstreamChunks(s) = manifest[Reads[s]] /\ Reads[s] \in Stage
    BY <1>2, ConstantsFacts DEF UpstreamChunks
  <2>2. QED
    BY <1>2, <2>1 DEF Tables
<1>3. QED
  BY <1>1, <1>2

LEMMA ChunksShape ==
  ASSUME Tables, NEW s \in Stage
  PROVE  /\ Chunks(s) \in Seq(PlanChunk)
         /\ \A i \in DOMAIN Chunks(s) : Filled(Chunks(s)[i])
         /\ FlattenSeq(Members(Chunks(s))) = Ids(UpstreamChunks(s))
<1>1. PICK up \in Seq(Chunk) : up = UpstreamChunks(s) /\ Len(up) <= MaxMembers
  BY UpstreamType
<1>2. PICK target \in Nat : target = Target[s]
  BY ConstantsFacts
<1>3. PICK chunks : chunks = Chunks(s)
  OBVIOUS
<1>4. chunks = IF target > 0 THEN Pack(up, target) ELSE OneToOne(up)
  BY <1>1, <1>2, <1>3 DEF Chunks
<1>5. /\ chunks \in Seq(PlanChunk)
      /\ \A i \in DOMAIN chunks : Filled(chunks[i])
      /\ FlattenSeq(Members(chunks)) = Ids(up)
  BY <1>1, <1>4, PlannedShape
<1>6. QED
  BY <1>1, <1>3, <1>5

-----------------------------------------------------------------------------
(* The plan of a stage, and its remediation.                                *)

LEMMA PlannedHaveMembers ==
  /\ HaveMembers(PlanChunk, Id) /\ HaveMembers(Task, Id)
  /\ HaveEntries(PlanChunk) /\ HaveEntries(Task)
BY DEF HaveMembers, HaveEntries, PlanChunk, Task

(* The members of planned chunks are the chunks upstream.                   *)
LEMMA MembersUpstream ==
  ASSUME NEW up \in Seq(Chunk), NEW chunks \in Seq(PlanChunk),
         FlattenSeq(Members(chunks)) = Ids(up)
  PROVE  \A i \in DOMAIN chunks : \A m \in ToSet(chunks[i].members) :
            \E j \in DOMAIN up : m = up[j].id
<1> SUFFICES ASSUME NEW i \in DOMAIN chunks, NEW m \in ToSet(chunks[i].members)
             PROVE  \E j \in DOMAIN up : m = up[j].id
  OBVIOUS
<1>1. PICK n \in Nat : n = Len(chunks) /\ DOMAIN chunks = 1 .. n
  BY LenProperties
<1>2. PICK ms \in Seq(Seq(Id)) : ms = Members(chunks) /\ DOMAIN ms = 1 .. n
  BY <1>1, MembersType, PlannedHaveMembers
<1>3. ms[i] = chunks[i].members
  BY <1>1, <1>2 DEF Members
<1>4. m \in ToSet(FlattenSeq(ms))
  BY <1>1, <1>2, <1>3, FlattenHas
<1>5. m \in ToSet(Ids(up))
  BY <1>2, <1>4
<1>6. QED
  BY <1>5 DEF ToSet, Ids

LEMMA PlanKeeps ==
  ASSUME Tables, NEW s \in Stage, Plan(s), source' = source
  PROVE  Tables' /\ TasksFit'
<1>1. PICK chunks \in Seq(PlanChunk), n \in Nat :
        /\ chunks = Chunks(s) /\ n = Len(chunks) /\ DOMAIN chunks = 1 .. n
        /\ \A i \in DOMAIN chunks : Filled(chunks[i])
        /\ FlattenSeq(Members(chunks)) = Ids(UpstreamChunks(s))
  BY ChunksShape, LenProperties
<1>2. PICK up \in Seq(Chunk), m \in Nat :
        /\ up = UpstreamChunks(s) /\ m = Len(up) /\ m <= MaxMembers
        /\ Reads[s] = 0 => \A i \in DOMAIN up : i \in DOMAIN source /\ up[i].id = <<i>>
  BY UpstreamType, LenProperties
<1>3. PICK q : q = TasksOf(s, chunks)
  OBVIOUS
<1>4. /\ q \in Seq(Task) /\ Members(q) = Members(chunks) /\ Entries(q) = Entries(chunks)
      /\ DOMAIN q = 1 .. n
      /\ \A i \in 1 .. n : q[i] = [id |-> chunks[i].id, weight |-> chunks[i].weight,
                                   members |-> chunks[i].members, stage |-> s]
  BY <1>1, <1>3, TasksOfShape
<1>5. /\ tasks' = q /\ stage' = s
      /\ manifest' = [manifest EXCEPT ![s] = Entries(chunks)]
      /\ moved' \in {moved, moved \cup {s}}
  BY <1>1, <1>3 DEF Plan
<1>6. Len(Ids(up)) = m
  <2>1. up \in Seq([id : Id, weight : Weight])
    BY DEF Chunk
  <2>2. DOMAIN Ids(up) = 1 .. m /\ Ids(up) \in [1 .. m -> Id]
    <3>1. \A i \in 1 .. m : up[i] \in [id : Id, weight : Weight]
      BY <1>2, <2>1, ElementOfSeq
    <3>2. DOMAIN up = 1 .. m
      BY <1>2, LenProperties
    <3>3. QED
      BY <3>1, <3>2 DEF Ids
  <2>3. QED
    BY <2>2, FunctionSeq
<1>7. n <= MaxMembers
  <2> DEFINE C == {c \in PlanChunk : c.members # <<>>}
  <2>1. HaveMembers(C, Id) /\ \A c \in C : c.members # <<>>
    BY PlannedHaveMembers DEF HaveMembers
  <2>2. \A i \in 1 .. n : chunks[i] \in C
    BY <1>1, ElementOfSeq DEF Filled
  <2>3. chunks \in [1 .. n -> C]
    BY <1>1, <2>2, LenProperties
  <2> HIDE DEF C
  <2>4. chunks \in Seq(C)
    BY <2>3, FunctionSeq
  <2>5. Len(chunks) <= Len(FlattenSeq(Members(chunks)))
    BY <2>1, <2>4, NoMoreThanMembers
  <2>6. Len(FlattenSeq(Members(chunks))) = m
    BY <1>1, <1>2, <1>6
  <2>7. QED
    BY <1>1, <1>2, <2>5, <2>6, ConstantsFacts
<1>8. Entries(chunks) \in Seq(Chunk) /\ Len(Entries(chunks)) = n
  BY <1>1, PlannedHaveMembers, EntriesType
<1>9. Tables'
  <2>1. manifest' \in [Stage -> Seq(Chunk)]
    BY <1>5, <1>8 DEF Tables
  <2>2. ASSUME NEW u \in Stage PROVE Len(manifest'[u]) <= MaxMembers
    <3>1. CASE u = s
      BY <3>1, <1>5, <1>7, <1>8 DEF Tables
    <3>2. CASE u # s
      BY <3>2, <1>5 DEF Tables
    <3>3. QED
      BY <3>1, <3>2
  <2>3. stage' \in 0 .. Finished
    BY <1>5, ConstantsFacts
  <2>4. moved' \subseteq {0} \cup Stage
    BY <1>5 DEF Tables
  <2>5. QED
    BY <2>1, <2>2, <2>3, <2>4 DEF Tables
<1>10. TasksFit'
  <2>1. tasks' \in Seq(Task)
    BY <1>4, <1>5
  <2>2. Len(FlattenSeq(Members(tasks'))) <= MaxMembers
    BY <1>1, <1>2, <1>4, <1>5, <1>6
  <2>3. stage' \in Stage /\ manifest'[stage'] = Entries(tasks')
    BY <1>4, <1>5 DEF Tables
  <2>4. ASSUME NEW t \in ToSet(tasks')
        PROVE  t.stage = stage' /\ Filled(t) /\ Sourced(t.stage, t.members)'
    <3>1. PICK i \in 1 .. n : t = q[i]
      BY <1>4, <1>5 DEF ToSet
    <3>2. /\ t.stage = s /\ t.members = chunks[i].members /\ t.weight = chunks[i].weight
          /\ t.id = chunks[i].id
      BY <1>4, <3>1
    <3>3. Filled(t)
      BY <1>1, <3>2 DEF Filled
    <3>4. \A x \in ToSet(t.members) : \E j \in DOMAIN up : x = up[j].id
      <4>1. \A j \in DOMAIN chunks : \A x \in ToSet(chunks[j].members) :
              \E h \in DOMAIN up : x = up[h].id
        BY <1>1, <1>2, MembersUpstream
      <4>2. i \in DOMAIN chunks /\ t.members = chunks[i].members
        BY <1>1, <3>2
      <4>3. QED
        BY <4>1, <4>2, Zenon
    <3>5. Sourced(t.stage, t.members)'
      BY <1>2, <3>2, <3>4 DEF Sourced
    <3>6. QED
      BY <1>5, <3>2, <3>3, <3>5
  <2>5. QED
    BY <2>1, <2>2, <2>3, <2>4 DEF TasksFit
<1>11. QED
  BY <1>9, <1>10

(* A task that is split or skipped leaves the rest as they are, and its      *)
(* parts have the members it had.                                           *)
LEMMA ReplaceKeeps ==
  ASSUME Tables, TasksFit, NEW t \in ToSet(tasks), NEW new,
         \/ new = <<>>
         \/ new = PartsOf(t) /\ Len(t.members) > 1,
         Replace(t, new), UNCHANGED <<source, stage, moved>>
  PROVE  Tables' /\ TasksFit'
<1>1. /\ t \in Task /\ t.stage = stage /\ Filled(t) /\ Sourced(t.stage, t.members)
      /\ stage \in Stage /\ manifest[stage] = Entries(tasks) /\ tasks \in Seq(Task)
  <2>1. t \in Task
    BY ElementOfSeq, LenProperties DEF TasksFit, ToSet
  <2>2. QED
    BY <2>1 DEF TasksFit, Task
<1>2. PICK ms \in Seq(Id), k \in Nat : ms = t.members /\ k = Len(ms)
  BY <1>1, LenProperties DEF Task
<1> DEFINE R == {c \in ToSet(tasks) : c.id # t.id}
<1>3. PICK w \in Seq(Task) : w = Without(tasks, t.id) /\ ToSet(w) = R
  <2>1. Without(tasks, t.id) = Only(tasks, R) /\ ToSet(tasks) \cap R = R
    BY DEF Without
  <2> HIDE DEF R
  <2>2. Only(tasks, R) \in Seq(Task) /\ ToSet(Only(tasks, R)) = ToSet(tasks) \cap R
    BY <1>1, OnlyFacts
  <2>3. QED
    BY <2>1, <2>2
<1>4. PICK lw \in Nat, l \in Nat : /\ lw = Len(FlattenSeq(Members(w)))
                                   /\ l = Len(FlattenSeq(Members(tasks)))
                                   /\ lw + k <= l /\ l <= MaxMembers /\ k <= MaxMembers
  <2>1. FlattenSeq(Members(w)) \in Seq(Id) /\ FlattenSeq(Members(tasks)) \in Seq(Id)
    BY <1>1, MembersOfSome, PlannedHaveMembers
  <2>2. PICK f \in Seq(Id), g \in Seq(Id) : f = FlattenSeq(Members(w)) /\ g = FlattenSeq(Members(tasks))
    BY <2>1
  <2>3. w = Only(tasks, R)
    BY <1>3 DEF Without
  <2>4. t \in ToSet(tasks) \ R
    OBVIOUS
  <2>5. Len(FlattenSeq(Members(Only(tasks, R)))) + Len(t.members) <= Len(FlattenSeq(Members(tasks)))
    <3> HIDE DEF R
    <3>1. QED
      BY <1>1, <2>4, MembersOfSome, PlannedHaveMembers
  <2>6. Len(f) \in Nat /\ Len(g) \in Nat
    BY LenProperties
  <2>7. Len(g) <= MaxMembers
    BY <2>2 DEF TasksFit
  <2>8. Len(f) + k <= Len(g)
    BY <2>2, <2>3, <2>5, <1>2
  <2>9. k <= MaxMembers
    BY <2>6, <2>7, <2>8, ConstantsFacts
  <2>10. QED
    BY <2>2, <2>6, <2>7, <2>8, <2>9
<1>5. /\ new \in Seq(Task)
      /\ \A c \in ToSet(new) : /\ c.stage = stage /\ Filled(c)
                               /\ ToSet(c.members) \subseteq ToSet(t.members)
      /\ Len(FlattenSeq(Members(new))) <= k /\ Len(FlattenSeq(Members(new))) \in Nat
  <2>1. CASE new = <<>>
    <3>1. <<>> \in Seq(Task) /\ ToSet(<<>>) = {}
      BY EmptySeq DEF ToSet
    <3>2. Members(<<>>) = <<>>
      BY DEF Members
    <3>3. Len(FlattenSeq(Members(<<>>))) = 0
      BY <3>2, FlattenSteps, EmptySeq
    <3>4. QED
      BY <2>1, <3>1, <3>3
  <2>2. CASE new = PartsOf(t) /\ Len(t.members) > 1
    <3>1. Len(t.members) > 1 /\ Len(t.members) <= MaxMembers
      BY <2>2, <1>2, <1>4
    <3>2. /\ PartsOf(t) \in Seq(Task)
          /\ DOMAIN PartsOf(t) = DOMAIN t.members
          /\ \A j \in DOMAIN t.members :
                /\ PartsOf(t)[j].members = <<t.members[j]>>
                /\ PartsOf(t)[j].stage = t.stage
                /\ Filled(PartsOf(t)[j])
          /\ FlattenSeq(Members(PartsOf(t))) = t.members
      BY <1>1, <3>1, PartsOfShape
    <3>3. ASSUME NEW c \in ToSet(new)
          PROVE  c.stage = stage /\ Filled(c) /\ ToSet(c.members) \subseteq ToSet(t.members)
      <4>1. PICK j \in DOMAIN t.members : c = PartsOf(t)[j]
        BY <2>2, <3>2 DEF ToSet
      <4>2. PICK m : m = t.members[j] /\ m \in ToSet(t.members)
        BY DEF ToSet
      <4>3. c.members = <<m>>
        BY <3>2, <4>1, <4>2
      <4>4. ToSet(<<m>>) = {m}
        BY DEF ToSet
      <4>5. QED
        BY <1>1, <3>2, <4>1, <4>2, <4>3, <4>4
    <3>4. QED
      BY <2>2, <1>2, <3>2, <3>3
  <2>3. QED
    BY <2>1, <2>2
<1>6. PICK q : q = w \o new
  OBVIOUS
<1>7. q \in Seq(Task) /\ ToSet(q) = R \cup ToSet(new)
  BY <1>3, <1>5, <1>6, ConcatSet
<1>8. Len(FlattenSeq(Members(q))) <= MaxMembers
  <2>1. FlattenSeq(Members(q)) = FlattenSeq(Members(w)) \o FlattenSeq(Members(new))
    BY <1>5, <1>6, MembersConcat, PlannedHaveMembers
  <2>2. PICK f \in Seq(Id), g \in Seq(Id) : f = FlattenSeq(Members(w)) /\ g = FlattenSeq(Members(new))
    BY <1>5, MembersOfSome, PlannedHaveMembers
  <2>3. Len(f \o g) = Len(f) + Len(g)
    BY ConcatProperties
  <2>4. Len(f) = lw /\ Len(g) <= k /\ Len(g) \in Nat
    BY <1>4, <1>5, <2>2
  <2>5. QED
    BY <1>4, <2>1, <2>2, <2>3, <2>4, ConstantsFacts
<1>9. PICK e : e = Without(manifest[stage], t.id) \o Entries(new)
  OBVIOUS
<1>10. Entries(q) = e
  <2>1. Entries(w) = Without(Entries(tasks), t.id)
    BY <1>1, <1>3, EntriesWithout, PlannedHaveMembers
  <2>2. Entries(q) = Entries(w) \o Entries(new)
    BY <1>5, <1>6, EntriesConcat, PlannedHaveMembers
  <2>3. QED
    BY <1>1, <1>9, <2>1, <2>2
<1>11. /\ tasks' = q /\ stage' = stage /\ source' = source /\ moved' = moved
       /\ manifest' = [manifest EXCEPT ![stage] = e]
  BY <1>1, <1>3, <1>6, <1>9 DEF Replace
<1>12. \A c \in ToSet(q) : c.stage = stage /\ Filled(c) /\ Sourced(c.stage, c.members)
  <2>1. \A c \in R : c.stage = stage /\ Filled(c) /\ Sourced(c.stage, c.members)
    BY DEF TasksFit
  <2>2. \A c \in ToSet(new) : Sourced(c.stage, c.members)
    BY <1>1, <1>5 DEF Sourced
  <2>3. QED
    BY <1>5, <1>7, <2>1, <2>2
<1>13. PICK n \in Nat : n = Len(q)
  BY <1>7, LenProperties
<1>14. n <= MaxMembers
  <2> DEFINE C == {c \in Task : c.members # <<>>}
  <2>1. HaveMembers(C, Id) /\ \A c \in C : c.members # <<>>
    BY PlannedHaveMembers DEF HaveMembers
  <2>2. \A i \in 1 .. n : q[i] \in C
    <3> SUFFICES ASSUME NEW i \in 1 .. n PROVE q[i] \in C
      OBVIOUS
    <3>1. q[i] \in Task /\ q[i] \in ToSet(q)
      BY <1>7, <1>13, ElementOfSeq, LenProperties DEF ToSet
    <3>2. QED
      BY <3>1, <1>12 DEF Filled
  <2>3. q \in [1 .. n -> C]
    BY <1>7, <1>13, <2>2, LenProperties
  <2> HIDE DEF C
  <2>4. q \in Seq(C)
    BY <2>3, FunctionSeq
  <2>5. Len(q) <= Len(FlattenSeq(Members(q)))
    BY <2>1, <2>4, NoMoreThanMembers
  <2>6. PICK f \in Seq(Id) : f = FlattenSeq(Members(q))
    BY <1>7, MembersOfSome, PlannedHaveMembers
  <2>7. Len(f) \in Nat /\ Len(f) <= MaxMembers
    BY <1>8, <2>6, LenProperties
  <2>8. QED
    BY <1>13, <2>5, <2>6, <2>7, ConstantsFacts
<1>15. e \in Seq(Chunk) /\ Len(e) = n
  BY <1>7, <1>10, <1>13, EntriesType, PlannedHaveMembers
<1>16. Tables'
  <2>1. manifest' \in [Stage -> Seq(Chunk)]
    BY <1>11, <1>15 DEF Tables
  <2>2. ASSUME NEW u \in Stage PROVE Len(manifest'[u]) <= MaxMembers
    <3>1. CASE u = stage
      BY <3>1, <1>11, <1>14, <1>15 DEF Tables
    <3>2. CASE u # stage
      BY <3>2, <1>11 DEF Tables
    <3>3. QED
      BY <3>1, <3>2
  <2>3. QED
    BY <1>11, <2>1, <2>2 DEF Tables
<1>17. TasksFit'
  <2>1. manifest'[stage'] = Entries(tasks') /\ stage' \in Stage
    BY <1>1, <1>10, <1>11 DEF Tables
  <2>2. \A c \in ToSet(tasks') : c.stage = stage' /\ Filled(c) /\ Sourced(c.stage, c.members)'
    BY <1>11, <1>12 DEF Sourced
  <2>3. QED
    BY <1>7, <1>8, <1>11, <2>1, <2>2 DEF TasksFit
<1>18. QED
  BY <1>16, <1>17

-----------------------------------------------------------------------------
(* The steps.                                                               *)

LEMMA PutPartType ==
  ASSUME parts \in [Key -> Seq(Seq(Row))], NEW k \in Key, NEW n \in Nat, NEW rows \in Seq(Row)
  PROVE  PutPart(k, n, rows) \in [Key -> Seq(Seq(Row))]
<1>1. PICK p \in Seq(Seq(Row)) : p = parts[k]
  OBVIOUS
<1>2. PICK new : new = IF n < Len(p) THEN [p EXCEPT ![n + 1] = rows] ELSE Append(p, rows)
  OBVIOUS
<1>3. new \in Seq(Seq(Row))
  <2>1. CASE n < Len(p)
    <3>1. PICK l \in Nat : l = Len(p) /\ p \in [1 .. l -> Seq(Row)]
      BY LenProperties
    <3>2. new \in [1 .. l -> Seq(Row)]
      BY <1>2, <2>1, <3>1
    <3>3. QED
      BY <3>1, <3>2, FunctionSeq
  <2>2. CASE ~(n < Len(p))
    BY <1>2, <2>2, AppendProperties
  <2>3. QED
    BY <2>1, <2>2
<1>4. PutPart(k, n, rows) = [parts EXCEPT ![k] = new]
  BY <1>1, <1>2 DEF PutPart
<1>5. QED
  BY <1>3, <1>4

LEMMA TaskInKey ==
  ASSUME NEW t \in Task
  PROVE  KeyOf(t) \in Key /\ t.stage \in Stage /\ t.members \in Seq(Id)
BY DEF Task, KeyOf, Key

(* What is sourced stays so as the source grows.                            *)
LEMMA SourcedStays ==
  ASSUME Tables, NEW s, NEW members, Sourced(s, members),
         \/ source' = source
         \/ \E n \in Weights : source' = Append(source, n)
  PROVE  Sourced(s, members)'
<1>1. DOMAIN source \subseteq DOMAIN source'
  <2>1. CASE source' = source
    BY <2>1
  <2>2. CASE \E n \in Weights : source' = Append(source, n)
    <3>1. PICK n \in Weights : source' = Append(source, n)
      BY <2>2
    <3>2. PICK q : q = Append(source, n)
      OBVIOUS
    <3>3. q \in Seq(Weights) /\ Len(q) = Len(source) + 1 /\ Len(source) \in Nat
      BY <3>2, AppendProperties, LenProperties DEF Tables
    <3>4. DOMAIN q = 1 .. Len(source) + 1 /\ DOMAIN source = 1 .. Len(source)
      BY <3>3, LenProperties DEF Tables
    <3>5. PICK l \in Nat : l = Len(source)
      BY <3>3
    <3>6. DOMAIN source' = 1 .. l + 1 /\ DOMAIN source = 1 .. l
      BY <3>1, <3>2, <3>4, <3>5
    <3>7. QED
      BY <3>6
  <2>3. QED
    BY <2>1, <2>2
<1>2. QED
  BY <1>1 DEF Sourced

LEMMA InitType == Init => TypeInv
<1> SUFFICES ASSUME Init PROVE TypeInv
  OBVIOUS
<1>1. <<>> \in Seq(Chunk) /\ <<>> \in Seq(Task) /\ <<>> \in Seq(Seq(Row)) /\ Len(<<>>) = 0
  BY EmptySeq
<1>2. Tables
  <2>1. source \in Seq(Weights) /\ Len(source) <= MaxMembers
    <3>1. PICK n \in 0 .. MaxMembers : source \in [1 .. n -> Weights]
      BY DEF Init, BoundedSeq, SeqOf
    <3>2. QED
      BY <3>1, FunctionSeq, ConstantsFacts
  <2>2. QED
    BY <2>1, <1>1, ConstantsFacts DEF Init, Tables
<1>3. TasksFit
  <2>1. Members(<<>>) = <<>> /\ ToSet(<<>>) = {}
    BY DEF Members, ToSet
  <2>2. Len(FlattenSeq(Members(<<>>))) = 0
    BY <2>1, <1>1, FlattenSteps
  <2>3. stage \notin Stage
    BY ConstantsFacts DEF Init
  <2>4. QED
    BY <1>1, <2>1, <2>2, <2>3, ConstantsFacts DEF Init, TasksFit
<1>4. Attempts
  BY <1>1 DEF Init, Attempts
<1>5. Counts
  BY ConstantsFacts DEF Init, Counts
<1>6. QED
  BY <1>2, <1>3, <1>4, <1>5 DEF TypeInv

(* Where the workers are left as they are. *)
LEMMA AttemptsStay ==
  ASSUME TypeInv, UNCHANGED <<parts, results, exec>>,
         lost' \in [Stage -> SUBSET Row],
         \/ source' = source
         \/ \E n \in Weights : source' = Append(source, n)
  PROVE  Attempts'
<1>1. ASSUME NEW w \in Worker, (exec[w] # Idle)'
      PROVE  (/\ Len(exec[w].buf) < Cap
              /\ Sourced(exec[w].task.stage, exec[w].task.members))'
  <2>1. /\ Len(exec[w].buf) < Cap
        /\ Sourced(exec[w].task.stage, exec[w].task.members)
    BY <1>1 DEF TypeInv, Attempts
  <2>2. PICK s, m : s = exec[w].task.stage /\ m = exec[w].task.members
    OBVIOUS
  <2>3. Sourced(s, m)'
    BY <2>1, <2>2, SourcedStays DEF TypeInv
  <2>4. QED
    BY <2>1, <2>2, <2>3 DEF Sourced
<1>2. QED
  BY <1>1 DEF TypeInv, Attempts

(* Where one of them changes.                                              *)
LEMMA AttemptChanges ==
  ASSUME TypeInv, NEW w \in Worker, NEW e,
         e = Idle \/ (/\ e \in Attempt /\ Len(e.buf) < Cap
                      /\ Sourced(e.task.stage, e.task.members)),
         exec' = [exec EXCEPT ![w] = e],
         parts' \in [Key -> Seq(Seq(Row))], results' \subseteq Key,
         UNCHANGED <<source, lost>>
  PROVE  Attempts'
<1>1. exec' \in [Worker -> Attempt \cup {Idle}]
  BY DEF TypeInv, Attempts
<1>2. ASSUME NEW v \in Worker, (exec[v] # Idle)'
      PROVE  (/\ Len(exec[v].buf) < Cap
              /\ Sourced(exec[v].task.stage, exec[v].task.members))'
  <2>1. CASE v = w
    <3>1. exec'[v] = e
      BY <2>1 DEF TypeInv, Attempts
    <3>2. QED
      BY <1>2, <3>1 DEF Sourced
  <2>2. CASE v # w
    <3>1. exec'[v] = exec[v]
      BY <2>2 DEF TypeInv, Attempts
    <3>2. QED
      BY <1>2, <3>1 DEF Sourced, TypeInv, Attempts
  <2>3. QED
    BY <2>1, <2>2
<1>3. QED
  BY <1>1, <1>2 DEF TypeInv, Attempts

(* Where the tables and tasks are left as they are.                         *)
LEMMA TasksStay ==
  ASSUME TypeInv, UNCHANGED <<source, manifest, stage, tasks, moved>>
  PROVE  Tables' /\ TasksFit'
<1>1. Tables'
  BY DEF TypeInv, Tables
<1>2. TasksFit'
  BY DEF TypeInv, TasksFit, Sourced
<1>3. QED
  BY <1>1, <1>2

LEMMA AttemptType ==
  ASSUME TypeInv, NEW w \in Worker, exec[w] # Idle
  PROVE  /\ exec[w] \in Attempt /\ Len(exec[w].buf) < Cap
         /\ Sourced(exec[w].task.stage, exec[w].task.members)
         /\ exec[w].task \in Task /\ exec[w].feed \in Seq(Row) /\ exec[w].buf \in Seq(Row)
         /\ exec[w].part \in Nat /\ exec[w].closed \in BOOLEAN
<1>1. exec[w] \in Attempt /\ Len(exec[w].buf) < Cap
      /\ Sourced(exec[w].task.stage, exec[w].task.members)
  BY DEF TypeInv, Attempts
<1>2. QED
  BY <1>1 DEF Attempt

LEMMA SkipType ==
  ASSUME TypeInv, NEW t \in ToSet(tasks)
  PROVE  /\ t \in Task /\ Input(t.stage, t.members) \in Seq(Row)
         /\ [lost EXCEPT ![t.stage] = @ \cup ToSet(Input(t.stage, t.members))]
               \in [Stage -> SUBSET Row]
<1>1. t \in Task /\ Sourced(t.stage, t.members)
  BY ElementOfSeq, LenProperties DEF TypeInv, TasksFit, ToSet
<1>2. Input(t.stage, t.members) \in Seq(Row)
  BY <1>1, TaskInKey, InputType DEF TypeInv, Attempts
<1>3. ToSet(Input(t.stage, t.members)) \subseteq Row
  <2>1. PICK q \in Seq(Row) : q = Input(t.stage, t.members)
    BY <1>2
  <2>2. ToSet(q) \subseteq Row
    BY ElementOfSeq, LenProperties DEF ToSet
  <2>3. QED
    BY <2>1, <2>2
<1>4. QED
  BY <1>1, <1>2, <1>3 DEF TypeInv, Attempts

LEMMA WriteRowType ==
  ASSUME TypeInv, NEW w \in Worker, WriteRow(w)
  PROVE  Attempts'
<1>1. PICK t \in Task, feed \in Seq(Row), buf \in Seq(Row), part \in Nat, closed \in BOOLEAN :
        /\ exec[w] = [task |-> t, feed |-> feed, buf |-> buf, part |-> part, closed |-> closed]
        /\ Len(buf) < Cap /\ Sourced(t.stage, t.members) /\ feed # <<>>
  <2>1. exec[w] # Idle /\ exec[w].feed # <<>>
    BY DEF WriteRow
  <2>2. QED
    BY <2>1, AttemptType DEF Attempt
<1>2. PICK b, rest : b = Append(buf, Head(feed)) /\ rest = Tail(feed)
  OBVIOUS
<1>3. b \in Seq(Row) /\ Len(b) = Len(buf) + 1 /\ rest \in Seq(Row)
  BY <1>1, <1>2, HeadTailSet, AppendProperties
<1>4. PICK r \in Attempt : /\ r = exec[w] /\ Len(r.buf) < Cap
                           /\ Sourced(r.task.stage, r.task.members)
  BY AttemptType DEF WriteRow
<1>5. PICK full, next :
        /\ full = IF Len(b) >= Cap THEN <<>> ELSE b
        /\ next = IF Len(b) >= Cap THEN part + 1 ELSE part
  OBVIOUS
<1>12. full \in Seq(Row) /\ Len(full) < Cap
  <2>1. CASE Len(b) >= Cap
    <3>1. full = <<>>
      BY <2>1, <1>5
    <3>2. QED
      BY <3>1, EmptySeq, ConstantsFacts
  <2>2. CASE ~(Len(b) >= Cap)
    <3>1. full = b /\ Len(b) \in Nat
      BY <2>2, <1>3, <1>5, LenProperties
    <3>2. QED
      BY <2>2, <3>1, <1>3, ConstantsFacts
  <2>3. QED
    BY <2>1, <2>2
<1>13. next \in Nat
  BY <1>5
<1>6. PICK e : e = [r EXCEPT !.feed = rest, !.buf = full, !.part = next]
  OBVIOUS
<1>10. exec' = [exec EXCEPT ![w] = e]
  <2>1. exec' = [exec EXCEPT ![w].feed = rest, ![w].buf = full, ![w].part = next]
    BY <1>1, <1>2, <1>5 DEF WriteRow
  <2>2. exec' = [exec EXCEPT ![w] = [exec[w] EXCEPT !.feed = rest, !.buf = full, !.part = next]]
    BY <2>1
  <2>3. QED
    BY <2>2, <1>4, <1>6
<1>11. e \in Attempt /\ Len(e.buf) < Cap /\ Sourced(e.task.stage, e.task.members)
  <2>1. e \in Attempt
    BY <1>3, <1>6, <1>12, <1>13 DEF Attempt
  <2>2. e.buf = full /\ e.task = r.task
    BY <1>6 DEF Attempt
  <2>3. QED
    BY <2>1, <2>2, <1>4, <1>12
<1>7. parts' \in [Key -> Seq(Seq(Row))]
  <2>1. PutPart(KeyOf(t), part, b) \in [Key -> Seq(Seq(Row))]
    BY <1>3, TaskInKey, PutPartType DEF TypeInv, Attempts
  <2>2. parts' \in {parts, PutPart(KeyOf(t), part, b)}
    BY <1>1, <1>2 DEF WriteRow, WritePart
  <2>3. QED
    BY <2>1, <2>2 DEF TypeInv, Attempts
<1>8. results' \subseteq Key /\ source' = source /\ lost' = lost
  BY DEF WriteRow, TypeInv, Attempts
<1>9. QED
  BY <1>10, <1>11, <1>7, <1>8, AttemptChanges

LEMMA FinalizeType ==
  ASSUME TypeInv, NEW w \in Worker, Finalize(w)
  PROVE  Attempts'
<1>1. PICK t \in Task, feed \in Seq(Row), buf \in Seq(Row), part \in Nat, closed \in BOOLEAN :
        /\ exec[w] = [task |-> t, feed |-> feed, buf |-> buf, part |-> part, closed |-> closed]
        /\ Sourced(t.stage, t.members)
  <2>1. exec[w] # Idle
    BY DEF Finalize
  <2>2. QED
    BY <2>1, AttemptType DEF Attempt
<1>2. PICK r \in Attempt : r = exec[w] /\ Sourced(r.task.stage, r.task.members)
  BY AttemptType DEF Finalize
<1>8. PICK e : e = [r EXCEPT !.closed = TRUE, !.buf = <<>>]
  OBVIOUS
<1>3. exec' = [exec EXCEPT ![w] = e]
  <2>1. exec' = [exec EXCEPT ![w].closed = TRUE, ![w].buf = <<>>]
    BY DEF Finalize
  <2>2. exec' = [exec EXCEPT ![w] = [exec[w] EXCEPT !.closed = TRUE, !.buf = <<>>]]
    BY <2>1
  <2>3. QED
    BY <2>2, <1>2, <1>8
<1>4. e \in Attempt /\ Len(e.buf) < Cap /\ Sourced(e.task.stage, e.task.members)
  <2>1. <<>> \in Seq(Row) /\ Len(<<>>) = 0 /\ Cap > 0
    BY EmptySeq, ConstantsFacts
  <2>2. e \in Attempt
    BY <1>8, <2>1 DEF Attempt
  <2>3. e.buf = <<>> /\ e.task = r.task
    BY <1>8 DEF Attempt
  <2>4. QED
    BY <1>2, <2>1, <2>2, <2>3
<1>5. parts' \in [Key -> Seq(Seq(Row))]
  <2>1. PutPart(KeyOf(t), part, buf) \in [Key -> Seq(Seq(Row))]
    BY TaskInKey, PutPartType DEF TypeInv, Attempts
  <2>2. parts' \in {parts, PutPart(KeyOf(t), part, buf)}
    BY <1>1 DEF Finalize, WritePart
  <2>3. QED
    BY <2>1, <2>2 DEF TypeInv, Attempts
<1>6. results' \subseteq Key /\ source' = source /\ lost' = lost
  BY DEF Finalize, TypeInv, Attempts
<1>7. QED
  BY <1>3, <1>4, <1>5, <1>6, AttemptChanges

LEMMA BeginType ==
  ASSUME TypeInv, NEW w \in Worker, Begin(w)
  PROVE  Attempts'
<1>1. PICK t \in ToSet(tasks) :
        exec' = [exec EXCEPT ![w] = [task |-> t, feed |-> Input(t.stage, t.members),
                                     buf |-> <<>>, part |-> 0, closed |-> FALSE]]
  BY DEF Begin
<1>2. PICK e : e = [task |-> t, feed |-> Input(t.stage, t.members),
                    buf |-> <<>>, part |-> 0, closed |-> FALSE]
  OBVIOUS
<1>3. e \in Attempt /\ Len(e.buf) < Cap /\ Sourced(e.task.stage, e.task.members)
  <2>1. <<>> \in Seq(Row) /\ Len(<<>>) = 0 /\ Cap > 0
    BY EmptySeq, ConstantsFacts
  <2>2. t \in Task /\ Input(t.stage, t.members) \in Seq(Row) /\ Sourced(t.stage, t.members)
    BY SkipType DEF TypeInv, TasksFit
  <2>3. QED
    BY <1>2, <2>1, <2>2 DEF Attempt
<1>4. /\ parts' \in [Key -> Seq(Seq(Row))] /\ results' \subseteq Key
      /\ source' = source /\ lost' = lost
  BY DEF Begin, TypeInv, Attempts
<1>5. QED
  BY <1>1, <1>2, <1>3, <1>4, AttemptChanges

LEMMA TypeInductive == TypeInv /\ [Next]_vars => TypeInv'
<1> SUFFICES ASSUME TypeInv, [Next]_vars PROVE TypeInv'
  OBVIOUS
<1>1. CASE StartRun
  <2>1. Plan(1) /\ source' = source /\ 1 \in Stage
    BY <1>1, ConstantsFacts DEF StartRun
  <2>2. Tables' /\ TasksFit'
    BY <2>1, PlanKeeps DEF TypeInv
  <2>3. Attempts'
    BY <1>1, AttemptsStay DEF StartRun
  <2>4. Counts'
    BY <1>1, ConstantsFacts DEF StartRun, TypeInv, Counts
  <2>5. QED
    BY <2>2, <2>3, <2>4 DEF TypeInv
<1>2. CASE StageDone
  <2>1. Tables' /\ TasksFit'
    <3>1. CASE stage + 1 \in Stage /\ Plan(stage + 1)
      BY <1>2, <3>1, PlanKeeps DEF StageDone, TypeInv
    <3>2. CASE /\ stage + 1 = Finished /\ stage' = Finished /\ tasks' = <<>>
               /\ UNCHANGED <<manifest, moved>>
      <4>1. Tables'
        BY <1>2, <3>2, ConstantsFacts DEF StageDone, TypeInv, Tables
      <4>2. TasksFit'
        <5>1. Members(<<>>) = <<>> /\ ToSet(<<>>) = {}
          BY DEF Members, ToSet
        <5>2. Len(FlattenSeq(Members(<<>>))) = 0 /\ <<>> \in Seq(Task)
          BY <5>1, EmptySeq, FlattenSteps
        <5>3. stage' \notin Stage
          BY <3>2, ConstantsFacts
        <5>4. QED
          BY <3>2, <5>1, <5>2, <5>3, ConstantsFacts DEF TasksFit
      <4>3. QED
        BY <4>1, <4>2
    <3>3. QED
      BY <1>2, <3>1, <3>2 DEF StageDone
  <2>2. Attempts'
    <3>1. lost' \in [Stage -> SUBSET Row]
      BY <1>2 DEF StageDone, TypeInv, Attempts
    <3>2. QED
      BY <1>2, <3>1, AttemptsStay DEF StageDone
  <2>3. QED
    BY <1>2, <2>1, <2>2 DEF StageDone, TypeInv, Counts
<1>3. CASE RunCutShort
  <2>1. Tables'
    BY <1>3, ConstantsFacts DEF RunCutShort, TypeInv, Tables
  <2>2. TasksFit'
    <3>1. Members(<<>>) = <<>> /\ ToSet(<<>>) = {}
      BY DEF Members, ToSet
    <3>2. Len(FlattenSeq(Members(<<>>))) = 0 /\ <<>> \in Seq(Task)
      BY <3>1, EmptySeq, FlattenSteps
    <3>3. stage' \notin Stage /\ tasks' = <<>>
      BY <1>3, ConstantsFacts DEF RunCutShort
    <3>4. QED
      BY <3>1, <3>2, <3>3, ConstantsFacts DEF TasksFit
  <2>3. Attempts'
    <3>1. lost' \in [Stage -> SUBSET Row]
      BY <1>3 DEF RunCutShort, TypeInv, Attempts
    <3>2. QED
      BY <1>3, <3>1, AttemptsStay DEF RunCutShort
  <2>4. QED
    BY <1>3, <2>1, <2>2, <2>3 DEF RunCutShort, TypeInv, Counts
<1>4. CASE SourceGrows
  <2>1. PICK n \in Weights : source' = Append(source, n)
    BY <1>4 DEF SourceGrows
  <2>2. source' \in Seq(Weights) /\ Len(source') <= MaxMembers
    <3>1. PICK q : q = Append(source, n)
      OBVIOUS
    <3>2. q \in Seq(Weights) /\ Len(q) = Len(source) + 1 /\ Len(source) \in Nat
      BY <3>1, AppendProperties, LenProperties DEF TypeInv, Tables
    <3>3. Len(source) < MaxMembers
      BY <1>4 DEF SourceGrows
    <3>4. QED
      BY <2>1, <3>1, <3>2, <3>3, ConstantsFacts
  <2>3. Tables'
    BY <1>4, <2>2, ConstantsFacts DEF SourceGrows, TypeInv, Tables
  <2>4. TasksFit'
    <3>1. Members(<<>>) = <<>> /\ ToSet(<<>>) = {}
      BY DEF Members, ToSet
    <3>2. Len(FlattenSeq(Members(<<>>))) = 0 /\ <<>> \in Seq(Task)
      BY <3>1, EmptySeq, FlattenSteps
    <3>3. stage \notin Stage /\ stage' \notin Stage
      BY <1>4, ConstantsFacts DEF SourceGrows
    <3>4. tasks' = <<>>
      BY <1>4, <3>3 DEF SourceGrows, TypeInv, TasksFit
    <3>5. QED
      BY <3>1, <3>2, <3>3, <3>4, ConstantsFacts DEF TasksFit
  <2>5. Attempts'
    <3>1. lost' \in [Stage -> SUBSET Row]
      BY <1>4 DEF SourceGrows, TypeInv, Attempts
    <3>2. QED
      BY <1>4, <2>1, <3>1, AttemptsStay DEF SourceGrows
  <2>6. QED
    BY <1>4, <2>3, <2>4, <2>5 DEF SourceGrows, TypeInv, Counts
<1>5. CASE Remediate
  <2>1. PICK t \in ToSet(tasks) : Resplit(t) \/ Skip(t)
    BY <1>5 DEF Remediate
  <2>2. UNCHANGED <<source, stage, moved>>
    BY <1>5 DEF Remediate
  <2>3. Tables' /\ TasksFit'
    <3>1. CASE Resplit(t)
      BY <2>2, <3>1, ReplaceKeeps DEF Resplit, TypeInv
    <3>2. CASE Skip(t)
      BY <2>2, <3>2, ReplaceKeeps DEF Skip, TypeInv
    <3>3. QED
      BY <2>1, <3>1, <3>2
  <2>4. Attempts'
    <3>1. lost' \in [Stage -> SUBSET Row]
      <4>1. CASE Resplit(t)
        BY <4>1 DEF Resplit, TypeInv, Attempts
      <4>2. CASE Skip(t)
        BY <4>2, SkipType DEF Skip
      <4>3. QED
        BY <2>1, <4>1, <4>2
    <3>2. QED
      BY <1>5, <3>1, AttemptsStay DEF Remediate
  <2>5. Counts'
    BY <1>5, ConstantsFacts DEF Remediate, TypeInv, Counts
  <2>6. QED
    BY <2>3, <2>4, <2>5 DEF TypeInv
<1>6. ASSUME NEW w \in Worker, WorkerStep(w) PROVE TypeInv'
  <2>1. UNCHANGED <<source, manifest, stage, runs, tasks, fixes, lost, moved>>
    BY <1>6 DEF WorkerStep, Begin, WriteRow, Finalize, Mark, Fail
  <2>2. Tables' /\ TasksFit'
    BY <2>1, TasksStay
  <2>3. Counts'
    BY <2>1 DEF TypeInv, Counts
  <2>4. Attempts'
    <3>1. CASE Begin(w)
      BY <3>1, BeginType
    <3>2. CASE WriteRow(w)
      BY <3>2, WriteRowType
    <3>3. CASE Finalize(w)
      BY <3>3, FinalizeType
    <3>4. CASE Mark(w)
      <4>1. KeyOf(exec[w].task) \in Key
        BY <3>4, AttemptType, TaskInKey DEF Mark
      <4>2. results' \subseteq Key /\ parts' \in [Key -> Seq(Seq(Row))]
        BY <3>4, <4>1 DEF Mark, TypeInv, Attempts
      <4>3. exec' = [exec EXCEPT ![w] = Idle]
        BY <3>4 DEF Mark
      <4>4. QED
        BY <2>1, <4>2, <4>3, AttemptChanges
    <3>5. CASE Fail(w)
      <4>1. results' \subseteq Key /\ parts' \in [Key -> Seq(Seq(Row))]
        BY <3>5 DEF Fail, TypeInv, Attempts
      <4>2. exec' = [exec EXCEPT ![w] = Idle]
        BY <3>5 DEF Fail
      <4>3. QED
        BY <2>1, <4>1, <4>2, AttemptChanges
    <3>6. QED
      BY <1>6, <3>1, <3>2, <3>3, <3>4, <3>5 DEF WorkerStep
  <2>5. QED
    BY <2>2, <2>3, <2>4 DEF TypeInv
<1>7. CASE UNCHANGED vars
  <2>1. UNCHANGED <<source, manifest, stage, tasks, moved, parts, results, exec, lost, runs, fixes>>
    BY <1>7 DEF vars
  <2>2. Tables' /\ TasksFit'
    BY <2>1, TasksStay
  <2>3. lost' \in [Stage -> SUBSET Row]
    BY <2>1 DEF TypeInv, Attempts
  <2>4. Attempts'
    BY <2>1, <2>3, AttemptsStay
  <2>5. QED
    BY <2>1, <2>2, <2>4 DEF TypeInv, Counts
<1>8. QED
  BY <1>1, <1>2, <1>3, <1>4, <1>5, <1>6, <1>7 DEF Next

(* Every variable keeps to its range: what is planned, split and skipped,   *)
(* read and written stays of the pipeline and its source (controller.py:    *)
(* 79-118, 304-340; context.py:50-119; store.py:150-182).                  *)
THEOREM DataTypeCorrect == Spec => []TypeOK
<1>1. Spec => []TypeInv
  BY InitType, TypeInductive, PTL DEF Spec
<1>2. TypeInv => TypeOK
  BY TypeInvType
<1>3. QED
  BY <1>1, <1>2, PTL

-----------------------------------------------------------------------------
(* The parts that a sequence of rows is cut into.                           *)

(* Where part i starts: after as many rows.                                 *)
Start(i) == (i - 1) * Cap
Piece(rows, i) ==
    SubSeq(rows, Start(i) + 1, IF Start(i) + Cap <= Len(rows) THEN Start(i) + Cap ELSE Len(rows))

(* q has the first parts of rows, and all of them.                          *)
PiecesOf(q, rows) == \A i \in DOMAIN q : Start(i) < Len(rows) /\ q[i] = Piece(rows, i)
Whole(q, rows) == PiecesOf(q, rows) /\ Len(rows) <= Start(Len(q) + 1)

(* A worker of attempt e has rows before it: those in its buffer and those  *)
(* it has yet to read follow what it has written to q.                      *)
Draws(buf, feed, part, rows) ==
    LET pos == Start(part + 1) + Len(buf)
    IN  /\ pos <= Len(rows)
        /\ buf = SubSeq(rows, Start(part + 1) + 1, pos)
        /\ feed = SubSeq(rows, pos + 1, Len(rows))
Drawn(e, q, rows) ==
    IF e.closed THEN e.feed = <<>> /\ Whole(q, rows)
    ELSE Draws(e.buf, e.feed, e.part, rows) /\ e.part <= Len(q)

LEMMA StartFacts ==
  /\ Start(1) = 0
  /\ \A i \in Nat \ {0} : Start(i) \in Nat /\ Start(i + 1) = Start(i) + Cap
  /\ \A i, j \in Nat \ {0} : i <= j => Start(i) <= Start(j)
<1>1. PICK c \in Nat : c = Cap
  BY ConstantsFacts
<1>2. Start(1) = 0
  BY <1>1 DEF Start
<1>3. ASSUME NEW i \in Nat \ {0} PROVE Start(i) \in Nat /\ Start(i + 1) = Start(i) + Cap
  <2>1. PICK h \in Nat : i = h + 1
    <3>1. i - 1 \in Nat /\ i = (i - 1) + 1
      OBVIOUS
    <3>2. QED
      BY <3>1
  <2>2. (h + 1) - 1 = h /\ (h + 2) - 1 = h + 1 /\ (h + 1) + 1 = h + 2
    OBVIOUS
  <2>3. h * c \in Nat /\ (h + 1) * c = h * c + c
    OBVIOUS
  <2>4. QED
    BY <1>1, <2>1, <2>2, <2>3 DEF Start
<1>4. ASSUME NEW i \in Nat \ {0} PROVE \A j \in Nat \ {0} : i <= j => Start(i) <= Start(j)
  <2> DEFINE N == {d \in Nat : Start(i) <= Start(i + d)}
  <2>1. 0 \in N
    BY <1>3
  <2>2. ASSUME NEW d \in Nat, d \in N PROVE d + 1 \in N
    <3>1. i + d \in Nat \ {0} /\ i + (d + 1) = (i + d) + 1
      OBVIOUS
    <3>2. Start(i + (d + 1)) = Start(i + d) + c /\ Start(i + d) \in Nat /\ Start(i) \in Nat
      BY <1>1, <1>3, <3>1
    <3>3. Start(i) <= Start(i + d)
      BY <2>2
    <3>4. QED
      BY <3>2, <3>3
  <2>3. Nat \subseteq N
    <3> HIDE DEF N
    <3>1. QED
      BY <2>1, <2>2, Induct
  <2>4. ASSUME NEW j \in Nat \ {0}, i <= j PROVE Start(i) <= Start(j)
    <3>1. j - i \in Nat /\ i + (j - i) = j
      BY <2>4
    <3>2. QED
      BY <2>3, <3>1
  <2>5. QED
    BY <2>4
<1>5. QED
  BY <1>2, <1>3, <1>4

LEMMA RestLeft ==
  ASSUME NEW S, NEW rows \in Seq(S), NEW n \in Nat, n = Len(rows), NEW pos \in Nat, pos < n
  PROVE  SubSeq(rows, pos + 1, n) # <<>>
<1>1. pos + 1 \in 1 .. n /\ n \in (pos + 1) .. n
  OBVIOUS
<1>2. \A i \in (pos + 1) .. n : rows[i] \in S
  BY ElementOfSeq
<1>3. Len(SubSeq(rows, pos + 1, n)) = n - (pos + 1) + 1
  BY <1>1, <1>2, SubSeqProperties
<1>4. n - (pos + 1) + 1 # 0 /\ Len(<<>>) = 0
  BY <1>1, EmptySeq
<1>5. QED
  BY <1>3, <1>4

(* Reading on: of rows up to a, and from there to pos.                      *)
LEMMA ReadOn ==
  ASSUME NEW S, NEW rows \in Seq(S), NEW n \in Nat, n = Len(rows),
         NEW a \in Nat, NEW pos \in Nat, a <= pos, pos < n
  PROVE  /\ SubSeq(rows, pos + 1, n) # <<>>
         /\ Append(SubSeq(rows, a + 1, pos), Head(SubSeq(rows, pos + 1, n)))
               = SubSeq(rows, a + 1, pos + 1)
         /\ Tail(SubSeq(rows, pos + 1, n)) = SubSeq(rows, (pos + 1) + 1, n)
<1>1. pos + 1 \in 1 .. n /\ n \in (pos + 1) .. n
  OBVIOUS
<1>2. PICK m \in 1 .. Len(rows) : m = pos + 1
  BY <1>1
<1>8. PICK l \in m .. Len(rows) : l = n
  BY <1>1, <1>2
<1>3. /\ Head(SubSeq(rows, m, l)) = rows[m]
      /\ Tail(SubSeq(rows, m, l)) = SubSeq(rows, m + 1, l)
  BY HeadTailOfSubSeq
<1>4. \A i \in 1 .. n : rows[i] \in S
  BY ElementOfSeq
<1>5. SubSeq(rows, pos + 1, n) # <<>>
  BY RestLeft
<1>6. Append(SubSeq(rows, a + 1, pos), rows[pos + 1]) = SubSeq(rows, a + 1, pos + 1)
  <2>0. a + 1 \in 1 .. n /\ pos + 1 \in (a + 1) .. n
    OBVIOUS
  <2>1. PICK u \in 1 .. Len(rows) : u = a + 1
    BY <2>0
  <2>7. PICK v \in u .. Len(rows) : v = pos + 1
    BY <2>0, <2>1
  <2>2. SubSeq(rows, u, v) = SubSeq(rows, u, v - 1) \o <<rows[v]>>
    BY SubSeqRecursiveSecond
  <2>3. SubSeq(rows, a + 1, pos) \in Seq(S) /\ rows[pos + 1] \in S
    <3>1. \A i \in (a + 1) .. pos : rows[i] \in S
      BY <1>4
    <3>2. QED
      BY <1>1, <1>4, <3>1, SubSeqProperties
  <2>4. Append(SubSeq(rows, a + 1, pos), rows[pos + 1]) = SubSeq(rows, a + 1, pos) \o <<rows[pos + 1]>>
    BY <2>3, AppendIsConcat
  <2>5. v - 1 = pos
    BY <2>7
  <2>6. QED
    BY <2>1, <2>2, <2>4, <2>5, <2>7
<1>7. QED
  BY <1>2, <1>3, <1>5, <1>6, <1>8

(* Part p + 1 of q is put.                                                  *)
Put(q, p, b) == IF p < Len(q) THEN [q EXCEPT ![p + 1] = b] ELSE Append(q, b)

(* One piece more, or again.                                                *)
LEMMA PutPiece ==
  ASSUME NEW q \in Seq(Seq(Row)), NEW rows \in Seq(Row), PiecesOf(q, rows),
         NEW p \in Nat, p <= Len(q), Start(p + 1) < Len(rows)
  PROVE  /\ PiecesOf(Put(q, p, Piece(rows, p + 1)), rows)
         /\ Len(Put(q, p, Piece(rows, p + 1))) \in Nat
         /\ Len(Put(q, p, Piece(rows, p + 1))) >= Len(q)
         /\ p + 1 <= Len(Put(q, p, Piece(rows, p + 1)))
         /\ Whole(q, rows) => Put(q, p, Piece(rows, p + 1)) = q
<1>a. PICK b : b = Piece(rows, p + 1)
  OBVIOUS
<1>b. PICK q2 : q2 = Put(q, p, Piece(rows, p + 1))
  OBVIOUS
<1>c. q2 = IF p < Len(q) THEN [q EXCEPT ![p + 1] = b] ELSE Append(q, b)
  BY <1>a, <1>b DEF Put
<1>1. PICK n \in Nat, l \in Nat : n = Len(q) /\ DOMAIN q = 1 .. n /\ l = Len(rows)
  BY LenProperties
<1>2. CASE p < n
  <2>1. p + 1 \in 1 .. n
    BY <1>2
  <2>2. q[p + 1] = b
    BY <1>1, <1>a, <2>1 DEF PiecesOf
  <2>3. q2 = q
    <3>1. q2 = [q EXCEPT ![p + 1] = b]
      BY <1>1, <1>2, <1>c
    <3>2. q = [i \in 1 .. n |-> q[i]]
      BY <1>1, LenProperties
    <3>3. QED
      BY <2>1, <2>2, <3>1, <3>2
  <2>4. n \in Nat /\ n >= n /\ p + 1 <= n
    BY <1>1, <2>1
  <2>5. QED
    BY <1>1, <1>b, <2>3, <2>4
<1>3. CASE ~(p < n)
  <2>1. p = n
    BY <1>1, <1>3
  <2>2. q2 = Append(q, b)
    BY <1>1, <1>3, <1>c
  <2>3. b \in Seq(Row)
    <3>1. \A i \in 1 .. l : rows[i] \in Row
      BY <1>1, ElementOfSeq
    <3>2. PICK u \in Nat, v \in Nat : u >= 1 /\ v <= l /\ b = SubSeq(rows, u, v)
      <4>1. p + 1 \in Nat \ {0}
        OBVIOUS
      <4>2. PICK h \in Nat, c \in Nat : h = Start(p + 1) /\ c = Cap
        BY <4>1, StartFacts, ConstantsFacts
      <4>3. b = SubSeq(rows, h + 1, IF h + c <= l THEN h + c ELSE l)
        BY <1>1, <1>a, <4>2 DEF Piece
      <4>4. PICK v \in Nat : v = (IF h + c <= l THEN h + c ELSE l) /\ v <= l
        OBVIOUS
      <4>5. PICK u \in Nat : u = h + 1 /\ u >= 1
        OBVIOUS
      <4>6. b = SubSeq(rows, u, v)
        BY <4>3, <4>4, <4>5
      <4>7. QED
        BY <4>4, <4>5, <4>6
    <3>3. \A i \in u .. v : rows[i] \in Row
      BY <3>1, <3>2
    <3>4. u \in Int /\ v \in Int
      OBVIOUS
    <3>5. SubSeq(rows, u, v) \in Seq(Row)
      BY <3>3, <3>4, SubSeqProperties
    <3>6. QED
      BY <3>2, <3>5
  <2>4. /\ Len(q2) = n + 1 /\ DOMAIN q2 = 1 .. n + 1
        /\ \A i \in 1 .. n : q2[i] = q[i]
        /\ q2[n + 1] = b
    <3>1. /\ Append(q, b) \in Seq(Seq(Row)) /\ Len(Append(q, b)) = n + 1
          /\ \A i \in 1 .. n : Append(q, b)[i] = q[i]
          /\ Append(q, b)[n + 1] = b
      BY <1>1, <2>3, AppendProperties
    <3>2. DOMAIN Append(q, b) = 1 .. n + 1
      BY <3>1, LenProperties
    <3>3. QED
      BY <2>2, <3>1, <3>2
  <2>5. PiecesOf(q2, rows)
    <3> SUFFICES ASSUME NEW i \in 1 .. n + 1
                 PROVE  Start(i) < Len(rows) /\ q2[i] = Piece(rows, i)
      BY <2>4 DEF PiecesOf
    <3>1. CASE i = n + 1
      BY <1>a, <3>1, <2>1, <2>4
    <3>2. CASE i # n + 1
      <4>1. i \in 1 .. n
        BY <3>2
      <4>2. QED
        BY <4>1, <1>1, <2>4 DEF PiecesOf
    <3>3. QED
      BY <3>1, <3>2
  <2>6. ~ Whole(q, rows)
    <3>1. Start(p + 1) \in Nat
      BY StartFacts
    <3>2. QED
      BY <1>1, <2>1, <3>1 DEF Whole
  <2>7. QED
    BY <1>1, <1>b, <2>1, <2>4, <2>5, <2>6
<1>4. QED
  BY <1>2, <1>3

(* More parts of the same rows.                                             *)
LEMMA DrawnGrows ==
  ASSUME NEW q \in Seq(Seq(Row)), NEW q2 \in Seq(Seq(Row)), NEW rows \in Seq(Row),
         PiecesOf(q2, rows), Len(q2) >= Len(q)
  PROVE  /\ Whole(q, rows) => Whole(q2, rows)
         /\ \A e \in Attempt : Drawn(e, q, rows) => Drawn(e, q2, rows)
<1>1. PICK n \in Nat, m \in Nat, l \in Nat :
        n = Len(q) /\ m = Len(q2) /\ l = Len(rows) /\ n <= m
  BY LenProperties
<1>2. Start(n + 1) \in Nat /\ Start(m + 1) \in Nat /\ Start(n + 1) <= Start(m + 1)
  <2>1. n + 1 \in Nat \ {0} /\ m + 1 \in Nat \ {0} /\ n + 1 <= m + 1
    BY <1>1
  <2>2. QED
    BY <2>1, StartFacts
<1>3. Whole(q, rows) => Whole(q2, rows)
  BY <1>1, <1>2 DEF Whole
<1>4. ASSUME NEW e \in Attempt, Drawn(e, q, rows) PROVE Drawn(e, q2, rows)
  <2>1. CASE e.closed
    BY <1>3, <1>4, <2>1 DEF Drawn
  <2>2. CASE ~e.closed
    <3>1. e.part \in Nat /\ Draws(e.buf, e.feed, e.part, rows) /\ e.part <= n
      BY <1>1, <1>4, <2>2 DEF Drawn, Attempt
    <3>2. e.part <= Len(q2)
      BY <1>1, <3>1
    <3>3. QED
      BY <2>2, <3>1, <3>2 DEF Drawn
  <2>3. QED
    BY <2>1, <2>2
<1>5. QED
  BY <1>3, <1>4

(* The next row goes into the buffer, which may be a part then.             *)
LEMMA DrawsOn ==
  ASSUME NEW buf \in Seq(Row), NEW feed \in Seq(Row), NEW part \in Nat, NEW rows \in Seq(Row),
         Draws(buf, feed, part, rows), feed # <<>>, Len(buf) < Cap,
         NEW b, b = Append(buf, Head(feed))
  PROVE  /\ ~(Len(b) >= Cap) => Draws(b, Tail(feed), part, rows)
         /\ Len(b) >= Cap => /\ b = Piece(rows, part + 1) /\ Start(part + 1) < Len(rows)
                             /\ Draws(<<>>, Tail(feed), part + 1, rows)
<1>1. PICK n \in Nat, a \in Nat, l \in Nat, c \in Nat \ {0} :
        n = Len(rows) /\ a = Start(part + 1) /\ l = Len(buf) /\ c = Cap
  <2>0. part + 1 \in Nat \ {0}
    OBVIOUS
  <2>1. Start(part + 1) \in Nat
    BY <2>0, StartFacts
  <2>2. QED
    BY <2>1, LenProperties, ConstantsFacts
<1>2. PICK pos \in Nat : pos = a + l
  OBVIOUS
<1>3. /\ pos <= n /\ a <= pos
      /\ buf = SubSeq(rows, a + 1, pos) /\ feed = SubSeq(rows, pos + 1, n)
  <2>1. Start(part + 1) + Len(buf) = pos /\ Len(rows) = n /\ Start(part + 1) = a
    BY <1>1, <1>2
  <2>2. /\ pos <= n
        /\ buf = SubSeq(rows, a + 1, pos) /\ feed = SubSeq(rows, pos + 1, n)
    BY <2>1 DEF Draws
  <2>3. QED
    BY <1>2, <2>2
<1>4. pos < n
  <2>1. pos = n => SubSeq(rows, pos + 1, n) = <<>>
    <3>1. ASSUME pos = n PROVE SubSeq(rows, pos + 1, n) = <<>>
      <4>1. pos + 1 \in Int /\ n \in Int /\ n < pos + 1
        BY <3>1
      <4>2. QED
        BY <4>1, SubSeqEmpty
    <3>2. QED
      BY <3>1
  <2>2. QED
    BY <1>3, <2>1
<1>5. /\ Append(SubSeq(rows, a + 1, pos), Head(SubSeq(rows, pos + 1, n)))
            = SubSeq(rows, a + 1, pos + 1)
      /\ Tail(SubSeq(rows, pos + 1, n)) = SubSeq(rows, (pos + 1) + 1, n)
  <2>1. n = Len(rows) /\ a <= pos /\ pos < n
    BY <1>1, <1>3, <1>4
  <2>2. /\ SubSeq(rows, pos + 1, n) # <<>>
        /\ Append(SubSeq(rows, a + 1, pos), Head(SubSeq(rows, pos + 1, n)))
              = SubSeq(rows, a + 1, pos + 1)
        /\ Tail(SubSeq(rows, pos + 1, n)) = SubSeq(rows, (pos + 1) + 1, n)
    BY <2>1, ReadOn
  <2>3. QED
    BY <2>2
<1>6. b = SubSeq(rows, a + 1, pos + 1) /\ Tail(feed) = SubSeq(rows, (pos + 1) + 1, n)
  BY <1>3, <1>5
<1>7. Len(b) = l + 1
  <2>1. Head(feed) \in Row
    BY HeadTailProperties
  <2>2. QED
    BY <1>1, <2>1, AppendProperties
<1>8. ASSUME ~(Len(b) >= Cap) PROVE Draws(b, Tail(feed), part, rows)
  <2>1. Start(part + 1) + Len(b) = pos + 1 /\ pos + 1 <= n
    BY <1>1, <1>2, <1>4, <1>7
  <2>2. QED
    BY <1>1, <1>6, <2>1 DEF Draws
<1>9. ASSUME Len(b) >= Cap
      PROVE  /\ b = Piece(rows, part + 1) /\ Start(part + 1) < Len(rows)
             /\ Draws(<<>>, Tail(feed), part + 1, rows)
  <2>1. l + 1 = c /\ a + c = pos + 1 /\ a + c <= n /\ a < n
    <3>1. l + 1 >= c /\ l < c
      BY <1>1, <1>7, <1>9
    <3>2. QED
      BY <3>1, <1>2, <1>4
  <2>2. Piece(rows, part + 1) = SubSeq(rows, a + 1, a + c)
    BY <1>1, <2>1 DEF Piece
  <2>3. Start((part + 1) + 1) = pos + 1
    <3>1. part + 1 \in Nat \ {0}
      OBVIOUS
    <3>2. Start((part + 1) + 1) = Start(part + 1) + Cap
      BY <3>1, StartFacts
    <3>3. QED
      BY <1>1, <2>1, <3>2
  <2>4. SubSeq(rows, (pos + 1) + 1, pos + 1) = <<>>
    <3>1. (pos + 1) + 1 \in Int /\ pos + 1 \in Int /\ pos + 1 < (pos + 1) + 1
      OBVIOUS
    <3>2. QED
      BY <3>1, SubSeqEmpty
  <2>5. (pos + 1) + Len(<<>>) = pos + 1 /\ pos + 1 <= n
    BY <1>4, EmptySeq
  <2>6. Draws(<<>>, Tail(feed), part + 1, rows)
    BY <1>1, <1>6, <2>3, <2>4, <2>5 DEF Draws
  <2>7. QED
    BY <1>1, <1>6, <2>1, <2>2, <2>6
<1>10. QED
  BY <1>8, <1>9

(* At the end of its input the rest is the last part.                       *)
LEMMA DrawsLast ==
  ASSUME NEW buf \in Seq(Row), NEW part \in Nat, NEW rows \in Seq(Row),
         Draws(buf, <<>>, part, rows), Len(buf) < Cap
  PROVE  /\ buf = <<>> => Len(rows) <= Start(part + 1)
         /\ buf # <<>> => /\ buf = Piece(rows, part + 1) /\ Start(part + 1) < Len(rows)
                          /\ Len(rows) <= Start((part + 1) + 1)
<1>1. PICK n \in Nat, a \in Nat, l \in Nat, c \in Nat \ {0} :
        n = Len(rows) /\ a = Start(part + 1) /\ l = Len(buf) /\ c = Cap
  <2>0. part + 1 \in Nat \ {0}
    OBVIOUS
  <2>1. Start(part + 1) \in Nat
    BY <2>0, StartFacts
  <2>2. QED
    BY <2>1, LenProperties, ConstantsFacts
<1>2. PICK pos \in Nat : pos = a + l
  OBVIOUS
<1>3. /\ pos <= n /\ a <= pos
      /\ buf = SubSeq(rows, a + 1, pos) /\ <<>> = SubSeq(rows, pos + 1, n)
  <2>1. Start(part + 1) + Len(buf) = pos /\ Len(rows) = n /\ Start(part + 1) = a
    BY <1>1, <1>2
  <2>2. /\ pos <= n
        /\ buf = SubSeq(rows, a + 1, pos) /\ <<>> = SubSeq(rows, pos + 1, n)
    BY <2>1 DEF Draws
  <2>3. QED
    BY <1>2, <2>2
<1>4. pos = n
  <2>1. ASSUME pos < n PROVE FALSE
    <3>1. SubSeq(rows, pos + 1, n) # <<>>
      BY <1>1, <2>1, RestLeft
    <3>2. QED
      BY <1>3, <3>1
  <2>2. QED
    BY <1>3, <2>1
<1>5. Start((part + 1) + 1) = a + c
  <2>1. part + 1 \in Nat \ {0}
    OBVIOUS
  <2>2. Start((part + 1) + 1) = Start(part + 1) + Cap
    BY <2>1, StartFacts
  <2>3. QED
    BY <1>1, <2>2
<1>6. CASE buf = <<>>
  <2>1. l = 0
    BY <1>1, <1>6, EmptySeq
  <2>2. QED
    BY <1>1, <1>2, <1>4, <1>6, <2>1
<1>7. CASE buf # <<>>
  <2>1. l > 0 /\ l < c
    BY <1>1, <1>7, EmptySeq
  <2>2. a < n /\ n < a + c
    BY <1>2, <1>4, <2>1
  <2>3. Piece(rows, part + 1) = SubSeq(rows, a + 1, n)
    <3>1. (IF Start(part + 1) + Cap <= Len(rows) THEN Start(part + 1) + Cap ELSE Len(rows)) = n
      BY <1>1, <2>2
    <3>2. QED
      BY <1>1, <3>1 DEF Piece
  <2>4. buf = Piece(rows, part + 1)
    BY <1>3, <1>4, <2>3
  <2>5. Start(part + 1) < Len(rows) /\ Len(rows) <= Start((part + 1) + 1)
    BY <1>1, <1>5, <2>2
  <2>6. QED
    BY <1>7, <2>4, <2>5
<1>8. QED
  BY <1>6, <1>7

LEMMA WholeBy ==
  ASSUME NEW q \in Seq(Seq(Row)), NEW rows \in Seq(Row), PiecesOf(q, rows),
         NEW p \in Nat, p <= Len(q), Len(rows) <= Start(p + 1)
  PROVE  Whole(q, rows)
<1>1. PICK n \in Nat, l \in Nat : n = Len(q) /\ l = Len(rows)
  BY LenProperties
<1>2. p + 1 \in Nat \ {0} /\ n + 1 \in Nat \ {0} /\ p + 1 <= n + 1
  BY <1>1
<1>3. Start(p + 1) \in Nat /\ Start(n + 1) \in Nat /\ Start(p + 1) <= Start(n + 1)
  BY <1>2, StartFacts
<1>4. QED
  BY <1>1, <1>3 DEF Whole

LEMMA DrawsFirst ==
  ASSUME NEW rows \in Seq(Row)
  PROVE  Draws(<<>>, rows, 0, rows)
<1>1. Start(0 + 1) = 0 /\ Len(<<>>) = 0
  BY StartFacts, EmptySeq
<1>2. SubSeq(rows, 1, Len(rows)) = rows
  BY SubSeqFull
<1>3. SubSeq(rows, 1, 0) = <<>>
  BY SubSeqEmpty
<1>4. Len(rows) \in Nat
  BY LenProperties
<1>5. QED
  BY <1>1, <1>2, <1>3, <1>4 DEF Draws

-----------------------------------------------------------------------------
(* What is settled.                                                         *)

(* Settled, of a set of stages found changed.                               *)
SettledIn(m) ==
    CHOOSE f : f = [s \in 0 .. Len(Reads) |->
                       s = 0 \/ (f[Reads[s]] /\ (Target[s] = 0 \/ Reads[s] \notin m))]
Steady(s, m) == Target[s] = 0 \/ Reads[s] \notin m

(* f is Settled for the stages up to n.                                     *)
Settles(f, m, n) ==
    /\ f \in [0 .. n -> BOOLEAN]
    /\ f[0]
    /\ \A s \in 1 .. n : f[s] <=> (f[Reads[s]] /\ Steady(s, m))

LEMMA SettlesExists ==
  ASSUME NEW m
  PROVE  \A n \in Nat : n <= Len(Reads) => \E f : Settles(f, m, n)
<1> DEFINE N == {n \in Nat : n <= Len(Reads) => \E f : Settles(f, m, n)}
<1>0. PICK l \in Nat : l = Len(Reads) /\ Stage = 1 .. l
  BY ConstantsFacts
<1>1. 0 \in N
  <2>1. Settles([s \in 0 .. 0 |-> TRUE], m, 0)
    BY DEF Settles
  <2>2. QED
    BY <2>1
<1>2. ASSUME NEW n \in Nat, n \in N PROVE n + 1 \in N
  <2> SUFFICES ASSUME n + 1 <= l PROVE \E f : Settles(f, m, n + 1)
    BY <1>0
  <2>1. PICK f : Settles(f, m, n)
    BY <1>0, <1>2
  <2>2. PICK g : g = [s \in 0 .. n + 1 |->
                        IF s = n + 1 THEN f[Reads[n + 1]] /\ Steady(n + 1, m) ELSE f[s]]
    OBVIOUS
  <2>3. \A s \in 1 .. n + 1 : Reads[s] \in 0 .. n /\ Reads[s] < s
    <3> SUFFICES ASSUME NEW s \in 1 .. n + 1 PROVE Reads[s] \in 0 .. n /\ Reads[s] < s
      OBVIOUS
    <3>1. s \in Stage
      BY <1>0
    <3>2. Reads[s] \in Nat /\ Reads[s] < s
      BY <3>1, ConstantsFacts
    <3>3. QED
      BY <3>2
  <2>4. \A s \in 0 .. n : g[s] = f[s] /\ f[s] \in BOOLEAN
    BY <2>1, <2>2 DEF Settles
  <2>5. g[n + 1] <=> (f[Reads[n + 1]] /\ Steady(n + 1, m))
    <3>1. n + 1 \in 0 .. n + 1
      OBVIOUS
    <3>2. QED
      BY <2>2, <3>1
  <2>6. g \in [0 .. n + 1 -> BOOLEAN]
    <3>1. \A s \in 0 .. n + 1 : g[s] \in BOOLEAN
      <4> SUFFICES ASSUME NEW s \in 0 .. n + 1 PROVE g[s] \in BOOLEAN
        OBVIOUS
      <4>1. CASE s = n + 1
        <5>1. g[s] = (f[Reads[n + 1]] /\ Steady(n + 1, m))
          BY <2>2, <4>1, Zenon
        <5>2. (f[Reads[n + 1]] /\ Steady(n + 1, m)) \in BOOLEAN
          OBVIOUS
        <5>3. QED
          BY <5>1, <5>2, Zenon
      <4>2. CASE s # n + 1
        <5>1. s \in 0 .. n
          BY <4>2
        <5>2. QED
          BY <2>4, <5>1, Zenon
      <4>3. QED
        BY <4>1, <4>2
    <3>2. QED
      BY <2>2, <3>1, Zenon
  <2>7. g[0]
    <3>1. 0 \in 0 .. n
      OBVIOUS
    <3>2. f[0] /\ g[0] = f[0]
      BY <2>1, <2>4, <3>1, Zenon DEF Settles
    <3>3. QED
      BY <3>2, Zenon
  <2>8. ASSUME NEW s \in 1 .. n + 1 PROVE g[s] <=> (g[Reads[s]] /\ Steady(s, m))
    <3>1. Reads[s] \in 0 .. n
      BY <2>3
    <3>2. g[Reads[s]] = f[Reads[s]]
      BY <2>4, <3>1, Zenon
    <3>3. CASE s = n + 1
      BY <2>5, <3>2, <3>3, Zenon
    <3>4. CASE s # n + 1
      <4>1. s \in 1 .. n /\ s \in 0 .. n
        BY <3>4
      <4>2. f[s] <=> (f[Reads[s]] /\ Steady(s, m))
        BY <2>1, <4>1, Zenon DEF Settles
      <4>3. g[s] = f[s]
        BY <2>4, <4>1, Zenon
      <4>4. QED
        BY <3>2, <4>2, <4>3, Zenon
    <3>5. QED
      BY <3>3, <3>4
  <2>9. Settles(g, m, n + 1)
    BY <2>6, <2>7, <2>8, Zenon DEF Settles
  <2>10. QED
    BY <2>9, Zenon
<1>3. Nat \subseteq N
  <2> HIDE DEF N
  <2>1. QED
    BY <1>1, <1>2, Induct
<1>4. QED
  BY <1>3

LEMMA SettledSettles ==
  ASSUME NEW m, NEW l \in Nat, l = Len(Reads)
  PROVE  Settles(SettledIn(m), m, l)
<1>0. Stage = 1 .. l
  BY ConstantsFacts
<1>1. PICK f : Settles(f, m, l)
  <2>1. \A n \in Nat : n <= Len(Reads) => \E f : Settles(f, m, n)
    BY SettlesExists
  <2>2. l \in Nat /\ l <= Len(Reads)
    BY <1>0
  <2>3. QED
    BY <2>1, <2>2
<1> DEFINE G(g) == [s \in 0 .. Len(Reads) |->
                       s = 0 \/ (g[Reads[s]] /\ (Target[s] = 0 \/ Reads[s] \notin m))]
<1>2. f = G(f)
  <2>1. \A s \in 0 .. l : f[s] = (s = 0 \/ (f[Reads[s]] /\ (Target[s] = 0 \/ Reads[s] \notin m)))
    <3> SUFFICES ASSUME NEW s \in 0 .. l
                 PROVE  f[s] = (s = 0 \/ (f[Reads[s]] /\ (Target[s] = 0 \/ Reads[s] \notin m)))
      OBVIOUS
    <3>1. f[s] \in BOOLEAN
      BY <1>1 DEF Settles
    <3>2. f[s] <=> (s = 0 \/ (f[Reads[s]] /\ (Target[s] = 0 \/ Reads[s] \notin m)))
      <4>1. CASE s = 0
        <5>1. f[0]
          BY <1>1, Zenon DEF Settles
        <5>2. QED
          BY <4>1, <5>1, Zenon
      <4>2. CASE s # 0
        <5>1. s \in 1 .. l
          BY <4>2
        <5>2. f[s] <=> (f[Reads[s]] /\ Steady(s, m))
          BY <1>1, <5>1, Zenon DEF Settles
        <5>3. QED
          BY <4>2, <5>2, Zenon DEF Steady
      <4>3. QED
        BY <4>1, <4>2
    <3>3. QED
      BY <3>1, <3>2, Zenon
  <2>2. f = [s \in 0 .. l |-> f[s]]
    BY <1>1, Zenon DEF Settles
  <2>3. QED
    BY <1>0, <2>1, <2>2, Zenon
<1>3. SettledIn(m) = G(SettledIn(m))
  <2>1. SettledIn(m) = CHOOSE g : g = G(g)
    BY DEF SettledIn
  <2>2. \E g : g = G(g)
    BY <1>2
  <2> HIDE DEF G
  <2>3. QED
    BY <2>1, <2>2, Zenon
<1>4. PICK h : h = SettledIn(m)
  OBVIOUS
<1>5. h = G(h)
  BY <1>3, <1>4
<1>6. h = [s \in 0 .. l |-> s = 0 \/ (h[Reads[s]] /\ Steady(s, m))]
  BY <1>5, Zenon DEF Steady
<1>7. ASSUME NEW s \in 0 .. l PROVE h[s] = (s = 0 \/ (h[Reads[s]] /\ Steady(s, m)))
  BY <1>6, Zenon
<1>8. h \in [0 .. l -> BOOLEAN]
  <2>1. \A s \in 0 .. l : (s = 0 \/ (h[Reads[s]] /\ Steady(s, m))) \in BOOLEAN
    OBVIOUS
  <2>2. \A s \in 0 .. l : h[s] \in BOOLEAN
    BY <1>7, <2>1, Zenon
  <2>3. QED
    BY <1>6, <2>2, Zenon
<1>9. h[0]
  <2>1. 0 \in 0 .. l
    OBVIOUS
  <2>2. QED
    BY <1>7, <2>1, Zenon
<1>10. ASSUME NEW s \in 1 .. l PROVE h[s] <=> (h[Reads[s]] /\ Steady(s, m))
  <2>1. s \in 0 .. l /\ s # 0
    OBVIOUS
  <2>2. QED
    BY <1>7, <2>1, Zenon
<1>11. QED
  BY <1>4, <1>8, <1>9, <1>10, Zenon DEF Settles

(* What is settled reads what is settled, and was so before.                *)
LEMMA SettledInFacts ==
  ASSUME NEW m, NEW s \in Stage, SettledIn(m)[s]
  PROVE  /\ Reads[s] # 0 => SettledIn(m)[Reads[s]]
         /\ Target[s] > 0 => Reads[s] \notin m
<1>1. PICK l \in Nat : l = Len(Reads) /\ Stage = 1 .. l
  BY ConstantsFacts
<1>2. PICK h : h = SettledIn(m)
  OBVIOUS
<1>3. Settles(h, m, l)
  BY <1>1, <1>2, SettledSettles
<1>4. h[s] <=> (h[Reads[s]] /\ Steady(s, m))
  BY <1>1, <1>3, Zenon DEF Settles
<1>5. h[Reads[s]] /\ Steady(s, m)
  BY <1>2, <1>4, Zenon
<1>6. Target[s] > 0 => Target[s] # 0
  BY ConstantsFacts
<1>7. QED
  BY <1>2, <1>5, <1>6, Zenon DEF Steady

LEMMA SettledInShrinks ==
  ASSUME NEW m, NEW m2, m \subseteq m2
  PROVE  \A s \in Stage : SettledIn(m2)[s] => SettledIn(m)[s]
<1>1. PICK l \in Nat : l = Len(Reads) /\ Stage = 1 .. l
  BY ConstantsFacts
<1>2. PICK h, h2 : h = SettledIn(m) /\ h2 = SettledIn(m2)
  OBVIOUS
<1>3. Settles(h, m, l)
  BY <1>1, <1>2, SettledSettles
<1>4. Settles(h2, m2, l)
  BY <1>1, <1>2, SettledSettles
<1> DEFINE N == {n \in Nat : \A s \in 0 .. n : s <= l => (h2[s] => h[s])}
<1>5. 0 \in N
  <2>1. h[0]
    BY <1>3, Zenon DEF Settles
  <2>2. \A s \in 0 .. 0 : s = 0
    OBVIOUS
  <2>3. QED
    BY <2>1, <2>2
<1>6. ASSUME NEW n \in Nat, n \in N PROVE n + 1 \in N
  <2> SUFFICES ASSUME NEW s \in 0 .. n + 1, s <= l, h2[s] PROVE h[s]
    OBVIOUS
  <2>1. CASE s \in 0 .. n
    BY <1>6, <2>1
  <2>2. CASE s \notin 0 .. n
    <3>1. s \in 1 .. l /\ s = n + 1 /\ s \in Stage
      BY <1>1, <2>2
    <3>2. Reads[s] \in 0 .. n /\ Reads[s] <= l
      <4>1. Reads[s] \in Nat /\ Reads[s] < s
        BY <3>1, ConstantsFacts
      <4>2. QED
        BY <3>1, <4>1, <1>1
    <3>3. h2[Reads[s]] /\ Steady(s, m2)
      BY <1>4, <3>1, Zenon DEF Settles
    <3>4. h[Reads[s]]
      BY <1>6, <3>2, <3>3, Zenon
    <3>5. Steady(s, m)
      BY <3>3 DEF Steady
    <3>6. QED
      BY <1>3, <3>1, <3>4, <3>5, Zenon DEF Settles
  <2>3. QED
    BY <2>1, <2>2
<1>7. Nat \subseteq N
  <2> HIDE DEF N
  <2>1. QED
    BY <1>5, <1>6, Induct
<1>8. ASSUME NEW s \in Stage, h2[s] PROVE h[s]
  <2>1. l \in N /\ s \in 0 .. l /\ s <= l
    BY <1>1, <1>7
  <2>2. QED
    BY <1>8, <2>1, Zenon
<1>9. QED
  BY <1>2, <1>8, Zenon

(* Of the state.                                                            *)
LEMMA SettledFacts ==
  ASSUME moved \subseteq moved'
  PROVE  \A s \in Stage :
            /\ Settled'[s] => Settled[s]
            /\ Settled[s] => /\ Reads[s] # 0 => Settled[Reads[s]]
                             /\ Target[s] > 0 => Reads[s] \notin moved
            /\ Settled'[s] => (Target[s] > 0 => Reads[s] \notin moved')
<1>1. Settled = SettledIn(moved) /\ Settled' = SettledIn(moved')
  BY DEF Settled, SettledIn
<1>2. PICK m, m2 : m = moved /\ m2 = moved' /\ m \subseteq m2
  OBVIOUS
<1>3. \A s \in Stage : SettledIn(m2)[s] => SettledIn(m)[s]
  BY <1>2, SettledInShrinks
<1>4. \A s \in Stage : SettledIn(m)[s] =>
        /\ Reads[s] # 0 => SettledIn(m)[Reads[s]]
        /\ Target[s] > 0 => Reads[s] \notin m
  BY SettledInFacts
<1>5. \A s \in Stage : SettledIn(m2)[s] => (Target[s] > 0 => Reads[s] \notin m2)
  BY SettledInFacts
<1>6. QED
  BY <1>1, <1>2, <1>3, <1>4, <1>5, Zenon

-----------------------------------------------------------------------------
(* What is planned of a chunk, and what it reads.                           *)

(* The chunk of an id has these members, or is the part of one of them.     *)
Named(chunks, id, members) ==
    \E c \in ToSet(chunks) :
       \/ id = c.id /\ members = c.members
       \/ \E j \in DOMAIN c.members : id = Append(c.id, j - 1) /\ members = <<c.members[j]>>

IsPlanned(s, id, members) ==
    IF Target[s] = 0 THEN members = <<id>> ELSE Named(Chunks(s), id, members)

(* What a task reads is there, and done.                                    *)
Ready(s, members) ==
    /\ Sourced(s, members)
    /\ Reads[s] # 0 => \A m \in ToSet(members) : <<Reads[s], m>> \in results

Frozen == \A k \in results : Settled[k[1]] => parts'[k] = parts[k]

LEMMA NamedUnique ==
  ASSUME NEW chunks, \A i \in DOMAIN chunks : i \in Nat /\ chunks[i].id = <<i - 1>>,
         \A i \in DOMAIN chunks : chunks[i].members \in Seq(Id),
         NEW id, NEW a, NEW b, Named(chunks, id, a), Named(chunks, id, b)
  PROVE  a = b
<1> DEFINE Here(i, m) == id = <<i - 1>> /\ m = chunks[i].members
           Part(i, j, m) == id = <<i - 1, j - 1>> /\ m = <<chunks[i].members[j]>>
<1>1. ASSUME NEW m, Named(chunks, id, m)
      PROVE  \E i \in DOMAIN chunks : Here(i, m) \/ \E j \in DOMAIN chunks[i].members : Part(i, j, m)
  <2>1. PICK i \in DOMAIN chunks :
          \/ id = chunks[i].id /\ m = chunks[i].members
          \/ \E j \in DOMAIN chunks[i].members :
                id = Append(chunks[i].id, j - 1) /\ m = <<chunks[i].members[j]>>
    BY <1>1 DEF Named, ToSet
  <2>2. \A j : Append(<<i - 1>>, j - 1) = <<i - 1, j - 1>>
    BY AppendToOne
  <2>3. QED
    BY <2>1, <2>2
<1>2. PICK i \in DOMAIN chunks : Here(i, a) \/ \E j \in DOMAIN chunks[i].members : Part(i, j, a)
  BY <1>1
<1>3. PICK h \in DOMAIN chunks : Here(h, b) \/ \E j \in DOMAIN chunks[h].members : Part(h, j, b)
  BY <1>1
<1>4. i \in Nat /\ h \in Nat
  OBVIOUS
<1>5. \A x, y : Len(<<x>>) = 1 /\ Len(<<x, y>>) = 2
  OBVIOUS
<1>6. CASE Here(i, a)
  <2>1. Here(h, b)
    BY <1>3, <1>5, <1>6
  <2>2. i - 1 = h - 1
    BY <1>6, <2>1
  <2>3. i = h
    BY <1>4, <2>2
  <2>4. QED
    BY <1>6, <2>1, <2>3
<1>7. CASE \E j \in DOMAIN chunks[i].members : Part(i, j, a)
  <2>1. PICK j \in DOMAIN chunks[i].members : Part(i, j, a)
    BY <1>7
  <2>2. PICK l \in DOMAIN chunks[h].members : Part(h, l, b)
    BY <1>3, <1>5, <2>1
  <2>3. i - 1 = h - 1 /\ j - 1 = l - 1
    BY <2>1, <2>2
  <2>4. j \in Nat /\ l \in Nat
    BY LenProperties
  <2>5. i = h /\ j = l
    BY <1>4, <2>3, <2>4
  <2>6. QED
    BY <2>1, <2>2, <2>5
<1>8. QED
  BY <1>2, <1>6, <1>7

(* Packed chunks are numbered. *)
LEMMA PackedIds ==
  ASSUME Tables, NEW s \in Stage, Target[s] # 0
  PROVE  /\ \A i \in DOMAIN Chunks(s) : i \in Nat /\ Chunks(s)[i].id = <<i - 1>>
         /\ \A i \in DOMAIN Chunks(s) : Chunks(s)[i].members \in Seq(Id)
         /\ Chunks(s) # <<>> => UpstreamChunks(s) # <<>>
<1>1. PICK up \in Seq(Chunk) : up = UpstreamChunks(s)
  BY UpstreamType
<1>2. up \in Seq([id : Id, weight : Weight])
  BY DEF Chunk
<1>3. PICK chunks : chunks = Chunks(s)
  OBVIOUS
<1>4. chunks = Pack(up, Target[s])
  <2>1. Target[s] > 0
    BY ConstantsFacts
  <2>2. QED
    BY <1>1, <1>3, <2>1 DEF Chunks
<1>5. /\ chunks \in Seq(Bundle(Id))
      /\ \A i \in DOMAIN chunks : chunks[i].id = <<i - 1>>
      /\ Len(chunks) <= Len(up)
  <2>1. /\ Pack(up, Target[s]) \in Seq(Bundle(Id))
        /\ \A i \in DOMAIN Pack(up, Target[s]) : Pack(up, Target[s])[i].id = <<i - 1>>
        /\ Len(Pack(up, Target[s])) <= Len(up)
    <3>1. PICK I, target : I = Id /\ target = Target[s]
      OBVIOUS
    <3>2. PICK q \in Seq([id : I, weight : Weight]) : q = up
      BY <1>2, <3>1
    <3>3. /\ Pack(q, target) \in Seq(Bundle(I))
          /\ \A i \in DOMAIN Pack(q, target) :
               /\ Pack(q, target)[i].id = <<i - 1>>
               /\ Pack(q, target)[i].members # <<>>
               /\ Pack(q, target)[i].weight >= Len(Pack(q, target)[i].members)
          /\ Len(Pack(q, target)) <= Len(q)
          /\ FlattenSeq(Members(Pack(q, target))) = Ids(q)
      BY PackKeeps
    <3>4. QED
      BY <3>1, <3>2, <3>3
  <2>2. QED
    BY <1>4, <2>1
<1>6. \A i \in DOMAIN chunks : i \in Nat /\ chunks[i] \in Bundle(Id)
  BY <1>5, ElementOfSeq, LenProperties
<1>7. \A i \in DOMAIN chunks : chunks[i].members \in Seq(Id)
  BY <1>6 DEF Bundle
<1>8. chunks # <<>> => up # <<>>
  BY <1>5, LenProperties, EmptySeq
<1>9. QED
  BY <1>1, <1>3, <1>5, <1>6, <1>7, <1>8

LEMMA PlannedUnique ==
  ASSUME Tables, NEW s \in Stage, NEW id, NEW a, NEW b, IsPlanned(s, id, a), IsPlanned(s, id, b)
  PROVE  a = b
<1>1. CASE Target[s] = 0
  BY <1>1 DEF IsPlanned
<1>2. CASE Target[s] # 0
  <2>1. PICK chunks : chunks = Chunks(s)
    OBVIOUS
  <2>2. /\ \A i \in DOMAIN chunks : i \in Nat /\ chunks[i].id = <<i - 1>>
        /\ \A i \in DOMAIN chunks : chunks[i].members \in Seq(Id)
    BY <1>2, <2>1, PackedIds
  <2>3. Named(chunks, id, a) /\ Named(chunks, id, b)
    BY <1>2, <2>1 DEF IsPlanned
  <2>4. QED
    BY <2>2, <2>3, NamedUnique
<1>3. QED
  BY <1>1, <1>2

LEMMA ReadyStays ==
  ASSUME Tables, NEW s, NEW members, Ready(s, members), results \subseteq results',
         \/ source' = source
         \/ \E n \in Weights : source' = Append(source, n)
  PROVE  Ready(s, members)'
<1>1. Sourced(s, members)'
  BY SourcedStays DEF Ready
<1>2. QED
  BY <1>1 DEF Ready

(* What is ready reads the same after the step.                             *)
LEMMA InputStays ==
  ASSUME Tables, NEW s \in Stage, NEW members \in Seq(Id), Ready(s, members),
         Reads[s] # 0 => Settled[Reads[s]], Frozen,
         \/ source' = source
         \/ \E n \in Weights : source' = Append(source, n)
  PROVE  Input(s, members)' = Input(s, members)
<1> DEFINE F(i) == IF Reads[s] = 0 THEN MemberRows(members[i][1])
                   ELSE ChunkRows(<<Reads[s], members[i]>>)
<1>1. ASSUME NEW i \in DOMAIN members PROVE F(i)' = F(i)
  <2>1. PICK m : m = members[i] /\ m \in ToSet(members)
    BY DEF ToSet
  <2>2. CASE Reads[s] = 0
    <3>1. PICK n \in DOMAIN source : m = <<n>>
      BY <2>1, <2>2 DEF Ready, Sourced
    <3>2. source'[n] = source[n]
      <4>1. ASSUME NEW x \in Weights, source' = Append(source, x) PROVE source'[n] = source[n]
        <5>1. n \in 1 .. Len(source) /\ source \in Seq(Weights)
          BY LenProperties DEF Tables
        <5>2. Append(source, x)[n] = source[n]
          BY <5>1, AppendProperties
        <5>3. QED
          BY <4>1, <5>2
      <4>2. QED
        BY <4>1
    <3>3. m[1] = n
      BY <3>1
    <3>4. MemberRows(n)' = MemberRows(n)
      BY <3>2 DEF MemberRows
    <3>5. QED
      BY <2>1, <2>2, <3>3, <3>4 DEF MemberRows
  <2>3. CASE Reads[s] # 0
    <3>1. PICK k : k = <<Reads[s], m>>
      OBVIOUS
    <3>2. k \in results /\ k[1] = Reads[s]
      BY <2>1, <2>3, <3>1 DEF Ready
    <3>3. parts'[k] = parts[k]
      BY <2>3, <3>2 DEF Frozen
    <3>4. QED
      BY <2>1, <2>3, <3>1, <3>3 DEF ChunkRows
  <2>4. QED
    BY <2>2, <2>3
<1>2. Input(s, members) = FlattenSeq([i \in DOMAIN members |-> F(i)])
  BY DEF Input
<1>3. Input(s, members)' = FlattenSeq([i \in DOMAIN members |-> F(i)'])
  BY DEF Input, FlattenSeq
<1>4. [i \in DOMAIN members |-> F(i)'] = [i \in DOMAIN members |-> F(i)]
  <2> HIDE DEF F
  <2>1. QED
    BY <1>1
<1>5. QED
  BY <1>2, <1>3, <1>4

-----------------------------------------------------------------------------
(* What a step leaves as it is.                                             *)

(* Something of the stage s has been begun.                                 *)
Touched(s) ==
    \/ \E id \in Id : parts[<<s, id>>] # <<>> \/ <<s, id>> \in results
    \/ \E w \in Worker : exec[w] # Idle /\ exec[w].task.stage = s
    \/ stage = s /\ tasks # <<>>

(* Every chunk of a stage that is passed is marked done.                    *)
Passed ==
    \A u \in Stage : u < stage => \A c \in ToSet(manifest[u]) : <<u, c.id>> \in results

(* What is packed for a stage that has begun is done, while it is not found *)
(* changed.                                                                 *)
Fixed ==
    \A s \in Stage : Target[s] > 0 /\ Reads[s] # 0 /\ Reads[s] \notin moved /\ Touched(s) =>
        /\ manifest[Reads[s]] # <<>>
        /\ \A c \in ToSet(manifest[Reads[s]]) : <<Reads[s], c.id>> \in results

Planned ==
    \A t \in ToSet(tasks) : Ready(t.stage, t.members) /\ IsPlanned(t.stage, t.id, t.members)

Begun ==
    \A w \in Worker : exec[w] # Idle =>
       /\ Ready(exec[w].task.stage, exec[w].task.members)
       /\ Settled[exec[w].task.stage] =>
             IsPlanned(exec[w].task.stage, exec[w].task.id, exec[w].task.members)

LEMMA StepFacts ==
  ASSUME TypeInv, [Next]_vars
  PROVE  /\ moved \subseteq moved' /\ results \subseteq results'
         /\ \/ source' = source
            \/ \E n \in Weights : source' = Append(source, n)
<1>1. CASE StartRun
  BY <1>1 DEF StartRun, Plan
<1>2. CASE StageDone
  BY <1>2 DEF StageDone, Plan
<1>3. CASE RunCutShort
  BY <1>3 DEF RunCutShort
<1>4. CASE SourceGrows
  BY <1>4 DEF SourceGrows
<1>5. CASE Remediate
  BY <1>5 DEF Remediate
<1>6. ASSUME NEW w \in Worker, WorkerStep(w)
      PROVE moved \subseteq moved' /\ results \subseteq results' /\ source' = source
  BY <1>6 DEF WorkerStep, Begin, WriteRow, Finalize, Mark, Fail
<1>7. CASE UNCHANGED vars
  BY <1>7 DEF vars
<1>8. QED
  BY <1>1, <1>2, <1>3, <1>4, <1>5, <1>6, <1>7 DEF Next

(* A worker writes to the chunk it runs.                                    *)
LEMMA PutPartAt ==
  ASSUME parts \in [Key -> Seq(Seq(Row))], NEW k \in Key, NEW n, NEW rows
  PROVE  /\ \A j \in Key : j # k => PutPart(k, n, rows)[j] = parts[j]
         /\ PutPart(k, n, rows)[k] =
               IF n < Len(parts[k]) THEN [parts[k] EXCEPT ![n + 1] = rows] ELSE Append(parts[k], rows)
BY DEF PutPart

LEMMA WorkerFacts ==
  ASSUME TypeInv, NEW w \in Worker, WorkerStep(w)
  PROVE  /\ UNCHANGED <<source, manifest, stage, tasks, moved>>
         /\ \A k \in Key : parts'[k] # parts[k] => exec[w] # Idle /\ k = KeyOf(exec[w].task)
         /\ \A k \in results' : \/ k \in results
                                \/ exec[w] # Idle /\ exec[w].closed /\ k = KeyOf(exec[w].task)
         /\ \A v \in Worker : v # w => exec'[v] = exec[v]
         /\ exec'[w] # Idle => \/ Begin(w) /\ exec'[w].task \in ToSet(tasks)
                               \/ exec[w] # Idle /\ exec'[w].task = exec[w].task
<1>0. exec \in [Worker -> Attempt \cup {Idle}] /\ parts \in [Key -> Seq(Seq(Row))]
  BY DEF TypeInv, Attempts
<1>1. UNCHANGED <<source, manifest, stage, tasks, moved>>
  BY DEF WorkerStep, Begin, WriteRow, Finalize, Mark, Fail
<1>2. ASSUME NEW k \in Key, parts'[k] # parts[k] PROVE exec[w] # Idle /\ k = KeyOf(exec[w].task)
  <2>1. WriteRow(w) \/ Finalize(w)
    BY <1>2 DEF WorkerStep, Begin, Mark, Fail
  <2>2. exec[w] # Idle
    BY <2>1 DEF WriteRow, Finalize
  <2>3. PICK j, n : j = KeyOf(exec[w].task) /\ n = exec[w].part /\ j \in Key
    BY <2>2, AttemptType, TaskInKey
  <2>4. \E rows : parts' \in {parts, PutPart(j, n, rows)}
    <3>1. CASE WriteRow(w)
      BY <3>1, <2>3 DEF WriteRow, WritePart
    <3>2. CASE Finalize(w)
      BY <3>2, <2>3 DEF Finalize, WritePart
    <3>3. QED
      BY <2>1, <3>1, <3>2
  <2>5. PICK rows : parts' \in {parts, PutPart(j, n, rows)}
    BY <2>4
  <2>6. \A i \in Key : i # j => PutPart(j, n, rows)[i] = parts[i]
    BY <1>0, <2>3 DEF PutPart
  <2>7. QED
    BY <1>2, <2>2, <2>3, <2>5, <2>6
<1>3. ASSUME NEW k \in results', k \notin results
      PROVE  exec[w] # Idle /\ exec[w].closed /\ k = KeyOf(exec[w].task)
  BY <1>3 DEF WorkerStep, Begin, WriteRow, Finalize, Mark, Fail
<1>4. ASSUME NEW v \in Worker, v # w PROVE exec'[v] = exec[v]
  <2>1. CASE Begin(w)
    BY <1>0, <1>4, <2>1 DEF Begin
  <2>2. CASE WriteRow(w)
    BY <1>0, <1>4, <2>2 DEF WriteRow
  <2>3. CASE Finalize(w)
    BY <1>0, <1>4, <2>3 DEF Finalize
  <2>4. CASE Mark(w)
    BY <1>0, <1>4, <2>4 DEF Mark
  <2>5. CASE Fail(w)
    BY <1>0, <1>4, <2>5 DEF Fail
  <2>6. QED
    BY <2>1, <2>2, <2>3, <2>4, <2>5 DEF WorkerStep
<1>5. ASSUME exec'[w] # Idle
      PROVE  \/ Begin(w) /\ exec'[w].task \in ToSet(tasks)
             \/ exec[w] # Idle /\ exec'[w].task = exec[w].task
  <2>1. CASE Begin(w)
    <3>1. PICK t \in ToSet(tasks) :
            exec' = [exec EXCEPT ![w] = [task |-> t, feed |-> Input(t.stage, t.members),
                                         buf |-> <<>>, part |-> 0, closed |-> FALSE]]
      BY <2>1 DEF Begin
    <3>2. exec'[w] = [task |-> t, feed |-> Input(t.stage, t.members),
                      buf |-> <<>>, part |-> 0, closed |-> FALSE]
      BY <1>0, <3>1
    <3>3. exec'[w].task = t
      BY <3>2
    <3>4. QED
      BY <2>1, <3>3
  <2>2. CASE WriteRow(w) \/ Finalize(w)
    <3>1. exec[w] # Idle
      BY <2>2 DEF WriteRow, Finalize
    <3>2. PICK r \in Attempt : r = exec[w]
      BY <3>1, AttemptType
    <3>3. PICK feed, buf, part, closed :
            exec' = [exec EXCEPT ![w] = [exec[w] EXCEPT !.feed = feed, !.buf = buf,
                                                        !.part = part, !.closed = closed]]
      <4>1. CASE WriteRow(w)
        <5>1. PICK feed, buf, part :
                exec' = [exec EXCEPT ![w].feed = feed, ![w].buf = buf, ![w].part = part]
          BY <4>1 DEF WriteRow
        <5>2. exec' = [exec EXCEPT ![w] = [exec[w] EXCEPT !.feed = feed, !.buf = buf, !.part = part]]
          BY <5>1
        <5>3. [r EXCEPT !.feed = feed, !.buf = buf, !.part = part]
                = [r EXCEPT !.feed = feed, !.buf = buf, !.part = part, !.closed = r.closed]
          BY DEF Attempt
        <5>4. exec' = [exec EXCEPT ![w] = [exec[w] EXCEPT !.feed = feed, !.buf = buf,
                                                        !.part = part, !.closed = r.closed]]
          BY <3>2, <5>2, <5>3
        <5>5. QED
          BY <5>4
      <4>2. CASE Finalize(w)
        <5>1. exec' = [exec EXCEPT ![w].closed = TRUE, ![w].buf = <<>>]
          BY <4>2 DEF Finalize
        <5>2. exec' = [exec EXCEPT ![w] = [exec[w] EXCEPT !.closed = TRUE, !.buf = <<>>]]
          BY <5>1
        <5>3. [r EXCEPT !.closed = TRUE, !.buf = <<>>]
                = [r EXCEPT !.feed = r.feed, !.buf = <<>>, !.part = r.part, !.closed = TRUE]
          BY DEF Attempt
        <5>4. exec' = [exec EXCEPT ![w] = [exec[w] EXCEPT !.feed = r.feed, !.buf = <<>>,
                                                        !.part = r.part, !.closed = TRUE]]
          BY <3>2, <5>2, <5>3
        <5>5. QED
          BY <5>4
      <4>3. QED
        BY <2>2, <4>1, <4>2
    <3>4. exec'[w] = [r EXCEPT !.feed = feed, !.buf = buf, !.part = part, !.closed = closed]
      BY <1>0, <3>2, <3>3
    <3>5. exec'[w].task = r.task
      BY <3>4 DEF Attempt
    <3>6. QED
      BY <3>1, <3>2, <3>5
  <2>3. CASE Mark(w) \/ Fail(w)
    <3>1. exec' = [exec EXCEPT ![w] = Idle]
      BY <2>3 DEF Mark, Fail
    <3>2. QED
      BY <1>0, <1>5, <3>1
  <2>4. QED
    BY <2>1, <2>2, <2>3 DEF WorkerStep
<1>6. QED
  BY <1>1, <1>2, <1>3, <1>4, <1>5

LEMMA TaskFacts ==
  ASSUME TypeInv, NEW t \in ToSet(tasks)
  PROVE  /\ t \in Task /\ t.stage = stage /\ stage \in Stage /\ tasks # <<>>
         /\ Filled(t) /\ Sourced(t.stage, t.members)
         /\ \E c \in ToSet(manifest[stage]) : c.id = t.id
<1>1. t \in Task /\ t.stage = stage /\ Filled(t) /\ Sourced(t.stage, t.members)
  BY SkipType DEF TypeInv, TasksFit
<1>2. PICK i \in DOMAIN tasks : t = tasks[i]
  BY DEF ToSet
<1>3. stage \in Stage /\ tasks # <<>>
  <2>1. tasks # <<>>
    BY <1>2
  <2>2. QED
    BY <2>1 DEF TypeInv, TasksFit
<1>4. PICK e : e = Entries(tasks)
  OBVIOUS
<1>5. e = [j \in DOMAIN tasks |-> [id |-> tasks[j].id, weight |-> tasks[j].weight]]
  BY <1>4 DEF Entries
<1>6. i \in DOMAIN e /\ e[i].id = t.id
  BY <1>2, <1>5
<1>7. manifest[stage] = e
  BY <1>3, <1>4 DEF TypeInv, TasksFit
<1>8. \E c \in ToSet(manifest[stage]) : c.id = t.id
  BY <1>6, <1>7 DEF ToSet
<1>9. QED
  BY <1>1, <1>3, <1>8

(* The plan of a stage that is settled makes it as it was.                  *)
LEMMA PlanStays ==
  ASSUME Tables, NEW p \in Stage, Plan(p), NEW u \in Stage,
         u # p \/ (manifest[u] # <<>> /\ u \notin moved')
  PROVE  manifest'[u] = manifest[u]
<1>1. manifest' = [manifest EXCEPT ![p] = Entries(Chunks(p))]
  BY DEF Plan
<1>2. CASE u # p
  BY <1>1, <1>2 DEF Tables
<1>3. CASE u = p
  BY <1>3 DEF Plan
<1>4. QED
  BY <1>2, <1>3

(* While a stage that packs is settled, and has been begun, what it packs   *)
(* stays as it is.                                                          *)
LEMMA UpstreamStays ==
  ASSUME TypeInv, Fixed, [Next]_vars, NEW s \in Stage, Target[s] > 0, Touched(s),
         Reads[s] \notin moved'
  PROVE  UpstreamChunks(s)' = UpstreamChunks(s)
<1>0. moved \subseteq moved' /\ Tables
  BY StepFacts DEF TypeInv
<1>a. CASE Reads[s] = 0
  <2>1. source' = source
    <3>1. CASE StartRun
      BY <3>1 DEF StartRun
    <3>2. CASE StageDone
      BY <3>2 DEF StageDone
    <3>3. CASE RunCutShort
      BY <3>3 DEF RunCutShort
    <3>4. CASE SourceGrows
      BY <1>a, <3>4 DEF SourceGrows
    <3>5. CASE Remediate
      BY <3>5 DEF Remediate
    <3>6. ASSUME NEW w \in Worker, WorkerStep(w) PROVE source' = source
      BY <3>6, WorkerFacts
    <3>7. CASE UNCHANGED vars
      BY <3>7 DEF vars
    <3>8. QED
      BY <3>1, <3>2, <3>3, <3>4, <3>5, <3>6, <3>7 DEF Next
  <2>2. QED
    BY <1>a, <2>1 DEF UpstreamChunks
<1>b. CASE Reads[s] # 0
  <2>1. PICK u \in Stage : u = Reads[s]
    BY <1>b, ConstantsFacts
  <2>2. manifest[u] # <<>> /\ \A c \in ToSet(manifest[u]) : <<u, c.id>> \in results
    BY <1>0, <1>b, <2>1 DEF Fixed
  <2>3. manifest'[u] = manifest[u]
    <3>1. CASE StartRun
      <4>1. Plan(1) /\ 1 \in Stage
        BY <3>1, ConstantsFacts DEF StartRun
      <4>2. QED
        BY <4>1, <1>0, <2>1, <2>2, PlanStays
    <3>2. CASE StageDone
      <4>1. CASE stage + 1 \in Stage /\ Plan(stage + 1)
        BY <4>1, <1>0, <2>1, <2>2, PlanStays
      <4>2. CASE UNCHANGED manifest
        BY <4>2
      <4>3. QED
        BY <3>2, <4>1, <4>2 DEF StageDone
    <3>3. CASE RunCutShort
      BY <3>3 DEF RunCutShort
    <3>4. CASE SourceGrows
      BY <3>4 DEF SourceGrows
    <3>5. CASE Remediate
      <4>1. PICK t \in ToSet(tasks) : ~HasResult(t) /\ (Resplit(t) \/ Skip(t))
        BY <3>5 DEF Remediate
      <4>2. PICK e : manifest' = [manifest EXCEPT ![t.stage] = e]
        BY <4>1 DEF Resplit, Skip, Replace
      <4>3. /\ t.stage = stage
            /\ \E c \in ToSet(manifest[stage]) : c.id = t.id
        BY TaskFacts
      <4>4. u # stage
        <5>1. ASSUME u = stage PROVE FALSE
          <6>1. <<stage, t.id>> \in results
            BY <2>2, <4>3, <5>1
          <6>2. QED
            BY <4>1, <4>3, <6>1 DEF HasResult, KeyOf
        <5>2. QED
          BY <5>1
      <4>5. QED
        BY <1>0, <4>2, <4>3, <4>4 DEF Tables
    <3>6. ASSUME NEW w \in Worker, WorkerStep(w) PROVE manifest'[u] = manifest[u]
      BY <3>6, WorkerFacts
    <3>7. CASE UNCHANGED vars
      BY <3>7 DEF vars
    <3>8. QED
      BY <3>1, <3>2, <3>3, <3>4, <3>5, <3>6, <3>7 DEF Next
  <2>4. QED
    BY <1>b, <2>1, <2>3 DEF UpstreamChunks
<1>c. QED
  BY <1>a, <1>b

LEMMA ChunksStay ==
  ASSUME TypeInv, Fixed, [Next]_vars, NEW s \in Stage, Touched(s),
         Target[s] > 0 => Reads[s] \notin moved',
         NEW id, NEW members
  PROVE  IsPlanned(s, id, members)' <=> IsPlanned(s, id, members)
<1>1. CASE Target[s] = 0
  BY <1>1 DEF IsPlanned
<1>2. CASE Target[s] # 0
  <2>1. Target[s] > 0
    BY <1>2, ConstantsFacts
  <2>2. UpstreamChunks(s)' = UpstreamChunks(s)
    BY <2>1, UpstreamStays
  <2>3. Chunks(s)' = Chunks(s)
    BY <2>2 DEF Chunks
  <2>4. QED
    BY <1>2, <2>3 DEF IsPlanned, Named
<1>3. QED
  BY <1>1, <1>2

-----------------------------------------------------------------------------
(* What is planned and passed, step by step.                                *)

(* Only its plan begins with a stage.                                       *)
LEMMA TouchedBefore ==
  ASSUME TypeInv, [Next]_vars, NEW s \in Stage, Touched(s)', ~Touched(s)
  PROVE  Plan(s) /\ tasks' # <<>> /\ UNCHANGED <<source, parts, results>>
<1>1. ASSUME UNCHANGED <<parts, results, exec>> PROVE stage' = s /\ tasks' # <<>>
  BY <1>1 DEF Touched
<1>2. CASE StartRun
  <2>1. stage' = s /\ tasks' # <<>>
    BY <1>1, <1>2 DEF StartRun
  <2>2. QED
    BY <1>2, <2>1 DEF StartRun, Plan
<1>3. CASE StageDone
  <2>1. stage' = s /\ tasks' # <<>>
    BY <1>1, <1>3 DEF StageDone
  <2>2. Plan(stage + 1)
    BY <1>3, <2>1 DEF StageDone
  <2>3. stage' = stage + 1
    BY <2>2 DEF Plan
  <2>4. QED
    BY <1>3, <2>1, <2>2, <2>3 DEF StageDone
<1>4. CASE RunCutShort
  BY <1>1, <1>4 DEF RunCutShort
<1>5. CASE SourceGrows
  <2>1. stage' = s
    BY <1>1, <1>5 DEF SourceGrows
  <2>2. QED
    BY <1>5, <2>1, ConstantsFacts DEF SourceGrows
<1>6. CASE Remediate
  <2>1. stage' = s /\ stage' = stage
    BY <1>1, <1>6 DEF Remediate
  <2>2. PICK t \in ToSet(tasks) : TRUE
    BY <1>6 DEF Remediate
  <2>3. tasks # <<>>
    BY TaskFacts
  <2>4. QED
    BY <2>1, <2>3 DEF Touched
<1>7. ASSUME NEW w \in Worker, WorkerStep(w) PROVE FALSE
  <2>0. /\ UNCHANGED <<stage, tasks>>
        /\ \A k \in Key : parts'[k] # parts[k] => exec[w] # Idle /\ k = KeyOf(exec[w].task)
        /\ \A k \in results' : k \in results \/ (exec[w] # Idle /\ k = KeyOf(exec[w].task))
        /\ \A v \in Worker : v # w => exec'[v] = exec[v]
        /\ exec'[w] # Idle => \/ exec'[w].task \in ToSet(tasks)
                              \/ exec[w] # Idle /\ exec'[w].task = exec[w].task
    BY <1>7, WorkerFacts
  <2>1. ASSUME NEW id \in Id, parts'[<<s, id>>] # <<>> \/ <<s, id>> \in results' PROVE FALSE
    <3>1. <<s, id>> \in Key
      BY DEF Key
    <3>2. parts[<<s, id>>] = <<>> /\ <<s, id>> \notin results
      BY DEF Touched
    <3>3. exec[w] # Idle /\ <<s, id>> = KeyOf(exec[w].task)
      BY <2>0, <2>1, <3>1, <3>2
    <3>4. exec[w].task.stage = s
      BY <3>3 DEF KeyOf
    <3>5. QED
      BY <3>3, <3>4 DEF Touched
  <2>2. ASSUME NEW v \in Worker, exec'[v] # Idle, exec'[v].task.stage = s PROVE FALSE
    <3>1. \/ exec'[v].task \in ToSet(tasks)
          \/ exec[v] # Idle /\ exec'[v].task = exec[v].task
      BY <2>0, <2>2
    <3>2. ~(exec[v] # Idle /\ exec'[v].task = exec[v].task)
      BY <2>2 DEF Touched
    <3>3. PICK t \in ToSet(tasks) : t = exec'[v].task
      BY <3>1, <3>2
    <3>4. t.stage = stage /\ tasks # <<>>
      BY TaskFacts
    <3>5. QED
      BY <2>2, <3>3, <3>4 DEF Touched
  <2>3. ~(stage' = s /\ tasks' # <<>>)
    BY <2>0 DEF Touched
  <2>4. QED
    BY <2>1, <2>2, <2>3 DEF Touched
<1>8. CASE UNCHANGED vars
  <2>1. UNCHANGED <<parts, results, exec, stage, tasks>>
    BY <1>8 DEF vars
  <2>2. Touched(s)
    BY <2>1 DEF Touched
  <2>3. QED
    BY <2>2
<1>9. QED
  BY <1>2, <1>3, <1>4, <1>5, <1>6, <1>7, <1>8 DEF Next

LEMMA PassedStays ==
  ASSUME TypeInv, Passed, [Next]_vars
  PROVE  Passed'
<1>0. results \subseteq results' /\ Tables
  BY StepFacts DEF TypeInv
<1> SUFFICES ASSUME NEW u \in Stage, u < stage', NEW c \in ToSet(manifest'[u])
             PROVE  <<u, c.id>> \in results'
  BY DEF Passed
<1>1. ASSUME u < stage, manifest'[u] = manifest[u] PROVE <<u, c.id>> \in results'
  BY <1>0, <1>1 DEF Passed
<1>2. CASE StartRun
  <2>1. stage' = 1 /\ u \in Nat \ {0}
    BY <1>2, ConstantsFacts DEF StartRun, Plan
  <2>2. QED
    BY <2>1
<1>3. CASE StageDone
  <2>1. stage \in Stage /\ stage \in Nat /\ \A t \in ToSet(tasks) : HasResult(t)
    BY <1>3, ConstantsFacts DEF StageDone
  <2>2. manifest'[u] = manifest[u] /\ stage' = stage + 1
    <3>1. CASE stage + 1 \in Stage /\ Plan(stage + 1)
      <4>1. stage' = stage + 1
        BY <3>1 DEF Plan
      <4>2. u # stage + 1
        BY <2>1, <4>1, ConstantsFacts
      <4>3. QED
        BY <1>0, <3>1, <4>1, <4>2, PlanStays
    <3>2. CASE stage + 1 = Finished /\ stage' = Finished /\ UNCHANGED manifest
      BY <3>2
    <3>3. QED
      BY <1>3, <3>1, <3>2 DEF StageDone
  <2>3. CASE u = stage
    <3>1. PICK e : e = Entries(tasks) /\ manifest[stage] = e
      BY <2>1 DEF TypeInv, TasksFit
    <3>2. e = [j \in DOMAIN tasks |-> [id |-> tasks[j].id, weight |-> tasks[j].weight]]
      BY <3>1 DEF Entries
    <3>3. PICK j \in DOMAIN tasks : c = [id |-> tasks[j].id, weight |-> tasks[j].weight]
      BY <2>2, <2>3, <3>1, <3>2 DEF ToSet
    <3>4. PICK t \in ToSet(tasks) : t = tasks[j]
      BY DEF ToSet
    <3>5. t.stage = stage /\ c.id = t.id
      BY <3>3, <3>4, TaskFacts
    <3>6. QED
      BY <1>0, <2>1, <2>3, <3>5 DEF HasResult, KeyOf
  <2>4. CASE u # stage
    <3>1. u < stage
      BY <2>1, <2>2, <2>4, ConstantsFacts
    <3>2. QED
      BY <1>1, <2>2, <3>1
  <2>5. QED
    BY <2>3, <2>4
<1>4. CASE RunCutShort \/ SourceGrows
  <2>1. stage' = 0 /\ u \in Nat
    BY <1>4, ConstantsFacts DEF RunCutShort, SourceGrows
  <2>2. QED
    BY <2>1
<1>5. CASE Remediate
  <2>1. PICK t \in ToSet(tasks) : Resplit(t) \/ Skip(t)
    BY <1>5 DEF Remediate
  <2>2. PICK e : manifest' = [manifest EXCEPT ![t.stage] = e]
    BY <2>1 DEF Resplit, Skip, Replace
  <2>3. t.stage = stage /\ stage' = stage /\ stage \in Stage
    BY <1>5, TaskFacts DEF Remediate
  <2>4. u # stage
    BY <2>3, ConstantsFacts
  <2>5. QED
    BY <1>0, <1>1, <2>2, <2>3, <2>4 DEF Tables
<1>6. ASSUME NEW w \in Worker, WorkerStep(w) PROVE <<u, c.id>> \in results'
  BY <1>1, <1>6, WorkerFacts
<1>7. CASE UNCHANGED vars
  BY <1>1, <1>7 DEF vars
<1>8. QED
  BY <1>2, <1>3, <1>4, <1>5, <1>6, <1>7 DEF Next

LEMMA FixedStays ==
  ASSUME TypeInv, TypeInv', Passed', Fixed, [Next]_vars
  PROVE  Fixed'
<1>0. results \subseteq results' /\ moved \subseteq moved' /\ Tables
  BY StepFacts DEF TypeInv
<1> SUFFICES ASSUME NEW s \in Stage, Target[s] > 0, Reads[s] # 0, Reads[s] \notin moved', Touched(s)'
             PROVE  /\ manifest'[Reads[s]] # <<>>
                    /\ \A c \in ToSet(manifest'[Reads[s]]) : <<Reads[s], c.id>> \in results'
  BY DEF Fixed
<1>1. PICK u \in Stage : u = Reads[s] /\ u < s /\ u \in Nat
  BY ConstantsFacts
<1>2. CASE Touched(s)
  <2>1. UpstreamChunks(s)' = UpstreamChunks(s)
    BY <1>2, UpstreamStays
  <2>2. manifest'[u] = manifest[u]
    BY <1>1, <2>1 DEF UpstreamChunks
  <2>3. manifest[u] # <<>> /\ \A c \in ToSet(manifest[u]) : <<u, c.id>> \in results
    BY <1>0, <1>1, <1>2 DEF Fixed
  <2>4. QED
    BY <1>0, <1>1, <2>2, <2>3
<1>3. CASE ~Touched(s)
  <2>1. Plan(s) /\ tasks' # <<>>
    BY <1>3, TouchedBefore
  <2>2. stage' = s /\ tasks' = TasksOf(s, Chunks(s))
    BY <2>1 DEF Plan
  <2>3. \A c \in ToSet(manifest'[u]) : <<u, c.id>> \in results'
    BY <1>1, <2>2 DEF Passed
  <2>4. manifest'[u] = manifest[u]
    BY <1>0, <1>1, <2>1, PlanStays, ConstantsFacts
  <2>5. Chunks(s) # <<>>
    <3>1. ASSUME Chunks(s) = <<>> PROVE FALSE
      <4>1. TasksOf(s, <<>>) = <<>>
        BY DEF TasksOf
      <4>2. QED
        BY <2>1, <2>2, <3>1, <4>1
    <3>2. QED
      BY <3>1
  <2>6. manifest[u] # <<>>
    <3>1. Target[s] # 0
      BY ConstantsFacts
    <3>2. UpstreamChunks(s) # <<>>
      BY <1>0, <2>5, <3>1, PackedIds
    <3>3. QED
      BY <1>1, <3>2 DEF UpstreamChunks
  <2>7. QED
    BY <1>1, <2>3, <2>4, <2>6
<1>4. QED
  BY <1>2, <1>3

LEMMA UpstreamSame ==
  ASSUME NEW s \in Stage, source' = source,
         Reads[s] # 0 => manifest'[Reads[s]] = manifest[Reads[s]],
         NEW id, NEW members
  PROVE  IsPlanned(s, id, members)' <=> IsPlanned(s, id, members)
<1>1. UpstreamChunks(s)' = UpstreamChunks(s)
  BY DEF UpstreamChunks
<1>2. Chunks(s)' = Chunks(s)
  BY <1>1 DEF Chunks
<1>3. QED
  BY <1>2 DEF IsPlanned, Named

(* A plan plans what is ready. *)
LEMMA PlanIsPlanned ==
  ASSUME TypeInv, TypeInv', Passed', NEW s \in Stage, Plan(s), UNCHANGED <<source, results>>
  PROVE  Planned'
<1>1. PICK chunks \in Seq(PlanChunk) :
        /\ chunks = Chunks(s)
        /\ FlattenSeq(Members(chunks)) = Ids(UpstreamChunks(s))
  BY ChunksShape DEF TypeInv
<1>2. PICK up \in Seq(Chunk) : up = UpstreamChunks(s)
  BY UpstreamType DEF TypeInv
<1>3. /\ tasks' = TasksOf(s, chunks) /\ stage' = s
  BY <1>1 DEF Plan
<1>4. Reads[s] # 0 => manifest'[Reads[s]] = manifest[Reads[s]]
  <2>1. ASSUME Reads[s] # 0 PROVE manifest'[Reads[s]] = manifest[Reads[s]]
    <3>1. PICK u \in Stage : u = Reads[s] /\ u # s
      BY <2>1, ConstantsFacts
    <3>2. QED
      BY <3>1, PlanStays DEF TypeInv
  <2>2. QED
    BY <2>1
<1>5. ASSUME NEW t \in ToSet(tasks')
      PROVE  Ready(t.stage, t.members)' /\ IsPlanned(t.stage, t.id, t.members)'
  <2>1. PICK i \in DOMAIN chunks :
          /\ t.id = chunks[i].id /\ t.members = chunks[i].members /\ t.stage = s
    <3>1. /\ DOMAIN TasksOf(s, chunks) = DOMAIN chunks
          /\ \A i \in DOMAIN chunks :
                TasksOf(s, chunks)[i] =
                   [id |-> chunks[i].id, weight |-> chunks[i].weight,
                    members |-> chunks[i].members, stage |-> s]
      BY TasksOfShape
    <3>2. PICK i \in DOMAIN chunks : t = TasksOf(s, chunks)[i]
      BY <1>3, <3>1 DEF ToSet
    <3>3. t = [id |-> chunks[i].id, weight |-> chunks[i].weight,
               members |-> chunks[i].members, stage |-> s]
      BY <3>1, <3>2
    <3>4. QED
      BY <3>3
  <2>2. Sourced(t.stage, t.members)'
    BY DEF TypeInv, TasksFit
  <2>3. ASSUME Reads[s] # 0, NEW m \in ToSet(t.members) PROVE <<Reads[s], m>> \in results'
    <3>1. PICK u \in Stage : u = Reads[s] /\ u < s
      BY <2>3, ConstantsFacts
    <3>2. \A j \in DOMAIN chunks : \A x \in ToSet(chunks[j].members) :
            \E h \in DOMAIN up : x = up[h].id
      BY <1>1, <1>2, MembersUpstream
    <3>3. PICK h \in DOMAIN up : m = up[h].id
      BY <2>1, <2>3, <3>2
    <3>4. up = manifest'[u]
      BY <1>2, <1>4, <2>3, <3>1 DEF UpstreamChunks
    <3>5. up[h] \in ToSet(manifest'[u])
      BY <3>4 DEF ToSet
    <3>6. <<u, up[h].id>> \in results'
      BY <1>3, <3>1, <3>5 DEF Passed
    <3>7. QED
      BY <3>1, <3>3, <3>6
  <2>4. IsPlanned(s, t.id, t.members)
    <3>1. CASE Target[s] = 0
      <4>1. chunks = OneToOne(up)
        <5>1. ~(Target[s] > 0)
          BY <3>1
        <5>2. QED
          BY <1>1, <1>2, <5>1 DEF Chunks
      <4>2. chunks[i].members = <<chunks[i].id>>
        BY <4>1 DEF OneToOne
      <4>3. QED
        BY <2>1, <3>1, <4>2 DEF IsPlanned
    <3>2. CASE Target[s] # 0
      <4>1. chunks[i] \in ToSet(Chunks(s))
        BY <1>1 DEF ToSet
      <4>2. Named(Chunks(s), t.id, t.members)
        BY <2>1, <4>1 DEF Named
      <4>3. QED
        BY <3>2, <4>2 DEF IsPlanned
    <3>3. QED
      BY <3>1, <3>2
  <2>5. IsPlanned(s, t.id, t.members)'
    BY <1>4, <2>4, UpstreamSame
  <2>6. QED
    BY <2>1, <2>2, <2>3, <2>5 DEF Ready
<1>6. QED
  BY <1>5 DEF Planned

(* The parts of a planned chunk are planned.                                *)
LEMMA SplitIsPlanned ==
  ASSUME NEW s \in Stage, NEW id, NEW members \in Seq(Id), Len(members) > 1,
         IsPlanned(s, id, members), NEW j \in DOMAIN members
  PROVE  IsPlanned(s, Append(id, j - 1), <<members[j]>>)
<1>1. \A x : members # <<x>>
  <2>1. ASSUME NEW x, members = <<x>> PROVE FALSE
    <3>1. Len(<<x>>) = 1
      OBVIOUS
    <3>2. Len(members) = 1
      BY <2>1, <3>1, Zenon
    <3>3. QED
      BY <3>2
  <2>2. QED
    BY <2>1, Zenon
<1>2. Target[s] # 0 /\ Named(Chunks(s), id, members)
  BY <1>1, Zenon DEF IsPlanned
<1>3. PICK c \in ToSet(Chunks(s)) :
        \/ id = c.id /\ members = c.members
        \/ \E h \in DOMAIN c.members : id = Append(c.id, h - 1) /\ members = <<c.members[h]>>
  BY <1>2 DEF Named
<1>4. id = c.id /\ members = c.members
  BY <1>1, <1>3, Zenon
<1>5. Named(Chunks(s), Append(id, j - 1), <<members[j]>>)
  BY <1>4 DEF Named
<1>6. QED
  BY <1>2, <1>5 DEF IsPlanned

(* What a remediation leaves and makes.                                     *)
LEMMA RemediateIsPlanned ==
  ASSUME TypeInv, Planned, Remediate
  PROVE  Planned'
<1>1. PICK t \in ToSet(tasks) : Resplit(t) \/ Skip(t)
  BY DEF Remediate
<1>2. UNCHANGED <<source, stage, results>>
  BY DEF Remediate
<1>3. /\ t \in Task /\ t.stage = stage /\ stage \in Stage /\ Filled(t)
  BY TaskFacts
<1>4. ASSUME NEW id, NEW members
      PROVE  /\ IsPlanned(stage, id, members)' <=> IsPlanned(stage, id, members)
             /\ Ready(stage, members) => Ready(stage, members)'
  <2>1. ASSUME Reads[stage] # 0 PROVE manifest'[Reads[stage]] = manifest[Reads[stage]]
    <3>1. PICK u \in Stage : u = Reads[stage] /\ u # stage
      BY <1>3, <2>1, ConstantsFacts
    <3>2. PICK e : manifest' = [manifest EXCEPT ![t.stage] = e]
      BY <1>1 DEF Resplit, Skip, Replace
    <3>3. QED
      BY <1>3, <3>1, <3>2 DEF TypeInv, Tables
  <2>2. PICK s \in Stage : s = stage /\ s = stage'
    BY <1>2, <1>3
  <2>3. source' = source /\ (Reads[s] # 0 => manifest'[Reads[s]] = manifest[Reads[s]])
    BY <1>2, <2>1, <2>2
  <2>4. IsPlanned(s, id, members)' <=> IsPlanned(s, id, members)
    BY <2>3, UpstreamSame
  <2>5. Ready(s, members) => Ready(s, members)'
    BY <1>2 DEF Ready, Sourced
  <2>6. IsPlanned(stage, id, members)' = IsPlanned(s, id, members)'
    BY <2>2 DEF IsPlanned, Chunks, UpstreamChunks
  <2>7. Ready(stage, members)' = Ready(s, members)'
    BY <2>2 DEF Ready, Sourced
  <2>8. QED
    BY <2>2, <2>4, <2>5, <2>6, <2>7
<1>5. PICK new : /\ tasks' = Without(tasks, t.id) \o new
                 /\ new = <<>> \/ (new = PartsOf(t) /\ Len(t.members) > 1)
  <2>1. \E new : /\ tasks' = Without(tasks, t.id) \o new
                 /\ new = <<>> \/ (new = PartsOf(t) /\ Len(t.members) > 1)
    <3>1. CASE Resplit(t)
      BY <3>1 DEF Resplit, Replace
    <3>2. CASE Skip(t)
      BY <3>2 DEF Skip, Replace
    <3>3. QED
      BY <1>1, <3>1, <3>2
  <2>2. QED
    BY <2>1
<1>6. Ready(stage, t.members) /\ IsPlanned(stage, t.id, t.members)
  BY <1>3 DEF Planned
<1>7. PICK members \in Seq(Id) : members = t.members
  BY <1>3 DEF Task
<1>8. /\ new \in Seq(Task)
      /\ \A c \in ToSet(new) : c.stage = stage /\ Ready(stage, c.members)
                               /\ IsPlanned(stage, c.id, c.members)
  <2>1. CASE new = <<>>
    <3>1. new \in Seq(Task) /\ ToSet(new) = {}
      BY <2>1, EmptySeq DEF ToSet
    <3>2. QED
      BY <3>1
  <2>2. CASE new = PartsOf(t) /\ Len(t.members) > 1
    <3>1. Len(t.members) <= MaxMembers
      <4>1. HaveMembers(Task, Id) /\ tasks \in Seq(Task)
            /\ Len(FlattenSeq(Members(tasks))) <= MaxMembers
        BY PlannedHaveMembers DEF TypeInv, TasksFit
      <4>2. PICK q \in Seq(Task) : q = tasks
        BY <4>1
      <4>3. /\ FlattenSeq(Members(q)) \in Seq(Id)
            /\ \A x \in ToSet(q) \ {} : Len(FlattenSeq(Members(Only(q, {})))) + Len(x.members)
                                          <= Len(FlattenSeq(Members(q)))
        BY <4>1, MembersOfSome
      <4>4. Only(q, {}) \in Seq(Task)
        BY OnlyFacts
      <4>5. FlattenSeq(Members(Only(q, {}))) \in Seq(Id)
        BY <4>1, <4>4, MembersOfSome
      <4>6. PICK x \in Nat, y \in Nat, z \in Nat :
              /\ x = Len(FlattenSeq(Members(Only(q, {})))) /\ y = Len(members)
              /\ z = Len(FlattenSeq(Members(q)))
        BY <4>3, <4>5, LenProperties
      <4>7. x + y <= z /\ z <= MaxMembers
        BY <1>7, <4>1, <4>2, <4>3, <4>6
      <4>8. QED
        BY <1>7, <4>6, <4>7, ConstantsFacts
    <3>2. /\ PartsOf(t) \in Seq(Task)
          /\ DOMAIN PartsOf(t) = DOMAIN t.members
          /\ \A j \in DOMAIN t.members :
                /\ PartsOf(t)[j].id = Append(t.id, j - 1)
                /\ PartsOf(t)[j].members = <<t.members[j]>>
                /\ PartsOf(t)[j].stage = t.stage
      BY <1>3, <2>2, <3>1, PartsOfShape
    <3>3. ASSUME NEW c \in ToSet(new)
          PROVE  c.stage = stage /\ Ready(stage, c.members) /\ IsPlanned(stage, c.id, c.members)
      <4>1. PICK j \in DOMAIN members : c = PartsOf(t)[j]
        BY <1>7, <2>2, <3>2, <3>3 DEF ToSet
      <4>2. c.id = Append(t.id, j - 1) /\ c.members = <<members[j]>> /\ c.stage = stage
        BY <1>3, <1>7, <3>2, <4>1
      <4>3. IsPlanned(stage, Append(t.id, j - 1), <<members[j]>>)
        BY <1>3, <1>6, <1>7, <2>2, SplitIsPlanned
      <4>4. ToSet(<<members[j]>>) \subseteq ToSet(members)
        BY DEF ToSet
      <4>5. Ready(stage, <<members[j]>>)
        BY <1>6, <1>7, <4>4 DEF Ready, Sourced
      <4>6. QED
        BY <4>2, <4>3, <4>5
    <3>4. QED
      BY <2>2, <3>2, <3>3
  <2>3. QED
    BY <1>5, <2>1, <2>2
<1>9. PICK w \in Seq(Task) : w = Without(tasks, t.id) /\ ToSet(w) \subseteq ToSet(tasks)
  <2>1. PICK R : Without(tasks, t.id) = Only(tasks, R)
    BY DEF Without
  <2>2. Only(tasks, R) \in Seq(Task) /\ ToSet(Only(tasks, R)) = ToSet(tasks) \cap R
    BY OnlyFacts DEF TypeInv, TasksFit
  <2>3. QED
    BY <2>1, <2>2
<1>10. ToSet(tasks') = ToSet(w) \cup ToSet(new)
  BY <1>5, <1>8, <1>9, ConcatSet
<1>11. ASSUME NEW c \in ToSet(tasks')
       PROVE  Ready(c.stage, c.members)' /\ IsPlanned(c.stage, c.id, c.members)'
  <2>1. c.stage = stage /\ Ready(stage, c.members) /\ IsPlanned(stage, c.id, c.members)
    <3>1. CASE c \in ToSet(tasks)
      BY <3>1 DEF Planned, TypeInv, TasksFit
    <3>2. CASE c \in ToSet(new)
      BY <1>8, <3>2
    <3>3. QED
      BY <1>9, <1>10, <1>11, <3>1, <3>2
  <2>2. c.stage = stage'
    BY <1>2, <2>1
  <2>3. Ready(stage, c.members)' /\ IsPlanned(stage, c.id, c.members)'
    BY <1>4, <2>1
  <2>4. QED
    BY <2>2, <2>3
<1>12. QED
  BY <1>11 DEF Planned

LEMMA PlannedStays ==
  ASSUME TypeInv, TypeInv', Passed', Planned, [Next]_vars
  PROVE  Planned'
<1>1. ASSUME tasks' = <<>> PROVE Planned'
  <2>1. ToSet(<<>>) = {}
    BY DEF ToSet
  <2>2. QED
    BY <1>1, <2>1 DEF Planned
<1>2. CASE StartRun
  BY <1>2, PlanIsPlanned, ConstantsFacts DEF StartRun
<1>3. CASE StageDone
  <2>1. CASE stage + 1 \in Stage /\ Plan(stage + 1)
    BY <1>3, <2>1, PlanIsPlanned DEF StageDone
  <2>2. CASE tasks' = <<>>
    BY <1>1, <2>2
  <2>3. QED
    BY <1>3, <2>1, <2>2 DEF StageDone
<1>4. CASE RunCutShort
  BY <1>1, <1>4 DEF RunCutShort
<1>5. CASE SourceGrows
  <2>1. stage \notin Stage
    BY <1>5, ConstantsFacts DEF SourceGrows
  <2>2. tasks' = <<>>
    BY <1>5, <2>1 DEF SourceGrows, TypeInv, TasksFit
  <2>3. QED
    BY <1>1, <2>2
<1>6. CASE Remediate
  BY <1>6, RemediateIsPlanned
<1>7. ASSUME UNCHANGED <<source, manifest, tasks>>, results \subseteq results'
      PROVE  Planned'
  <2>1. ASSUME NEW t \in ToSet(tasks')
        PROVE  Ready(t.stage, t.members)' /\ IsPlanned(t.stage, t.id, t.members)'
    <3>1. t \in ToSet(tasks)
      BY <1>7
    <3>2. PICK s \in Stage : s = t.stage
      BY <3>1, TaskFacts
    <3>2a. PICK id, members : id = t.id /\ members = t.members
      OBVIOUS
    <3>3. Ready(s, members) /\ IsPlanned(s, id, members)
      BY <3>1, <3>2, <3>2a DEF Planned
    <3>4. Ready(s, members)'
      BY <1>7, <3>3, ReadyStays DEF TypeInv
    <3>5. IsPlanned(s, id, members)'
      BY <1>7, <3>3, UpstreamSame
    <3>6. QED
      BY <3>2, <3>2a, <3>4, <3>5
  <2>2. QED
    BY <2>1 DEF Planned
<1>8. ASSUME NEW w \in Worker, WorkerStep(w) PROVE Planned'
  BY <1>7, <1>8, WorkerFacts, StepFacts
<1>9. CASE UNCHANGED vars
  BY <1>7, <1>9 DEF vars
<1>10. QED
  BY <1>2, <1>3, <1>4, <1>5, <1>6, <1>8, <1>9 DEF Next

(* Who runs something has begun it, or begins.                              *)
LEMMA TaskBefore ==
  ASSUME TypeInv, [Next]_vars, NEW w \in Worker, exec'[w] # Idle
  PROVE  \/ exec[w] # Idle /\ exec'[w].task = exec[w].task
         \/ Begin(w) /\ exec'[w].task \in ToSet(tasks)
<1>1. ASSUME exec' = exec PROVE exec[w] # Idle /\ exec'[w].task = exec[w].task
  BY <1>1
<1>2. CASE StartRun \/ StageDone \/ RunCutShort \/ SourceGrows \/ Remediate \/ UNCHANGED vars
  BY <1>1, <1>2 DEF StartRun, StageDone, RunCutShort, SourceGrows, Remediate, vars
<1>3. ASSUME NEW v \in Worker, WorkerStep(v)
      PROVE  \/ exec[w] # Idle /\ exec'[w].task = exec[w].task
             \/ Begin(w) /\ exec'[w].task \in ToSet(tasks)
  <2>1. CASE v = w
    BY <1>3, <2>1, WorkerFacts
  <2>2. CASE v # w
    <3>1. exec'[w] = exec[w]
      BY <1>3, <2>2, WorkerFacts
    <3>2. QED
      BY <3>1
  <2>3. QED
    BY <2>1, <2>2
<1>4. QED
  BY <1>2, <1>3 DEF Next

LEMMA BegunStays ==
  ASSUME TypeInv, Fixed, Planned, Begun, [Next]_vars
  PROVE  Begun'
<1> SUFFICES ASSUME NEW w \in Worker, exec'[w] # Idle, NEW t, t = exec'[w].task
             PROVE  /\ Ready(t.stage, t.members)'
                    /\ Settled'[t.stage] => IsPlanned(t.stage, t.id, t.members)'
  BY DEF Begun, Ready, Sourced, IsPlanned, Chunks, UpstreamChunks, Named
<1>1. /\ moved \subseteq moved' /\ results \subseteq results'
      /\ \/ source' = source
         \/ \E n \in Weights : source' = Append(source, n)
  BY StepFacts
<1>2. CASE exec[w] # Idle /\ t = exec[w].task
  <2>1. PICK s \in Stage : s = t.stage
    BY <1>2, AttemptType, TaskInKey
  <2>1a. PICK id, members : id = t.id /\ members = t.members
    OBVIOUS
  <2>2. Ready(s, members) /\ (Settled[s] => IsPlanned(s, id, members))
    BY <1>2, <2>1, <2>1a DEF Begun
  <2>3. Ready(s, members)'
    BY <1>1, <2>2, ReadyStays DEF TypeInv
  <2>4. ASSUME Settled'[s] PROVE IsPlanned(s, id, members)'
    <3>1. Settled[s] /\ (Target[s] > 0 => Reads[s] \notin moved')
      BY <1>1, <2>4, SettledFacts
    <3>2. Touched(s)
      BY <1>2, <2>1 DEF Touched
    <3>3. QED
      BY <2>2, <3>1, <3>2, ChunksStay
  <2>5. QED
    BY <2>1, <2>1a, <2>3, <2>4
<1>3. CASE Begin(w) /\ t \in ToSet(tasks)
  <2>1. PICK s \in Stage : s = t.stage
    BY <1>3, TaskFacts
  <2>1a. PICK id, members : id = t.id /\ members = t.members
    OBVIOUS
  <2>2. Ready(s, members) /\ IsPlanned(s, id, members)
    BY <1>3, <2>1, <2>1a DEF Planned
  <2>3. Ready(s, members)'
    BY <1>1, <2>2, ReadyStays DEF TypeInv
  <2>4. IsPlanned(s, id, members)'
    BY <1>3, <2>2, UpstreamSame DEF Begin
  <2>5. QED
    BY <2>1, <2>1a, <2>3, <2>4
<1>4. QED
  BY <1>2, <1>3, TaskBefore

-----------------------------------------------------------------------------
(* What is written.                                                         *)

(* The parts of a chunk are the first that its input makes, and all of them *)
(* once it is done.                                                         *)
Written ==
    \A k \in Key : \A members \in Seq(Id) :
       Settled[k[1]] /\ IsPlanned(k[1], k[2], members) /\ (parts[k] # <<>> \/ k \in results) =>
          /\ Ready(k[1], members)
          /\ PiecesOf(parts[k], Input(k[1], members))
          /\ k \in results => Whole(parts[k], Input(k[1], members))

(* Whoever runs it has as much of the input before it.                      *)
Writing ==
    \A w \in Worker : exec[w] # Idle /\ Settled[exec[w].task.stage] =>
       Drawn(exec[w], parts[KeyOf(exec[w].task)],
             Input(exec[w].task.stage, exec[w].task.members))

LEMMA WriteRowDraws ==
  ASSUME TypeInv, NEW w \in Worker, WriteRow(w), NEW k \in Key, k = KeyOf(exec[w].task),
         NEW rows \in Seq(Row), PiecesOf(parts[k], rows), Drawn(exec[w], parts[k], rows)
  PROVE  /\ PiecesOf(parts'[k], rows) /\ Len(parts'[k]) >= Len(parts[k])
         /\ Whole(parts[k], rows) => parts'[k] = parts[k]
         /\ Drawn(exec'[w], parts'[k], rows)
<1>0. exec \in [Worker -> Attempt \cup {Idle}] /\ parts \in [Key -> Seq(Seq(Row))]
  BY DEF TypeInv, Attempts
<1>1. PICK r \in Attempt : /\ r = exec[w] /\ Len(r.buf) < Cap /\ r.feed # <<>>
                           /\ exec[w] # Idle
  BY AttemptType DEF WriteRow
<1>2. PICK buf \in Seq(Row), feed \in Seq(Row), part \in Nat :
        buf = r.buf /\ feed = r.feed /\ part = r.part /\ Len(buf) < Cap /\ feed # <<>>
  BY <1>1 DEF Attempt
<1>3. PICK q \in Seq(Seq(Row)) : q = parts[k] /\ PiecesOf(q, rows) /\ Drawn(r, q, rows)
  BY <1>0, <1>1
<1>4. ~r.closed /\ Draws(buf, feed, part, rows) /\ part <= Len(q)
  BY <1>2, <1>3 DEF Drawn
<1>5. PICK b, rest : b = Append(buf, Head(feed)) /\ rest = Tail(feed)
  OBVIOUS
<1>6. /\ ~(Len(b) >= Cap) => Draws(b, rest, part, rows)
      /\ Len(b) >= Cap => /\ b = Piece(rows, part + 1) /\ Start(part + 1) < Len(rows)
                          /\ Draws(<<>>, rest, part + 1, rows)
  <2>1. Draws(buf, feed, part, rows) /\ feed # <<>> /\ Len(buf) < Cap
    BY <1>2, <1>4
  <2>2. PICK b2 : b2 = Append(buf, Head(feed)) /\ b2 = b
    BY <1>5
  <2>3. /\ ~(Len(b2) >= Cap) => Draws(b2, Tail(feed), part, rows)
        /\ Len(b2) >= Cap => /\ b2 = Piece(rows, part + 1) /\ Start(part + 1) < Len(rows)
                             /\ Draws(<<>>, Tail(feed), part + 1, rows)
    BY <2>1, <2>2, DrawsOn
  <2>4. QED
    BY <1>5, <2>2, <2>3
<1>7. PICK full, next :
        /\ full = IF Len(b) >= Cap THEN <<>> ELSE b
        /\ next = IF Len(b) >= Cap THEN part + 1 ELSE part
  OBVIOUS
<1>8. PICK e : e = [r EXCEPT !.feed = rest, !.buf = full, !.part = next]
  OBVIOUS
<1>9. exec'[w] = e
  <2>1. exec' = [exec EXCEPT ![w].feed = rest, ![w].buf = full, ![w].part = next]
    BY <1>1, <1>2, <1>5, <1>7 DEF WriteRow
  <2>2. exec' = [exec EXCEPT ![w] = [exec[w] EXCEPT !.feed = rest, !.buf = full, !.part = next]]
    BY <2>1
  <2>3. QED
    BY <1>0, <2>2, <1>1, <1>8
<1>10. e.feed = rest /\ e.buf = full /\ e.part = next /\ ~e.closed
  BY <1>4, <1>8 DEF Attempt
<1>11. parts' = IF Len(b) >= Cap THEN PutPart(k, part, b) ELSE parts
  BY <1>1, <1>2, <1>5 DEF WriteRow, WritePart
<1>12. PICK n \in Nat : n = Len(q)
  BY LenProperties
<1>13. CASE ~(Len(b) >= Cap)
  <2>1. parts'[k] = q /\ full = b /\ next = part
    BY <1>3, <1>7, <1>11, <1>13
  <2>2. Draws(full, rest, next, rows) /\ next <= Len(q)
    BY <1>4, <1>6, <1>13, <2>1
  <2>3. Drawn(e, q, rows)
    BY <1>10, <2>2 DEF Drawn
  <2>4. Len(q) >= Len(q)
    BY <1>12
  <2>5. QED
    BY <1>3, <1>9, <2>1, <2>3, <2>4
<1>14. CASE Len(b) >= Cap
  <2>1. full = <<>> /\ next = part + 1
    BY <1>7, <1>14
  <2>2. PICK q2 : q2 = IF part < Len(q) THEN [q EXCEPT ![part + 1] = b] ELSE Append(q, b)
    OBVIOUS
  <2>3. parts'[k] = q2
    <3>1. PutPart(k, part, b)[k] =
             IF part < Len(parts[k]) THEN [parts[k] EXCEPT ![part + 1] = b] ELSE Append(parts[k], b)
      BY <1>0 DEF PutPart
    <3>2. QED
      BY <1>3, <1>11, <1>14, <2>2, <3>1
  <2>4. b = Piece(rows, part + 1) /\ Start(part + 1) < Len(rows)
        /\ Draws(<<>>, rest, part + 1, rows)
    BY <1>6, <1>14
  <2>5. /\ PiecesOf(q2, rows)
        /\ Len(q2) \in Nat /\ Len(q2) >= Len(q) /\ part + 1 <= Len(q2)
        /\ Whole(q, rows) => q2 = q
    <3>1. PiecesOf(q, rows) /\ part <= Len(q) /\ Start(part + 1) < Len(rows)
      BY <1>3, <1>4, <2>4
    <3>3. q2 = Put(q, part, Piece(rows, part + 1))
      BY <2>2, <2>4 DEF Put
    <3>4. QED
      BY <3>1, <3>3, PutPiece
  <2>6. Drawn(e, q2, rows)
    BY <1>10, <2>1, <2>4, <2>5 DEF Drawn
  <2>7. QED
    BY <1>3, <1>9, <2>3, <2>5, <2>6
<1>15. QED
  BY <1>13, <1>14

LEMMA FinalizeDraws ==
  ASSUME TypeInv, NEW w \in Worker, Finalize(w), NEW k \in Key, k = KeyOf(exec[w].task),
         NEW rows \in Seq(Row), PiecesOf(parts[k], rows), Drawn(exec[w], parts[k], rows)
  PROVE  /\ PiecesOf(parts'[k], rows) /\ Len(parts'[k]) >= Len(parts[k])
         /\ Whole(parts[k], rows) => parts'[k] = parts[k]
         /\ Drawn(exec'[w], parts'[k], rows)
<1>0. exec \in [Worker -> Attempt \cup {Idle}] /\ parts \in [Key -> Seq(Seq(Row))]
  BY DEF TypeInv, Attempts
<1>1. PICK r \in Attempt : /\ r = exec[w] /\ Len(r.buf) < Cap /\ r.feed = <<>> /\ ~r.closed
                           /\ exec[w] # Idle
  BY AttemptType DEF Finalize
<1>2. PICK buf \in Seq(Row), part \in Nat : buf = r.buf /\ part = r.part /\ Len(buf) < Cap
  BY <1>1 DEF Attempt
<1>3. PICK q \in Seq(Seq(Row)) : q = parts[k] /\ PiecesOf(q, rows) /\ Drawn(r, q, rows)
  BY <1>0, <1>1
<1>4. Draws(buf, <<>>, part, rows) /\ part <= Len(q)
  BY <1>1, <1>2, <1>3 DEF Drawn
<1>5. /\ buf = <<>> => Len(rows) <= Start(part + 1)
      /\ buf # <<>> => /\ buf = Piece(rows, part + 1) /\ Start(part + 1) < Len(rows)
                       /\ Len(rows) <= Start((part + 1) + 1)
  BY <1>2, <1>4, DrawsLast
<1>6. PICK e : e = [r EXCEPT !.closed = TRUE, !.buf = <<>>]
  OBVIOUS
<1>7. exec'[w] = e
  <2>1. exec' = [exec EXCEPT ![w].closed = TRUE, ![w].buf = <<>>]
    BY DEF Finalize
  <2>2. exec' = [exec EXCEPT ![w] = [exec[w] EXCEPT !.closed = TRUE, !.buf = <<>>]]
    BY <2>1
  <2>3. QED
    BY <1>0, <2>2, <1>1, <1>6
<1>8. e.feed = <<>> /\ e.closed
  BY <1>1, <1>6 DEF Attempt
<1>9. parts' = IF buf = <<>> THEN parts ELSE PutPart(k, part, buf)
  BY <1>1, <1>2 DEF Finalize, WritePart
<1>10. PICK n \in Nat : n = Len(q)
  BY LenProperties
<1>11. CASE buf = <<>>
  <2>1. parts'[k] = q /\ Len(q) >= Len(q)
    BY <1>3, <1>9, <1>10, <1>11
  <2>2. Whole(q, rows)
    BY <1>3, <1>4, <1>5, <1>11, WholeBy
  <2>3. Drawn(e, q, rows)
    BY <1>8, <2>2 DEF Drawn
  <2>4. QED
    BY <1>3, <1>7, <2>1, <2>3
<1>12. CASE buf # <<>>
  <2>2. PICK q2 : q2 = IF part < Len(q) THEN [q EXCEPT ![part + 1] = buf] ELSE Append(q, buf)
    OBVIOUS
  <2>3. parts'[k] = q2
    <3>1. PutPart(k, part, buf)[k] =
             IF part < Len(parts[k]) THEN [parts[k] EXCEPT ![part + 1] = buf] ELSE Append(parts[k], buf)
      BY <1>0 DEF PutPart
    <3>2. QED
      BY <1>3, <1>9, <1>12, <2>2, <3>1
  <2>4. buf = Piece(rows, part + 1) /\ Start(part + 1) < Len(rows)
        /\ Len(rows) <= Start((part + 1) + 1)
    BY <1>5, <1>12
  <2>5. /\ PiecesOf(q2, rows)
        /\ Len(q2) \in Nat /\ Len(q2) >= Len(q) /\ part + 1 <= Len(q2)
        /\ Whole(q, rows) => q2 = q
    <3>1. PiecesOf(q, rows) /\ part <= Len(q) /\ Start(part + 1) < Len(rows)
      BY <1>3, <1>4, <2>4
    <3>3. q2 = Put(q, part, Piece(rows, part + 1))
      BY <2>2, <2>4 DEF Put
    <3>4. QED
      BY <3>1, <3>3, PutPiece
  <2>6. q2 \in Seq(Seq(Row))
    <3>1. PutPart(k, part, buf) \in [Key -> Seq(Seq(Row))]
      BY <1>0, PutPartType
    <3>2. QED
      BY <1>9, <1>12, <2>3, <3>1
  <2>7. Whole(q2, rows)
    <3>1. PICK p \in Nat : p = part + 1
      OBVIOUS
    <3>2. p <= Len(q2) /\ Len(rows) <= Start(p + 1)
      BY <2>4, <2>5, <3>1
    <3>3. QED
      BY <2>5, <2>6, <3>2, WholeBy
  <2>8. Drawn(e, q2, rows)
    BY <1>8, <2>7 DEF Drawn
  <2>9. QED
    BY <1>3, <1>7, <2>3, <2>5, <2>8
<1>13. QED
  BY <1>11, <1>12

(* What is done does not change: a worker that still writes it writes what  *)
(* is there.                                                                *)
LEMMA FrozenStep ==
  ASSUME TypeInv, Begun, Written, Writing, [Next]_vars
  PROVE  Frozen
<1> SUFFICES ASSUME NEW k \in results, Settled[k[1]] PROVE parts'[k] = parts[k]
  BY DEF Frozen
<1>1. CASE StartRun \/ StageDone \/ RunCutShort \/ SourceGrows \/ Remediate \/ UNCHANGED vars
  BY <1>1 DEF StartRun, StageDone, RunCutShort, SourceGrows, Remediate, vars
<1>2. ASSUME NEW w \in Worker, WorkerStep(w), parts'[k] # parts[k] PROVE FALSE
  <2>0. k \in Key
    BY DEF TypeInv, Attempts
  <2>1. exec[w] # Idle /\ k = KeyOf(exec[w].task)
    BY <1>2, <2>0, WorkerFacts
  <2>2. PICK t \in Task : t = exec[w].task
    BY <2>1, AttemptType
  <2>3. k[1] = t.stage /\ k[2] = t.id /\ t.stage \in Stage /\ t.members \in Seq(Id)
    BY <2>1, <2>2, TaskInKey DEF KeyOf
  <2>4. Ready(t.stage, t.members) /\ IsPlanned(t.stage, t.id, t.members)
    BY <2>1, <2>2, <2>3 DEF Begun
  <2>5. PICK rows \in Seq(Row) : rows = Input(t.stage, t.members)
    BY <2>3, <2>4, InputType DEF TypeInv, Attempts, Ready
  <2>6. PiecesOf(parts[k], rows) /\ Whole(parts[k], rows)
    BY <2>0, <2>3, <2>4, <2>5 DEF Written
  <2>7. Drawn(exec[w], parts[k], rows)
    BY <2>1, <2>2, <2>3, <2>5 DEF Writing
  <2>8. WriteRow(w) \/ Finalize(w)
    BY <1>2 DEF WorkerStep, Begin, Mark, Fail
  <2>9. CASE WriteRow(w)
    BY <1>2, <2>0, <2>1, <2>6, <2>7, <2>9, WriteRowDraws
  <2>10. CASE Finalize(w)
    BY <1>2, <2>0, <2>1, <2>6, <2>7, <2>10, FinalizeDraws
  <2>11. QED
    BY <2>8, <2>9, <2>10
<1>3. QED
  BY <1>1, <1>2 DEF Next

(* What a chunk has grows by what its input makes.                          *)
LEMMA PartsGrow ==
  ASSUME TypeInv, Begun, Writing, [Next]_vars, NEW k \in Key, NEW members \in Seq(Id),
         Settled[k[1]], IsPlanned(k[1], k[2], members),
         NEW rows \in Seq(Row), rows = Input(k[1], members), PiecesOf(parts[k], rows)
  PROVE  PiecesOf(parts'[k], rows) /\ Len(parts'[k]) >= Len(parts[k])
<1>0. parts[k] \in Seq(Seq(Row)) /\ Len(parts[k]) \in Nat
  BY LenProperties DEF TypeInv, Attempts
<1>1. CASE parts'[k] = parts[k]
  BY <1>0, <1>1
<1>2. CASE parts'[k] # parts[k]
  <2>1. PICK w \in Worker : WorkerStep(w)
    BY <1>2 DEF Next, StartRun, StageDone, RunCutShort, SourceGrows, Remediate, vars
  <2>2. exec[w] # Idle /\ k = KeyOf(exec[w].task)
    BY <1>2, <2>1, WorkerFacts
  <2>3. PICK t \in Task : t = exec[w].task
    BY <2>2, AttemptType
  <2>4. k[1] = t.stage /\ k[2] = t.id /\ t.stage \in Stage
    BY <2>2, <2>3, TaskInKey DEF KeyOf
  <2>5. IsPlanned(k[1], k[2], t.members) /\ k[1] \in Stage
    BY <2>2, <2>3, <2>4 DEF Begun
  <2>6. t.members = members
    BY <2>5, PlannedUnique DEF TypeInv
  <2>7. Drawn(exec[w], parts[k], rows)
    BY <2>2, <2>3, <2>4, <2>6 DEF Writing
  <2>8. WriteRow(w) \/ Finalize(w)
    BY <1>2, <2>1 DEF WorkerStep, Begin, Mark, Fail
  <2>9. CASE WriteRow(w)
    BY <2>2, <2>7, <2>9, WriteRowDraws
  <2>10. CASE Finalize(w)
    BY <2>2, <2>7, <2>10, FinalizeDraws
  <2>11. QED
    BY <2>8, <2>9, <2>10
<1>3. QED
  BY <1>1, <1>2

LEMMA WrittenStays ==
  ASSUME TypeInv, TypeInv', Fixed, Begun, Written, Writing, [Next]_vars
  PROVE  Written'
<1>a. /\ moved \subseteq moved' /\ results \subseteq results'
      /\ \/ source' = source
         \/ \E n \in Weights : source' = Append(source, n)
  BY StepFacts
<1>b. Frozen
  BY FrozenStep
<1> SUFFICES ASSUME NEW k \in Key, NEW members \in Seq(Id), Settled'[k[1]],
                    IsPlanned(k[1], k[2], members)', parts'[k] # <<>> \/ k \in results'
             PROVE  /\ Ready(k[1], members)'
                    /\ PiecesOf(parts'[k], Input(k[1], members)')
                    /\ k \in results' => Whole(parts'[k], Input(k[1], members)')
  BY DEF Written, PiecesOf, Whole
<1>1. PICK s \in Stage, id \in Id : k = <<s, id>>
  BY DEF Key
<1>2. k[1] = s /\ k[2] = id
  BY <1>1
<1>3. /\ Settled[s] /\ (Target[s] > 0 => Reads[s] \notin moved')
      /\ Reads[s] # 0 => Settled[Reads[s]]
  BY <1>a, <1>2, SettledFacts
<1>4. Touched(s)
  <2>1. Touched(s)'
    BY <1>1 DEF Touched
  <2>2. ASSUME ~Touched(s) PROVE FALSE
    <3>1. UNCHANGED <<parts, results>>
      BY <2>1, <2>2, TouchedBefore
    <3>2. QED
      BY <1>1, <2>2, <3>1 DEF Touched
  <2>3. QED
    BY <2>2
<1>5. IsPlanned(s, id, members)
  <2>1. IsPlanned(s, id, members)'
    BY <1>2
  <2>2. QED
    BY <1>3, <1>4, <2>1, ChunksStay
<1>6. ASSUME NEW w \in Worker, exec[w] # Idle, k = KeyOf(exec[w].task)
      PROVE  /\ exec[w].task.stage = s /\ exec[w].task.members = members
             /\ Ready(s, members)
  <2>1. PICK t \in Task : t = exec[w].task
    BY <1>6, AttemptType
  <2>2. t.stage = s /\ t.id = id
    BY <1>1, <1>6, <2>1 DEF KeyOf
  <2>3. Ready(s, t.members) /\ IsPlanned(s, id, t.members)
    BY <1>3, <1>6, <2>1, <2>2 DEF Begun
  <2>4. t.members = members
    BY <1>5, <2>3, PlannedUnique DEF TypeInv
  <2>5. QED
    BY <2>1, <2>2, <2>3, <2>4
<1>7. ASSUME parts[k] = <<>>, k \notin results
      PROVE  \E w \in Worker : WorkerStep(w) /\ exec[w] # Idle /\ k = KeyOf(exec[w].task)
  <2>1. ~UNCHANGED <<parts, results>>
    BY <1>7
  <2>2. PICK w \in Worker : WorkerStep(w)
    BY <2>1 DEF Next, StartRun, StageDone, RunCutShort, SourceGrows, Remediate, vars
  <2>3. exec[w] # Idle /\ k = KeyOf(exec[w].task)
    BY <1>7, <2>2, WorkerFacts
  <2>4. QED
    BY <2>2, <2>3
<1>8. Ready(s, members)
  <2>1. CASE parts[k] # <<>> \/ k \in results
    BY <1>2, <1>3, <1>5, <2>1 DEF Written
  <2>2. CASE parts[k] = <<>> /\ k \notin results
    BY <1>6, <1>7, <2>2
  <2>3. QED
    BY <2>1, <2>2
<1>9. PICK rows \in Seq(Row) : rows = Input(s, members)
  BY <1>8, InputType DEF TypeInv, Attempts, Ready
<1>10. Input(s, members)' = rows
  BY <1>a, <1>b, <1>3, <1>8, <1>9, InputStays DEF TypeInv
<1>11. Ready(s, members)'
  BY <1>a, <1>8, ReadyStays DEF TypeInv
<1>12. PiecesOf(parts[k], rows)
  <2>1. CASE parts[k] # <<>> \/ k \in results
    BY <1>2, <1>3, <1>5, <1>9, <2>1 DEF Written
  <2>2. CASE parts[k] = <<>>
    BY <2>2 DEF PiecesOf
  <2>3. QED
    BY <2>1, <2>2
<1>13. PiecesOf(parts'[k], rows) /\ Len(parts'[k]) >= Len(parts[k])
  BY <1>2, <1>3, <1>5, <1>9, <1>12, PartsGrow
<1>14. parts[k] \in Seq(Seq(Row)) /\ parts'[k] \in Seq(Seq(Row))
  BY DEF TypeInv, Attempts
<1>15. ASSUME k \in results' PROVE Whole(parts'[k], rows)
  <2>1. Whole(parts[k], rows)
    <3>1. CASE k \in results
      BY <1>2, <1>3, <1>5, <1>9, <3>1 DEF Written
    <3>2. CASE k \notin results
      <4>1. PICK w \in Worker : WorkerStep(w)
        BY <1>15, <3>2 DEF Next, StartRun, StageDone, RunCutShort, SourceGrows, Remediate, vars
      <4>2. exec[w] # Idle /\ exec[w].closed /\ k = KeyOf(exec[w].task)
        BY <1>15, <3>2, <4>1, WorkerFacts
      <4>3. Drawn(exec[w], parts[k], rows)
        BY <1>3, <1>6, <1>9, <4>2 DEF Writing
      <4>4. QED
        BY <4>2, <4>3 DEF Drawn
    <3>3. QED
      BY <3>1, <3>2
  <2>2. QED
    BY <1>13, <1>14, <2>1, DrawnGrows
<1>16. QED
  BY <1>2, <1>10, <1>11, <1>13, <1>15

LEMMA WritingStays ==
  ASSUME TypeInv, TypeInv', Begun, Planned, Written, Writing, [Next]_vars
  PROVE  Writing'
<1>a. /\ moved \subseteq moved'
      /\ \/ source' = source
         \/ \E n \in Weights : source' = Append(source, n)
  BY StepFacts
<1>b. Frozen
  BY FrozenStep
<1>c. exec \in [Worker -> Attempt \cup {Idle}]
  BY DEF TypeInv, Attempts
<1> SUFFICES ASSUME NEW w \in Worker, exec'[w] # Idle, NEW t, t = exec'[w].task, Settled'[t.stage]
             PROVE  Drawn(exec'[w], parts'[KeyOf(t)], Input(t.stage, t.members)')
  BY DEF Writing, Drawn, Draws, Whole, PiecesOf, KeyOf
<1>1. CASE exec[w] # Idle /\ t = exec[w].task
  <2>1. PICK s \in Stage, members \in Seq(Id), k \in Key :
          s = t.stage /\ members = t.members /\ k = KeyOf(t) /\ k[1] = s /\ k[2] = t.id
    <3>1. t \in Task
      BY <1>1, AttemptType
    <3>2. KeyOf(t) \in Key /\ t.stage \in Stage /\ t.members \in Seq(Id)
      BY <3>1, TaskInKey
    <3>3. KeyOf(t)[1] = t.stage /\ KeyOf(t)[2] = t.id
      BY DEF KeyOf
    <3>4. QED
      BY <3>2, <3>3
  <2>2. Settled[s] /\ (Reads[s] # 0 => Settled[Reads[s]])
    BY <1>a, <2>1, SettledFacts
  <2>3. Ready(s, members) /\ IsPlanned(s, t.id, members)
    BY <1>1, <2>1, <2>2 DEF Begun
  <2>4. PICK rows \in Seq(Row) : rows = Input(s, members)
    BY <2>3, InputType DEF TypeInv, Attempts, Ready
  <2>5. Input(s, members)' = rows
    BY <1>a, <1>b, <2>2, <2>3, <2>4, InputStays DEF TypeInv
  <2>6. Drawn(exec[w], parts[k], rows)
    BY <1>1, <2>1, <2>2, <2>4 DEF Writing
  <2>7. PiecesOf(parts[k], rows)
    <3>1. CASE parts[k] # <<>>
      BY <2>1, <2>2, <2>3, <2>4, <3>1 DEF Written
    <3>2. CASE parts[k] = <<>>
      BY <3>2 DEF PiecesOf
    <3>3. QED
      BY <3>1, <3>2
  <2>8. Drawn(exec'[w], parts'[k], rows)
    <3>1. CASE exec'[w] = exec[w]
      <4>1. PiecesOf(parts'[k], rows) /\ Len(parts'[k]) >= Len(parts[k])
        BY <2>1, <2>2, <2>3, <2>4, <2>7, PartsGrow
      <4>2. parts[k] \in Seq(Seq(Row)) /\ parts'[k] \in Seq(Seq(Row))
        BY DEF TypeInv, Attempts
      <4>3. exec[w] \in Attempt
        BY <1>1, AttemptType
      <4>4. QED
        BY <2>6, <3>1, <4>1, <4>2, <4>3, DrawnGrows
    <3>2. CASE exec'[w] # exec[w]
      <4>1. PICK v \in Worker : WorkerStep(v)
        BY <3>2 DEF Next, StartRun, StageDone, RunCutShort, SourceGrows, Remediate, vars
      <4>2. v = w
        BY <3>2, <4>1, WorkerFacts
      <4>3. WriteRow(w) \/ Finalize(w)
        <5>1. CASE Begin(w)
          BY <1>1, <5>1 DEF Begin
        <5>2. CASE Mark(w) \/ Fail(w)
          <6>1. exec' = [exec EXCEPT ![w] = Idle]
            BY <5>2 DEF Mark, Fail
          <6>2. QED
            BY <1>c, <6>1
        <5>3. QED
          BY <4>1, <4>2, <5>1, <5>2 DEF WorkerStep
      <4>4. CASE WriteRow(w)
        BY <1>1, <2>1, <2>6, <2>7, <4>4, WriteRowDraws
      <4>5. CASE Finalize(w)
        BY <1>1, <2>1, <2>6, <2>7, <4>5, FinalizeDraws
      <4>6. QED
        BY <4>3, <4>4, <4>5
    <3>3. QED
      BY <3>1, <3>2
  <2>9. QED
    BY <2>1, <2>5, <2>8
<1>2. CASE Begin(w) /\ t \in ToSet(tasks)
  <2>1. PICK c \in ToSet(tasks) :
          exec' = [exec EXCEPT ![w] = [task |-> c, feed |-> Input(c.stage, c.members),
                                       buf |-> <<>>, part |-> 0, closed |-> FALSE]]
    BY <1>2 DEF Begin
  <2>2. PICK feed : feed = Input(c.stage, c.members)
    OBVIOUS
  <2>3. exec'[w] = [task |-> c, feed |-> feed, buf |-> <<>>, part |-> 0, closed |-> FALSE]
    BY <1>c, <2>1, <2>2
  <2>4. t = c
    BY <2>3
  <2>5. feed \in Seq(Row) /\ c \in Task
    BY <2>2, SkipType
  <2>6. Draws(<<>>, feed, 0, feed)
    BY <2>5, DrawsFirst
  <2>7. parts' = parts /\ source' = source
    BY <1>2 DEF Begin
  <2>8. Input(c.stage, c.members)' = feed
    BY <2>2, <2>7 DEF Input, ChunkRows, MemberRows
  <2>9. Len(parts'[KeyOf(t)]) \in Nat
    <3>1. KeyOf(c) \in Key
      BY <2>5, TaskInKey
    <3>2. parts[KeyOf(c)] \in Seq(Seq(Row))
      BY <3>1 DEF TypeInv, Attempts
    <3>3. QED
      BY <2>4, <2>7, <3>2, LenProperties
  <2>10. 0 <= Len(parts'[KeyOf(t)])
    BY <2>9
  <2>11. PICK e : e = exec'[w]
    OBVIOUS
  <2>12. e.buf = <<>> /\ e.feed = feed /\ e.part = 0 /\ e.closed = FALSE
    BY <2>3, <2>11
  <2>13. Drawn(e, parts'[KeyOf(t)], feed)
    BY <2>6, <2>10, <2>12 DEF Drawn
  <2>14. QED
    BY <2>4, <2>8, <2>11, <2>13
<1>3. QED
  BY <1>1, <1>2, TaskBefore

-----------------------------------------------------------------------------
(* Together they are inductive: what a chunk has written is what its input  *)
(* makes because its input is frozen, and its input is frozen because what  *)
(* is written again is the same.                                            *)
FrozenInv == TypeInv /\ Passed /\ Fixed /\ Planned /\ Begun /\ Written /\ Writing

LEMMA InitFrozen == Init => FrozenInv
<1> SUFFICES ASSUME Init PROVE FrozenInv
  OBVIOUS
<1>1. TypeInv
  BY InitType
<1>2. /\ \A k \in Key : parts[k] = <<>>
      /\ results = {} /\ stage = 0 /\ tasks = <<>>
      /\ \A w \in Worker : exec[w] = Idle
  BY DEF Init
<1>3. Passed
  <2>1. \A u \in Stage : ~(u < stage)
    BY <1>2, ConstantsFacts
  <2>2. QED
    BY <2>1 DEF Passed
<1>4. Fixed
  <2>1. ASSUME NEW s \in Stage PROVE ~Touched(s)
    <3>1. \A id \in Id : <<s, id>> \in Key
      BY DEF Key
    <3>2. QED
      BY <1>2, <3>1 DEF Touched
  <2>2. QED
    BY <2>1 DEF Fixed
<1>5. Planned
  BY <1>2 DEF Planned, ToSet
<1>6. Begun /\ Written /\ Writing
  BY <1>2 DEF Begun, Written, Writing
<1>7. QED
  BY <1>1, <1>3, <1>4, <1>5, <1>6 DEF FrozenInv

LEMMA FrozenInductive == FrozenInv /\ [Next]_vars => FrozenInv'
<1> SUFFICES ASSUME FrozenInv, [Next]_vars PROVE FrozenInv'
  OBVIOUS
<1>0. TypeInv /\ Passed /\ Fixed /\ Planned /\ Begun /\ Written /\ Writing
  BY DEF FrozenInv
<1>1. TypeInv'
  BY <1>0, TypeInductive
<1>2. Passed'
  BY <1>0, PassedStays
<1>3. Fixed'
  BY <1>0, <1>1, <1>2, FixedStays
<1>4. Planned'
  BY <1>0, <1>1, <1>2, PlannedStays
<1>5. Begun'
  BY <1>0, BegunStays
<1>6. Written'
  BY <1>0, <1>1, WrittenStays
<1>7. Writing'
  BY <1>0, <1>1, WritingStays
<1>8. QED
  BY <1>1, <1>2, <1>3, <1>4, <1>5, <1>6, <1>7 DEF FrozenInv

(* While it may be resumed from, the data of a chunk that is marked done    *)
(* does not change any more: another worker that still writes it after its  *)
(* lease lapsed puts the parts that are there, as it reads what the first   *)
(* one read (store.py:175-182, worker.py:52-61, context.py:50-119).         *)
THEOREM DoneStaysFrozen == Spec => DoneIsFrozen
<1>1. Spec => []FrozenInv
  BY InitFrozen, FrozenInductive, PTL DEF Spec
<1>2. FrozenInv /\ [Next]_vars =>
        [\A k \in results : Settled[k[1]] => parts'[k] = parts[k]]_vars
  <2>1. ASSUME FrozenInv, [Next]_vars
        PROVE  [\A k \in results : Settled[k[1]] => parts'[k] = parts[k]]_vars
    <3>1. Frozen
      BY <2>1, FrozenStep DEF FrozenInv
    <3>2. QED
      BY <3>1 DEF Frozen
  <2>2. QED
    BY <2>1
<1>3. QED
  BY <1>1, <1>2, PTL DEF Spec, DoneIsFrozen

-----------------------------------------------------------------------------
(* All the parts, one after the other, are the rows.                        *)

(* The rows that the first n parts hold.                                    *)
Upto(rows, n) == IF Start(n + 1) <= Len(rows) THEN Start(n + 1) ELSE Len(rows)

LEMMA PieceNext ==
  ASSUME NEW rows \in Seq(Row), NEW n \in Nat, Start(n + 1) < Len(rows)
  PROVE  Cat(SubSeq(rows, 1, Upto(rows, n)), Piece(rows, n + 1)) = SubSeq(rows, 1, Upto(rows, n + 1))
<1>1. PICK l \in Nat : l = Len(rows)
  BY LenProperties
<1>2. n + 1 \in Nat \ {0} /\ (n + 1) + 1 \in Nat \ {0} /\ Cap \in Nat /\ Cap > 0
  BY ConstantsFacts
<1>3. PICK a \in Nat : a = Start(n + 1) /\ Start((n + 1) + 1) = a + Cap
  BY <1>2, StartFacts
<1>4. a < l /\ Upto(rows, n) = a
  BY <1>1, <1>3 DEF Upto
<1>5. PICK c \in a .. l : c = IF a + Cap <= l THEN a + Cap ELSE l
  BY <1>2, <1>4
<1>6. Upto(rows, n + 1) = c
  BY <1>1, <1>3, <1>5 DEF Upto
<1>7. Piece(rows, n + 1) = SubSeq(rows, a + 1, c)
  BY <1>1, <1>3, <1>5 DEF Piece
<1>8. SubSeq(rows, 1, a) \o SubSeq(rows, a + 1, c) = SubSeq(rows, 1, c)
  <2>1. 1 \in 1 .. Len(rows) + 1 /\ a \in 1 - 1 .. Len(rows) /\ c \in a .. Len(rows)
    BY <1>1, <1>4
  <2>2. QED
    BY <2>1, ConcatAdjacentSubSeq
<1>9. QED
  BY <1>4, <1>6, <1>7, <1>8, Zenon DEF Cat

LEMMA PiecesFlatten ==
  ASSUME NEW rows \in Seq(Row)
  PROVE  \A q \in Seq(Seq(Row)) :
            PiecesOf(q, rows) => FlattenSeq(q) = SubSeq(rows, 1, Upto(rows, Len(q)))
<1> DEFINE P == {q \in Seq(Seq(Row)) :
            PiecesOf(q, rows) => FlattenSeq(q) = SubSeq(rows, 1, Upto(rows, Len(q)))}
<1>0. PICK l \in Nat : l = Len(rows)
  BY LenProperties
<1>1. <<>> \in P
  <2>1. <<>> \in Seq(Seq(Row)) /\ Len(<<>>) = 0
    BY EmptySeq
  <2>2. Upto(rows, 0) = 0
    BY <1>0, StartFacts DEF Upto
  <2>3. SubSeq(rows, 1, 0) = <<>>
    BY SubSeqEmpty
  <2>4. FlattenSeq(<<>>) = <<>>
    BY FlattenSteps
  <2>5. QED
    BY <2>1, <2>2, <2>3, <2>4, Zenon
<1>2. ASSUME NEW q \in Seq(Seq(Row)), NEW x \in Seq(Row), q \in P PROVE Append(q, x) \in P
  <2>1. PICK n \in Nat : n = Len(q) /\ DOMAIN q = 1 .. n
    BY LenProperties
  <2>2. PICK r : /\ r = Append(q, x) /\ r \in Seq(Seq(Row)) /\ Len(r) = n + 1
                 /\ \A i \in 1 .. n : r[i] = q[i]
                 /\ r[n + 1] = x
    <3>1. /\ Append(q, x) \in Seq(Seq(Row)) /\ Len(Append(q, x)) = n + 1
          /\ \A i \in 1 .. n : Append(q, x)[i] = q[i]
          /\ Append(q, x)[n + 1] = x
      BY <2>1, AppendProperties
    <3>2. QED
      BY <3>1
  <2>3. DOMAIN r = 1 .. n + 1
    BY <2>2, LenProperties
  <2> SUFFICES ASSUME PiecesOf(r, rows)
               PROVE  FlattenSeq(r) = SubSeq(rows, 1, Upto(rows, n + 1))
    BY <2>2
  <2>4. PiecesOf(q, rows)
    <3>1. \A i \in 1 .. n : i \in 1 .. n + 1
      OBVIOUS
    <3>2. QED
      BY <2>1, <2>2, <2>3, <3>1 DEF PiecesOf
  <2>5. Start(n + 1) < Len(rows) /\ x = Piece(rows, n + 1)
    <3>1. n + 1 \in 1 .. n + 1
      OBVIOUS
    <3>2. QED
      BY <2>2, <2>3, <3>1 DEF PiecesOf
  <2>6. FlattenSeq(q) = SubSeq(rows, 1, Upto(rows, n))
    BY <1>2, <2>1, <2>4
  <2>7. FlattenSeq(r) = Cat(FlattenSeq(q), x)
    BY <2>2, FlattenSteps DEF Cat
  <2>8. Cat(SubSeq(rows, 1, Upto(rows, n)), Piece(rows, n + 1)) = SubSeq(rows, 1, Upto(rows, n + 1))
    BY <2>5, PieceNext
  <2>9. QED
    BY <2>5, <2>6, <2>7, <2>8, Zenon
<1>3. Seq(Seq(Row)) \subseteq P
  <2> HIDE DEF P
  <2>1. QED
    BY <1>1, <1>2, SequenceInduct
<1>4. QED
  BY <1>3

LEMMA WholeFlattens ==
  ASSUME NEW q \in Seq(Seq(Row)), NEW rows \in Seq(Row), Whole(q, rows)
  PROVE  FlattenSeq(q) = rows
<1>1. PICK l \in Nat : l = Len(rows)
  BY LenProperties
<1>2. PICK n \in Nat : n = Len(q) /\ n + 1 \in Nat \ {0}
  BY LenProperties
<1>3. Start(n + 1) \in Nat /\ l <= Start(n + 1)
  BY <1>1, <1>2, StartFacts DEF Whole
<1>4. Upto(rows, n) = l
  BY <1>1, <1>3 DEF Upto
<1>5. FlattenSeq(q) = SubSeq(rows, 1, Upto(rows, Len(q)))
  BY PiecesFlatten DEF Whole
<1>6. SubSeq(rows, 1, Len(rows)) = rows
  BY SubSeqFull
<1>7. QED
  BY <1>1, <1>2, <1>4, <1>5, <1>6

-----------------------------------------------------------------------------
(* What the tasks of a stage cover of what is upstream.                     *)

Mem == [t \in Task |-> t.members]
Flat(q) == FlattenSeq(Members(q))

LEMMA FlatSpreads ==
  /\ Maps(Mem, Task, Id)
  /\ \A q \in Seq(Task) : Flat(q) = Spread(Mem, q) /\ Flat(q) \in Seq(Id)
<1>1. \A t \in Task : t.members \in Seq(Id)
  BY DEF Task
<1>2. Maps(Mem, Task, Id)
  BY <1>1 DEF Maps, Mem
<1>3. ASSUME NEW q \in Seq(Task) PROVE Flat(q) = Spread(Mem, q)
  <2>1. \A i \in DOMAIN q : q[i] \in Task
    BY ElementOfSeq, LenProperties
  <2>2. \A i \in DOMAIN q : Mem[q[i]] = q[i].members
    BY <2>1 DEF Mem
  <2>3. Members(q) = [i \in DOMAIN q |-> Mem[q[i]]]
    BY <2>2 DEF Members
  <2>4. QED
    BY <2>3 DEF Flat, Spread
<1>4. \A q \in Seq(Task) : Spread(Mem, q) \in Seq(Id)
  BY <1>2, SpreadSteps
<1>5. QED
  BY <1>2, <1>3, <1>4

LEMMA FlatCat ==
  ASSUME NEW p \in Seq(Task), NEW q \in Seq(Task)
  PROVE  Flat(Cat(p, q)) = Cat(Flat(p), Flat(q))
<1>1. HaveMembers(Task, Id)
  BY PlannedHaveMembers
<1>2. FlattenSeq(Members(p \o q)) = FlattenSeq(Members(p)) \o FlattenSeq(Members(q))
  BY <1>1, MembersConcat
<1>3. QED
  BY <1>2, Zenon DEF Flat, Cat

(* Chunks with a single number are no parts of others.                      *)
Single == {t \in Task : Len(t.id) = 1}

(* The tasks q have each of some of the chunks u once, those that are no    *)
(* parts of others in the order of u.                                       *)
Covers(q, u) ==
    /\ IsInjective(Flat(q))
    /\ ToSet(Flat(q)) \subseteq ToSet(u)
    /\ Flat(Only(q, Single)) = Only(u, ToSet(Flat(Only(q, Single))))

(* No two have the same id. *)
DistinctIds(q) == \A s, t \in ToSet(q) : s.id = t.id => s = t

LEMMA CoversAll ==
  ASSUME NEW q \in Seq(Task), NEW u \in Seq(Id), IsInjective(u), Flat(q) = u
  PROVE  Covers(q, u)
<1>1. Maps(Mem, Task, Id) /\ Flat(q) = Spread(Mem, q)
  BY FlatSpreads
<1>2. PICK o \in Seq(Task) : o = Only(q, Single)
  BY OnlyFacts
<1>3. Flat(o) = Spread(Mem, o)
  BY FlatSpreads
<1>4. IsInjective(Spread(Mem, q))
  BY <1>1
<1>5. Spread(Mem, Only(q, Single)) = Only(Spread(Mem, q), ToSet(Spread(Mem, Only(q, Single))))
  BY <1>1, <1>4, SpreadOnly
<1>6. Flat(o) = Only(u, ToSet(Flat(o)))
  BY <1>1, <1>2, <1>3, <1>5
<1>7. QED
  BY <1>2, <1>6 DEF Covers

(* Where a task t is taken out, its members are and no others.              *)
LEMMA FlatWithout ==
  ASSUME NEW q \in Seq(Task), IsInjective(Flat(q)), DistinctIds(q), NEW t \in ToSet(q),
         NEW r, r = Without(q, t.id)
  PROVE  /\ r \in Seq(Task)
         /\ IsInjective(Flat(r))
         /\ ToSet(Flat(r)) = ToSet(Flat(q)) \ ToSet(t.members)
         /\ ToSet(t.members) \subseteq ToSet(Flat(q)) /\ IsInjective(t.members)
<1> DEFINE R == {c \in ToSet(q) : c.id # t.id}
<1>1. Maps(Mem, Task, Id) /\ Flat(q) = Spread(Mem, q) /\ Flat(q) \in Seq(Id)
  BY FlatSpreads
<1>2. r = Only(q, R)
  BY DEF Without
<1>3. r \in Seq(Task) /\ ToSet(r) = ToSet(q) \cap R
  BY <1>2, OnlyFacts
<1>4. Flat(r) = Spread(Mem, r)
  BY <1>3, FlatSpreads
<1>5. ToSet(q) \subseteq Task
  BY ElementOfSeq, LenProperties DEF ToSet
<1>6. Mem[t] = t.members /\ t \in Task
  BY <1>5 DEF Mem
<1> HIDE DEF R
<1>7. IsInjective(Spread(Mem, q))
  BY <1>1
<1>8. Spread(Mem, Only(q, R)) = Only(Spread(Mem, q), ToSet(Spread(Mem, Only(q, R))))
  BY <1>1, <1>7, SpreadOnly
<1>9. IsInjective(Flat(r))
  <2>1. Flat(r) = Only(Flat(q), ToSet(Flat(r)))
    BY <1>1, <1>2, <1>4, <1>8
  <2>2. IsInjective(Only(Flat(q), ToSet(Flat(r))))
    BY <1>1, OnlyInjective
  <2>3. QED
    BY <2>1, <2>2
<1>10. Separate(Mem, ToSet(q))
  BY <1>1, <1>7, SpreadApart
<1>11. \A x : x \in ToSet(Flat(q)) <=> \E c \in ToSet(q) : x \in ToSet(Mem[c])
  BY <1>1, SpreadHas
<1>12. \A x : x \in ToSet(Flat(r)) <=> \E c \in ToSet(r) : x \in ToSet(Mem[c])
  BY <1>1, <1>3, <1>4, SpreadHas
<1>13. \A c \in ToSet(q) : c \in ToSet(r) <=> c # t
  BY <1>3 DEF R, DistinctIds
<1>14. ToSet(r) \subseteq ToSet(q)
  BY <1>3
<1>15. \A c \in ToSet(r) : ToSet(Mem[c]) \cap ToSet(t.members) = {}
  BY <1>6, <1>10, <1>13, <1>14 DEF Separate
<1>16. ToSet(Flat(r)) = ToSet(Flat(q)) \ ToSet(t.members)
  <2>1. ASSUME NEW x \in ToSet(Flat(r)) PROVE x \in ToSet(Flat(q)) /\ x \notin ToSet(t.members)
    BY <1>11, <1>12, <1>14, <1>15
  <2>2. ASSUME NEW x \in ToSet(Flat(q)), x \notin ToSet(t.members) PROVE x \in ToSet(Flat(r))
    BY <1>6, <1>11, <1>12, <1>13, <2>2
  <2>3. QED
    BY <2>1, <2>2
<1>17. ToSet(t.members) \subseteq ToSet(Flat(q)) /\ IsInjective(t.members)
  BY <1>6, <1>10, <1>11 DEF Separate
<1>18. QED
  BY <1>3, <1>9, <1>16, <1>17

(* A task that is taken out, and parts of it that come last.                *)
LEMMA CoversReplaced ==
  ASSUME NEW q \in Seq(Task), NEW u \in Seq(Id), Covers(q, u),
         NEW t \in ToSet(q), NEW r \in Seq(Task), \E R : r = Only(q, R),
         IsInjective(Flat(r)), ToSet(Flat(r)) = ToSet(Flat(q)) \ ToSet(t.members),
         ToSet(t.members) \subseteq ToSet(Flat(q)), NEW new \in Seq(Task),
         ToSet(Flat(new)) \subseteq ToSet(t.members), IsInjective(Flat(new)),
         ToSet(new) \cap Single = {}
  PROVE  /\ Covers(Cat(r, new), u)
         /\ ToSet(Flat(Cat(r, new))) = (ToSet(Flat(q)) \ ToSet(t.members)) \cup ToSet(Flat(new))
<1>0. IsInjective(Flat(q)) /\ ToSet(Flat(q)) \subseteq ToSet(u)
  BY DEF Covers
<1>1. PICK p : p = Cat(r, new)
  OBVIOUS
<1>2. /\ r \in Seq(Task)
      /\ IsInjective(Flat(r))
      /\ ToSet(Flat(r)) = ToSet(Flat(q)) \ ToSet(t.members)
      /\ ToSet(t.members) \subseteq ToSet(Flat(q))
  OBVIOUS
<1>3. p \in Seq(Task) /\ p = r \o new
  <2>1. p = r \o new
    BY <1>1, Zenon DEF Cat
  <2>2. QED
    BY <2>1, ConcatSet
<1>4. Flat(r) \in Seq(Id) /\ Flat(new) \in Seq(Id)
  BY <1>2, FlatSpreads
<1>5. Flat(p) = Flat(r) \o Flat(new)
  <2>1. Flat(Cat(r, new)) = Cat(Flat(r), Flat(new))
    BY <1>2, FlatCat
  <2>2. QED
    BY <1>3, <2>1, Zenon DEF Cat
<1>6. /\ ToSet(Flat(r) \o Flat(new)) = ToSet(Flat(r)) \cup ToSet(Flat(new))
      /\ IsInjective(Flat(r)) /\ IsInjective(Flat(new)) /\ ToSet(Flat(r)) \cap ToSet(Flat(new)) = {}
           => IsInjective(Flat(r) \o Flat(new))
  BY <1>4, ConcatSet
<1>7. ToSet(Flat(r)) \cap ToSet(Flat(new)) = {}
  BY <1>2
<1>8. IsInjective(Flat(p))
  BY <1>2, <1>5, <1>6, <1>7
<1>9. ToSet(Flat(p)) = (ToSet(Flat(q)) \ ToSet(t.members)) \cup ToSet(Flat(new))
  BY <1>2, <1>5, <1>6
<1>10. ToSet(Flat(p)) \subseteq ToSet(u)
  BY <1>0, <1>2, <1>9
<1>11. PICK o \in Seq(Task) : o = Only(q, Single)
  BY OnlyFacts
<1>12. PICK R : r = Only(q, R)
  OBVIOUS
<1>13. Only(p, Single) = Only(o, R)
  <2>1. Only(new, Single) = <<>>
    BY OnlyNone
  <2>2. Only(r \o new, Single) = Only(r, Single) \o Only(new, Single)
    <3>1. Only(Cat(r, new), Single) = Cat(Only(r, Single), Only(new, Single))
      BY OnlyCat
    <3>2. QED
      BY <3>1, Zenon DEF Cat
  <2>3. Only(r, Single) \o <<>> = Only(r, Single)
    BY <1>2, OnlyFacts, ConcatEmptySeq
  <2>4. Only(Only(q, R), Single) = Only(q, R \cap Single)
    BY OnlyOnly
  <2>5. Only(Only(q, Single), R) = Only(q, Single \cap R)
    BY OnlyOnly
  <2>6. R \cap Single = Single \cap R
    OBVIOUS
  <2>7. QED
    BY <1>3, <1>11, <1>12, <2>1, <2>2, <2>3, <2>4, <2>5, <2>6
<1>14. PICK w \in Seq(Id) : w = Flat(o) /\ w = Only(u, ToSet(w))
  BY <1>11, FlatSpreads DEF Covers
<1>15. IsInjective(w)
  <2>1. Maps(Mem, Task, Id) /\ Flat(q) = Spread(Mem, q) /\ Flat(q) \in Seq(Id)
    BY FlatSpreads
  <2>2. IsInjective(Spread(Mem, q))
    BY <1>0, <2>1
  <2>3. Spread(Mem, Only(q, Single)) = Only(Spread(Mem, q), ToSet(Spread(Mem, Only(q, Single))))
    BY <2>1, <2>2, SpreadOnly
  <2>4. w = Spread(Mem, o)
    BY <1>14, FlatSpreads
  <2>5. w = Only(Flat(q), ToSet(w))
    BY <1>11, <2>1, <2>3, <2>4
  <2>6. IsInjective(Only(Flat(q), ToSet(w)))
    BY <1>0, <2>1, OnlyInjective
  <2>7. QED
    BY <2>5, <2>6
<1>16. PICK v \in Seq(Id) : v = Flat(Only(p, Single)) /\ v = Only(w, ToSet(v))
  <2>1. Maps(Mem, Task, Id) /\ w = Spread(Mem, o)
    BY <1>14, FlatSpreads
  <2>2. IsInjective(Spread(Mem, o))
    BY <1>15, <2>1
  <2>3. Spread(Mem, Only(o, R)) = Only(Spread(Mem, o), ToSet(Spread(Mem, Only(o, R))))
    BY <2>1, <2>2, SpreadOnly
  <2>4. PICK n \in Seq(Task) : n = Only(o, R)
    BY OnlyFacts
  <2>5. Flat(n) = Spread(Mem, n) /\ Flat(n) \in Seq(Id)
    BY FlatSpreads
  <2>6. Flat(n) = Only(w, ToSet(Flat(n)))
    BY <2>1, <2>3, <2>4, <2>5
  <2>7. QED
    BY <1>13, <2>4, <2>5, <2>6
<1>17. ToSet(v) \subseteq ToSet(w)
  <2>1. ToSet(Only(w, ToSet(v))) = ToSet(w) \cap ToSet(v)
    BY OnlyFacts
  <2>2. QED
    BY <1>16, <2>1
<1>18. v = Only(u, ToSet(v))
  <2>1. Only(Only(u, ToSet(w)), ToSet(v)) = Only(u, ToSet(w) \cap ToSet(v))
    BY OnlyOnly
  <2>2. ToSet(w) \cap ToSet(v) = ToSet(v)
    BY <1>17
  <2>3. Only(w, ToSet(v)) = Only(u, ToSet(w) \cap ToSet(v))
    BY <1>14, <2>1
  <2>4. QED
    BY <1>16, <2>2, <2>3
<1>19. Covers(p, u)
  BY <1>8, <1>10, <1>16, <1>18 DEF Covers
<1>20. QED
  BY <1>1, <1>9, <1>19

-----------------------------------------------------------------------------
(* What is found of a stage from the one it reads, down to the source.      *)

Descend(f, V, z, D, n) ==
    /\ f \in [0 .. n -> V]
    /\ f[0] = z
    /\ \A s \in 1 .. n : f[s] = D[s][f[Reads[s]]]

LEMMA ReadsBefore ==
  ASSUME NEW n \in Nat, n <= Len(Reads), NEW s \in 1 .. n
  PROVE  s \in Stage /\ Reads[s] \in 0 .. n /\ Reads[s] < s /\ Reads[s] \in Nat
<1>1. PICK l \in Nat : l = Len(Reads) /\ Stage = 1 .. l
  BY ConstantsFacts
<1>2. s \in Stage
  BY <1>1
<1>3. Reads[s] \in Nat /\ Reads[s] < s
  BY <1>2, ConstantsFacts
<1>4. QED
  BY <1>2, <1>3

LEMMA DescendExists ==
  ASSUME NEW V, NEW z \in V, NEW D \in [Stage -> [V -> V]]
  PROVE  \A n \in Nat : n <= Len(Reads) => \E f : Descend(f, V, z, D, n)
<1> DEFINE N == {n \in Nat : n <= Len(Reads) => \E f : Descend(f, V, z, D, n)}
<1>0. PICK l \in Nat : l = Len(Reads) /\ Stage = 1 .. l
  BY ConstantsFacts
<1>1. 0 \in N
  <2>1. Descend([s \in 0 .. 0 |-> z], V, z, D, 0)
    BY DEF Descend
  <2>2. QED
    BY <2>1
<1>2. ASSUME NEW n \in Nat, n \in N PROVE n + 1 \in N
  <2> SUFFICES ASSUME n + 1 <= l PROVE \E f : Descend(f, V, z, D, n + 1)
    BY <1>0
  <2>1. PICK f : Descend(f, V, z, D, n)
    BY <1>0, <1>2
  <2>2. PICK r \in 0 .. n : r = Reads[n + 1] /\ n + 1 \in Stage
    <3>1. n + 1 \in 1 .. n + 1 /\ n + 1 \in Nat /\ n + 1 <= Len(Reads)
      BY <1>0
    <3>2. Reads[n + 1] \in Nat /\ Reads[n + 1] < n + 1 /\ n + 1 \in Stage
      BY <3>1, ReadsBefore
    <3>3. QED
      BY <3>2
  <2>3. PICK x \in V : x = D[n + 1][f[r]]
    BY <2>1, <2>2 DEF Descend
  <2>4. PICK g : g = [s \in 0 .. n + 1 |-> IF s = n + 1 THEN x ELSE f[s]]
    OBVIOUS
  <2>5. \A s \in 0 .. n : g[s] = f[s] /\ f[s] \in V
    BY <2>1, <2>4 DEF Descend
  <2>6. g[n + 1] = x
    BY <2>4
  <2>7. g \in [0 .. n + 1 -> V]
    BY <2>4, <2>5
  <2>8. g[0] = z
    BY <2>1, <2>5 DEF Descend
  <2>9. ASSUME NEW s \in 1 .. n + 1 PROVE g[s] = D[s][g[Reads[s]]]
    <3>1. CASE s = n + 1
      BY <3>1, <2>2, <2>3, <2>5, <2>6
    <3>2. CASE s # n + 1
      <4>1. s \in 1 .. n
        BY <3>2
      <4>2. Reads[s] \in 0 .. n
        BY <1>0, <4>1, ReadsBefore
      <4>3. f[s] = D[s][f[Reads[s]]]
        BY <2>1, <4>1 DEF Descend
      <4>4. g[s] = f[s] /\ g[Reads[s]] = f[Reads[s]]
        BY <2>5, <4>1, <4>2
      <4>5. QED
        BY <4>3, <4>4
    <3>3. QED
      BY <3>1, <3>2
  <2>10. Descend(g, V, z, D, n + 1)
    BY <2>7, <2>8, <2>9 DEF Descend
  <2>11. QED
    BY <2>10
<1>3. Nat \subseteq N
  <2> HIDE DEF N
  <2>1. QED
    BY <1>1, <1>2, Induct
<1>4. QED
  BY <1>3

(* Where it goes by the same up to a stage, it is the same.                 *)
LEMMA DescendSame ==
  ASSUME NEW V, NEW z, NEW D, NEW E, NEW f, NEW g, NEW l \in Nat, l = Len(Reads),
         Descend(f, V, z, D, l), Descend(g, V, z, E, l),
         NEW n \in Nat, n <= l, \A s \in 1 .. n : D[s] = E[s]
  PROVE  \A s \in 0 .. n : f[s] = g[s]
<1> DEFINE N == {k \in Nat : \A s \in 0 .. n : s <= k => f[s] = g[s]}
<1>1. 0 \in N
  <2>1. f[0] = g[0]
    BY DEF Descend
  <2>2. QED
    BY <2>1
<1>2. ASSUME NEW k \in Nat, k \in N PROVE k + 1 \in N
  <2> SUFFICES ASSUME NEW s \in 0 .. n, s <= k + 1 PROVE f[s] = g[s]
    OBVIOUS
  <2>1. CASE s <= k
    BY <1>2, <2>1
  <2>2. CASE s = k + 1
    <3>1. s \in 1 .. l /\ s \in 1 .. n
      BY <2>2
    <3>2. Reads[s] \in 0 .. n /\ Reads[s] <= k
      <4>1. Reads[s] \in Nat /\ Reads[s] < s
        BY <3>1, ReadsBefore
      <4>2. QED
        BY <2>2, <4>1
    <3>3. f[Reads[s]] = g[Reads[s]]
      BY <1>2, <3>2
    <3>4. f[s] = D[s][f[Reads[s]]] /\ g[s] = E[s][g[Reads[s]]]
      BY <3>1 DEF Descend
    <3>5. D[s] = E[s]
      BY <3>1
    <3>6. QED
      BY <3>3, <3>4, <3>5
  <2>3. QED
    BY <2>1, <2>2
<1>3. Nat \subseteq N
  <2> HIDE DEF N
  <2>1. QED
    BY <1>1, <1>2, Induct
<1>4. QED
  BY <1>3

(* LostBefore, of what each stage has lost.                                 *)
LostIn(ls) ==
    CHOOSE f : f = [s \in 0 .. Len(Reads) |-> IF s = 0 THEN {} ELSE ls[s] \cup f[Reads[s]]]
LostStep(ls) == [s \in Stage |-> [x \in SUBSET Row |-> ls[s] \cup x]]

LEMMA LostDescends ==
  ASSUME NEW ls \in [Stage -> SUBSET Row], NEW l \in Nat, l = Len(Reads)
  PROVE  Descend(LostIn(ls), SUBSET Row, {}, LostStep(ls), l)
<1>0. Stage = 1 .. l
  BY ConstantsFacts
<1>1. LostStep(ls) \in [Stage -> [SUBSET Row -> SUBSET Row]]
  BY DEF LostStep
<1>2. \A s \in Stage, x \in SUBSET Row : LostStep(ls)[s][x] = ls[s] \cup x
  BY DEF LostStep
<1>3. PICK f : Descend(f, SUBSET Row, {}, LostStep(ls), l)
  <2>1. {} \in SUBSET Row /\ l <= Len(Reads)
    OBVIOUS
  <2>2. \A n \in Nat : n <= Len(Reads) => \E f : Descend(f, SUBSET Row, {}, LostStep(ls), n)
    BY <1>1, <2>1, DescendExists
  <2>3. QED
    BY <2>1, <2>2
<1> DEFINE G(g) == [s \in 0 .. Len(Reads) |-> IF s = 0 THEN {} ELSE ls[s] \cup g[Reads[s]]]
<1>4. f = G(f)
  <2>1. ASSUME NEW s \in 0 .. l PROVE f[s] = IF s = 0 THEN {} ELSE ls[s] \cup f[Reads[s]]
    <3>1. CASE s = 0
      BY <3>1, <1>3 DEF Descend
    <3>2. CASE s # 0
      <4>1. s \in 1 .. l
        BY <3>2
      <4>2. Reads[s] \in 0 .. l
        BY <4>1, ReadsBefore
      <4>3. f[Reads[s]] \in SUBSET Row /\ f[s] = LostStep(ls)[s][f[Reads[s]]]
        BY <1>3, <4>1, <4>2 DEF Descend
      <4>4. s \in Stage
        BY <1>0, <4>1
      <4>5. QED
        BY <1>2, <3>2, <4>3, <4>4
    <3>3. QED
      BY <3>1, <3>2
  <2>2. f = [s \in 0 .. l |-> f[s]]
    BY <1>3 DEF Descend
  <2>3. QED
    BY <2>1, <2>2
<1>5. LostIn(ls) = G(LostIn(ls))
  <2>1. LostIn(ls) = CHOOSE g : g = G(g)
    BY DEF LostIn
  <2>2. \E g : g = G(g)
    BY <1>4
  <2> HIDE DEF G
  <2>3. QED
    BY <2>1, <2>2, Zenon
<1>6. PICK h : h = LostIn(ls)
  OBVIOUS
<1>7. h = [s \in 0 .. l |-> IF s = 0 THEN {} ELSE ls[s] \cup h[Reads[s]]]
  BY <1>5, <1>6
<1>8. \A s \in 0 .. l : h[s] = IF s = 0 THEN {} ELSE ls[s] \cup h[Reads[s]]
  BY <1>7
<1>9. \A n \in Nat : n <= l => \A s \in 0 .. n : h[s] \in SUBSET Row
  <2> DEFINE N == {n \in Nat : n <= l => \A s \in 0 .. n : h[s] \in SUBSET Row}
  <2>1. 0 \in N
    <3>1. 0 \in 0 .. l
      OBVIOUS
    <3>2. h[0] = {}
      BY <1>8, <3>1
    <3>3. \A s \in 0 .. 0 : s = 0
      OBVIOUS
    <3>4. QED
      BY <3>2, <3>3
  <2>2. ASSUME NEW n \in Nat, n \in N PROVE n + 1 \in N
    <3> SUFFICES ASSUME n + 1 <= l, NEW s \in 0 .. n + 1 PROVE h[s] \in SUBSET Row
      OBVIOUS
    <3>1. CASE s \in 0 .. n
      BY <3>1, <2>2
    <3>2. CASE s = n + 1
      <4>1. s \in 1 .. l /\ s # 0 /\ s \in 0 .. l
        BY <3>2
      <4>2. Reads[s] \in Nat /\ Reads[s] < s /\ s \in Stage
        BY <4>1, ReadsBefore
      <4>3. Reads[s] \in 0 .. n
        BY <3>2, <4>2
      <4>4. h[Reads[s]] \in SUBSET Row
        BY <2>2, <4>3
      <4>5. h[s] = ls[s] \cup h[Reads[s]]
        BY <1>8, <4>1
      <4>6. ls[s] \in SUBSET Row
        BY <4>2
      <4>7. QED
        BY <4>4, <4>5, <4>6
    <3>3. s \in 0 .. n \/ s = n + 1
      OBVIOUS
    <3>4. QED
      BY <3>1, <3>2, <3>3
  <2>3. Nat \subseteq N
    <3> HIDE DEF N
    <3>1. QED
      BY <2>1, <2>2, Induct
  <2>4. QED
    BY <2>3
<1>10. h \in [0 .. l -> SUBSET Row]
  <2>1. l <= l
    OBVIOUS
  <2>2. \A s \in 0 .. l : h[s] \in SUBSET Row
    BY <1>9, <2>1
  <2>3. QED
    BY <1>7, <2>2
<1>11. h[0] = {}
  <2>1. 0 \in 0 .. l
    OBVIOUS
  <2>2. QED
    BY <1>8, <2>1
<1>12. \A s \in 1 .. l : h[s] = LostStep(ls)[s][h[Reads[s]]]
  <2> SUFFICES ASSUME NEW s \in 1 .. l PROVE h[s] = LostStep(ls)[s][h[Reads[s]]]
    OBVIOUS
  <2>1. Reads[s] \in 0 .. l /\ s \in Stage
    BY ReadsBefore
  <2>2. h[Reads[s]] \in SUBSET Row
    BY <1>10, <2>1
  <2>3. h[s] = ls[s] \cup h[Reads[s]]
    <3>1. s \in 0 .. l /\ s # 0
      OBVIOUS
    <3>2. QED
      BY <1>8, <3>1
  <2>4. QED
    BY <1>2, <2>1, <2>2, <2>3
<1>13. QED
  BY <1>6, <1>10, <1>11, <1>12 DEF Descend

(* Unsplit, of the manifests.                                               *)
UnsplitIn(mf) ==
    CHOOSE f : f = [s \in 0 .. Len(Reads) |->
                       s = 0 \/ (f[Reads[s]] /\ \A c \in ToSet(mf[s]) : Len(c.id) = 1)]
Unparted(mf, s) == \A c \in ToSet(mf[s]) : Len(c.id) = 1
UnsplitStep(mf) == [s \in Stage |-> [x \in BOOLEAN |-> x /\ Unparted(mf, s)]]

LEMMA UnsplitDescends ==
  ASSUME NEW mf, NEW l \in Nat, l = Len(Reads)
  PROVE  Descend(UnsplitIn(mf), BOOLEAN, TRUE, UnsplitStep(mf), l)
<1>0. Stage = 1 .. l
  BY ConstantsFacts
<1>1. UnsplitStep(mf) \in [Stage -> [BOOLEAN -> BOOLEAN]]
  <2>1. \A s \in Stage, x \in BOOLEAN : (x /\ Unparted(mf, s)) \in BOOLEAN
    OBVIOUS
  <2>2. \A s \in Stage : [x \in BOOLEAN |-> x /\ Unparted(mf, s)] \in [BOOLEAN -> BOOLEAN]
    BY <2>1, Zenon
  <2>3. QED
    BY <2>2, Zenon DEF UnsplitStep
<1>2. ASSUME NEW s \in Stage, NEW x \in BOOLEAN
      PROVE  UnsplitStep(mf)[s][x] = (x /\ Unparted(mf, s))
  BY Zenon DEF UnsplitStep
<1>3. PICK f : Descend(f, BOOLEAN, TRUE, UnsplitStep(mf), l)
  <2>1. TRUE \in BOOLEAN /\ l <= Len(Reads)
    OBVIOUS
  <2>2. \A n \in Nat : n <= Len(Reads) => \E f : Descend(f, BOOLEAN, TRUE, UnsplitStep(mf), n)
    BY <1>1, <2>1, DescendExists
  <2>3. QED
    BY <2>1, <2>2
<1> DEFINE G(g) == [s \in 0 .. Len(Reads) |->
                       s = 0 \/ (g[Reads[s]] /\ \A c \in ToSet(mf[s]) : Len(c.id) = 1)]
<1>4. f = G(f)
  <2>1. ASSUME NEW s \in 0 .. l PROVE f[s] = (s = 0 \/ (f[Reads[s]] /\ Unparted(mf, s)))
    <3>1. f[s] \in BOOLEAN
      BY <1>3, Zenon DEF Descend
    <3>2. f[s] <=> (s = 0 \/ (f[Reads[s]] /\ Unparted(mf, s)))
      <4>1. CASE s = 0
        <5>1. f[0] = TRUE
          BY <1>3, Zenon DEF Descend
        <5>2. QED
          BY <4>1, <5>1, Zenon
      <4>2. CASE s # 0
        <5>1. s \in 1 .. l
          BY <4>2
        <5>2. Reads[s] \in 0 .. l /\ s \in Stage
          BY <5>1, ReadsBefore
        <5>3. f[Reads[s]] \in BOOLEAN /\ f[s] = UnsplitStep(mf)[s][f[Reads[s]]]
          BY <1>3, <5>1, <5>2, Zenon DEF Descend
        <5>4. f[s] = (f[Reads[s]] /\ Unparted(mf, s))
          BY <1>2, <5>2, <5>3, Zenon
        <5>5. QED
          BY <4>2, <5>4, Zenon
      <4>3. QED
        BY <4>1, <4>2
    <3>3. QED
      BY <3>1, <3>2, Zenon
  <2>2. f = [s \in 0 .. l |-> f[s]]
    BY <1>3, Zenon DEF Descend
  <2>3. f = [s \in 0 .. l |-> s = 0 \/ (f[Reads[s]] /\ Unparted(mf, s))]
    BY <2>1, <2>2, Zenon
  <2>4. QED
    BY <2>3, Zenon DEF Unparted
<1>5. UnsplitIn(mf) = G(UnsplitIn(mf))
  <2>1. UnsplitIn(mf) = CHOOSE g : g = G(g)
    BY DEF UnsplitIn
  <2>2. \E g : g = G(g)
    BY <1>4
  <2> HIDE DEF G
  <2>3. QED
    BY <2>1, <2>2, Zenon
<1>6. PICK h : h = UnsplitIn(mf)
  OBVIOUS
<1>7. h = G(h)
  BY <1>5, <1>6
<1>8. h = [s \in 0 .. l |-> s = 0 \/ (h[Reads[s]] /\ Unparted(mf, s))]
  BY <1>7, Zenon DEF Unparted
<1>9. ASSUME NEW s \in 0 .. l PROVE h[s] = (s = 0 \/ (h[Reads[s]] /\ Unparted(mf, s)))
  BY <1>8, Zenon
<1>10. h \in [0 .. l -> BOOLEAN]
  <2>1. \A s \in 0 .. l : (s = 0 \/ (h[Reads[s]] /\ Unparted(mf, s))) \in BOOLEAN
    OBVIOUS
  <2>2. \A s \in 0 .. l : h[s] \in BOOLEAN
    BY <1>9, <2>1, Zenon
  <2>3. QED
    BY <1>8, <2>2, Zenon
<1>11. h[0] = TRUE
  <2>1. 0 \in 0 .. l
    OBVIOUS
  <2>2. h[0] = (0 = 0 \/ (h[Reads[0]] /\ Unparted(mf, 0)))
    BY <1>9, <2>1, Zenon
  <2>3. QED
    BY <2>2, Zenon
<1>12. ASSUME NEW s \in 1 .. l PROVE h[s] = UnsplitStep(mf)[s][h[Reads[s]]]
  <2>1. s \in 0 .. l /\ s # 0
    OBVIOUS
  <2>2. Reads[s] \in 0 .. l /\ s \in Stage
    BY ReadsBefore
  <2>3. h[Reads[s]] \in BOOLEAN /\ h[s] \in BOOLEAN
    BY <1>10, <2>1, <2>2, Zenon
  <2>4. h[s] = (s = 0 \/ (h[Reads[s]] /\ Unparted(mf, s)))
    BY <1>9, <2>1, Zenon
  <2>5. h[s] = (h[Reads[s]] /\ Unparted(mf, s))
    BY <2>1, <2>3, <2>4, Zenon
  <2>6. QED
    BY <1>2, <2>2, <2>3, <2>5, Zenon
<1>13. QED
  BY <1>6, <1>10, <1>11, <1>12, Zenon DEF Descend

(* Of the state: what each has lost, and whether it is unsplit, is that of  *)
(* the stage it reads and its own.                                          *)
LEMMA LostBeforeFacts ==
  ASSUME lost \in [Stage -> SUBSET Row]
  PROVE  /\ LostBefore[0] = {}
         /\ \A s \in Stage : /\ LostBefore[s] = lost[s] \cup LostBefore[Reads[s]]
                             /\ LostBefore[s] \subseteq Row
<1>1. PICK l \in Nat : l = Len(Reads) /\ Stage = 1 .. l
  BY ConstantsFacts
<1>2. PICK h : h = LostIn(lost)
  OBVIOUS
<1>3. Descend(LostIn(lost), SUBSET Row, {}, LostStep(lost), l)
  BY <1>1, LostDescends
<1>4. Descend(h, SUBSET Row, {}, LostStep(lost), l)
  BY <1>2, <1>3, Zenon
<1>5. LostBefore = h
  BY <1>2 DEF LostBefore, LostIn
<1>6. h[0] = {}
  BY <1>4 DEF Descend
<1>7. ASSUME NEW s \in Stage PROVE h[s] = lost[s] \cup h[Reads[s]] /\ h[s] \subseteq Row
  <2>1. s \in 1 .. l /\ s \in 0 .. l
    BY <1>1
  <2>2. Reads[s] \in 0 .. l
    BY <1>1, <2>1, ReadsBefore
  <2>3. h[Reads[s]] \in SUBSET Row /\ h[s] \in SUBSET Row
    BY <1>4, <2>1, <2>2 DEF Descend
  <2>4. h[s] = LostStep(lost)[s][h[Reads[s]]]
    BY <1>4, <2>1 DEF Descend
  <2>5. LostStep(lost)[s][h[Reads[s]]] = lost[s] \cup h[Reads[s]]
    BY <2>3 DEF LostStep
  <2>6. QED
    BY <2>3, <2>4, <2>5
<1>8. QED
  BY <1>5, <1>6, <1>7

LEMMA UnsplitFacts ==
  \A s \in Stage : Unsplit[s] => /\ Reads[s] # 0 => Unsplit[Reads[s]]
                                 /\ \A c \in ToSet(manifest[s]) : Len(c.id) = 1
<1>1. PICK l \in Nat : l = Len(Reads) /\ Stage = 1 .. l
  BY ConstantsFacts
<1>2. PICK h : h = UnsplitIn(manifest)
  OBVIOUS
<1>3. Descend(UnsplitIn(manifest), BOOLEAN, TRUE, UnsplitStep(manifest), l)
  BY <1>1, UnsplitDescends
<1>4. Descend(h, BOOLEAN, TRUE, UnsplitStep(manifest), l)
  BY <1>2, <1>3, Zenon
<1>5. Unsplit = h
  BY <1>2, Zenon DEF Unsplit, UnsplitIn
<1>6. ASSUME NEW s \in Stage, h[s] PROVE h[Reads[s]] /\ Unparted(manifest, s)
  <2>1. s \in 1 .. l /\ s \in 0 .. l
    BY <1>1
  <2>2. Reads[s] \in 0 .. l
    BY <1>1, <2>1, ReadsBefore
  <2>3. h[Reads[s]] \in BOOLEAN /\ h[s] = UnsplitStep(manifest)[s][h[Reads[s]]]
    BY <1>4, <2>1, <2>2, Zenon DEF Descend
  <2>4. UnsplitStep(manifest)[s][h[Reads[s]]] = (h[Reads[s]] /\ Unparted(manifest, s))
    BY <2>3, Zenon DEF UnsplitStep
  <2>5. h[Reads[s]] /\ Unparted(manifest, s)
    BY <1>6, <2>3, <2>4, Zenon
  <2>6. QED
    BY <2>5
<1>7. QED
  BY <1>5, <1>6, Zenon DEF Unparted

(* Where no stage up to n has lost or split any more, they stay.            *)
LEMMA LostBeforeStays ==
  ASSUME lost \in [Stage -> SUBSET Row], lost' \in [Stage -> SUBSET Row],
         NEW n \in Stage, \A s \in Stage : s <= n => lost'[s] = lost[s]
  PROVE  \A s \in Stage : s <= n => LostBefore'[s] = LostBefore[s]
<1>0. PICK l \in Nat : l = Len(Reads) /\ Stage = 1 .. l
  BY ConstantsFacts
<1>1. PICK h, g, D, E : h = LostIn(lost) /\ g = LostIn(lost')
                        /\ D = LostStep(lost) /\ E = LostStep(lost')
  OBVIOUS
<1>2. LostBefore = h
  BY <1>1 DEF LostBefore, LostIn
<1>3. LostBefore' = g
  BY <1>1 DEF LostBefore, LostIn
<1>4. Descend(LostIn(lost), SUBSET Row, {}, LostStep(lost), l)
  BY <1>0, LostDescends
<1>5. Descend(LostIn(lost'), SUBSET Row, {}, LostStep(lost'), l)
  BY <1>0, LostDescends
<1>6. Descend(h, SUBSET Row, {}, D, l) /\ Descend(g, SUBSET Row, {}, E, l)
  BY <1>1, <1>4, <1>5, Zenon
<1>7. ASSUME NEW s \in 1 .. n PROVE D[s] = E[s]
  <2>1. s \in Stage /\ lost'[s] = lost[s]
    BY <1>0
  <2>2. D[s] = [x \in SUBSET Row |-> lost[s] \cup x] /\ E[s] = [x \in SUBSET Row |-> lost'[s] \cup x]
    BY <1>1, <2>1, Zenon DEF LostStep
  <2>3. QED
    BY <2>1, <2>2, Zenon
<1>8. n \in Nat /\ n <= l
  BY <1>0
<1>9. \A s \in 0 .. n : h[s] = g[s]
  BY <1>0, <1>6, <1>7, <1>8, DescendSame
<1>10. QED
  BY <1>0, <1>2, <1>3, <1>9

LEMMA UnsplitStays ==
  ASSUME NEW n \in Stage, \A s \in Stage : s <= n => manifest'[s] = manifest[s]
  PROVE  \A s \in Stage : s <= n => (Unsplit'[s] <=> Unsplit[s])
<1>0. PICK l \in Nat : l = Len(Reads) /\ Stage = 1 .. l
  BY ConstantsFacts
<1>1. PICK h, g, D, E : h = UnsplitIn(manifest) /\ g = UnsplitIn(manifest')
                        /\ D = UnsplitStep(manifest) /\ E = UnsplitStep(manifest')
  OBVIOUS
<1>2. Unsplit = h
  BY <1>1, Zenon DEF Unsplit, UnsplitIn
<1>3. Unsplit' = g
  BY <1>1, Zenon DEF Unsplit, UnsplitIn
<1>4. Descend(UnsplitIn(manifest), BOOLEAN, TRUE, UnsplitStep(manifest), l)
  BY <1>0, UnsplitDescends
<1>5. Descend(UnsplitIn(manifest'), BOOLEAN, TRUE, UnsplitStep(manifest'), l)
  BY <1>0, UnsplitDescends
<1>6. Descend(h, BOOLEAN, TRUE, D, l) /\ Descend(g, BOOLEAN, TRUE, E, l)
  BY <1>1, <1>4, <1>5, Zenon
<1>7. ASSUME NEW s \in 1 .. n PROVE D[s] = E[s]
  <2>1. s \in Stage /\ manifest'[s] = manifest[s]
    BY <1>0
  <2>2. /\ D[s] = [x \in BOOLEAN |-> x /\ Unparted(manifest, s)]
        /\ E[s] = [x \in BOOLEAN |-> x /\ Unparted(manifest', s)]
    BY <1>1, <2>1, Zenon DEF UnsplitStep
  <2>3. Unparted(manifest', s) <=> Unparted(manifest, s)
    BY <2>1, Zenon DEF Unparted
  <2>4. \A x \in BOOLEAN : (x /\ Unparted(manifest, s)) = (x /\ Unparted(manifest', s))
    BY <2>3
  <2>5. [x \in BOOLEAN |-> x /\ Unparted(manifest, s)] = [x \in BOOLEAN |-> x /\ Unparted(manifest', s)]
    BY <2>4, Zenon
  <2>6. QED
    BY <2>2, <2>5, Zenon
<1>8. n \in Nat /\ n <= l
  BY <1>0
<1>9. \A s \in 0 .. n : h[s] = g[s]
  <2>1. PICK V, z : Descend(h, V, z, D, l) /\ Descend(g, V, z, E, l)
    BY <1>6, Zenon
  <2>2. QED
    BY <1>0, <1>7, <1>8, <2>1, DescendSame
<1>10. ASSUME NEW s \in Stage, s <= n PROVE Unsplit'[s] <=> Unsplit[s]
  <2>1. s \in 0 .. n
    BY <1>0, <1>10
  <2>2. h[s] = g[s]
    BY <1>9, <2>1, Zenon
  <2>3. QED
    BY <1>2, <1>3, <2>2, Zenon
<1>11. QED
  BY <1>10

-----------------------------------------------------------------------------
(* What a stage reads.                                                      *)

(* The chunks upstream of a stage, by their ids, and the rows of each.      *)
Upstream(s) == Ids(UpstreamChunks(s))
ReadsOf(s) ==
    [m \in ToSet(Upstream(s)) |->
        IF Reads[s] = 0 THEN MemberRows(m[1]) ELSE ChunkRows(<<Reads[s], m>>)]

LEMMA IdsType ==
  ASSUME NEW up \in Seq(Chunk), NEW n \in Nat, n = Len(up)
  PROVE  /\ Ids(up) \in Seq(Id) /\ Len(Ids(up)) = n /\ DOMAIN Ids(up) = 1 .. n
         /\ \A i \in 1 .. n : Ids(up)[i] = up[i].id
         /\ \A m : m \in ToSet(Ids(up)) <=> \E i \in 1 .. n : m = up[i].id
<1>1. DOMAIN up = 1 .. n /\ \A i \in 1 .. n : up[i] \in Chunk
  BY ElementOfSeq, LenProperties
<1>2. \A i \in 1 .. n : up[i].id \in Id
  BY <1>1 DEF Chunk
<1>3. PICK q : q = [i \in 1 .. n |-> up[i].id]
  OBVIOUS
<1>4. q = Ids(up)
  BY <1>1, <1>3 DEF Ids
<1>5. q \in [1 .. n -> Id] /\ \A i \in 1 .. n : q[i] = up[i].id
  BY <1>2, <1>3
<1>6. q \in Seq(Id) /\ Len(q) = n /\ DOMAIN q = 1 .. n
  BY <1>5, FunctionSeq
<1>7. \A m : m \in ToSet(q) <=> \E i \in 1 .. n : m = up[i].id
  BY <1>5, <1>6 DEF ToSet
<1>8. QED
  BY <1>4, <1>5, <1>6, <1>7

LEMMA UpstreamIds ==
  ASSUME Tables, NEW s \in Stage
  PROVE  /\ Upstream(s) \in Seq(Id) /\ Upstream(s) \in Seq(ToSet(Upstream(s)))
         /\ Reads[s] = 0 => \A m \in ToSet(Upstream(s)) : \E n \in DOMAIN source : m = <<n>>
<1>1. PICK up \in Seq(Chunk) : up = UpstreamChunks(s)
  BY UpstreamType
<1>2. PICK n \in Nat : n = Len(up) /\ DOMAIN up = 1 .. n
  BY LenProperties
<1>3. PICK q : q = Ids(up)
  OBVIOUS
<1>4. /\ Ids(up) \in Seq(Id)
      /\ \A m : m \in ToSet(Ids(up)) <=> \E i \in 1 .. n : m = up[i].id
  BY <1>2, IdsType
<1>5. q \in Seq(Id) /\ \A m : m \in ToSet(q) <=> \E i \in 1 .. n : m = up[i].id
  BY <1>3, <1>4
<1>6. q \in Seq(ToSet(q))
  BY <1>5, SeqWithin
<1>7. Reads[s] = 0 => \A i \in 1 .. n : i \in DOMAIN source /\ up[i].id = <<i>>
  BY <1>1, <1>2, UpstreamType
<1>8. Reads[s] = 0 => \A m \in ToSet(q) : \E i \in DOMAIN source : m = <<i>>
  <2> SUFFICES ASSUME Reads[s] = 0, NEW m \in ToSet(q) PROVE \E i \in DOMAIN source : m = <<i>>
    OBVIOUS
  <2>1. PICK i \in 1 .. n : m = up[i].id
    BY <1>5
  <2>2. i \in DOMAIN source /\ up[i].id = <<i>>
    BY <1>7
  <2>3. QED
    BY <2>1, <2>2
<1>9. Upstream(s) = q
  BY <1>1, <1>3 DEF Upstream
<1>10. QED
  BY <1>5, <1>6, <1>8, <1>9

LEMMA ReadsOfType ==
  ASSUME Tables, parts \in [Key -> Seq(Seq(Row))], NEW s \in Stage
  PROVE  Maps(ReadsOf(s), ToSet(Upstream(s)), Row)
<1>1. ASSUME NEW m \in ToSet(Upstream(s)), Reads[s] = 0 PROVE MemberRows(m[1]) \in Seq(Row)
  <2>1. PICK n \in DOMAIN source : m = <<n>>
    BY <1>1, UpstreamIds
  <2>2. m[1] = n
    BY <2>1
  <2>3. QED
    BY <2>2, MemberRowsType
<1>2. ASSUME NEW m \in ToSet(Upstream(s)), Reads[s] # 0
      PROVE  ChunkRows(<<Reads[s], m>>) \in Seq(Row)
  <2>1. Reads[s] \in Stage
    BY <1>2, ConstantsFacts
  <2>2. m \in Id
    <3>1. Upstream(s) \in Seq(Id)
      BY UpstreamIds
    <3>2. QED
      BY <3>1, ElementOfSeq, LenProperties DEF ToSet
  <2>3. <<Reads[s], m>> \in Key
    BY <2>1, <2>2 DEF Key
  <2>4. parts[<<Reads[s], m>>] \in Seq(Seq(Row))
    BY <2>3
  <2>5. QED
    BY <2>4, FlattenSteps DEF ChunkRows
<1>3. \A m \in ToSet(Upstream(s)) :
         (IF Reads[s] = 0 THEN MemberRows(m[1]) ELSE ChunkRows(<<Reads[s], m>>)) \in Seq(Row)
  BY <1>1, <1>2
<1>4. QED
  BY <1>3, Zenon DEF Maps, ReadsOf

(* The input of a task is what its members are spread to.                   *)
LEMMA InputSpread ==
  ASSUME NEW s, NEW members \in Seq(ToSet(Upstream(s)))
  PROVE  Input(s, members) = Spread(ReadsOf(s), members)
<1>1. PICK n \in Nat : n = Len(members) /\ DOMAIN members = 1 .. n
  BY LenProperties
<1>2. \A i \in 1 .. n : members[i] \in ToSet(Upstream(s))
  BY <1>1, ElementOfSeq
<1>3. \A i \in 1 .. n :
         ReadsOf(s)[members[i]] =
            IF Reads[s] = 0 THEN MemberRows(members[i][1]) ELSE ChunkRows(<<Reads[s], members[i]>>)
  BY <1>2, Zenon DEF ReadsOf
<1>4. [i \in 1 .. n |-> ReadsOf(s)[members[i]]] =
        [i \in 1 .. n |->
            IF Reads[s] = 0 THEN MemberRows(members[i][1]) ELSE ChunkRows(<<Reads[s], members[i]>>)]
  BY <1>3, Zenon
<1>5. QED
  BY <1>1, <1>4, Zenon DEF Input, Spread

(* All of them, to what is upstream: the source, or the output of the stage *)
(* that is read.                                                            *)
Base(s) == IF Reads[s] = 0 THEN SourceRows ELSE Output(Reads[s])

LEMMA UpstreamSpread ==
  ASSUME Tables, NEW s \in Stage
  PROVE  Spread(ReadsOf(s), Upstream(s)) = Base(s)
<1>1. PICK up \in Seq(Chunk) : up = UpstreamChunks(s)
  BY UpstreamType
<1>2. PICK n \in Nat : n = Len(up) /\ DOMAIN up = 1 .. n
  BY LenProperties
<1>3. /\ Upstream(s) \in Seq(ToSet(Upstream(s))) /\ DOMAIN Upstream(s) = 1 .. n
      /\ \A i \in 1 .. n : Upstream(s)[i] = up[i].id
  <2>1. Upstream(s) = Ids(up) /\ Upstream(s) \in Seq(ToSet(Upstream(s)))
    BY <1>1, UpstreamIds DEF Upstream
  <2>2. DOMAIN Ids(up) = 1 .. n /\ \A i \in 1 .. n : Ids(up)[i] = up[i].id
    BY <1>2, IdsType
  <2>3. QED
    BY <2>1, <2>2
<1>4. Spread(ReadsOf(s), Upstream(s)) = Input(s, Upstream(s))
  BY <1>3, InputSpread
<1>5. CASE Reads[s] = 0
  <2>1. up = [i \in DOMAIN source |-> [id |-> <<i>>, weight |-> source[i]]]
    BY <1>1, <1>5 DEF UpstreamChunks
  <2>2. 1 .. n = DOMAIN source /\ \A i \in 1 .. n : up[i].id = <<i>>
    BY <1>2, <2>1
  <2>3. \A i \in 1 .. n : Upstream(s)[i][1] = i
    BY <1>3, <2>2
  <2>4. [i \in 1 .. n |-> MemberRows(Upstream(s)[i][1])] = [i \in 1 .. n |-> MemberRows(i)]
    BY <2>3, Zenon
  <2>5. Input(s, Upstream(s)) = FlattenSeq([i \in 1 .. n |-> MemberRows(Upstream(s)[i][1])])
    <3>1. [i \in 1 .. n |-> IF Reads[s] = 0 THEN MemberRows(Upstream(s)[i][1])
                            ELSE ChunkRows(<<Reads[s], Upstream(s)[i]>>)]
            = [i \in 1 .. n |-> MemberRows(Upstream(s)[i][1])]
      BY <1>5, Zenon
    <3>2. QED
      BY <1>3, <3>1, Zenon DEF Input
  <2>6. SourceRows = FlattenSeq([i \in 1 .. n |-> MemberRows(i)])
    BY <2>2, Zenon DEF SourceRows
  <2>7. QED
    BY <1>4, <1>5, <2>4, <2>5, <2>6, Zenon DEF Base
<1>6. CASE Reads[s] # 0
  <2>1. up = manifest[Reads[s]]
    BY <1>1, <1>6 DEF UpstreamChunks
  <2>2. Input(s, Upstream(s)) = FlattenSeq([i \in 1 .. n |-> ChunkRows(<<Reads[s], Upstream(s)[i]>>)])
    <3>1. [i \in 1 .. n |-> IF Reads[s] = 0 THEN MemberRows(Upstream(s)[i][1])
                            ELSE ChunkRows(<<Reads[s], Upstream(s)[i]>>)]
            = [i \in 1 .. n |-> ChunkRows(<<Reads[s], Upstream(s)[i]>>)]
      BY <1>6, Zenon
    <3>2. QED
      BY <1>3, <3>1, Zenon DEF Input
  <2>3. [i \in 1 .. n |-> ChunkRows(<<Reads[s], Upstream(s)[i]>>)]
          = [i \in 1 .. n |-> ChunkRows(<<Reads[s], up[i].id>>)]
    BY <1>3, Zenon
  <2>4. Output(Reads[s]) = FlattenSeq([i \in 1 .. n |-> ChunkRows(<<Reads[s], up[i].id>>)])
    BY <1>2, <2>1, Zenon DEF Output
  <2>5. QED
    BY <1>4, <1>6, <2>2, <2>3, <2>4, Zenon DEF Base
<1>7. QED
  BY <1>5, <1>6

(* The source has no row twice.                                             *)
LEMMA SourceDistinct ==
  ASSUME Tables
  PROVE  SourceRows \in Seq(Row) /\ IsInjective(SourceRows)
<1>1. PICK n \in Nat : DOMAIN source = 1 .. n
  BY LenProperties DEF Tables
<1>2. PICK I, q : I = 1 .. n /\ q = [i \in 1 .. n |-> i]
  OBVIOUS
<1>3. q \in Seq(I) /\ DOMAIN q = 1 .. n /\ IsInjective(q) /\ ToSet(q) \subseteq I
  <2>1. q \in [1 .. n -> I]
    BY <1>2
  <2>2. q \in Seq(I) /\ DOMAIN q = 1 .. n
    BY <2>1, FunctionSeq
  <2>3. \A i \in 1 .. n : q[i] = i
    BY <1>2
  <2>4. QED
    BY <1>2, <2>2, <2>3 DEF IsInjective, ToSet
<1>4. PICK G : G = [m \in I |-> MemberRows(m)]
  OBVIOUS
<1>5. \A m \in I : G[m] = MemberRows(m) /\ G[m] \in Seq(Row) /\ source[m] \in Nat
  BY <1>1, <1>2, <1>4, MemberRowsType
<1>6. Maps(G, I, Row)
  BY <1>4, <1>5 DEF Maps
<1>7. Separate(G, I)
  <2>1. ASSUME NEW m \in I
        PROVE  IsInjective(G[m]) /\ \A x \in ToSet(G[m]) : x[1] = m
    <3>1. G[m] = [k \in 1 .. source[m] |-> <<m, k>>]
      BY <1>5 DEF MemberRows
    <3>2. DOMAIN G[m] = 1 .. source[m] /\ \A k \in 1 .. source[m] : G[m][k] = <<m, k>>
      BY <3>1
    <3>3. QED
      BY <3>2 DEF IsInjective, ToSet
  <2>2. ASSUME NEW a \in I, NEW b \in I, a # b PROVE ToSet(G[a]) \cap ToSet(G[b]) = {}
    BY <2>1, <2>2
  <2>3. QED
    BY <2>1, <2>2 DEF Separate
<1>8. IsInjective(Spread(G, q)) /\ Spread(G, q) \in Seq(Row)
  <2>1. \A r \in Seq(I) : IsInjective(r) /\ ToSet(r) \subseteq I => IsInjective(Spread(G, r))
    BY <1>6, <1>7, SpreadInjective
  <2>2. \A r \in Seq(I) : Spread(G, r) \in Seq(Row)
    BY <1>6, SpreadSteps
  <2>3. QED
    BY <1>3, <2>1, <2>2
<1>9. SourceRows = Spread(G, q)
  <2>1. \A i \in 1 .. n : G[q[i]] = MemberRows(i)
    BY <1>2, <1>5
  <2>2. [i \in 1 .. n |-> G[q[i]]] = [i \in 1 .. n |-> MemberRows(i)]
    BY <2>1, Zenon
  <2>3. QED
    BY <1>1, <1>3, <2>2, Zenon DEF SourceRows, Spread
<1>10. QED
  BY <1>8, <1>9

-----------------------------------------------------------------------------
(* What holds of the chunks and of the rows, besides.                       *)

(* No stage has two chunks of the same id.                                  *)
Distinct == \A u \in Stage : IsInjective(Ids(manifest[u]))

(* The tasks have each chunk upstream once, but for those that are skipped. *)
Covering == stage \in Stage => Covers(tasks, Upstream(stage))

(* What is lost is what those have that no task has.                        *)
Missed ==
    stage \in Stage /\ Settled[stage] =>
        \A r : r \in lost[stage] <=>
                 \E m \in ToSet(Upstream(stage)) \ ToSet(Flat(tasks)) :
                    r \in ToSet(ReadsOf(stage)[m])

NotYet == stage \in Stage => \A u \in Stage : u > stage => lost[u] = {}

(* A stage has delivered what the source has and the run has not skipped.   *)
Delivers(s) ==
    /\ IsInjective(Output(s))
    /\ \A r : r \in ToSet(Output(s)) <=> r \in ToSet(SourceRows) /\ r \notin LostBefore[s]
    /\ Unsplit[s] => Output(s) = Only(SourceRows, Row \ LostBefore[s])
Delivered == \A s \in Stage : s < stage /\ Settled[s] => Delivers(s)

(* No two tasks have the same id: they would have the same members.         *)
LEMMA TasksDistinct ==
  Tables /\ TasksFit /\ Planned /\ Covering => DistinctIds(tasks) /\ IsInjective(tasks)
<1> SUFFICES ASSUME Tables, TasksFit, Planned, Covering
             PROVE  DistinctIds(tasks) /\ IsInjective(tasks)
  OBVIOUS
<1>1. CASE stage \notin Stage
  <2>1. tasks = <<>>
    BY <1>1 DEF TasksFit
  <2>2. DOMAIN tasks = {}
    BY <2>1
  <2>3. QED
    BY <2>2 DEF DistinctIds, IsInjective, ToSet
<1>2. CASE stage \in Stage
  <2>1. tasks \in Seq(Task) /\ IsInjective(Flat(tasks))
    BY <1>2 DEF TasksFit, Covering, Covers
  <2>2. Maps(Mem, Task, Id) /\ Flat(tasks) = Spread(Mem, tasks)
    BY <2>1, FlatSpreads
  <2>3. IsInjective(Spread(Mem, tasks))
    BY <2>1, <2>2
  <2>4. ToSet(tasks) \subseteq Task
    BY <2>1, ElementOfSeq, LenProperties DEF ToSet
  <2>5. \A t \in ToSet(tasks) : Mem[t] = t.members /\ t.members \in Seq(Id) /\ t.members # <<>>
    BY <2>4 DEF Mem, Task, TasksFit, Filled
  <2>6. Separate(Mem, ToSet(tasks))
    BY <2>1, <2>2, <2>3, SpreadApart
  <2>7. ASSUME NEW a \in ToSet(tasks), NEW b \in ToSet(tasks), a.id = b.id PROVE a = b
    <3>1. IsPlanned(stage, a.id, a.members) /\ IsPlanned(stage, b.id, b.members)
      BY DEF Planned, TasksFit
    <3>2. PICK id : id = a.id /\ id = b.id
      BY <2>7
    <3>3. IsPlanned(stage, id, a.members) /\ IsPlanned(stage, id, b.members)
      BY <3>1, <3>2
    <3>4. a.members = b.members
      BY <1>2, <3>3, PlannedUnique
    <3>5. ToSet(a.members) # {}
      BY <2>5, NothingIn
    <3>6. ToSet(Mem[a]) = ToSet(a.members) /\ ToSet(Mem[b]) = ToSet(a.members)
      BY <2>5, <3>4
    <3>7. a # b => ToSet(Mem[a]) \cap ToSet(Mem[b]) = {}
      BY <2>6 DEF Separate
    <3>8. QED
      BY <3>5, <3>6, <3>7
  <2>8. IsInjective(tasks)
    <3>1. \A t \in ToSet(tasks) : Mem[t] # <<>>
      BY <2>5
    <3>2. QED
      BY <2>1, <2>2, <2>3, <3>1, SpreadPlaces
  <2>9. QED
    BY <2>7, <2>8 DEF DistinctIds
<1>3. QED
  BY <1>1, <1>2

(* So the chunks of the stage that runs have not.                           *)
LEMMA StageDistinct ==
  Tables /\ TasksFit /\ Planned /\ Covering /\ stage \in Stage
    => IsInjective(Ids(manifest[stage]))
<1> SUFFICES ASSUME Tables, TasksFit, Planned, Covering, stage \in Stage
             PROVE  IsInjective(Ids(manifest[stage]))
  OBVIOUS
<1>1. DistinctIds(tasks) /\ IsInjective(tasks)
  BY TasksDistinct
<1>2. PICK n \in Nat : n = Len(tasks) /\ DOMAIN tasks = 1 .. n
  BY LenProperties DEF TasksFit
<1>3. tasks \in Seq(Task) /\ HaveEntries(Task) /\ manifest[stage] = Entries(tasks)
  BY PlannedHaveMembers DEF TasksFit
<1>4. DOMAIN manifest[stage] = 1 .. n /\ \A i \in 1 .. n : manifest[stage][i] = Entry(tasks[i])
  BY <1>2, <1>3, EntriesFacts
<1>5. \A i \in 1 .. n : manifest[stage][i].id = tasks[i].id
  <2>1. \A i \in 1 .. n : Entry(tasks[i]).id = tasks[i].id
    BY DEF Entry
  <2>2. QED
    BY <1>4, <2>1
<1>6. Ids(manifest[stage]) = [i \in 1 .. n |-> tasks[i].id]
  <2>1. [i \in 1 .. n |-> manifest[stage][i].id] = [i \in 1 .. n |-> tasks[i].id]
    BY <1>5, Zenon
  <2>2. QED
    BY <1>4, <2>1, Zenon DEF Ids
<1>7. ASSUME NEW i \in 1 .. n, NEW j \in 1 .. n, tasks[i].id = tasks[j].id PROVE i = j
  <2>1. tasks[i] \in ToSet(tasks) /\ tasks[j] \in ToSet(tasks)
    BY <1>2 DEF ToSet
  <2>2. tasks[i] = tasks[j]
    BY <1>1, <1>7, <2>1, Zenon DEF DistinctIds
  <2>3. QED
    BY <1>1, <1>2, <2>2 DEF IsInjective
<1>8. QED
  <2>1. PICK f : f = Ids(manifest[stage])
    OBVIOUS
  <2>2. DOMAIN f = 1 .. n /\ \A i \in 1 .. n : f[i] = tasks[i].id
    BY <1>6, <2>1
  <2>3. IsInjective(f)
    BY <1>7, <2>2 DEF IsInjective
  <2>4. QED
    BY <2>1, <2>3

(* What is upstream of a stage has not.                                     *)
LEMMA UpstreamDistinct ==
  ASSUME Tables, Distinct, NEW s \in Stage
  PROVE  IsInjective(Upstream(s))
<1>1. CASE Reads[s] = 0
  <2>1. PICK n \in Nat : DOMAIN source = 1 .. n
    BY LenProperties DEF Tables
  <2>2. UpstreamChunks(s) = [i \in 1 .. n |-> [id |-> <<i>>, weight |-> source[i]]]
    BY <1>1, <2>1 DEF UpstreamChunks
  <2>3. PICK up : up = UpstreamChunks(s)
    OBVIOUS
  <2>4. DOMAIN up = 1 .. n /\ \A i \in 1 .. n : up[i].id = <<i>>
    BY <2>2, <2>3
  <2>5. PICK q : q = Ids(up)
    OBVIOUS
  <2>6. DOMAIN q = 1 .. n /\ \A i \in 1 .. n : q[i] = <<i>>
    BY <2>4, <2>5 DEF Ids
  <2>7. IsInjective(q)
    BY <2>6 DEF IsInjective
  <2>8. QED
    BY <2>3, <2>5, <2>7 DEF Upstream
<1>2. CASE Reads[s] # 0
  <2>1. Reads[s] \in Stage
    BY <1>2, ConstantsFacts
  <2>2. Upstream(s) = Ids(manifest[Reads[s]])
    BY <1>2 DEF Upstream, UpstreamChunks
  <2>3. QED
    BY <2>1, <2>2 DEF Distinct
<1>3. QED
  BY <1>1, <1>2

-----------------------------------------------------------------------------
(* A stage whose tasks are all done has delivered.                          *)

LEMMA SettledReads ==
  \A s \in Stage : Settled[s] /\ Reads[s] # 0 => Settled[Reads[s]]
<1> SUFFICES ASSUME NEW s \in Stage, Settled[s], Reads[s] # 0 PROVE Settled[Reads[s]]
  OBVIOUS
<1>1. Settled = SettledIn(moved)
  BY DEF Settled, SettledIn
<1>2. SettledIn(moved)[s]
  BY <1>1, Zenon
<1>3. SettledIn(moved)[Reads[s]]
  BY <1>2, SettledInFacts
<1>4. QED
  BY <1>1, <1>3, Zenon

(* The output of the stage that runs, once all its tasks are done.          *)
LEMMA DoneOutput ==
  ASSUME FrozenInv, Covering, stage \in Stage, Settled[stage],
         \A t \in ToSet(tasks) : HasResult(t)
  PROVE  Output(stage) = Spread(ReadsOf(stage), Flat(tasks))
<1>0. /\ Tables /\ TasksFit /\ Attempts /\ Planned /\ Written
      /\ parts \in [Key -> Seq(Seq(Row))]
  BY DEF FrozenInv, TypeInv, Attempts
<1>1. PICK n \in Nat : n = Len(tasks) /\ DOMAIN tasks = 1 .. n
  BY <1>0, LenProperties DEF TasksFit
<1>2. tasks \in Seq(Task) /\ HaveEntries(Task) /\ manifest[stage] = Entries(tasks)
  BY <1>0, PlannedHaveMembers DEF TasksFit
<1>3. DOMAIN manifest[stage] = 1 .. n /\ \A i \in 1 .. n : manifest[stage][i] = Entry(tasks[i])
  BY <1>1, <1>2, EntriesFacts
<1>4. \A i \in 1 .. n : manifest[stage][i].id = tasks[i].id
  <2>1. \A i \in 1 .. n : Entry(tasks[i]).id = tasks[i].id
    BY DEF Entry
  <2>2. QED
    BY <1>3, <2>1
<1>5. PICK I, G : I = ToSet(Upstream(stage)) /\ G = ReadsOf(stage)
  OBVIOUS
<1>6. Maps(G, I, Row)
  BY <1>0, <1>5, ReadsOfType
<1>7. ToSet(Flat(tasks)) \subseteq I
  BY <1>5 DEF Covering, Covers
<1>8. PICK J : J = Seq(I)
  OBVIOUS
<1>9. ASSUME NEW i \in 1 .. n
      PROVE  /\ tasks[i].members \in J
             /\ ChunkRows(<<stage, tasks[i].id>>) = Spread(G, tasks[i].members)
  <2>1. PICK t \in ToSet(tasks) : t = tasks[i]
    BY <1>1 DEF ToSet
  <2>2. t \in Task /\ t.stage = stage /\ t.members \in Seq(Id)
    <3>1. t \in Task /\ t.stage = stage
      BY <1>0, <1>2, ElementOfSeq, LenProperties DEF TasksFit, ToSet
    <3>2. QED
      BY <3>1 DEF Task
  <2>3. ToSet(t.members) \subseteq ToSet(Flat(tasks))
    <3>1. Maps(Mem, Task, Id) /\ Flat(tasks) = Spread(Mem, tasks)
      BY <1>2, FlatSpreads
    <3>2. Mem[t] = t.members
      BY <2>2 DEF Mem
    <3>3. ASSUME NEW x \in ToSet(t.members) PROVE x \in ToSet(Spread(Mem, tasks))
      <4>1. x \in ToSet(Spread(Mem, tasks)) <=> \E m \in ToSet(tasks) : x \in ToSet(Mem[m])
        BY <1>2, <3>1, SpreadHas
      <4>2. QED
        BY <3>2, <4>1
    <3>4. QED
      BY <3>1, <3>3
  <2>4. t.members \in Seq(I)
    <3>1. PICK q \in Seq(Id) : q = t.members /\ ToSet(q) \subseteq I
      BY <1>7, <2>2, <2>3
    <3>2. q \in Seq(I)
      BY <3>1, SeqWithin
    <3>3. QED
      BY <3>1, <3>2
  <2>5. PICK k : k = <<stage, t.id>> /\ k[1] = stage /\ k[2] = t.id
    <3>1. PICK k : k = <<stage, t.id>>
      OBVIOUS
    <3>2. k[1] = stage /\ k[2] = t.id
      BY <3>1
    <3>3. QED
      BY <3>1, <3>2
  <2>6. k \in Key /\ k \in results
    BY <2>2, <2>5, TaskInKey DEF HasResult, KeyOf
  <2>7. IsPlanned(stage, t.id, t.members)
    BY <1>0, <2>2 DEF Planned
  <2>8. Whole(parts[k], Input(stage, t.members))
    BY <1>0, <2>2, <2>5, <2>6, <2>7 DEF Written
  <2>9. Input(stage, t.members) = Spread(G, t.members) /\ Spread(G, t.members) \in Seq(Row)
    BY <1>5, <1>6, <2>4, InputSpread, SpreadSteps
  <2>10. parts[k] \in Seq(Seq(Row)) /\ Input(stage, t.members) \in Seq(Row)
    BY <1>0, <2>6, <2>9
  <2>11. FlattenSeq(parts[k]) = Input(stage, t.members)
    BY <2>8, <2>10, WholeFlattens
  <2>12. QED
    BY <1>8, <2>1, <2>4, <2>5, <2>9, <2>11 DEF ChunkRows
<1>10. PICK H : H = [x \in J |-> Spread(G, x)]
  OBVIOUS
<1>11. Maps(H, J, Row) /\ \A x \in J : H[x] = Spread(G, x)
  <2>1. \A x \in Seq(I) : Spread(G, x) \in Seq(Row)
    BY <1>6, SpreadSteps
  <2>2. QED
    BY <1>8, <1>10, <2>1, Zenon DEF Maps
<1>12. ListsFrom(I, J)
  <2>1. /\ \A q \in Seq(Seq(I)) : FlattenSeq(q) \in Seq(I)
        /\ \A q \in Seq(Seq(I)), x \in Seq(I) : FlattenSeq(Append(q, x)) = FlattenSeq(q) \o x
    BY FlattenSteps
  <2>2. QED
    BY <1>8, <2>1, Zenon DEF ListsFrom, Cat
<1>13. PICK ms : ms = Members(tasks)
  OBVIOUS
<1>14. ms \in Seq(J) /\ DOMAIN ms = 1 .. n /\ \A i \in 1 .. n : ms[i] = tasks[i].members
  <2>1. ms = [i \in 1 .. n |-> tasks[i].members]
    BY <1>1, <1>13 DEF Members
  <2>2. ms \in [1 .. n -> J] /\ \A i \in 1 .. n : ms[i] = tasks[i].members
    BY <1>9, <2>1
  <2>3. QED
    BY <2>2, FunctionSeq
<1>15. Spread(G, FlattenSeq(ms)) = Spread(H, ms)
  BY <1>6, <1>11, <1>12, <1>14, SpreadFlatten
<1>16. \A i \in 1 .. n : ChunkRows(<<stage, manifest[stage][i].id>>) = H[ms[i]]
  <2> SUFFICES ASSUME NEW i \in 1 .. n
               PROVE  ChunkRows(<<stage, manifest[stage][i].id>>) = H[ms[i]]
    OBVIOUS
  <2>1. manifest[stage][i].id = tasks[i].id
    BY <1>4
  <2>2. tasks[i].members \in J /\ ChunkRows(<<stage, tasks[i].id>>) = Spread(G, tasks[i].members)
    BY <1>9
  <2>3. H[tasks[i].members] = Spread(G, tasks[i].members)
    BY <1>11, <2>2
  <2>4. ms[i] = tasks[i].members
    BY <1>14
  <2>5. QED
    BY <2>1, <2>2, <2>3, <2>4, Zenon
<1>17. [i \in 1 .. n |-> ChunkRows(<<stage, manifest[stage][i].id>>)] = [i \in 1 .. n |-> H[ms[i]]]
  BY <1>16, Zenon
<1>18. Output(stage) = Spread(H, ms)
  BY <1>3, <1>14, <1>17, Zenon DEF Output, Spread
<1>19. QED
  BY <1>5, <1>13, <1>15, <1>18, Zenon DEF Flat

(* What the stage reads: it is what the source has, but for what is lost on *)
(* the way.                                                                 *)
LEMMA BaseFacts ==
  ASSUME Tables, Attempts, Delivered, stage \in Stage, Settled[stage]
  PROVE  /\ Base(stage) \in Seq(Row) /\ IsInjective(Base(stage))
         /\ \A r : r \in ToSet(Base(stage)) <=>
                     r \in ToSet(SourceRows) /\ r \notin LostBefore[Reads[stage]]
         /\ Unsplit[stage] => Base(stage) = Only(SourceRows, Row \ LostBefore[Reads[stage]])
<1>1. SourceRows \in Seq(Row) /\ IsInjective(SourceRows)
  BY SourceDistinct
<1>2. LostBefore[0] = {}
  BY LostBeforeFacts DEF Attempts
<1>3. CASE Reads[stage] = 0
  <2>1. Base(stage) = SourceRows
    BY <1>3 DEF Base
  <2>2. LostBefore[Reads[stage]] = {}
    BY <1>2, <1>3
  <2>3. ToSet(SourceRows) \subseteq Row
    BY <1>1, ElementOfSeq, LenProperties DEF ToSet
  <2>4. Only(SourceRows, Row) = SourceRows
    BY <1>1, <2>3, OnlyAll
  <2>5. Row \ LostBefore[Reads[stage]] = Row
    BY <2>2
  <2>6. Only(SourceRows, Row \ LostBefore[Reads[stage]]) = SourceRows
    BY <2>4, <2>5
  <2>7. QED
    BY <1>1, <2>1, <2>2, <2>6
<1>4. CASE Reads[stage] # 0
  <2>1. PICK u \in Stage : u = Reads[stage] /\ u < stage /\ Settled[u]
    <3>1. Reads[stage] \in Stage /\ Reads[stage] < stage
      BY <1>4, ConstantsFacts
    <3>2. Settled[Reads[stage]]
      BY <1>4, SettledReads
    <3>3. QED
      BY <3>1, <3>2
  <2>2. Base(stage) = Output(u)
    BY <1>4, <2>1 DEF Base
  <2>3. Delivers(u)
    BY <2>1 DEF Delivered
  <2>4. Unsplit[stage] => Unsplit[u]
    BY <1>4, <2>1, UnsplitFacts
  <2>5. Base(stage) \in Seq(Row)
    <3>1. Spread(ReadsOf(stage), Upstream(stage)) = Base(stage)
      BY UpstreamSpread
    <3>2. Maps(ReadsOf(stage), ToSet(Upstream(stage)), Row)
      BY ReadsOfType DEF Attempts
    <3>3. Upstream(stage) \in Seq(ToSet(Upstream(stage)))
      BY UpstreamIds
    <3>4. Spread(ReadsOf(stage), Upstream(stage)) \in Seq(Row)
      BY <3>2, <3>3, SpreadSteps
    <3>5. QED
      BY <3>1, <3>4
  <2>6. QED
    BY <2>1, <2>2, <2>3, <2>4, <2>5 DEF Delivers
<1>5. QED
  BY <1>3, <1>4

LEMMA DeliversNow ==
  ASSUME FrozenInv, Covering, Missed, Delivered, stage \in Stage, Settled[stage],
         \A t \in ToSet(tasks) : HasResult(t)
  PROVE  Delivers(stage)
<1>0. Tables /\ TasksFit /\ Attempts /\ parts \in [Key -> Seq(Seq(Row))]
  BY DEF FrozenInv, TypeInv, Attempts
<1>1. PICK u, G, f, I : /\ u = Upstream(stage) /\ G = ReadsOf(stage) /\ f = Flat(tasks)
                        /\ I = ToSet(Upstream(stage))
  OBVIOUS
<1>2. Maps(G, I, Row)
  BY <1>0, <1>1, ReadsOfType
<1>3. u \in Seq(I) /\ I = ToSet(u)
  BY <1>0, <1>1, UpstreamIds
<1>4. IsInjective(f) /\ ToSet(f) \subseteq I /\ f \in Seq(I)
  <2>1. IsInjective(f) /\ ToSet(f) \subseteq I
    BY <1>1 DEF Covering, Covers
  <2>2. f \in Seq(Id)
    BY <1>0, <1>1, FlatSpreads DEF TasksFit
  <2>3. QED
    BY <2>1, <2>2, SeqWithin
<1>5. PICK b, o : b = Base(stage) /\ o = Output(stage)
  OBVIOUS
<1>6. b = Spread(G, u) /\ o = Spread(G, f)
  BY <1>0, <1>1, <1>5, UpstreamSpread, DoneOutput
<1>7. /\ b \in Seq(Row) /\ IsInjective(b)
      /\ \A r : r \in ToSet(b) <=>
                  r \in ToSet(SourceRows) /\ r \notin LostBefore[Reads[stage]]
      /\ Unsplit[stage] => b = Only(SourceRows, Row \ LostBefore[Reads[stage]])
  BY <1>0, <1>5, BaseFacts
<1>8. Separate(G, I)
  <2>1. \A q \in Seq(I) : IsInjective(Spread(G, q)) => Separate(G, ToSet(q))
    BY <1>2, SpreadApart
  <2>2. QED
    BY <1>3, <1>6, <1>7, <2>1
<1>9. IsInjective(o) /\ o \in Seq(Row)
  <2>1. \A q \in Seq(I) : IsInjective(q) /\ ToSet(q) \subseteq I => IsInjective(Spread(G, q))
    BY <1>2, <1>8, SpreadInjective
  <2>2. \A q \in Seq(I) : Spread(G, q) \in Seq(Row)
    BY <1>2, SpreadSteps
  <2>3. QED
    BY <1>4, <1>6, <2>1, <2>2
<1>10. LostBefore[stage] = lost[stage] \cup LostBefore[Reads[stage]] /\ LostBefore[stage] \subseteq Row
  BY <1>0, LostBeforeFacts DEF Attempts
<1>11. \A r : r \in lost[stage] <=> \E m \in I \ ToSet(f) : r \in ToSet(G[m])
  BY <1>1 DEF Missed
<1>12. \A r : r \in ToSet(b) <=> \E m \in I : r \in ToSet(G[m])
  <2>1. \A r : \A q \in Seq(I) : r \in ToSet(Spread(G, q)) <=> \E m \in ToSet(q) : r \in ToSet(G[m])
    BY <1>2, SpreadHas
  <2>2. QED
    BY <1>3, <1>6, <2>1
<1>13. \A r : r \in ToSet(o) <=> \E m \in ToSet(f) : r \in ToSet(G[m])
  <2>1. \A r : \A q \in Seq(I) : r \in ToSet(Spread(G, q)) <=> \E m \in ToSet(q) : r \in ToSet(G[m])
    BY <1>2, SpreadHas
  <2>2. QED
    BY <1>4, <1>6, <2>1
<1>14. ASSUME NEW r PROVE r \in ToSet(o) <=> r \in ToSet(b) /\ r \notin lost[stage]
  <2>1. ASSUME r \in ToSet(o) PROVE r \in ToSet(b) /\ r \notin lost[stage]
    <3>1. PICK m \in ToSet(f) : r \in ToSet(G[m])
      BY <1>13, <2>1
    <3>2. m \in I
      BY <1>4
    <3>3. r \in ToSet(b)
      BY <1>12, <3>1, <3>2
    <3>4. ASSUME NEW n \in I \ ToSet(f), r \in ToSet(G[n]) PROVE FALSE
      <4>1. n # m
        OBVIOUS
      <4>2. ToSet(G[n]) \cap ToSet(G[m]) = {}
        BY <1>8, <3>2, <4>1 DEF Separate
      <4>3. QED
        BY <3>1, <3>4, <4>2
    <3>5. QED
      BY <1>11, <3>3, <3>4
  <2>2. ASSUME r \in ToSet(b), r \notin lost[stage] PROVE r \in ToSet(o)
    <3>1. PICK m \in I : r \in ToSet(G[m])
      BY <1>12, <2>2
    <3>2. m \in ToSet(f)
      BY <1>11, <2>2, <3>1
    <3>3. QED
      BY <1>13, <3>1, <3>2
  <2>3. QED
    BY <2>1, <2>2
<1>15. \A r : r \in ToSet(o) <=> r \in ToSet(SourceRows) /\ r \notin LostBefore[stage]
  BY <1>7, <1>10, <1>14
<1>16. ASSUME Unsplit[stage] PROVE o = Only(SourceRows, Row \ LostBefore[stage])
  <2>1. f = Only(u, ToSet(f))
    <3>1. \A c \in ToSet(manifest[stage]) : Len(c.id) = 1
      BY <1>16, UnsplitFacts
    <3>2. PICK n \in Nat : n = Len(tasks) /\ DOMAIN tasks = 1 .. n
      BY <1>0, LenProperties DEF TasksFit
    <3>3. tasks \in Seq(Task) /\ manifest[stage] = Entries(tasks)
      BY <1>0 DEF TasksFit
    <3>4. DOMAIN manifest[stage] = 1 .. n /\ \A i \in 1 .. n : manifest[stage][i] = Entry(tasks[i])
      BY <3>2, <3>3, EntriesFacts
    <3>5. \A i \in 1 .. n : Len(tasks[i].id) = 1
      <4> SUFFICES ASSUME NEW i \in 1 .. n PROVE Len(tasks[i].id) = 1
        OBVIOUS
      <4>1. PICK c : c = manifest[stage][i] /\ c = Entry(tasks[i])
        BY <3>4
      <4>2. c \in ToSet(manifest[stage])
        BY <3>4, <4>1 DEF ToSet
      <4>3. Len(c.id) = 1
        BY <3>1, <4>2
      <4>4. c.id = tasks[i].id
        BY <4>1 DEF Entry
      <4>5. QED
        BY <4>3, <4>4
    <3>6. ToSet(tasks) \subseteq Single
      <4>1. \A i \in 1 .. n : tasks[i] \in Task
        BY <3>2, <3>3, ElementOfSeq
      <4>2. QED
        BY <3>2, <3>5, <4>1 DEF Single, ToSet
    <3>7. Only(tasks, Single) = tasks
      BY <3>3, <3>6, OnlyAll
    <3>8. Flat(Only(tasks, Single)) = Only(u, ToSet(Flat(Only(tasks, Single))))
      BY <1>1 DEF Covering, Covers
    <3>9. QED
      BY <1>1, <3>7, <3>8
  <2>2. o = Only(b, ToSet(o))
    <3>1. PICK R : R = ToSet(f)
      OBVIOUS
    <3>2. \A q \in Seq(I) : IsInjective(Spread(G, q)) =>
             Spread(G, Only(q, R)) = Only(Spread(G, q), ToSet(Spread(G, Only(q, R))))
      BY <1>2, SpreadOnly
    <3>3. Spread(G, Only(u, R)) = Only(Spread(G, u), ToSet(Spread(G, Only(u, R))))
      BY <1>3, <1>6, <1>7, <3>2
    <3>4. Only(u, R) = f
      BY <2>1, <3>1
    <3>5. QED
      BY <1>6, <3>3, <3>4, Zenon
  <2>3. PICK x, A, B : x = SourceRows /\ A = Row \ LostBefore[Reads[stage]] /\ B = ToSet(o)
    OBVIOUS
  <2>4. x \in Seq(Row)
    BY <1>0, <2>3, SourceDistinct
  <2>5. Only(Only(x, A), B) = Only(x, A \cap B)
    BY <2>4, OnlyOnly
  <2>6. PICK C, D : C = A \cap B /\ D = Row \ LostBefore[stage]
    OBVIOUS
  <2>7. ToSet(x) \cap C = ToSet(x) \cap D
    <3>1. ToSet(x) \subseteq Row
      BY <2>4, ElementOfSeq, LenProperties DEF ToSet
    <3>2. \A r \in ToSet(x) : r \in B <=> r \notin LostBefore[stage]
      BY <1>15, <2>3
    <3>3. \A r \in ToSet(x) : r \notin LostBefore[stage] => r \notin LostBefore[Reads[stage]]
      BY <1>10
    <3>4. QED
      BY <2>3, <2>6, <3>1, <3>2, <3>3
  <2>8. Only(x, C) = Only(x, D)
    BY <2>4, <2>7, OnlySame
  <2>9. b = Only(x, A)
    BY <1>7, <1>16, <2>3
  <2>10. QED
    BY <2>2, <2>3, <2>5, <2>6, <2>8, <2>9, Zenon
<1>17. QED
  BY <1>5, <1>9, <1>15, <1>16, Zenon DEF Delivers

-----------------------------------------------------------------------------
(* What a step leaves as it is.                                             *)

LEMMA UpstreamUnchanged ==
  ASSUME NEW s, source' = source, Reads[s] # 0 => manifest'[Reads[s]] = manifest[Reads[s]]
  PROVE  Upstream(s)' = Upstream(s)
<1>1. CASE Reads[s] = 0
  BY <1>1 DEF Upstream, UpstreamChunks
<1>2. CASE Reads[s] # 0
  BY <1>2 DEF Upstream, UpstreamChunks
<1>3. QED
  BY <1>1, <1>2

LEMMA SourceUnchanged ==
  ASSUME source' = source
  PROVE  SourceRows' = SourceRows
BY DEF SourceRows, MemberRows

LEMMA OutputUnchanged ==
  ASSUME NEW s, manifest'[s] = manifest[s],
         \A c \in ToSet(manifest[s]) : parts'[<<s, c.id>>] = parts[<<s, c.id>>]
  PROVE  Output(s)' = Output(s)
<1>1. PICK q : q = manifest[s]
  OBVIOUS
<1>2. \A i \in DOMAIN q : parts'[<<s, q[i].id>>] = parts[<<s, q[i].id>>]
  BY <1>1 DEF ToSet
<1>3. \A i \in DOMAIN q : FlattenSeq(parts'[<<s, q[i].id>>]) = FlattenSeq(parts[<<s, q[i].id>>])
  BY <1>2, Zenon
<1>4. [i \in DOMAIN q |-> FlattenSeq(parts'[<<s, q[i].id>>])]
        = [i \in DOMAIN q |-> FlattenSeq(parts[<<s, q[i].id>>])]
  BY <1>3, Zenon
<1>5. Output(s) = FlattenSeq([i \in DOMAIN q |-> FlattenSeq(parts[<<s, q[i].id>>])])
  BY <1>1, Zenon DEF Output, ChunkRows
<1>6. Output(s)' = FlattenSeq([i \in DOMAIN q |-> FlattenSeq(parts'[<<s, q[i].id>>])])
  BY <1>1, Zenon DEF Output, ChunkRows
<1>7. QED
  BY <1>4, <1>5, <1>6, Zenon

LEMMA ReadsUnchanged ==
  ASSUME NEW s, source' = source, Reads[s] # 0 => manifest'[Reads[s]] = manifest[Reads[s]],
         Reads[s] # 0 => \A m \in ToSet(Upstream(s)) :
                            parts'[<<Reads[s], m>>] = parts[<<Reads[s], m>>]
  PROVE  ReadsOf(s)' = ReadsOf(s)
<1>1. PICK I : I = ToSet(Upstream(s))
  OBVIOUS
<1>2. Upstream(s)' = Upstream(s)
  BY UpstreamUnchanged
<1>3. CASE Reads[s] = 0
  <2>1. ReadsOf(s) = [m \in I |-> [k \in 1 .. source[m[1]] |-> <<m[1], k>>]]
    BY <1>1, <1>3, Zenon DEF ReadsOf, MemberRows
  <2>2. ReadsOf(s)' = [m \in I |-> [k \in 1 .. source'[m[1]] |-> <<m[1], k>>]]
    BY <1>1, <1>2, <1>3, Zenon DEF ReadsOf, MemberRows
  <2>3. QED
    BY <2>1, <2>2, Zenon
<1>4. CASE Reads[s] # 0
  <2>1. ReadsOf(s) = [m \in I |-> FlattenSeq(parts[<<Reads[s], m>>])]
    BY <1>1, <1>4, Zenon DEF ReadsOf, ChunkRows
  <2>2. ReadsOf(s)' = [m \in I |-> FlattenSeq(parts'[<<Reads[s], m>>])]
    BY <1>1, <1>2, <1>4, Zenon DEF ReadsOf, ChunkRows
  <2>3. \A m \in I : FlattenSeq(parts'[<<Reads[s], m>>]) = FlattenSeq(parts[<<Reads[s], m>>])
    BY <1>1, <1>4, Zenon
  <2>4. QED
    BY <2>1, <2>2, <2>3, Zenon
<1>5. QED
  BY <1>3, <1>4

LEMMA DeliversStays ==
  ASSUME lost \in [Stage -> SUBSET Row], lost' \in [Stage -> SUBSET Row],
         NEW s \in Stage, Delivers(s), source' = source,
         \A u \in Stage : u <= s => manifest'[u] = manifest[u] /\ lost'[u] = lost[u],
         \A c \in ToSet(manifest[s]) : parts'[<<s, c.id>>] = parts[<<s, c.id>>]
  PROVE  Delivers(s)'
<1>0. s <= s
  BY ConstantsFacts
<1>1. Output(s)' = Output(s)
  BY <1>0, OutputUnchanged
<1>2. SourceRows' = SourceRows
  BY SourceUnchanged
<1>3. LostBefore'[s] = LostBefore[s]
  <2>1. \A u \in Stage : u <= s => LostBefore'[u] = LostBefore[u]
    BY LostBeforeStays
  <2>2. QED
    BY <1>0, <2>1
<1>4. Unsplit'[s] <=> Unsplit[s]
  <2>1. \A u \in Stage : u <= s => (Unsplit'[u] <=> Unsplit[u])
    BY UnsplitStays
  <2>2. QED
    BY <1>0, <2>1
<1>5. QED
  BY <1>1, <1>2, <1>3, <1>4, Zenon DEF Delivers

(* Which step takes a run on, and which only changes the stage that runs.   *)
Within ==
    /\ stage' = stage /\ source' = source
    /\ \A u \in Stage : u # stage => manifest'[u] = manifest[u] /\ lost'[u] = lost[u]

LEMMA WorkerWithin ==
  ASSUME TypeInv, \/ vars' = vars
                  \/ \E w \in Worker : WorkerStep(w)
  PROVE  UNCHANGED <<source, manifest, stage, tasks, moved, lost>>
<1>1. CASE vars' = vars
  BY <1>1 DEF vars
<1>2. ASSUME NEW w \in Worker, WorkerStep(w)
      PROVE  UNCHANGED <<source, manifest, stage, tasks, moved, lost>>
  <2>1. UNCHANGED <<source, manifest, stage, tasks, moved>>
    BY <1>2, WorkerFacts
  <2>2. lost' = lost
    BY <1>2 DEF WorkerStep, Begin, WriteRow, Finalize, Mark, Fail
  <2>3. QED
    BY <2>1, <2>2
<1>3. QED
  BY <1>1, <1>2

LEMMA ReplaceWithin ==
  ASSUME TypeInv, NEW t \in ToSet(tasks), Resplit(t) \/ Skip(t)
  PROVE  \A u \in Stage : u # stage => manifest'[u] = manifest[u] /\ lost'[u] = lost[u]
<1>1. t.stage = stage
  BY TaskFacts
<1>2. manifest \in [Stage -> Seq(Chunk)] /\ lost \in [Stage -> SUBSET Row]
  BY DEF TypeInv, Tables, Attempts
<1>3. \A u \in Stage : u # stage => manifest'[u] = manifest[u]
  <2>1. PICK new : Replace(t, new)
    BY DEF Resplit, Skip
  <2>2. manifest' = [manifest EXCEPT ![t.stage] = Without(manifest[t.stage], t.id) \o Entries(new)]
    BY <2>1 DEF Replace
  <2>3. PICK x : manifest' = [manifest EXCEPT ![stage] = x]
    BY <1>1, <2>2, Zenon
  <2>4. QED
    BY <1>2, <2>3
<1>4. \A u \in Stage : u # stage => lost'[u] = lost[u]
  <2>1. CASE Resplit(t)
    BY <2>1 DEF Resplit
  <2>2. CASE Skip(t)
    <3>1. PICK x : lost' = [lost EXCEPT ![stage] = x]
      BY <1>1, <2>2, Zenon DEF Skip
    <3>2. QED
      BY <1>2, <3>1
  <2>3. QED
    BY <2>1, <2>2
<1>5. QED
  BY <1>3, <1>4

LEMMA StageSteps ==
  ASSUME TypeInv, [Next]_vars
  PROVE  \/ stage' \in {0, 1}
         \/ Within
         \/ StageDone
<1>1. CASE StartRun \/ RunCutShort \/ SourceGrows
  BY <1>1 DEF StartRun, Plan, RunCutShort, SourceGrows
<1>2. CASE Remediate
  <2>1. PICK t \in ToSet(tasks) : Resplit(t) \/ Skip(t)
    BY <1>2 DEF Remediate
  <2>2. stage' = stage /\ source' = source
    BY <1>2 DEF Remediate
  <2>3. QED
    BY <2>1, <2>2, ReplaceWithin DEF Within
<1>3. CASE \/ vars' = vars
           \/ \E w \in Worker : WorkerStep(w)
  <2>1. UNCHANGED <<source, manifest, stage, tasks, moved, lost>>
    BY <1>3, WorkerWithin
  <2>2. QED
    BY <2>1 DEF Within
<1>4. QED
  BY <1>1, <1>2, <1>3 DEF Next, vars

(* On with the next stage: only that is planned.                            *)
LEMMA StageDoneFacts ==
  ASSUME TypeInv, StageDone
  PROVE  /\ stage \in Stage /\ stage' = stage + 1
         /\ UNCHANGED <<source, parts, results, lost>>
         /\ \A u \in Stage : u <= stage => manifest'[u] = manifest[u]
<1>1. /\ stage \in Stage /\ stage' = stage + 1
      /\ UNCHANGED <<source, parts, results, lost>>
  BY DEF StageDone, Plan
<1>2. CASE stage + 1 \in Stage /\ Plan(stage + 1)
  <2>1. PICK p \in Stage : p = stage + 1
    BY <1>2
  <2>2. PICK x : manifest' = [manifest EXCEPT ![p] = x]
    BY <1>2, <2>1 DEF Plan
  <2>3. \A u \in Stage : u <= stage => u # p
    BY <1>1, <2>1, ConstantsFacts
  <2>4. manifest \in [Stage -> Seq(Chunk)]
    BY DEF TypeInv, Tables
  <2>5. QED
    BY <1>1, <2>2, <2>3, <2>4
<1>3. CASE manifest' = manifest
  BY <1>1, <1>3
<1>4. QED
  BY <1>1, <1>2, <1>3 DEF StageDone

(* What the stages before have delivered stays, and the next has delivered. *)
LEMMA DeliveredStays ==
  ASSUME FrozenInv, FrozenInv', Covering, Missed, Delivered, [Next]_vars
  PROVE  Delivered'
<1>0. /\ TypeInv /\ TypeInv' /\ Passed /\ Passed' /\ Begun /\ Written /\ Writing
      /\ lost \in [Stage -> SUBSET Row] /\ lost' \in [Stage -> SUBSET Row]
  BY DEF FrozenInv, TypeInv, Attempts
<1>1. Frozen
  BY <1>0, FrozenStep
<1>2. \A s \in Stage : Settled'[s] => Settled[s]
  <2>1. moved \subseteq moved'
    BY <1>0, StepFacts
  <2>2. QED
    BY <2>1, SettledFacts
<1> SUFFICES ASSUME NEW s \in Stage, s < stage', Settled'[s] PROVE Delivers(s)'
  BY DEF Delivered
<1>3. Settled[s]
  BY <1>2
<1>4. CASE stage' \in {0, 1}
  BY <1>4, ConstantsFacts
<1>5. CASE Within
  <2>1. s < stage /\ stage' = stage /\ source' = source
    BY <1>5 DEF Within
  <2>2. \A u \in Stage : u <= s => manifest'[u] = manifest[u] /\ lost'[u] = lost[u]
    <3>1. \A u \in Stage : u <= s => u # stage
      BY <1>0, <2>1, ConstantsFacts DEF TypeInv, Tables
    <3>2. QED
      BY <1>5, <3>1 DEF Within
  <2>3. \A c \in ToSet(manifest[s]) : parts'[<<s, c.id>>] = parts[<<s, c.id>>]
    <3> SUFFICES ASSUME NEW c \in ToSet(manifest[s])
                 PROVE  parts'[<<s, c.id>>] = parts[<<s, c.id>>]
      OBVIOUS
    <3>1. PICK k : k = <<s, c.id>>
      OBVIOUS
    <3>2. k \in results /\ k[1] = s
      BY <1>0, <2>1, <3>1 DEF Passed
    <3>3. QED
      BY <1>1, <1>3, <3>1, <3>2 DEF Frozen
  <2>4. Delivers(s)
    BY <1>3, <2>1 DEF Delivered
  <2>5. QED
    BY <1>0, <2>1, <2>2, <2>3, <2>4, DeliversStays
<1>6. CASE StageDone
  <2>1. /\ stage \in Stage /\ stage' = stage + 1
        /\ UNCHANGED <<source, parts, results, lost>>
        /\ \A u \in Stage : u <= stage => manifest'[u] = manifest[u]
    BY <1>0, <1>6, StageDoneFacts
  <2>2. s <= stage /\ stage \in Nat /\ s \in Nat
    BY <2>1, ConstantsFacts
  <2>3. Delivers(s)
    <3>1. CASE s = stage
      <4>1. \A t \in ToSet(tasks) : HasResult(t)
        BY <1>6 DEF StageDone
      <4>2. Delivers(stage)
        BY <1>3, <2>1, <3>1, <4>1, DeliversNow
      <4>3. QED
        BY <3>1, <4>2
    <3>2. CASE s # stage
      <4>1. s < stage
        BY <2>2, <3>2
      <4>2. QED
        BY <1>3, <4>1 DEF Delivered
    <3>3. QED
      BY <3>1, <3>2
  <2>4. \A u \in Stage : u <= s => manifest'[u] = manifest[u] /\ lost'[u] = lost[u]
    <3>1. \A u \in Stage : u <= s => u <= stage
      BY <2>2, ConstantsFacts
    <3>2. QED
      BY <2>1, <3>1
  <2>5. QED
    BY <1>0, <2>1, <2>3, <2>4, DeliversStays
<1>7. QED
  BY <1>0, <1>4, <1>5, <1>6, StageSteps

-----------------------------------------------------------------------------
(* A plan covers what is upstream; a remediation covers it still.           *)

LEMMA PlanCovers ==
  ASSUME TypeInv, Distinct, NEW p \in Stage, Plan(p), source' = source
  PROVE  /\ stage' = p
         /\ Upstream(p)' = Upstream(p)
         /\ Flat(tasks)' = Upstream(p)
         /\ Covers(tasks, Upstream(p))'
         /\ \A u \in Stage : u # p => manifest'[u] = manifest[u]
<1>0. Tables /\ manifest \in [Stage -> Seq(Chunk)]
  BY DEF TypeInv, Tables
<1>1. stage' = p /\ \A u \in Stage : u # p => manifest'[u] = manifest[u]
  <2>1. PICK x : manifest' = [manifest EXCEPT ![p] = x]
    BY DEF Plan
  <2>2. QED
    BY <1>0, <2>1 DEF Plan
<1>2. Upstream(p)' = Upstream(p)
  <2>1. Reads[p] # 0 => Reads[p] \in Stage /\ Reads[p] # p
    BY ConstantsFacts
  <2>2. Reads[p] # 0 => manifest'[Reads[p]] = manifest[Reads[p]]
    BY <1>1, <2>1
  <2>3. QED
    BY <2>2, UpstreamUnchanged
<1>3. PICK q, u : q = tasks' /\ u = Upstream(p)
  OBVIOUS
<1>4. q \in Seq(Task) /\ Flat(q) = u
  <2>1. Chunks(p) \in Seq(PlanChunk) /\ FlattenSeq(Members(Chunks(p))) = Upstream(p)
    BY <1>0, ChunksShape DEF Upstream
  <2>2. q = TasksOf(p, Chunks(p))
    BY <1>3 DEF Plan
  <2>3. q \in Seq(Task) /\ Members(q) = Members(Chunks(p))
    BY <2>1, <2>2, TasksOfShape
  <2>4. QED
    BY <1>3, <2>1, <2>3 DEF Flat
<1>5. u \in Seq(Id) /\ IsInjective(u)
  BY <1>0, <1>3, UpstreamIds, UpstreamDistinct
<1>6. Covers(q, u)
  BY <1>4, <1>5, CoversAll
<1>7. Flat(tasks)' = Upstream(p)
  BY <1>3, <1>4
<1>8. Covers(tasks, Upstream(p))'
  BY <1>2, <1>3, <1>6
<1>9. QED
  BY <1>1, <1>2, <1>7, <1>8

(* What comes for a task that is split or skipped: all of its members, as   *)
(* parts, or none.                                                          *)
LEMMA ReplacedBy ==
  ASSUME TypeInv, Planned, Covering, NEW t \in ToSet(tasks), Resplit(t) \/ Skip(t)
  PROVE  \E new \in Seq(Task) :
            /\ tasks' = Without(tasks, t.id) \o new
            /\ IsInjective(Flat(new)) /\ ToSet(new) \cap Single = {}
            /\ Resplit(t) => ToSet(Flat(new)) = ToSet(t.members) /\ lost' = lost
            /\ ~Resplit(t) =>
                 /\ ToSet(Flat(new)) = {}
                 /\ lost' = [lost EXCEPT ![stage] = @ \cup ToSet(Input(stage, t.members))]
<1>0. /\ t \in Task /\ t.stage = stage /\ stage \in Stage /\ Filled(t)
      /\ tasks \in Seq(Task) /\ DistinctIds(tasks)
      /\ Len(Flat(tasks)) <= MaxMembers
  <2>1. DistinctIds(tasks)
    BY TasksDistinct DEF TypeInv
  <2>2. QED
    BY <2>1, TaskFacts DEF TypeInv, TasksFit, Flat
<1>1. CASE Resplit(t)
  <2>1. PICK new : new = PartsOf(t)
    OBVIOUS
  <2>2. tasks' = Without(tasks, t.id) \o new /\ lost' = lost /\ Len(t.members) > 1
    BY <1>1, <2>1 DEF Resplit, Replace
  <2>3. PICK ms \in Seq(Id), k \in Nat : ms = t.members /\ k = Len(ms) /\ DOMAIN ms = 1 .. k
    BY <1>0, LenProperties DEF Task
  <2>4. Len(t.members) <= MaxMembers
    <3>1. PICK R : R = {}
      OBVIOUS
    <3>2. HaveMembers(Task, Id)
      BY PlannedHaveMembers
    <3>3. PICK a \in Nat, b \in Nat : /\ a = Len(FlattenSeq(Members(Only(tasks, R))))
                                      /\ b = Len(FlattenSeq(Members(tasks)))
      <4>1. Only(tasks, R) \in Seq(Task)
        BY <1>0, OnlyFacts
      <4>2. FlattenSeq(Members(tasks)) \in Seq(Id) /\ FlattenSeq(Members(Only(tasks, R))) \in Seq(Id)
        BY <1>0, <3>2, <4>1, MembersOfSome
      <4>3. QED
        BY <4>2, LenProperties
    <3>4. Len(FlattenSeq(Members(Only(tasks, R)))) + Len(t.members) <= Len(FlattenSeq(Members(tasks)))
      <4>1. t \in ToSet(tasks) \ R
        BY <3>1
      <4>2. QED
        BY <1>0, <3>2, <4>1, MembersOfSome
    <3>5. a + k <= b /\ b <= MaxMembers
      BY <1>0, <2>3, <3>3, <3>4 DEF Flat
    <3>6. QED
      BY <2>3, <3>3, <3>5, ConstantsFacts
  <2>5. /\ new \in Seq(Task) /\ DOMAIN new = 1 .. k
        /\ \A j \in 1 .. k : new[j].id = Append(t.id, j - 1)
        /\ Flat(new) = t.members
    BY <1>0, <2>1, <2>2, <2>3, <2>4, PartsOfShape DEF Flat
  <2>6. ToSet(new) \cap Single = {}
    <3>1. PICK p \in Place : t.id = <<p>>
      <4>1. t.id \in Id /\ Len(t.id) = 1
        BY <1>0, <2>2 DEF Task, Filled
      <4>2. QED
        BY <4>1 DEF Id
    <3>2. \A j \in 1 .. k : Len(new[j].id) = 2
      <4> SUFFICES ASSUME NEW j \in 1 .. k PROVE Len(new[j].id) = 2
        OBVIOUS
      <4>1. PICK i : i = j - 1
        OBVIOUS
      <4>2. Append(<<p>>, i) = <<p, i>>
        BY AppendToOne
      <4>3. Len(<<p, i>>) = 2
        OBVIOUS
      <4>4. QED
        BY <2>5, <3>1, <4>1, <4>2, <4>3
    <3>3. ASSUME NEW c \in ToSet(new), c \in Single PROVE FALSE
      <4>1. PICK j \in 1 .. k : c = new[j]
        BY <2>5 DEF ToSet
      <4>2. PICK l : l = Len(c.id)
        OBVIOUS
      <4>3. l = 2
        BY <3>2, <4>1, <4>2
      <4>4. l = 1
        BY <3>3, <4>2, Zenon DEF Single
      <4>5. QED
        BY <4>3, <4>4
    <3>4. QED
      BY <3>3
  <2>7. IsInjective(t.members)
    <3>1. IsInjective(Flat(tasks))
      BY <1>0 DEF Covering, Covers
    <3>2. PICK r : r = Without(tasks, t.id)
      OBVIOUS
    <3>3. QED
      BY <1>0, <3>1, <3>2, FlatWithout
  <2>8. QED
    BY <1>1, <2>2, <2>5, <2>6, <2>7
<1>2. CASE ~Resplit(t)
  <2>1. Skip(t)
    BY <1>2
  <2>2. PICK new : new = <<>>
    OBVIOUS
  <2>3. /\ tasks' = Without(tasks, t.id) \o new
        /\ lost' = [lost EXCEPT ![stage] = @ \cup ToSet(Input(stage, t.members))]
    BY <1>0, <2>1, <2>2 DEF Skip, Replace
  <2>4. new \in Seq(Task) /\ ToSet(new) = {}
    BY <2>2, EmptySeq DEF ToSet
  <2>5. Flat(new) = <<>>
    <3>1. Members(<<>>) = <<>>
      BY DEF Members
    <3>2. QED
      BY <2>2, <3>1, FlattenSteps DEF Flat
  <2>6. ToSet(Flat(new)) = {} /\ IsInjective(Flat(new))
    BY <2>5, EmptySeq DEF ToSet, IsInjective
  <2>7. QED
    BY <1>2, <2>3, <2>4, <2>6
<1>3. QED
  BY <1>1, <1>2

LEMMA RemediateCovers ==
  ASSUME TypeInv, Planned, Covering, Missed, Remediate
  PROVE  Covering' /\ Missed' /\ stage' = stage
<1>1. PICK t \in ToSet(tasks) : Resplit(t) \/ Skip(t)
  BY DEF Remediate
<1>2. UNCHANGED <<source, parts, stage, moved>>
  BY DEF Remediate
<1>3. /\ t \in Task /\ t.stage = stage /\ stage \in Stage /\ Filled(t)
      /\ tasks \in Seq(Task) /\ Tables /\ Attempts
      /\ DistinctIds(tasks)
  <2>1. DistinctIds(tasks)
    BY TasksDistinct DEF TypeInv
  <2>2. QED
    BY <1>1, <2>1, TaskFacts DEF TypeInv, TasksFit
<1>4. PICK u, G, q : u = Upstream(stage) /\ G = ReadsOf(stage) /\ q = tasks
  OBVIOUS
<1>5. Reads[stage] # 0 => manifest'[Reads[stage]] = manifest[Reads[stage]]
  <2>1. Reads[stage] # 0 => Reads[stage] \in Stage /\ Reads[stage] # stage
    BY <1>3, ConstantsFacts
  <2>2. \A v \in Stage : v # stage => manifest'[v] = manifest[v]
    BY <1>1, ReplaceWithin
  <2>3. QED
    BY <2>1, <2>2
<1>6. Upstream(stage)' = u
  <2>1. PICK s : s = stage
    OBVIOUS
  <2>2. Upstream(s)' = Upstream(s)
    BY <1>2, <1>5, <2>1, UpstreamUnchanged
  <2>3. QED
    BY <1>2, <1>4, <2>1, <2>2
<1>7. ReadsOf(stage)' = G
  <2>1. PICK s : s = stage
    OBVIOUS
  <2>2. ReadsOf(s)' = ReadsOf(s)
    BY <1>2, <1>5, <2>1, ReadsUnchanged
  <2>3. QED
    BY <1>2, <1>4, <2>1, <2>2
<1>8. Covers(q, u)
  BY <1>3, <1>4 DEF Covering
<1>9. PICK new \in Seq(Task) :
            /\ tasks' = Without(tasks, t.id) \o new
            /\ IsInjective(Flat(new)) /\ ToSet(new) \cap Single = {}
            /\ Resplit(t) => ToSet(Flat(new)) = ToSet(t.members) /\ lost' = lost
            /\ ~Resplit(t) =>
                 /\ ToSet(Flat(new)) = {}
                 /\ lost' = [lost EXCEPT ![stage] = @ \cup ToSet(Input(stage, t.members))]
  BY <1>1, ReplacedBy
<1>10. PICK p : p = tasks' /\ p = Without(q, t.id) \o new
  BY <1>4, <1>9
<1>11. u \in Seq(Id) /\ q \in Seq(Task) /\ DistinctIds(q) /\ t \in ToSet(q)
  BY <1>3, <1>4, UpstreamIds
<1>12. /\ Covers(p, u)
       /\ ToSet(Flat(p)) = (ToSet(Flat(q)) \ ToSet(t.members)) \cup ToSet(Flat(new))
  <2>1. ToSet(Flat(new)) \subseteq ToSet(t.members)
    BY <1>9
  <2>2. PICK r : r = Without(q, t.id)
    OBVIOUS
  <2>3. p = Cat(r, new)
    BY <1>10, <2>2, Zenon DEF Cat
  <2>4. IsInjective(Flat(new)) /\ ToSet(new) \cap Single = {}
    BY <1>9
  <2>5. IsInjective(Flat(q))
    BY <1>8 DEF Covers
  <2>6. /\ r \in Seq(Task) /\ IsInjective(Flat(r))
        /\ ToSet(Flat(r)) = ToSet(Flat(q)) \ ToSet(t.members)
        /\ ToSet(t.members) \subseteq ToSet(Flat(q))
    BY <1>11, <2>2, <2>5, FlatWithout
  <2>7. \E R : r = Only(q, R)
    BY <2>2 DEF Without
  <2>8. /\ Covers(Cat(r, new), u)
        /\ ToSet(Flat(Cat(r, new))) = (ToSet(Flat(q)) \ ToSet(t.members)) \cup ToSet(Flat(new))
    <3>1. PICK n, e : n = new /\ e = t
      OBVIOUS
    <3>2. /\ n \in Seq(Task) /\ IsInjective(Flat(n)) /\ ToSet(n) \cap Single = {}
          /\ ToSet(Flat(n)) \subseteq ToSet(e.members)
      BY <2>1, <2>4, <3>1
    <3>3. e \in ToSet(q) /\ ToSet(Flat(r)) = ToSet(Flat(q)) \ ToSet(e.members)
          /\ ToSet(e.members) \subseteq ToSet(Flat(q))
      BY <1>11, <2>6, <3>1
    <3>4. /\ Covers(Cat(r, n), u)
          /\ ToSet(Flat(Cat(r, n))) = (ToSet(Flat(q)) \ ToSet(e.members)) \cup ToSet(Flat(n))
      BY <1>8, <1>11, <2>6, <2>7, <3>2, <3>3, CoversReplaced
    <3>5. QED
      BY <3>1, <3>4
  <2>9. QED
    BY <2>3, <2>8, Zenon
<1>13. Covering'
  BY <1>2, <1>6, <1>10, <1>12 DEF Covering
<1>14. ToSet(t.members) \subseteq ToSet(Flat(q)) /\ ToSet(Flat(q)) \subseteq ToSet(u)
  <2>1. IsInjective(Flat(q)) /\ ToSet(Flat(q)) \subseteq ToSet(u)
    BY <1>8 DEF Covers
  <2>2. PICK r : r = Without(q, t.id)
    OBVIOUS
  <2>3. ToSet(t.members) \subseteq ToSet(Flat(q))
    BY <1>11, <2>1, <2>2, FlatWithout
  <2>4. QED
    BY <2>1, <2>3
<1>15. ASSUME Settled'[stage]
       PROVE  \A r : r \in lost'[stage] <=> \E m \in ToSet(u) \ ToSet(Flat(p)) : r \in ToSet(G[m])
  <2>1. Settled[stage]
    <3>1. moved \subseteq moved'
      BY <1>2
    <3>2. QED
      BY <1>3, <1>15, <3>1, SettledFacts
  <2>2. \A r : r \in lost[stage] <=> \E m \in ToSet(u) \ ToSet(Flat(q)) : r \in ToSet(G[m])
    BY <1>3, <1>4, <2>1 DEF Missed
  <2>3. CASE Resplit(t)
    <3>1. lost' = lost /\ ToSet(Flat(p)) = ToSet(Flat(q))
      BY <1>9, <1>12, <1>14, <2>3
    <3>2. QED
      BY <2>2, <3>1
  <2>4. CASE ~Resplit(t)
    <3>1. ToSet(Flat(p)) = ToSet(Flat(q)) \ ToSet(t.members)
      BY <1>9, <1>12, <2>4
    <3>2. lost'[stage] = lost[stage] \cup ToSet(Input(stage, t.members))
      <4>1. lost \in [Stage -> SUBSET Row]
        BY <1>3 DEF Attempts
      <4>2. QED
        BY <1>3, <1>9, <2>4, <4>1
    <3>3. PICK I : I = ToSet(u)
      OBVIOUS
    <3>4. Maps(G, I, Row)
      BY <1>3, <1>4, <3>3, ReadsOfType DEF Attempts
    <3>5. t.members \in Seq(I)
      <4>1. PICK ms \in Seq(Id) : ms = t.members /\ ToSet(ms) \subseteq I
        BY <1>3, <1>14, <3>3 DEF Task
      <4>2. ms \in Seq(I)
        BY <4>1, SeqWithin
      <4>3. QED
        BY <4>1, <4>2
    <3>6. Input(stage, t.members) = Spread(G, t.members)
      BY <1>4, <3>3, <3>5, InputSpread
    <3>7. \A r : r \in ToSet(Spread(G, t.members)) <=> \E m \in ToSet(t.members) : r \in ToSet(G[m])
      BY <3>4, <3>5, SpreadHas
    <3>8. \A r : r \in lost'[stage] <=> \/ r \in lost[stage]
                                        \/ \E m \in ToSet(t.members) : r \in ToSet(G[m])
      BY <3>2, <3>6, <3>7
    <3>9. \A m : m \in ToSet(u) \ ToSet(Flat(p)) <=>
                   m \in ToSet(u) \ ToSet(Flat(q)) \/ m \in ToSet(t.members)
      BY <1>14, <3>1
    <3>10. QED
      BY <2>2, <3>8, <3>9
  <2>5. QED
    BY <2>3, <2>4
<1>16. Missed'
  BY <1>2, <1>6, <1>7, <1>10, <1>15 DEF Missed
<1>17. QED
  BY <1>2, <1>13, <1>16

(* The first stage, or the next, is planned: nothing of it is missed yet.   *)
LEMMA PlanStarts ==
  ASSUME TypeInv, TypeInv', Planned', Distinct, NEW p \in Stage, Plan(p), source' = source,
         \A u \in Stage : u >= p => lost'[u] = {}
  PROVE  Distinct' /\ Covering' /\ Missed' /\ NotYet'
<1>1. /\ stage' = p
      /\ Upstream(p)' = Upstream(p)
      /\ Flat(tasks)' = Upstream(p)
      /\ Covers(tasks, Upstream(p))'
      /\ \A u \in Stage : u # p => manifest'[u] = manifest[u]
  BY PlanCovers
<1>2. Covering'
  BY <1>1 DEF Covering
<1>3. Missed'
  <2>1. lost'[p] = {}
    BY ConstantsFacts
  <2>2. ToSet(Upstream(p)') \ ToSet(Flat(tasks)') = {}
    BY <1>1
  <2>3. \A r : ~ \E m \in ToSet(Upstream(p)') \ ToSet(Flat(tasks)') : r \in ToSet(ReadsOf(p)'[m])
    BY <2>2
  <2>4. QED
    BY <1>1, <2>1, <2>3 DEF Missed
<1>4. NotYet'
  BY <1>1, ConstantsFacts DEF NotYet
<1>5. Distinct'
  <2>1. IsInjective(Ids(manifest'[p]))
    <3>1. (Tables /\ TasksFit /\ Planned /\ Covering /\ stage \in Stage)'
      BY <1>1, <1>2 DEF TypeInv
    <3>2. (Tables /\ TasksFit /\ Planned /\ Covering /\ stage \in Stage
             => IsInjective(Ids(manifest[stage])))'
      BY StageDistinct, PTL
    <3>3. QED
      BY <1>1, <3>1, <3>2
  <2>2. \A u \in Stage : u # p => IsInjective(Ids(manifest'[u]))
    BY <1>1 DEF Distinct
  <2>3. QED
    BY <2>1, <2>2 DEF Distinct
<1>6. QED
  BY <1>2, <1>3, <1>4, <1>5

(* No stage runs: nothing is said but of the manifests.                     *)
LEMMA NoStage ==
  ASSUME Distinct, manifest' = manifest, stage' \notin Stage
  PROVE  Distinct' /\ Covering' /\ Missed' /\ NotYet'
BY DEF Distinct, Covering, Missed, NotYet

(* Where the tasks and the tables stay, and what is done stays as it is.    *)
LEMMA WorkerCovers ==
  ASSUME FrozenInv, Distinct, Covering, Missed, NotYet, Frozen,
         UNCHANGED <<source, manifest, stage, tasks, moved, lost>>
  PROVE  Distinct' /\ Covering' /\ Missed' /\ NotYet'
<1>1. Distinct' /\ NotYet'
  BY DEF Distinct, NotYet
<1>2. PICK s : s = stage
  OBVIOUS
<1>3. Upstream(s)' = Upstream(s)
  BY UpstreamUnchanged
<1>4. Covering'
  BY <1>2, <1>3 DEF Covering
<1>5. ASSUME s \in Stage, Settled'[s] PROVE Settled[s] /\ ReadsOf(s)' = ReadsOf(s)
  <2>1. Settled[s]
    <3>1. moved \subseteq moved'
      OBVIOUS
    <3>2. QED
      BY <1>5, <3>1, SettledFacts
  <2>2. ASSUME Reads[s] # 0, NEW m \in ToSet(Upstream(s))
        PROVE  parts'[<<Reads[s], m>>] = parts[<<Reads[s], m>>]
    <3>1. PICK u \in Stage : u = Reads[s] /\ u < stage /\ Settled[u]
      <4>1. Reads[s] \in Stage /\ Reads[s] < stage
        BY <1>2, <1>5, <2>2, ConstantsFacts
      <4>2. Settled[Reads[s]]
        BY <1>5, <2>1, <2>2, SettledReads
      <4>3. QED
        BY <4>1, <4>2
    <3>2. PICK mf : mf = manifest[u]
      OBVIOUS
    <3>3. PICK c \in ToSet(mf) : m = c.id
      <4>1. Upstream(s) = Ids(mf)
        BY <2>2, <3>1, <3>2 DEF Upstream, UpstreamChunks
      <4>2. mf \in Seq(Chunk)
        BY <3>2 DEF FrozenInv, TypeInv, Tables
      <4>3. PICK n \in Nat : n = Len(mf) /\ DOMAIN mf = 1 .. n
        BY <4>2, LenProperties
      <4>4. \A x : x \in ToSet(Ids(mf)) <=> \E i \in 1 .. n : x = mf[i].id
        BY <4>2, <4>3, IdsType
      <4>5. PICK i \in 1 .. n : m = mf[i].id
        BY <2>2, <4>1, <4>4
      <4>6. mf[i] \in ToSet(mf)
        BY <4>3 DEF ToSet
      <4>7. QED
        BY <4>5, <4>6
    <3>4. PICK k : k = <<u, m>>
      OBVIOUS
    <3>5. k[1] = u
      BY <3>4
    <3>6. k \in results
      BY <3>1, <3>2, <3>3, <3>4 DEF FrozenInv, Passed
    <3>7. QED
      BY <3>1, <3>4, <3>5, <3>6 DEF Frozen
  <2>3. ReadsOf(s)' = ReadsOf(s)
    BY <2>2, ReadsUnchanged
  <2>4. QED
    BY <2>1, <2>3
<1>6. Missed'
  BY <1>2, <1>3, <1>5 DEF Missed
<1>7. QED
  BY <1>1, <1>4, <1>6

LEMMA CoveringStays ==
  ASSUME FrozenInv, FrozenInv', Distinct, Covering, Missed, NotYet, [Next]_vars
  PROVE  Distinct' /\ Covering' /\ Missed' /\ NotYet'
<1>0. /\ TypeInv /\ TypeInv' /\ Planned /\ Planned'
      /\ Begun /\ Written /\ Writing
  BY DEF FrozenInv
<1>1. CASE StartRun
  <2>1. 1 \in Stage /\ Plan(1) /\ source' = source /\ \A u \in Stage : lost'[u] = {}
    BY <1>1, ConstantsFacts DEF StartRun
  <2>2. QED
    BY <1>0, <2>1, PlanStarts
<1>2. CASE StageDone
  <2>1. stage \in Stage /\ stage' = stage + 1 /\ source' = source /\ lost' = lost
    BY <1>0, <1>2, StageDoneFacts
  <2>2. CASE stage + 1 \in Stage /\ Plan(stage + 1)
    <3>1. PICK p \in Stage : p = stage + 1 /\ Plan(p)
      BY <2>2
    <3>2. \A u \in Stage : u >= p => lost'[u] = {}
      <4>1. \A u \in Stage : u >= p => u > stage
        BY <2>1, <3>1, ConstantsFacts
      <4>2. QED
        BY <2>1, <4>1 DEF NotYet
    <3>3. QED
      BY <1>0, <2>1, <3>1, <3>2, PlanStarts
  <2>3. CASE stage + 1 = Finished /\ stage' = Finished /\ manifest' = manifest
    <3>1. stage' \notin Stage
      BY <2>3, ConstantsFacts
    <3>2. QED
      BY <2>3, <3>1, NoStage
  <2>4. QED
    BY <1>2, <2>2, <2>3 DEF StageDone
<1>3. CASE RunCutShort \/ SourceGrows
  <2>1. stage' = 0 /\ manifest' = manifest
    BY <1>3 DEF RunCutShort, SourceGrows
  <2>2. stage' \notin Stage
    BY <2>1, ConstantsFacts
  <2>3. QED
    BY <2>1, <2>2, NoStage
<1>4. CASE Remediate
  <2>1. Covering' /\ Missed' /\ stage' = stage
    BY <1>0, <1>4, RemediateCovers
  <2>2. PICK t \in ToSet(tasks) : Resplit(t) \/ Skip(t)
    BY <1>4 DEF Remediate
  <2>3. \A u \in Stage : u # stage => manifest'[u] = manifest[u] /\ lost'[u] = lost[u]
    BY <1>0, <2>2, ReplaceWithin
  <2>4. stage \in Stage
    BY <1>0, <2>2, TaskFacts
  <2>5. NotYet'
    <3>1. \A u \in Stage : u > stage => u # stage
      BY ConstantsFacts
    <3>2. QED
      BY <2>1, <2>3, <2>4, <3>1 DEF NotYet
  <2>6. Distinct'
    <3>1. (Tables /\ TasksFit /\ Planned /\ Covering /\ stage \in Stage)'
      BY <1>0, <2>1, <2>4 DEF TypeInv
    <3>2. (Tables /\ TasksFit /\ Planned /\ Covering /\ stage \in Stage
             => IsInjective(Ids(manifest[stage])))'
      BY StageDistinct, PTL
    <3>3. IsInjective(Ids(manifest'[stage]))
      BY <2>1, <3>1, <3>2
    <3>4. \A u \in Stage : u # stage => IsInjective(Ids(manifest'[u]))
      BY <2>3 DEF Distinct
    <3>5. QED
      BY <3>3, <3>4 DEF Distinct
  <2>7. QED
    BY <2>1, <2>5, <2>6
<1>5. CASE \/ vars' = vars
           \/ \E w \in Worker : WorkerStep(w)
  <2>1. UNCHANGED <<source, manifest, stage, tasks, moved, lost>>
    BY <1>0, <1>5, WorkerWithin
  <2>2. Frozen
    BY <1>0, FrozenStep
  <2>3. QED
    BY <2>1, <2>2, WorkerCovers
<1>6. QED
  BY <1>1, <1>2, <1>3, <1>4, <1>5 DEF Next, vars

-----------------------------------------------------------------------------
(* With what a stage reads frozen, these are inductive: the tasks of the    *)
(* stage that runs cover what it reads but for what is lost, so that once   *)
(* they are done its output is that, and stays.                             *)
ResumeInv == FrozenInv /\ Distinct /\ Covering /\ Missed /\ NotYet /\ Delivered

LEMMA InitResume == Init => ResumeInv
<1> SUFFICES ASSUME Init PROVE ResumeInv
  OBVIOUS
<1>1. FrozenInv
  BY InitFrozen
<1>2. stage = 0 /\ 0 \notin Stage
  BY ConstantsFacts DEF Init
<1>3. Covering /\ Missed /\ NotYet
  BY <1>2 DEF Covering, Missed, NotYet
<1>4. Delivered
  <2>1. \A s \in Stage : ~(s < 0)
    BY ConstantsFacts
  <2>2. QED
    BY <1>2, <2>1 DEF Delivered
<1>5. Distinct
  <2>1. \A u \in Stage : manifest[u] = <<>>
    BY DEF Init
  <2>2. Ids(<<>>) = <<>>
    BY DEF Ids
  <2>3. IsInjective(<<>>)
    BY DEF IsInjective
  <2>4. QED
    BY <2>1, <2>2, <2>3 DEF Distinct
<1>6. QED
  BY <1>1, <1>3, <1>4, <1>5 DEF ResumeInv

LEMMA ResumeInductive == ResumeInv /\ [Next]_vars => ResumeInv'
<1> SUFFICES ASSUME ResumeInv, [Next]_vars PROVE ResumeInv'
  OBVIOUS
<1>1. FrozenInv /\ Distinct /\ Covering /\ Missed /\ NotYet /\ Delivered
  BY DEF ResumeInv
<1>2. FrozenInv'
  BY <1>1, FrozenInductive
<1>3. Distinct' /\ Covering' /\ Missed' /\ NotYet'
  BY <1>1, <1>2, CoveringStays
<1>4. Delivered'
  BY <1>1, <1>2, DeliveredStays
<1>5. QED
  BY <1>2, <1>3, <1>4 DEF ResumeInv

(* What has been delivered is complete: it is as long, has the same rows    *)
(* and, where nothing was split, the same order.                            *)
LEMMA DeliversComplete ==
  ASSUME Tables, Attempts, NEW s \in Stage, Delivers(s), NEW kept,
         kept = Only(SourceRows, Row \ LostBefore[s]), Output(s) \in Seq(Row)
  PROVE  /\ Len(Output(s)) = Len(kept) /\ ToSet(Output(s)) = ToSet(kept)
         /\ Unsplit[s] => Output(s) = kept
<1>1. PICK x, R, o : x = SourceRows /\ R = Row \ LostBefore[s] /\ o = Output(s)
  OBVIOUS
<1>2. x \in Seq(Row) /\ IsInjective(x)
  BY <1>1, SourceDistinct
<1>3. kept = Only(x, R)
  BY <1>1
<1>4. Only(x, R) \in Seq(Row) /\ ToSet(Only(x, R)) = ToSet(x) \cap R /\ IsInjective(Only(x, R))
  BY <1>2, OnlyFacts, OnlyInjective
<1>5. ToSet(x) \subseteq Row
  BY <1>2, ElementOfSeq, LenProperties DEF ToSet
<1>6. /\ IsInjective(o) /\ o \in Seq(Row)
      /\ \A r : r \in ToSet(o) <=> r \in ToSet(x) /\ r \notin LostBefore[s]
      /\ Unsplit[s] => o = kept
  BY <1>1, <1>3 DEF Delivers
<1>7. ToSet(o) = ToSet(Only(x, R))
  BY <1>1, <1>4, <1>5, <1>6
<1>8. Len(o) = Len(Only(x, R))
  <2>1. \A q \in Seq(Row) : IsInjective(q) => Cardinality(ToSet(q)) = Len(q)
    BY InjectiveLen
  <2>2. PICK k : k = Only(x, R)
    OBVIOUS
  <2>3. Cardinality(ToSet(o)) = Len(o) /\ Cardinality(ToSet(k)) = Len(k)
    BY <1>4, <1>6, <2>1, <2>2
  <2>4. ToSet(o) = ToSet(k)
    BY <1>7, <2>2
  <2>5. QED
    BY <2>2, <2>3, <2>4
<1>9. QED
  BY <1>1, <1>3, <1>6, <1>7, <1>8

LEMMA OutputType ==
  ASSUME Tables, Attempts, NEW s \in Stage
  PROVE  Output(s) \in Seq(Row)
<1>1. PICK q \in Seq(Chunk) : q = manifest[s]
  BY DEF Tables
<1>2. PICK n \in Nat : n = Len(q) /\ DOMAIN q = 1 .. n
  BY LenProperties
<1>3. ASSUME NEW i \in 1 .. n PROVE ChunkRows(<<s, q[i].id>>) \in Seq(Row)
  <2>1. q[i] \in Chunk
    BY <1>2, ElementOfSeq
  <2>2. <<s, q[i].id>> \in Key
    BY <2>1 DEF Chunk, Key
  <2>3. parts[<<s, q[i].id>>] \in Seq(Seq(Row))
    BY <2>2 DEF Attempts
  <2>4. QED
    BY <2>3, FlattenSteps DEF ChunkRows
<1>4. PICK f : f = [i \in 1 .. n |-> ChunkRows(<<s, q[i].id>>)]
  OBVIOUS
<1>5. f \in [1 .. n -> Seq(Row)]
  BY <1>3, <1>4, Zenon
<1>6. f \in Seq(Seq(Row))
  BY <1>5, FunctionSeq
<1>7. Output(s) = FlattenSeq(f)
  BY <1>1, <1>2, <1>4, Zenon DEF Output
<1>8. QED
  BY <1>6, <1>7, FlattenSteps

LEMMA ResumeInvImplies == ResumeInv => ResumeComplete
<1> SUFFICES ASSUME ResumeInv PROVE ResumeComplete
  OBVIOUS
<1>1. Tables /\ Attempts /\ Delivered
  BY DEF ResumeInv, FrozenInv, TypeInv
<1>2. ASSUME NEW s \in Stage, s < stage, Settled[s], NEW kept,
             kept = Only(SourceRows, Row \ LostBefore[s])
      PROVE  /\ Len(Output(s)) = Len(kept) /\ ToSet(Output(s)) = ToSet(kept)
             /\ Unsplit[s] => Output(s) = kept
  <2>1. Delivers(s)
    BY <1>1, <1>2 DEF Delivered
  <2>2. QED
    BY <1>1, <1>2, <2>1, OutputType, DeliversComplete
<1>3. QED
  BY <1>2 DEF ResumeComplete

(* Whatever workers failed, whichever two ran the same chunk, wherever      *)
(* earlier runs were cut short, and though the plan undoes what they split  *)
(* or skipped: a stage that a run is past, and that packs no chunks found   *)
(* changed, has every row of the source once but for those that this run    *)
(* has skipped, in order unless a chunk was split (README.md:14,            *)
(* controller.py:105, 225-227, 336-340, worker.py:52-61).                   *)
THEOREM ResumesComplete == Spec => []ResumeComplete
<1>1. Init => ResumeInv
  BY InitResume
<1>2. ResumeInv /\ [Next]_vars => ResumeInv'
  BY ResumeInductive
<1>3. ResumeInv => ResumeComplete
  BY ResumeInvImplies
<1>4. QED
  BY <1>1, <1>2, <1>3, PTL DEF Spec
=============================================================================
