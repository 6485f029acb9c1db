---------------------------- MODULE RendererProofs ----------------------------
(* Theorems about Renderer, for every number of strokes and scales, every    *)
(* size of a chunk and any failures of the driver.                           *)
EXTENDS Renderer, SequenceTheorems, TLAPS

\* The lemmas about lists, which have nothing to do with clients and strokes.
L == INSTANCE LwwTheorems WITH Clients <- {}, Strokes <- {}

-----------------------------------------------------------------------------
(* Lists *)

LEMMA SameFlatten == ASSUME NEW s PROVE L!FlattenSeq(s) = FlattenSeq(s)
BY Zenon DEF FlattenSeq, L!FlattenSeq

LEMMA SameMax == ASSUME NEW s PROVE L!Max(s) = Max(s)
BY Zenon DEF Max, L!Max

LEMMA SameRange == ASSUME NEW s PROVE L!Range(s) = Range(s)
BY Zenon DEF Range, L!Range

LEMMA ListInduction ==
  ASSUME NEW n \in Nat, NEW T, 0 \in T, \A i \in 1 .. n : i - 1 \in T => i \in T
  PROVE  \A i \in 0 .. n : i \in T
BY L!ListInduction

LEMMA FunctionIsSeq ==
  ASSUME NEW S, NEW n \in Nat, NEW f \in [1 .. n -> S]
  PROVE  f \in Seq(S) /\ Len(f) = n /\ DOMAIN f = 1 .. n
OBVIOUS

LEMMA FlattenSteps ==
  ASSUME NEW S, NEW n \in Nat, NEW seqs \in [1 .. n -> Seq(S)]
  PROVE  \E a \in [0 .. n -> Seq(S)] :
           /\ a[0] = <<>> /\ \A i \in 1 .. n : a[i] = a[i - 1] \o seqs[i]
           /\ FlattenSeq(seqs) = a[n]
<1>1. PICK a \in [0 .. n -> Seq(S)] :
         /\ a[0] = <<>> /\ \A i \in 1 .. n : a[i] = a[i - 1] \o seqs[i]
         /\ L!FlattenSeq(seqs) = a[n]
  BY L!FlattenSteps
<1> QED
  BY <1>1, SameFlatten

LEMMA FlattenElements ==
  ASSUME NEW S, NEW n \in Nat, NEW seqs \in [1 .. n -> Seq(S)]
  PROVE  /\ FlattenSeq(seqs) \in Seq(S)
         /\ \A x : x \in Range(FlattenSeq(seqs)) <=> \E i \in 1 .. n : x \in Range(seqs[i])
<1>1. /\ L!FlattenSeq(seqs) \in Seq(S)
      /\ \A x : x \in L!Range(L!FlattenSeq(seqs)) <=> \E i \in 1 .. n : x \in L!Range(seqs[i])
  BY L!FlattenElements
<1> QED
  BY <1>1, SameFlatten, SameRange, Zenon

\* Whatever goes through the same values as a flattening ends where it ends.
LEMMA FlattenIs ==
  ASSUME NEW S, NEW n \in Nat, NEW seqs \in [1 .. n -> Seq(S)], NEW a,
         a[0] = <<>>, \A i \in 1 .. n : a[i] = a[i - 1] \o seqs[i]
  PROVE  FlattenSeq(seqs) = a[n]
<1>1. PICK c \in [0 .. n -> Seq(S)] :
         /\ c[0] = <<>> /\ \A i \in 1 .. n : c[i] = c[i - 1] \o seqs[i]
         /\ FlattenSeq(seqs) = c[n]
  BY FlattenSteps
<1> DEFINE T == {k \in 0 .. n : a[k] = c[k]}
<1>2. 0 \in T
  BY <1>1
<1>3. ASSUME NEW k \in 1 .. n, k - 1 \in T PROVE k \in T
  <2>1. a[k - 1] = c[k - 1] /\ k \in 0 .. n
    BY <1>3
  <2>2. a[k] = a[k - 1] \o seqs[k] /\ c[k] = c[k - 1] \o seqs[k]
    BY <1>1
  <2> QED
    BY <2>1, <2>2
<1>4. \A k \in 0 .. n : k \in T
  <2> HIDE DEF T
  <2> QED
    BY <1>2, <1>3, ListInduction
<1>5. n \in 0 .. n
  OBVIOUS
<1> QED
  BY <1>1, <1>4, <1>5

LEMMA FlattenConcat ==
  ASSUME NEW S, NEW p \in Seq(Seq(S)), NEW q \in Seq(Seq(S))
  PROVE  FlattenSeq(p \o q) = FlattenSeq(p) \o FlattenSeq(q)
<1> DEFINE m == Len(p)
           n == Len(q)
           r == p \o q
<1>1. /\ m \in Nat /\ n \in Nat /\ m + n \in Nat
      /\ p \in [1 .. m -> Seq(S)] /\ q \in [1 .. n -> Seq(S)]
  OBVIOUS
<1>2. /\ r \in [1 .. m + n -> Seq(S)]
      /\ \A i \in 1 .. m : r[i] = p[i]
      /\ \A i \in 1 .. n : r[m + i] = q[i]
  <2>1. r \in Seq(Seq(S)) /\ Len(r) = m + n
    BY ConcatProperties
  <2>2. \A i \in 1 .. m : r[i] = p[i]
    BY ConcatProperties
  <2>3. \A i \in 1 .. n : r[m + i] = q[i]
    <3> SUFFICES ASSUME NEW i \in 1 .. n PROVE r[m + i] = q[i]
      OBVIOUS
    <3>1. m + i \in 1 .. m + n /\ ~(m + i <= m) /\ (m + i) - m = i
      BY <1>1
    <3> QED
      BY <3>1, ConcatProperties
  <2> HIDE DEF r, m, n
  <2> QED
    BY <2>1, <2>2, <2>3
<1> HIDE DEF m, n, r
<1>3. PICK c \in [0 .. m + n -> Seq(S)] :
         /\ c[0] = <<>> /\ \A i \in 1 .. m + n : c[i] = c[i - 1] \o r[i]
         /\ FlattenSeq(r) = c[m + n]
  <2>1. PICK t \in Nat : t = m + n
    BY <1>1
  <2>2. r \in [1 .. t -> Seq(S)]
    BY <1>2, <2>1
  <2>3. \E c \in [0 .. t -> Seq(S)] :
           /\ c[0] = <<>> /\ \A i \in 1 .. t : c[i] = c[i - 1] \o r[i]
           /\ FlattenSeq(r) = c[t]
    BY ONLY <2>2, t \in Nat, FlattenSteps
  <2> QED
    BY <2>1, <2>3
<1>4. PICK d \in [0 .. n -> Seq(S)] :
         /\ d[0] = <<>> /\ \A i \in 1 .. n : d[i] = d[i - 1] \o q[i]
         /\ FlattenSeq(q) = d[n]
  BY <1>1, FlattenSteps
<1>5. FlattenSeq(p) = c[m]
  <2>1. \A i \in 1 .. m : c[i] = c[i - 1] \o p[i]
    <3> SUFFICES ASSUME NEW i \in 1 .. m PROVE c[i] = c[i - 1] \o p[i]
      OBVIOUS
    <3>1. i \in 1 .. m + n
      BY <1>1
    <3> QED
      BY <1>2, <1>3, <3>1
  <2>2. c[0] = <<>>
    BY <1>3
  <2> QED
    BY ONLY <1>1, <2>1, <2>2, FlattenIs, Zenon
<1>6. c[m] \in Seq(S)
  BY <1>1, <1>3
<1> DEFINE T == {k \in 0 .. n : c[m + k] = c[m] \o d[k]}
<1>7. 0 \in T
  <2>1. c[m] \o <<>> = c[m] /\ m + 0 = m /\ 0 \in 0 .. n
    BY <1>1, <1>6, ConcatEmptySeq
  <2> QED
    BY <1>4, <2>1
<1>8. ASSUME NEW k \in 1 .. n, k - 1 \in T PROVE k \in T
  <2>1. m + k \in 1 .. m + n /\ (m + k) - 1 = m + (k - 1) /\ k - 1 \in 0 .. n /\ k \in 0 .. n
    BY <1>1
  <2>2. c[m + k] = c[m + (k - 1)] \o q[k]
    BY <1>2, <1>3, <2>1
  <2>3. c[m + (k - 1)] = c[m] \o d[k - 1]
    BY <1>8
  <2>4. d[k - 1] \in Seq(S) /\ q[k] \in Seq(S) /\ d[k] = d[k - 1] \o q[k]
    BY <1>1, <1>4, <2>1
  <2>5. (c[m] \o d[k - 1]) \o q[k] = c[m] \o (d[k - 1] \o q[k])
    <3>1. \A s, t, u \in Seq(S) : (s \o t) \o u = s \o (t \o u)
      BY ConcatAssociative
    <3> QED
      BY <1>6, <2>4, <3>1, Zenon
  <2> QED
    BY <2>1, <2>2, <2>3, <2>4, <2>5
<1>9. \A k \in 0 .. n : k \in T
  <2> HIDE DEF T
  <2> QED
    BY <1>1, <1>7, <1>8, ListInduction
<1>10. n \in 0 .. n
  BY <1>1
<1> QED
  BY <1>3, <1>4, <1>5, <1>9, <1>10 DEF r

\* Lists are equal when they have the same elements in the same places.
LEMMA SameSeq ==
  ASSUME NEW S, NEW p \in Seq(S), NEW q \in Seq(S), Len(p) = Len(q),
         \A i \in 1 .. Len(p) : p[i] = q[i]
  PROVE  p = q
OBVIOUS

-----------------------------------------------------------------------------
(* Drawn *)

Mark(group) == [i \in 1 .. Len(group) |-> IF IsDrawn(group[i]) THEN <<group[i]>> ELSE <<>>]

LEMMA MarkType ==
  ASSUME NEW group \in Seq(Strokes)
  PROVE  /\ Mark(group) \in [1 .. Len(group) -> Seq(Strokes)]
         /\ Mark(group) \in Seq(Seq(Strokes)) /\ Len(Mark(group)) = Len(group)
<1>1. \A i \in 1 .. Len(group) : (IF IsDrawn(group[i]) THEN <<group[i]>> ELSE <<>>) \in Seq(Strokes)
  OBVIOUS
<1>2. Mark(group) \in [1 .. Len(group) -> Seq(Strokes)] /\ Len(group) \in Nat
  BY <1>1 DEF Mark
<1> QED
  BY <1>2, FunctionIsSeq

LEMMA DrawnType ==
  ASSUME NEW group \in Seq(Strokes)
  PROVE  /\ Drawn(group) \in Seq(Strokes)
         /\ Range(Drawn(group)) = {s \in Range(group) : IsDrawn(s)}
<1>0. Len(group) \in Nat /\ DOMAIN group = 1 .. Len(group)
  OBVIOUS
<1>1. /\ FlattenSeq(Mark(group)) \in Seq(Strokes)
      /\ \A x : x \in Range(FlattenSeq(Mark(group)))
                  <=> \E i \in 1 .. Len(group) : x \in Range(Mark(group)[i])
  BY <1>0, MarkType, FlattenElements
<1>2. Drawn(group) = FlattenSeq(Mark(group))
  BY Zenon DEF Drawn, Mark
<1>3. ASSUME NEW i \in 1 .. Len(group), NEW x
      PROVE  x \in Range(Mark(group)[i]) <=> IsDrawn(group[i]) /\ x = group[i]
  <2>1. Mark(group)[i] = IF IsDrawn(group[i]) THEN <<group[i]>> ELSE <<>>
    BY DEF Mark
  <2>2. Range(<<group[i]>>) = {group[i]} /\ Range(<<>>) = {}
    BY DEF Range
  <2> QED
    BY <2>1, <2>2
<1>4. \A x : x \in Range(group) <=> \E i \in 1 .. Len(group) : x = group[i]
  BY <1>0, Zenon DEF Range
<1>5. \A x : x \in Range(Drawn(group)) <=> x \in Range(group) /\ IsDrawn(x)
  <2> SUFFICES ASSUME NEW x
               PROVE  x \in Range(Drawn(group)) <=> x \in Range(group) /\ IsDrawn(x)
    OBVIOUS
  <2>1. x \in Range(Drawn(group)) <=> \E i \in 1 .. Len(group) : x \in Range(Mark(group)[i])
    BY <1>1, <1>2
  <2>2. (\E i \in 1 .. Len(group) : x \in Range(Mark(group)[i]))
           <=> \E i \in 1 .. Len(group) : IsDrawn(group[i]) /\ x = group[i]
    BY <1>3, Zenon
  <2> QED
    BY <1>4, <2>1, <2>2, Zenon
<1> QED
  BY <1>1, <1>2, <1>5

LEMMA DrawnConcat ==
  ASSUME NEW p \in Seq(Strokes), NEW q \in Seq(Strokes)
  PROVE  Drawn(p \o q) = Drawn(p) \o Drawn(q)
<1>1. p \o q \in Seq(Strokes) /\ Len(p \o q) = Len(p) + Len(q)
  BY ConcatProperties
<1>2. Mark(p \o q) = Mark(p) \o Mark(q)
  <2> DEFINE l == Mark(p \o q)
             r == Mark(p) \o Mark(q)
  <2>1. l \in Seq(Seq(Strokes)) /\ Len(l) = Len(p) + Len(q)
    BY <1>1, MarkType
  <2>4. /\ Mark(p) \in Seq(Seq(Strokes)) /\ Len(Mark(p)) = Len(p)
        /\ Mark(q) \in Seq(Seq(Strokes)) /\ Len(Mark(q)) = Len(q)
    BY MarkType
  <2>5. r \in Seq(Seq(Strokes)) /\ Len(r) = Len(p) + Len(q)
    <3>1. /\ Mark(p) \o Mark(q) \in Seq(Seq(Strokes))
          /\ Len(Mark(p) \o Mark(q)) = Len(Mark(p)) + Len(Mark(q))
      BY ONLY <2>4, ConcatProperties
    <3> QED
      BY <2>4, <3>1
  <2>2. ASSUME NEW i \in 1 .. Len(p) + Len(q) PROVE l[i] = r[i]
    <3>1. CASE i <= Len(p)
      <4>1. (p \o q)[i] = p[i] /\ i \in 1 .. Len(p \o q) /\ i \in 1 .. Len(p)
        BY <1>1, <3>1, ConcatProperties
      <4>2. r[i] = Mark(p)[i]
        BY <3>1, <4>1, MarkType, ConcatProperties
      <4> QED
        BY <4>1, <4>2 DEF Mark
    <3>2. CASE ~(i <= Len(p))
      <4> DEFINE k == i - Len(p)
      <4>1. (p \o q)[i] = q[k] /\ i \in 1 .. Len(p \o q) /\ k \in 1 .. Len(q)
        BY <1>1, <3>2, ConcatProperties
      <4>2. r[i] = Mark(q)[k]
        BY <3>2, <4>1, MarkType, ConcatProperties
      <4> HIDE DEF k
      <4> QED
        BY <4>1, <4>2 DEF Mark
    <3> QED
      BY <3>1, <3>2
  <2> HIDE DEF l, r
  <2>3. l = r
    BY <2>1, <2>2, <2>5, SameSeq
  <2> QED
    BY <2>3 DEF l, r
<1>3. FlattenSeq(Mark(p) \o Mark(q)) = FlattenSeq(Mark(p)) \o FlattenSeq(Mark(q))
  BY MarkType, FlattenConcat
<1>4. \A g : Drawn(g) = FlattenSeq(Mark(g))
  BY Zenon DEF Drawn, Mark
<1> QED
  BY <1>2, <1>3, <1>4, Zenon

-----------------------------------------------------------------------------
(* slice::chunks *)

LEMMA PartOf ==
  ASSUME NEW S, NEW v \in Seq(S), NEW a \in Nat, NEW b \in Nat, a <= b, b <= Len(v)
  PROVE  /\ SubSeq(v, a + 1, b) \in Seq(S) /\ Len(SubSeq(v, a + 1, b)) = b - a
         /\ \A i \in 1 .. b - a : SubSeq(v, a + 1, b)[i] = v[a + i]
<1>1. a + 1 \in Int /\ b \in Int /\ \A i \in a + 1 .. b : v[i] \in S
  BY LenProperties
<1>2. /\ SubSeq(v, a + 1, b) \in Seq(S)
      /\ Len(SubSeq(v, a + 1, b)) = IF a + 1 <= b THEN b - (a + 1) + 1 ELSE 0
      /\ \A i \in 1 .. b - (a + 1) + 1 : SubSeq(v, a + 1, b)[i] = v[(a + 1) + i - 1]
  BY <1>1, SubSeqProperties
<1>3. b - (a + 1) + 1 = b - a /\ (~(a + 1 <= b) => b - a = 0)
  OBVIOUS
<1>4. \A i \in 1 .. b - a : (a + 1) + i - 1 = a + i
  OBVIOUS
<1> QED
  BY <1>2, <1>3, <1>4

LEMMA SplitSeq ==
  ASSUME NEW S, NEW v \in Seq(S), NEW a \in Nat, NEW b \in Nat, a <= b, b <= Len(v)
  PROVE  SubSeq(v, 1, a) \o SubSeq(v, a + 1, b) = SubSeq(v, 1, b)
<1> DEFINE p == SubSeq(v, 1, a)
           q == SubSeq(v, a + 1, b)
           r == SubSeq(v, 1, b)
<1>0. 0 \in Nat /\ 0 <= a /\ 0 <= b /\ a <= Len(v) /\ Len(v) \in Nat /\ 0 + 1 = 1 /\ a - 0 = a /\ b - 0 = b
  OBVIOUS
<1>1. p \in Seq(S) /\ Len(p) = a /\ \A i \in 1 .. a : p[i] = v[i]
  <2>1. /\ SubSeq(v, 0 + 1, a) \in Seq(S) /\ Len(SubSeq(v, 0 + 1, a)) = a - 0
        /\ \A i \in 1 .. a - 0 : SubSeq(v, 0 + 1, a)[i] = v[0 + i]
    BY <1>0, PartOf
  <2> QED
    BY <2>1
<1>2. q \in Seq(S) /\ Len(q) = b - a /\ \A i \in 1 .. b - a : q[i] = v[a + i]
  BY PartOf
<1>3. r \in Seq(S) /\ Len(r) = b /\ \A i \in 1 .. b : r[i] = v[i]
  <2>1. /\ SubSeq(v, 0 + 1, b) \in Seq(S) /\ Len(SubSeq(v, 0 + 1, b)) = b - 0
        /\ \A i \in 1 .. b - 0 : SubSeq(v, 0 + 1, b)[i] = v[0 + i]
    BY <1>0, PartOf
  <2> QED
    BY <2>1
<1> HIDE DEF p, q, r
<1>4. p \o q \in Seq(S) /\ Len(p \o q) = b
      /\ \A i \in 1 .. b : (p \o q)[i] = IF i <= a THEN p[i] ELSE q[i - a]
  <2>1. /\ p \o q \in Seq(S) /\ Len(p \o q) = Len(p) + Len(q)
        /\ \A i \in 1 .. Len(p) + Len(q) : (p \o q)[i] = IF i <= Len(p) THEN p[i] ELSE q[i - Len(p)]
    BY <1>1, <1>2, ConcatProperties
  <2>2. Len(p) = a /\ Len(p) + Len(q) = b
    BY <1>1, <1>2
  <2> QED
    BY <2>1, <2>2
<1>5. ASSUME NEW i \in 1 .. b PROVE (p \o q)[i] = r[i]
  <2>1. CASE i <= a
    BY <1>1, <1>3, <1>4, <2>1
  <2>2. CASE ~(i <= a)
    <3>1. i - a \in 1 .. b - a /\ a + (i - a) = i
      BY <2>2
    <3>2. q[i - a] = v[i]
      BY <1>2, <3>1
    <3> QED
      BY <1>3, <1>4, <2>2, <3>2
  <2> QED
    BY <2>1, <2>2
<1>6. p \o q = r
  BY <1>3, <1>4, <1>5, SameSeq
<1> QED
  BY <1>6 DEF p, q, r

LEMMA Quotient ==
  ASSUME NEW x \in Nat, NEW c \in Nat \ {0}
  PROVE  /\ x \div c \in Nat
         /\ (x \div c) * c <= x /\ x < (x \div c) * c + c
OBVIOUS

LEMMA Multiples ==
  ASSUME NEW i \in Nat, NEW n \in Nat, NEW c \in Nat, i <= n
  PROVE  i * c \in Nat /\ n * c \in Nat /\ i * c <= n * c
OBVIOUS

LEMMA OneLess == ASSUME NEW i \in Int, NEW c \in Int PROVE (i - 1) * c = i * c - c
OBVIOUS

\* How many strokes the first i groups hold.
Reach(v, i) == IF i * ChunkSize < Len(v) THEN i * ChunkSize ELSE Len(v)

\* The groups are the drawing, cut in pieces.
LEMMA GroupsPart ==
  ASSUME NEW v \in Seq(Strokes)
  PROVE  /\ Groups(v) \in Seq(Seq(Strokes))
         /\ Reach(v, 0) = 0 /\ Reach(v, Len(Groups(v))) = Len(v)
         /\ \A i \in 1 .. Len(Groups(v)) :
              /\ Groups(v)[i] = SubSeq(v, Reach(v, i - 1) + 1, Reach(v, i))
              /\ Reach(v, i - 1) \in Nat /\ Reach(v, i) \in Nat
              /\ Reach(v, i - 1) <= Reach(v, i) /\ Reach(v, i) <= Len(v)
<1> DEFINE len == Len(v)
           n == (len + ChunkSize - 1) \div ChunkSize
           G == Groups(v)
<1>1. len \in Nat /\ ChunkSize \in Nat \ {0} /\ len + ChunkSize - 1 \in Nat
  BY RendererAssumption
<1>2. n \in Nat /\ n * ChunkSize <= len + ChunkSize - 1 /\ len + ChunkSize - 1 < n * ChunkSize + ChunkSize
  <2> HIDE DEF len
  <2> QED
    BY <1>1, Quotient
<1>3. G = [i \in 1 .. n |->
             SubSeq(v, (i - 1) * ChunkSize + 1, IF i * ChunkSize < len THEN i * ChunkSize ELSE len)]
  BY DEF Groups
<1> HIDE DEF len, n, G
<1>4. ASSUME NEW i \in 1 .. n
      PROVE  /\ Reach(v, i - 1) = (i - 1) * ChunkSize
             /\ Reach(v, i - 1) \in Nat /\ Reach(v, i) \in Nat
             /\ Reach(v, i - 1) <= Reach(v, i) /\ Reach(v, i) <= len
  <2>1. i \in Nat /\ i - 1 \in Nat /\ i <= n /\ ChunkSize \in Nat /\ n \in Nat /\ i - 1 <= i
    BY <1>1, <1>2
  <2>2. i * ChunkSize \in Nat /\ n * ChunkSize \in Nat /\ i * ChunkSize <= n * ChunkSize
    BY ONLY <2>1, Multiples
  <2>3. (i - 1) * ChunkSize \in Nat
    BY ONLY <2>1, Multiples
  <2>4. (i - 1) * ChunkSize = i * ChunkSize - ChunkSize
    BY ONLY <2>1, OneLess
  <2> DEFINE a == i * ChunkSize
             b == (i - 1) * ChunkSize
             z == n * ChunkSize
  <2>5. /\ a \in Nat /\ b \in Nat /\ z \in Nat /\ a <= z /\ b = a - ChunkSize
        /\ z <= len + ChunkSize - 1
    BY <1>2, <2>2, <2>3, <2>4
  <2>6. /\ Reach(v, i) = IF a < len THEN a ELSE len
        /\ Reach(v, i - 1) = IF b < len THEN b ELSE len
    BY DEF Reach, len
  <2> HIDE DEF a, b, z
  <2>7. b < len
    BY <1>1, <2>5
  <2>8. Reach(v, i - 1) = b
    BY <2>6, <2>7
  <2> QED
    BY <1>1, <2>5, <2>6, <2>7, <2>8 DEF b
<1>5. ASSUME NEW i \in 1 .. n
      PROVE  G[i] = SubSeq(v, Reach(v, i - 1) + 1, Reach(v, i)) /\ G[i] \in Seq(Strokes)
  <2>1. G[i] = SubSeq(v, (i - 1) * ChunkSize + 1, Reach(v, i))
    BY <1>3 DEF Reach, len
  <2>2. G[i] = SubSeq(v, Reach(v, i - 1) + 1, Reach(v, i))
    BY <1>4, <2>1
  <2>3. SubSeq(v, Reach(v, i - 1) + 1, Reach(v, i)) \in Seq(Strokes)
    BY <1>4, PartOf DEF len
  <2> QED
    BY <2>2, <2>3
<1>6. G \in Seq(Seq(Strokes)) /\ Len(G) = n
  <2>1. G \in [1 .. n -> Seq(Strokes)]
    <3>1. DOMAIN G = 1 .. n /\ G = [i \in 1 .. n |-> G[i]]
      BY <1>3
    <3> QED
      BY <1>5, <3>1
  <2> QED
    BY <1>2, <2>1, FunctionIsSeq
<1>7. Reach(v, 0) = 0
  <2>1. 0 * ChunkSize = 0
    BY <1>1
  <2> QED
    BY <1>1, <2>1 DEF Reach, len
<1>8. Reach(v, n) = len
  <2> DEFINE z == n * ChunkSize
  <2>1. z \in Nat
    BY <1>1, <1>2, Multiples
  <2>2. len + ChunkSize - 1 < z + ChunkSize /\ Reach(v, n) = IF z < len THEN z ELSE len
    BY <1>2 DEF Reach, len
  <2> HIDE DEF z
  <2> QED
    BY <1>1, <2>1, <2>2
<1> QED
  BY <1>4, <1>5, <1>6, <1>7, <1>8 DEF G, len

\* Drawing group by group is drawing the whole.
LEMMA GroupsDrawn ==
  ASSUME NEW v \in Seq(Strokes), NEW G, G = Groups(v)
  PROVE  FlattenSeq([i \in 1 .. Len(G) |-> Drawn(G[i])]) = Drawn(v)
<1> DEFINE n == Len(G)
           seqs == [i \in 1 .. n |-> Drawn(G[i])]
           a == [i \in 0 .. n |-> Drawn(SubSeq(v, 1, Reach(v, i)))]
<1>0. Len(v) \in Nat /\ (G \in Seq(Seq(Strokes)) => n \in Nat)
  OBVIOUS
<1>1. /\ G \in Seq(Seq(Strokes))
      /\ Reach(v, 0) = 0 /\ Reach(v, n) = Len(v)
      /\ \A i \in 1 .. n :
           /\ G[i] = SubSeq(v, Reach(v, i - 1) + 1, Reach(v, i))
           /\ Reach(v, i - 1) \in Nat /\ Reach(v, i) \in Nat
           /\ Reach(v, i - 1) <= Reach(v, i) /\ Reach(v, i) <= Len(v)
  BY GroupsPart, Zenon
<1> HIDE DEF n
<1>2. seqs \in [1 .. n -> Seq(Strokes)]
  <2>1. \A i \in 1 .. n : G[i] \in Seq(Strokes)
    BY <1>0, <1>1 DEF n
  <2> QED
    BY <2>1, DrawnType
<1>3. a[0] = <<>>
  <2>1. SubSeq(v, 1, 0) = <<>> /\ 0 \in 0 .. n
    BY <1>0, <1>1
  <2>2. Drawn(<<>>) = <<>>
    <3>1. <<>> \in Seq(Strokes) /\ Len(<<>>) = 0
      OBVIOUS
    <3>2. Range(Drawn(<<>>)) = {} /\ Drawn(<<>>) \in Seq(Strokes)
      <4>1. Range(<<>>) = {}
        BY DEF Range
      <4> QED
        BY <3>1, <4>1, DrawnType
    <3>3. Len(Drawn(<<>>)) = 0
      <4> SUFFICES ASSUME Len(Drawn(<<>>)) # 0 PROVE FALSE
        OBVIOUS
      <4>1. 1 \in DOMAIN Drawn(<<>>)
        BY <3>2
      <4> QED
        BY <3>2, <4>1 DEF Range
    <3> QED
      BY <3>2, <3>3, EmptySeq
  <2> QED
    BY <1>0, <1>1, <2>1, <2>2
<1>4. ASSUME NEW i \in 1 .. n PROVE a[i] = a[i - 1] \o seqs[i]
  <2>1. i \in 0 .. n /\ i - 1 \in 0 .. n
    BY <1>0, <1>1
  <2> DEFINE x == Reach(v, i - 1)
             y == Reach(v, i)
  <2>2. x \in Nat /\ y \in Nat /\ x <= y /\ y <= Len(v) /\ G[i] = SubSeq(v, x + 1, y)
    BY <1>0, <1>1
  <2> HIDE DEF x, y
  <2>3. SubSeq(v, 1, x) \o SubSeq(v, x + 1, y) = SubSeq(v, 1, y)
    BY <2>2, SplitSeq
  <2>4. SubSeq(v, 1, x) \in Seq(Strokes) /\ SubSeq(v, x + 1, y) \in Seq(Strokes)
    <3>1. 0 \in Nat /\ 0 <= x /\ x <= Len(v) /\ 0 + 1 = 1
      BY <1>0, <1>1, <2>2
    <3>2. SubSeq(v, 0 + 1, x) \in Seq(Strokes)
      BY <2>2, <3>1, PartOf
    <3>3. SubSeq(v, x + 1, y) \in Seq(Strokes)
      BY <2>2, PartOf
    <3> QED
      BY <3>1, <3>2, <3>3
  <2>5. Drawn(SubSeq(v, 1, y)) = Drawn(SubSeq(v, 1, x)) \o Drawn(SubSeq(v, x + 1, y))
    BY <2>3, <2>4, DrawnConcat
  <2> QED
    BY <2>1, <2>2, <2>5 DEF x, y
<1>5. a[n] = Drawn(v)
  <2>1. n \in 0 .. n /\ SubSeq(v, 1, Len(v)) = v
    BY <1>0, <1>1
  <2> QED
    BY <1>0, <1>1, <2>1
<1> HIDE DEF seqs, a
<1>6. FlattenSeq(seqs) = a[n]
  <2>1. n \in Nat
    BY <1>0, <1>1
  <2> QED
    BY ONLY <2>1, <1>2, <1>3, <1>4, FlattenIs, Zenon
<1> QED
  BY <1>5, <1>6 DEF seqs, n

-----------------------------------------------------------------------------
(* The loop of sync *)

Box == [key : Seq(Strokes), drawn : Seq(Strokes), at : Scales]

LEMMA ChunkType ==
  ASSUME camera \in Scales, NEW group \in Seq(Strokes)
  PROVE  /\ Chunk(group) \in Box /\ Chunk(group).key = group
         /\ Chunk(group).drawn = Drawn(group) /\ Chunk(group).at = camera
BY DrawnType DEF Chunk, Box

LEMMA PutType ==
  ASSUME camera \in Scales, NEW cs \in Seq(Box), NEW i \in Nat \ {0}, NEW group \in Seq(Strokes),
         NEW failed
  PROVE  /\ Put(cs, i, group, failed) \in Seq(Box)
         /\ Len(Put(cs, i, group, failed)) \in {Len(cs), Len(cs) + 1}
<1> DEFINE c == Chunk(group)
<1>1. c \in Box
  BY ChunkType
<1> HIDE DEF c
<1>2. Append(cs, c) \in Seq(Box) /\ Len(Append(cs, c)) = Len(cs) + 1
  <2> HIDE DEF Box
  <2> QED
    BY <1>1
<1>3. i <= Len(cs) => [cs EXCEPT ![i] = c] \in Seq(Box) /\ Len([cs EXCEPT ![i] = c]) = Len(cs)
  <2> HIDE DEF Box
  <2> QED
    BY <1>1
<1> QED
  BY <1>2, <1>3 DEF Put, c

LEMMA PutSteps ==
  ASSUME camera \in Scales, NEW cs \in Seq(Box), NEW groups \in Seq(Seq(Strokes)), NEW failed
  PROVE  \E a \in [0 .. Len(groups) -> Seq(Box)] :
           /\ a[0] = cs
           /\ \A i \in 1 .. Len(groups) : a[i] = Put(a[i - 1], i, groups[i], failed)
           /\ PutAll(cs, groups, failed) = a[Len(groups)]
<1> DEFINE n == Len(groups)
           A == Seq(Box)
           list == [i \in 1 .. n |-> i]
           h == [p \in A \X (1 .. n) |-> Put(p[1], p[2], groups[p[2]], failed)]
           E(f) == f = [s \in SUBSET DOMAIN list |->
                          IF s = {} THEN cs
                          ELSE Put(f[s \ {Max(s)}], list[Max(s)], groups[list[Max(s)]], failed)]
           fold == CHOOSE f : E(f)
<1>1. n \in Nat /\ DOMAIN list = 1 .. n /\ \A i \in 1 .. n : list[i] = i /\ groups[i] \in Seq(Strokes)
  OBVIOUS
<1> HIDE DEF list, n
<1>2. h \in [A \X (1 .. n) -> A]
  <2>1. \A p \in A \X (1 .. n) : Put(p[1], p[2], groups[p[2]], failed) \in A
    <3> SUFFICES ASSUME NEW p \in A \X (1 .. n) PROVE Put(p[1], p[2], groups[p[2]], failed) \in A
      OBVIOUS
    <3>1. p[1] \in A /\ p[2] \in Nat \ {0} /\ groups[p[2]] \in Seq(Strokes)
      BY <1>1
    <3> QED
      BY <3>1, PutType
  <2> QED
    BY <2>1
<1>3. PICK g \in [SUBSET (1 .. n) -> A] : L!Iterated(g, n, cs, h)
  <2> HIDE DEF h
  <2>1. cs \in A
    OBVIOUS
  <2> HIDE DEF A
  <2> QED
    BY ONLY <1>1, <1>2, <2>1, L!FoldExists
<1>4. E(g)
  <2>1. ASSUME NEW s \in SUBSET (1 .. n)
        PROVE  g[s] = IF s = {} THEN cs
                      ELSE Put(g[s \ {Max(s)}], list[Max(s)], groups[list[Max(s)]], failed)
    <3>1. g[s] = IF s = {} THEN cs ELSE h[<<g[s \ {Max(s)}], Max(s)>>]
      <4>1. g[s] = IF s = {} THEN cs ELSE h[<<g[s \ {L!Max(s)}], L!Max(s)>>]
        BY <1>3, Zenon DEF L!Iterated
      <4> QED
        BY <4>1, SameMax, Zenon
    <3>2. s # {} => Max(s) \in 1 .. n /\ s \ {Max(s)} \in SUBSET (1 .. n)
      <4>1. s # {} => L!Max(s) \in s
        BY <1>1, L!MaxOfSet
      <4>2. s # {} => Max(s) \in s
        BY <4>1, SameMax, Zenon
      <4> QED
        BY <4>2
    <3>3. s # {} => <<g[s \ {Max(s)}], Max(s)>> \in A \X (1 .. n)
      BY <3>2
    <3> QED
      BY <1>1, <3>1, <3>2, <3>3
  <2>2. g = [s \in SUBSET (1 .. n) |-> g[s]]
    OBVIOUS
  <2> QED
    BY <1>1, <2>1, <2>2
<1>5. E(fold)
  BY <1>4, Zenon
<1>6. PutAll(cs, groups, failed) = fold[1 .. n]
  <2>1. PutAll(cs, groups, failed) = fold[DOMAIN list]
    BY Zenon DEF PutAll, FoldLeft, MapThenFoldSet, list, n
  <2> QED
    BY <1>1, <2>1, Zenon
<1> HIDE DEF fold
<1>7. fold[{}] = cs
  BY <1>5
<1>8. ASSUME NEW i \in 1 .. n PROVE fold[1 .. i] = Put(fold[1 .. i - 1], i, groups[i], failed)
  <2>1. 1 .. i \in SUBSET (1 .. n) /\ 1 .. i # {} /\ Max(1 .. i) = i /\ (1 .. i) \ {i} = 1 .. i - 1
    <3>1. /\ 1 .. i \in SUBSET (1 .. n) /\ 1 .. i # {}
          /\ L!Max(1 .. i) = i /\ (1 .. i) \ {i} = 1 .. i - 1
      BY <1>1, L!Segments
    <3> QED
      BY <3>1, SameMax
  <2>2. fold[1 .. i] = Put(fold[(1 .. i) \ {Max(1 .. i)}], list[Max(1 .. i)], groups[list[Max(1 .. i)]], failed)
    BY <1>1, <1>5, <2>1, Zenon
  <2> QED
    BY <1>1, <2>1, <2>2, Zenon
<1> DEFINE a == [i \in 0 .. n |-> fold[1 .. i]]
<1>9. a[0] = cs /\ PutAll(cs, groups, failed) = a[n]
  <2>1. 1 .. 0 = {} /\ 0 \in 0 .. n /\ n \in 0 .. n
    BY <1>1
  <2> QED
    BY <1>6, <1>7, <2>1
<1>10. \A i \in 1 .. n : a[i] = Put(a[i - 1], i, groups[i], failed)
  <2> SUFFICES ASSUME NEW i \in 1 .. n PROVE a[i] = Put(a[i - 1], i, groups[i], failed)
    OBVIOUS
  <2>1. i \in 0 .. n /\ i - 1 \in 0 .. n
    BY <1>1
  <2> QED
    BY <1>8, <2>1
<1>11. a \in [0 .. n -> A]
  <2> DEFINE T == {k \in Nat : a[k] \in A}
  <2> HIDE DEF a
  <2>1. 0 \in T
    BY <1>1, <1>9
  <2>2. ASSUME NEW i \in 1 .. n, i - 1 \in T PROVE i \in T
    <3>1. groups[i] \in Seq(Strokes) /\ i \in Nat \ {0} /\ a[i - 1] \in Seq(Box)
      BY <1>1, <2>2
    <3>2. Put(a[i - 1], i, groups[i], failed) \in Seq(Box)
      BY <3>1, PutType
    <3> QED
      BY <1>10, <3>1, <3>2
  <2>3. \A i \in 0 .. n : i \in T
    <3> HIDE DEF T
    <3> QED
      BY <1>1, <2>1, <2>2, ListInduction
  <2>4. \A i \in 0 .. n : a[i] \in A
    BY <2>3
  <2>5. a = [i \in 0 .. n |-> a[i]]
    BY DEF a
  <2> QED
    BY <2>4, <2>5
<1> HIDE DEF a
<1> QED
  BY <1>9, <1>10, <1>11 DEF n

-----------------------------------------------------------------------------
(* What the loop leaves on the GPU *)

Image(cs) == FlattenSeq([i \in 1 .. Len(cs) |-> cs[i].drawn])

Hole(groups, failed, i) == IF i \in failed THEN <<>> ELSE Drawn(groups[i])

\* The first k groups without those the driver had no buffers for.
Shown(groups, failed, k) == FlattenSeq([i \in 1 .. k |-> Hole(groups, failed, i)])

LEMMA FlattenLast ==
  ASSUME NEW S, NEW n \in Nat \ {0}, NEW seqs \in [1 .. n -> Seq(S)]
  PROVE  FlattenSeq(seqs) = FlattenSeq([i \in 1 .. n - 1 |-> seqs[i]]) \o seqs[n]
<1> DEFINE front == [i \in 1 .. n - 1 |-> seqs[i]]
<1>1. PICK c \in [0 .. n -> Seq(S)] :
         /\ c[0] = <<>> /\ \A i \in 1 .. n : c[i] = c[i - 1] \o seqs[i]
         /\ FlattenSeq(seqs) = c[n]
  BY FlattenSteps
<1>2. /\ front \in [1 .. n - 1 -> Seq(S)] /\ n - 1 \in Nat
      /\ \A i \in 1 .. n - 1 : front[i] = seqs[i]
  OBVIOUS
<1> HIDE DEF front
<1>3. ASSUME NEW i \in 1 .. n - 1 PROVE c[i] = c[i - 1] \o front[i]
  <2>1. i \in 1 .. n
    OBVIOUS
  <2> QED
    BY <1>1, <1>2, <2>1
<1>4. PICK m \in Nat : m = n - 1
  BY <1>2
<1>5. FlattenSeq(front) = c[m]
  <2>1. c[0] = <<>> /\ front \in [1 .. m -> Seq(S)] /\ \A i \in 1 .. m : c[i] = c[i - 1] \o front[i]
    BY <1>1, <1>2, <1>3, <1>4
  <2> QED
    BY ONLY <2>1, m \in Nat, FlattenIs, Zenon
<1>6. c[n] = c[n - 1] \o seqs[n]
  <2>1. n \in 1 .. n
    OBVIOUS
  <2> QED
    BY <1>1, <2>1
<1> QED
  BY <1>1, <1>4, <1>5, <1>6 DEF front

LEMMA DrawnParts ==
  ASSUME NEW cs \in Seq(Box)
  PROVE  [i \in 1 .. Len(cs) |-> cs[i].drawn] \in [1 .. Len(cs) -> Seq(Strokes)]
<1>1. \A i \in 1 .. Len(cs) : cs[i] \in Box
  <2> HIDE DEF Box
  <2> QED
    OBVIOUS
<1> QED
  BY <1>1 DEF Box

LEMMA ImageAppend ==
  ASSUME NEW cs \in Seq(Box), NEW c \in Box
  PROVE  Image(Append(cs, c)) = Image(cs) \o c.drawn
<1> DEFINE d == Append(cs, c)
           n == Len(cs) + 1
           seqs == [i \in 1 .. n |-> d[i].drawn]
<1>1. /\ d \in Seq(Box) /\ Len(d) = n /\ Len(cs) \in Nat
      /\ \A i \in 1 .. Len(cs) : d[i] = cs[i]
      /\ d[n] = c
  <2> HIDE DEF Box
  <2> QED
    OBVIOUS
<1>2. Image(d) = FlattenSeq(seqs)
  <2>1. [i \in 1 .. Len(d) |-> d[i].drawn] = seqs
    BY <1>1
  <2> QED
    BY <2>1 DEF Image
<1>3. seqs \in [1 .. n -> Seq(Strokes)]
  <2>1. [i \in 1 .. Len(d) |-> d[i].drawn] \in [1 .. Len(d) -> Seq(Strokes)]
    BY <1>1, DrawnParts
  <2> QED
    BY <1>1, <2>1
<1>4. [i \in 1 .. n - 1 |-> seqs[i]] = [i \in 1 .. Len(cs) |-> cs[i].drawn]
  <2>1. n - 1 = Len(cs)
    BY <1>1
  <2>2. \A i \in 1 .. Len(cs) : seqs[i] = cs[i].drawn
    BY <1>1
  <2> HIDE DEF seqs, n
  <2> QED
    BY <2>1, <2>2
<1>5. seqs[n] = c.drawn /\ n \in Nat \ {0}
  BY <1>1
<1> HIDE DEF seqs, n, d
<1>6. FlattenSeq(seqs) = FlattenSeq([i \in 1 .. n - 1 |-> seqs[i]]) \o seqs[n]
  BY <1>3, <1>5, FlattenLast
<1>7. Image(d) = Image(cs) \o c.drawn
  BY <1>2, <1>4, <1>5, <1>6, Zenon DEF Image
<1> QED
  BY <1>7 DEF d

LEMMA HoleType ==
  ASSUME NEW groups \in Seq(Seq(Strokes)), NEW failed, NEW i \in 1 .. Len(groups)
  PROVE  Hole(groups, failed, i) \in Seq(Strokes)
<1>1. groups[i] \in Seq(Strokes)
  OBVIOUS
<1> QED
  BY <1>1, DrawnType DEF Hole

LEMMA ShownStep ==
  ASSUME NEW groups \in Seq(Seq(Strokes)), NEW failed, NEW k \in 1 .. Len(groups)
  PROVE  /\ Shown(groups, failed, k) = Shown(groups, failed, k - 1) \o Hole(groups, failed, k)
         /\ Shown(groups, failed, k - 1) \in Seq(Strokes)
<1> DEFINE seqs == [i \in 1 .. k |-> Hole(groups, failed, i)]
           front == [i \in 1 .. k - 1 |-> Hole(groups, failed, i)]
<1>1. k \in Nat \ {0} /\ k - 1 \in Nat /\ 1 .. k \subseteq 1 .. Len(groups)
  OBVIOUS
<1>2. seqs \in [1 .. k -> Seq(Strokes)] /\ front \in [1 .. k - 1 -> Seq(Strokes)]
  <2>1. \A i \in 1 .. k : Hole(groups, failed, i) \in Seq(Strokes)
    BY <1>1, HoleType
  <2> QED
    BY <1>1, <2>1
<1>3. [i \in 1 .. k - 1 |-> seqs[i]] = front /\ seqs[k] = Hole(groups, failed, k)
  BY <1>1
<1> HIDE DEF seqs, front
<1>4. FlattenSeq(seqs) = FlattenSeq(front) \o seqs[k]
  BY <1>1, <1>2, <1>3, FlattenLast
<1>5. FlattenSeq(front) \in Seq(Strokes)
  <2>1. PICK m \in Nat : m = k - 1
    BY <1>1
  <2>2. front \in [1 .. m -> Seq(Strokes)]
    BY <1>2, <2>1
  <2> QED
    BY ONLY <2>2, m \in Nat, FlattenElements
<1> QED
  BY <1>3, <1>4, <1>5, Zenon DEF Shown, seqs, front

LEMMA ImageIs ==
  ASSUME NEW cs \in Seq(Box), NEW groups, NEW failed,
         \A i \in 1 .. Len(cs) : cs[i].drawn = Hole(groups, failed, i)
  PROVE  Image(cs) = Shown(groups, failed, Len(cs))
<1>1. [i \in 1 .. Len(cs) |-> cs[i].drawn] = [i \in 1 .. Len(cs) |-> Hole(groups, failed, i)]
  OBVIOUS
<1> QED
  BY <1>1, Zenon DEF Image, Shown

-----------------------------------------------------------------------------
(* The loop, group by group.  As far as the old chunks reach it replaces in   *)
(* place, and only behind them can the driver leave holes.                    *)

Fitting(groups, cs) == \A i \in 1 .. Len(cs) : \E j \in 1 .. Len(groups) : cs[i] = Chunk(groups[j])

Within(old, groups, k, cs) ==
  /\ Len(cs) = Len(old)
  /\ \A i \in 1 .. k : cs[i] = Chunk(groups[i])
  /\ \A i \in k + 1 .. Len(old) : cs[i] = old[i]

Behind(old, groups, failed, k, cs) ==
  /\ Len(cs) <= k
  /\ Image(cs) = Shown(groups, failed, k)
  /\ Fitting(groups, cs)

LEMMA WithinStep ==
  ASSUME camera \in Scales, NEW old \in Seq(Box), NEW groups \in Seq(Seq(Strokes)), NEW failed,
         \A i \in 1 .. Len(old) : old[i] = Chunk(old[i].key),
         NEW k \in 1 .. Len(groups), k <= Len(old), NEW cs \in Seq(Box),
         Within(old, groups, k - 1, cs)
  PROVE  Within(old, groups, k, Put(cs, k, groups[k], failed))
<1> DEFINE c == Chunk(groups[k])
<1>1. /\ Len(cs) = Len(old) /\ k <= Len(cs) /\ k \in Nat /\ Len(cs) \in Nat /\ k \in 1 .. Len(old)
      /\ \A i \in 1 .. k - 1 : cs[i] = Chunk(groups[i])
      /\ \A i \in k .. Len(old) : cs[i] = old[i]
  <2>1. k \in Nat /\ (k - 1) + 1 = k
    OBVIOUS
  <2> QED
    BY <2>1 DEF Within
<1>2. 1 .. k = (1 .. k - 1) \cup {k}
  OBVIOUS
<1>3. CASE cs[k].key = groups[k]
  <2>1. cs[k] = c
    BY <1>1, <1>3
  <2>2. Put(cs, k, groups[k], failed) = cs
    BY <1>1, <1>3 DEF Put
  <2> QED
    BY <1>1, <1>2, <2>1, <2>2 DEF Within
<1>4. CASE cs[k].key # groups[k]
  <2> HIDE DEF c
  <2>1. Put(cs, k, groups[k], failed) = [cs EXCEPT ![k] = c]
    BY <1>1, <1>4 DEF Put, c
  <2> DEFINE d == [cs EXCEPT ![k] = c]
  <2>2. /\ Len(d) = Len(cs) /\ d[k] = c
        /\ \A i \in 1 .. Len(cs) : i # k => d[i] = cs[i]
    <3> HIDE DEF Box
    <3> QED
      BY <1>1
  <2> HIDE DEF d
  <2>3. \A i \in 1 .. k : d[i] = Chunk(groups[i])
    <3> SUFFICES ASSUME NEW i \in 1 .. k PROVE d[i] = Chunk(groups[i])
      OBVIOUS
    <3>1. CASE i = k
      BY <2>2, <3>1 DEF c
    <3>2. CASE i # k
      <4>1. i \in 1 .. k - 1 /\ i \in 1 .. Len(cs)
        BY <1>1, <3>2
      <4> QED
        BY <1>1, <2>2, <3>2, <4>1
    <3> QED
      BY <3>1, <3>2
  <2>4. \A i \in k + 1 .. Len(old) : d[i] = old[i]
    BY <1>1, <2>2
  <2>5. Within(old, groups, k, d)
    BY <1>1, <2>2, <2>3, <2>4 DEF Within
  <2> QED
    BY <2>1, <2>5 DEF d
<1> QED
  BY <1>3, <1>4

LEMMA BehindStarts ==
  ASSUME camera \in Scales, NEW old \in Seq(Box), NEW groups \in Seq(Seq(Strokes)),
         NEW failed, failed \cap (1 .. Len(old)) = {}, NEW cs \in Seq(Box),
         Len(old) <= Len(groups), Within(old, groups, Len(old), cs)
  PROVE  Behind(old, groups, failed, Len(old), cs)
<1>1. /\ Len(cs) = Len(old) /\ Len(old) \in Nat /\ Len(groups) \in Nat
      /\ \A i \in 1 .. Len(cs) : cs[i] = Chunk(groups[i]) /\ i \in 1 .. Len(groups)
  BY DEF Within
<1>2. ASSUME NEW i \in 1 .. Len(cs) PROVE cs[i].drawn = Hole(groups, failed, i)
  <2>1. cs[i] = Chunk(groups[i]) /\ i \in 1 .. Len(groups) /\ i \in 1 .. Len(old)
    BY <1>1
  <2>2. groups[i] \in Seq(Strokes) /\ i \notin failed
    BY <2>1
  <2> QED
    BY <2>1, <2>2, ChunkType DEF Hole
<1>3. Image(cs) = Shown(groups, failed, Len(cs))
  BY <1>2, ImageIs
<1>4. Fitting(groups, cs)
  BY <1>1 DEF Fitting
<1> QED
  BY <1>1, <1>3, <1>4 DEF Behind

LEMMA BehindStep ==
  ASSUME camera \in Scales, NEW old, NEW groups \in Seq(Seq(Strokes)), NEW failed,
         NEW k \in 1 .. Len(groups), NEW cs \in Seq(Box), Behind(old, groups, failed, k - 1, cs)
  PROVE  Behind(old, groups, failed, k, Put(cs, k, groups[k], failed))
<1> DEFINE c == Chunk(groups[k])
<1>1. /\ Len(cs) <= k - 1 /\ Len(cs) \in Nat /\ k \in Nat /\ ~(k <= Len(cs))
      /\ Image(cs) = Shown(groups, failed, k - 1)
      /\ Fitting(groups, cs)
  BY DEF Behind
<1>2. c \in Box /\ c.drawn = Drawn(groups[k])
  <2>1. groups[k] \in Seq(Strokes)
    OBVIOUS
  <2> QED
    BY <2>1, ChunkType
<1>3. /\ Shown(groups, failed, k) = Shown(groups, failed, k - 1) \o Hole(groups, failed, k)
      /\ Shown(groups, failed, k - 1) \in Seq(Strokes)
  BY ShownStep
<1>4. CASE k \in failed
  <2>1. Put(cs, k, groups[k], failed) = cs /\ Hole(groups, failed, k) = <<>>
    BY <1>1, <1>4 DEF Put, Hole
  <2>2. Shown(groups, failed, k) = Shown(groups, failed, k - 1)
    BY <1>3, <2>1, ConcatEmptySeq
  <2> QED
    BY <1>1, <2>1, <2>2 DEF Behind
<1>5. CASE k \notin failed
  <2>1. Put(cs, k, groups[k], failed) = Append(cs, c) /\ Hole(groups, failed, k) = Drawn(groups[k])
    BY <1>1, <1>5 DEF Put, Hole
  <2> HIDE DEF c
  <2>2. Image(Append(cs, c)) = Image(cs) \o c.drawn
    BY <1>2, ImageAppend
  <2>3. Image(Append(cs, c)) = Shown(groups, failed, k)
    BY <1>1, <1>2, <1>3, <2>1, <2>2
  <2>4. /\ Len(Append(cs, c)) = Len(cs) + 1 /\ Append(cs, c)[Len(cs) + 1] = c
        /\ \A i \in 1 .. Len(cs) : Append(cs, c)[i] = cs[i]
    <3> HIDE DEF Box
    <3> QED
      BY <1>2
  <2>5. Fitting(groups, Append(cs, c))
    <3> DEFINE d == Append(cs, c)
    <3> HIDE DEF d
    <3> SUFFICES ASSUME NEW i \in 1 .. Len(d) PROVE \E j \in 1 .. Len(groups) : d[i] = Chunk(groups[j])
      BY DEF Fitting, d
    <3>1. CASE i \in 1 .. Len(cs)
      <4>1. PICK j \in 1 .. Len(groups) : cs[i] = Chunk(groups[j])
        BY <1>1, <3>1 DEF Fitting
      <4> QED
        BY <2>4, <3>1, <4>1 DEF d
    <3>2. CASE i = Len(cs) + 1
      BY <2>4, <3>2 DEF d, c
    <3>3. i \in 1 .. Len(cs) \/ i = Len(cs) + 1
      BY <1>1, <2>4 DEF d
    <3> QED
      BY <3>1, <3>2, <3>3
  <2> QED
    BY <1>1, <2>1, <2>3, <2>4, <2>5 DEF Behind
<1> QED
  BY <1>4, <1>5

\* After the loop and the truncation the buffers show all groups but the holes.
LEMMA SyncedChunks ==
  ASSUME camera \in Scales, NEW old \in Seq(Box), NEW groups \in Seq(Seq(Strokes)),
         \A i \in 1 .. Len(old) : old[i] = Chunk(old[i].key),
         NEW failed, \A i \in failed : i \in 1 .. Len(groups) /\ i > Len(old),
         NEW cs, cs = Truncated(PutAll(old, groups, failed), Len(groups))
  PROVE  /\ cs \in Seq(Box) /\ Fitting(groups, cs)
         /\ Image(cs) = Shown(groups, failed, Len(groups))
<1> DEFINE n == Len(groups)
<1>1. n \in Nat /\ Len(old) \in Nat
  OBVIOUS
<1>2. PICK a \in [0 .. n -> Seq(Box)] :
         /\ a[0] = old
         /\ \A i \in 1 .. n : a[i] = Put(a[i - 1], i, groups[i], failed)
         /\ PutAll(old, groups, failed) = a[n]
  BY PutSteps
<1>3. failed \cap (1 .. Len(old)) = {}
  BY <1>1
<1> DEFINE W(k) == k <= Len(old) => Within(old, groups, k, a[k])
           B(k) == Len(old) <= k => Behind(old, groups, failed, k, a[k])
           T == {k \in 0 .. n : W(k) /\ B(k)}
<1>4. ASSUME NEW k \in 0 .. n, W(k), k = Len(old) PROVE B(k)
  <2>1. a[k] \in Seq(Box) /\ Within(old, groups, Len(old), a[k]) /\ Len(old) <= Len(groups)
    BY <1>1, <1>4
  <2>2. Behind(old, groups, failed, Len(old), a[k])
    BY <1>3, <2>1, BehindStarts
  <2> QED
    BY <1>4, <2>2
<1>5. 0 \in T
  <2>1. 0 \in 0 .. n
    BY <1>1
  <2>2. W(0)
    BY <1>1, <1>2 DEF Within
  <2>3. B(0)
    <3> SUFFICES ASSUME Len(old) <= 0 PROVE B(0)
      OBVIOUS
    <3>1. 0 = Len(old)
      BY <1>1
    <3> HIDE DEF W, B
    <3> QED
      BY <1>4, <2>1, <2>2, <3>1
  <2> QED
    BY <2>1, <2>2, <2>3
<1>6. ASSUME NEW k \in 1 .. n, k - 1 \in T PROVE k \in T
  <2>1. /\ k \in 0 .. n /\ k - 1 \in 0 .. n /\ k \in Nat /\ a[k - 1] \in Seq(Box)
        /\ a[k] = Put(a[k - 1], k, groups[k], failed)
    <3>1. k \in 0 .. n /\ k - 1 \in 0 .. n /\ k \in Nat
      BY <1>1
    <3>2. a[k - 1] \in Seq(Box)
      <4> HIDE DEF n, Box
      <4> QED
        BY <3>1
    <3> QED
      BY <1>2, <3>1, <3>2
  <2>2. W(k - 1) /\ B(k - 1)
    BY <1>6
  <2>3. W(k)
    <3> SUFFICES ASSUME k <= Len(old) PROVE Within(old, groups, k, a[k])
      OBVIOUS
    <3>1. Within(old, groups, k - 1, a[k - 1])
      BY <1>1, <2>1, <2>2
    <3> QED
      BY <2>1, <3>1, WithinStep
  <2>4. B(k)
    <3>1. CASE k = Len(old)
      <4> HIDE DEF W, B
      <4> QED
        BY <1>4, <2>1, <2>3, <3>1
    <3>2. CASE k > Len(old)
      <4>1. Behind(old, groups, failed, k - 1, a[k - 1])
        BY <1>1, <2>1, <2>2, <3>2
      <4> QED
        BY <2>1, <4>1, BehindStep
    <3>3. CASE k < Len(old)
      BY <1>1, <2>1, <3>3
    <3> QED
      BY <1>1, <2>1, <3>1, <3>2, <3>3
  <2> QED
    BY <2>1, <2>3, <2>4
<1>7. \A k \in 0 .. n : k \in T
  <2> HIDE DEF T, n
  <2> QED
    BY <1>1, <1>5, <1>6, ListInduction
<1>8. W(n) /\ B(n) /\ a[n] \in Seq(Box)
  <2>1. n \in 0 .. n
    BY <1>1
  <2> HIDE DEF W, B
  <2> QED
    BY <1>7, <2>1
<1> DEFINE last == a[n]
<1>9. cs = SubSeq(last, 1, IF Len(last) < n THEN Len(last) ELSE n)
  BY <1>2 DEF Truncated
<1>10. last \in Seq(Box) /\ Len(last) \in Nat
  BY <1>8
<1>11. CASE Len(old) <= n
  <2>1. Behind(old, groups, failed, n, last)
    BY <1>8, <1>11
  <2>2. Len(last) <= n
    BY <2>1 DEF Behind
  <2> HIDE DEF last, n, Box
  <2>3. cs = SubSeq(last, 1, Len(last))
    BY <1>1, <1>9, <1>10, <2>2
  <2>4. cs = last
    BY <1>10, <2>3
  <2> QED
    BY <1>10, <2>1, <2>4 DEF Behind, n
<1>12. CASE n < Len(old)
  <2>1. Within(old, groups, n, last)
    BY <1>1, <1>8, <1>12
  <2> HIDE DEF last
  <2>2. Len(last) = Len(old) /\ \A i \in 1 .. n : last[i] = Chunk(groups[i])
    BY <2>1 DEF Within
  <2>3. cs = SubSeq(last, 0 + 1, n)
    BY <1>1, <1>9, <1>12, <2>2
  <2>4. /\ cs \in Seq(Box) /\ Len(cs) = n - 0
        /\ \A i \in 1 .. n - 0 : cs[i] = last[0 + i]
    <3>1. 0 \in Nat /\ n \in Nat /\ 0 <= n /\ n <= Len(last)
      BY <1>1, <1>12, <2>2
    <3> HIDE DEF n, Box
    <3> QED
      BY <1>10, <2>3, <3>1, PartOf
  <2>5. Len(cs) = n /\ \A i \in 1 .. n : cs[i] = Chunk(groups[i])
    <3>1. n - 0 = n /\ \A i \in 1 .. n : 0 + i = i
      BY <1>1
    <3> HIDE DEF n
    <3> QED
      BY <2>2, <2>4, <3>1
  <2>6. failed = {}
    BY <1>1, <1>12
  <2>7. ASSUME NEW i \in 1 .. Len(cs) PROVE cs[i].drawn = Hole(groups, failed, i)
    <3>1. groups[i] \in Seq(Strokes) /\ cs[i] = Chunk(groups[i])
      BY <2>5
    <3> QED
      BY <2>6, <3>1, ChunkType DEF Hole
  <2>8. Image(cs) = Shown(groups, failed, Len(cs))
    BY <2>4, <2>7, ImageIs
  <2>9. Fitting(groups, cs)
    BY <2>5 DEF Fitting
  <2> QED
    BY <2>4, <2>5, <2>8, <2>9
<1> QED
  BY <1>1, <1>11, <1>12

-----------------------------------------------------------------------------
(* The inductive invariant: a chunk is what its key says, at the scale of the *)
(* cache, and every stroke on the screen has a mesh.                          *)

Sound(c) == c.drawn = Drawn(c.key) /\ c.at = scale /\ Range(c.drawn) \subseteq meshes

Complete ==
  Painted = Shown(Groups(visible), missing, Len(Groups(visible)))

RenderInv ==
  /\ visible \in Seq(Strokes)
  /\ generation \in Nat /\ synced \in Int /\ synced <= generation
  /\ camera \in Scales /\ scale \in Scales \cup {NoScale}
  /\ chunks \in Seq(Box)
  /\ \A i \in 1 .. Len(chunks) : Sound(chunks[i])
  /\ (running /\ synced = generation) => Complete

LEMMA RenderInit == Init => RenderInv
<1> SUFFICES ASSUME Init PROVE RenderInv
  OBVIOUS
<1>1. synced = -1 /\ generation = 0 /\ chunks = <<>> /\ visible = <<>>
  BY DEF Init, NoGeneration
<1>2. chunks \in Seq(Box) /\ visible \in Seq(Strokes) /\ Len(chunks) = 0
  BY <1>1
<1>3. camera \in Scales /\ scale = NoScale
  BY DEF Init
<1> QED
  BY <1>1, <1>2, <1>3 DEF RenderInv

LEMMA InsertType ==
  ASSUME NEW S, NEW v \in Seq(S), NEW i \in 1 .. Len(v) + 1, NEW s \in S
  PROVE  InsertAt(v, i, s) \in Seq(S)
<1>1. SubSeq(v, 1, i - 1) \in Seq(S) /\ SubSeq(v, i, Len(v)) \in Seq(S) /\ <<s>> \in Seq(S)
  <2>1. 1 \in Int /\ i - 1 \in Int /\ \A k \in 1 .. i - 1 : v[k] \in S
    BY LenProperties
  <2>2. i \in Int /\ Len(v) \in Int /\ \A k \in i .. Len(v) : v[k] \in S
    BY LenProperties
  <2> QED
    BY <2>1, <2>2, SubSeqProperties
<1>2. SubSeq(v, 1, i - 1) \o <<s>> \in Seq(S)
  BY <1>1, ConcatProperties
<1> QED
  BY <1>1, <1>2, ConcatProperties DEF InsertAt

LEMMA RemoveType ==
  ASSUME NEW S, NEW v \in Seq(S), NEW k \in 1 .. Len(v)
  PROVE  RemoveAt(v, k) \in Seq(S) /\ Len(RemoveAt(v, k)) = Len(v) - 1
<1> DEFINE n == Len(v)
<1>0. n \in Nat /\ k - 1 \in Nat /\ 0 \in Nat /\ k \in Nat /\ 0 + 1 = 1 /\ k - 1 <= n /\ k <= n /\ 0 <= k - 1 /\ n <= n
  OBVIOUS
<1>1. SubSeq(v, 0 + 1, k - 1) \in Seq(S) /\ Len(SubSeq(v, 0 + 1, k - 1)) = (k - 1) - 0
  BY ONLY <1>0, v \in Seq(S), PartOf
<1>2. SubSeq(v, k + 1, n) \in Seq(S) /\ Len(SubSeq(v, k + 1, n)) = n - k
  BY ONLY <1>0, v \in Seq(S), PartOf
<1>3. SubSeq(v, 1, k - 1) \in Seq(S) /\ Len(SubSeq(v, 1, k - 1)) = k - 1
  BY <1>0, <1>1
<1>4. /\ SubSeq(v, 1, k - 1) \o SubSeq(v, k + 1, n) \in Seq(S)
      /\ Len(SubSeq(v, 1, k - 1) \o SubSeq(v, k + 1, n)) = (k - 1) + (n - k)
  <2>1. /\ SubSeq(v, 1, k - 1) \o SubSeq(v, k + 1, n) \in Seq(S)
        /\ Len(SubSeq(v, 1, k - 1) \o SubSeq(v, k + 1, n))
             = Len(SubSeq(v, 1, k - 1)) + Len(SubSeq(v, k + 1, n))
    BY ONLY <1>2, <1>3, ConcatProperties
  <2> QED
    BY <1>2, <1>3, <2>1
<1>5. (k - 1) + (n - k) = n - 1
  BY <1>0
<1> QED
  BY <1>4, <1>5 DEF RemoveAt

\* A change of the document makes the chunks out of date.
LEMMA ChangedStays ==
  ASSUME RenderInv, NEW n \in Nat \ {0}, Advance(n), visible' \in Seq(Strokes)
  PROVE  RenderInv'
<1>1. /\ generation' = generation + n /\ camera' = camera /\ scale' = scale /\ meshes' = meshes
      /\ synced' = synced /\ chunks' = chunks
  BY DEF Advance, cache, gpu
<1>2. generation' \in Nat /\ synced' <= generation' /\ synced' # generation'
  BY <1>1 DEF RenderInv
<1>3. \A i \in 1 .. Len(chunks') : Sound(chunks[i])'
  BY <1>1 DEF RenderInv, Sound
<1> QED
  BY <1>1, <1>2, <1>3 DEF RenderInv

LEMMA GroupElements ==
  ASSUME NEW v \in Seq(Strokes), NEW j \in 1 .. Len(Groups(v))
  PROVE  Groups(v)[j] \in Seq(Strokes) /\ Range(Groups(v)[j]) \subseteq ToSet(v)
<1> DEFINE x == Reach(v, j - 1)
           y == Reach(v, j)
<1>1. /\ x \in Nat /\ y \in Nat /\ x <= y /\ y <= Len(v) /\ Len(v) \in Nat
      /\ Groups(v)[j] = SubSeq(v, x + 1, y)
  BY GroupsPart
<1> HIDE DEF x, y
<1>2. /\ SubSeq(v, x + 1, y) \in Seq(Strokes) /\ Len(SubSeq(v, x + 1, y)) = y - x
      /\ \A i \in 1 .. y - x : SubSeq(v, x + 1, y)[i] = v[x + i]
  BY <1>1, PartOf
<1>3. \A i \in 1 .. y - x : x + i \in DOMAIN v
  BY <1>1
<1> QED
  BY <1>1, <1>2, <1>3 DEF Range, ToSet

LEMMA SyncStays == ASSUME RenderInv, Sync PROVE RenderInv'
<1> DEFINE old == IF Invalidated THEN <<>> ELSE chunks
           groups == Groups(visible)
<1>1. PICK failed \in SUBSET {i \in DOMAIN groups : i > Len(old)} :
         /\ missing' = failed
         /\ chunks' = Truncated(PutAll(old, groups, failed), Len(groups))
         /\ meshes' = Touched
  BY DEF Sync, Kept
<1>2. /\ scale' = camera /\ synced' = generation /\ camera' = camera
      /\ visible' = visible /\ generation' = generation
  BY DEF Sync, document
<1>3. groups \in Seq(Seq(Strokes)) /\ visible \in Seq(Strokes) /\ camera \in Scales
  BY GroupsPart DEF RenderInv
<1>4. old \in Seq(Box) /\ \A i \in 1 .. Len(old) : old[i] = Chunk(old[i].key)
  <2>1. CASE Invalidated
    BY <2>1
  <2>2. CASE ~Invalidated
    <3>1. ASSUME NEW i \in 1 .. Len(chunks) PROVE chunks[i] = Chunk(chunks[i].key)
      <4>1. chunks[i] \in Box /\ Sound(chunks[i]) /\ scale = camera
        BY <2>2 DEF RenderInv, Invalidated
      <4>2. chunks[i] = [key |-> chunks[i].key, drawn |-> chunks[i].drawn, at |-> chunks[i].at]
        BY <4>1 DEF Box
      <4> QED
        BY <4>1, <4>2 DEF Sound, Chunk
    <3> QED
      BY <2>2, <3>1 DEF RenderInv
  <2> QED
    BY <2>1, <2>2
<1> HIDE DEF old, groups
<1>5. /\ chunks' \in Seq(Box) /\ Fitting(groups, chunks')
      /\ Image(chunks') = Shown(groups, failed, Len(groups))
  <2>1. \A i \in failed : i \in 1 .. Len(groups) /\ i > Len(old)
    BY <1>1, <1>3
  <2> QED
    BY <1>1, <1>3, <1>4, <2>1, SyncedChunks
<1>6. Complete'
  <2>1. Painted' = Image(chunks')
    BY DEF Painted, Image
  <2> QED
    BY <1>1, <1>2, <1>5, <2>1 DEF Complete, groups
<1>7. ASSUME NEW i \in 1 .. Len(chunks') PROVE Sound(chunks[i])'
  <2>1. PICK j \in 1 .. Len(groups) : chunks'[i] = Chunk(groups[j])
    BY <1>5 DEF Fitting
  <2>2. groups[j] \in Seq(Strokes) /\ Range(groups[j]) \subseteq ToSet(visible)
    BY <1>3, GroupElements DEF groups
  <2>3. /\ chunks'[i].key = groups[j] /\ chunks'[i].drawn = Drawn(groups[j])
        /\ chunks'[i].at = camera
    BY <1>3, <2>1, <2>2, ChunkType
  <2>4. Range(Drawn(groups[j])) \subseteq Touched
    BY <2>2, DrawnType DEF Touched
  <2> QED
    BY <1>1, <1>2, <2>3, <2>4 DEF Sound
<1> QED
  BY <1>2, <1>3, <1>5, <1>6, <1>7 DEF RenderInv

LEMMA RenderNext == RenderInv /\ [Next]_vars => RenderInv'
<1> SUFFICES ASSUME RenderInv, [Next]_vars PROVE RenderInv'
  OBVIOUS
<1>0. visible \in Seq(Strokes) /\ DOMAIN visible = 1 .. Len(visible) /\ Len(visible) \in Nat
  BY DEF RenderInv
<1>1. CASE Reveal
  <2>1. PICK s \in Strokes, i \in 1 .. Len(visible) + 1 :
           Advance(1) /\ visible' = InsertAt(visible, i, s)
    BY <1>1 DEF Reveal
  <2>2. visible' \in Seq(Strokes)
    BY <1>0, <2>1, InsertType
  <2> QED
    BY <2>1, <2>2, ChangedStays
<1>2. CASE Hide
  <2>1. PICK k \in 1 .. Len(visible) : Advance(1) /\ visible' = RemoveAt(visible, k)
    BY <1>0, <1>2 DEF Hide
  <2>2. visible' \in Seq(Strokes)
    BY <1>0, <2>1, RemoveType
  <2> QED
    BY <2>1, <2>2, ChangedStays
<1>3. ASSUME NEW k \in 1 .. Len(visible), NEW i \in 1 .. Len(visible), NEW s \in Strokes
      PROVE  InsertAt(RemoveAt(visible, k), i, s) \in Seq(Strokes)
  <2>1. RemoveAt(visible, k) \in Seq(Strokes) /\ Len(RemoveAt(visible, k)) = Len(visible) - 1
    BY <1>0, RemoveType
  <2>2. i \in 1 .. Len(RemoveAt(visible, k)) + 1
    BY <1>0, <2>1
  <2> QED
    BY <2>1, <2>2, InsertType
<1>4. CASE Restamp
  <2>1. PICK k \in 1 .. Len(visible), i \in 1 .. Len(visible) :
           Advance(1) /\ visible' = InsertAt(RemoveAt(visible, k), i, visible[k])
    BY <1>0, <1>4 DEF Restamp
  <2>2. visible[k] \in Strokes
    BY <1>0
  <2> QED
    BY <1>3, <2>1, <2>2, ChangedStays
<1>5. CASE Merge
  <2>1. PICK k \in 1 .. Len(visible), i \in 1 .. Len(visible), new \in Strokes :
           Advance(2) /\ visible' = InsertAt(RemoveAt(visible, k), i, new)
    BY <1>0, <1>5 DEF Merge
  <2> QED
    BY <1>3, <2>1, ChangedStays
<1>6. CASE MergeInvisible
  BY <1>0, <1>6, ChangedStays DEF MergeInvisible
<1>7. CASE Zoom
  <2>1. /\ camera' \in Scales
        /\ UNCHANGED <<visible, generation, scale, meshes, synced, chunks, missing, running>>
    BY <1>7 DEF Zoom, document, cache, gpu, history
  <2>2. \A i \in 1 .. Len(chunks') : Sound(chunks[i])'
    BY <2>1 DEF RenderInv, Sound
  <2>3. Complete => Complete'
    BY <2>1 DEF Complete, Painted
  <2> QED
    BY <2>1, <2>2, <2>3 DEF RenderInv
<1>8. CASE Sync
  BY <1>8, SyncStays
<1>9. CASE Destroy
  <2>1. /\ running' = FALSE /\ chunks' = <<>>
        /\ UNCHANGED <<visible, generation, camera, scale, meshes, synced>>
    BY <1>9 DEF Destroy, document, cache
  <2>2. chunks' \in Seq(Box) /\ Len(chunks') = 0
    BY <2>1
  <2> QED
    BY <2>1, <2>2 DEF RenderInv
<1>10. CASE UNCHANGED vars
  <2>1. UNCHANGED <<visible, generation, camera, scale, meshes, synced, chunks, missing, running>>
    BY <1>10 DEF vars, document, cache, gpu, history
  <2>2. \A i \in 1 .. Len(chunks') : Sound(chunks[i])'
    BY <2>1 DEF RenderInv, Sound
  <2>3. Complete => Complete'
    BY <2>1 DEF Complete, Painted
  <2> QED
    BY <2>1, <2>2, <2>3 DEF RenderInv
<1> QED
  BY <1>1, <1>2, <1>4, <1>5, <1>6, <1>7, <1>8, <1>9, <1>10 DEF Next

LEMMA RenderAlways == Spec => []RenderInv
BY RenderInit, RenderNext, PTL DEF Spec

-----------------------------------------------------------------------------
(* The theorems *)

\* Whenever a frame finds nothing to do, the buffers hold the document, stroke
\* for stroke in draw order and at the scale of the camera; only groups that
\* the driver had no buffers for in the last sync are not there.
THEOREM AlwaysShowsTheDocument == Spec => []ShowsTheDocument
<1>1. ASSUME RenderInv PROVE ShowsTheDocument
  <2> SUFFICES ASSUME InSync, NEW groups, groups = Groups(visible)
               PROVE  /\ Painted = FlattenSeq([i \in 1 .. Len(groups) |->
                                     IF i \in missing THEN <<>> ELSE Drawn(groups[i])])
                      /\ missing = {} => Painted = Drawn(visible)
                      /\ \A i \in DOMAIN chunks : chunks[i].at = scale
    BY DEF ShowsTheDocument
  <2>1. Painted = Shown(groups, missing, Len(groups)) /\ visible \in Seq(Strokes)
    BY <1>1 DEF RenderInv, InSync, Complete
  <2>2. Shown(groups, missing, Len(groups)) =
          FlattenSeq([i \in 1 .. Len(groups) |-> IF i \in missing THEN <<>> ELSE Drawn(groups[i])])
    BY Zenon DEF Shown, Hole
  <2>3. ASSUME missing = {} PROVE Painted = Drawn(visible)
    <3>1. [i \in 1 .. Len(groups) |-> Hole(groups, missing, i)] = [i \in 1 .. Len(groups) |-> Drawn(groups[i])]
      BY <2>3 DEF Hole
    <3>2. FlattenSeq([i \in 1 .. Len(groups) |-> Drawn(groups[i])]) = Drawn(visible)
      BY <2>1, GroupsDrawn
    <3> QED
      BY <2>1, <3>1, <3>2, Zenon DEF Shown
  <2>4. \A i \in DOMAIN chunks : chunks[i].at = scale
    BY <1>1 DEF RenderInv, Sound
  <2> QED
    BY <2>1, <2>2, <2>3, <2>4
<1> QED
  BY <1>1, RenderAlways, PTL

\* A stroke on the screen has a mesh at the scale of the cache, so as long as
\* the scale stays the same no sync tessellates it again; and a sync keeps
\* meshes of visible strokes only.
THEOREM NothingTessellatedTwice == Spec => TessellatesOnce
<1>1. ASSUME RenderInv, [Next]_vars, synced' # synced, scale' = scale
      PROVE  built' \cap ToSet(Painted) = {} /\ meshes' \subseteq ToSet(visible)
  <2>1. Sync
    BY <1>1 DEF Next, Reveal, Hide, Restamp, Merge, MergeInvisible, Advance, Zoom, Destroy,
                vars, gpu
  <2>2. ~Invalidated
    BY <1>1, <2>1 DEF Sync, Invalidated
  <2>3. built' = Touched \ meshes /\ meshes' = Touched
    BY <2>1, <2>2 DEF Sync, Kept
  <2>4. ToSet(Painted) \subseteq meshes
    <3> DEFINE parts == [i \in 1 .. Len(chunks) |-> chunks[i].drawn]
    <3>1. chunks \in Seq(Box) /\ Len(chunks) \in Nat
          /\ \A i \in 1 .. Len(chunks) : Range(chunks[i].drawn) \subseteq meshes
      BY <1>1 DEF RenderInv, Sound
    <3>2. parts \in [1 .. Len(chunks) -> Seq(Strokes)]
      BY <3>1, DrawnParts
    <3>3. \A i \in 1 .. Len(chunks) : Range(parts[i]) \subseteq meshes
      BY <3>1
    <3> HIDE DEF parts
    <3>4. Range(FlattenSeq(parts)) \subseteq meshes
      BY <3>1, <3>2, <3>3, FlattenElements
    <3> QED
      BY <3>4, Zenon DEF Painted, parts, Range, ToSet
  <2> QED
    BY <2>3, <2>4 DEF Touched
<1> QED
  BY <1>1, RenderAlways, PTL DEF Spec, TessellatesOnce
=============================================================================
