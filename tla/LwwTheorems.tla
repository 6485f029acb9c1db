----------------------------- MODULE LwwTheorems -----------------------------
(* Laws of the register algebra: what crdt.rs promises of apply and merge,  *)
(* and lemmas about lists for the modules that apply lists of ops.         *)
EXTENDS Lww, FiniteSetTheorems, SequenceTheorems, SequencesExt, TLAPS

Mark == Stamp \cup {NoStamp}

LEMMA MarkShape ==
  ASSUME NEW a \in Mark
  PROVE  /\ a.counter \in Nat /\ a.client \in Nat
         /\ a = [counter |-> a.counter, client |-> a.client]
<1>1. CASE a \in Stamp
  <2>1. a.counter \in Nat /\ a.client \in Clients
    BY <1>1 DEF Stamp
  <2>2. a = [counter |-> a.counter, client |-> a.client]
    BY <1>1 DEF Stamp
  <2> QED
    BY <2>1, <2>2, ClientsAssumption
<1>2. CASE a = NoStamp
  BY <1>2 DEF NoStamp
<1> QED
  BY <1>1, <1>2 DEF Mark

\* "every timestamp in the system unique": no two stamps compare as equal.
LEMMA BeforeIsTotal ==
  ASSUME NEW a \in Mark, NEW b \in Mark
  PROVE  Before(a, b) \/ Before(b, a) \/ a = b
BY MarkShape DEF Before

LEMMA BeforeIsTransitive ==
  ASSUME NEW a \in Mark, NEW b \in Mark, NEW d \in Mark, Before(a, b), Before(b, d)
  PROVE  Before(a, d)
BY MarkShape DEF Before

LEMMA BeforeIsAsymmetric ==
  ASSUME NEW a \in Mark, NEW b \in Mark, Before(a, b)
  PROVE  ~Before(b, a)
BY MarkShape DEF Before

LEMMA AtMostIsTransitive ==
  ASSUME NEW a \in Mark, NEW b \in Mark, NEW d \in Mark, AtMost(a, b), AtMost(b, d)
  PROVE  AtMost(a, d)
BY MarkShape DEF Before, AtMost

LEMMA AtMostIsReflexive ==
  ASSUME NEW a \in Mark PROVE AtMost(a, a)
BY MarkShape DEF Before, AtMost

\* None is older than everything.
LEMMA NoStampIsLeast ==
  ASSUME NEW a \in Mark PROVE AtMost(NoStamp, a) /\ NoStamp \in Mark
BY MarkShape DEF Mark, NoStamp, Before, AtMost

\* Later picks the newer of two stamps.
LEMMA LaterIsJoin ==
  ASSUME NEW a \in Mark, NEW b \in Mark
  PROVE  /\ Later(a, b) \in {a, b}
         /\ AtMost(a, Later(a, b)) /\ AtMost(b, Later(a, b))
BY MarkShape DEF Before, AtMost, Later

LEMMA LaterIsCommutative ==
  ASSUME NEW a \in Mark, NEW b \in Mark PROVE Later(a, b) = Later(b, a)
BY BeforeIsTotal, BeforeIsAsymmetric DEF Later

LEMMA LaterIsAssociative ==
  ASSUME NEW a \in Mark, NEW b \in Mark, NEW d \in Mark
  PROVE  Later(Later(a, b), d) = Later(a, Later(b, d))
BY BeforeIsTotal, BeforeIsAsymmetric, BeforeIsTransitive DEF Later

-----------------------------------------------------------------------------
(* Boards. *)

LEMMA BoardType ==
  ASSUME NEW b \in Board, NEW x \in Slots PROVE b[x] \in Mark
BY DEF Board, Mark

LEMMA SlotType ==
  ASSUME NEW op \in Op PROVE SlotOf(op) \in Slots /\ op.ts \in Mark /\ op.ts \in Stamp
BY DEF Op, SlotOf, Slots, Mark

LEMMA EmptyType == Empty \in Board
BY DEF Empty, Board

LEMMA ApplyType ==
  ASSUME NEW b \in Board, NEW op \in Op
  PROVE  ApplyTo(b, op) \in Board
<1>1. SlotOf(op) \in Slots /\ op.ts \in Mark
  BY SlotType
<1>2. Later(b[SlotOf(op)], op.ts) \in Mark
  BY <1>1, BoardType, LaterIsJoin
<1> QED
  BY <1>1, <1>2 DEF ApplyTo, Board, Mark

\* The value of every register after an apply.
LEMMA ApplySlots ==
  ASSUME NEW b \in Board, NEW op \in Op, NEW x \in Slots
  PROVE  ApplyTo(b, op)[x] = IF x = SlotOf(op) THEN Later(b[x], op.ts) ELSE b[x]
BY DEF ApplyTo, Board

LEMMA MergeType ==
  ASSUME NEW a \in Board, NEW b \in Board
  PROVE  MergeInto(a, b) \in Board
<1>1. \A x \in Slots : Later(a[x], b[x]) \in Mark
  BY BoardType, LaterIsJoin
<1> QED
  BY <1>1 DEF MergeInto, Board, Mark

\* "Commutative, associative and idempotent" (StrokeSet::merge).
THEOREM MergeIsCommutative ==
  ASSUME NEW a \in Board, NEW b \in Board
  PROVE  MergeInto(a, b) = MergeInto(b, a)
BY BoardType, LaterIsCommutative DEF MergeInto

THEOREM MergeIsAssociative ==
  ASSUME NEW a \in Board, NEW b \in Board, NEW d \in Board
  PROVE  MergeInto(MergeInto(a, b), d) = MergeInto(a, MergeInto(b, d))
BY BoardType, LaterIsAssociative DEF MergeInto

THEOREM MergeIsIdempotent ==
  ASSUME NEW a \in Board, NEW b \in Board
  PROVE  MergeInto(MergeInto(a, b), b) = MergeInto(a, b)
<1>1. \A x \in Slots : Later(Later(a[x], b[x]), b[x]) = Later(a[x], b[x])
  BY BoardType, BeforeIsAsymmetric DEF Later
<1> QED
  BY <1>1 DEF MergeInto

\* Ops may arrive in any order and more than once: apply commutes and a
\* repeated op changes nothing.
THEOREM ApplyCommutes ==
  ASSUME NEW b \in Board, NEW o \in Op, NEW p \in Op
  PROVE  ApplyTo(ApplyTo(b, o), p) = ApplyTo(ApplyTo(b, p), o)
<1> DEFINE l == ApplyTo(ApplyTo(b, o), p)
           r == ApplyTo(ApplyTo(b, p), o)
<1>1. l \in Board /\ r \in Board
  BY ApplyType
<1>2. ASSUME NEW x \in Slots PROVE l[x] = r[x]
  <2>1. b[x] \in Mark /\ o.ts \in Mark /\ p.ts \in Mark
    BY BoardType, SlotType
  <2>2. Later(Later(b[x], o.ts), p.ts) = Later(Later(b[x], p.ts), o.ts)
    BY <2>1, LaterIsAssociative, LaterIsCommutative
  <2> QED
    BY <2>2, ApplySlots, ApplyType
<1> HIDE DEF l, r
<1>3. l = r
  BY <1>1, <1>2 DEF Board
<1> QED
  BY <1>3 DEF l, r

THEOREM ApplyIsIdempotent ==
  ASSUME NEW b \in Board, NEW o \in Op
  PROVE  ApplyTo(ApplyTo(b, o), o) = ApplyTo(b, o)
<1>1. Later(Later(b[SlotOf(o)], o.ts), o.ts) = Later(b[SlotOf(o)], o.ts)
  BY BoardType, SlotType, BeforeIsAsymmetric DEF Later
<1> QED
  BY <1>1, SlotType DEF ApplyTo, Board

-----------------------------------------------------------------------------
(* Below is a partial order that apply and merge climb. *)

LEMMA BelowIsReflexive == ASSUME NEW a \in Board PROVE Below(a, a)
BY BoardType, AtMostIsReflexive DEF Below

LEMMA BelowIsTransitive ==
  ASSUME NEW a \in Board, NEW b \in Board, NEW d \in Board, Below(a, b), Below(b, d)
  PROVE  Below(a, d)
BY BoardType, AtMostIsTransitive DEF Below

\* Applying an op loses nothing and records the op.
LEMMA ApplyGrows ==
  ASSUME NEW b \in Board, NEW op \in Op
  PROVE  Below(b, ApplyTo(b, op)) /\ AtMost(op.ts, ApplyTo(b, op)[SlotOf(op)])
<1>1. ASSUME NEW x \in Slots PROVE AtMost(b[x], ApplyTo(b, op)[x])
  BY ApplySlots, BoardType, SlotType, LaterIsJoin, AtMostIsReflexive
<1>2. AtMost(op.ts, ApplyTo(b, op)[SlotOf(op)])
  BY ApplySlots, BoardType, SlotType, LaterIsJoin
<1> QED
  BY <1>1, <1>2 DEF Below

\* Merging loses nothing on either side.
LEMMA MergeGrows ==
  ASSUME NEW a \in Board, NEW b \in Board
  PROVE  Below(a, MergeInto(a, b)) /\ Below(b, MergeInto(a, b))
BY BoardType, LaterIsJoin DEF Below, MergeInto

-----------------------------------------------------------------------------
(* A board made of genuine parts is genuine. *)

LEMMA EmptyGenuine == Genuine(Empty, {})
BY DEF Genuine, Empty

LEMMA GenuineStays ==
  ASSUME NEW b, NEW S, NEW T, S \subseteq T, Genuine(b, S) PROVE Genuine(b, T)
BY DEF Genuine

LEMMA ApplyGenuine ==
  ASSUME NEW b \in Board, NEW S, NEW op \in Op, op \in S, Genuine(b, S)
  PROVE  Genuine(ApplyTo(b, op), S)
BY ApplySlots DEF Genuine, Later

LEMMA MergeGenuine ==
  ASSUME NEW a \in Board, NEW b \in Board, NEW S, Genuine(a, S), Genuine(b, S)
  PROVE  Genuine(MergeInto(a, b), S)
BY DEF Genuine, MergeInto, Later

-----------------------------------------------------------------------------
(* Lists.  The library's induction theorems have an operator as parameter;   *)
(* here induction is over a set of numbers, and the folds of SequencesExt    *)
(* become the series of values they go through.                              *)

\* Every set of numbers has a least one.
LEMMA LeastNumber ==
  ASSUME NEW T \in SUBSET Nat, T # {} PROVE \E n \in T : \A m \in T : n <= m
<1> DEFINE U == {0 .. n : n \in T}
<1>1. IsWellFoundedOn(StrictSubsetOrdering(Nat), FiniteSubsetsOf(Nat))
  BY FS_StrictSubsetOrderingWellFounded
<1>2. U \subseteq FiniteSubsetsOf(Nat) /\ U # {}
  <2>1. \A n \in T : 0 .. n \subseteq Nat /\ IsFiniteSet(0 .. n)
    BY FS_Interval
  <2> QED
    BY <2>1 DEF FiniteSubsetsOf
<1>3. PICK x \in U : \A y \in U : <<y, x>> \notin StrictSubsetOrdering(Nat)
  <2> HIDE DEF U
  <2> QED
    BY <1>1, <1>2, WFMin
<1>4. PICK n \in T : x = 0 .. n
  OBVIOUS
<1>5. ASSUME NEW m \in T, m < n PROVE FALSE
  <2>1. 0 .. m \in U /\ n \in Nat /\ m \in Nat
    OBVIOUS
  <2>2. 0 .. m \subseteq 0 .. n /\ n \in 0 .. n /\ n \notin 0 .. m /\ 0 .. n \subseteq Nat
    BY <1>5, <2>1
  <2>3. <<0 .. m, 0 .. n>> \in StrictSubsetOrdering(Nat)
    BY <2>2 DEF StrictSubsetOrdering
  <2> QED
    BY <1>3, <1>4, <2>1, <2>3
<1> QED
  BY <1>5

\* Induction, with the set of the numbers that have the property.
LEMMA NumberInduction ==
  ASSUME NEW S, 0 \in S, \A n \in Nat : n \in S => n + 1 \in S
  PROVE  Nat \subseteq S
<1> SUFFICES ASSUME Nat \ S # {} PROVE FALSE
  OBVIOUS
<1>1. PICK n \in Nat \ S : \A m \in Nat \ S : n <= m
  BY LeastNumber
<1>2. n # 0 /\ n - 1 \in Nat /\ n - 1 \in S
  BY <1>1
<1> QED
  BY <1>2

\* The largest element of a set of numbers below a bound.
LEMMA MaxOfSet ==
  ASSUME NEW n \in Nat, NEW s \in SUBSET (1 .. n), s # {}
  PROVE  Max(s) \in s /\ \A x \in s : x <= Max(s)
<1> DEFINE far == {n - x : x \in s}
<1>1. far \in SUBSET Nat /\ far # {}
  <2>1. \A x \in s : n - x \in Nat
    OBVIOUS
  <2> QED
    BY <2>1
<1>2. PICK d \in far : \A e \in far : d <= e
  <2> HIDE DEF far
  <2> QED
    BY <1>1, LeastNumber
<1>3. PICK x \in s : d = n - x
  OBVIOUS
<1>4. \A y \in s : n - y \in far /\ y \in Nat
  OBVIOUS
<1>5. \A y \in s : x >= y
  <2> SUFFICES ASSUME NEW y \in s PROVE x >= y
    OBVIOUS
  <2>1. n - x <= n - y /\ y \in Nat /\ x \in Nat
    BY <1>2, <1>3, <1>4
  <2> QED
    BY ONLY <2>1, n \in Nat
<1> QED
  BY <1>5, Zenon DEF Max

\* What taking the largest position away leaves.
LEMMA LargestOf ==
  ASSUME NEW m \in Nat, NEW s \in SUBSET (1 .. m + 1)
  PROVE  /\ m + 1 \in s => (s \ {m + 1} \in SUBSET (1 .. m) /\ Max(s) = m + 1)
         /\ m + 1 \notin s => s \in SUBSET (1 .. m)
         /\ (m + 1 \notin s /\ s # {}) => (s \ {Max(s)} \in SUBSET (1 .. m) /\ Max(s) \in 1 .. m)
<1>0. m + 1 \in Nat
  OBVIOUS
<1>1. s # {} => Max(s) \in s /\ \A x \in s : x <= Max(s)
  BY ONLY <1>0, MaxOfSet, s \in SUBSET (1 .. m + 1), Zenon
<1>2. \A x \in s : x \in Nat /\ 1 <= x /\ x <= m + 1
  OBVIOUS
<1>3. ASSUME m + 1 \in s PROVE Max(s) = m + 1
  <2>1. Max(s) \in Nat /\ Max(s) <= m + 1 /\ m + 1 <= Max(s)
    BY <1>1, <1>2, <1>3
  <2> QED
    BY ONLY <2>1, m \in Nat
<1>4. s \ {m + 1} \in SUBSET (1 .. m)
  <2> SUFFICES ASSUME NEW x \in s, x # m + 1 PROVE x \in 1 .. m
    OBVIOUS
  <2> QED
    BY <1>2
<1>5. ASSUME m + 1 \notin s PROVE s \in SUBSET (1 .. m)
  BY <1>4, <1>5
<1>6. ASSUME m + 1 \notin s, s # {} PROVE s \ {Max(s)} \in SUBSET (1 .. m) /\ Max(s) \in 1 .. m
  BY <1>1, <1>5, <1>6
<1> QED
  BY <1>3, <1>4, <1>5, <1>6

\* What MapThenFoldSet computes for a fold from the left, for every set of
\* positions: h takes the value so far and the next position.
Iterated(g, m, b, h) ==
  g = [s \in SUBSET (1 .. m) |-> IF s = {} THEN b ELSE h[<<g[s \ {Max(s)}], Max(s)>>]]

\* There is such a function: the CHOOSE behind a fold has something to choose.
LEMMA FoldExists ==
  ASSUME NEW n \in Nat, NEW A, NEW b \in A, NEW h \in [A \X (1 .. n) -> A]
  PROVE  \E g \in [SUBSET (1 .. n) -> A] : Iterated(g, n, b, h)
<1> DEFINE P(m) == m <= n => \E g \in [SUBSET (1 .. m) -> A] : Iterated(g, m, b, h)
           S == {m \in Nat : P(m)}
<1>1. P(0)
  <2> DEFINE g == [s \in SUBSET (1 .. 0) |-> b]
  <2>1. 1 .. 0 = {}
    OBVIOUS
  <2>2. g \in [SUBSET (1 .. 0) -> A]
    OBVIOUS
  <2>3. Iterated(g, 0, b, h)
    BY <2>1 DEF Iterated
  <2> QED
    BY <2>2, <2>3
<1>2. ASSUME NEW m \in Nat, P(m) PROVE P(m + 1)
  <2> SUFFICES ASSUME m + 1 <= n
               PROVE  \E g \in [SUBSET (1 .. m + 1) -> A] : Iterated(g, m + 1, b, h)
    OBVIOUS
  <2>0. m + 1 \in 1 .. n
    OBVIOUS
  <2>1. PICK g \in [SUBSET (1 .. m) -> A] : Iterated(g, m, b, h)
    <3>1. m <= n
      BY <2>0
    <3> QED
      BY <1>2, <3>1
  <2> DEFINE k == [s \in SUBSET (1 .. m + 1) |->
                     IF m + 1 \in s THEN h[<<g[s \ {m + 1}], m + 1>>] ELSE g[s]]
  <2>2. ASSUME NEW s \in SUBSET (1 .. m + 1)
        PROVE  /\ m + 1 \in s => (s \ {m + 1} \in SUBSET (1 .. m) /\ Max(s) = m + 1)
               /\ m + 1 \notin s => s \in SUBSET (1 .. m)
               /\ (m + 1 \notin s /\ s # {}) => (s \ {Max(s)} \in SUBSET (1 .. m) /\ Max(s) \in 1 .. m)
    BY LargestOf
  <2>3. k \in [SUBSET (1 .. m + 1) -> A]
    <3>1. ASSUME NEW s \in SUBSET (1 .. m + 1) PROVE k[s] \in A
      <4>1. CASE m + 1 \in s
        <5>1. g[s \ {m + 1}] \in A
          BY <2>2, <4>1
        <5>2. <<g[s \ {m + 1}], m + 1>> \in A \X (1 .. n)
          BY <2>0, <5>1
        <5>3. h[<<g[s \ {m + 1}], m + 1>>] \in A
          BY <5>2
        <5> QED
          BY <4>1, <5>3
      <4>2. CASE m + 1 \notin s
        BY <2>2, <4>2
      <4> QED
        BY <4>1, <4>2
    <3> QED
      BY <3>1
  <2>4. ASSUME NEW s \in SUBSET (1 .. m + 1)
        PROVE  k[s] = IF s = {} THEN b ELSE h[<<k[s \ {Max(s)}], Max(s)>>]
    <3>1. CASE m + 1 \in s
      <4>1. Max(s) = m + 1 /\ s \ {m + 1} \in SUBSET (1 .. m + 1) /\ s # {}
        BY <2>2, <3>1
      <4>2. k[s \ {m + 1}] = g[s \ {m + 1}]
        BY <4>1
      <4> QED
        BY <3>1, <4>1, <4>2
    <3>2. CASE m + 1 \notin s
      <4>1. s \in SUBSET (1 .. m) /\ k[s] = g[s]
        BY <2>2, <3>2
      <4>2. g[s] = IF s = {} THEN b ELSE h[<<g[s \ {Max(s)}], Max(s)>>]
        BY <2>1, <4>1 DEF Iterated
      <4>3. s # {} => k[s \ {Max(s)}] = g[s \ {Max(s)}]
        BY <2>2, <3>2
      <4> QED
        BY <4>1, <4>2, <4>3
    <3> QED
      BY <3>1, <3>2
  <2>5. Iterated(k, m + 1, b, h)
    <3>1. k = [s \in SUBSET (1 .. m + 1) |-> k[s]]
      OBVIOUS
    <3> HIDE DEF k
    <3> QED
      BY <2>4, <3>1, Zenon DEF Iterated
  <2> QED
    BY <2>3, <2>5
<1>3. 0 \in S /\ \A m \in Nat : m \in S => m + 1 \in S
  <2> HIDE DEF P
  <2> QED
    BY <1>1, <1>2
<1>4. n \in S
  <2> HIDE DEF S
  <2> QED
    BY <1>3, NumberInduction
<1>5. P(n)
  BY <1>4
<1>6. n <= n
  OBVIOUS
<1> QED
  BY ONLY <1>5, <1>6

\* The initial segments a fold over a list of n elements goes through.
LEMMA Segments ==
  ASSUME NEW n \in Nat, NEW i \in 1 .. n
  PROVE  /\ 1 .. i \in SUBSET (1 .. n) /\ 1 .. i # {}
         /\ Max(1 .. i) = i /\ (1 .. i) \ {i} = 1 .. i - 1
<1>1. 1 .. i \in SUBSET (1 .. i) /\ i \in Nat /\ i \in 1 .. i /\ i - 1 \in Nat /\ i = (i - 1) + 1
  OBVIOUS
<1>2. Max(1 .. i) = i
  BY ONLY <1>1, LargestOf
<1> QED
  BY <1>1, <1>2

\* The values a fold goes through, one for every element of the list.
Steps(a, n, b, h) == a[0] = b /\ \A i \in 1 .. n : a[i] = h[<<a[i - 1], i>>]

LEMMA StepsExist ==
  ASSUME NEW n \in Nat, NEW A, NEW b \in A, NEW h \in [A \X (1 .. n) -> A]
  PROVE  \E a \in [0 .. n -> A] : Steps(a, n, b, h)
<1>1. PICK g \in [SUBSET (1 .. n) -> A] : Iterated(g, n, b, h)
  BY FoldExists
<1> DEFINE a == [i \in 0 .. n |-> g[1 .. i]]
<1>2. a \in [0 .. n -> A]
  OBVIOUS
<1>3. a[0] = b
  <2>1. 1 .. 0 = {} /\ {} \in SUBSET (1 .. n)
    OBVIOUS
  <2>2. g[{}] = b
    BY <1>1, <2>1 DEF Iterated
  <2> QED
    BY <2>1, <2>2
<1>4. ASSUME NEW i \in 1 .. n PROVE a[i] = h[<<a[i - 1], i>>]
  <2>1. 1 .. i \in SUBSET (1 .. n) /\ 1 .. i # {} /\ Max(1 .. i) = i /\ (1 .. i) \ {i} = 1 .. i - 1
    BY Segments
  <2>2. g[1 .. i] = h[<<g[1 .. i - 1], i>>]
    BY <1>1, <2>1, Zenon DEF Iterated
  <2>3. i \in 0 .. n /\ i - 1 \in 0 .. n
    OBVIOUS
  <2> QED
    BY <2>2, <2>3
<1> QED
  BY <1>2, <1>3, <1>4 DEF Steps

\* The same, along a list of n elements.
LEMMA ListInduction ==
  ASSUME NEW n \in Nat, NEW T, 0 \in T, \A i \in 1 .. n : i - 1 \in T => i \in T
  PROVE  \A i \in 0 .. n : i \in T
<1> DEFINE S == {k \in Nat : k <= n => k \in T}
<1>1. 0 \in S
  OBVIOUS
<1>2. ASSUME NEW k \in Nat, k \in S PROVE k + 1 \in S
  <2> SUFFICES ASSUME k + 1 <= n PROVE k + 1 \in T
    OBVIOUS
  <2>1. k + 1 \in 1 .. n /\ (k + 1) - 1 = k /\ k <= n
    OBVIOUS
  <2> QED
    BY <1>2, <2>1
<1>3. Nat \subseteq S
  <2> HIDE DEF S
  <2> QED
    BY <1>1, <1>2, NumberInduction
<1> QED
  BY <1>3

LEMMA FunctionIsSeq ==
  ASSUME NEW S, NEW n \in Nat, NEW f \in [1 .. n -> S]
  PROVE  f \in Seq(S) /\ Len(f) = n /\ DOMAIN f = 1 .. n
OBVIOUS

\* FlattenSeq, one list after the other.
LEMMA FlattenSteps ==
  ASSUME NEW S, NEW n \in Nat, NEW seqs \in [1 .. n -> Seq(S)]
  PROVE  \E a \in [0 .. n -> Seq(S)] :
           /\ a[0] = <<>> /\ \A i \in 1 .. n : a[i] = a[i - 1] \o seqs[i]
           /\ FlattenSeq(seqs) = a[n]
<1>0. seqs \in Seq(Seq(S)) /\ Len(seqs) = n /\ <<>> \in Seq(S)
  BY FunctionIsSeq
<1>1. CASE n = 0
  <2>1. FlattenSeq(seqs) = seqs
    BY <1>0, <1>1 DEF FlattenSeq
  <2>2. seqs = <<>>
    BY <1>0, <1>1
  <2> DEFINE a == [i \in 0 .. n |-> <<>>]
  <2>3. a \in [0 .. n -> Seq(S)] /\ a[0] = <<>> /\ a[n] = <<>>
    BY <1>0, <1>1
  <2>4. 1 .. n = {}
    BY <1>1
  <2> HIDE DEF a
  <2> QED
    BY <2>1, <2>2, <2>3, <2>4
<1>2. CASE n # 0
  <2> DEFINE h == [p \in Seq(S) \X (1 .. n) |-> p[1] \o seqs[p[2]]]
             E(f) == f = [i \in 1 .. n |-> IF i = 1 THEN seqs[i] ELSE f[i - 1] \o seqs[i]]
  <2>1. h \in [Seq(S) \X (1 .. n) -> Seq(S)]
    <3>1. \A p \in Seq(S) \X (1 .. n) : p[1] \o seqs[p[2]] \in Seq(S)
      BY ConcatProperties
    <3> QED
      BY <3>1
  <2>2. PICK c \in [0 .. n -> Seq(S)] : Steps(c, n, <<>>, h)
    <3> HIDE DEF h
    <3> QED
      BY <1>0, <2>1, StepsExist
  <2>3. ASSUME NEW i \in 1 .. n PROVE c[i] = c[i - 1] \o seqs[i]
    <3>1. <<c[i - 1], i>> \in Seq(S) \X (1 .. n)
      OBVIOUS
    <3> QED
      BY <2>2, <3>1 DEF Steps
  <2>4. \A s \in Seq(S) : <<>> \o s = s
    BY ConcatEmptySeq
  <2>5. c[1] = seqs[1]
    <3>1. 1 \in 1 .. n /\ 1 - 1 = 0
      BY <1>2
    <3>2. c[1] = c[1 - 1] \o seqs[1] /\ seqs[1] \in Seq(S)
      BY <2>3, <3>1
    <3> QED
      BY <2>2, <2>4, <3>1, <3>2 DEF Steps
  <2> DEFINE d == [i \in 1 .. n |-> c[i]]
  <2>6. E(d)
    <3>1. ASSUME NEW i \in 1 .. n
          PROVE  d[i] = IF i = 1 THEN seqs[i] ELSE d[i - 1] \o seqs[i]
      <4>1. i # 1 => i - 1 \in 1 .. n
        OBVIOUS
      <4> QED
        BY <2>3, <2>5, <4>1
    <3> QED
      BY <3>1
  <2> DEFINE f == CHOOSE f : E(f)
  <2>7. E(f)
    BY <2>6, Zenon
  <2>8. FlattenSeq(seqs) = f[n]
    BY <1>0, <1>2, Zenon DEF FlattenSeq
  <2> HIDE DEF f
  <2> DEFINE a == [i \in 0 .. n |-> IF i = 0 THEN <<>> ELSE f[i]]
             T == {k \in 0 .. n : a[k] \in Seq(S)}
  <2>9. a[0] = <<>> /\ a[n] = f[n]
    BY <1>2
  <2>10. ASSUME NEW i \in 1 .. n PROVE a[i] = a[i - 1] \o seqs[i]
    <3>1. CASE i = 1
      BY <2>4, <2>7, <3>1
    <3>2. CASE i # 1
      <4>1. i - 1 \in 1 .. n /\ i # 0 /\ i - 1 # 0 /\ i - 1 \in 0 .. n /\ i \in 0 .. n
        BY <3>2
      <4>2. f[i] = f[i - 1] \o seqs[i]
        BY <2>7, <3>2
      <4> QED
        BY <4>1, <4>2
    <3> QED
      BY <3>1, <3>2
  <2>11. a \in [0 .. n -> Seq(S)]
    <3> HIDE DEF a
    <3>1. 0 \in T
      <4>1. 0 \in 0 .. n
        OBVIOUS
      <4> QED
        BY <1>0, <2>9, <4>1
    <3>2. ASSUME NEW i \in 1 .. n, i - 1 \in T PROVE i \in T
      <4>1. a[i - 1] \in Seq(S) /\ seqs[i] \in Seq(S) /\ i \in 0 .. n
        BY <3>2
      <4>2. a[i - 1] \o seqs[i] \in Seq(S)
        BY ONLY <4>1, ConcatProperties, Zenon
      <4> QED
        BY <2>10, <4>1, <4>2
    <3>3. \A i \in 0 .. n : i \in T
      <4> HIDE DEF T
      <4> QED
        BY <3>1, <3>2, ListInduction
    <3>4. \A i \in 0 .. n : a[i] \in Seq(S)
      BY <3>3
    <3>5. a = [i \in 0 .. n |-> a[i]]
      BY DEF a
    <3> QED
      BY <3>4, <3>5
  <2> HIDE DEF a
  <2> QED
    BY <2>8, <2>9, <2>10, <2>11
<1> QED
  BY <1>1, <1>2

LEMMA RangeConcat ==
  ASSUME NEW S, NEW p \in Seq(S), NEW q \in Seq(S), NEW x
  PROVE  x \in Range(p \o q) <=> x \in Range(p) \/ x \in Range(q)
<1>1. \A i \in DOMAIN p : i \in DOMAIN (p \o q) /\ (p \o q)[i] = p[i]
  OBVIOUS
<1>2. \A i \in DOMAIN q : i + Len(p) \in DOMAIN (p \o q) /\ (p \o q)[i + Len(p)] = q[i]
  OBVIOUS
<1>3. \A i \in DOMAIN (p \o q) :
         \/ i \in DOMAIN p /\ (p \o q)[i] = p[i]
         \/ i - Len(p) \in DOMAIN q /\ (p \o q)[i] = q[i - Len(p)]
  OBVIOUS
<1> DEFINE r == p \o q
<1> HIDE DEF r
<1>4. ASSUME NEW i \in DOMAIN r, x = r[i] PROVE x \in Range(p) \/ x \in Range(q)
  BY <1>3, <1>4, Zenon DEF Range, r
<1>5. ASSUME NEW i \in DOMAIN p, x = p[i] PROVE x \in Range(r)
  BY <1>1, <1>5, Zenon DEF Range, r
<1>6. ASSUME NEW i \in DOMAIN q, x = q[i] PROVE x \in Range(r)
  BY <1>2, <1>6, Zenon DEF Range, r
<1>7. x \in Range(r) <=> x \in Range(p) \/ x \in Range(q)
  BY <1>4, <1>5, <1>6, Zenon DEF Range
<1> QED
  BY <1>7 DEF r

\* The elements of a flattened list are those of its lists.
LEMMA FlattenElements ==
  ASSUME NEW S, NEW n \in Nat, NEW seqs \in [1 .. n -> Seq(S)]
  PROVE  /\ FlattenSeq(seqs) \in Seq(S)
         /\ \A x : x \in Range(FlattenSeq(seqs)) <=> \E i \in 1 .. n : x \in Range(seqs[i])
<1>1. PICK a \in [0 .. n -> Seq(S)] :
         /\ a[0] = <<>> /\ \A i \in 1 .. n : a[i] = a[i - 1] \o seqs[i]
         /\ FlattenSeq(seqs) = a[n]
  BY FlattenSteps
<1> DEFINE R(k) == \A x : x \in Range(a[k]) <=> \E i \in 1 .. k : x \in Range(seqs[i])
           T == {k \in 0 .. n : R(k)}
<1>2. R(0)
  <2>1. 1 .. 0 = {} /\ DOMAIN <<>> = {}
    OBVIOUS
  <2> QED
    BY <1>1, <2>1, Zenon DEF Range
<1>3. ASSUME NEW k \in 1 .. n, R(k - 1) PROVE R(k)
  <2>0. k - 1 \in 0 .. n
    OBVIOUS
  <2>1. a[k] = a[k - 1] \o seqs[k] /\ a[k - 1] \in Seq(S) /\ seqs[k] \in Seq(S)
    BY <1>1, <2>0
  <2>2. \A x : x \in Range(a[k]) <=> x \in Range(a[k - 1]) \/ x \in Range(seqs[k])
    BY <2>1, RangeConcat
  <2>3. 1 .. k = (1 .. k - 1) \cup {k}
    OBVIOUS
  <2> QED
    BY <1>3, <2>2, <2>3, Zenon
<1>4. \A k \in 0 .. n : k \in T
  <2>1. 0 \in 0 .. n /\ \A k \in 1 .. n : k \in 0 .. n
    OBVIOUS
  <2>2. 0 \in T /\ \A k \in 1 .. n : k - 1 \in T => k \in T
    <3> HIDE DEF R
    <3> QED
      BY <1>2, <1>3, <2>1
  <2> HIDE DEF T
  <2> QED
    BY <2>2, ListInduction
<1>5. R(n)
  <2>1. n \in 0 .. n
    OBVIOUS
  <2> HIDE DEF R
  <2> QED
    BY <1>4, <2>1
<1> QED
  BY <1>1, <1>5

\* A list of lists of one element each.
LEMMA FlattenSingletons ==
  ASSUME NEW S, NEW n \in Nat, NEW e \in [1 .. n -> S],
         NEW seqs \in [1 .. n -> Seq(S)], \A i \in 1 .. n : seqs[i] = <<e[i]>>
  PROVE  FlattenSeq(seqs) = e
<1>1. PICK a \in [0 .. n -> Seq(S)] :
         /\ a[0] = <<>> /\ \A i \in 1 .. n : a[i] = a[i - 1] \o seqs[i]
         /\ FlattenSeq(seqs) = a[n]
  BY FlattenSteps
<1> DEFINE R(k) == a[k] = [i \in 1 .. k |-> e[i]]
           T == {k \in 0 .. n : R(k)}
<1>2. R(0)
  <2>1. [i \in 1 .. 0 |-> e[i]] = <<>>
    OBVIOUS
  <2> QED
    BY <1>1, <2>1
<1>3. ASSUME NEW k \in 1 .. n, R(k - 1) PROVE R(k)
  <2> DEFINE u == [i \in 1 .. k - 1 |-> e[i]]
             v == [i \in 1 .. k |-> e[i]]
  <2>1. a[k] = u \o <<e[k]>>
    <3>1. a[k] = a[k - 1] \o seqs[k] /\ seqs[k] = <<e[k]>>
      BY <1>1
    <3> QED
      BY <1>3, <3>1
  <2>2. u \in Seq(S) /\ Len(u) = k - 1
    <3>1. u \in [1 .. k - 1 -> S] /\ k - 1 \in Nat
      OBVIOUS
    <3> HIDE DEF u
    <3> QED
      BY ONLY <3>1, FunctionIsSeq, Zenon
  <2>3. v \in Seq(S) /\ Len(v) = k
    <3>1. v \in [1 .. k -> S] /\ k \in Nat
      OBVIOUS
    <3> HIDE DEF v
    <3> QED
      BY <3>1, FunctionIsSeq
  <2>4. \A i \in 1 .. k - 1 : u[i] = e[i]
    OBVIOUS
  <2>5. \A i \in 1 .. k : v[i] = e[i]
    OBVIOUS
  <2>6. e[k] \in S
    OBVIOUS
  <2> HIDE DEF u, v
  <2>7. u \o <<e[k]>> = v
    BY <2>2, <2>3, <2>4, <2>5, <2>6
  <2> QED
    BY <2>1, <2>7 DEF v
<1>4. \A k \in 0 .. n : k \in T
  <2>1. 0 \in 0 .. n /\ \A k \in 1 .. n : k \in 0 .. n
    OBVIOUS
  <2>2. 0 \in T /\ \A k \in 1 .. n : k - 1 \in T => k \in T
    <3> HIDE DEF R
    <3> QED
      BY <1>2, <1>3, <2>1
  <2> HIDE DEF T
  <2> QED
    BY <2>2, ListInduction
<1>5. a[n] = [i \in 1 .. n |-> e[i]]
  <2>1. n \in 0 .. n
    OBVIOUS
  <2> QED
    BY <1>4, <2>1
<1> QED
  BY <1>1, <1>5
=============================================================================
