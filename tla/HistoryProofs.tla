---------------------------- MODULE HistoryProofs ----------------------------
(* Theorems about History, for every number of strokes, clients, ops and    *)
(* entries of the history.                                                  *)
EXTENDS History, LwwTheorems, SequenceTheorems, TLAPS

\* MAX_HISTORY is checked where a group is recorded and nowhere else, so the
\* bound is on both stacks together, and they stay lists of something.
StacksInv ==
  /\ \E S : undo \in Seq(S) /\ redo \in Seq(S)
  /\ HistoryBounded

-----------------------------------------------------------------------------
(* Lists *)

LEMMA WiderSeq ==
  ASSUME NEW S, NEW T, NEW s \in Seq(S), S \subseteq T PROVE s \in Seq(T)
OBVIOUS

LEMMA TrimmedSeq ==
  ASSUME NEW S, NEW s \in Seq(S), NEW e \in S, Len(s) <= MaxHistory
  PROVE  /\ Trimmed(Append(s, e)) \in Seq(S)
         /\ Len(Trimmed(Append(s, e))) <= MaxHistory
BY HistoryAssumption DEF Trimmed

LEMMA FrontSeq ==
  ASSUME NEW S, NEW s \in Seq(S), s # <<>>
  PROVE  Front(s) \in Seq(S) /\ Len(Front(s)) = Len(s) - 1
<1>1. Len(s) \in Nat \ {0}
  BY EmptySeq
<1>2. PICK n \in Int : n = Len(s) - 1
  BY <1>1
<1>3. 1 \in Int /\ n \in Int /\ \A i \in 1 .. n : s[i] \in S
  BY <1>1, <1>2, LenProperties
<1>4. /\ SubSeq(s, 1, n) \in Seq(S)
      /\ Len(SubSeq(s, 1, n)) = IF 1 <= n THEN n - 1 + 1 ELSE 0
  BY <1>3, SubSeqProperties
<1>5. (IF 1 <= n THEN n - 1 + 1 ELSE 0) = n
  BY ONLY <1>1, <1>2
<1> QED
  BY <1>2, <1>4, <1>5, Zenon DEF Front

-----------------------------------------------------------------------------
(* What the actions do to the stacks *)

LEMMA RecordKeeps ==
  ASSUME StacksInv, NEW group, Record(group) PROVE StacksInv'
<1>1. PICK S : undo \in Seq(S) /\ redo \in Seq(S)
  BY DEF StacksInv
<1> DEFINE T == S \cup {group}
<1>2. undo \in Seq(T) /\ group \in T /\ Len(undo) <= MaxHistory
  BY <1>1, WiderSeq, HistoryAssumption DEF StacksInv, HistoryBounded
<1>3. undo' \in Seq(T) /\ Len(undo') <= MaxHistory
  BY <1>2, TrimmedSeq DEF Record
<1>4. redo' \in Seq(T) /\ Len(redo') = 0
  BY DEF Record
<1> QED
  BY <1>3, <1>4, HistoryAssumption DEF StacksInv, HistoryBounded

LEMMA SameStacks == ASSUME StacksInv, undo' = undo, redo' = redo PROVE StacksInv'
BY DEF StacksInv, HistoryBounded

\* Undo and redo move a group from one stack to the other.
LEMMA MovesOne ==
  ASSUME NEW S, NEW from \in Seq(S), NEW to \in Seq(S), NEW group, from # <<>>
  PROVE  /\ Front(from) \in Seq(S \cup {group}) /\ Append(to, group) \in Seq(S \cup {group})
         /\ Len(Front(from)) + Len(Append(to, group)) = Len(from) + Len(to)
<1>1. /\ from \in Seq(S \cup {group}) /\ to \in Seq(S \cup {group})
  BY WiderSeq
<1>2. Front(from) \in Seq(S \cup {group}) /\ Len(Front(from)) = Len(from) - 1
  BY <1>1, FrontSeq
<1>3. Append(to, group) \in Seq(S \cup {group}) /\ Len(Append(to, group)) = Len(to) + 1
  BY <1>1
<1> QED
  BY <1>1, <1>2, <1>3

LEMMA UndoKeeps == ASSUME StacksInv, Undo PROVE StacksInv'
<1>1. PICK S : undo \in Seq(S) /\ redo \in Seq(S)
  BY DEF StacksInv
<1>2. undo # <<>> /\ undo' = Front(undo) /\ redo' = Append(redo, Invert(Last(undo)))
  BY DEF Undo
<1>3. /\ undo' \in Seq(S \cup {Invert(Last(undo))})
      /\ redo' \in Seq(S \cup {Invert(Last(undo))})
      /\ Len(undo') + Len(redo') = Len(undo) + Len(redo)
  BY <1>1, <1>2, MovesOne
<1> QED
  BY <1>3 DEF StacksInv, HistoryBounded

LEMMA RedoKeeps == ASSUME StacksInv, Redo PROVE StacksInv'
<1>1. PICK S : undo \in Seq(S) /\ redo \in Seq(S)
  BY DEF StacksInv
<1>2. redo # <<>> /\ redo' = Front(redo) /\ undo' = Append(undo, Invert(Last(redo)))
  BY DEF Redo
<1>3. /\ redo' \in Seq(S \cup {Invert(Last(redo))})
      /\ undo' \in Seq(S \cup {Invert(Last(redo))})
      /\ Len(redo') + Len(undo') = Len(redo) + Len(undo)
  BY <1>1, <1>2, MovesOne
<1>4. Len(undo) \in Nat /\ Len(redo) \in Nat /\ Len(undo') \in Nat /\ Len(redo') \in Nat
  BY <1>1, <1>3
<1> QED
  BY <1>3, <1>4 DEF StacksInv, HistoryBounded

-----------------------------------------------------------------------------
(* The theorem *)

LEMMA StacksInit == Init => StacksInv
<1> SUFFICES ASSUME Init PROVE StacksInv
  OBVIOUS
<1>1. undo \in Seq({}) /\ redo \in Seq({}) /\ Len(undo) = 0 /\ Len(redo) = 0
  BY DEF Init
<1> QED
  BY <1>1, HistoryAssumption DEF StacksInv, HistoryBounded

LEMMA FinishTextKeeps == ASSUME StacksInv, NEW commit, FinishText(commit) PROVE StacksInv'
<1>1. CASE text # None /\ text.filled /\ commit
  BY <1>1, RecordKeeps DEF FinishText, CommitStroke
<1>2. CASE ~(text # None /\ text.filled /\ commit)
  BY <1>2, SameStacks DEF FinishText
<1> QED
  BY <1>1, <1>2

LEMMA FinishEraseKeeps == ASSUME StacksInv, FinishErase PROVE StacksInv'
BY RecordKeeps, SameStacks DEF FinishErase, Forgotten

LEMMA StacksNext == StacksInv /\ [Next]_vars => StacksInv'
<1> SUFFICES ASSUME StacksInv, [Next]_vars PROVE StacksInv'
  OBVIOUS
<1>1. CASE StartDrawing \/ DropDrawing \/ Type \/ Remote
  BY <1>1, SameStacks DEF StartDrawing, DropDrawing, Type, Remote
<1>2. CASE StopDrawing
  BY <1>2, RecordKeeps DEF StopDrawing, CommitStroke
<1>3. CASE PlaceLabel
  BY <1>3, FinishTextKeeps DEF PlaceLabel
<1>4. CASE CloseEditor
  BY <1>4, FinishTextKeeps DEF CloseEditor
<1>5. CASE StartErasing \/ Erase
  BY <1>5, SameStacks DEF StartErasing, Erase
<1>6. CASE StopErasing
  BY <1>6, FinishEraseKeeps DEF StopErasing
<1>7. CASE ClickErase
  BY <1>7, RecordKeeps DEF ClickErase
<1>8. CASE SelectTool
  BY <1>8, FinishTextKeeps, FinishEraseKeeps DEF SelectTool
<1>9. CASE Undo
  BY <1>9, UndoKeeps
<1>10. CASE Redo
  BY <1>10, RedoKeeps
<1>11. CASE ClearMine
  BY <1>11, RecordKeeps DEF ClearMine
<1>12. CASE UNCHANGED vars
  BY <1>12, SameStacks DEF vars
<1> QED
  BY <1>1, <1>2, <1>3, <1>4, <1>5, <1>6, <1>7, <1>8, <1>9, <1>10, <1>11, <1>12 DEF Next

\* The memory undo and redo take is bounded, although only recording trims: an
\* undo, a redo, and whatever falls between them, never add an entry.
THEOREM HistoryStaysBounded == Spec => []HistoryBounded
<1>1. StacksInv => HistoryBounded
  BY DEF StacksInv
<1> QED
  BY <1>1, StacksInit, StacksNext, PTL DEF Spec

-----------------------------------------------------------------------------
(* apply_all: the boards it goes through.                                    *)

LEMMA AppliedSteps ==
  ASSUME doc \in Board, NEW ops \in Seq(Op)
  PROVE  \E a \in [0 .. Len(ops) -> Board] :
           /\ a[0] = doc
           /\ \A i \in 1 .. Len(ops) : a[i] = ApplyTo(a[i - 1], ops[i])
           /\ Applied(ops) = a[Len(ops)]
<1> DEFINE n == Len(ops)
           h == [p \in Board \X (1 .. n) |-> ApplyTo(p[1], ops[p[2]])]
           E(f) == f = [s \in SUBSET DOMAIN ops |->
                          IF s = {} THEN doc ELSE ApplyTo(f[s \ {Max(s)}], ops[Max(s)])]
           fold == CHOOSE f : E(f)
<1>1. n \in Nat /\ DOMAIN ops = 1 .. n
  OBVIOUS
<1>2. h \in [Board \X (1 .. n) -> Board]
  <2>1. \A p \in Board \X (1 .. n) : ApplyTo(p[1], ops[p[2]]) \in Board
    BY ApplyType
  <2> QED
    BY <2>1
<1>3. PICK g \in [SUBSET (1 .. n) -> Board] : Iterated(g, n, doc, h)
  <2> HIDE DEF h
  <2> QED
    BY <1>1, <1>2, FoldExists
<1>4. E(g)
  <2>1. ASSUME NEW s \in SUBSET (1 .. n)
        PROVE  g[s] = IF s = {} THEN doc ELSE ApplyTo(g[s \ {Max(s)}], ops[Max(s)])
    <3>1. g[s] = IF s = {} THEN doc ELSE h[<<g[s \ {Max(s)}], Max(s)>>]
      BY <1>3, Zenon DEF Iterated
    <3>2. s # {} => Max(s) \in 1 .. n /\ s \ {Max(s)} \in SUBSET (1 .. n)
      <4> HIDE DEF n
      <4>1. s # {} => Max(s) \in s
        BY <1>1, MaxOfSet
      <4> QED
        BY <4>1
    <3>3. s # {} => <<g[s \ {Max(s)}], Max(s)>> \in Board \X (1 .. n)
      BY <3>2
    <3> QED
      BY <3>1, <3>3
  <2>2. g = [s \in SUBSET (1 .. n) |-> g[s]]
    OBVIOUS
  <2> QED
    BY <1>1, <2>1, <2>2
<1>5. E(fold)
  BY <1>4, Zenon
<1>6. Applied(ops) = fold[1 .. n]
  <2>1. Applied(ops) = fold[DOMAIN ops]
    BY Zenon DEF Applied, FoldLeft, MapThenFoldSet
  <2> QED
    BY <1>1, <2>1, Zenon
<1> HIDE DEF fold
<1>7. fold[{}] = doc
  BY <1>5
<1>8. ASSUME NEW i \in 1 .. n PROVE fold[1 .. i] = ApplyTo(fold[1 .. i - 1], ops[i])
  <2>1. 1 .. i \in SUBSET (1 .. n) /\ 1 .. i # {} /\ Max(1 .. i) = i /\ (1 .. i) \ {i} = 1 .. i - 1
    BY <1>1, Segments
  <2>2. fold[1 .. i] = ApplyTo(fold[(1 .. i) \ {Max(1 .. i)}], ops[Max(1 .. i)])
    BY <1>1, <1>5, <2>1, Zenon
  <2> QED
    BY <2>1, <2>2, Zenon
<1> DEFINE a == [i \in 0 .. n |-> fold[1 .. i]]
<1>9. a[0] = doc /\ Applied(ops) = a[n]
  <2>1. 1 .. 0 = {} /\ 0 \in 0 .. n /\ n \in 0 .. n
    BY <1>1
  <2> QED
    BY <1>6, <1>7, <2>1
<1>10. \A i \in 1 .. n : a[i] = ApplyTo(a[i - 1], ops[i])
  <2> SUFFICES ASSUME NEW i \in 1 .. n PROVE a[i] = ApplyTo(a[i - 1], ops[i])
    OBVIOUS
  <2>1. i \in 0 .. n /\ i - 1 \in 0 .. n
    BY <1>1
  <2> QED
    BY <1>8, <2>1
<1>11. a \in [0 .. n -> Board]
  <2> DEFINE T == {k \in Nat : a[k] \in Board}
  <2>1. 0 \in T
    BY <1>1, <1>9
  <2>2. ASSUME NEW i \in 1 .. n, i - 1 \in T PROVE i \in T
    <3>1. ops[i] \in Op /\ i \in Nat
      BY <1>1
    <3> HIDE DEF a
    <3> QED
      BY <1>10, <2>2, <3>1, ApplyType
  <2>3. \A i \in 0 .. n : i \in T
    <3> HIDE DEF T, n
    <3> QED
      BY <1>1, <2>1, <2>2, ListInduction
  <2> QED
    BY <2>3
<1> HIDE DEF a
<1> QED
  BY <1>9, <1>10, <1>11

-----------------------------------------------------------------------------
(* Ops with the stamps of the clock's next ticks, in their order.            *)

FreshlyStamped(ops) == \A i \in 1 .. Len(ops) : ops[i].ts = Stamped(i)

\* No stamp of the document is newer than the clock.
Ticked == \A x \in Slots : doc[x].counter <= clock

\* The last of the first k ops that writes x is at j or before it.
UpTo(ops, k, x, j) == \A i \in 1 .. k : SlotOf(ops[i]) = x => i <= j

\* What the first k of these ops have made of the document: each register
\* holds the stamp of the last op on it.
Overwritten(ops, k, b) ==
  \A x \in Slots :
    /\ doc[x] # NoStamp => b[x] # NoStamp
    /\ \A j \in Nat : UpTo(ops, k, x, j) => b[x].counter <= clock + j
    /\ \A j \in 1 .. k : (SlotOf(ops[j]) = x /\ UpTo(ops, k, x, j)) => b[x] = Stamped(j)

LEMMA OverwrittenNone ==
  ASSUME doc \in Board, clock \in Nat, Ticked, NEW ops PROVE Overwritten(ops, 0, doc)
<1> SUFFICES ASSUME NEW x \in Slots, NEW j \in Nat PROVE doc[x].counter <= clock + j
  BY DEF Overwritten
<1>1. doc[x].counter \in Nat /\ doc[x].counter <= clock
  BY BoardType, MarkShape DEF Ticked
<1> QED
  BY <1>1

LEMMA OverwrittenStep ==
  ASSUME clock \in Nat, NEW ops \in Seq(Op), FreshlyStamped(ops), NEW k \in 1 .. Len(ops),
         NEW b \in Board, Overwritten(ops, k - 1, b)
  PROVE  Overwritten(ops, k, ApplyTo(b, ops[k]))
<1> DEFINE op == ops[k]
           d == ApplyTo(b, op)
<1>1. op \in Op /\ op.ts = Stamped(k) /\ k \in Nat /\ k - 1 \in Nat /\ op.ts \in Mark
  BY SlotType DEF FreshlyStamped
<1>2. d \in Board /\ \A x \in Slots : d[x] = IF x = SlotOf(op) THEN Later(b[x], op.ts) ELSE b[x]
  BY <1>1, ApplyType, ApplySlots
<1>3. 1 .. k = (1 .. k - 1) \cup {k}
  BY <1>1
<1>4. ASSUME NEW x \in Slots, NEW j \in Nat, UpTo(ops, k, x, j) PROVE UpTo(ops, k - 1, x, j)
  BY <1>3, <1>4 DEF UpTo
<1> HIDE DEF op, d
<1> SUFFICES ASSUME NEW x \in Slots
             PROVE  /\ doc[x] # NoStamp => d[x] # NoStamp
                    /\ \A j \in Nat : UpTo(ops, k, x, j) => d[x].counter <= clock + j
                    /\ \A j \in 1 .. k : (SlotOf(ops[j]) = x /\ UpTo(ops, k, x, j)) => d[x] = Stamped(j)
  BY DEF Overwritten, d, op
<1>5. /\ doc[x] # NoStamp => b[x] # NoStamp
      /\ \A j \in Nat : UpTo(ops, k - 1, x, j) => b[x].counter <= clock + j
      /\ \A j \in 1 .. k - 1 : (SlotOf(ops[j]) = x /\ UpTo(ops, k - 1, x, j)) => b[x] = Stamped(j)
  BY DEF Overwritten
<1>6. CASE x = SlotOf(op)
  <2>1. UpTo(ops, k - 1, x, k - 1)
    BY DEF UpTo
  <2>2. b[x] \in Mark /\ b[x].counter \in Nat /\ b[x].counter <= clock + (k - 1)
    BY <1>1, <1>5, <2>1, BoardType, MarkShape
  <2>3. Stamped(k).counter = clock + k
    BY DEF Stamped
  <2>4. Before(b[x], Stamped(k))
    BY <1>1, <2>2, <2>3 DEF Before
  <2>5. d[x] = Stamped(k)
    BY <1>1, <1>2, <1>6, <2>4 DEF Later
  <2>6. d[x] # NoStamp
    BY <1>1, <2>3, <2>5 DEF NoStamp
  <2>7. ASSUME NEW j \in Nat, UpTo(ops, k, x, j) PROVE k <= j
    <3>1. k \in 1 .. k /\ SlotOf(ops[k]) = x
      BY <1>1, <1>6 DEF op
    <3> QED
      BY <2>7, <3>1 DEF UpTo
  <2>8. ASSUME NEW j \in Nat, UpTo(ops, k, x, j) PROVE d[x].counter <= clock + j
    BY <1>1, <2>3, <2>5, <2>7, <2>8
  <2>9. ASSUME NEW j \in 1 .. k, UpTo(ops, k, x, j) PROVE d[x] = Stamped(j)
    <3>1. j = k
      BY <1>1, <2>7, <2>9
    <3> QED
      BY <2>5, <3>1
  <2> QED
    BY <2>6, <2>8, <2>9
<1>7. CASE x # SlotOf(op)
  <2>1. d[x] = b[x]
    BY <1>2, <1>7
  <2>2. ASSUME NEW j \in 1 .. k, SlotOf(ops[j]) = x, UpTo(ops, k, x, j) PROVE d[x] = Stamped(j)
    <3>1. j # k /\ j \in 1 .. k - 1 /\ j \in Nat
      BY <1>3, <1>7, <2>2 DEF op
    <3> QED
      BY <1>4, <1>5, <2>1, <2>2, <3>1
  <2> QED
    BY <1>4, <1>5, <2>1, <2>2
<1> QED
  BY <1>6, <1>7

\* apply_all of freshly stamped ops always takes effect, whatever the document
\* held: the last op on a register wins.
LEMMA FreshOpsWin ==
  ASSUME doc \in Board, clock \in Nat, Ticked, NEW ops \in Seq(Op), FreshlyStamped(ops)
  PROVE  Applied(ops) \in Board /\ Overwritten(ops, Len(ops), Applied(ops))
<1> DEFINE n == Len(ops)
<1>1. n \in Nat
  OBVIOUS
<1>2. PICK a \in [0 .. n -> Board] :
         /\ a[0] = doc
         /\ \A i \in 1 .. n : a[i] = ApplyTo(a[i - 1], ops[i])
         /\ Applied(ops) = a[n]
  BY AppliedSteps
<1> DEFINE T == {k \in 0 .. n : Overwritten(ops, k, a[k])}
<1>3. 0 \in T
  <2>1. 0 \in 0 .. n
    BY <1>1
  <2> QED
    BY <1>2, <2>1, OverwrittenNone
<1>4. ASSUME NEW k \in 1 .. n, k - 1 \in T PROVE k \in T
  <2>1. k \in 0 .. n /\ k - 1 \in 0 .. n /\ a[k - 1] \in Board /\ a[k] = ApplyTo(a[k - 1], ops[k])
    BY <1>2
  <2>2. Overwritten(ops, k - 1, a[k - 1])
    BY <1>4
  <2> QED
    BY <2>1, <2>2, OverwrittenStep
<1>5. \A k \in 0 .. n : k \in T
  <2> HIDE DEF T, n
  <2> QED
    BY <1>1, <1>3, <1>4, ListInduction
<1>6. n \in 0 .. n
  BY <1>1
<1> QED
  BY <1>2, <1>5, <1>6

-----------------------------------------------------------------------------
(* Groups that can be taken back.                                            *)

\* Lists of ops about strokes of which the document has seen an add: a
\* tombstone alone could not be undone.
Reversible(b) == {group \in Seq(Op) : \A i \in 1 .. Len(group) : b[<<group[i].id, "Add">>] # NoStamp}

\* What was seen stays seen.
KeepsSeen(b) == \A x \in Slots : doc[x] # NoStamp => b[x] # NoStamp

LEMMA StampedType ==
  ASSUME clock \in Nat, NEW i \in Nat \ {0}
  PROVE  Stamped(i) \in Stamp /\ Stamped(i).counter = clock + i
BY HistoryAssumption DEF Stamped, Stamp

LEMMA InvertedType ==
  ASSUME NEW op \in Op, NEW ts \in Stamp
  PROVE  /\ Inverted(op, ts) \in Op /\ Inverted(op, ts).ts = ts
         /\ Inverted(op, ts).id = op.id
         /\ Inverted(op, ts).kind = IF op.kind = "Add" THEN "Remove" ELSE "Add"
BY DEF Inverted, Op, Kinds

LEMMA OpShape ==
  ASSUME NEW op \in Op
  PROVE  /\ op.id \in Strokes /\ op.kind \in {"Add", "Remove"} /\ op.ts \in Stamp
         /\ <<op.id, "Add">> \in Slots /\ <<op.id, "Remove">> \in Slots
BY DEF Op, Kinds, Slots

LEMMA ReversibleStays ==
  ASSUME NEW b, KeepsSeen(b) PROVE Reversible(doc) \subseteq Reversible(b)
<1> SUFFICES ASSUME NEW group \in Reversible(doc), NEW i \in 1 .. Len(group)
             PROVE  b[<<group[i].id, "Add">>] # NoStamp
  BY DEF Reversible
<1>1. group[i] \in Op /\ doc[<<group[i].id, "Add">>] # NoStamp
  BY DEF Reversible
<1> QED
  BY <1>1, OpShape DEF KeepsSeen

\* invert leaves nothing out.
LEMMA InvertWhole ==
  ASSUME clock \in Nat, NEW group \in Reversible(doc)
  PROVE  /\ Invert(group) \in Seq(Op) /\ Len(Invert(group)) = Len(group)
         /\ FreshlyStamped(Invert(group))
         /\ \A i \in 1 .. Len(group) :
              Invert(group)[i] = Inverted(group[Len(group) + 1 - i], Stamped(i))
<1> DEFINE n == Len(group)
           e == [i \in 1 .. n |-> Inverted(group[n + 1 - i], Stamped(i))]
           seqs == [i \in 1 .. n |-> InverseAt(group, i)]
<1>1. n \in Nat /\ group \in Seq(Op)
  BY DEF Reversible
<1>2. ASSUME NEW i \in 1 .. n
      PROVE  /\ e[i] \in Op /\ e[i].ts = Stamped(i)
             /\ InverseAt(group, i) = <<e[i]>>
  <2>1. n + 1 - i \in 1 .. n /\ i \in Nat \ {0}
    BY <1>1
  <2>2. group[n + 1 - i] \in Op /\ doc[<<group[n + 1 - i].id, "Add">>] # NoStamp
    BY <1>1, <2>1 DEF Reversible
  <2>3. Stamped(i) \in Stamp
    BY <2>1, StampedType
  <2>4. e[i] = Inverted(group[n + 1 - i], Stamped(i))
    OBVIOUS
  <2>5. CanInvert(doc, group[n + 1 - i])
    BY <2>2 DEF CanInvert
  <2> HIDE DEF e
  <2>6. InverseAt(group, i) = <<e[i]>>
    BY <2>4, <2>5 DEF InverseAt
  <2> QED
    BY <2>2, <2>3, <2>4, <2>6, InvertedType
<1>3. e \in [1 .. n -> Op]
  <2>1. \A i \in 1 .. n : e[i] \in Op
    BY <1>2
  <2>2. e = [i \in 1 .. n |-> e[i]]
    OBVIOUS
  <2> HIDE DEF e
  <2> QED
    BY <2>1, <2>2
<1>4. seqs \in [1 .. n -> Seq(Op)] /\ \A i \in 1 .. n : seqs[i] = <<e[i]>>
  <2>1. \A i \in 1 .. n : seqs[i] = <<e[i]>> /\ <<e[i]>> \in Seq(Op)
    <3> HIDE DEF e
    <3> QED
      BY <1>2
  <2> HIDE DEF e
  <2> QED
    BY <2>1
<1>5. Invert(group) = e
  <2>1. FlattenSeq(seqs) = e
    <3>1. n \in Nat
      BY <1>1
    <3> HIDE DEF e, seqs, n
    <3> QED
      BY ONLY <3>1, <1>3, <1>4, FlattenSingletons
  <2> QED
    BY <2>1, Zenon DEF Invert
<1>6. e \in Seq(Op) /\ Len(e) = n
  <2> HIDE DEF e, n
  <2> QED
    BY <1>1, <1>3, FunctionIsSeq
<1>7. \A i \in 1 .. n : e[i] = Inverted(group[n + 1 - i], Stamped(i))
  OBVIOUS
<1> HIDE DEF e
<1>8. FreshlyStamped(e)
  BY <1>2, <1>6 DEF FreshlyStamped
<1> QED
  BY <1>5, <1>6, <1>7, <1>8

\* What taking back a group leaves: a document in which every stroke of the
\* group is as it was before the first op about it.
LEMMA TakenBack ==
  ASSUME doc \in Board, clock \in Nat, Ticked, NEW group \in Reversible(doc)
  PROVE  LET b == Applied(Invert(group)) IN
           /\ b \in Board /\ KeepsSeen(b)
           /\ \A x \in Slots : b[x].counter <= clock + Len(group)
           /\ \A i \in 1 .. Len(group) :
                (\A j \in 1 .. i - 1 : group[j].id # group[i].id) =>
                  (IsVisible(b, group[i].id) <=> group[i].kind = "Remove")
<1> DEFINE n == Len(group)
           inv == Invert(group)
           b == Applied(inv)
<1>1. n \in Nat /\ group \in Seq(Op)
  BY DEF Reversible
<1>2. /\ inv \in Seq(Op) /\ Len(inv) = n /\ FreshlyStamped(inv)
      /\ \A i \in 1 .. n : inv[i] = Inverted(group[n + 1 - i], Stamped(i))
  BY InvertWhole
<1> HIDE DEF inv
<1>3. b \in Board /\ Overwritten(inv, n, b)
  BY <1>2, FreshOpsWin
<1> HIDE DEF b
<1>4. KeepsSeen(b)
  BY <1>3 DEF Overwritten, KeepsSeen
<1>5. ASSUME NEW x \in Slots PROVE b[x].counter <= clock + n
  <2>1. UpTo(inv, n, x, n)
    BY <1>1 DEF UpTo
  <2> QED
    BY <1>1, <1>3, <2>1 DEF Overwritten
<1>6. ASSUME NEW i \in 1 .. n, \A j \in 1 .. i - 1 : group[j].id # group[i].id
      PROVE  IsVisible(b, group[i].id) <=> group[i].kind = "Remove"
  <2> DEFINE s == group[i].id
             last == n + 1 - i
             new == IF group[i].kind = "Add" THEN "Remove" ELSE "Add"
             old == group[i].kind
  <2>1. last \in 1 .. n /\ last \in Nat /\ last - 1 \in Nat /\ i = n + 1 - last
    BY <1>1
  <2>2. group[i] \in Op
    BY <1>1
  <2>3. /\ s \in Strokes /\ <<s, "Add">> \in Slots /\ <<s, "Remove">> \in Slots
        /\ old \in {"Add", "Remove"}
    BY <2>2, OpShape
  <2>4. ASSUME NEW k \in 1 .. n
        PROVE  /\ SlotOf(inv[k]) = <<inv[k].id, inv[k].kind>>
               /\ inv[k].id = s => k <= last
               /\ k = last => inv[k].id = s /\ inv[k].kind = new
    <3>1. n + 1 - k \in 1 .. n /\ k \in Nat \ {0}
      BY <1>1
    <3>2. group[n + 1 - k] \in Op /\ Stamped(k) \in Stamp
      BY <1>1, <3>1, StampedType
    <3>3. /\ inv[k].id = group[n + 1 - k].id
          /\ inv[k].kind = IF group[n + 1 - k].kind = "Add" THEN "Remove" ELSE "Add"
      BY <1>2, <3>2, InvertedType
    <3>4. ASSUME inv[k].id = s PROVE k <= last
      <4>1. n + 1 - k \notin 1 .. i - 1
        BY <1>6, <3>3, <3>4
      <4> QED
        BY <1>1, <3>1, <4>1
    <3>5. k = last => n + 1 - k = i
      BY <1>1
    <3> QED
      BY <3>3, <3>4, <3>5, Zenon DEF SlotOf
  <2>5. UpTo(inv, n, <<s, new>>, last) /\ SlotOf(inv[last]) = <<s, new>>
    BY <2>1, <2>4 DEF UpTo
  <2>6. UpTo(inv, n, <<s, old>>, last - 1)
    <3> SUFFICES ASSUME NEW k \in 1 .. n, SlotOf(inv[k]) = <<s, old>> PROVE k <= last - 1
      BY DEF UpTo
    <3>1. inv[k].id = s /\ inv[k].kind = old
      BY <2>4
    <3>2. k <= last /\ k # last
      BY <2>3, <2>4, <3>1
    <3> QED
      BY <2>1, <3>2
  <2>7. <<s, new>> \in Slots /\ <<s, old>> \in Slots
    BY <2>3
  <2>8. b[<<s, new>>] = Stamped(last) /\ b[<<s, old>>].counter <= clock + (last - 1)
    BY <1>3, <2>1, <2>5, <2>6, <2>7 DEF Overwritten
  <2>9. Stamped(last).counter = clock + last
    BY <2>1, StampedType
  <2>10. b[<<s, old>>].counter \in Nat
    BY <1>3, <2>7, BoardType, MarkShape
  <2>11. Before(b[<<s, old>>], b[<<s, new>>]) /\ ~Before(b[<<s, new>>], b[<<s, old>>])
    BY <2>1, <2>8, <2>9, <2>10 DEF Before
  <2> QED
    BY <2>3, <2>11 DEF IsVisible
<1> QED
  BY <1>3, <1>4, <1>5, <1>6 DEF b, inv

-----------------------------------------------------------------------------
(* The inductive invariant: the clock is ahead of the document, and every     *)
(* group on a stack or under the eraser can be taken back.                    *)

Entry(b) == Reversible(b) \ {<<>>}

DocInv     == doc \in Board /\ clock \in 0 .. MaxClock /\ Ticked
GestureInv == /\ tool \in Tools /\ held \in BOOLEAN
              /\ drawing \in Strokes \cup {None}
              /\ text \in [id : Strokes, filled : BOOLEAN] \cup {None}
              /\ foreign \subseteq Strokes
ErasingInv == erasing \in Reversible(doc) \cup {None}
EntriesInv == undo \in Seq(Entry(doc)) /\ redo \in Seq(Entry(doc))

HistInv == DocInv /\ GestureInv /\ ErasingInv /\ EntriesInv

\* What an edit of the document keeps.
DocKept == DocInv' /\ KeepsSeen(doc')

LEMMA SameDoc == ASSUME DocInv, doc' = doc, clock' = clock PROVE DocKept
BY DEF DocInv, DocKept, KeepsSeen, Ticked

\* An op whose stamp the clock has seen.
LEMMA ApplyKept ==
  ASSUME DocInv, NEW op \in Op, doc' = ApplyTo(doc, op), clock' \in 0 .. MaxClock,
         clock <= clock', op.ts.counter <= clock'
  PROVE  DocKept /\ (op.kind = "Add" => doc'[<<op.id, "Add">>] # NoStamp)
<1>1. doc \in Board /\ clock \in Nat /\ clock' \in Nat /\ Ticked
  BY HistoryAssumption DEF DocInv
<1>2. doc' \in Board
  BY <1>1, ApplyType
<1>3. op.ts \in Mark /\ op.ts \in Stamp /\ SlotOf(op) \in Slots
  BY SlotType
<1>4. op.ts # NoStamp /\ op.ts.counter \in Nat
  BY <1>3 DEF Stamp, NoStamp
<1>5. ASSUME NEW x \in Slots
      PROVE  /\ doc'[x].counter <= clock'
             /\ doc[x] # NoStamp => doc'[x] # NoStamp
             /\ x = SlotOf(op) => doc'[x] # NoStamp
  <2>1. doc'[x] = IF x = SlotOf(op) THEN Later(doc[x], op.ts) ELSE doc[x]
    BY <1>1, ApplySlots
  <2>2. doc[x] \in Mark /\ doc[x].counter \in Nat /\ doc[x].counter <= clock
    BY <1>1, BoardType, MarkShape DEF Ticked
  <2>3. doc'[x] \in {doc[x], op.ts}
    BY <1>3, <2>1, <2>2, LaterIsJoin
  <2>4. Before(NoStamp, op.ts)
    BY <1>3 DEF Before, Stamp, NoStamp
  <2>5. x = SlotOf(op) => doc'[x] # NoStamp
    BY <1>4, <2>1, <2>4 DEF Later
  <2> QED
    BY <1>1, <1>4, <2>1, <2>2, <2>3, <2>5
<1>6. Ticked'
  BY <1>5 DEF Ticked
<1>7. op.kind = "Add" => doc'[<<op.id, "Add">>] # NoStamp
  BY <1>3, <1>5 DEF SlotOf
<1> QED
  BY <1>2, <1>5, <1>6, <1>7 DEF DocInv, DocKept, KeepsSeen

LEMMA SeenWhenVisible ==
  ASSUME doc \in Board, NEW s \in Visible(doc)
  PROVE  s \in Strokes /\ doc[<<s, "Add">>] # NoStamp
<1>1. s \in Strokes /\ Before(doc[<<s, "Remove">>], doc[<<s, "Add">>]) /\ <<s, "Remove">> \in Slots
  BY DEF Visible, IsVisible, Slots, Kinds
<1>2. doc[<<s, "Remove">>] \in Mark
  BY <1>1, BoardType
<1>3. ~Before(doc[<<s, "Remove">>], NoStamp)
  BY <1>2, NoStampIsLeast DEF AtMost
<1> QED
  BY <1>1, <1>3

-----------------------------------------------------------------------------
(* Groups under an edit *)

\* Groups go on to be reversible.
LEMMA GroupsKept ==
  ASSUME ErasingInv, EntriesInv, DocKept
  PROVE  /\ erasing \in Reversible(doc') \cup {None}
         /\ Erasing \in Reversible(doc')
         /\ undo \in Seq(Entry(doc')) /\ redo \in Seq(Entry(doc'))
<1>1. Reversible(doc) \subseteq Reversible(doc')
  BY ReversibleStays DEF DocKept
<1>2. Entry(doc) \subseteq Entry(doc')
  BY <1>1 DEF Entry
<1>3. <<>> \in Reversible(doc')
  BY DEF Reversible
<1>4. undo \in Seq(Entry(doc')) /\ redo \in Seq(Entry(doc'))
  <2>1. undo \in Seq(Entry(doc)) /\ redo \in Seq(Entry(doc))
    BY DEF EntriesInv
  <2> QED
    BY <1>2, <2>1, WiderSeq
<1> QED
  BY <1>1, <1>3, <1>4 DEF ErasingInv, Erasing

LEMMA AppendedSeq ==
  ASSUME NEW S, NEW s \in Seq(S), NEW e \in S
  PROVE  Append(s, e) \in Seq(S) /\ Tail(Append(s, e)) \in Seq(S)
<1>1. Append(s, e) \in Seq(S) /\ Len(Append(s, e)) = Len(s) + 1
  OBVIOUS
<1>2. Append(s, e) # <<>>
  <2>1. Len(s) \in Nat /\ Len(Append(s, e)) # 0
    BY <1>1
  <2> QED
    BY <1>1, <2>1, EmptySeq
<1> QED
  BY <1>1, <1>2

LEMMA RecordedEntries ==
  ASSUME NEW b, undo \in Seq(Entry(b)), NEW group \in Entry(b), Record(group)
  PROVE  undo' \in Seq(Entry(b)) /\ redo' \in Seq(Entry(b))
<1>1. /\ Append(undo, group) \in Seq(Entry(b))
      /\ Tail(Append(undo, group)) \in Seq(Entry(b))
  BY AppendedSeq
<1> QED
  BY <1>1 DEF Record, Trimmed

LEMMA AppendReversible ==
  ASSUME NEW b, NEW group \in Reversible(b), NEW op \in Op, b[<<op.id, "Add">>] # NoStamp
  PROVE  Append(group, op) \in Entry(b)
<1>1. group \in Seq(Op) /\ \A i \in 1 .. Len(group) : b[<<group[i].id, "Add">>] # NoStamp
  BY DEF Reversible
<1> DEFINE g == Append(group, op)
<1>2. /\ g \in Seq(Op) /\ g # <<>> /\ Len(g) = Len(group) + 1
      /\ \A i \in 1 .. Len(group) : g[i] = group[i]
      /\ g[Len(group) + 1] = op
  <2> HIDE DEF Op
  <2> QED
    BY <1>1
<1> HIDE DEF g
<1>3. ASSUME NEW i \in 1 .. Len(g) PROVE b[<<g[i].id, "Add">>] # NoStamp
  <2>1. Len(group) \in Nat
    BY <1>1
  <2>2. i \in 1 .. Len(group) \/ i = Len(group) + 1
    BY <1>2, <2>1
  <2> QED
    BY <1>1, <1>2, <2>2
<1>4. g \in Entry(b)
  BY <1>2, <1>3 DEF Entry, Reversible
<1> QED
  BY <1>4 DEF g

-----------------------------------------------------------------------------
(* The edits *)

\* What is left to show of an action that leaves the eraser alone.
EntriesKept == DocKept /\ EntriesInv'

LEMMA TickOne ==
  ASSUME DocInv, Tick(1)
  PROVE  /\ clock' \in 0 .. MaxClock /\ clock <= clock' /\ clock \in Nat
         /\ Stamped(1) \in Stamp /\ Stamped(1).counter <= clock'
<1>1. clock \in Nat /\ MaxClock \in Nat /\ clock + 1 <= MaxClock /\ clock' = clock + 1
  BY HistoryAssumption DEF DocInv, Tick
<1>2. Stamped(1) \in Stamp /\ Stamped(1).counter = clock + 1
  BY <1>1, StampedType
<1> QED
  BY <1>1, <1>2

LEMMA CommitKept ==
  ASSUME HistInv, NEW s \in Strokes, CommitStroke(s) PROVE EntriesKept
<1> DEFINE op == [id |-> s, kind |-> "Add", ts |-> Stamped(1)]
<1>1. DocInv /\ Tick(1) /\ doc' = ApplyTo(doc, op) /\ Record(<<op>>)
  BY DEF HistInv, CommitStroke
<1>2. op \in Op /\ op.id = s /\ op.kind = "Add" /\ op.ts = Stamped(1)
  BY <1>1, TickOne DEF Op, Kinds
<1> HIDE DEF op
<1>3. DocKept /\ doc'[<<s, "Add">>] # NoStamp
  BY <1>1, <1>2, TickOne, ApplyKept
<1>4. <<op>> \in Entry(doc')
  <2>1. <<>> \in Reversible(doc') /\ Append(<<>>, op) = <<op>>
    BY DEF Reversible
  <2>2. Append(<<>>, op) \in Entry(doc')
    BY <1>2, <1>3, <2>1, AppendReversible
  <2> QED
    BY <2>1, <2>2
<1>5. undo \in Seq(Entry(doc'))
  BY <1>3, GroupsKept DEF HistInv
<1>6. undo' \in Seq(Entry(doc')) /\ redo' \in Seq(Entry(doc'))
  BY <1>1, <1>4, <1>5, RecordedEntries
<1> QED
  BY <1>3, <1>6 DEF EntriesKept, EntriesInv

LEMMA StillKept ==
  ASSUME HistInv, doc' = doc, clock' = clock, undo' = undo, redo' = redo PROVE EntriesKept
BY SameDoc DEF HistInv, EntriesKept, EntriesInv

LEMMA FinishTextKept ==
  ASSUME HistInv, NEW commit, FinishText(commit) PROVE EntriesKept
<1>1. CASE text # None /\ text.filled /\ commit
  <2>1. text.id \in Strokes
    BY <1>1 DEF HistInv, GestureInv
  <2> QED
    BY <1>1, <2>1, CommitKept DEF FinishText
<1>2. CASE ~(text # None /\ text.filled /\ commit)
  BY <1>2, StillKept DEF FinishText
<1> QED
  BY <1>1, <1>2

LEMMA FinishEraseKept ==
  ASSUME HistInv, FinishErase, doc' = doc, clock' = clock PROVE EntriesKept
<1>1. CASE Erasing = <<>>
  BY <1>1, StillKept DEF FinishErase, Forgotten
<1>2. CASE Erasing # <<>>
  <2>1. DocKept
    BY SameDoc DEF HistInv
  <2>2. Erasing \in Entry(doc') /\ undo \in Seq(Entry(doc'))
    BY <1>2, <2>1, GroupsKept DEF HistInv, Entry
  <2>3. Record(Erasing)
    BY <1>2 DEF FinishErase
  <2>4. undo' \in Seq(Entry(doc')) /\ redo' \in Seq(Entry(doc'))
    BY <2>2, <2>3, RecordedEntries
  <2> QED
    BY <2>1, <2>4 DEF EntriesKept, EntriesInv
<1> QED
  BY <1>1, <1>2

\* Removing a visible stroke.
LEMMA RemoveKept ==
  ASSUME HistInv, NEW s \in Visible(doc), Tick(1), doc' = ApplyTo(doc, RemoveOp(s))
  PROVE  /\ DocKept /\ s \in Strokes
         /\ \A group \in Reversible(doc') : Append(group, RemoveOp(s)) \in Entry(doc')
<1>1. s \in Strokes /\ doc[<<s, "Add">>] # NoStamp
  BY SeenWhenVisible DEF HistInv, DocInv
<1>2. RemoveOp(s) \in Op /\ RemoveOp(s).id = s /\ RemoveOp(s).ts = Stamped(1)
  BY TickOne, <1>1 DEF RemoveOp, Op, Kinds, HistInv
<1>3. DocKept
  BY <1>2, TickOne, ApplyKept DEF HistInv
<1>4. doc'[<<s, "Add">>] # NoStamp
  BY <1>1, <1>3 DEF DocKept, KeepsSeen, Slots, Kinds
<1> QED
  BY <1>1, <1>2, <1>3, <1>4, AppendReversible

LEMMA TouchKept ==
  ASSUME HistInv, NEW s \in Visible(doc), NEW group \in Reversible(doc) \cup {None},
         Touch(s, group), undo' = undo, redo' = redo
  PROVE  DocKept /\ ErasingInv' /\ EntriesInv' /\ foreign' \subseteq Strokes
<1>1. /\ DocKept /\ s \in Strokes
      /\ \A g \in Reversible(doc') : Append(g, RemoveOp(s)) \in Entry(doc')
  BY RemoveKept DEF Touch
<1>2. undo \in Seq(Entry(doc')) /\ redo \in Seq(Entry(doc'))
  BY <1>1, GroupsKept DEF HistInv
<1>3. Reversible(doc) \subseteq Reversible(doc')
  BY <1>1, ReversibleStays DEF DocKept
<1>4. foreign' \subseteq Strokes
  BY <1>1 DEF Touch, HistInv, GestureInv
<1>5. CASE group = None
  BY <1>1, <1>2, <1>4, <1>5 DEF Touch, ErasingInv, EntriesInv
<1>6. CASE group # None
  <2>1. erasing' = Append(group, RemoveOp(s)) /\ group \in Reversible(doc')
    BY <1>3, <1>6 DEF Touch
  <2>2. erasing' \in Reversible(doc')
    BY <1>1, <2>1 DEF Entry
  <2> QED
    BY <1>1, <1>2, <1>4, <2>2 DEF ErasingInv, EntriesInv
<1> QED
  BY <1>5, <1>6

LEMMA LastOfSeq ==
  ASSUME NEW S, NEW s \in Seq(S), s # <<>> PROVE Last(s) \in S
<1>1. Len(s) \in 1 .. Len(s)
  BY EmptySeq
<1> QED
  BY <1>1 DEF Last

\* The inverse of an entry is an entry, about the same strokes.
LEMMA TakeBackKept ==
  ASSUME HistInv, NEW group \in Entry(doc), TakeBack(group)
  PROVE  /\ DocKept /\ Invert(group) \in Entry(doc') /\ foreign' \subseteq Strokes
         /\ \A i \in 1 .. Len(group) :
              (\A j \in 1 .. i - 1 : group[j].id # group[i].id) =>
                (IsVisible(doc', group[i].id) <=> group[i].kind = "Remove")
<1> DEFINE n == Len(group)
           inv == Invert(group)
<1>1. doc \in Board /\ clock \in Nat /\ Ticked /\ MaxClock \in Nat
  BY HistoryAssumption DEF HistInv, DocInv
<1>2. group \in Reversible(doc) /\ group \in Seq(Op) /\ group # <<>> /\ n \in Nat \ {0}
  <2>1. group \in Reversible(doc) /\ group \in Seq(Op) /\ group # <<>>
    BY DEF Entry, Reversible
  <2> QED
    BY <2>1, EmptySeq
<1>3. doc' = Applied(inv) /\ clock' = clock + n /\ clock' \in 0 .. MaxClock
  BY <1>1, <1>2 DEF TakeBack, Tick
<1>4. /\ doc' \in Board /\ KeepsSeen(doc')
      /\ \A x \in Slots : doc'[x].counter <= clock + n
      /\ \A i \in 1 .. n :
           (\A j \in 1 .. i - 1 : group[j].id # group[i].id) =>
             (IsVisible(doc', group[i].id) <=> group[i].kind = "Remove")
  BY <1>1, <1>2, <1>3, TakenBack
<1>5. DocKept
  BY <1>3, <1>4 DEF DocKept, DocInv, Ticked
<1>6. /\ inv \in Seq(Op) /\ Len(inv) = n
      /\ \A i \in 1 .. n : inv[i] = Inverted(group[n + 1 - i], Stamped(i))
  BY <1>1, <1>2, InvertWhole
<1> HIDE DEF inv
<1>7. ASSUME NEW i \in 1 .. n PROVE doc'[<<inv[i].id, "Add">>] # NoStamp
  <2>1. n + 1 - i \in 1 .. n
    BY <1>2
  <2>2. /\ group[n + 1 - i] \in Op
        /\ doc[<<group[n + 1 - i].id, "Add">>] # NoStamp
    BY <1>2, <2>1 DEF Reversible
  <2>3. inv[i].id = group[n + 1 - i].id
    <3>1. Stamped(i) \in Stamp
      BY <1>1, <1>2, StampedType
    <3> QED
      BY <1>6, <2>2, <3>1, InvertedType
  <2>4. <<group[n + 1 - i].id, "Add">> \in Slots
    BY <2>2, OpShape
  <2> QED
    BY <1>4, <2>2, <2>3, <2>4 DEF KeepsSeen
<1>8. inv # <<>>
  BY <1>2, <1>6, EmptySeq
<1>9. inv \in Entry(doc')
  BY <1>6, <1>7, <1>8 DEF Entry, Reversible
<1>10. foreign' \subseteq Strokes
  <2>1. IdsOf(group) \subseteq Strokes
    <3>1. \A i \in DOMAIN group : group[i] \in Op
      BY <1>2
    <3> QED
      BY <3>1, OpShape DEF IdsOf
  <2> QED
    BY <2>1 DEF TakeBack, HistInv, GestureInv
<1> QED
  BY <1>4, <1>5, <1>9, <1>10 DEF inv

\* Undo and redo, from one stack to the other.
LEMMA MovesEntry ==
  ASSUME NEW b, NEW from \in Seq(Entry(b)), NEW to \in Seq(Entry(b)),
         NEW group \in Entry(b), from # <<>>
  PROVE  Front(from) \in Seq(Entry(b)) /\ Append(to, group) \in Seq(Entry(b))
BY FrontSeq, AppendedSeq

LEMMA UndoKept == ASSUME HistInv, Undo PROVE EntriesKept /\ foreign' \subseteq Strokes
<1>1. undo \in Seq(Entry(doc)) /\ undo # <<>>
  BY DEF Undo, HistInv, EntriesInv
<1>2. Last(undo) \in Entry(doc) /\ TakeBack(Last(undo))
  BY <1>1, LastOfSeq DEF Undo
<1>3. DocKept /\ Invert(Last(undo)) \in Entry(doc') /\ foreign' \subseteq Strokes
  BY <1>2, TakeBackKept
<1>4. undo \in Seq(Entry(doc')) /\ redo \in Seq(Entry(doc'))
  BY <1>3, GroupsKept DEF HistInv
<1>5. undo' \in Seq(Entry(doc')) /\ redo' \in Seq(Entry(doc'))
  BY <1>1, <1>3, <1>4, MovesEntry DEF Undo
<1> QED
  BY <1>3, <1>5 DEF EntriesKept, EntriesInv

LEMMA RedoKept == ASSUME HistInv, Redo PROVE EntriesKept /\ foreign' \subseteq Strokes
<1>1. redo \in Seq(Entry(doc)) /\ redo # <<>>
  BY DEF Redo, HistInv, EntriesInv
<1>2. Last(redo) \in Entry(doc) /\ TakeBack(Last(redo))
  BY <1>1, LastOfSeq DEF Redo
<1>3. DocKept /\ Invert(Last(redo)) \in Entry(doc') /\ foreign' \subseteq Strokes
  BY <1>2, TakeBackKept
<1>4. undo \in Seq(Entry(doc')) /\ redo \in Seq(Entry(doc'))
  BY <1>3, GroupsKept DEF HistInv
<1>5. redo' \in Seq(Entry(doc')) /\ undo' \in Seq(Entry(doc'))
  BY <1>1, <1>3, <1>4, MovesEntry DEF Redo
<1> QED
  BY <1>3, <1>5 DEF EntriesKept, EntriesInv

LEMMA ClearKept == ASSUME HistInv, ClearMine PROVE EntriesKept
<1> DEFINE n == Cardinality(Mine)
           clearing(list) == [i \in DOMAIN list |->
                                [id |-> list[i], kind |-> "Remove", ts |-> Stamped(i)]]
<1>0. doc \in Board /\ clock \in Nat /\ Ticked /\ MaxClock \in Nat
  BY HistoryAssumption DEF HistInv, DocInv
<1>1. n \in Nat \ {0}
  <2>1. Mine \subseteq Strokes /\ Mine # {}
    BY DEF Mine, Visible, ClearMine
  <2>2. IsFiniteSet(Mine)
    BY <2>1, HistoryAssumption, FS_Subset
  <2> QED
    BY <2>1, <2>2, FS_CardinalityType, FS_EmptySet
<1>2. PICK list \in [1 .. n -> Mine] :
         Tick(Len(clearing(list))) /\ doc' = Applied(clearing(list)) /\ Record(clearing(list))
  BY DEF ClearMine, MineInOrder
<1> DEFINE g == clearing(list)
<1>3. ASSUME NEW i \in 1 .. n
      PROVE  /\ g[i] \in Op /\ g[i].ts = Stamped(i)
             /\ g[i].id \in Strokes /\ doc[<<g[i].id, "Add">>] # NoStamp
  <2>1. list[i] \in Visible(doc) /\ DOMAIN list = 1 .. n
    BY DEF Mine
  <2>2. list[i] \in Strokes /\ doc[<<list[i], "Add">>] # NoStamp
    BY <1>0, <2>1, SeenWhenVisible
  <2>3. Stamped(i) \in Stamp
    BY <1>0, <1>1, StampedType
  <2>4. g[i] = [id |-> list[i], kind |-> "Remove", ts |-> Stamped(i)]
    BY <2>1
  <2> HIDE DEF g
  <2> QED
    BY <2>2, <2>3, <2>4 DEF Op, Kinds
<1>4. g \in Seq(Op) /\ Len(g) = n
  <2>1. g \in [1 .. n -> Op]
    <3>1. DOMAIN list = 1 .. n /\ g = [i \in 1 .. n |-> g[i]]
      OBVIOUS
    <3> HIDE DEF g
    <3> QED
      BY <1>3, <3>1
  <2> HIDE DEF g, n
  <2> QED
    BY <1>1, <2>1, FunctionIsSeq
<1> HIDE DEF g
<1>5. Tick(n) /\ doc' = Applied(g) /\ Record(g)
  BY <1>2, <1>4 DEF g
<1>6. FreshlyStamped(g)
  BY <1>3, <1>4 DEF FreshlyStamped
<1>7. doc' \in Board /\ Overwritten(g, n, doc')
  BY <1>0, <1>4, <1>5, <1>6, FreshOpsWin
<1>8. DocKept
  <2>1. clock' = clock + n /\ clock' \in 0 .. MaxClock
    BY <1>0, <1>1, <1>5 DEF Tick
  <2>2. KeepsSeen(doc')
    BY <1>7 DEF Overwritten, KeepsSeen
  <2>3. ASSUME NEW x \in Slots PROVE doc'[x].counter <= clock'
    <3>1. UpTo(g, n, x, n)
      BY <1>1 DEF UpTo
    <3> QED
      BY <1>1, <1>7, <2>1, <3>1 DEF Overwritten
  <2> QED
    BY <1>7, <2>1, <2>2, <2>3 DEF DocKept, DocInv, Ticked
<1>9. g \in Entry(doc')
  <2>1. ASSUME NEW i \in 1 .. n PROVE doc'[<<g[i].id, "Add">>] # NoStamp
    <3>1. <<g[i].id, "Add">> \in Slots
      BY <1>3 DEF Slots, Kinds
    <3> QED
      BY <1>3, <1>8, <3>1 DEF DocKept, KeepsSeen
  <2>2. g # <<>>
    BY <1>1, <1>4, EmptySeq
  <2> QED
    BY <1>4, <2>1, <2>2 DEF Entry, Reversible
<1>10. undo \in Seq(Entry(doc'))
  BY <1>8, GroupsKept DEF HistInv
<1>11. undo' \in Seq(Entry(doc')) /\ redo' \in Seq(Entry(doc'))
  BY <1>5, <1>9, <1>10, RecordedEntries
<1> QED
  BY <1>8, <1>11 DEF EntriesKept, EntriesInv

LEMMA ClickEraseKept == ASSUME HistInv, ClickErase PROVE EntriesKept
<1>1. PICK s \in Visible(doc) :
         /\ Tick(1) /\ doc' = ApplyTo(doc, RemoveOp(s))
         /\ Record(Append(Erasing, RemoveOp(s)))
  BY DEF ClickErase
<1>2. /\ DocKept
      /\ \A group \in Reversible(doc') : Append(group, RemoveOp(s)) \in Entry(doc')
  BY <1>1, RemoveKept
<1>3. Erasing \in Reversible(doc') /\ undo \in Seq(Entry(doc'))
  BY <1>2, GroupsKept DEF HistInv
<1>4. undo' \in Seq(Entry(doc')) /\ redo' \in Seq(Entry(doc'))
  BY <1>1, <1>2, <1>3, RecordedEntries
<1> QED
  BY <1>2, <1>4 DEF EntriesKept, EntriesInv

LEMMA RemoteKept == ASSUME HistInv, Remote PROVE EntriesKept /\ foreign' \subseteq Strokes
<1>1. PICK s \in Strokes, kind \in Kinds, c \in Clients, n \in 1 .. MaxClock :
         LET op == [id |-> s, kind |-> kind, ts |-> [counter |-> n, client |-> c]] IN
           /\ clock' = IF n > clock THEN n ELSE clock
           /\ doc' = ApplyTo(doc, op)
           /\ foreign' = IF Mentioned(s) /\ IsVisible(doc, s) # IsVisible(ApplyTo(doc, op), s)
                         THEN foreign \cup {s} ELSE foreign
  BY DEF Remote
<1> DEFINE op == [id |-> s, kind |-> kind, ts |-> [counter |-> n, client |-> c]]
<1>2. op \in Op /\ op.ts.counter = n
  BY HistoryAssumption DEF Op, Stamp
<1>3. doc' = ApplyTo(doc, op)
  BY <1>1
<1> HIDE DEF op
<1>4. clock \in 0 .. MaxClock /\ MaxClock \in Nat
  BY HistoryAssumption DEF HistInv, DocInv
<1>5. clock' \in 0 .. MaxClock /\ clock <= clock' /\ n <= clock'
  BY <1>1, <1>4
<1>6. DocKept
  BY <1>2, <1>3, <1>5, ApplyKept DEF HistInv
<1>7. undo \in Seq(Entry(doc')) /\ redo \in Seq(Entry(doc'))
  BY <1>6, GroupsKept DEF HistInv
<1>8. undo' = undo /\ redo' = redo
  BY DEF Remote
<1>9. foreign' \subseteq Strokes
  BY <1>1 DEF HistInv, GestureInv
<1> QED
  BY <1>6, <1>7, <1>8, <1>9 DEF EntriesKept, EntriesInv

-----------------------------------------------------------------------------
(* Types, whole entries and undo *)

LEMMA HistInit == Init => HistInv
<1> SUFFICES ASSUME Init PROVE HistInv
  OBVIOUS
<1>1. doc \in Board /\ Ticked
  BY EmptyType DEF Init, Ticked, Empty, NoStamp
<1>2. DocInv
  BY <1>1, HistoryAssumption DEF Init, DocInv
<1>3. GestureInv /\ ErasingInv
  BY DEF Init, GestureInv, ErasingInv, Tools
<1>4. EntriesInv
  BY DEF Init, EntriesInv
<1> QED
  BY <1>2, <1>3, <1>4 DEF HistInv

\* Actions that leave the eraser's group as it is.
LEMMA ErasingKept == ASSUME HistInv, EntriesKept, erasing' = erasing PROVE ErasingInv'
<1>1. erasing \in Reversible(doc') \cup {None}
  BY GroupsKept DEF EntriesKept, HistInv
<1> QED
  BY <1>1 DEF ErasingInv

LEMMA FreshType == \A s \in Fresh : s \in Strokes
BY DEF Fresh

LEMMA HistNext == HistInv /\ [Next]_vars => HistInv'
<1> SUFFICES ASSUME HistInv, [Next]_vars PROVE HistInv'
  OBVIOUS
<1> USE DEF gesture
<1>0. GestureInv
  BY DEF HistInv
<1>1. CASE StartDrawing
  <2>1. EntriesKept /\ erasing' = erasing
    BY <1>1, StillKept DEF StartDrawing
  <2>2. GestureInv'
    BY <1>0, <1>1, FreshType DEF StartDrawing, GestureInv
  <2> QED
    BY <2>1, <2>2, ErasingKept DEF HistInv, EntriesKept, DocKept
<1>2. CASE StopDrawing
  <2>1. EntriesKept
    BY <1>0, <1>2, CommitKept DEF StopDrawing, GestureInv
  <2>2. GestureInv' /\ erasing' = erasing
    BY <1>0, <1>2 DEF StopDrawing, GestureInv
  <2> QED
    BY <2>1, <2>2, ErasingKept DEF HistInv, EntriesKept, DocKept
<1>3. CASE DropDrawing
  <2>1. EntriesKept /\ erasing' = erasing
    BY <1>3, StillKept DEF DropDrawing
  <2>2. GestureInv'
    BY <1>0, <1>3 DEF DropDrawing, GestureInv
  <2> QED
    BY <2>1, <2>2, ErasingKept DEF HistInv, EntriesKept, DocKept
<1>4. CASE PlaceLabel
  <2>1. EntriesKept
    BY <1>4, FinishTextKept DEF PlaceLabel
  <2>2. GestureInv' /\ erasing' = erasing
    BY <1>0, <1>4, FreshType DEF PlaceLabel, GestureInv
  <2> QED
    BY <2>1, <2>2, ErasingKept DEF HistInv, EntriesKept, DocKept
<1>5. CASE Type
  <2>1. EntriesKept /\ erasing' = erasing
    BY <1>5, StillKept DEF Type
  <2>2. GestureInv'
    BY <1>0, <1>5 DEF Type, GestureInv
  <2> QED
    BY <2>1, <2>2, ErasingKept DEF HistInv, EntriesKept, DocKept
<1>6. CASE CloseEditor
  <2>1. EntriesKept
    BY <1>6, FinishTextKept DEF CloseEditor
  <2>2. GestureInv' /\ erasing' = erasing
    BY <1>0, <1>6 DEF CloseEditor, GestureInv
  <2> QED
    BY <2>1, <2>2, ErasingKept DEF HistInv, EntriesKept, DocKept
<1>7. CASE StartErasing
  <2>1. Erasing \in Reversible(doc)
    BY DEF HistInv, ErasingInv, Erasing, Reversible
  <2>2. CASE Miss(Erasing)
    <3>1. EntriesKept /\ Erasing = erasing' /\ foreign' = foreign
      BY <1>7, <2>2, StillKept DEF StartErasing, Miss
    <3>2. ErasingInv'
      BY <2>1, <2>2, <3>1 DEF ErasingInv, Miss
    <3>3. GestureInv'
      BY <1>0, <1>7, <3>1 DEF StartErasing, GestureInv
    <3> QED
      BY <3>1, <3>2, <3>3 DEF HistInv, EntriesKept, DocKept
  <2>3. CASE \E s \in Visible(doc) : Touch(s, Erasing)
    <3>1. DocKept /\ ErasingInv' /\ EntriesInv' /\ foreign' \subseteq Strokes
      BY <1>7, <2>1, <2>3, TouchKept DEF StartErasing
    <3>2. GestureInv'
      BY <1>0, <1>7, <3>1 DEF StartErasing, GestureInv
    <3> QED
      BY <3>1, <3>2 DEF HistInv, DocKept
  <2> QED
    BY <1>7, <2>2, <2>3 DEF StartErasing
<1>8. CASE Erase
  <2>1. DocKept /\ ErasingInv' /\ EntriesInv' /\ foreign' \subseteq Strokes
    BY <1>8, TouchKept DEF Erase, HistInv, ErasingInv
  <2>2. GestureInv'
    BY <1>0, <1>8, <2>1 DEF Erase, GestureInv
  <2> QED
    BY <2>1, <2>2 DEF HistInv, DocKept
<1>9. CASE StopErasing
  <2>1. EntriesKept
    BY <1>9, FinishEraseKept DEF StopErasing
  <2>2. GestureInv' /\ ErasingInv'
    BY <1>0, <1>9 DEF StopErasing, GestureInv, ErasingInv
  <2> QED
    BY <2>1, <2>2 DEF HistInv, EntriesKept, DocKept
<1>10. CASE ClickErase
  <2>1. EntriesKept
    BY <1>10, ClickEraseKept
  <2>2. GestureInv' /\ ErasingInv'
    BY <1>0, <1>10 DEF ClickErase, GestureInv, ErasingInv
  <2> QED
    BY <2>1, <2>2 DEF HistInv, EntriesKept, DocKept
<1>11. CASE SelectTool
  <2>1. EntriesKept
    BY <1>11, FinishTextKept, FinishEraseKept DEF SelectTool
  <2>2. GestureInv' /\ ErasingInv'
    BY <1>0, <1>11 DEF SelectTool, GestureInv, ErasingInv
  <2> QED
    BY <2>1, <2>2 DEF HistInv, EntriesKept, DocKept
<1>12. CASE Undo
  <2>1. EntriesKept /\ foreign' \subseteq Strokes
    BY <1>12, UndoKept
  <2>2. GestureInv' /\ erasing' = erasing
    BY <1>0, <1>12, <2>1 DEF Undo, TakeBack, GestureInv
  <2> QED
    BY <2>1, <2>2, ErasingKept DEF HistInv, EntriesKept, DocKept
<1>13. CASE Redo
  <2>1. EntriesKept /\ foreign' \subseteq Strokes
    BY <1>13, RedoKept
  <2>2. GestureInv' /\ erasing' = erasing
    BY <1>0, <1>13, <2>1 DEF Redo, TakeBack, GestureInv
  <2> QED
    BY <2>1, <2>2, ErasingKept DEF HistInv, EntriesKept, DocKept
<1>14. CASE ClearMine
  <2>1. EntriesKept
    BY <1>14, ClearKept
  <2>2. GestureInv' /\ erasing' = erasing
    BY <1>0, <1>14 DEF ClearMine, GestureInv
  <2> QED
    BY <2>1, <2>2, ErasingKept DEF HistInv, EntriesKept, DocKept
<1>15. CASE Remote
  <2>1. EntriesKept /\ foreign' \subseteq Strokes
    BY <1>15, RemoteKept
  <2>2. GestureInv' /\ erasing' = erasing
    BY <1>0, <1>15, <2>1 DEF Remote, GestureInv
  <2> QED
    BY <2>1, <2>2, ErasingKept DEF HistInv, EntriesKept, DocKept
<1>16. CASE UNCHANGED vars
  <2>1. EntriesKept /\ erasing' = erasing
    BY <1>16, StillKept DEF vars
  <2>2. GestureInv'
    BY <1>0, <1>16 DEF vars, GestureInv
  <2> QED
    BY <2>1, <2>2, ErasingKept DEF HistInv, EntriesKept, DocKept
<1> QED
  BY <1>1, <1>2, <1>3, <1>4, <1>5, <1>6, <1>7, <1>8, <1>9, <1>10, <1>11, <1>12, <1>13,
     <1>14, <1>15, <1>16 DEF Next

LEMMA HistAlways == Spec => []HistInv
BY HistInit, HistNext, PTL DEF Spec

LEMMA StackElements ==
  ASSUME HistInv, NEW group \in Range(undo) \cup Range(redo) PROVE group \in Entry(doc)
<1>1. undo \in Seq(Entry(doc)) /\ redo \in Seq(Entry(doc))
  BY DEF HistInv, EntriesInv
<1>2. \A i \in DOMAIN undo : undo[i] \in Entry(doc)
  BY <1>1
<1>3. \A i \in DOMAIN redo : redo[i] \in Entry(doc)
  BY <1>1
<1> QED
  BY <1>2, <1>3 DEF Range

\* Types: the stacks and the eraser's group hold ops, and no stamp in the
\* document or in a group has a counter beyond the clock's bound.
THEOREM HistoryTypes == Spec => []TypeOK
<1>1. ASSUME HistInv PROVE TypeOK
  <2>1. Erasing \in Seq(Op)
    BY <1>1 DEF HistInv, ErasingInv, Erasing, Reversible
  <2>2. \A group \in Range(undo) \cup Range(redo) : group \in Seq(Op)
    BY <1>1, StackElements DEF Entry, Reversible
  <2>3. \A group \in Groups : group \in Seq(Op)
    BY <2>1, <2>2 DEF Groups
  <2>4. ASSUME NEW group \in Groups, NEW i \in DOMAIN group PROVE group[i] \in Op
    BY <2>3
  <2> QED
    BY <1>1, <2>4 DEF HistInv, DocInv, GestureInv, TypeOK
<1> QED
  BY <1>1, HistAlways, PTL

\* invert never leaves an op out: whatever others have done to the strokes of
\* an entry, however often it went from one stack to the other, the document
\* holds an add of each of them.
THEOREM EntriesAlwaysWhole == Spec => []EntriesStayWhole
<1>1. ASSUME HistInv PROVE EntriesStayWhole
  <2> SUFFICES ASSUME NEW group \in Range(undo) \cup Range(redo)
               PROVE  group # <<>> /\ \A i \in DOMAIN group : CanInvert(doc, group[i])
    BY DEF EntriesStayWhole
  <2>1. group \in Seq(Op) /\ group # <<>> /\ \A i \in 1 .. Len(group) : doc[<<group[i].id, "Add">>] # NoStamp
    BY <1>1, StackElements DEF Entry, Reversible
  <2> QED
    BY <2>1 DEF CanInvert
<1> QED
  BY <1>1, HistAlways, PTL

\* Undo and redo put every stroke of an entry back to where the first op about
\* it found it, over whatever others have done to it since: the stamps of the
\* inverse are the newest in the document, in the right order.
THEOREM UndoAlwaysPrevails == Spec => UndoPrevails
<1>1. ASSUME HistInv, Undo \/ Redo
      PROVE  LET group == IF Undo THEN Last(undo) ELSE Last(redo) IN
               \A i \in DOMAIN group :
                 (\A j \in 1 .. i - 1 : group[j].id # group[i].id) =>
                   (IsVisible(doc', group[i].id) <=> group[i].kind = "Remove")
  <2> DEFINE group == IF Undo THEN Last(undo) ELSE Last(redo)
  <2>1. group \in Entry(doc) /\ TakeBack(group)
    <3>1. undo \in Seq(Entry(doc)) /\ redo \in Seq(Entry(doc))
      BY <1>1 DEF HistInv, EntriesInv
    <3>2. Undo => Last(undo) \in Entry(doc) /\ TakeBack(Last(undo))
      BY <3>1, LastOfSeq DEF Undo
    <3>3. Redo => Last(redo) \in Entry(doc) /\ TakeBack(Last(redo))
      BY <3>1, LastOfSeq DEF Redo
    <3> QED
      BY <1>1, <3>2, <3>3
  <2> HIDE DEF group
  <2>2. DOMAIN group = 1 .. Len(group)
    BY <2>1 DEF Entry, Reversible
  <2>3. \A i \in 1 .. Len(group) :
          (\A j \in 1 .. i - 1 : group[j].id # group[i].id) =>
            (IsVisible(doc', group[i].id) <=> group[i].kind = "Remove")
    BY <1>1, <2>1, TakeBackKept
  <2> QED
    BY <2>2, <2>3 DEF group
<1> QED
  BY <1>1, HistAlways, PTL DEF Spec, UndoPrevails

-----------------------------------------------------------------------------
(* The pictures a stack leads to.                                            *)

LEMMA RevertedType == ASSUME NEW p, NEW group PROVE Reverted(p, group) \in SUBSET Strokes
BY DEF Reverted

LEMMA PicturesAre ==
  ASSUME NEW p \in SUBSET Strokes, NEW stack, Len(stack) \in Nat
  PROVE  /\ Pictures(p, stack) \in [1 .. Len(stack) + 1 -> SUBSET Strokes]
         /\ Pictures(p, stack)[Len(stack) + 1] = p
         /\ \A i \in 1 .. Len(stack) :
              Pictures(p, stack)[i] = Reverted(Pictures(p, stack)[i + 1], stack[i])
<1> DEFINE n == Len(stack)
           A == SUBSET Strokes
           h == [q \in A \X (1 .. n) |-> Reverted(q[1], stack[n + 1 - q[2]])]
           E(f) == f = [i \in 1 .. n + 1 |-> IF i = n + 1 THEN p ELSE Reverted(f[i + 1], stack[i])]
           at == CHOOSE f : E(f)
<1>1. h \in [A \X (1 .. n) -> A]
  <2>1. \A q \in A \X (1 .. n) : Reverted(q[1], stack[n + 1 - q[2]]) \in A
    BY RevertedType
  <2> HIDE DEF A
  <2> QED
    BY <2>1
<1>2. PICK a \in [0 .. n -> A] : Steps(a, n, p, h)
  <2> HIDE DEF h
  <2> QED
    BY <1>1, StepsExist
<1>3. a[0] = p /\ \A k \in 1 .. n : a[k] = Reverted(a[k - 1], stack[n + 1 - k])
  <2>1. ASSUME NEW k \in 1 .. n PROVE a[k] = Reverted(a[k - 1], stack[n + 1 - k])
    <3>1. k - 1 \in 0 .. n
      OBVIOUS
    <3>2. a[k] = h[<<a[k - 1], k>>]
      BY <1>2 DEF Steps
    <3>3. <<a[k - 1], k>> \in A \X (1 .. n)
      BY <3>1
    <3> QED
      BY <3>2, <3>3
  <2> QED
    BY <1>2, <2>1 DEF Steps
<1> DEFINE w == [i \in 1 .. n + 1 |-> a[n + 1 - i]]
<1>4. E(w)
  <2>1. ASSUME NEW i \in 1 .. n + 1
        PROVE  w[i] = IF i = n + 1 THEN p ELSE Reverted(w[i + 1], stack[i])
    <3>1. CASE i = n + 1
      <4>1. w[i] = a[n + 1 - i] /\ n + 1 - i = 0
        BY <3>1
      <4> QED
        BY <1>3, <3>1, <4>1
    <3>2. CASE i # n + 1
      <4>1. n + 1 - i \in 1 .. n /\ i + 1 \in 1 .. n + 1 /\ n + 1 - (n + 1 - i) = i
            /\ (n + 1 - i) - 1 = n + 1 - (i + 1)
        BY <3>2
      <4>2. w[i] = a[n + 1 - i] /\ w[i + 1] = a[n + 1 - (i + 1)]
        BY <4>1
      <4>3. a[n + 1 - i] = Reverted(a[n + 1 - (i + 1)], stack[i])
        BY <1>3, <4>1
      <4> QED
        BY <3>2, <4>2, <4>3, Zenon
    <3> QED
      BY <3>1, <3>2
  <2>2. w = [i \in 1 .. n + 1 |-> w[i]]
    OBVIOUS
  <2> HIDE DEF w
  <2> QED
    BY <2>1, <2>2, Zenon
<1>5. E(at)
  BY <1>4, Zenon
<1>6. Pictures(p, stack) = at
  BY Zenon DEF Pictures
<1> HIDE DEF at
<1>7. \A i \in 1 .. n + 1 : at[i] = IF i = n + 1 THEN p ELSE Reverted(at[i + 1], stack[i])
  BY <1>5, Zenon
<1>8. at[n + 1] = p /\ \A i \in 1 .. n : at[i] = Reverted(at[i + 1], stack[i])
  <2>1. n + 1 \in 1 .. n + 1 /\ \A i \in 1 .. n : i \in 1 .. n + 1 /\ i # n + 1
    OBVIOUS
  <2> QED
    BY <1>7, <2>1, Zenon
<1>9. at \in [1 .. n + 1 -> A]
  <2>1. \A i \in 1 .. n + 1 : at[i] \in A
    BY <1>7, RevertedType
  <2>2. at = [i \in 1 .. n + 1 |-> IF i = n + 1 THEN p ELSE Reverted(at[i + 1], stack[i])]
    BY <1>5
  <2>3. DOMAIN at = 1 .. n + 1 /\ at = [i \in 1 .. n + 1 |-> at[i]]
    BY <2>2
  <2> QED
    BY <2>1, <2>3
<1> QED
  BY <1>6, <1>8, <1>9

LEMMA PicturesEnd ==
  ASSUME NEW p \in SUBSET Strokes, NEW stack, Len(stack) \in Nat
  PROVE  Pictures(p, stack)[Len(stack) + 1] = p
BY PicturesAre

LEMMA PicturesStep ==
  ASSUME NEW p \in SUBSET Strokes, NEW stack, Len(stack) \in Nat
  PROVE  \A i \in 1 .. Len(stack) :
           Pictures(p, stack)[i] = Reverted(Pictures(p, stack)[i + 1], stack[i])
BY PicturesAre

\* Two stacks that agree on their first m groups, up to a shift, and lead to s
\* before these alike, lead to s alike all along.
LEMMA LeadAlike ==
  ASSUME NEW p \in SUBSET Strokes, NEW stack, Len(stack) \in Nat,
         NEW q \in SUBSET Strokes, NEW other, Len(other) \in Nat,
         NEW m \in Nat, NEW d \in Nat, m <= Len(other), m + d <= Len(stack),
         \A i \in 1 .. m : other[i] = stack[i + d],
         NEW s,
         s \in Pictures(p, stack)[m + 1 + d] <=> s \in Pictures(q, other)[m + 1]
  PROVE  \A i \in 1 .. m + 1 : s \in Pictures(p, stack)[i + d] <=> s \in Pictures(q, other)[i]
<1> DEFINE a == Pictures(p, stack)
           b == Pictures(q, other)
           T == {k \in Nat : s \in a[m + 1 - k + d] <=> s \in b[m + 1 - k]}
<1>0. p \in SUBSET Strokes /\ Len(stack) \in Nat /\ q \in SUBSET Strokes /\ Len(other) \in Nat
  OBVIOUS
<1>1. \A i \in 1 .. Len(stack) : a[i] = Reverted(a[i + 1], stack[i])
  BY ONLY <1>0, PicturesStep
<1>2. \A i \in 1 .. Len(other) : b[i] = Reverted(b[i + 1], other[i])
  BY ONLY <1>0, PicturesStep
<1> HIDE DEF a, b
<1>3. 0 \in T
  <2>1. m + 1 - 0 = m + 1
    OBVIOUS
  <2> QED
    BY <2>1 DEF a, b
<1>4. ASSUME NEW k \in 1 .. m, k - 1 \in T PROVE k \in T
  <2>1. m + 1 - k \in 1 .. m
    OBVIOUS
  <2>2. PICK i \in 1 .. m : i = m + 1 - k
    BY <2>1
  <2>3. i \in 1 .. Len(other) /\ i + d \in 1 .. Len(stack) /\ i + 1 = m + 1 - (k - 1)
        /\ i + d + 1 = m + 1 - (k - 1) + d /\ i + d = m + 1 - k + d
    <3>1. i \in Nat /\ i >= 1 /\ i <= m /\ k \in Nat /\ i = m + 1 - k
      BY <2>2
    <3>2. i \in 1 .. Len(other)
      BY <1>0, <3>1
    <3>3. i + d \in 1 .. Len(stack)
      BY <1>0, <3>1
    <3>4. i + 1 = m + 1 - (k - 1) /\ i + d + 1 = m + 1 - (k - 1) + d /\ i + d = m + 1 - k + d
      BY <3>1
    <3> QED
      BY <3>2, <3>3, <3>4
  <2>4. s \in a[i + d + 1] <=> s \in b[i + 1]
    BY <1>4, <2>3
  <2>5. a[i + d] = Reverted(a[i + d + 1], stack[i + d]) /\ b[i] = Reverted(b[i + 1], other[i])
    BY <1>1, <1>2, <2>3
  <2>6. other[i] = stack[i + d]
    OBVIOUS
  <2>7. s \in a[i + d] <=> s \in b[i]
    BY <2>4, <2>5, <2>6 DEF Reverted
  <2> QED
    BY <2>2, <2>3, <2>7
<1>5. \A k \in 0 .. m : k \in T
  <2> HIDE DEF T
  <2> QED
    BY <1>3, <1>4, ListInduction
<1> SUFFICES ASSUME NEW i \in 1 .. m + 1 PROVE s \in a[i + d] <=> s \in b[i]
  BY DEF a, b
<1>6. m + 1 - i \in 0 .. m /\ m + 1 - (m + 1 - i) = i
  OBVIOUS
<1> QED
  BY <1>5, <1>6

\* A stroke no group is about.
LEMMA LeadsPast ==
  ASSUME NEW p \in SUBSET Strokes, NEW stack, Len(stack) \in Nat, NEW s \in Strokes,
         \A i \in 1 .. Len(stack) : s \notin IdsOf(stack[i])
  PROVE  \A i \in 1 .. Len(stack) + 1 : s \in Pictures(p, stack)[i] <=> s \in p
<1> DEFINE a == Pictures(p, stack)
           n == Len(stack)
           T == {k \in Nat : s \in a[n + 1 - k] <=> s \in p}
<1>1. a[n + 1] = p /\ \A i \in 1 .. n : a[i] = Reverted(a[i + 1], stack[i])
  BY PicturesAre
<1> HIDE DEF a
<1>2. 0 \in T
  <2>1. n + 1 - 0 = n + 1
    OBVIOUS
  <2> QED
    BY <1>1, <2>1
<1>3. ASSUME NEW k \in 1 .. n, k - 1 \in T PROVE k \in T
  <2>1. PICK i \in 1 .. n : i = n + 1 - k
    <3>1. n + 1 - k \in 1 .. n
      OBVIOUS
    <3> QED
      BY <3>1
  <2>2. i + 1 = n + 1 - (k - 1)
    BY <2>1
  <2>3. s \in a[i + 1] <=> s \in p
    BY <1>3, <2>2
  <2>4. s \notin IdsOf(stack[i]) /\ a[i] = Reverted(a[i + 1], stack[i])
    BY <1>1
  <2>5. s \in a[i] <=> s \in p
    BY <2>3, <2>4 DEF Reverted
  <2> QED
    BY <2>1, <2>5
<1>4. \A k \in 0 .. n : k \in T
  <2> HIDE DEF T, n
  <2>1. n \in Nat
    BY DEF n
  <2> QED
    BY <1>2, <1>3, <2>1, ListInduction
<1> SUFFICES ASSUME NEW i \in 1 .. n + 1 PROVE s \in a[i] <=> s \in p
  BY DEF a
<1>5. n + 1 - i \in 0 .. n /\ n + 1 - (n + 1 - i) = i
  OBVIOUS
<1> QED
  BY <1>4, <1>5

-----------------------------------------------------------------------------
(* Stacks and the picture.                                                    *)

\* Equal but for the strokes in h.
SameBut(h, a, b) == a \ h = b \ h

\* The picture after the ith group is the one its ops have made, f apart.
Linked(p, stack, f, i) ==
  \A k \in 1 .. Len(stack[i]) :
    stack[i][k].id \notin f =>
      (stack[i][k].id \in Pictures(p, stack)[i + 1] <=> stack[i][k].kind = "Add")

\* A stack in step with picture p, f apart.
Chained(p, stack, f) == \A i \in 1 .. Len(stack) : Linked(p, stack, f, i)

Lists == Seq(Seq(Op))

LEMMA GroupIds ==
  ASSUME NEW stack \in Lists, NEW i \in 1 .. Len(stack)
  PROVE  /\ stack[i] \in Seq(Op)
         /\ \A k \in 1 .. Len(stack[i]) : stack[i][k] \in Op /\ stack[i][k].id \in Strokes
<1>1. stack[i] \in Seq(Op)
  BY DEF Lists
<1>2. \A k \in 1 .. Len(stack[i]) : stack[i][k] \in Op
  BY <1>1
<1> QED
  BY <1>1, <1>2, OpShape

\* What agrees before some groups, agrees all along them.
LEMMA StillLinked ==
  ASSUME NEW p \in SUBSET Strokes, NEW stack \in Lists, NEW q \in SUBSET Strokes, NEW other \in Lists,
         NEW m \in Nat, NEW d \in Nat, m <= Len(other), m + d <= Len(stack),
         \A i \in 1 .. m : other[i] = stack[i + d],
         NEW f, NEW h, f \subseteq h,
         \A s \in Strokes \ h : s \in Pictures(p, stack)[m + 1 + d] <=> s \in Pictures(q, other)[m + 1]
  PROVE  /\ \A i \in 1 .. m + 1 : SameBut(h, Pictures(q, other)[i], Pictures(p, stack)[i + d])
         /\ Chained(p, stack, f) => \A i \in 1 .. m : Linked(q, other, h, i)
<1>0. Len(stack) \in Nat /\ Len(other) \in Nat
  BY DEF Lists
<1> DEFINE a == Pictures(p, stack)
           b == Pictures(q, other)
<1>1. ASSUME NEW s \in Strokes \ h, NEW i \in 1 .. m + 1 PROVE s \in a[i + d] <=> s \in b[i]
  BY <1>0, LeadAlike
<1>2. a \in [1 .. Len(stack) + 1 -> SUBSET Strokes] /\ b \in [1 .. Len(other) + 1 -> SUBSET Strokes]
  BY <1>0, PicturesAre
<1> HIDE DEF a, b
<1>3. ASSUME NEW i \in 1 .. m + 1 PROVE b[i] \ h = a[i + d] \ h
  <2>1. i \in 1 .. Len(other) + 1
    BY <1>0
  <2>2. i + d \in 1 .. Len(stack) + 1
    BY <1>0
  <2>3. b[i] \subseteq Strokes /\ a[i + d] \subseteq Strokes
    BY <1>2, <2>1, <2>2
  <2> QED
    BY <1>1, <2>3
<1>4. ASSUME Chained(p, stack, f), NEW i \in 1 .. m PROVE Linked(q, other, h, i)
  <2>1. i + d \in 1 .. Len(stack)
    BY <1>0
  <2>2. i \in 1 .. Len(other)
    BY <1>0
  <2>3. i + 1 \in 1 .. m + 1 /\ i + 1 + d = i + d + 1
    OBVIOUS
  <2>4. other[i] = stack[i + d]
    OBVIOUS
  <2>5. \A k \in 1 .. Len(other[i]) : other[i][k].id \in Strokes
    BY <2>2, GroupIds
  <2>6. \A k \in 1 .. Len(other[i]) :
          other[i][k].id \notin f => (other[i][k].id \in a[i + d + 1] <=> other[i][k].kind = "Add")
    BY <1>4, <2>1, <2>4 DEF Chained, Linked, a
  <2>7. \A s \in Strokes \ h : s \in a[i + d + 1] <=> s \in b[i + 1]
    BY <1>1, <2>3
  <2> QED
    BY <2>5, <2>6, <2>7 DEF Linked, b
<1> QED
  BY <1>3, <1>4 DEF a, b, SameBut

LEMMA StillAlike ==
  ASSUME NEW p \in SUBSET Strokes, NEW stack \in Lists, NEW q \in SUBSET Strokes, NEW other \in Lists,
         NEW m \in Nat, NEW d \in Nat, m <= Len(other), m + d <= Len(stack),
         \A i \in 1 .. m : other[i] = stack[i + d],
         NEW h,
         \A s \in Strokes \ h : s \in Pictures(p, stack)[m + 1 + d] <=> s \in Pictures(q, other)[m + 1]
  PROVE  \A i \in 1 .. m + 1 : SameBut(h, Pictures(q, other)[i], Pictures(p, stack)[i + d])
<1>1. h \subseteq h
  OBVIOUS
<1> QED
  BY <1>1, StillLinked

\* The stack stays, and the picture does outside of h.
LEMMA StackStays ==
  ASSUME NEW p \in SUBSET Strokes, NEW stack \in Lists, NEW q \in SUBSET Strokes,
         NEW f, NEW h, f \subseteq h, \A s \in Strokes \ h : s \in p <=> s \in q
  PROVE  /\ \A i \in 1 .. Len(stack) : SameBut(h, Pictures(q, stack)[i], Pictures(p, stack)[i])
         /\ Chained(p, stack, f) => Chained(q, stack, h)
<1> DEFINE m == Len(stack)
<1>0. m \in Nat /\ 0 \in Nat /\ m <= Len(stack) /\ m + 0 <= Len(stack)
  BY DEF Lists
<1>1. \A i \in 1 .. m : stack[i] = stack[i + 0]
  OBVIOUS
<1>2. Pictures(p, stack)[m + 1] = p /\ Pictures(q, stack)[m + 1] = q /\ m + 1 + 0 = m + 1
  <2>1. p \in SUBSET Strokes /\ q \in SUBSET Strokes /\ Len(stack) \in Nat
    BY <1>0
  <2>2. Pictures(p, stack)[Len(stack) + 1] = p
    BY ONLY <2>1, PicturesEnd
  <2>3. Pictures(q, stack)[Len(stack) + 1] = q
    BY ONLY <2>1, PicturesEnd
  <2> QED
    BY <1>0, <2>2, <2>3
<1>3. \A s \in Strokes \ h : s \in Pictures(p, stack)[m + 1 + 0] <=> s \in Pictures(q, stack)[m + 1]
  BY <1>2
<1> HIDE DEF m
<1>4. /\ \A i \in 1 .. m + 1 : SameBut(h, Pictures(q, stack)[i], Pictures(p, stack)[i + 0])
      /\ Chained(p, stack, f) => \A i \in 1 .. m : Linked(q, stack, h, i)
  BY <1>0, <1>1, <1>3, StillLinked
<1>5. \A i \in 1 .. m : i \in 1 .. m + 1 /\ i + 0 = i
  BY <1>0
<1>6. \A i \in 1 .. m : SameBut(h, Pictures(q, stack)[i], Pictures(p, stack)[i])
  BY <1>4, <1>5
<1> QED
  BY <1>4, <1>6 DEF Chained, m

\* A group is put on the stack, and leads back to the picture before.
LEMMA StackGrows ==
  ASSUME NEW p \in SUBSET Strokes, NEW stack \in Lists, NEW q \in SUBSET Strokes,
         NEW f, NEW h, f \subseteq h, NEW group \in Seq(Op),
         \A s \in Strokes \ h : s \in p <=> s \in Reverted(q, group),
         \A k \in 1 .. Len(group) :
           group[k].id \notin h => (group[k].id \in q <=> group[k].kind = "Add")
  PROVE  LET other == Append(stack, group) IN
           /\ other \in Lists /\ Len(other) = Len(stack) + 1
           /\ \A i \in 1 .. Len(stack) : SameBut(h, Pictures(q, other)[i], Pictures(p, stack)[i])
           /\ SameBut(h, Pictures(q, other)[Len(stack) + 1], p)
           /\ Chained(p, stack, f) => Chained(q, other, h)
<1> DEFINE m == Len(stack)
           other == Append(stack, group)
<1>0. m \in Nat /\ other \in Lists /\ Len(other) = m + 1 /\ other[m + 1] = group
      /\ \A i \in 1 .. m : other[i] = stack[i]
  BY DEF Lists
<1> HIDE DEF other
<1>1. /\ 0 \in Nat /\ m <= Len(other) /\ m + 0 <= Len(stack)
      /\ \A i \in 1 .. m : other[i] = stack[i + 0]
  BY <1>0
<1>2. Pictures(p, stack)[m + 1] = p
  BY <1>0, PicturesEnd
<1>3. Pictures(q, other)[m + 2] = q /\ Pictures(q, other)[m + 1] = Reverted(q, group)
  <2>1. /\ q \in SUBSET Strokes /\ Len(other) \in Nat /\ m + 1 \in 1 .. Len(other)
        /\ Len(other) + 1 = m + 2 /\ m + 1 + 1 = m + 2
    BY <1>0
  <2>2. Pictures(q, other)[Len(other) + 1] = q
    BY ONLY <2>1, PicturesEnd
  <2>3. \A i \in 1 .. Len(other) : Pictures(q, other)[i] = Reverted(Pictures(q, other)[i + 1], other[i])
    BY ONLY <2>1, PicturesStep
  <2>4. Pictures(q, other)[m + 1] = Reverted(Pictures(q, other)[m + 1 + 1], other[m + 1])
    BY <2>1, <2>3, Zenon
  <2> QED
    BY <1>0, <2>1, <2>2, <2>4
<1>4. \A s \in Strokes \ h : s \in Pictures(p, stack)[m + 1 + 0] <=> s \in Pictures(q, other)[m + 1]
  <2>1. m + 1 + 0 = m + 1
    BY <1>0
  <2> QED
    BY <1>2, <1>3, <2>1
<1> HIDE DEF m
<1>5. /\ \A i \in 1 .. m + 1 : SameBut(h, Pictures(q, other)[i], Pictures(p, stack)[i + 0])
      /\ Chained(p, stack, f) => \A i \in 1 .. m : Linked(q, other, h, i)
  BY <1>0, <1>1, <1>4, StillLinked
<1>6. \A i \in 1 .. m + 1 : i + 0 = i
  BY <1>0
<1>7. \A i \in 1 .. m + 1 : SameBut(h, Pictures(q, other)[i], Pictures(p, stack)[i])
  BY <1>5, <1>6
<1>8. Linked(q, other, h, m + 1)
  <2>1. m + 1 + 1 = m + 2
    BY <1>0
  <2> QED
    BY <1>0, <1>3, <2>1 DEF Linked
<1>9. Chained(p, stack, f) => Chained(q, other, h)
  <2>1. \A i \in 1 .. Len(other) : i \in 1 .. m \/ i = m + 1
    BY <1>0
  <2> QED
    BY <1>5, <1>8, <2>1 DEF Chained
<1>10. m + 1 \in 1 .. m + 1 /\ \A i \in 1 .. m : i \in 1 .. m + 1
  BY <1>0
<1>11. SameBut(h, Pictures(q, other)[m + 1], p)
  BY <1>2, <1>7, <1>10
<1> QED
  BY <1>0, <1>7, <1>9, <1>10, <1>11 DEF m, other

\* A group is taken off the stack, and the picture is the one it leads to.
LEMMA StackShrinks ==
  ASSUME NEW p \in SUBSET Strokes, NEW stack \in Lists, stack # <<>>, NEW q \in SUBSET Strokes,
         NEW f, NEW h, f \subseteq h,
         \A s \in Strokes \ h : s \in Reverted(p, Last(stack)) <=> s \in q
  PROVE  LET other == Front(stack) IN
           /\ other \in Lists /\ Len(other) = Len(stack) - 1
           /\ \A i \in 1 .. Len(other) : SameBut(h, Pictures(q, other)[i], Pictures(p, stack)[i])
           /\ Chained(p, stack, f) => Chained(q, other, h)
<1> DEFINE m == Len(stack) - 1
           other == Front(stack)
<1>0. Len(stack) \in Nat \ {0}
  <2>1. stack \in Seq(Seq(Op))
    BY DEF Lists
  <2> QED
    BY <2>1, EmptySeq
<1>1. m \in Nat /\ other \in Lists /\ Len(other) = m /\ Len(stack) = m + 1
      /\ \A i \in 1 .. m : other[i] = stack[i]
  <2>1. stack \in Seq(Seq(Op)) /\ other \in Seq(Seq(Op)) /\ Len(other) = Len(stack) - 1
    BY FrontSeq DEF Lists
  <2>2. \A i \in 1 .. m : other[i] = stack[i]
    BY <1>0, <2>1 DEF Front
  <2> QED
    BY <1>0, <2>1, <2>2 DEF Lists
<1> HIDE DEF other, m
<1>2. /\ 0 \in Nat /\ m <= Len(other) /\ m + 0 <= Len(stack)
      /\ \A i \in 1 .. m : other[i] = stack[i + 0]
  BY <1>1
<1>3. Pictures(q, other)[m + 1] = q
  BY <1>1, PicturesEnd
<1>4. Pictures(p, stack)[m + 1] = Reverted(p, Last(stack))
  <2>1. p \in SUBSET Strokes /\ Len(stack) \in Nat /\ m + 1 \in 1 .. Len(stack)
    BY <1>1
  <2>2. Pictures(p, stack)[Len(stack) + 1] = p
    BY ONLY <2>1, PicturesEnd
  <2>3. \A i \in 1 .. Len(stack) : Pictures(p, stack)[i] = Reverted(Pictures(p, stack)[i + 1], stack[i])
    BY ONLY <2>1, PicturesStep
  <2>4. Pictures(p, stack)[m + 1] = Reverted(Pictures(p, stack)[m + 1 + 1], stack[m + 1])
    BY <2>1, <2>3, Zenon
  <2> QED
    BY <1>1, <2>2, <2>4 DEF Last
<1>5. \A s \in Strokes \ h : s \in Pictures(p, stack)[m + 1 + 0] <=> s \in Pictures(q, other)[m + 1]
  <2>1. m + 1 + 0 = m + 1
    BY <1>1
  <2> QED
    BY <1>3, <1>4, <2>1
<1>6. /\ \A i \in 1 .. m + 1 : SameBut(h, Pictures(q, other)[i], Pictures(p, stack)[i + 0])
      /\ Chained(p, stack, f) => \A i \in 1 .. m : Linked(q, other, h, i)
  <2>1. p \in SUBSET Strokes /\ stack \in Lists /\ q \in SUBSET Strokes /\ f \subseteq h
    OBVIOUS
  <2>2. m \in Nat /\ other \in Lists
    BY <1>1
  <2>3. \A i \in 1 .. m + 1 : SameBut(h, Pictures(q, other)[i], Pictures(p, stack)[i + 0])
    BY ONLY <1>2, <1>5, <2>1, <2>2, StillAlike
  <2>4. Chained(p, stack, f) => \A i \in 1 .. m : Linked(q, other, h, i)
    BY ONLY <1>2, <1>5, <2>1, <2>2, StillLinked
  <2> QED
    BY <2>3, <2>4
<1>7. \A i \in 1 .. m : i \in 1 .. m + 1 /\ i + 0 = i
  BY <1>1
<1>8. \A i \in 1 .. m : SameBut(h, Pictures(q, other)[i], Pictures(p, stack)[i])
  BY <1>6, <1>7
<1>9. Chained(p, stack, f) => Chained(q, other, h)
  BY <1>1, <1>6 DEF Chained
<1> QED
  BY <1>1, <1>8, <1>9 DEF m, other

\* The oldest group is forgotten.
LEMMA StackForgets ==
  ASSUME NEW p \in SUBSET Strokes, NEW stack \in Lists, stack # <<>>, NEW f
  PROVE  LET other == Tail(stack) IN
           /\ other \in Lists /\ Len(other) = Len(stack) - 1
           /\ \A i \in 1 .. Len(other) : SameBut(f, Pictures(p, other)[i], Pictures(p, stack)[i + 1])
           /\ Chained(p, stack, f) => Chained(p, other, f)
<1> DEFINE m == Len(stack) - 1
           other == Tail(stack)
<1>0. Len(stack) \in Nat \ {0}
  <2>1. stack \in Seq(Seq(Op))
    BY DEF Lists
  <2> QED
    BY <2>1, EmptySeq
<1>1. m \in Nat /\ other \in Lists /\ Len(other) = m /\ Len(stack) = m + 1
      /\ \A i \in 1 .. m : other[i] = stack[i + 1]
  BY <1>0 DEF Lists
<1> HIDE DEF other, m
<1>2. 1 \in Nat /\ m <= Len(other) /\ m + 1 <= Len(stack)
  BY <1>1
<1>3. Pictures(p, other)[m + 1] = p
  BY <1>1, PicturesEnd
<1>4. Pictures(p, stack)[m + 1 + 1] = p
  <2>1. Len(stack) \in Nat
    BY <1>1
  <2>2. Pictures(p, stack)[Len(stack) + 1] = p
    BY <2>1, PicturesEnd
  <2> QED
    BY <1>1, <2>2
<1>5. \A s \in Strokes \ f : s \in Pictures(p, stack)[m + 1 + 1] <=> s \in Pictures(p, other)[m + 1]
  BY <1>3, <1>4
<1>6. /\ \A i \in 1 .. m + 1 : SameBut(f, Pictures(p, other)[i], Pictures(p, stack)[i + 1])
      /\ Chained(p, stack, f) => \A i \in 1 .. m : Linked(p, other, f, i)
  <2>1. p \in SUBSET Strokes /\ stack \in Lists /\ f \subseteq f
    OBVIOUS
  <2>2. m \in Nat /\ other \in Lists /\ \A i \in 1 .. m : other[i] = stack[i + 1]
    BY <1>1
  <2>3. \A i \in 1 .. m + 1 : SameBut(f, Pictures(p, other)[i], Pictures(p, stack)[i + 1])
    BY ONLY <1>2, <1>5, <2>1, <2>2, StillAlike
  <2>4. Chained(p, stack, f) => \A i \in 1 .. m : Linked(p, other, f, i)
    BY ONLY <1>2, <1>5, <2>1, <2>2, StillLinked
  <2> QED
    BY <2>3, <2>4
<1>7. \A i \in 1 .. m : i \in 1 .. m + 1
  BY <1>1
<1>8. \A i \in 1 .. m : SameBut(f, Pictures(p, other)[i], Pictures(p, stack)[i + 1])
  BY <1>6, <1>7
<1>9. Chained(p, stack, f) => Chained(p, other, f)
  BY <1>1, <1>6 DEF Chained
<1> QED
  BY <1>1, <1>8, <1>9 DEF m, other

-----------------------------------------------------------------------------
(* The log a stack stands for, when picture p is on the screen and f is       *)
(* foreign.                                                                   *)

View(p, stack, f) == [i \in 1 .. Len(stack) |-> Pictures(p, stack)[i] \ f]

LEMMA ViewAt ==
  ASSUME NEW p, NEW stack, NEW f, NEW i \in 1 .. Len(stack)
  PROVE  View(p, stack, f)[i] = Pictures(p, stack)[i] \ f
BY DEF View

LEMMA ViewType ==
  ASSUME NEW p \in SUBSET Strokes, NEW stack \in Lists, NEW f
  PROVE  /\ View(p, stack, f) \in Seq(SUBSET Strokes)
         /\ Len(View(p, stack, f)) = Len(stack) /\ DOMAIN View(p, stack, f) = 1 .. Len(stack)
<1>1. Len(stack) \in Nat
  BY DEF Lists
<1>2. Pictures(p, stack) \in [1 .. Len(stack) + 1 -> SUBSET Strokes]
  BY <1>1, PicturesAre
<1>3. \A i \in 1 .. Len(stack) : Pictures(p, stack)[i] \ f \in SUBSET Strokes
  <2>1. \A i \in 1 .. Len(stack) : i \in 1 .. Len(stack) + 1
    BY <1>1
  <2> QED
    BY <1>2, <2>1
<1>4. View(p, stack, f) \in [1 .. Len(stack) -> SUBSET Strokes]
  BY <1>3 DEF View
<1> QED
  BY <1>1, <1>4, FunctionIsSeq

LEMMA ViewWithout ==
  ASSUME NEW q \in SUBSET Strokes, NEW other \in Lists, NEW h, NEW c,
         NEW log \in Seq(SUBSET Strokes), Len(log) = Len(other),
         \A i \in 1 .. Len(other) : Pictures(q, other)[i] \ h = log[i] \ c
  PROVE  View(q, other, h) = Log!Without(log, c)
<1>1. DOMAIN log = 1 .. Len(other)
  OBVIOUS
<1> QED
  BY <1>1 DEF View, Log!Without

LEMMA WithoutNothing ==
  ASSUME NEW log \in Seq(SUBSET Strokes) PROVE Log!Without(log, {}) = log
<1>1. \A i \in DOMAIN log : log[i] \ {} = log[i]
  OBVIOUS
<1>2. log = [i \in DOMAIN log |-> log[i]]
  OBVIOUS
<1> QED
  BY <1>1, <1>2 DEF Log!Without

\* The stack stays, and the picture does but for c, which is foreign from now on.
LEMMA ViewStays ==
  ASSUME NEW p \in SUBSET Strokes, NEW stack \in Lists, NEW q \in SUBSET Strokes,
         NEW f, NEW c, \A s \in Strokes \ (f \cup c) : s \in p <=> s \in q
  PROVE  /\ View(q, stack, f \cup c) = Log!Without(View(p, stack, f), c)
         /\ Chained(p, stack, f) => Chained(q, stack, f \cup c)
<1> DEFINE h == f \cup c
           log == View(p, stack, f)
<1>1. f \subseteq h /\ \A s \in Strokes \ h : s \in p <=> s \in q
  OBVIOUS
<1> HIDE DEF h
<1>2. /\ \A i \in 1 .. Len(stack) : SameBut(h, Pictures(q, stack)[i], Pictures(p, stack)[i])
      /\ Chained(p, stack, f) => Chained(q, stack, h)
  BY <1>1, StackStays
<1>3. /\ log \in Seq(SUBSET Strokes) /\ Len(log) = Len(stack)
      /\ \A i \in 1 .. Len(stack) : log[i] = Pictures(p, stack)[i] \ f
  BY ViewType, ViewAt
<1> HIDE DEF log
<1>4. \A i \in 1 .. Len(stack) : Pictures(q, stack)[i] \ h = log[i] \ c
  BY <1>2, <1>3 DEF SameBut, h
<1>5. View(q, stack, h) = Log!Without(log, c)
  BY <1>3, <1>4, ViewWithout
<1> QED
  BY <1>2, <1>5 DEF log, h

LEMMA ViewSame ==
  ASSUME NEW p \in SUBSET Strokes, NEW stack \in Lists, NEW q \in SUBSET Strokes,
         NEW f, \A s \in Strokes \ f : s \in p <=> s \in q
  PROVE  /\ View(q, stack, f) = View(p, stack, f)
         /\ Chained(p, stack, f) => Chained(q, stack, f)
<1> DEFINE log == View(p, stack, f)
<1>1. f \cup {} = f
  OBVIOUS
<1>2. /\ View(q, stack, f \cup {}) = Log!Without(log, {})
      /\ Chained(p, stack, f) => Chained(q, stack, f \cup {})
  BY <1>1, ViewStays
<1>3. Log!Without(log, {}) = log
  <2>1. log \in Seq(SUBSET Strokes)
    BY ViewType
  <2> HIDE DEF log
  <2> QED
    BY <2>1, WithoutNothing
<1> QED
  BY <1>1, <1>2, <1>3

\* A group is put on the stack that leads back to the picture before.
LEMMA ViewGrows ==
  ASSUME NEW p \in SUBSET Strokes, NEW stack \in Lists, NEW q \in SUBSET Strokes,
         NEW f, NEW c, NEW group \in Seq(Op),
         \A s \in Strokes \ (f \cup c) : s \in p <=> s \in Reverted(q, group),
         \A k \in 1 .. Len(group) :
           group[k].id \notin f \cup c => (group[k].id \in q <=> group[k].kind = "Add")
  PROVE  /\ Append(stack, group) \in Lists
         /\ View(q, Append(stack, group), f \cup c) = Log!Without(Append(View(p, stack, f), p \ f), c)
         /\ Chained(p, stack, f) => Chained(q, Append(stack, group), f \cup c)
<1> DEFINE h == f \cup c
           v == View(p, stack, f)
           log == Append(v, p \ f)
           other == Append(stack, group)
           n == Len(stack)
<1>1. /\ f \subseteq h
      /\ \A s \in Strokes \ h : s \in p <=> s \in Reverted(q, group)
      /\ \A k \in 1 .. Len(group) :
           group[k].id \notin h => (group[k].id \in q <=> group[k].kind = "Add")
  OBVIOUS
<1> HIDE DEF h
<1>2. /\ other \in Lists /\ Len(other) = n + 1
      /\ \A i \in 1 .. n : SameBut(h, Pictures(q, other)[i], Pictures(p, stack)[i])
      /\ SameBut(h, Pictures(q, other)[n + 1], p)
      /\ Chained(p, stack, f) => Chained(q, other, h)
  BY <1>1, StackGrows
<1>3. /\ v \in Seq(SUBSET Strokes) /\ Len(v) = n
      /\ \A i \in 1 .. n : v[i] = Pictures(p, stack)[i] \ f
  BY ViewType, ViewAt
<1> HIDE DEF v, other
<1>4. n \in Nat
  BY DEF Lists
<1> HIDE DEF n
<1>5. /\ log \in Seq(SUBSET Strokes) /\ Len(log) = n + 1
      /\ log[n + 1] = p \ f
      /\ \A i \in 1 .. n : log[i] = v[i]
  BY <1>3, <1>4
<1> HIDE DEF log
<1>6. ASSUME NEW i \in 1 .. Len(other) PROVE Pictures(q, other)[i] \ h = log[i] \ c
  <2>1. i \in 1 .. n \/ i = n + 1
    BY <1>2, <1>4
  <2> QED
    BY <1>2, <1>3, <1>5, <2>1 DEF SameBut, h
<1>7. View(q, other, h) = Log!Without(log, c)
  BY <1>2, <1>5, <1>6, ViewWithout
<1> QED
  BY <1>2, <1>7 DEF log, h, v, other

\* The last group is taken off, and the picture is the one it leads to.
LEMMA ViewShrinks ==
  ASSUME NEW p \in SUBSET Strokes, NEW stack \in Lists, stack # <<>>, NEW q \in SUBSET Strokes,
         NEW f, NEW c,
         \A s \in Strokes \ (f \cup c) : s \in Reverted(p, Last(stack)) <=> s \in q
  PROVE  /\ Front(stack) \in Lists
         /\ View(q, Front(stack), f \cup c) = Log!Without(Front(View(p, stack, f)), c)
         /\ Last(View(p, stack, f)) = Reverted(p, Last(stack)) \ f
         /\ Chained(p, stack, f) => Chained(q, Front(stack), f \cup c)
<1> DEFINE h == f \cup c
           v == View(p, stack, f)
           log == Front(v)
           other == Front(stack)
           n == Len(stack)
<1>1. f \subseteq h /\ \A s \in Strokes \ h : s \in Reverted(p, Last(stack)) <=> s \in q
  OBVIOUS
<1> HIDE DEF h
<1>2. /\ other \in Lists /\ Len(other) = n - 1
      /\ \A i \in 1 .. Len(other) : SameBut(h, Pictures(q, other)[i], Pictures(p, stack)[i])
      /\ Chained(p, stack, f) => Chained(q, other, h)
  BY <1>1, StackShrinks
<1>3. /\ v \in Seq(SUBSET Strokes) /\ Len(v) = n
      /\ \A i \in 1 .. n : v[i] = Pictures(p, stack)[i] \ f
  BY ViewType, ViewAt
<1>4. n \in Nat \ {0}
  <2>1. stack \in Seq(Seq(Op))
    BY DEF Lists
  <2> QED
    BY <2>1, EmptySeq
<1>5. Pictures(p, stack)[n] = Reverted(p, Last(stack))
  <2>1. p \in SUBSET Strokes /\ Len(stack) \in Nat /\ n \in 1 .. n
    BY <1>4
  <2>2. Pictures(p, stack)[n + 1] = p
    BY ONLY <2>1, PicturesEnd
  <2>3. \A i \in 1 .. n : Pictures(p, stack)[i] = Reverted(Pictures(p, stack)[i + 1], stack[i])
    BY ONLY <2>1, PicturesStep
  <2>4. Pictures(p, stack)[n] = Reverted(Pictures(p, stack)[n + 1], stack[n])
    BY <2>1, <2>3, Zenon
  <2> QED
    BY <2>2, <2>4 DEF Last
<1> HIDE DEF v, other, n
<1>6. /\ log \in Seq(SUBSET Strokes) /\ Len(log) = n - 1
      /\ \A i \in 1 .. n - 1 : log[i] = v[i]
  <2>1. v # <<>>
    BY <1>3, <1>4
  <2>2. log \in Seq(SUBSET Strokes) /\ Len(log) = n - 1
    BY <1>3, <2>1, FrontSeq
  <2> QED
    BY <1>3, <1>4, <2>2 DEF Front
<1> HIDE DEF log
<1>7. ASSUME NEW i \in 1 .. Len(other) PROVE Pictures(q, other)[i] \ h = log[i] \ c
  <2>1. i \in 1 .. n - 1 /\ i \in 1 .. n
    BY <1>2, <1>4
  <2> QED
    BY <1>2, <1>3, <1>6, <2>1 DEF SameBut, h
<1>8. View(q, other, h) = Log!Without(log, c)
  BY <1>2, <1>6, <1>7, ViewWithout
<1>9. Last(v) = Reverted(p, Last(stack)) \ f
  <2>1. n \in 1 .. n
    BY <1>4
  <2> QED
    BY <1>3, <1>5, <2>1 DEF Last
<1> QED
  BY <1>2, <1>8, <1>9 DEF log, h, v, other

\* A group is recorded, and the oldest may be forgotten for it.
LEMMA ViewRecords ==
  ASSUME NEW p \in SUBSET Strokes, NEW stack \in Lists, NEW q \in SUBSET Strokes,
         NEW f, NEW group \in Seq(Op),
         \A s \in Strokes \ f : s \in p <=> s \in Reverted(q, group),
         \A k \in 1 .. Len(group) :
           group[k].id \notin f => (group[k].id \in q <=> group[k].kind = "Add")
  PROVE  /\ Trimmed(Append(stack, group)) \in Lists
         /\ View(q, Trimmed(Append(stack, group)), f) = Log!Newest(Append(View(p, stack, f), p \ f))
         /\ Chained(p, stack, f) => Chained(q, Trimmed(Append(stack, group)), f)
<1> DEFINE v == View(p, stack, f)
           log == Append(v, p \ f)
           other == Append(stack, group)
           n == Len(stack)
<1>1. /\ v \in Seq(SUBSET Strokes) /\ Len(v) = n /\ p \ f \in SUBSET Strokes /\ n \in Nat
  <2>1. v \in Seq(SUBSET Strokes) /\ Len(v) = n
    BY ViewType
  <2>2. n \in Nat
    BY DEF Lists
  <2> QED
    BY <2>1, <2>2
<1>2. log \in Seq(SUBSET Strokes) /\ Len(log) = n + 1
  <2> HIDE DEF v, n
  <2> QED
    BY <1>1
<1>3. /\ other \in Lists
      /\ View(q, other, f) = log
      /\ Chained(p, stack, f) => Chained(q, other, f)
  <2>1. f \cup {} = f
    OBVIOUS
  <2>2. /\ other \in Lists
        /\ View(q, other, f \cup {}) = Log!Without(log, {})
        /\ Chained(p, stack, f) => Chained(q, other, f \cup {})
    BY <2>1, ViewGrows
  <2> HIDE DEF log
  <2>3. Log!Without(log, {}) = log
    BY <1>2, WithoutNothing
  <2> QED
    BY <2>1, <2>2, <2>3
<1>4. Len(other) = n + 1 /\ other # <<>>
  BY DEF Lists
<1> HIDE DEF other, n
<1>5. Len(other) - 1 = n
  BY <1>1, <1>4
<1>6. CASE Len(other) > MaxHistory
  <2>1. Trimmed(other) = Tail(other) /\ Log!Newest(log) = Tail(log)
    BY <1>2, <1>4, <1>6 DEF Trimmed, Log!Newest
  <2> HIDE DEF log
  <2> DEFINE rest == Tail(other)
  <2>2. /\ rest \in Lists /\ Len(rest) = n
        /\ \A i \in 1 .. Len(rest) : SameBut(f, Pictures(q, rest)[i], Pictures(q, other)[i + 1])
        /\ Chained(q, other, f) => Chained(q, rest, f)
    BY <1>3, <1>4, <1>5, StackForgets
  <2> HIDE DEF rest
  <2>3. /\ View(q, rest, f) \in Seq(SUBSET Strokes) /\ Len(View(q, rest, f)) = n
        /\ \A i \in 1 .. n : View(q, rest, f)[i] = Pictures(q, rest)[i] \ f
    BY <2>2, ViewType, ViewAt
  <2>4. \A i \in 1 .. n + 1 : log[i] = Pictures(q, other)[i] \ f
    BY <1>3, <1>4, ViewAt
  <2>5. /\ Tail(log) \in Seq(SUBSET Strokes) /\ Len(Tail(log)) = n
        /\ \A i \in 1 .. n : Tail(log)[i] = log[i + 1]
    BY <1>1, <1>2
  <2>6. ASSUME NEW i \in 1 .. n PROVE View(q, rest, f)[i] = Tail(log)[i]
    <3>1. i + 1 \in 1 .. n + 1
      BY <1>1
    <3> QED
      BY <2>2, <2>3, <2>4, <2>5, <3>1 DEF SameBut
  <2>7. View(q, rest, f) = Tail(log)
    BY <2>3, <2>5, <2>6, SeqEqual
  <2> QED
    BY <1>3, <2>1, <2>2, <2>7 DEF rest, other, log, v
<1>7. CASE ~(Len(other) > MaxHistory)
  <2>1. Trimmed(other) = other /\ Log!Newest(log) = log
    BY <1>2, <1>4, <1>7 DEF Trimmed, Log!Newest
  <2> QED
    BY <1>3, <2>1 DEF other
<1> QED
  BY <1>6, <1>7

\* A stroke of which the stack says nothing comes or goes.
LEMMA ViewFlips ==
  ASSUME NEW p \in SUBSET Strokes, NEW stack \in Lists, NEW q \in SUBSET Strokes,
         NEW f, NEW s \in Strokes \ f, \A i \in 1 .. Len(stack) : s \notin IdsOf(stack[i]),
         \A t \in Strokes \ f : t # s => (t \in p <=> t \in q),
         s \in p <=> s \notin q
  PROVE  /\ View(q, stack, f) = Log!AllFlipped(View(p, stack, f), s)
         /\ Chained(p, stack, f) => Chained(q, stack, f)
<1> DEFINE h == f \cup {s}
           n == Len(stack)
<1>0. n \in Nat
  BY DEF Lists
<1>1. f \subseteq h /\ \A t \in Strokes \ h : t \in p <=> t \in q
  OBVIOUS
<1> HIDE DEF h
<1>2. /\ \A i \in 1 .. n : SameBut(h, Pictures(q, stack)[i], Pictures(p, stack)[i])
      /\ Chained(p, stack, f) => Chained(q, stack, h)
  BY <1>1, StackStays
<1>3. \A i \in 1 .. n + 1 : s \in Pictures(p, stack)[i] <=> s \in p
  BY <1>0, LeadsPast
<1>4. \A i \in 1 .. n + 1 : s \in Pictures(q, stack)[i] <=> s \in q
  BY <1>0, LeadsPast
<1>5. \A i \in 1 .. n : View(p, stack, f)[i] = Pictures(p, stack)[i] \ f
  BY ViewAt
<1>6. DOMAIN View(p, stack, f) = 1 .. n
  BY ViewType
<1>7. ASSUME NEW i \in 1 .. n
      PROVE  /\ s \in View(p, stack, f)[i] <=> s \in p
             /\ Pictures(q, stack)[i] \ f = Log!Flipped(View(p, stack, f)[i], s)
  <2>1. i \in 1 .. n + 1
    BY <1>0
  <2>2. (s \in Pictures(p, stack)[i] <=> s \in p) /\ (s \in Pictures(q, stack)[i] <=> s \in q)
    BY <1>3, <1>4, <2>1
  <2>3. Pictures(q, stack)[i] \ h = Pictures(p, stack)[i] \ h
    BY <1>2 DEF SameBut
  <2>4. View(p, stack, f)[i] = Pictures(p, stack)[i] \ f
    BY <1>5
  <2>5. s \in View(p, stack, f)[i] <=> s \in p
    BY <2>2, <2>4
  <2>6. CASE s \in p
    BY <2>2, <2>3, <2>4, <2>5, <2>6 DEF h, Log!Flipped
  <2>7. CASE s \notin p
    BY <2>2, <2>3, <2>4, <2>5, <2>7 DEF h, Log!Flipped
  <2> QED
    BY <2>5, <2>6, <2>7
<1>8. View(q, stack, f) = Log!AllFlipped(View(p, stack, f), s)
  BY <1>6, <1>7, Zenon DEF View, Log!AllFlipped
<1>9. Chained(q, stack, h) => Chained(q, stack, f)
  <2>1. ASSUME NEW i \in 1 .. n, NEW k \in 1 .. Len(stack[i]), stack[i][k].id \notin f
        PROVE  stack[i][k].id \notin h
    <3>1. stack[i] \in Seq(Op)
      BY GroupIds
    <3>2. stack[i][k].id \in IdsOf(stack[i])
      BY <3>1 DEF IdsOf
    <3> QED
      BY <2>1, <3>2 DEF h
  <2> QED
    BY <2>1 DEF Chained, Linked
<1> QED
  BY <1>2, <1>7, <1>8, <1>9

\* Such a stroke is in all pictures of the log or in none.
LEMMA FlipsSeen ==
  ASSUME NEW p \in SUBSET Strokes, NEW stack \in Lists,
         NEW f, NEW s \in Strokes \ f, \A i \in 1 .. Len(stack) : s \notin IdsOf(stack[i])
  PROVE  \A i \in 1 .. Len(stack) : s \in View(p, stack, f)[i] <=> s \in p
<1>1. Len(stack) \in Nat
  BY DEF Lists
<1> SUFFICES ASSUME NEW i \in 1 .. Len(stack) PROVE s \in View(p, stack, f)[i] <=> s \in p
  OBVIOUS
<1>2. View(p, stack, f)[i] = Pictures(p, stack)[i] \ f
  BY ViewAt
<1>3. \A j \in 1 .. Len(stack) + 1 : s \in Pictures(p, stack)[j] <=> s \in p
  BY <1>1, LeadsPast
<1>4. i \in 1 .. Len(stack) + 1
  BY <1>1
<1> QED
  BY <1>2, <1>3, <1>4

-----------------------------------------------------------------------------
(* What History shows UndoLog, and the invariant the refinement needs: both    *)
(* stacks are in step with the picture, the eraser has hidden what it is about *)
(* to record, and what is being drawn is still unknown to everybody.           *)

Now    == Picture \ foreign
Lifted == IdsOf(Erasing) \ foreign
Past   == View(Picture, undo, foreign)
Future == View(Picture, redo, foreign)

GestureKept ==
  /\ drawing # None => tool = "Draw" /\ drawing \in Fresh
  /\ text # None => tool = "Text" /\ text.id \in Fresh
  /\ erasing # None => tool = "Eraser" /\ held

Erased ==
  \A i \in 1 .. Len(Erasing) :
    /\ Erasing[i].kind = "Remove"
    /\ Erasing[i].id \notin foreign => Erasing[i].id \notin Visible(doc)

ChainedInv == Chained(Picture, undo, foreign) /\ Chained(Picture, redo, foreign)

LogInv == HistInv /\ GestureKept /\ Erased /\ ChainedInv

LogStep == Log!Next \/ UNCHANGED Log!vars

LEMMA Mapped == /\ Unwound(Picture, undo) = Past /\ Unwound(Picture, redo) = Future
                /\ Unwound(Picture, undo)' = Past' /\ Unwound(Picture, redo)' = Future'
BY DEF Unwound, View, Past, Future

LEMMA LogStutters ==
  ASSUME Now' = Now, Lifted' = Lifted, Past' = Past, Future' = Future, foreign' = foreign
  PROVE  LogStep
BY Mapped DEF LogStep, Log!vars, Now, Lifted

LEMMA LogDoes ==
  ASSUME foreign' = foreign, Lifted' = Lifted, Now' \in SUBSET (Strokes \ foreign), Lifted \subseteq Now',
         Past' = Log!Newest(Append(Past, Now)), Future' = <<>>
  PROVE  LogStep
BY Mapped DEF LogStep, Log!Next, Log!Do, Log!Tracked, Now, Lifted

LEMMA LogLifts ==
  ASSUME NEW s \in Now \ Lifted, foreign' = foreign, Lifted' = Lifted \cup {s}, Now' = Now,
         Past' = Past, Future' = Future
  PROVE  LogStep
BY Mapped DEF LogStep, Log!Next, Log!Lift, Now, Lifted

LEMMA LogSettles ==
  ASSUME foreign' = foreign, Lifted' = {}, Now' = Now \ Lifted,
         Past' = Log!Newest(Append(Past, Now)), Future' = <<>>
  PROVE  LogStep
BY Mapped DEF LogStep, Log!Next, Log!Settle, Now, Lifted

LEMMA LogUndoes ==
  ASSUME NEW clash, Past # <<>>,
         clash = Lifted \cap ((Last(Past) \ Now) \cup (Now \ Last(Past))),
         foreign' = foreign \cup clash, Now' = Last(Past) \ clash, Lifted' = Lifted \ clash,
         Past' = Log!Without(Front(Past), clash),
         Future' = Log!Without(Append(Future, Now), clash)
  PROVE  LogStep
BY Mapped, Zenon DEF LogStep, Log!Next, Log!Undo, Log!Step, Now, Lifted, Last, Front, Log!Last, Log!Front

LEMMA LogRedoes ==
  ASSUME NEW clash, Future # <<>>,
         clash = Lifted \cap ((Last(Future) \ Now) \cup (Now \ Last(Future))),
         foreign' = foreign \cup clash, Now' = Last(Future) \ clash, Lifted' = Lifted \ clash,
         Past' = Log!Without(Append(Past, Now), clash),
         Future' = Log!Without(Front(Future), clash)
  PROVE  LogStep
BY Mapped, Zenon DEF LogStep, Log!Next, Log!Redo, Log!Step, Now, Lifted, Last, Front, Log!Last, Log!Front

LEMMA LogFlips ==
  ASSUME NEW s \in (Strokes \ foreign) \ Lifted, foreign' = foreign, Lifted' = Lifted,
         \A i \in DOMAIN Past : s \in Past[i] <=> s \in Now,
         \A i \in DOMAIN Future : s \in Future[i] <=> s \in Now,
         Now' = Log!Flipped(Now, s), Past' = Log!AllFlipped(Past, s),
         Future' = Log!AllFlipped(Future, s)
  PROVE  LogStep
BY Mapped DEF LogStep, Log!Next, Log!Outside, Log!Tracked, Now, Lifted

LEMMA LogOverrides ==
  ASSUME NEW s \in Strokes \ foreign, foreign' = foreign \cup {s}, Lifted' = Lifted \ {s},
         Now' = Now \ {s}, Past' = Log!Without(Past, {s}), Future' = Log!Without(Future, {s})
  PROVE  LogStep
BY Mapped DEF LogStep, Log!Next, Log!Override, Log!Tracked, Now, Lifted

LEMMA Shapes ==
  ASSUME HistInv
  PROVE  /\ doc \in Board /\ clock \in Nat /\ Ticked
         /\ Picture \in SUBSET Strokes /\ Visible(doc) \in SUBSET Strokes
         /\ undo \in Lists /\ redo \in Lists
         /\ Erasing \in Seq(Op) /\ Erasing \in Reversible(doc) /\ IdsOf(Erasing) \in SUBSET Strokes
         /\ foreign \in SUBSET Strokes
<1>1. doc \in Board /\ clock \in Nat /\ Ticked /\ foreign \in SUBSET Strokes
  BY HistoryAssumption DEF HistInv, DocInv, GestureInv
<1>2. Visible(doc) \in SUBSET Strokes
  BY DEF Visible
<1>3. Erasing \in Reversible(doc) /\ Erasing \in Seq(Op)
  BY DEF HistInv, ErasingInv, Erasing, Reversible
<1>4. IdsOf(Erasing) \in SUBSET Strokes
  <2>1. \A i \in DOMAIN Erasing : Erasing[i] \in Op
    BY <1>3
  <2> QED
    BY <2>1, OpShape DEF IdsOf
<1>5. undo \in Lists /\ redo \in Lists
  <2>1. Entry(doc) \subseteq Seq(Op)
    BY DEF Entry, Reversible
  <2> QED
    BY <2>1, WiderSeq DEF HistInv, EntriesInv, Lists
<1> QED
  BY <1>1, <1>2, <1>3, <1>4, <1>5 DEF Picture

LEMMA NextPicture == ASSUME HistInv' PROVE Picture' \in SUBSET Strokes
<1>1. Visible(doc') \in SUBSET Strokes
  BY DEF Visible
<1>2. Erasing' \in Seq(Op)
  BY DEF HistInv, ErasingInv, Erasing, Reversible
<1>3. IdsOf(Erasing') \in SUBSET Strokes
  <2>1. \A i \in DOMAIN Erasing' : Erasing'[i] \in Op
    BY <1>2
  <2> QED
    BY <2>1, OpShape DEF IdsOf
<1> QED
  BY <1>1, <1>3 DEF Picture

\* The picture stays as it is, and so do the stacks.
LEMMA SamePicture ==
  ASSUME HistInv, HistInv', undo' = undo, redo' = redo, foreign' = foreign,
         \A s \in Strokes \ foreign : s \in Picture <=> s \in Picture'
  PROVE  Now' = Now /\ Past' = Past /\ Future' = Future /\ (ChainedInv => ChainedInv')
<1>1. /\ Picture \in SUBSET Strokes /\ Picture' \in SUBSET Strokes
      /\ undo \in Lists /\ redo \in Lists
  BY Shapes, NextPicture
<1> DEFINE p == Picture
           q == Picture'
<1>2. /\ View(q, undo, foreign) = View(p, undo, foreign)
      /\ Chained(p, undo, foreign) => Chained(q, undo, foreign)
  <2> HIDE DEF p, q
  <2>1. p \in SUBSET Strokes /\ q \in SUBSET Strokes /\ \A s \in Strokes \ foreign : s \in p <=> s \in q
    BY <1>1 DEF p, q
  <2> QED
    BY <1>1, <2>1, ViewSame
<1>3. /\ View(q, redo, foreign) = View(p, redo, foreign)
      /\ Chained(p, redo, foreign) => Chained(q, redo, foreign)
  <2> HIDE DEF p, q
  <2>1. p \in SUBSET Strokes /\ q \in SUBSET Strokes /\ \A s \in Strokes \ foreign : s \in p <=> s \in q
    BY <1>1 DEF p, q
  <2> QED
    BY <1>1, <2>1, ViewSame
<1>4. Past' = Past /\ Future' = Future
  BY <1>2, <1>3 DEF Past, Future
<1>5. ChainedInv => ChainedInv'
  BY <1>2, <1>3 DEF ChainedInv
<1>6. Now' = Now
  BY <1>1 DEF Now
<1> QED
  BY <1>4, <1>5, <1>6

\* A group is recorded that leads back to the picture before.
LEMMA Recorded ==
  ASSUME HistInv, HistInv', foreign' = foreign, NEW group \in Seq(Op), Record(group),
         \A s \in Strokes \ foreign : s \in Picture <=> s \in Reverted(Picture', group),
         \A k \in 1 .. Len(group) :
           group[k].id \notin foreign => (group[k].id \in Picture' <=> group[k].kind = "Add")
  PROVE  /\ Past' = Log!Newest(Append(Past, Now)) /\ Future' = <<>>
         /\ ChainedInv => ChainedInv'
<1>1. Picture \in SUBSET Strokes /\ Picture' \in SUBSET Strokes /\ undo \in Lists
  BY Shapes, NextPicture
<1> DEFINE p == Picture
           q == Picture'
<1>2. /\ View(q, Trimmed(Append(undo, group)), foreign) = Log!Newest(Append(View(p, undo, foreign), p \ foreign))
      /\ Chained(p, undo, foreign) => Chained(q, Trimmed(Append(undo, group)), foreign)
  <2>1. /\ p \in SUBSET Strokes /\ q \in SUBSET Strokes
        /\ \A s \in Strokes \ foreign : s \in p <=> s \in Reverted(q, group)
        /\ \A k \in 1 .. Len(group) :
             group[k].id \notin foreign => (group[k].id \in q <=> group[k].kind = "Add")
    BY <1>1
  <2> HIDE DEF p, q
  <2> QED
    BY <1>1, <2>1, ViewRecords
<1>3. undo' = Trimmed(Append(undo, group)) /\ redo' = <<>>
  BY DEF Record
<1>4. Future' = <<>> /\ Chained(q, <<>>, foreign)
  BY <1>3 DEF Future, View, Chained
<1>5. Past' = Log!Newest(Append(Past, Now))
  BY <1>2, <1>3 DEF Past, Now
<1>6. ChainedInv => ChainedInv'
  BY <1>2, <1>3, <1>4 DEF ChainedInv
<1> QED
  BY <1>4, <1>5, <1>6

-----------------------------------------------------------------------------
(* Somebody else's op, or an eraser that belongs to no drag.                 *)

\* No entry is about the stroke, nor will the drag in progress be.
LEMMA NotMentioned ==
  ASSUME HistInv, NEW s, ~Mentioned(s)
  PROVE  /\ s \notin IdsOf(Erasing)
         /\ \A i \in 1 .. Len(undo) : s \notin IdsOf(undo[i])
         /\ \A i \in 1 .. Len(redo) : s \notin IdsOf(redo[i])
<1>1. undo \in Seq(Seq(Op)) /\ redo \in Seq(Seq(Op))
  BY Shapes DEF Lists
<1>2. \A i \in 1 .. Len(undo) : undo[i] \in Range(undo)
  BY <1>1 DEF Range
<1>3. \A i \in 1 .. Len(redo) : redo[i] \in Range(redo)
  BY <1>1 DEF Range
<1> QED
  BY <1>2, <1>3 DEF Mentioned

\* Where an entry is about the stroke, it becomes foreign.  Otherwise all
\* pictures of the log gain or lose it together.
LEMMA Meddles ==
  ASSUME LogInv, HistInv', erasing' = erasing, undo' = undo, redo' = redo,
         NEW s \in Strokes,
         \A t \in Strokes : t # s => (t \in Visible(doc') <=> t \in Visible(doc)),
         NEW flips \in BOOLEAN, flips <=> ~(s \in Visible(doc) <=> s \in Visible(doc')),
         foreign' = IF Mentioned(s) /\ flips THEN foreign \cup {s} ELSE foreign
  PROVE  LogStep /\ Erased' /\ ChainedInv'
<1> DEFINE p == Picture
           q == Picture'
           e == IdsOf(Erasing)
<1>0. HistInv /\ Erased /\ ChainedInv
  BY DEF LogInv
<1>1. /\ p \in SUBSET Strokes /\ q \in SUBSET Strokes /\ undo \in Lists /\ redo \in Lists
      /\ Erasing \in Seq(Op)
  BY <1>0, Shapes, NextPicture
<1>2. Erasing' = Erasing /\ p = Visible(doc) \cup e /\ q = Visible(doc') \cup e
  BY DEF Erasing, Picture
<1>3. \A t \in Strokes : t # s => (t \in p <=> t \in q)
  BY <1>2
<1>4. \A i \in 1 .. Len(Erasing) : Erasing[i].id \in e /\ Erasing[i].id \in Strokes
  <2>1. DOMAIN Erasing = 1 .. Len(Erasing)
    BY <1>1
  <2>2. \A i \in 1 .. Len(Erasing) : Erasing[i] \in Op
    BY <1>1
  <2> QED
    BY <2>1, <2>2, OpShape DEF IdsOf
<1>5. Erased'
  <2> SUFFICES ASSUME NEW i \in 1 .. Len(Erasing)
               PROVE  /\ Erasing[i].kind = "Remove"
                      /\ Erasing[i].id \notin foreign' => Erasing[i].id \notin Visible(doc')
    BY <1>2 DEF Erased
  <2>1. Erasing[i].kind = "Remove" /\ (Erasing[i].id \notin foreign => Erasing[i].id \notin Visible(doc))
    BY <1>0 DEF Erased
  <2>2. foreign \subseteq foreign' /\ Erasing[i].id \in Strokes
    BY <1>4
  <2>3. CASE Erasing[i].id = s
    <3>1. Mentioned(s)
      BY <1>4, <2>3 DEF Mentioned
    <3> QED
      BY <2>1, <2>3, <3>1
  <2>4. CASE Erasing[i].id # s
    BY <2>1, <2>2, <2>4
  <2> QED
    BY <2>3, <2>4
<1>6. CASE s \in foreign \/ ~flips
  <2>1. foreign' = foreign /\ \A t \in Strokes \ foreign : t \in Picture <=> t \in Picture'
    BY <1>2, <1>3, <1>6
  <2>2. Now' = Now /\ Past' = Past /\ Future' = Future /\ ChainedInv'
    BY <1>0, <2>1, SamePicture
  <2>3. Lifted' = Lifted
    BY <1>2, <2>1 DEF Lifted
  <2> QED
    BY <1>5, <2>1, <2>2, <2>3, LogStutters
<1>7. CASE s \notin foreign /\ flips /\ Mentioned(s)
  <2>1. foreign' = foreign \cup {s} /\ s \in Strokes \ foreign
    BY <1>7
  <2>2. \A t \in Strokes \ (foreign \cup {s}) : t \in p <=> t \in q
    BY <1>3
  <2> HIDE DEF p, q
  <2>3. /\ View(q, undo, foreign \cup {s}) = Log!Without(View(p, undo, foreign), {s})
        /\ Chained(p, undo, foreign) => Chained(q, undo, foreign \cup {s})
    BY <1>1, <2>2, ViewStays
  <2>4. /\ View(q, redo, foreign \cup {s}) = Log!Without(View(p, redo, foreign), {s})
        /\ Chained(p, redo, foreign) => Chained(q, redo, foreign \cup {s})
    BY <1>1, <2>2, ViewStays
  <2>5. Past' = Log!Without(Past, {s}) /\ Future' = Log!Without(Future, {s}) /\ ChainedInv'
    BY <1>0, <2>1, <2>3, <2>4 DEF p, q, Past, Future, ChainedInv
  <2>6. Now' = Now \ {s}
    BY <1>1, <2>1, <2>2 DEF p, q, Now
  <2>7. Lifted' = Lifted \ {s}
    BY <1>2, <2>1 DEF Lifted
  <2> QED
    BY <1>5, <2>1, <2>5, <2>6, <2>7, LogOverrides
<1>8. CASE s \notin foreign /\ flips /\ ~Mentioned(s)
  <2>1. foreign' = foreign /\ s \in Strokes \ foreign
    BY <1>8
  <2>2. /\ s \notin e
        /\ \A i \in 1 .. Len(undo) : s \notin IdsOf(undo[i])
        /\ \A i \in 1 .. Len(redo) : s \notin IdsOf(redo[i])
    BY <1>0, <1>8, NotMentioned
  <2>3. s \in p <=> s \notin q
    BY <1>2, <1>8, <2>2
  <2>4. \A t \in Strokes \ foreign : t # s => (t \in p <=> t \in q)
    BY <1>3
  <2> HIDE DEF p, q, e
  <2>5. /\ View(q, undo, foreign) = Log!AllFlipped(View(p, undo, foreign), s)
        /\ Chained(p, undo, foreign) => Chained(q, undo, foreign)
    BY <1>1, <2>1, <2>2, <2>3, <2>4, ViewFlips
  <2>6. /\ View(q, redo, foreign) = Log!AllFlipped(View(p, redo, foreign), s)
        /\ Chained(p, redo, foreign) => Chained(q, redo, foreign)
    BY <1>1, <2>1, <2>2, <2>3, <2>4, ViewFlips
  <2>7. /\ \A i \in 1 .. Len(undo) : s \in View(p, undo, foreign)[i] <=> s \in p
        /\ \A i \in 1 .. Len(redo) : s \in View(p, redo, foreign)[i] <=> s \in p
    BY <1>1, <2>1, <2>2, FlipsSeen
  <2>8. DOMAIN View(p, undo, foreign) = 1 .. Len(undo) /\ DOMAIN View(p, redo, foreign) = 1 .. Len(redo)
    BY DEF View
  <2>9. s \in p <=> s \in Now
    BY <2>1 DEF Now, p
  <2>10. /\ Past' = Log!AllFlipped(Past, s) /\ Future' = Log!AllFlipped(Future, s) /\ ChainedInv'
         /\ \A i \in DOMAIN Past : s \in Past[i] <=> s \in Now
         /\ \A i \in DOMAIN Future : s \in Future[i] <=> s \in Now
    BY <1>0, <2>1, <2>5, <2>6, <2>7, <2>8, <2>9 DEF p, q, Past, Future, ChainedInv
  <2>11. Now' = Log!Flipped(Now, s)
    <3>1. Now = p \ foreign /\ Now' = q \ foreign
      BY <2>1 DEF Now, p, q
    <3> QED
      BY <1>1, <2>1, <2>3, <2>4, <3>1 DEF Log!Flipped
  <2>12. Lifted' = Lifted /\ s \notin Lifted
    BY <1>2, <2>1, <2>2 DEF Lifted, e
  <2> QED
    BY <1>5, <2>1, <2>10, <2>11, <2>12, LogFlips
<1> QED
  BY <1>6, <1>7, <1>8

-----------------------------------------------------------------------------
(* Undo and redo                                                             *)

\* apply_all leaves alone what no op is about.
LEMMA AppliedElsewhere ==
  ASSUME doc \in Board, NEW ops \in Seq(Op), NEW x \in Slots,
         \A i \in 1 .. Len(ops) : SlotOf(ops[i]) # x
  PROVE  Applied(ops)[x] = doc[x]
<1> DEFINE n == Len(ops)
<1>1. n \in Nat
  OBVIOUS
<1>2. PICK a \in [0 .. n -> Board] :
         /\ a[0] = doc
         /\ \A i \in 1 .. n : a[i] = ApplyTo(a[i - 1], ops[i])
         /\ Applied(ops) = a[n]
  BY AppliedSteps
<1> DEFINE T == {k \in 0 .. n : a[k][x] = doc[x]}
<1>3. 0 \in T
  BY <1>1, <1>2
<1>4. ASSUME NEW k \in 1 .. n, k - 1 \in T PROVE k \in T
  <2>1. k \in 0 .. n /\ k - 1 \in 0 .. n /\ a[k - 1] \in Board /\ ops[k] \in Op
    BY <1>2
  <2>2. a[k] = ApplyTo(a[k - 1], ops[k]) /\ a[k - 1][x] = doc[x] /\ SlotOf(ops[k]) # x
    BY <1>2, <1>4
  <2>3. a[k][x] = a[k - 1][x]
    BY <2>1, <2>2, ApplySlots
  <2> QED
    BY <2>1, <2>2, <2>3
<1>5. \A k \in 0 .. n : k \in T
  <2> HIDE DEF T, n
  <2> QED
    BY <1>1, <1>3, <1>4, ListInduction
<1>6. n \in 0 .. n
  BY <1>1
<1> QED
  BY <1>2, <1>5, <1>6

\* The first op of a group about a stroke.
LEMMA FirstAbout ==
  ASSUME NEW group \in Seq(Op), NEW s \in IdsOf(group)
  PROVE  \E i \in 1 .. Len(group) : group[i].id = s /\ \A j \in 1 .. i - 1 : group[j].id # s
<1> DEFINE T == {i \in 1 .. Len(group) : group[i].id = s}
<1>1. T \in SUBSET Nat /\ T # {}
  BY DEF IdsOf
<1>2. PICK i \in T : \A j \in T : i <= j
  <2> HIDE DEF T
  <2> QED
    BY <1>1, LeastNumber
<1>3. \A j \in 1 .. i - 1 : group[j].id # s
  <2> SUFFICES ASSUME NEW j \in 1 .. i - 1, group[j].id = s PROVE FALSE
    OBVIOUS
  <2>1. j \in T
    BY <1>2
  <2> QED
    BY <1>2, <2>1
<1> QED
  BY <1>2, <1>3

LEMMA RevertedElsewhere ==
  ASSUME NEW p, NEW group, NEW s \in Strokes, s \notin IdsOf(group)
  PROVE  s \in Reverted(p, group) <=> s \in p
BY DEF Reverted

\* A group whose ops about s are all adds, or all removes.
LEMMA RevertedAlike ==
  ASSUME NEW p, NEW group \in Seq(Op), NEW s \in Strokes, s \in IdsOf(group),
         NEW adds \in BOOLEAN,
         \A k \in 1 .. Len(group) : group[k].id = s => (group[k].kind = "Add" <=> adds)
  PROVE  s \in Reverted(p, group) <=> ~adds
<1>1. PICK i \in 1 .. Len(group) : group[i].id = s /\ \A j \in 1 .. i - 1 : group[j].id # s
  BY FirstAbout
<1>2. DOMAIN group = 1 .. Len(group)
  OBVIOUS
<1>3. \A k \in 1 .. Len(group) : group[k].kind \in {"Add", "Remove"}
  <2>1. \A k \in 1 .. Len(group) : group[k] \in Op
    OBVIOUS
  <2> QED
    BY <2>1, OpShape
<1>4. ASSUME ~adds PROVE s \in Reverted(p, group)
  BY <1>1, <1>2, <1>3, <1>4 DEF Reverted
<1>5. ASSUME s \in Reverted(p, group) PROVE ~adds
  <2>1. PICK k \in DOMAIN group : group[k].id = s /\ group[k].kind = "Remove"
    BY <1>5 DEF Reverted
  <2> QED
    BY <1>2, <2>1
<1> QED
  BY <1>4, <1>5

\* The inverse of a group is about the same strokes, and each op of it is the
\* opposite of one of the group.
LEMMA InverseOps ==
  ASSUME HistInv, NEW group \in Entry(doc)
  PROVE  /\ group \in Seq(Op) /\ Invert(group) \in Seq(Op)
         /\ IdsOf(Invert(group)) = IdsOf(group) /\ IdsOf(group) \in SUBSET Strokes
         /\ \A k \in 1 .. Len(Invert(group)) : \E i \in 1 .. Len(group) :
              /\ Invert(group)[k].id = group[i].id
              /\ Invert(group)[k].kind = "Add" <=> group[i].kind # "Add"
<1> DEFINE n == Len(group)
           inv == Invert(group)
<1>1. clock \in Nat /\ group \in Reversible(doc) /\ group \in Seq(Op) /\ n \in Nat
  BY Shapes DEF Entry, Reversible
<1>2. /\ inv \in Seq(Op) /\ Len(inv) = n
      /\ \A i \in 1 .. n : inv[i] = Inverted(group[n + 1 - i], Stamped(i))
  BY <1>1, InvertWhole
<1> HIDE DEF inv
<1>3. ASSUME NEW k \in 1 .. n
      PROVE  /\ n + 1 - k \in 1 .. n
             /\ inv[k].id = group[n + 1 - k].id
             /\ inv[k].kind = "Add" <=> group[n + 1 - k].kind # "Add"
  <2>1. n + 1 - k \in 1 .. n /\ k \in Nat \ {0}
    BY <1>1
  <2>2. group[n + 1 - k] \in Op /\ Stamped(k) \in Stamp
    BY <1>1, <2>1, StampedType
  <2>3. /\ inv[k].id = group[n + 1 - k].id
        /\ inv[k].kind = IF group[n + 1 - k].kind = "Add" THEN "Remove" ELSE "Add"
    BY <1>2, <2>2, InvertedType
  <2> QED
    BY <2>1, <2>3
<1>4. DOMAIN inv = 1 .. n /\ DOMAIN group = 1 .. n
  BY <1>1, <1>2
<1>5. IdsOf(inv) \subseteq IdsOf(group)
  BY <1>3, <1>4 DEF IdsOf
<1>6. IdsOf(group) \subseteq IdsOf(inv)
  <2> SUFFICES ASSUME NEW i \in 1 .. n PROVE group[i].id \in IdsOf(inv)
    BY <1>4 DEF IdsOf
  <2>1. n + 1 - i \in 1 .. n /\ n + 1 - (n + 1 - i) = i
    BY <1>1
  <2>2. inv[n + 1 - i].id = group[i].id
    BY <1>3, <2>1
  <2> QED
    BY <1>4, <2>1, <2>2 DEF IdsOf
<1>7. IdsOf(group) \in SUBSET Strokes
  <2>1. \A i \in 1 .. n : group[i] \in Op
    BY <1>1
  <2> QED
    BY <1>4, <2>1, OpShape DEF IdsOf
<1>8. \A k \in 1 .. n : \E i \in 1 .. n :
        inv[k].id = group[i].id /\ (inv[k].kind = "Add" <=> group[i].kind # "Add")
  BY <1>3
<1> QED
  BY <1>1, <1>2, <1>5, <1>6, <1>7, <1>8 DEF inv

\* Taking back a group leaves all other strokes alone.
LEMMA TakenElsewhere ==
  ASSUME HistInv, NEW group \in Entry(doc), TakeBack(group), NEW s \in Strokes, s \notin IdsOf(group)
  PROVE  /\ doc'[<<s, "Add">>] = doc[<<s, "Add">>]
         /\ s \in Visible(doc') <=> s \in Visible(doc)
<1> DEFINE inv == Invert(group)
<1>1. inv \in Seq(Op) /\ s \notin IdsOf(inv) /\ doc \in Board /\ doc' = Applied(inv)
  BY InverseOps, Shapes DEF TakeBack
<1> HIDE DEF inv
<1>2. ASSUME NEW kind \in Kinds PROVE doc'[<<s, kind>>] = doc[<<s, kind>>]
  <2>1. <<s, kind>> \in Slots
    BY DEF Slots
  <2>2. \A i \in 1 .. Len(inv) : SlotOf(inv[i]) # <<s, kind>>
    <3>1. \A i \in 1 .. Len(inv) : inv[i].id # s
      BY <1>1 DEF IdsOf
    <3> QED
      BY <3>1 DEF SlotOf
  <2> QED
    BY <1>1, <2>1, <2>2, AppliedElsewhere
<1>3. doc'[<<s, "Add">>] = doc[<<s, "Add">>] /\ doc'[<<s, "Remove">>] = doc[<<s, "Remove">>]
  BY <1>2 DEF Kinds
<1>4. IsVisible(doc', s) <=> IsVisible(doc, s)
  BY <1>3, Zenon DEF IsVisible
<1> QED
  BY <1>3, <1>4 DEF Visible

\* The eraser's strokes that an undo or redo puts back under its hands.
Clash(group) == (IdsOf(Erasing) \cap IdsOf(group)) \ foreign

\* A group in step with the picture, taken back: each of its strokes that is
\* not foreign comes or goes, all others stay.
LEMMA TakenSeen ==
  ASSUME HistInv, NEW group \in Entry(doc), TakeBack(group),
         \A k \in 1 .. Len(group) :
           group[k].id \notin foreign => (group[k].id \in Picture <=> group[k].kind = "Add")
  PROVE  /\ \A s \in IdsOf(group) \ foreign :
              /\ s \in Visible(doc') <=> s \notin Picture
              /\ s \in Reverted(Picture, group) <=> s \notin Picture
              /\ s \in Reverted(Picture', Invert(group)) <=> s \in Picture
         /\ \A s \in Strokes \ IdsOf(group) :
              /\ s \in Picture' <=> s \in Picture
              /\ s \in Reverted(Picture, group) <=> s \in Picture
              /\ s \in Reverted(Picture', Invert(group)) <=> s \in Picture
<1> DEFINE inv == Invert(group)
           p == Picture
           q == Picture'
<1>1. /\ group \in Seq(Op) /\ inv \in Seq(Op)
      /\ IdsOf(inv) = IdsOf(group) /\ IdsOf(group) \in SUBSET Strokes
      /\ \A k \in 1 .. Len(inv) : \E i \in 1 .. Len(group) :
           inv[k].id = group[i].id /\ (inv[k].kind = "Add" <=> group[i].kind # "Add")
  BY InverseOps
<1>2. \A i \in 1 .. Len(group) :
        (\A j \in 1 .. i - 1 : group[j].id # group[i].id) =>
          (IsVisible(doc', group[i].id) <=> group[i].kind = "Remove")
  BY TakeBackKept
<1>3. \A k \in 1 .. Len(group) : group[k].kind \in {"Add", "Remove"}
  <2>1. \A k \in 1 .. Len(group) : group[k] \in Op
    BY <1>1
  <2> QED
    BY <2>1, OpShape
<1>4. ASSUME NEW s \in Strokes \ IdsOf(group) PROVE s \in q <=> s \in p
  <2>1. s \in Visible(doc') <=> s \in Visible(doc)
    BY TakenElsewhere
  <2>2. Erasing' = Erasing
    BY DEF TakeBack, Erasing
  <2> QED
    BY <2>1, <2>2 DEF Picture
<1> HIDE DEF p, q, inv
<1>5. ASSUME NEW s \in Strokes \ IdsOf(group)
      PROVE  /\ s \in Reverted(p, group) <=> s \in p
             /\ s \in Reverted(q, inv) <=> s \in q
  BY <1>1, RevertedElsewhere
<1>6. ASSUME NEW s \in IdsOf(group) \ foreign
      PROVE  /\ s \in Visible(doc') <=> s \notin p
             /\ s \in Reverted(p, group) <=> s \notin p
             /\ s \in Reverted(q, inv) <=> s \in p
  <2>1. s \in Strokes /\ s \in IdsOf(group) /\ s \in IdsOf(inv)
    BY <1>1
  <2>2. ASSUME NEW k \in 1 .. Len(group), group[k].id = s PROVE group[k].kind = "Add" <=> s \in p
    BY <2>2 DEF p
  <2>3. s \in Visible(doc') <=> s \notin p
    <3>1. PICK i \in 1 .. Len(group) : group[i].id = s /\ \A j \in 1 .. i - 1 : group[j].id # s
      BY <1>1, <2>1, FirstAbout
    <3>2. IsVisible(doc', s) <=> group[i].kind = "Remove"
      BY <1>2, <3>1
    <3>3. group[i].kind = "Remove" <=> s \notin p
      BY <1>3, <2>2, <3>1
    <3> QED
      BY <2>1, <3>2, <3>3 DEF Visible
  <2>4. s \in Reverted(p, group) <=> ~(s \in p)
    <3>1. PICK adds \in BOOLEAN : adds <=> s \in p
      BY Zenon
    <3>2. \A k \in 1 .. Len(group) : group[k].id = s => (group[k].kind = "Add" <=> adds)
      BY <2>2, <3>1
    <3>3. s \in Reverted(p, group) <=> ~adds
      BY <1>1, <2>1, <3>2, RevertedAlike
    <3> QED
      BY <3>1, <3>3
  <2>5. s \in Reverted(q, inv) <=> ~(s \notin p)
    <3>1. PICK adds \in BOOLEAN : adds <=> s \notin p
      BY Zenon
    <3>2. \A k \in 1 .. Len(inv) : inv[k].id = s => (inv[k].kind = "Add" <=> adds)
      BY <1>1, <2>2, <3>1
    <3>3. s \in Reverted(q, inv) <=> ~adds
      BY <1>1, <2>1, <3>2, RevertedAlike
    <3> QED
      BY <3>1, <3>3
  <2> QED
    BY <2>3, <2>4, <2>5
<1> QED
  BY <1>4, <1>5, <1>6 DEF p, q, inv

\* The group taken off one stack, and its inverse put on the other.
LEMMA MovesBack ==
  ASSUME LogInv, HistInv', NEW from \in Lists, from # <<>>, NEW to \in Lists,
         Chained(Picture, from, foreign), Chained(Picture, to, foreign),
         NEW group \in Entry(doc), group = Last(from), TakeBack(group)
  PROVE  LET clash == Clash(group)
             last  == Last(View(Picture, from, foreign))
         IN  /\ clash = Lifted \cap ((last \ Now) \cup (Now \ last))
             /\ foreign' = foreign \cup clash /\ Now' = last \ clash /\ Lifted' = Lifted \ clash
             /\ View(Picture', Front(from), foreign')
                  = Log!Without(Front(View(Picture, from, foreign)), clash)
             /\ View(Picture', Append(to, Invert(group)), foreign')
                  = Log!Without(Append(View(Picture, to, foreign), Now), clash)
             /\ Chained(Picture', Front(from), foreign')
             /\ Chained(Picture', Append(to, Invert(group)), foreign')
             /\ Erased'
<1> DEFINE c == Clash(group)
           f == foreign
           inv == Invert(group)
           p == Picture
           q == Picture'
           last == Last(View(p, from, f))
<1>1. HistInv /\ Erased /\ p \in SUBSET Strokes /\ q \in SUBSET Strokes /\ Erasing \in Seq(Op)
  BY Shapes, NextPicture DEF LogInv
<1>2. /\ group \in Seq(Op) /\ inv \in Seq(Op)
      /\ IdsOf(inv) = IdsOf(group) /\ IdsOf(group) \in SUBSET Strokes
      /\ \A k \in 1 .. Len(inv) : \E i \in 1 .. Len(group) :
           inv[k].id = group[i].id /\ (inv[k].kind = "Add" <=> group[i].kind # "Add")
  BY <1>1, InverseOps
<1>3. \A k \in 1 .. Len(group) :
        group[k].id \notin f => (group[k].id \in p <=> group[k].kind = "Add")
  <2>1. Len(from) \in Nat
    BY DEF Lists
  <2>2. Len(from) # 0
    BY EmptySeq DEF Lists
  <2>3. Len(from) \in 1 .. Len(from) /\ from[Len(from)] = group
    BY <2>1, <2>2 DEF Last
  <2>4. Pictures(p, from)[Len(from) + 1] = p
    BY <1>1, <2>1, PicturesEnd
  <2>5. Linked(p, from, f, Len(from))
    BY <2>3 DEF Chained
  <2> QED
    BY <2>3, <2>4, <2>5 DEF Linked
<1>4. /\ \A s \in IdsOf(group) \ f :
           /\ s \in Visible(doc') <=> s \notin p
           /\ s \in Reverted(p, group) <=> s \notin p
           /\ s \in Reverted(q, inv) <=> s \in p
      /\ \A s \in Strokes \ IdsOf(group) :
           /\ s \in q <=> s \in p
           /\ s \in Reverted(p, group) <=> s \in p
           /\ s \in Reverted(q, inv) <=> s \in p
  BY <1>1, <1>3, TakenSeen
<1>5. /\ foreign' = f \cup c /\ Erasing' = Erasing
      /\ q = Visible(doc') \cup IdsOf(Erasing)
      /\ c = (IdsOf(Erasing) \cap IdsOf(group)) \ f
  BY DEF TakeBack, Clash, Erasing, Picture
<1>6. \A s \in IdsOf(group) \ (f \cup c) : s \in q <=> s \notin p
  BY <1>4, <1>5
<1> HIDE DEF c, p, q, inv
<1>7. \A s \in Strokes \ (f \cup c) : s \in Reverted(p, group) <=> s \in q
  BY <1>4, <1>6
<1>8. \A s \in Strokes \ (f \cup c) : s \in p <=> s \in Reverted(q, inv)
  BY <1>4
<1>9. \A k \in 1 .. Len(inv) : inv[k].id \notin f \cup c => (inv[k].id \in q <=> inv[k].kind = "Add")
  <2> SUFFICES ASSUME NEW k \in 1 .. Len(inv), inv[k].id \notin f \cup c
               PROVE  inv[k].id \in q <=> inv[k].kind = "Add"
    OBVIOUS
  <2>1. PICK i \in 1 .. Len(group) :
          inv[k].id = group[i].id /\ (inv[k].kind = "Add" <=> group[i].kind # "Add")
    BY <1>2
  <2>2. inv[k].id \in IdsOf(group) \ (f \cup c) /\ group[i].id \notin f
    BY <1>2, <2>1 DEF IdsOf
  <2>3. inv[k].id \in p <=> group[i].kind = "Add"
    BY <1>3, <2>1, <2>2
  <2> QED
    BY <1>6, <2>1, <2>2, <2>3
<1>10. /\ View(q, Front(from), f \cup c) = Log!Without(Front(View(p, from, f)), c)
       /\ last = Reverted(p, group) \ f
       /\ Chained(q, Front(from), f \cup c)
  <2>1. /\ p \in SUBSET Strokes /\ q \in SUBSET Strokes
        /\ from \in Lists /\ from # <<>> /\ Chained(p, from, f)
    BY <1>1 DEF p
  <2>2. \A s \in Strokes \ (f \cup c) : s \in Reverted(p, Last(from)) <=> s \in q
    BY <1>7
  <2> HIDE DEF f
  <2>3. /\ Front(from) \in Lists
        /\ View(q, Front(from), f \cup c) = Log!Without(Front(View(p, from, f)), c)
        /\ Last(View(p, from, f)) = Reverted(p, Last(from)) \ f
        /\ Chained(p, from, f) => Chained(q, Front(from), f \cup c)
    BY ONLY <2>1, <2>2, ViewShrinks
  <2> QED
    BY <2>1, <2>3 DEF last
<1>11. /\ View(q, Append(to, inv), f \cup c) = Log!Without(Append(View(p, to, f), p \ f), c)
       /\ Chained(q, Append(to, inv), f \cup c)
  <2>1. /\ p \in SUBSET Strokes /\ q \in SUBSET Strokes
        /\ to \in Lists /\ inv \in Seq(Op) /\ Chained(p, to, f)
    BY <1>1, <1>2 DEF p
  <2> HIDE DEF f
  <2>2. /\ View(q, Append(to, inv), f \cup c) = Log!Without(Append(View(p, to, f), p \ f), c)
        /\ Chained(p, to, f) => Chained(q, Append(to, inv), f \cup c)
    BY ONLY <1>8, <1>9, <2>1, ViewGrows
  <2> QED
    BY <2>1, <2>2
<1>12. Now = p \ f /\ Now' = q \ (f \cup c) /\ Lifted = IdsOf(Erasing) \ f
       /\ Lifted' = IdsOf(Erasing) \ (f \cup c)
  BY <1>5 DEF Now, Lifted, p, q
<1> HIDE DEF last
<1>13. Reverted(p, group) \in SUBSET Strokes
  BY RevertedType
<1>14. (last \ Now) \cup (Now \ last) = IdsOf(group) \ f
  <2>1. \A s \in Strokes \ f : s \in last <=> s \in Reverted(p, group)
    BY <1>10
  <2>2. \A s : s \in (last \ Now) \cup (Now \ last) => s \in Strokes \ f
    BY <1>1, <1>10, <1>12, <1>13
  <2> QED
    BY <1>2, <1>4, <1>12, <2>1, <2>2
<1>15. c = Lifted \cap ((last \ Now) \cup (Now \ last))
  BY <1>5, <1>12, <1>14
<1>16. Now' = last \ c
  BY <1>1, <1>7, <1>10, <1>12, <1>13
<1>17. Lifted' = Lifted \ c
  BY <1>12
<1>18. Erased'
  <2> SUFFICES ASSUME NEW i \in 1 .. Len(Erasing)
               PROVE  /\ Erasing[i].kind = "Remove"
                      /\ Erasing[i].id \notin foreign' => Erasing[i].id \notin Visible(doc')
    BY <1>5 DEF Erased
  <2>1. Erasing[i].kind = "Remove" /\ (Erasing[i].id \notin f => Erasing[i].id \notin Visible(doc))
    BY <1>1 DEF Erased
  <2>2. Erasing[i].id \in IdsOf(Erasing) /\ Erasing[i].id \in Strokes
    <3>1. DOMAIN Erasing = 1 .. Len(Erasing) /\ Erasing[i] \in Op
      BY <1>1
    <3> QED
      BY <3>1, OpShape DEF IdsOf
  <2>3. ASSUME Erasing[i].id \notin f \cup c PROVE Erasing[i].id \notin Visible(doc')
    <3>1. Erasing[i].id \notin IdsOf(group)
      BY <1>5, <2>2, <2>3
    <3>2. Erasing[i].id \in Visible(doc') <=> Erasing[i].id \in Visible(doc)
      BY <1>1, <2>2, <3>1, TakenElsewhere
    <3> QED
      BY <2>1, <2>3, <3>2
  <2> QED
    BY <1>5, <2>1, <2>3
<1> QED
  BY <1>5, <1>10, <1>11, <1>12, <1>15, <1>16, <1>17, <1>18 DEF c, p, q, inv, last

LEMMA ViewSome ==
  ASSUME NEW p \in SUBSET Strokes, NEW stack \in Lists, stack # <<>>, NEW f PROVE View(p, stack, f) # <<>>
<1>1. View(p, stack, f) \in Seq(SUBSET Strokes) /\ Len(View(p, stack, f)) = Len(stack)
  BY ViewType
<1>2. Len(stack) # 0
  BY EmptySeq DEF Lists
<1> QED
  BY <1>1, <1>2

LEMMA UndoMoves == ASSUME LogInv, HistInv', Undo PROVE LogStep /\ Erased' /\ ChainedInv'
<1> DEFINE group == Last(undo)
           c == Clash(group)
<1>1. /\ HistInv /\ ChainedInv /\ Picture \in SUBSET Strokes /\ Picture' \in SUBSET Strokes
      /\ undo \in Lists /\ redo \in Lists /\ undo # <<>>
  BY Shapes, NextPicture DEF LogInv, Undo
<1>2. group \in Entry(doc) /\ TakeBack(group) /\ undo' = Front(undo) /\ redo' = Append(redo, Invert(group))
  <2>1. undo \in Seq(Entry(doc))
    BY <1>1 DEF HistInv, EntriesInv
  <2> QED
    BY <1>1, <2>1, LastOfSeq DEF Undo
<1> HIDE DEF group
<1>3. /\ c = Lifted \cap ((Last(Past) \ Now) \cup (Now \ Last(Past)))
      /\ foreign' = foreign \cup c /\ Now' = Last(Past) \ c /\ Lifted' = Lifted \ c
      /\ Past' = Log!Without(Front(Past), c)
      /\ Future' = Log!Without(Append(Future, Now), c)
      /\ ChainedInv' /\ Erased'
  <2>1. Chained(Picture, undo, foreign) /\ Chained(Picture, redo, foreign) /\ group = Last(undo)
    BY <1>1 DEF ChainedInv, group
  <2>2. /\ c = Lifted \cap ((Last(Past) \ Now) \cup (Now \ Last(Past)))
        /\ foreign' = foreign \cup c /\ Now' = Last(Past) \ c /\ Lifted' = Lifted \ c
        /\ View(Picture', Front(undo), foreign') = Log!Without(Front(Past), c)
        /\ View(Picture', Append(redo, Invert(group)), foreign') = Log!Without(Append(Future, Now), c)
        /\ Chained(Picture', Front(undo), foreign')
        /\ Chained(Picture', Append(redo, Invert(group)), foreign')
        /\ Erased'
    BY <1>1, <1>2, <2>1, MovesBack DEF Past, Future
  <2>3. Past' = View(Picture', undo', foreign') /\ Future' = View(Picture', redo', foreign')
    BY DEF Past, Future
  <2> QED
    BY <1>2, <2>2, <2>3 DEF ChainedInv
<1>4. Past # <<>>
  BY <1>1, ViewSome DEF Past
<1> HIDE DEF c
<1> QED
  BY <1>3, <1>4, LogUndoes

LEMMA RedoMoves == ASSUME LogInv, HistInv', Redo PROVE LogStep /\ Erased' /\ ChainedInv'
<1> DEFINE group == Last(redo)
           c == Clash(group)
<1>1. /\ HistInv /\ ChainedInv /\ Picture \in SUBSET Strokes /\ Picture' \in SUBSET Strokes
      /\ undo \in Lists /\ redo \in Lists /\ redo # <<>>
  BY Shapes, NextPicture DEF LogInv, Redo
<1>2. group \in Entry(doc) /\ TakeBack(group) /\ redo' = Front(redo) /\ undo' = Append(undo, Invert(group))
  <2>1. redo \in Seq(Entry(doc))
    BY <1>1 DEF HistInv, EntriesInv
  <2> QED
    BY <1>1, <2>1, LastOfSeq DEF Redo
<1> HIDE DEF group
<1>3. /\ c = Lifted \cap ((Last(Future) \ Now) \cup (Now \ Last(Future)))
      /\ foreign' = foreign \cup c /\ Now' = Last(Future) \ c /\ Lifted' = Lifted \ c
      /\ Past' = Log!Without(Append(Past, Now), c)
      /\ Future' = Log!Without(Front(Future), c)
      /\ ChainedInv' /\ Erased'
  <2>1. Chained(Picture, undo, foreign) /\ Chained(Picture, redo, foreign) /\ group = Last(redo)
    BY <1>1 DEF ChainedInv, group
  <2>2. /\ c = Lifted \cap ((Last(Future) \ Now) \cup (Now \ Last(Future)))
        /\ foreign' = foreign \cup c /\ Now' = Last(Future) \ c /\ Lifted' = Lifted \ c
        /\ View(Picture', Front(redo), foreign') = Log!Without(Front(Future), c)
        /\ View(Picture', Append(undo, Invert(group)), foreign') = Log!Without(Append(Past, Now), c)
        /\ Chained(Picture', Front(redo), foreign')
        /\ Chained(Picture', Append(undo, Invert(group)), foreign')
        /\ Erased'
    BY <1>1, <1>2, <2>1, MovesBack DEF Past, Future
  <2>3. Past' = View(Picture', undo', foreign') /\ Future' = View(Picture', redo', foreign')
    BY DEF Past, Future
  <2> QED
    BY <1>2, <2>2, <2>3 DEF ChainedInv
<1>4. Future # <<>>
  BY <1>1, ViewSome DEF Future
<1> HIDE DEF c
<1> QED
  BY <1>3, <1>4, LogRedoes

-----------------------------------------------------------------------------
(* What one op of this client does to the picture.                           *)

\* An op about one stroke leaves the others alone.
LEMMA OthersStay ==
  ASSUME doc \in Board, NEW op \in Op, doc' = ApplyTo(doc, op), NEW t \in Strokes, t # op.id
  PROVE  /\ doc'[<<t, "Add">>] = doc[<<t, "Add">>]
         /\ t \in Visible(doc') <=> t \in Visible(doc)
<1>1. <<t, "Add">> \in Slots /\ <<t, "Remove">> \in Slots
  BY DEF Slots, Kinds
<1>2. SlotOf(op) # <<t, "Add">> /\ SlotOf(op) # <<t, "Remove">>
  BY DEF SlotOf
<1>3. doc'[<<t, "Add">>] = doc[<<t, "Add">>] /\ doc'[<<t, "Remove">>] = doc[<<t, "Remove">>]
  BY <1>1, <1>2, ApplySlots
<1>4. IsVisible(doc', t) <=> IsVisible(doc, t)
  BY <1>3, Zenon DEF IsVisible
<1> QED
  BY <1>3, <1>4 DEF Visible

\* This client's newest op decides whether its stroke is there.
LEMMA NewestOpRules ==
  ASSUME HistInv, Tick(1), NEW op \in Op, op.ts = Stamped(1), doc' = ApplyTo(doc, op)
  PROVE  /\ op.id \in Visible(doc') <=> op.kind = "Add"
         /\ op.kind = "Remove" => doc'[<<op.id, "Add">>] = doc[<<op.id, "Add">>]
<1> DEFINE a == <<op.id, "Add">>
           r == <<op.id, "Remove">>
<1>1. /\ doc \in Board /\ clock \in Nat /\ Ticked /\ op.id \in Strokes /\ op.kind \in {"Add", "Remove"}
      /\ a \in Slots /\ r \in Slots /\ op.ts \in Mark /\ op.ts.counter = clock + 1
  <2>1. Stamped(1).counter = clock + 1
    BY Shapes, StampedType
  <2> QED
    BY <2>1, Shapes, OpShape, SlotType
<1>2. ASSUME NEW x \in Slots
      PROVE  /\ doc[x].counter \in Nat /\ doc[x].counter <= clock
             /\ doc'[x] = IF x = SlotOf(op) THEN op.ts ELSE doc[x]
  <2>1. doc[x].counter \in Nat /\ doc[x].counter <= clock
    BY <1>1, BoardType, MarkShape DEF Ticked
  <2>2. Later(doc[x], op.ts) = op.ts
    BY <1>1, <2>1 DEF Later, Before
  <2> QED
    BY <1>1, <2>1, <2>2, ApplySlots
<1>3. CASE op.kind = "Add"
  <2>1. SlotOf(op) = a /\ SlotOf(op) # r
    BY <1>3 DEF SlotOf
  <2>2. doc'[a].counter = clock + 1 /\ doc'[r].counter <= clock /\ doc'[r].counter \in Nat
    BY <1>1, <1>2, <2>1
  <2>3. IsVisible(doc', op.id)
    BY <1>1, <2>2 DEF IsVisible, Before
  <2> QED
    BY <1>1, <1>3, <2>3 DEF Visible
<1>4. CASE op.kind = "Remove"
  <2>1. SlotOf(op) = r /\ SlotOf(op) # a
    BY <1>4 DEF SlotOf
  <2>2. doc'[r].counter = clock + 1 /\ doc'[a] = doc[a] /\ doc[a].counter <= clock /\ doc[a].counter \in Nat
    BY <1>1, <1>2, <2>1
  <2>3. ~IsVisible(doc', op.id)
    BY <1>1, <2>2 DEF IsVisible, Before
  <2> QED
    BY <1>4, <2>2, <2>3 DEF Visible
<1> QED
  BY <1>1, <1>3, <1>4

\* What is unknown is not on the screen.
LEMMA FreshUnseen == ASSUME HistInv, NEW s \in Fresh PROVE s \in Strokes /\ s \notin Visible(doc)
<1>1. s \in Strokes /\ doc \in Board /\ doc[<<s, "Add">>] = NoStamp
  BY Shapes DEF Fresh
<1> QED
  BY <1>1, SeenWhenVisible

LEMMA FreshStays ==
  ASSUME NEW s \in Fresh, doc'[<<s, "Add">>] = doc[<<s, "Add">>] PROVE s \in Fresh'
BY DEF Fresh

-----------------------------------------------------------------------------
(* Steps that change nothing, and steps that record a group.                 *)

\* Nothing the log speaks of.
LEMMA Quiet ==
  ASSUME LogInv, HistInv', doc' = doc, Erasing' = Erasing, undo' = undo, redo' = redo, foreign' = foreign
  PROVE  LogStep /\ Erased' /\ ChainedInv'
<1>1. Picture' = Picture /\ Lifted' = Lifted
  BY DEF Picture, Lifted
<1>2. Now' = Now /\ Past' = Past /\ Future' = Future /\ ChainedInv'
  BY <1>1, SamePicture DEF LogInv
<1>3. Erased'
  BY DEF LogInv, Erased
<1> QED
  BY <1>1, <1>2, <1>3, LogStutters

\* Every stroke of the group comes or goes, and the group says which.
LEMMA Edits ==
  ASSUME LogInv, HistInv', foreign' = foreign, Erasing' = Erasing, NEW group \in Seq(Op), Record(group),
         \A s \in Strokes \ IdsOf(group) : s \in Visible(doc') <=> s \in Visible(doc),
         \A s \in IdsOf(group) : s \in Visible(doc) <=> s \notin Visible(doc'),
         \A k \in 1 .. Len(group) :
           /\ group[k].id \notin foreign => group[k].id \notin IdsOf(Erasing)
           /\ group[k].id \in Visible(doc') <=> group[k].kind = "Add"
  PROVE  LogStep /\ Erased' /\ ChainedInv'
<1> DEFINE p == Picture
           q == Picture'
           e == IdsOf(Erasing)
<1>0. /\ HistInv /\ Erased /\ ChainedInv /\ p \in SUBSET Strokes /\ q \in SUBSET Strokes
      /\ Erasing \in Seq(Op) /\ e \in SUBSET Strokes
  BY Shapes, NextPicture DEF LogInv
<1>1. p = Visible(doc) \cup e /\ q = Visible(doc') \cup e
  BY DEF Picture
<1>2. DOMAIN group = 1 .. Len(group) /\ \A k \in 1 .. Len(group) : group[k] \in Op
  OBVIOUS
<1>3. IdsOf(group) \in SUBSET Strokes /\ \A s \in IdsOf(group) : s \notin foreign => s \notin e
  <2>1. \A s \in IdsOf(group) : \E k \in 1 .. Len(group) : s = group[k].id
    BY <1>2 DEF IdsOf
  <2>2. \A k \in 1 .. Len(group) : group[k].id \in Strokes
    BY <1>2, OpShape
  <2> QED
    BY <2>1, <2>2
<1> HIDE DEF p, q, e
<1>4. ASSUME NEW s \in Strokes \ foreign PROVE s \in p <=> s \in Reverted(q, group)
  <2>1. CASE s \in IdsOf(group)
    <3>1. PICK adds \in BOOLEAN : adds <=> s \in Visible(doc')
      BY Zenon
    <3>2. \A k \in 1 .. Len(group) : group[k].id = s => (group[k].kind = "Add" <=> adds)
      BY <3>1
    <3>3. s \in Reverted(q, group) <=> ~adds
      BY <2>1, <3>2, RevertedAlike
    <3>4. s \in p <=> s \in Visible(doc)
      BY <1>1, <1>3, <2>1
    <3> QED
      BY <2>1, <3>1, <3>3, <3>4
  <2>2. CASE s \notin IdsOf(group)
    <3>1. s \in Reverted(q, group) <=> s \in q
      BY <2>2, RevertedElsewhere
    <3> QED
      BY <1>1, <2>2, <3>1
  <2> QED
    BY <2>1, <2>2
<1>5. ASSUME NEW k \in 1 .. Len(group), group[k].id \notin foreign PROVE group[k].id \in q <=> group[k].kind = "Add"
  BY <1>1, <1>5 DEF e
<1>6. Past' = Log!Newest(Append(Past, Now)) /\ Future' = <<>> /\ ChainedInv'
  <2>1. \A s \in Strokes \ foreign : s \in Picture <=> s \in Reverted(Picture', group)
    BY <1>4 DEF p, q
  <2>2. \A k \in 1 .. Len(group) :
          group[k].id \notin foreign => (group[k].id \in Picture' <=> group[k].kind = "Add")
    BY <1>5 DEF q
  <2> QED
    BY <1>0, <2>1, <2>2, Recorded
<1>7. Lifted' = Lifted /\ Lifted = e \ foreign /\ Now' = q \ foreign
  BY DEF Lifted, Now, e, q
<1>8. Erased'
  <2> SUFFICES ASSUME NEW i \in 1 .. Len(Erasing)
               PROVE  /\ Erasing[i].kind = "Remove"
                      /\ Erasing[i].id \notin foreign => Erasing[i].id \notin Visible(doc')
    BY DEF Erased
  <2>1. DOMAIN Erasing = 1 .. Len(Erasing) /\ Erasing[i] \in Op
    BY <1>0
  <2>2. Erasing[i].id \in e /\ Erasing[i].id \in Strokes
    BY <2>1, OpShape DEF IdsOf, e
  <2>3. Erasing[i].id \notin foreign => Erasing[i].id \notin IdsOf(group)
    BY <1>3, <2>2
  <2> QED
    BY <1>0, <2>2, <2>3 DEF Erased
<1>9. Now' \in SUBSET (Strokes \ foreign) /\ Lifted \subseteq Now'
  BY <1>0, <1>1, <1>7
<1> QED
  BY <1>6, <1>7, <1>8, <1>9, LogDoes

LEMMA NoneIsNoGroup == \A group \in Seq(Op) : group # None
BY HistoryAssumption

\* A new stroke becomes an entry of its own.
LEMMA CommitMoves ==
  ASSUME LogInv, HistInv', NEW s \in Fresh, CommitStroke(s), Erasing = <<>>, Erasing' = <<>>,
         foreign' = foreign
  PROVE  /\ LogStep /\ Erased' /\ ChainedInv'
         /\ \A t \in Fresh : t # s => t \in Fresh'
<1> DEFINE op == [id |-> s, kind |-> "Add", ts |-> Stamped(1)]
<1>1. /\ HistInv /\ DocInv /\ doc \in Board /\ s \in Strokes /\ s \notin Visible(doc)
      /\ \A t \in Fresh : t \in Strokes
  BY Shapes, FreshUnseen DEF LogInv, HistInv
<1>2. Tick(1) /\ doc' = ApplyTo(doc, op) /\ Record(<<op>>)
  BY DEF CommitStroke
<1>3. op \in Op /\ op.id = s /\ op.kind = "Add" /\ op.ts = Stamped(1)
  BY <1>1, <1>2, TickOne DEF Op, Kinds
<1> HIDE DEF op
<1> DEFINE group == <<op>>
<1>4. group \in Seq(Op) /\ Len(group) = 1 /\ group[1] = op /\ IdsOf(group) = {s}
  BY <1>3 DEF IdsOf
<1> HIDE DEF group
<1>5. s \in Visible(doc')
  BY <1>1, <1>2, <1>3, NewestOpRules
<1>6. ASSUME NEW t \in Strokes, t # s
      PROVE  doc'[<<t, "Add">>] = doc[<<t, "Add">>] /\ (t \in Visible(doc') <=> t \in Visible(doc))
  BY <1>1, <1>2, <1>3, <1>6, OthersStay
<1>7. \A t \in Fresh : t # s => t \in Fresh'
  BY <1>1, <1>6, FreshStays
<1>8. IdsOf(Erasing) = {}
  BY DEF IdsOf
<1>9. LogStep /\ Erased' /\ ChainedInv'
  <2>1. \A r \in Strokes \ IdsOf(group) : r \in Visible(doc') <=> r \in Visible(doc)
    BY <1>4, <1>6
  <2>2. \A r \in IdsOf(group) : r \in Visible(doc) <=> r \notin Visible(doc')
    BY <1>1, <1>4, <1>5
  <2>3. \A k \in 1 .. Len(group) :
           /\ group[k].id \notin IdsOf(Erasing)
           /\ group[k].id \in Visible(doc') <=> group[k].kind = "Add"
    BY <1>3, <1>4, <1>5, <1>8
  <2>4. Record(group) /\ Erasing' = Erasing
    BY <1>2 DEF group
  <2> QED
    BY <1>4, <2>1, <2>2, <2>3, <2>4, Edits
<1> QED
  BY <1>7, <1>9

\* Removing a visible stroke, however it is recorded.
LEMMA RemoveMoves ==
  ASSUME HistInv, NEW s \in Visible(doc), Tick(1), doc' = ApplyTo(doc, RemoveOp(s))
  PROVE  /\ s \in Strokes /\ s \notin Visible(doc')
         /\ \A t \in Strokes : t # s => (t \in Visible(doc') <=> t \in Visible(doc))
         /\ RemoveOp(s) \in Op /\ RemoveOp(s).id = s /\ RemoveOp(s).kind = "Remove"
         /\ \A t \in Fresh : t \in Fresh'
<1>1. DocInv /\ doc \in Board /\ s \in Strokes /\ \A t \in Fresh : t \in Strokes
  BY Shapes, FreshUnseen DEF HistInv
<1>2. RemoveOp(s) \in Op /\ RemoveOp(s).id = s /\ RemoveOp(s).kind = "Remove" /\ RemoveOp(s).ts = Stamped(1)
  BY <1>1, TickOne DEF RemoveOp, Op, Kinds
<1> DEFINE op == RemoveOp(s)
<1> HIDE DEF op
<1>3. op \in Op /\ op.id = s /\ op.kind = "Remove" /\ op.ts = Stamped(1) /\ doc' = ApplyTo(doc, op)
  BY <1>2 DEF op
<1>4. s \notin Visible(doc') /\ doc'[<<s, "Add">>] = doc[<<s, "Add">>]
  BY <1>3, NewestOpRules
<1>5. ASSUME NEW t \in Strokes, t # s
      PROVE  doc'[<<t, "Add">>] = doc[<<t, "Add">>] /\ (t \in Visible(doc') <=> t \in Visible(doc))
  BY <1>1, <1>3, <1>5, OthersStay
<1>6. \A t \in Fresh : t \in Fresh'
  BY <1>1, <1>4, <1>5, FreshStays
<1> QED
  BY <1>1, <1>2, <1>4, <1>5, <1>6

\* The drag takes a stroke off the picture.
LEMMA TouchMoves ==
  ASSUME LogInv, HistInv', NEW s \in Visible(doc), Touch(s, Erasing), undo' = undo, redo' = redo
  PROVE  LogStep /\ Erased' /\ ChainedInv'
<1> DEFINE e == IdsOf(Erasing)
           n == Len(Erasing)
<1>1. HistInv /\ Erased /\ ChainedInv /\ Erasing \in Seq(Op) /\ Erasing # None
  BY Shapes, NoneIsNoGroup DEF LogInv
<1>2. Tick(1) /\ doc' = ApplyTo(doc, RemoveOp(s)) /\ erasing' = Append(Erasing, RemoveOp(s)) /\ foreign' = foreign
  BY <1>1 DEF Touch
<1>3. /\ s \in Strokes /\ s \notin Visible(doc')
      /\ \A t \in Strokes : t # s => (t \in Visible(doc') <=> t \in Visible(doc))
      /\ RemoveOp(s) \in Op /\ RemoveOp(s).id = s /\ RemoveOp(s).kind = "Remove"
  BY <1>1, <1>2, RemoveMoves
<1>4. /\ Erasing' = Append(Erasing, RemoveOp(s)) /\ Len(Append(Erasing, RemoveOp(s))) = n + 1
      /\ n \in Nat /\ DOMAIN Erasing = 1 .. n /\ DOMAIN Append(Erasing, RemoveOp(s)) = 1 .. n + 1
      /\ Append(Erasing, RemoveOp(s))[n + 1] = RemoveOp(s)
      /\ \A i \in 1 .. n : Append(Erasing, RemoveOp(s))[i] = Erasing[i]
  <2>1. Append(Erasing, RemoveOp(s)) \in Seq(Op)
    BY <1>1, <1>3
  <2>2. Erasing' = Append(Erasing, RemoveOp(s))
    BY <1>2, <2>1, NoneIsNoGroup DEF Erasing
  <2> HIDE DEF Op
  <2> QED
    BY <1>1, <1>3, <2>1, <2>2
<1> DEFINE longer == Append(Erasing, RemoveOp(s))
<1> HIDE DEF longer
<1>5. /\ Erasing' = longer /\ Len(longer) = n + 1 /\ n \in Nat /\ DOMAIN Erasing = 1 .. n
      /\ DOMAIN longer = 1 .. n + 1 /\ longer[n + 1] = RemoveOp(s)
      /\ \A i \in 1 .. n : longer[i] = Erasing[i]
  BY <1>4 DEF longer
<1>6. \A i \in 1 .. n + 1 : i \in 1 .. n \/ i = n + 1
  BY <1>5
<1>7. \A i \in 1 .. n : i \in 1 .. n + 1
  BY <1>5
<1>8. n + 1 \in 1 .. n + 1
  BY <1>5
<1>9. IdsOf(longer) = e \cup {s}
  BY <1>3, <1>5, <1>6, <1>7, <1>8 DEF IdsOf
<1>10. Picture' = Picture
  <2>1. Visible(doc') \cup {s} = Visible(doc)
    <3>1. \A t \in Visible(doc) : t \in Strokes
      BY DEF Visible
    <3>2. \A t \in Visible(doc') : t \in Strokes
      BY DEF Visible
    <3> QED
      BY <1>3, <3>1, <3>2
  <2>2. Picture' = Visible(doc') \cup (e \cup {s}) /\ Picture = Visible(doc) \cup e
    BY <1>5, <1>9 DEF Picture
  <2> QED
    BY <2>1, <2>2
<1>11. Now' = Now /\ Past' = Past /\ Future' = Future /\ ChainedInv'
  BY <1>1, <1>2, <1>10, SamePicture
<1>12. Erased'
  <2> SUFFICES ASSUME NEW i \in 1 .. n + 1
               PROVE  /\ longer[i].kind = "Remove"
                      /\ longer[i].id \notin foreign => longer[i].id \notin Visible(doc')
    BY <1>2, <1>5 DEF Erased
  <2>1. CASE i = n + 1
    BY <1>3, <1>5, <2>1
  <2>2. CASE i \in 1 .. n
    <3>1. Erasing[i].kind = "Remove" /\ (Erasing[i].id \notin foreign => Erasing[i].id \notin Visible(doc))
      BY <1>1, <2>2 DEF Erased
    <3>2. Erasing[i].id \in Strokes
      <4>1. Erasing[i] \in Op
        BY <1>1, <2>2
      <4> QED
        BY <4>1, OpShape
    <3> QED
      BY <1>3, <1>5, <2>2, <3>1, <3>2
  <2> QED
    BY <1>6, <2>1, <2>2
<1>13. Lifted = e \ foreign /\ Lifted' = (e \cup {s}) \ foreign
  BY <1>2, <1>5, <1>9 DEF Lifted
<1>14. CASE s \in foreign
  BY <1>2, <1>11, <1>12, <1>13, <1>14, LogStutters
<1>15. CASE s \notin foreign
  <2>1. s \in Now
    BY <1>15 DEF Now, Picture
  <2>2. s \notin e
    BY <1>1, <1>5, <1>15 DEF Erased, IdsOf
  <2>3. s \in Now \ Lifted /\ Lifted' = Lifted \cup {s}
    BY <1>13, <1>15, <2>1, <2>2
  <2> QED
    BY <1>2, <1>11, <1>12, <2>3, LogLifts
<1> QED
  BY <1>14, <1>15

\* An eraser that belongs to no drag, over a stroke of the history or of none.
LEMMA UngroupedMoves ==
  ASSUME LogInv, HistInv', erasing = None, NEW s \in Visible(doc), Touch(s, None),
         undo' = undo, redo' = redo
  PROVE  LogStep /\ Erased' /\ ChainedInv'
<1>1. /\ HistInv /\ Tick(1) /\ doc' = ApplyTo(doc, RemoveOp(s)) /\ erasing' = erasing
      /\ foreign' = foreign \cup {r \in {s} : Mentioned(r)}
  BY DEF Touch, LogInv
<1>2. /\ s \in Strokes /\ s \notin Visible(doc')
      /\ \A t \in Strokes : t # s => (t \in Visible(doc') <=> t \in Visible(doc))
  BY <1>1, RemoveMoves
<1>3. PICK flips \in BOOLEAN : flips <=> ~(s \in Visible(doc) <=> s \in Visible(doc'))
  BY Zenon
<1>4. flips
  BY <1>2, <1>3
<1>5. foreign' = IF Mentioned(s) /\ flips THEN foreign \cup {s} ELSE foreign
  BY <1>1, <1>4
<1> QED
  BY <1>1, <1>2, <1>3, <1>5, Meddles

\* A drag that ends becomes an entry.
LEMMA SettleMoves ==
  ASSUME LogInv, HistInv', FinishErase, erasing' = None, doc' = doc, foreign' = foreign
  PROVE  LogStep /\ Erased' /\ ChainedInv'
<1> DEFINE e == IdsOf(Erasing)
<1>1. HistInv /\ Erased /\ ChainedInv /\ Erasing \in Seq(Op) /\ Erasing' = <<>> /\ e \in SUBSET Strokes
  BY Shapes DEF LogInv, Erasing
<1>2. CASE Erasing = <<>>
  <2>1. undo' = undo /\ redo' = redo
    BY <1>2 DEF FinishErase, Forgotten
  <2> QED
    BY <1>1, <1>2, <2>1, Quiet
<1>3. CASE Erasing # <<>>
  <2>1. Record(Erasing) /\ IdsOf(<<>>) = {}
    BY <1>3 DEF FinishErase, IdsOf
  <2>2. Picture = Visible(doc) \cup e /\ Picture' = Visible(doc)
    BY <1>1, <2>1 DEF Picture
  <2>3. DOMAIN Erasing = 1 .. Len(Erasing)
    BY <1>1
  <2>4. ASSUME NEW s \in Strokes PROVE s \in Picture <=> s \in Reverted(Picture', Erasing)
    <3>1. CASE s \in e
      <4>1. \A k \in 1 .. Len(Erasing) : Erasing[k].id = s => (Erasing[k].kind = "Add" <=> FALSE)
        BY <1>1 DEF Erased
      <4>2. s \in Reverted(Picture', Erasing) <=> ~FALSE
        BY <1>1, <3>1, <4>1, RevertedAlike
      <4> QED
        BY <2>2, <3>1, <4>2
    <3>2. CASE s \notin e
      <4>1. s \in Reverted(Picture', Erasing) <=> s \in Picture'
        BY <3>2, RevertedElsewhere
      <4> QED
        BY <2>2, <3>2, <4>1
    <3> QED
      BY <3>1, <3>2
  <2>5. \A k \in 1 .. Len(Erasing) :
          Erasing[k].id \notin foreign => (Erasing[k].id \in Picture' <=> Erasing[k].kind = "Add")
    BY <1>1, <2>2 DEF Erased
  <2>6. Past' = Log!Newest(Append(Past, Now)) /\ Future' = <<>> /\ ChainedInv'
    BY <1>1, <2>1, <2>4, <2>5, Recorded
  <2>7. \A s \in e : s \notin foreign => s \notin Visible(doc)
    BY <1>1, <2>3 DEF Erased, IdsOf
  <2>8. Lifted' = {} /\ Now' = Now \ Lifted
    <3>1. Now = (Visible(doc) \cup e) \ foreign /\ Now' = Visible(doc) \ foreign /\ Lifted = e \ foreign
      BY <2>2 DEF Now, Lifted
    <3>2. Lifted' = {}
      BY <1>1, <2>1 DEF Lifted
    <3> QED
      BY <2>7, <3>1, <3>2
  <2>9. Erased'
    BY <1>1 DEF Erased
  <2> QED
    BY <2>6, <2>8, <2>9, LogSettles
<1> QED
  BY <1>2, <1>3

\* One stroke goes: no drag is in progress.
LEMMA ClickMoves ==
  ASSUME LogInv, HistInv', ClickErase
  PROVE  /\ LogStep /\ Erased' /\ ChainedInv'
         /\ \A t \in Fresh : t \in Fresh'
<1>1. /\ HistInv /\ erasing = None /\ erasing' = None /\ foreign' = foreign
      /\ Erasing = <<>> /\ Erasing' = <<>>
  BY DEF LogInv, GestureKept, ClickErase, Erasing
<1>2. PICK s \in Visible(doc) :
         /\ Tick(1) /\ doc' = ApplyTo(doc, RemoveOp(s))
         /\ Record(Append(Erasing, RemoveOp(s)))
  BY DEF ClickErase
<1>3. /\ s \in Strokes /\ s \notin Visible(doc')
      /\ \A t \in Strokes : t # s => (t \in Visible(doc') <=> t \in Visible(doc))
      /\ RemoveOp(s) \in Op /\ RemoveOp(s).id = s /\ RemoveOp(s).kind = "Remove"
      /\ \A t \in Fresh : t \in Fresh'
  BY <1>1, <1>2, RemoveMoves
<1> DEFINE group == Append(Erasing, RemoveOp(s))
<1>4. group \in Seq(Op) /\ Len(group) = 1 /\ group[1] = RemoveOp(s) /\ IdsOf(group) = {s}
  <2>1. group = <<RemoveOp(s)>>
    BY <1>1
  <2> QED
    BY <1>3, <2>1 DEF IdsOf
<1>5. Record(group) /\ Erasing' = Erasing
  BY <1>1, <1>2
<1> HIDE DEF group
<1>6. IdsOf(Erasing) = {}
  BY <1>1 DEF IdsOf
<1>7. \A r \in Strokes \ IdsOf(group) : r \in Visible(doc') <=> r \in Visible(doc)
  BY <1>3, <1>4
<1>8. \A r \in IdsOf(group) : r \in Visible(doc) <=> r \notin Visible(doc')
  BY <1>3, <1>4
<1>9. \A k \in 1 .. Len(group) :
         /\ group[k].id \notin IdsOf(Erasing)
         /\ group[k].id \in Visible(doc') <=> group[k].kind = "Add"
  BY <1>3, <1>4, <1>6
<1>10. LogStep /\ Erased' /\ ChainedInv'
  BY <1>1, <1>4, <1>5, <1>7, <1>8, <1>9, Edits
<1> QED
  BY <1>3, <1>10

\* All strokes of this client go at once.  The eraser may hold some of them,
\* but only foreign ones, since these are all it can have erased and still show.
LEMMA ClearMoves ==
  ASSUME LogInv, HistInv', ClearMine
  PROVE  /\ LogStep /\ Erased' /\ ChainedInv'
         /\ \A t \in Fresh : t \in Fresh'
<1> DEFINE n == Cardinality(Mine)
           clearing(list) == [i \in DOMAIN list |->
                                [id |-> list[i], kind |-> "Remove", ts |-> Stamped(i)]]
<1>0. /\ HistInv /\ Erased /\ doc \in Board /\ clock \in Nat /\ Ticked
      /\ Erasing' = Erasing /\ foreign' = foreign /\ Erasing \in Seq(Op)
  BY Shapes DEF LogInv, ClearMine, Erasing
<1>1. n \in Nat
  <2>1. Mine \subseteq Strokes
    BY DEF Mine, Visible
  <2>2. IsFiniteSet(Mine)
    BY <2>1, HistoryAssumption, FS_Subset
  <2> QED
    BY <2>2, FS_CardinalityType
<1>2. PICK list \in MineInOrder : doc' = Applied(clearing(list)) /\ Record(clearing(list))
  BY DEF ClearMine
<1> DEFINE g == clearing(list)
<1>3. /\ list \in [1 .. n -> Mine]
      /\ \A i, j \in 1 .. n : i < j => Before(doc[<<list[i], "Add">>], doc[<<list[j], "Add">>])
  <2>1. list \in [1 .. n -> Mine]
    BY DEF MineInOrder
  <2>2. DOMAIN list = 1 .. n
    BY <2>1
  <2> QED
    BY <2>1, <2>2 DEF MineInOrder
<1>4. ASSUME NEW i \in 1 .. n
      PROVE  /\ list[i] \in Visible(doc) /\ list[i] \in Strokes
             /\ g[i] \in Op /\ g[i].id = list[i] /\ g[i].kind = "Remove" /\ g[i].ts = Stamped(i)
             /\ SlotOf(g[i]) = <<list[i], "Remove">>
             /\ Stamped(i).counter = clock + i
  <2>1. list[i] \in Visible(doc) /\ list[i] \in Strokes /\ DOMAIN list = 1 .. n
    BY <1>3 DEF Mine, Visible
  <2>2. Stamped(i) \in Stamp /\ Stamped(i).counter = clock + i
    BY <1>0, <1>1, StampedType
  <2>3. g[i] = [id |-> list[i], kind |-> "Remove", ts |-> Stamped(i)]
    BY <2>1
  <2> HIDE DEF g
  <2> QED
    BY <2>1, <2>2, <2>3 DEF Op, Kinds, SlotOf
<1>5. g \in Seq(Op) /\ Len(g) = n /\ DOMAIN g = 1 .. n
  <2>1. g \in [1 .. n -> Op]
    <3>1. DOMAIN list = 1 .. n /\ g = [i \in 1 .. n |-> g[i]]
      BY <1>3
    <3> HIDE DEF g
    <3> QED
      BY <1>4, <3>1
  <2> HIDE DEF g, n
  <2> QED
    BY <1>1, <2>1, FunctionIsSeq
<1> HIDE DEF g, n
<1>6. doc' = Applied(g) /\ Record(g) /\ FreshlyStamped(g)
  BY <1>2, <1>4, <1>5 DEF g, FreshlyStamped
<1>7. doc' \in Board /\ Overwritten(g, n, doc')
  BY <1>0, <1>5, <1>6, FreshOpsWin
<1>8. ASSUME NEW t \in Strokes PROVE doc'[<<t, "Add">>] = doc[<<t, "Add">>]
  <2>1. <<t, "Add">> \in Slots /\ \A i \in 1 .. Len(g) : SlotOf(g[i]) # <<t, "Add">>
    BY <1>4, <1>5 DEF Slots, Kinds
  <2> QED
    BY <1>0, <1>5, <1>6, <2>1, AppliedElsewhere
<1>9. ASSUME NEW k \in 1 .. n PROVE list[k] \notin Visible(doc')
  <2> DEFINE a == <<list[k], "Add">>
             r == <<list[k], "Remove">>
  <2>1. a \in Slots /\ r \in Slots /\ list[k] \in Strokes
    BY <1>4 DEF Slots, Kinds
  <2>2. doc[a].counter \in Nat /\ doc[a].counter <= clock /\ doc[a].client \in Nat
    BY <1>0, <2>1, BoardType, MarkShape DEF Ticked
  <2>3. UpTo(g, n, r, k)
    <3> SUFFICES ASSUME NEW i \in 1 .. n, SlotOf(g[i]) = r, k < i PROVE FALSE
      BY <1>1 DEF UpTo
    <3>1. list[i] = list[k]
      BY <1>4
    <3>2. Before(doc[a], doc[a])
      BY <1>3, <3>1
    <3> QED
      BY <2>2, <3>2 DEF Before
  <2>4. SlotOf(g[k]) = r
    BY <1>4
  <2>5. doc'[r] = Stamped(k)
    BY <1>7, <2>1, <2>3, <2>4 DEF Overwritten
  <2>6. doc'[r].counter = clock + k /\ doc'[a] = doc[a] /\ k \in Nat \ {0}
    BY <1>1, <1>4, <1>8, <2>1, <2>5
  <2>7. ~IsVisible(doc', list[k])
    BY <1>0, <2>2, <2>6 DEF IsVisible, Before
  <2> QED
    BY <2>7 DEF Visible
<1>10. ASSUME NEW t \in Strokes \ IdsOf(g) PROVE t \in Visible(doc') <=> t \in Visible(doc)
  <2>1. <<t, "Remove">> \in Slots
    BY DEF Slots, Kinds
  <2>2. \A i \in 1 .. Len(g) : g[i].id # t
    BY <1>5 DEF IdsOf
  <2>3. \A i \in 1 .. Len(g) : SlotOf(g[i]) # <<t, "Remove">>
    BY <2>2 DEF SlotOf
  <2>4. doc'[<<t, "Remove">>] = doc[<<t, "Remove">>]
    BY <1>0, <1>5, <1>6, <2>1, <2>3, AppliedElsewhere
  <2>5. IsVisible(doc', t) <=> IsVisible(doc, t)
    BY <1>8, <2>4, Zenon DEF IsVisible
  <2> QED
    BY <2>5 DEF Visible
<1>11. \A s \in IdsOf(g) : \E k \in 1 .. n : s = list[k]
  BY <1>4, <1>5 DEF IdsOf
<1>12. \A s \in IdsOf(g) : s \in Visible(doc) <=> s \notin Visible(doc')
  BY <1>4, <1>9, <1>11
<1>13. ASSUME NEW k \in 1 .. n, list[k] \notin foreign PROVE list[k] \notin IdsOf(Erasing)
  <2> SUFFICES ASSUME list[k] \in IdsOf(Erasing) PROVE FALSE
    OBVIOUS
  <2>1. PICK i \in 1 .. Len(Erasing) : Erasing[i].id = list[k]
    BY <1>0 DEF IdsOf
  <2>2. list[k] \notin Visible(doc)
    BY <1>0, <1>13, <2>1 DEF Erased
  <2> QED
    BY <1>4, <2>2
<1>14. \A k \in 1 .. Len(g) :
         /\ g[k].id \notin foreign => g[k].id \notin IdsOf(Erasing)
         /\ g[k].id \in Visible(doc') <=> g[k].kind = "Add"
  BY <1>4, <1>5, <1>9, <1>13
<1>15. LogStep /\ Erased' /\ ChainedInv'
  BY <1>0, <1>5, <1>6, <1>10, <1>12, <1>14, Edits
<1>16. \A t \in Fresh : t \in Fresh'
  BY <1>8, FreshStays, FreshType
<1> QED
  BY <1>15, <1>16

\* What is being drawn is still unknown to everybody.
LEMMA GestureStays ==
  ASSUME GestureKept, UNCHANGED <<tool, held, drawing, text, erasing>>, \A t \in Fresh : t \in Fresh'
  PROVE  GestureKept'
BY DEF GestureKept

LEMMA FinishTextMoves ==
  ASSUME LogInv, HistInv', NEW commit, FinishText(commit), Erasing = <<>>, Erasing' = <<>>,
         foreign' = foreign
  PROVE  /\ LogStep /\ Erased' /\ ChainedInv'
         /\ \A t \in Fresh : (text # None => t # text.id) => t \in Fresh'
<1>1. CASE text # None /\ text.filled /\ commit
  <2>1. text.id \in Fresh /\ CommitStroke(text.id)
    BY <1>1 DEF LogInv, GestureKept, FinishText
  <2> QED
    BY <1>1, <2>1, CommitMoves
<1>2. CASE ~(text # None /\ text.filled /\ commit)
  <2>1. doc' = doc /\ undo' = undo /\ redo' = redo
    BY <1>2 DEF FinishText
  <2>2. \A t \in Fresh : t \in Fresh'
    BY <2>1, FreshStays
  <2> QED
    BY <2>1, <2>2, Quiet
<1> QED
  BY <1>1, <1>2

LEMMA TakenFresh ==
  ASSUME HistInv, NEW group \in Entry(doc), TakeBack(group), NEW t \in Fresh PROVE t \in Fresh'
<1>1. t \in Strokes /\ doc[<<t, "Add">>] = NoStamp
  BY DEF Fresh
<1>2. group \in Seq(Op) /\ \A i \in 1 .. Len(group) : doc[<<group[i].id, "Add">>] # NoStamp
  BY DEF Entry, Reversible
<1>3. t \notin IdsOf(group)
  BY <1>1, <1>2 DEF IdsOf
<1> QED
  BY <1>1, <1>3, TakenElsewhere, FreshStays

\* Another client cannot name what this one is still drawing.
LEMMA RemoteMoves ==
  ASSUME LogInv, HistInv', Remote
  PROVE  /\ LogStep /\ Erased' /\ ChainedInv'
         /\ \A t \in Fresh : t \in Fresh'
<1>1. PICK s \in {r \in Strokes : Known(r)}, kind \in Kinds, c \in Clients, n \in 1 .. MaxClock :
         LET op == [id |-> s, kind |-> kind, ts |-> [counter |-> n, client |-> c]] IN
           /\ doc' = ApplyTo(doc, op)
           /\ foreign' = IF Mentioned(s) /\ IsVisible(doc, s) # IsVisible(ApplyTo(doc, op), s)
                         THEN foreign \cup {s} ELSE foreign
  BY DEF Remote
<1> DEFINE op == [id |-> s, kind |-> kind, ts |-> [counter |-> n, client |-> c]]
<1>2. op \in Op /\ op.id = s
  BY HistoryAssumption DEF Op, Stamp
<1>3. doc' = ApplyTo(doc, op)
      /\ foreign' = IF Mentioned(s) /\ IsVisible(doc, s) # IsVisible(doc', s)
                    THEN foreign \cup {s} ELSE foreign
  BY <1>1
<1> HIDE DEF op
<1>4. HistInv /\ doc \in Board /\ s \in Strokes /\ Known(s) /\ \A t \in Fresh : t \in Strokes
  BY Shapes, FreshType DEF LogInv
<1>5. ASSUME NEW t \in Strokes, t # s
      PROVE  doc'[<<t, "Add">>] = doc[<<t, "Add">>] /\ (t \in Visible(doc') <=> t \in Visible(doc))
  BY <1>2, <1>3, <1>4, <1>5, OthersStay
<1>6. \A t \in Fresh : t # s
  BY <1>4 DEF Fresh, Known
<1>7. \A t \in Fresh : t \in Fresh'
  BY <1>4, <1>5, <1>6, FreshStays
<1>8. PICK flips \in BOOLEAN : flips <=> ~(s \in Visible(doc) <=> s \in Visible(doc'))
  BY Zenon
<1>9. IsVisible(doc, s) \in BOOLEAN /\ IsVisible(doc', s) \in BOOLEAN
  BY DEF IsVisible, Before
<1>10. (IsVisible(doc, s) # IsVisible(doc', s)) <=> flips
  <2>1. (IsVisible(doc, s) <=> s \in Visible(doc)) /\ (IsVisible(doc', s) <=> s \in Visible(doc'))
    BY <1>4 DEF Visible
  <2> QED
    BY <1>8, <1>9, <2>1, Zenon
<1>11. foreign' = IF Mentioned(s) /\ flips THEN foreign \cup {s} ELSE foreign
  BY <1>3, <1>10
<1>12. erasing' = erasing /\ undo' = undo /\ redo' = redo
  BY DEF Remote
<1>13. LogStep /\ Erased' /\ ChainedInv'
  BY <1>4, <1>5, <1>8, <1>11, <1>12, Meddles
<1> QED
  BY <1>7, <1>13

-----------------------------------------------------------------------------
(* Every step *)

LEMMA LogInit == Init => LogInv /\ Log!Init
<1> SUFFICES ASSUME Init PROVE LogInv /\ Log!Init
  OBVIOUS
<1>1. HistInv
  BY HistInit
<1>2. Erasing = <<>> /\ undo = <<>> /\ redo = <<>> /\ doc = Empty /\ foreign = {}
  BY DEF Init, Erasing
<1>3. Visible(doc) = {}
  <2>1. ASSUME NEW s \in Strokes PROVE ~IsVisible(doc, s)
    <3>1. doc[<<s, "Add">>] = NoStamp /\ doc[<<s, "Remove">>] = NoStamp
      BY <1>2 DEF Empty, Slots, Kinds
    <3>2. ~Before(NoStamp, NoStamp)
      BY DEF Before, NoStamp
    <3> QED
      BY <3>1, <3>2 DEF IsVisible
  <2> QED
    BY <2>1 DEF Visible
<1>4. IdsOf(Erasing) = {} /\ Picture = {}
  BY <1>2, <1>3 DEF IdsOf, Picture
<1>5. GestureKept /\ Erased /\ ChainedInv
  BY <1>2 DEF Init, GestureKept, Erased, ChainedInv, Chained
<1>6. Unwound(Picture, undo) = <<>> /\ Unwound(Picture, redo) = <<>>
  BY <1>2 DEF Unwound
<1> QED
  BY <1>1, <1>2, <1>4, <1>5, <1>6 DEF LogInv, Log!Init

LEMMA LogNext == LogInv /\ [Next]_vars => LogStep /\ LogInv'
<1> SUFFICES ASSUME LogInv, [Next]_vars PROVE LogStep /\ LogInv'
  OBVIOUS
<1> USE DEF gesture
<1>0. HistInv /\ HistInv' /\ GestureKept
  BY HistNext DEF LogInv
<1> DEFINE Moved == LogStep /\ Erased' /\ ChainedInv'
           FreshKept == \A t \in Fresh : t \in Fresh'
<1>a. ASSUME doc' = doc PROVE FreshKept
  BY <1>a, FreshStays
<1>b. ASSUME Moved, GestureKept' PROVE LogStep /\ LogInv'
  BY <1>0, <1>b DEF LogInv
<1> HIDE DEF FreshKept, Moved
<1>1. CASE StartDrawing
  <2>1. Moved
    BY <1>0, <1>1, Quiet DEF StartDrawing, Erasing, Moved
  <2>2. GestureKept'
    BY <1>0, <1>1, <1>a DEF StartDrawing, GestureKept, FreshKept
  <2> QED
    BY <1>b, <2>1, <2>2
<1>2. CASE StopDrawing
  <2>1. /\ drawing \in Fresh /\ CommitStroke(drawing) /\ foreign' = foreign
        /\ text = None /\ erasing = None /\ erasing' = erasing /\ text' = text /\ drawing' = None
    BY <1>0, <1>2 DEF StopDrawing, GestureKept
  <2>2. Erasing = <<>> /\ Erasing' = <<>>
    BY <2>1 DEF Erasing
  <2>3. Moved
    BY <1>0, <2>1, <2>2, CommitMoves DEF Moved
  <2>4. GestureKept'
    BY <2>1 DEF GestureKept
  <2> QED
    BY <1>b, <2>3, <2>4
<1>3. CASE DropDrawing
  <2>1. Moved
    BY <1>0, <1>3, Quiet DEF DropDrawing, Erasing, Moved
  <2>2. GestureKept'
    BY <1>0, <1>3, <1>a DEF DropDrawing, GestureKept, FreshKept
  <2> QED
    BY <1>b, <2>1, <2>2
<1>4. CASE PlaceLabel
  <2>1. /\ FinishText(TRUE) /\ foreign' = foreign /\ erasing = None /\ erasing' = None
        /\ drawing = None /\ drawing' = None /\ tool' = "Text"
    BY <1>0, <1>4 DEF PlaceLabel, GestureKept
  <2>2. Erasing = <<>> /\ Erasing' = <<>>
    BY <2>1 DEF Erasing
  <2>3. Moved /\ \A t \in Fresh : (text # None => t # text.id) => t \in Fresh'
    BY <1>0, <2>1, <2>2, FinishTextMoves DEF Moved
  <2>4. text'.id \in Fresh'
    BY <1>4, <2>3 DEF PlaceLabel
  <2>5. GestureKept'
    BY <2>1, <2>4 DEF GestureKept
  <2> QED
    BY <1>b, <2>3, <2>5
<1>5. CASE Type
  <2>1. Moved
    BY <1>0, <1>5, Quiet DEF Type, Erasing, Moved
  <2>2. text \in [id : Strokes, filled : BOOLEAN] /\ text' = [text EXCEPT !.filled = ~@]
    BY <1>0, <1>5 DEF Type, HistInv, GestureInv
  <2>3. text'.id = text.id
    BY <2>2
  <2>4. GestureKept'
    BY <1>0, <1>5, <1>a, <2>3 DEF Type, GestureKept, FreshKept
  <2> QED
    BY <1>b, <2>1, <2>4
<1>6. CASE CloseEditor
  <2>1. /\ foreign' = foreign /\ erasing = None /\ erasing' = None
        /\ drawing = None /\ drawing' = None /\ text' = None
    BY <1>0, <1>6 DEF CloseEditor, GestureKept
  <2>2. Erasing = <<>> /\ Erasing' = <<>>
    BY <2>1 DEF Erasing
  <2>3. PICK commit \in BOOLEAN : FinishText(commit)
    BY <1>6 DEF CloseEditor
  <2>4. Moved
    BY <1>0, <2>1, <2>2, <2>3, FinishTextMoves DEF Moved
  <2>5. GestureKept'
    BY <2>1 DEF GestureKept
  <2> QED
    BY <1>b, <2>4, <2>5
<1>7. CASE StartErasing
  <2>1. /\ drawing' = None /\ text' = None /\ tool' = "Eraser" /\ held' = TRUE
        /\ undo' = undo /\ redo' = redo
    BY <1>0, <1>7 DEF StartErasing, GestureKept
  <2>2. GestureKept'
    BY <2>1 DEF GestureKept
  <2>3. CASE Miss(Erasing)
    <3>1. Erasing' = Erasing
      BY <1>0, <2>3, Shapes, NoneIsNoGroup DEF Miss, Erasing
    <3>2. Moved
      BY <1>0, <2>1, <2>3, <3>1, Quiet DEF Miss, Moved
    <3> QED
      BY <1>b, <2>2, <3>2
  <2>4. CASE \E s \in Visible(doc) : Touch(s, Erasing)
    <3>1. Moved
      BY <1>0, <2>1, <2>4, TouchMoves DEF Moved
    <3> QED
      BY <1>b, <2>2, <3>1
  <2> QED
    BY <1>7, <2>3, <2>4 DEF StartErasing
<1>8. CASE Erase
  <2>1. /\ tool = "Eraser" /\ held /\ tool' = tool /\ held' = held
        /\ drawing' = None /\ text' = None /\ undo' = undo /\ redo' = redo
    BY <1>0, <1>8 DEF Erase, GestureKept
  <2>2. GestureKept'
    BY <2>1 DEF GestureKept
  <2>3. PICK s \in Visible(doc) : Touch(s, erasing)
    BY <1>8 DEF Erase
  <2>4. CASE erasing = None
    <3>1. Moved
      BY <1>0, <2>1, <2>3, <2>4, UngroupedMoves DEF Moved
    <3> QED
      BY <1>b, <2>2, <3>1
  <2>5. CASE erasing # None
    <3>1. Erasing = erasing
      BY <2>5 DEF Erasing
    <3>2. Moved
      BY <1>0, <2>1, <2>3, <3>1, TouchMoves DEF Moved
    <3> QED
      BY <1>b, <2>2, <3>2
  <2> QED
    BY <2>4, <2>5
<1>9. CASE StopErasing
  <2>1. /\ FinishErase /\ erasing' = None /\ doc' = doc /\ foreign' = foreign
        /\ drawing' = None /\ text' = None
    BY <1>0, <1>9 DEF StopErasing, GestureKept
  <2>2. Moved
    BY <1>0, <2>1, SettleMoves DEF Moved
  <2>3. GestureKept'
    BY <2>1 DEF GestureKept
  <2> QED
    BY <1>b, <2>2, <2>3
<1>10. CASE ClickErase
  <2>1. Moved /\ FreshKept
    BY <1>0, <1>10, ClickMoves DEF Moved, FreshKept
  <2>2. tool' = tool /\ held' = held /\ drawing' = drawing /\ text' = text /\ erasing' = None
    BY <1>10 DEF ClickErase
  <2>3. GestureKept'
    BY <1>0, <2>1, <2>2 DEF GestureKept, FreshKept
  <2> QED
    BY <1>b, <2>1, <2>3
<1>11. CASE SelectTool
  <2>1. drawing' = None /\ text' = None /\ erasing' = None /\ foreign' = foreign
    BY <1>11 DEF SelectTool
  <2>2. GestureKept'
    BY <2>1 DEF GestureKept
  <2>3. CASE text # None
    <3>1. FinishText(TRUE) /\ erasing = None
      BY <1>0, <1>11, <2>3 DEF SelectTool, GestureKept
    <3>2. Erasing = <<>> /\ Erasing' = <<>>
      BY <2>1, <3>1 DEF Erasing
    <3>3. Moved
      BY <1>0, <2>1, <3>1, <3>2, FinishTextMoves DEF Moved
    <3> QED
      BY <1>b, <2>2, <3>3
  <2>4. CASE text = None
    <3>1. FinishErase /\ doc' = doc
      BY <1>11, <2>4 DEF SelectTool
    <3>2. Moved
      BY <1>0, <2>1, <3>1, SettleMoves DEF Moved
    <3> QED
      BY <1>b, <2>2, <3>2
  <2> QED
    BY <2>3, <2>4
<1>12. CASE Undo
  <2>1. Moved
    BY <1>0, <1>12, UndoMoves DEF Moved
  <2>2. Last(undo) \in Entry(doc) /\ TakeBack(Last(undo))
    BY <1>0, <1>12, LastOfSeq DEF Undo, HistInv, EntriesInv
  <2>3. FreshKept
    BY <1>0, <2>2, TakenFresh DEF FreshKept
  <2>4. GestureKept'
    BY <1>0, <2>2, <2>3, GestureStays DEF TakeBack, FreshKept
  <2> QED
    BY <1>b, <2>1, <2>4
<1>13. CASE Redo
  <2>1. Moved
    BY <1>0, <1>13, RedoMoves DEF Moved
  <2>2. Last(redo) \in Entry(doc) /\ TakeBack(Last(redo))
    BY <1>0, <1>13, LastOfSeq DEF Redo, HistInv, EntriesInv
  <2>3. FreshKept
    BY <1>0, <2>2, TakenFresh DEF FreshKept
  <2>4. GestureKept'
    BY <1>0, <2>2, <2>3, GestureStays DEF TakeBack, FreshKept
  <2> QED
    BY <1>b, <2>1, <2>4
<1>14. CASE ClearMine
  <2>1. Moved /\ FreshKept
    BY <1>0, <1>14, ClearMoves DEF Moved, FreshKept
  <2>2. GestureKept'
    BY <1>0, <1>14, <2>1, GestureStays DEF ClearMine, FreshKept
  <2> QED
    BY <1>b, <2>1, <2>2
<1>15. CASE Remote
  <2>1. Moved /\ FreshKept
    BY <1>0, <1>15, RemoteMoves DEF Moved, FreshKept
  <2>2. GestureKept'
    BY <1>0, <1>15, <2>1, GestureStays DEF Remote, FreshKept
  <2> QED
    BY <1>b, <2>1, <2>2
<1>16. CASE UNCHANGED vars
  <2>1. /\ doc' = doc /\ tool' = tool /\ held' = held /\ drawing' = drawing /\ text' = text
        /\ erasing' = erasing /\ undo' = undo /\ redo' = redo /\ foreign' = foreign
    BY <1>16 DEF vars
  <2>2. Moved
    BY <1>0, <2>1, Quiet DEF Erasing, Moved
  <2>3. GestureKept'
    BY <1>0, <1>a, <2>1, GestureStays DEF FreshKept
  <2> QED
    BY <1>b, <2>2, <2>3
<1> QED
  BY <1>1, <1>2, <1>3, <1>4, <1>5, <1>6, <1>7, <1>8, <1>9, <1>10, <1>11, <1>12, <1>13,
     <1>14, <1>15, <1>16 DEF Next

\* The two stacks implement a log of pictures: every step of the editor is one
\* step of the log or none, undo and redo go to the picture that was on the
\* screen before the entry, for every stroke nobody else has meddled with.
THEOREM HistoryImplementsLog == Spec => Refines
<1>1. Init => LogInv /\ Log!Init
  BY LogInit
<1>2. LogInv /\ [Next]_vars => LogInv' /\ [Log!Next]_(Log!vars)
  BY LogNext DEF LogStep
<1> QED
  BY <1>1, <1>2, PTL DEF Spec, Refines, Log!Spec
=============================================================================
