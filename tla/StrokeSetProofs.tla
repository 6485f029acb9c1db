--------------------------- MODULE StrokeSetProofs ---------------------------
(* Theorems about the operators of StrokeSet and about its replicas.  What  *)
(* apply_all, merge and From<Vec> make of a list is proved by induction     *)
(* along the list: Sound sets stay sound, and their entries are the join    *)
(* (Joined) of what they were with the ops, whatever the order.             *)
EXTENDS StrokeSet, LwwTheorems

\* Both registers of stroke s hold the same in a and b.
SameEntry(a, b, s) == \A kind \in Kinds : a[<<s, kind>>] = b[<<s, kind>>]

LEMMA SameIsVisible ==
  ASSUME NEW a, NEW b, NEW s, SameEntry(a, b, s)
  PROVE  /\ IsVisible(a, s) <=> IsVisible(b, s)
         /\ AddKey(a, s) = AddKey(b, s)
BY DEF SameEntry, Kinds, IsVisible, AddKey

\* An op touches the entry of its stroke only.
LEMMA ApplyIsLocal ==
  ASSUME NEW b \in Board, NEW op \in Op, NEW s \in Strokes, s # op.id
  PROVE  SameEntry(b, ApplyTo(b, op), s)
BY ApplySlots DEF SameEntry, Slots, SlotOf, Op

\* The visible strokes but one.
Others(b, id) == Visible(b) \ {id}

LEMMA OthersAlike ==
  ASSUME NEW a, NEW b, NEW id, \A s \in Strokes \ {id} : SameEntry(a, b, s)
  PROVE  Others(a, id) = Others(b, id)
<1>1. \A s \in Strokes \ {id} : IsVisible(a, s) <=> IsVisible(b, s)
  BY SameIsVisible
<1> QED
  BY <1>1 DEF Visible, Others

\* What is drawn depends on the entries of two boards that differ in one
\* stroke as apply's comparison says.
LEMMA DrawnDiffers ==
  ASSUME NEW a, NEW b, NEW id \in Strokes,
         \A s \in Strokes \ {id} : SameEntry(a, b, s)
  PROVE  Drawn(a) # Drawn(b) <=>
           \/ ~(IsVisible(a, id) <=> IsVisible(b, id))
           \/ IsVisible(b, id) /\ AddKey(a, id) # AddKey(b, id)
<1>1. \A s \in Strokes \ {id} : (IsVisible(a, s) <=> IsVisible(b, s)) /\ AddKey(a, s) = AddKey(b, s)
  BY SameIsVisible
<1>2. /\ Drawn(a) = [s \in Visible(a) |-> AddKey(a, s)]
      /\ Drawn(b) = [s \in Visible(b) |-> AddKey(b, s)]
  BY DEF Drawn, AddKey
<1>3. CASE ~(IsVisible(a, id) <=> IsVisible(b, id))
  <2>1. Visible(a) # Visible(b)
    BY <1>3 DEF Visible
  <2>2. DOMAIN Drawn(a) # DOMAIN Drawn(b)
    BY <1>2, <2>1
  <2> QED
    BY <1>3, <2>2
<1>4. CASE IsVisible(a, id) <=> IsVisible(b, id)
  <2>1. Visible(a) = Visible(b)
    BY <1>1, <1>4 DEF Visible
  <2>2. CASE IsVisible(b, id)
    <3>1. id \in Visible(b) /\ Drawn(a)[id] = AddKey(a, id) /\ Drawn(b)[id] = AddKey(b, id)
      BY <1>2, <2>1, <2>2 DEF Visible
    <3>2. AddKey(a, id) = AddKey(b, id) => Drawn(a) = Drawn(b)
      BY <1>1, <1>2, <2>1 DEF Visible
    <3> QED
      BY <1>4, <2>2, <3>1, <3>2
  <2>3. CASE ~IsVisible(b, id)
    <3>1. Drawn(a) = Drawn(b)
      BY <1>1, <1>2, <2>1, <2>3 DEF Visible
    <3> QED
      BY <1>4, <2>3, <3>1
  <2> QED
    BY <2>2, <2>3
<1> QED
  BY <1>3, <1>4

\* What apply returns, written out.
LEMMA ApplyShape ==
  ASSUME NEW ss, NEW op
  PROVE  LET new == ApplyTo(ss.entries, op) IN
           /\ Apply(ss, op).set.entries = new
           /\ Apply(ss, op).changed <=>
                \/ ~(IsVisible(ss.entries, op.id) <=> IsVisible(new, op.id))
                \/ IsVisible(new, op.id) /\ AddKey(ss.entries, op.id) # AddKey(new, op.id)
BY DEF Apply, IsVisible, Before

\* apply's comparison of one stroke before and after is right for the whole board.
LEMMA ChangedIsDrawn ==
  ASSUME NEW ss, ss.entries \in Board, NEW op \in Op
  PROVE  Apply(ss, op).changed <=> Drawn(ss.entries) # Drawn(ApplyTo(ss.entries, op))
<1> DEFINE old == ss.entries
           new == ApplyTo(old, op)
<1>1. op.id \in Strokes /\ \A s \in Strokes \ {op.id} : SameEntry(old, new, s)
  BY ApplyIsLocal DEF Op
<1>2. Drawn(old) # Drawn(new) <=>
        \/ ~(IsVisible(old, op.id) <=> IsVisible(new, op.id))
        \/ IsVisible(new, op.id) /\ AddKey(old, op.id) # AddKey(new, op.id)
  BY <1>1, DrawnDiffers
<1> QED
  BY <1>2, ApplyShape

\* The same drawing has the same strokes in the same order.
LEMMA DrawnOrders ==
  ASSUME NEW a, NEW b, Drawn(a) = Drawn(b)
  PROVE  Ahead(a) = Ahead(b)
<1>1. /\ Drawn(a) = [s \in Visible(a) |-> AddKey(a, s)]
      /\ Drawn(b) = [s \in Visible(b) |-> AddKey(b, s)]
  BY DEF Drawn, AddKey
<1>2. Visible(a) = Visible(b)
  <2>1. DOMAIN Drawn(a) = Visible(a) /\ DOMAIN Drawn(b) = Visible(b)
    BY <1>1
  <2> QED
    BY <2>1
<1>3. \A s \in Visible(a) : AddKey(a, s) = AddKey(b, s)
  <2>1. ASSUME NEW s \in Visible(a) PROVE AddKey(a, s) = AddKey(b, s)
    <3>1. Drawn(a)[s] = AddKey(a, s) /\ Drawn(b)[s] = AddKey(b, s)
      BY <1>1, <1>2
    <3> QED
      BY <3>1
  <2> QED
    BY <2>1
<1> QED
  BY <1>2, <1>3 DEF Ahead, AddKey

\* The order of a board lists its visible strokes.
LEMMA AheadLists ==
  ASSUME NEW b \in Board, NEW s \in Strokes
  PROVE  IsVisible(b, s) <=> <<s, s>> \in Ahead(b)
<1>1. b[<<s, "Add">>] \in Mark
  BY BoardType DEF Slots, Kinds
<1>2. AtMost(b[<<s, "Add">>], b[<<s, "Add">>])
  BY <1>1, AtMostIsReflexive
<1> QED
  BY <1>2 DEF Ahead, Visible

\* "Returns true if the visible state changed": for every board and every op no
\* appearance, disappearance or move goes unreported.
THEOREM ReportsEveryChange == TypeOK => ChangesAreReported
<1> SUFFICES ASSUME TypeOK, NEW r \in Replicas, NEW op \in issued
             PROVE  LET old  == set[r].entries
                        res  == Apply(set[r], op)
                        same == Ahead(res.set.entries) = Ahead(old)
                    IN  /\ ~same => res.changed
                        /\ res.changed /\ same => op.kind = "Add" /\ IsVisible(old, op.id)
  BY DEF ChangesAreReported
<1> DEFINE old == set[r].entries
           new == ApplyTo(old, op)
           res == Apply(set[r], op)
<1>1. old \in Board /\ op \in Op /\ op.id \in Strokes /\ new \in Board
  BY ApplyType DEF TypeOK, Op
<1>2. /\ res.set.entries = new
      /\ res.changed <=> Drawn(old) # Drawn(new)
      /\ res.changed <=>
           \/ ~(IsVisible(old, op.id) <=> IsVisible(new, op.id))
           \/ IsVisible(new, op.id) /\ AddKey(old, op.id) # AddKey(new, op.id)
  BY <1>1, ApplyShape, ChangedIsDrawn
<1>3. ASSUME Ahead(new) # Ahead(old) PROVE res.changed
  BY <1>2, <1>3, DrawnOrders
<1>4. ASSUME res.changed, Ahead(new) = Ahead(old)
      PROVE  op.kind = "Add" /\ IsVisible(old, op.id)
  <2>1. IsVisible(old, op.id) <=> IsVisible(new, op.id)
    BY <1>1, <1>4, AheadLists
  <2>2. IsVisible(old, op.id) /\ AddKey(old, op.id) # AddKey(new, op.id)
    BY <1>2, <1>4, <2>1
  <2>3. op.kind # "Remove"
    BY <1>1, <2>2 DEF AddKey, ApplyTo, SlotOf, Board, Slots, Kinds
  <2> QED
    BY <1>1, <2>2, <2>3 DEF Op, Kinds
<1> QED
  BY <1>2, <1>3, <1>4
-----------------------------------------------------------------------------
(* The index. *)

\* No two strokes have been added with the same stamp.
KeysDiffer(b) ==
  \A s, t \in Strokes : AddKey(b, s) # NoStamp /\ AddKey(b, s) = AddKey(b, t) => s = t

\* A visible stroke has been added.
LEMMA VisibleHasKey ==
  ASSUME NEW b \in Board, NEW s \in Strokes, IsVisible(b, s)
  PROVE  AddKey(b, s) \in Stamp
<1>1. <<s, "Add">> \in Slots /\ <<s, "Remove">> \in Slots
  BY DEF Slots, Kinds
<1>2. b[<<s, "Add">>] \in Stamp \cup {NoStamp} /\ b[<<s, "Remove">>] \in Mark
  BY <1>1, BoardType DEF Board
<1>3. ~Before(b[<<s, "Remove">>], NoStamp)
  BY <1>2, NoStampIsLeast DEF AtMost
<1> QED
  BY <1>2, <1>3 DEF IsVisible, AddKey

\* Taking a key out of an index, and putting a stroke in at a free key.
LEMMA IndexWithout ==
  ASSUME NEW b \in Board, KeysDiffer(b), NEW id \in Strokes, IsVisible(b, id)
  PROVE  Without(IndexOf(b), AddKey(b, id)) =
           {[key |-> AddKey(b, s), id |-> s] : s \in Others(b, id)}
<1>1. AddKey(b, id) # NoStamp
  BY VisibleHasKey DEF Stamp, NoStamp
<1>2. \A s \in Visible(b) : AddKey(b, s) = AddKey(b, id) <=> s = id
  BY <1>1 DEF KeysDiffer, Visible
<1> QED
  BY <1>2 DEF Without, IndexOf, Visible, Others

\* apply keeps the index exact: it lists the visible strokes at their add
\* stamps, whether the op shows, hides or moves its stroke or does nothing.
THEOREM ApplyKeepsIndex ==
  ASSUME NEW ss, ss.entries \in Board, ss.order = IndexOf(ss.entries), NEW op \in Op,
         KeysDiffer(ss.entries), KeysDiffer(ApplyTo(ss.entries, op))
  PROVE  Apply(ss, op).set.order = IndexOf(Apply(ss, op).set.entries)
<1> DEFINE old == ss.entries
           new == ApplyTo(old, op)
           id  == op.id
           others == {[key |-> AddKey(old, s), id |-> s] : s \in Others(old, id)}
<1>1. old \in Board /\ new \in Board /\ id \in Strokes
  BY ApplyType DEF Op
<1>2. \A s \in Strokes \ {id} : /\ IsVisible(old, s) <=> IsVisible(new, s)
                                 /\ AddKey(old, s) = AddKey(new, s)
  BY <1>1, ApplyIsLocal, SameIsVisible
<1>3. IndexOf(new) = others \cup (IF IsVisible(new, id) THEN {[key |-> AddKey(new, id), id |-> id]} ELSE {})
  <2>1. Others(old, id) = Others(new, id)
    <3>1. \A s \in Strokes \ {id} : SameEntry(old, new, s)
      BY <1>1, ApplyIsLocal
    <3> QED
      BY <3>1, OthersAlike
  <2>2. others = {[key |-> AddKey(new, s), id |-> s] : s \in Others(new, id)}
    BY <1>2, <2>1 DEF Visible, Others
  <2>3. id \in Visible(new) <=> IsVisible(new, id)
    BY <1>1 DEF Visible
  <2> HIDE DEF others, new, id
  <2> QED
    BY <2>2, <2>3 DEF IndexOf, Others
<1>4. IndexOf(old) = others \cup (IF IsVisible(old, id) THEN {[key |-> AddKey(old, id), id |-> id]} ELSE {})
  BY <1>1 DEF IndexOf, Visible, Others
<1>5. IsVisible(old, id) => Without(IndexOf(old), AddKey(old, id)) = others
  BY <1>1, IndexWithout
<1>6. IsVisible(new, id) => Without(others, AddKey(new, id)) = others
  <2> SUFFICES ASSUME IsVisible(new, id), NEW s \in Others(old, id)
               PROVE  AddKey(old, s) # AddKey(new, id)
    BY DEF Without
  <2>1. AddKey(new, id) # NoStamp
    BY <1>1, VisibleHasKey DEF Stamp, NoStamp
  <2> QED
    BY <1>1, <1>2, <2>1 DEF KeysDiffer, Visible, Others
<1> DEFINE changed == \/ IsVisible(old, id) # IsVisible(new, id)
                      \/ IsVisible(new, id) /\ AddKey(old, id) # AddKey(new, id)
           rest == IF changed /\ IsVisible(old, id) THEN Without(ss.order, AddKey(old, id)) ELSE ss.order
<1>7. /\ Apply(ss, op).set.entries = new
      /\ Apply(ss, op).set.order =
           IF changed /\ IsVisible(new, id) THEN With(rest, AddKey(new, id), id) ELSE rest
  BY DEF Apply
<1> HIDE DEF new, id, others
<1>8. CASE ~changed
  <2>1. rest = IndexOf(old)
    BY <1>8
  <2>2. IndexOf(new) = IndexOf(old)
    BY <1>3, <1>4, <1>8 DEF IsVisible, Before
  <2> QED
    BY <1>7, <1>8, <2>1, <2>2
<1>9. CASE changed
  <2>1. rest = others
    BY <1>4, <1>5, <1>9
  <2>2. CASE IsVisible(new, id)
    <3>1. Apply(ss, op).set.order = others \cup {[key |-> AddKey(new, id), id |-> id]}
      BY <1>6, <1>7, <1>9, <2>1, <2>2 DEF With
    <3> QED
      BY <1>3, <1>7, <2>2, <3>1
  <2>3. CASE ~IsVisible(new, id)
    BY <1>3, <1>7, <2>1, <2>3
  <2> QED
    BY <2>2, <2>3
<1> QED
  BY <1>8, <1>9

-----------------------------------------------------------------------------
(* A set that is sound with respect to a set of ops.                         *)

SetType == [entries : Board, order : SUBSET [key : Stamp, id : Strokes]]

\* "every timestamp in the system unique"
UniqueStamps(ops) == ops \subseteq Op /\ \A o, p \in ops : o.ts = p.ts => o = p

\* Every register is an op's, and the index agrees with the entries.
Sound(ss, ops) ==
  /\ ss \in SetType
  /\ Genuine(ss.entries, ops)
  /\ ss.order = IndexOf(ss.entries)

LEMMA IndexType ==
  ASSUME NEW b \in Board PROVE IndexOf(b) \subseteq [key : Stamp, id : Strokes]
BY VisibleHasKey DEF IndexOf, Visible

LEMMA NewIsSound == ASSUME NEW ops PROVE Sound(New, ops) /\ New.entries = Empty
<1>1. Empty \in Board /\ \A s \in Strokes : ~IsVisible(Empty, s)
  BY EmptyType, VisibleHasKey DEF AddKey, Empty, Slots, Kinds, Stamp, NoStamp
<1>2. IndexOf(Empty) = {}
  BY <1>1 DEF IndexOf, Visible
<1> QED
  BY <1>1, <1>2 DEF Sound, SetType, New, Genuine, Empty

\* One stamp per op makes one key per stroke.
LEMMA GenuineKeysDiffer ==
  ASSUME NEW ops, UniqueStamps(ops), NEW b \in Board, Genuine(b, ops)
  PROVE  KeysDiffer(b)
<1> SUFFICES ASSUME NEW s \in Strokes, NEW t \in Strokes,
                    AddKey(b, s) # NoStamp, AddKey(b, s) = AddKey(b, t)
             PROVE  s = t
  BY DEF KeysDiffer
<1>1. <<s, "Add">> \in Slots /\ <<t, "Add">> \in Slots
  BY DEF Slots, Kinds
<1>2. PICK o \in ops : SlotOf(o) = <<s, "Add">> /\ o.ts = AddKey(b, s)
  BY <1>1 DEF Genuine, AddKey
<1>3. PICK p \in ops : SlotOf(p) = <<t, "Add">> /\ p.ts = AddKey(b, t)
  BY <1>1 DEF Genuine, AddKey
<1>4. o = p
  BY <1>2, <1>3 DEF UniqueStamps
<1> QED
  BY <1>2, <1>3, <1>4

LEMMA ApplySetType ==
  ASSUME NEW ss \in SetType, NEW op \in Op
  PROVE  Apply(ss, op).set \in SetType /\ Apply(ss, op).changed \in BOOLEAN
<1> DEFINE new == ApplyTo(ss.entries, op)
           was == IsVisible(ss.entries, op.id)
           now == IsVisible(new, op.id)
           oldKey == AddKey(ss.entries, op.id)
           newKey == AddKey(new, op.id)
           changed == was # now \/ (now /\ oldKey # newKey)
           rest == IF changed /\ was THEN Without(ss.order, oldKey) ELSE ss.order
           order == IF changed /\ now THEN With(rest, newKey, op.id) ELSE rest
<1>1. new \in Board /\ op.id \in Strokes /\ ss.order \subseteq [key : Stamp, id : Strokes]
  BY ApplyType DEF SetType, Op
<1>2. Apply(ss, op) = [set |-> [entries |-> new, order |-> order], changed |-> changed]
  BY DEF Apply
<1>3. now => newKey \in Stamp
  BY <1>1, VisibleHasKey
<1> HIDE DEF new, newKey, oldKey
<1>4. rest \subseteq [key : Stamp, id : Strokes]
  BY <1>1 DEF Without
<1>5. order \subseteq [key : Stamp, id : Strokes]
  BY <1>1, <1>3, <1>4 DEF With, Without
<1>6. changed \in BOOLEAN
  OBVIOUS
<1> HIDE DEF order, changed
<1> QED
  BY <1>1, <1>2, <1>5, <1>6 DEF SetType

LEMMA ApplySound ==
  ASSUME NEW ops, UniqueStamps(ops), NEW ss, Sound(ss, ops), NEW op \in ops
  PROVE  /\ Sound(Apply(ss, op).set, ops)
         /\ Apply(ss, op).set.entries = ApplyTo(ss.entries, op)
<1>1. op \in Op /\ ss \in SetType /\ ss.entries \in Board /\ ss.order = IndexOf(ss.entries)
  BY DEF UniqueStamps, Sound, SetType
<1>2. Apply(ss, op).set \in SetType
  BY <1>1, ApplySetType
<1>3. Apply(ss, op).set.entries = ApplyTo(ss.entries, op)
  BY ApplyShape
<1>4. Genuine(ApplyTo(ss.entries, op), ops) /\ ApplyTo(ss.entries, op) \in Board
  BY <1>1, ApplyGenuine, ApplyType DEF Sound
<1>5. KeysDiffer(ss.entries) /\ KeysDiffer(ApplyTo(ss.entries, op))
  BY <1>1, <1>4, GenuineKeysDiffer DEF Sound
<1>6. Apply(ss, op).set.order = IndexOf(Apply(ss, op).set.entries)
  BY <1>1, <1>5, ApplyKeepsIndex
<1> QED
  BY <1>2, <1>3, <1>4, <1>6 DEF Sound

\* What apply reports no change of leaves the index alone.
LEMMA ApplyQuiet ==
  ASSUME NEW ss, NEW op, ~Apply(ss, op).changed
  PROVE  Apply(ss, op).set.order = ss.order
BY DEF Apply

-----------------------------------------------------------------------------
(* The entries that a set of ops makes of a board.                           *)

\* e is what board a becomes when the ops have been applied, in some order and
\* each at least once.
Joined(a, ops, e) ==
  /\ e \in Board
  /\ Below(a, e)
  /\ \A op \in ops : AtMost(op.ts, e[SlotOf(op)])
  /\ \A x \in Slots : e[x] = a[x] \/ \E op \in ops : SlotOf(op) = x /\ op.ts = e[x]

LEMMA AtMostIsAntisymmetric ==
  ASSUME NEW a \in Mark, NEW b \in Mark, AtMost(a, b), AtMost(b, a) PROVE a = b
BY BeforeIsTotal DEF AtMost

\* There is only one such board: neither order nor repetition matters.
LEMMA JoinedIsUnique ==
  ASSUME NEW a \in Board, NEW ops \in SUBSET Op, NEW e, NEW f, Joined(a, ops, e), Joined(a, ops, f)
  PROVE  e = f
<1>1. ASSUME NEW u, NEW v, Joined(a, ops, u), Joined(a, ops, v), NEW x \in Slots
      PROVE  AtMost(u[x], v[x])
  <2>1. CASE u[x] = a[x]
    BY <1>1, <2>1 DEF Joined, Below
  <2>2. CASE \E op \in ops : SlotOf(op) = x /\ op.ts = u[x]
    BY <1>1, <2>2 DEF Joined
  <2> QED
    BY <1>1, <2>1, <2>2 DEF Joined
<1>2. \A x \in Slots : AtMost(e[x], f[x]) /\ AtMost(f[x], e[x])
  BY <1>1
<1>3. e \in Board /\ f \in Board
  BY DEF Joined
<1>4. \A x \in Slots : e[x] = f[x]
  BY <1>2, <1>3, BoardType, AtMostIsAntisymmetric
<1> QED
  BY <1>3, <1>4 DEF Board

LEMMA JoinedNone == ASSUME NEW a \in Board PROVE Joined(a, {}, a)
BY BelowIsReflexive DEF Joined

\* Ops after ops.
LEMMA JoinedTwice ==
  ASSUME NEW a \in Board, NEW O1 \in SUBSET Op, NEW O2 \in SUBSET Op, NEW e, NEW f,
         Joined(a, O1, e), Joined(e, O2, f)
  PROVE  Joined(a, O1 \cup O2, f)
<1>1. e \in Board /\ f \in Board /\ Below(a, f) /\ Below(e, f)
  BY BelowIsTransitive DEF Joined
<1>2. ASSUME NEW op \in O1 PROVE AtMost(op.ts, f[SlotOf(op)])
  <2>1. SlotOf(op) \in Slots /\ op.ts \in Mark
    BY SlotType
  <2>2. AtMost(op.ts, e[SlotOf(op)]) /\ AtMost(e[SlotOf(op)], f[SlotOf(op)])
    BY <1>1, <2>1 DEF Joined, Below
  <2> QED
    BY <1>1, <2>1, <2>2, BoardType, AtMostIsTransitive
<1>3. \A op \in O2 : AtMost(op.ts, f[SlotOf(op)])
  BY DEF Joined
<1>4. \A x \in Slots : f[x] = a[x] \/ \E op \in O1 \cup O2 : SlotOf(op) = x /\ op.ts = f[x]
  BY DEF Joined
<1> QED
  BY <1>1, <1>2, <1>3, <1>4 DEF Joined

LEMMA JoinedByOne ==
  ASSUME NEW e \in Board, NEW op \in Op PROVE Joined(e, {op}, ApplyTo(e, op))
<1>1. ApplyTo(e, op) \in Board /\ Below(e, ApplyTo(e, op)) /\ AtMost(op.ts, ApplyTo(e, op)[SlotOf(op)])
  BY ApplyType, ApplyGrows
<1>2. \A x \in Slots : ApplyTo(e, op)[x] = e[x] \/ (SlotOf(op) = x /\ op.ts = ApplyTo(e, op)[x])
  BY ApplySlots DEF Later
<1> QED
  BY <1>1, <1>2 DEF Joined

\* The ops whose stamps the registers of a board hold.
OpsOf(b) == {op \in Op : op.ts = b[SlotOf(op)]}

LEMMA OpOfSlot ==
  ASSUME NEW b \in Board, NEW x \in Slots, b[x] # NoStamp
  PROVE  \E op \in OpsOf(b) : SlotOf(op) = x /\ op.ts = b[x]
<1> DEFINE op == [id |-> x[1], kind |-> x[2], ts |-> b[x]]
<1>1. b[x] \in Stamp /\ x = <<x[1], x[2]>> /\ x[1] \in Strokes /\ x[2] \in Kinds
  BY DEF Board, Slots
<1>2. op \in Op /\ SlotOf(op) = x /\ op.ts = b[x]
  BY <1>1 DEF Op, SlotOf
<1> QED
  BY <1>2 DEF OpsOf

\* A merge applies the other board's registers.
LEMMA JoinedByMerge ==
  ASSUME NEW a \in Board, NEW b \in Board PROVE Joined(a, OpsOf(b), MergeInto(a, b))
<1>1. MergeInto(a, b) \in Board /\ Below(a, MergeInto(a, b)) /\ Below(b, MergeInto(a, b))
  BY MergeType, MergeGrows
<1>2. \A op \in OpsOf(b) : AtMost(op.ts, MergeInto(a, b)[SlotOf(op)])
  BY <1>1, SlotType DEF OpsOf, Below
<1>3. ASSUME NEW x \in Slots
      PROVE  \/ MergeInto(a, b)[x] = a[x]
             \/ \E op \in OpsOf(b) : SlotOf(op) = x /\ op.ts = MergeInto(a, b)[x]
  <2>1. MergeInto(a, b)[x] = Later(a[x], b[x]) /\ a[x] \in Mark
    BY BoardType DEF MergeInto
  <2>2. CASE b[x] = NoStamp
    BY <2>1, <2>2, NoStampIsLeast DEF Later, AtMost
  <2>3. CASE b[x] # NoStamp
    BY <2>1, <2>3, OpOfSlot DEF Later
  <2> QED
    BY <2>2, <2>3
<1> QED
  BY <1>1, <1>2, <1>3 DEF Joined

LEMMA GenuineOps ==
  ASSUME NEW ops \in SUBSET Op, NEW b \in Board, Genuine(b, ops) PROVE OpsOf(b) \subseteq ops
<1> SUFFICES ASSUME NEW op \in OpsOf(b) PROVE op \in ops
  OBVIOUS
<1>1. op \in Op /\ SlotOf(op) \in Slots /\ op.ts = b[SlotOf(op)] /\ op.ts # NoStamp
  BY SlotType DEF OpsOf, Stamp, NoStamp
<1>2. PICK p \in ops : SlotOf(p) = SlotOf(op) /\ p.ts = op.ts
  BY <1>1 DEF Genuine
<1>3. p = op
  <2>1. p \in Op /\ p.id = op.id /\ p.kind = op.kind /\ p.ts = op.ts
    BY <1>2 DEF SlotOf
  <2> QED
    BY <1>1, <2>1 DEF Op
<1> QED
  BY <1>2, <1>3

-----------------------------------------------------------------------------
(* apply_all: a list of ops, one after the other.                            *)

OneMore(acc, op) ==
  [set |-> Apply(acc.set, op).set,
   changed |-> acc.changed + IF Apply(acc.set, op).changed THEN 1 ELSE 0]

AccType == [set : SetType, changed : Nat]

LEMMA OneMoreType ==
  ASSUME NEW acc \in AccType, NEW op \in Op PROVE OneMore(acc, op) \in AccType
<1>1. acc.set \in SetType /\ acc.changed \in Nat
  BY DEF AccType
<1>2. Apply(acc.set, op).set \in SetType /\ Apply(acc.set, op).changed \in BOOLEAN
  BY <1>1, ApplySetType
<1> QED
  BY <1>1, <1>2 DEF OneMore, AccType

\* The values that apply_all goes through.
LEMMA ApplyAllSteps ==
  ASSUME NEW ss \in SetType, NEW ops \in Seq(Op)
  PROVE  \E a \in [0 .. Len(ops) -> AccType] :
           /\ a[0] = [set |-> ss, changed |-> 0]
           /\ \A i \in 1 .. Len(ops) : a[i] = OneMore(a[i - 1], ops[i])
           /\ ApplyAll(ss, ops) = a[Len(ops)]
<1> DEFINE n == Len(ops)
           b == [set |-> ss, changed |-> 0]
           h == [p \in AccType \X (1 .. n) |-> OneMore(p[1], ops[p[2]])]
           E(f) == f = [s \in SUBSET DOMAIN ops |->
                          IF s = {} THEN b ELSE OneMore(f[s \ {Max(s)}], ops[Max(s)])]
           fold == CHOOSE f : E(f)
<1>1. n \in Nat /\ DOMAIN ops = 1 .. n /\ b \in AccType
  BY DEF AccType
<1>2. h \in [AccType \X (1 .. n) -> AccType]
  <2>1. \A p \in AccType \X (1 .. n) : OneMore(p[1], ops[p[2]]) \in AccType
    BY OneMoreType
  <2> QED
    BY <2>1
<1>3. PICK g \in [SUBSET (1 .. n) -> AccType] : Iterated(g, n, b, h)
  <2> HIDE DEF h, b
  <2> QED
    BY <1>1, <1>2, FoldExists
<1>4. E(g)
  <2>1. ASSUME NEW s \in SUBSET (1 .. n)
        PROVE  g[s] = IF s = {} THEN b ELSE OneMore(g[s \ {Max(s)}], ops[Max(s)])
    <3>1. g[s] = IF s = {} THEN b ELSE h[<<g[s \ {Max(s)}], Max(s)>>]
      BY <1>3, Zenon DEF Iterated
    <3>2. s # {} => Max(s) \in 1 .. n /\ s \ {Max(s)} \in SUBSET (1 .. n)
      <4> HIDE DEF n
      <4>1. s # {} => Max(s) \in s
        BY <1>1, MaxOfSet
      <4> QED
        BY <4>1
    <3>3. s # {} => <<g[s \ {Max(s)}], Max(s)>> \in AccType \X (1 .. n)
      BY <3>2
    <3> QED
      BY <3>1, <3>3
  <2>2. g = [s \in SUBSET (1 .. n) |-> g[s]]
    OBVIOUS
  <2> HIDE DEF b
  <2> QED
    BY <1>1, <2>1, <2>2
<1>5. E(fold)
  BY <1>4, Zenon
<1>6. ApplyAll(ss, ops) = fold[1 .. n]
  <2>1. ApplyAll(ss, ops) = fold[DOMAIN ops]
    BY Zenon DEF ApplyAll, FoldLeft, MapThenFoldSet, OneMore
  <2> QED
    BY <1>1, <2>1, Zenon
<1> HIDE DEF fold
<1>7. fold[{}] = b
  BY <1>5
<1>8. ASSUME NEW i \in 1 .. n PROVE fold[1 .. i] = OneMore(fold[1 .. i - 1], ops[i])
  <2>1. 1 .. i \in SUBSET (1 .. n) /\ 1 .. i # {} /\ Max(1 .. i) = i /\ (1 .. i) \ {i} = 1 .. i - 1
    BY <1>1, Segments
  <2>2. fold[1 .. i] = OneMore(fold[(1 .. i) \ {Max(1 .. i)}], ops[Max(1 .. i)])
    BY <1>1, <1>5, <2>1, Zenon
  <2> QED
    BY <2>1, <2>2, Zenon
<1> DEFINE a == [i \in 0 .. n |-> fold[1 .. i]]
<1>9. a[0] = b /\ ApplyAll(ss, ops) = a[n]
  <2>1. 1 .. 0 = {} /\ 0 \in 0 .. n /\ n \in 0 .. n
    BY <1>1
  <2> QED
    BY <1>6, <1>7, <2>1
<1>10. \A i \in 1 .. n : a[i] = OneMore(a[i - 1], ops[i])
  <2> SUFFICES ASSUME NEW i \in 1 .. n PROVE a[i] = OneMore(a[i - 1], ops[i])
    OBVIOUS
  <2>1. i \in 0 .. n /\ i - 1 \in 0 .. n
    BY <1>1
  <2> QED
    BY <1>8, <2>1
<1>11. a \in [0 .. n -> AccType]
  <2> DEFINE T == {k \in Nat : a[k] \in AccType}
  <2>1. 0 \in T
    BY <1>1, <1>9
  <2>2. ASSUME NEW i \in 1 .. n, i - 1 \in T PROVE i \in T
    <3>1. ops[i] \in Op /\ i \in Nat
      BY <1>1
    <3> HIDE DEF a
    <3> QED
      BY <1>10, <2>2, <3>1, OneMoreType
  <2>3. \A i \in 0 .. n : i \in T
    <3> HIDE DEF T, n
    <3> QED
      BY <1>1, <2>1, <2>2, ListInduction
  <2> QED
    BY <2>3
<1> HIDE DEF a
<1> QED
  BY <1>9, <1>10, <1>11

\* apply_all makes of a sound set the sound set that the ops make of it, in
\* whatever order they stand in the list, and a count of zero means that the
\* index, which is all a renderer reads, is as it was.
THEOREM ApplyAllJoins ==
  ASSUME NEW S, UniqueStamps(S), NEW ss, Sound(ss, S), NEW ops \in Seq(S)
  PROVE  LET r == ApplyAll(ss, ops) IN
           /\ Sound(r.set, S)
           /\ Joined(ss.entries, Range(ops), r.set.entries)
           /\ r.changed \in Nat
           /\ r.changed = 0 => r.set.order = ss.order
<1> DEFINE n == Len(ops)
           done(k) == {ops[i] : i \in 1 .. k}
           P(acc, k) == /\ Sound(acc.set, S)
                        /\ Joined(ss.entries, done(k), acc.set.entries)
                        /\ acc.changed = 0 => acc.set.order = ss.order
<1>1. n \in Nat /\ ops \in Seq(Op) /\ ss \in SetType /\ ss.entries \in Board /\ S \subseteq Op
  <2>1. S \subseteq Op
    BY DEF UniqueStamps
  <2> QED
    BY <2>1 DEF Sound, SetType
<1>2. PICK a \in [0 .. n -> AccType] :
         /\ a[0] = [set |-> ss, changed |-> 0]
         /\ \A i \in 1 .. n : a[i] = OneMore(a[i - 1], ops[i])
         /\ ApplyAll(ss, ops) = a[n]
  BY <1>1, ApplyAllSteps
<1> DEFINE T == {k \in 0 .. n : P(a[k], k)}
<1>3. P(a[0], 0)
  <2>1. done(0) = {}
    OBVIOUS
  <2>2. a[0].set = ss /\ Joined(ss.entries, {}, ss.entries)
    BY <1>1, <1>2, JoinedNone
  <2> HIDE DEF done
  <2> QED
    BY <2>1, <2>2
<1>4. ASSUME NEW k \in 1 .. n, P(a[k - 1], k - 1) PROVE P(a[k], k)
  <2> DEFINE acc == a[k - 1]
             op == ops[k]
  <2>1. op \in S /\ op \in Op /\ acc \in AccType /\ a[k] = OneMore(acc, op)
    <3>1. k - 1 \in 0 .. n /\ k \in DOMAIN ops
      OBVIOUS
    <3> QED
      BY <1>1, <1>2, <3>1
  <2> HIDE DEF acc, op
  <2>2. /\ a[k].set = Apply(acc.set, op).set
        /\ a[k].changed = acc.changed + IF Apply(acc.set, op).changed THEN 1 ELSE 0
    BY <2>1 DEF OneMore
  <2>3. Sound(a[k].set, S) /\ a[k].set.entries = ApplyTo(acc.set.entries, op)
    BY <1>4, <2>1, <2>2, ApplySound DEF acc
  <2>4. Joined(ss.entries, done(k), a[k].set.entries)
    <3>1. done(k) = done(k - 1) \cup {op}
      <4>1. 1 .. k = (1 .. k - 1) \cup {k}
        OBVIOUS
      <4> QED
        BY <4>1 DEF op
    <3>2. acc.set.entries \in Board /\ done(k - 1) \subseteq Op
      <4>1. \A i \in 1 .. k - 1 : ops[i] \in Op
        BY <1>1
      <4> QED
        BY <2>1, <4>1 DEF AccType, SetType
    <3>3. Joined(acc.set.entries, {op}, a[k].set.entries)
      BY <2>1, <2>3, <3>2, JoinedByOne
    <3>4. Joined(ss.entries, done(k - 1), acc.set.entries)
      BY <1>4 DEF acc
    <3> HIDE DEF done
    <3> QED
      BY <1>1, <2>1, <3>1, <3>2, <3>3, <3>4, JoinedTwice
  <2>5. ASSUME a[k].changed = 0 PROVE a[k].set.order = ss.order
    <3>1. acc.changed \in Nat
      BY <2>1 DEF AccType
    <3>2. acc.changed = 0 /\ ~Apply(acc.set, op).changed
      BY <2>2, <2>5, <3>1
    <3> QED
      BY <1>4, <2>2, <3>2, ApplyQuiet DEF acc
  <2> QED
    BY <2>3, <2>4, <2>5
<1>5. \A k \in 0 .. n : k \in T
  <2> HIDE DEF P
  <2>1. 0 \in 0 .. n /\ \A k \in 1 .. n : k \in 0 .. n
    BY <1>1
  <2>2. 0 \in T /\ \A k \in 1 .. n : k - 1 \in T => k \in T
    BY <1>3, <1>4, <2>1
  <2> HIDE DEF T, n
  <2> QED
    BY <1>1, <2>2, ListInduction
<1>6. P(a[n], n) /\ a[n] \in AccType
  <2>1. n \in 0 .. n
    BY <1>1
  <2> HIDE DEF P
  <2> QED
    BY <1>5, <2>1
<1>7. done(n) = Range(ops)
  BY <1>1 DEF Range
<1> HIDE DEF n, done
<1> QED
  BY <1>2, <1>6, <1>7 DEF AccType

-----------------------------------------------------------------------------
(* merge *)

\* The list a register or an entry is turned into.
LEMMA RegisterElements ==
  ASSUME NEW b \in Board, NEW s \in Strokes, NEW kind \in Kinds
  PROVE  /\ RegisterOps(b, s, kind) \in Seq(OpsOf(b))
         /\ \A op : op \in Range(RegisterOps(b, s, kind)) <=> op \in OpsOf(b) /\ SlotOf(op) = <<s, kind>>
<1> DEFINE o == [id |-> s, kind |-> kind, ts |-> b[<<s, kind>>]]
<1>1. <<s, kind>> \in Slots
  BY DEF Slots
<1>2. CASE b[<<s, kind>>] = NoStamp
  <2>1. RegisterOps(b, s, kind) = <<>>
    BY <1>2 DEF RegisterOps
  <2>2. \A op \in OpsOf(b) : SlotOf(op) # <<s, kind>>
    BY <1>2, SlotType DEF OpsOf, Stamp, NoStamp
  <2> QED
    BY <2>1, <2>2 DEF Range
<1>3. CASE b[<<s, kind>>] # NoStamp
  <2>1. RegisterOps(b, s, kind) = <<o>>
    BY <1>3 DEF RegisterOps
  <2>2. o \in OpsOf(b) /\ SlotOf(o) = <<s, kind>>
    BY <1>1, <1>3 DEF Board, Op, OpsOf, SlotOf
  <2>3. ASSUME NEW op \in OpsOf(b), SlotOf(op) = <<s, kind>> PROVE op = o
    <3>1. op \in Op /\ op.id = s /\ op.kind = kind /\ op.ts = b[<<s, kind>>]
      BY <2>3 DEF OpsOf, SlotOf
    <3> QED
      BY <3>1 DEF Op
  <2>4. \A op : op \in Range(<<o>>) <=> op = o
    BY DEF Range
  <2> QED
    BY <2>1, <2>2, <2>3, <2>4
<1> QED
  BY <1>2, <1>3

LEMMA EntryElements ==
  ASSUME NEW b \in Board, NEW s \in Strokes
  PROVE  /\ EntryOps(b, s) \in Seq(OpsOf(b))
         /\ \A op : op \in Range(EntryOps(b, s)) <=> op \in OpsOf(b) /\ op.id = s
<1> DEFINE p == RegisterOps(b, s, "Add")
           q == RegisterOps(b, s, "Remove")
<1>1. /\ p \in Seq(OpsOf(b)) /\ q \in Seq(OpsOf(b))
      /\ \A op : op \in Range(p) <=> op \in OpsOf(b) /\ SlotOf(op) = <<s, "Add">>
      /\ \A op : op \in Range(q) <=> op \in OpsOf(b) /\ SlotOf(op) = <<s, "Remove">>
  BY RegisterElements DEF Kinds
<1> HIDE DEF p, q
<1>2. EntryOps(b, s) = p \o q
  BY DEF EntryOps, p, q
<1>3. \A op : op \in Range(p \o q) <=> op \in Range(p) \/ op \in Range(q)
  BY <1>1, RangeConcat
<1>4. p \o q \in Seq(OpsOf(b))
  BY <1>1, ConcatProperties
<1>5. \A op \in OpsOf(b) : op.id = s <=> SlotOf(op) = <<s, "Add">> \/ SlotOf(op) = <<s, "Remove">>
  BY DEF OpsOf, Op, Kinds, SlotOf
<1> QED
  BY <1>1, <1>2, <1>3, <1>4, <1>5

\* A walk of the hash map meets every stroke.
LEMMA WalkMeetsAll ==
  ASSUME NEW walk \in Walks
  PROVE  /\ Cardinality(Strokes) \in Nat
         /\ walk \in [1 .. Cardinality(Strokes) -> Strokes]
         /\ \A s \in Strokes : \E i \in 1 .. Cardinality(Strokes) : walk[i] = s
<1> DEFINE n == Cardinality(Strokes)
<1>1. IsFiniteSet(Strokes) /\ n \in Nat
  BY StrokeSetAssumption, FS_CardinalityType
<1>2. walk \in [1 .. n -> Strokes] /\ \A i, j \in 1 .. n : i # j => walk[i] # walk[j]
  BY Zenon DEF Walks, SetToSeqs
<1>3. walk \in Injection(1 .. n, Strokes)
  BY <1>2 DEF Injection, IsInjective
<1>4. Cardinality(1 .. n) = Cardinality(Strokes)
  <2>1. Cardinality(1 .. n) = IF 1 > n THEN 0 ELSE n - 1 + 1
    BY <1>1, FS_Interval
  <2> QED
    BY <1>1, <2>1
<1>5. walk \in Surjection(1 .. n, Strokes)
  BY <1>1, <1>3, <1>4, FS_Injection
<1> QED
  BY <1>1, <1>2, <1>5 DEF Surjection

LEMMA MergedElements ==
  ASSUME NEW b \in Board, NEW walk \in Walks
  PROVE  LET list == FlattenSeq([i \in DOMAIN walk |-> EntryOps(b, walk[i])]) IN
           list \in Seq(OpsOf(b)) /\ Range(list) = OpsOf(b)
<1> DEFINE n == Cardinality(Strokes)
           seqs == [i \in DOMAIN walk |-> EntryOps(b, walk[i])]
<1>1. /\ n \in Nat /\ walk \in [1 .. n -> Strokes] /\ DOMAIN walk = 1 .. n
      /\ \A s \in Strokes : \E i \in 1 .. n : walk[i] = s
  BY WalkMeetsAll
<1> HIDE DEF n
<1>2. seqs \in [1 .. n -> Seq(OpsOf(b))]
  BY <1>1, EntryElements
<1>3. \A i \in 1 .. n : \A op : op \in Range(seqs[i]) <=> op \in OpsOf(b) /\ op.id = walk[i]
  BY <1>1, EntryElements
<1> HIDE DEF seqs
<1>4. /\ FlattenSeq(seqs) \in Seq(OpsOf(b))
      /\ \A op : op \in Range(FlattenSeq(seqs)) <=> \E i \in 1 .. n : op \in Range(seqs[i])
  BY <1>1, <1>2, FlattenElements
<1>5. \A op \in OpsOf(b) : \E i \in 1 .. n : walk[i] = op.id
  BY <1>1 DEF OpsOf, Op
<1>6. Range(FlattenSeq(seqs)) = OpsOf(b)
  BY <1>3, <1>4, <1>5
<1> QED
  BY <1>4, <1>6 DEF seqs

\* A sound set is its entries.
LEMMA SoundEqual ==
  ASSUME NEW S, NEW a, NEW b, Sound(a, S), Sound(b, S), a.entries = b.entries PROVE a = b
BY DEF Sound, SetType

LEMMA SoundEntries ==
  ASSUME NEW S, NEW ss, UniqueStamps(S), Sound(ss, S)
  PROVE  ss.entries \in Board /\ OpsOf(ss.entries) \subseteq S /\ S \subseteq Op
BY GenuineOps DEF Sound, SetType, UniqueStamps

\* merge is apply_all of the other set's registers.
LEMMA MergeIsApplyAll ==
  ASSUME NEW S, UniqueStamps(S), NEW ss, NEW other, Sound(other, S), NEW walk \in Walks
  PROVE  \E list \in Seq(S) : /\ Range(list) = OpsOf(other.entries)
                              /\ Merge(ss, other, walk) = ApplyAll(ss, list)
<1> DEFINE list == FlattenSeq([i \in DOMAIN walk |-> EntryOps(other.entries, walk[i])])
<1>1. other.entries \in Board /\ OpsOf(other.entries) \subseteq S
  BY SoundEntries
<1>2. list \in Seq(OpsOf(other.entries)) /\ Range(list) = OpsOf(other.entries)
  BY <1>1, MergedElements
<1>3. Merge(ss, other, walk) = ApplyAll(ss, list)
  BY DEF Merge
<1> HIDE DEF list
<1>4. list \in Seq(S)
  BY <1>1, <1>2
<1> QED
  BY <1>2, <1>3, <1>4

\* merge, for two sound sets and any walk of the hash map.
THEOREM MergeJoins ==
  ASSUME NEW S, UniqueStamps(S), NEW ss, NEW other, Sound(ss, S), Sound(other, S), NEW walk \in Walks
  PROVE  /\ Sound(Merge(ss, other, walk).set, S)
         /\ Merge(ss, other, walk).set.entries = MergeInto(ss.entries, other.entries)
<1>1. ss.entries \in Board /\ other.entries \in Board /\ OpsOf(other.entries) \in SUBSET Op
  BY SoundEntries DEF OpsOf
<1>2. PICK list \in Seq(S) : /\ Range(list) = OpsOf(other.entries)
                             /\ Merge(ss, other, walk) = ApplyAll(ss, list)
  BY MergeIsApplyAll
<1> DEFINE r == ApplyAll(ss, list)
<1>3. Sound(r.set, S) /\ Joined(ss.entries, OpsOf(other.entries), r.set.entries)
  BY <1>2, ApplyAllJoins
<1> HIDE DEF r
<1>4. Joined(ss.entries, OpsOf(other.entries), MergeInto(ss.entries, other.entries))
  BY <1>1, JoinedByMerge
<1>5. r.set.entries = MergeInto(ss.entries, other.entries)
  BY <1>1, <1>3, <1>4, JoinedIsUnique
<1> QED
  BY <1>2, <1>3, <1>5 DEF r

\* A merge that reports no change has left the index alone.
LEMMA QuietMerge ==
  ASSUME NEW S, UniqueStamps(S), NEW ss, NEW other, Sound(ss, S), Sound(other, S), NEW walk \in Walks,
         Merge(ss, other, walk).changed = 0
  PROVE  Merge(ss, other, walk).set.order = ss.order
<1>1. PICK list \in Seq(S) : Merge(ss, other, walk) = ApplyAll(ss, list)
  BY MergeIsApplyAll
<1> QED
  BY <1>1, ApplyAllJoins

-----------------------------------------------------------------------------
(* From<Vec>: the entries of a list, duplicates folded in.                   *)

ItemType == [id : Strokes, entries : Board]

\* The ops that one element of the list stands for.
ItemOps(e) == {op \in OpsOf(e.entries) : op.id = e.id}

LoadType == [ids : SUBSET Strokes, set : SetType]

LEMMA ApplyAllType ==
  ASSUME NEW ss \in SetType, NEW ops \in Seq(Op) PROVE ApplyAll(ss, ops).set \in SetType
<1>1. PICK a \in [0 .. Len(ops) -> AccType] : ApplyAll(ss, ops) = a[Len(ops)]
  BY ApplyAllSteps
<1>2. Len(ops) \in 0 .. Len(ops)
  OBVIOUS
<1> QED
  BY <1>1, <1>2 DEF AccType

\* The entries of acc with e's entry in place of its own.
Placed(acc, e) == [x \in Slots |-> IF x[1] = e.id THEN e.entries[x] ELSE acc.set.entries[x]]

LEMMA LoadFirst ==
  ASSUME NEW acc, NEW e, e.id \notin acc.ids
  PROVE  LoadOne(acc, e) =
           [ids |-> acc.ids \cup {e.id},
            set |-> [entries |-> Placed(acc, e),
                     order |-> IF IsVisible(e.entries, e.id)
                               THEN With(acc.set.order, AddKey(e.entries, e.id), e.id)
                               ELSE acc.set.order]]
BY DEF LoadOne, Placed

LEMMA LoadAgain ==
  ASSUME NEW acc \in LoadType, NEW e, e.id \in acc.ids
  PROVE  LoadOne(acc, e) =
           [ids |-> acc.ids, set |-> ApplyAll(acc.set, EntryOps(e.entries, e.id)).set]
BY DEF LoadOne, LoadType

LEMMA LoadOneType ==
  ASSUME NEW acc \in LoadType, NEW e \in ItemType PROVE LoadOne(acc, e) \in LoadType
<1>1. /\ acc.ids \subseteq Strokes /\ acc.set \in SetType /\ e.id \in Strokes /\ e.entries \in Board
      /\ acc.set.entries \in Board /\ acc.set.order \subseteq [key : Stamp, id : Strokes]
  BY DEF LoadType, ItemType, SetType
<1>2. CASE e.id \in acc.ids
  <2>1. EntryOps(e.entries, e.id) \in Seq(OpsOf(e.entries)) /\ OpsOf(e.entries) \subseteq Op
    BY <1>1, EntryElements DEF OpsOf
  <2>2. EntryOps(e.entries, e.id) \in Seq(Op)
    BY <2>1
  <2>3. ApplyAll(acc.set, EntryOps(e.entries, e.id)).set \in SetType
    BY <1>1, <2>2, ApplyAllType
  <2> QED
    BY <1>1, <1>2, <2>3, LoadAgain DEF LoadType
<1>3. CASE e.id \notin acc.ids
  <2>1. Placed(acc, e) \in Board
    BY <1>1 DEF Placed, Board
  <2>2. IsVisible(e.entries, e.id) => AddKey(e.entries, e.id) \in Stamp
    BY <1>1, VisibleHasKey
  <2> DEFINE order == IF IsVisible(e.entries, e.id)
                      THEN With(acc.set.order, AddKey(e.entries, e.id), e.id) ELSE acc.set.order
  <2>3. order \subseteq [key : Stamp, id : Strokes]
    BY <1>1, <2>2 DEF With, Without
  <2> HIDE DEF order
  <2>4. LoadOne(acc, e) = [ids |-> acc.ids \cup {e.id}, set |-> [entries |-> Placed(acc, e), order |-> order]]
    BY <1>3, LoadFirst DEF order
  <2> QED
    BY <1>1, <2>1, <2>3, <2>4 DEF LoadType, SetType
<1> QED
  BY <1>2, <1>3

\* The values that the load goes through.
LEMMA FromVecSteps ==
  ASSUME NEW vec \in Seq(ItemType)
  PROVE  \E a \in [0 .. Len(vec) -> LoadType] :
           /\ a[0] = [ids |-> {}, set |-> New]
           /\ \A i \in 1 .. Len(vec) : a[i] = LoadOne(a[i - 1], vec[i])
           /\ FromVec(vec) = a[Len(vec)].set
<1> DEFINE n == Len(vec)
           b == [ids |-> {}, set |-> New]
           h == [p \in LoadType \X (1 .. n) |-> LoadOne(p[1], vec[p[2]])]
           E(f) == f = [s \in SUBSET DOMAIN vec |->
                          IF s = {} THEN b ELSE LoadOne(f[s \ {Max(s)}], vec[Max(s)])]
           fold == CHOOSE f : E(f)
<1>1. n \in Nat /\ DOMAIN vec = 1 .. n /\ b \in LoadType
  BY NewIsSound DEF LoadType, Sound
<1>2. h \in [LoadType \X (1 .. n) -> LoadType]
  <2>1. \A p \in LoadType \X (1 .. n) : LoadOne(p[1], vec[p[2]]) \in LoadType
    BY LoadOneType
  <2> QED
    BY <2>1
<1>3. PICK g \in [SUBSET (1 .. n) -> LoadType] : Iterated(g, n, b, h)
  <2> HIDE DEF h, b
  <2> QED
    BY <1>1, <1>2, FoldExists
<1>4. E(g)
  <2>1. ASSUME NEW s \in SUBSET (1 .. n)
        PROVE  g[s] = IF s = {} THEN b ELSE LoadOne(g[s \ {Max(s)}], vec[Max(s)])
    <3>1. g[s] = IF s = {} THEN b ELSE h[<<g[s \ {Max(s)}], Max(s)>>]
      BY <1>3, Zenon DEF Iterated
    <3>2. s # {} => Max(s) \in 1 .. n /\ s \ {Max(s)} \in SUBSET (1 .. n)
      <4> HIDE DEF n
      <4>1. s # {} => Max(s) \in s
        BY <1>1, MaxOfSet
      <4> QED
        BY <4>1
    <3>3. s # {} => <<g[s \ {Max(s)}], Max(s)>> \in LoadType \X (1 .. n)
      BY <3>2
    <3> QED
      BY <3>1, <3>3
  <2>2. g = [s \in SUBSET (1 .. n) |-> g[s]]
    OBVIOUS
  <2> HIDE DEF b
  <2> QED
    BY <1>1, <2>1, <2>2
<1>5. E(fold)
  BY <1>4, Zenon
<1>6. FromVec(vec) = fold[1 .. n].set
  <2>1. FromVec(vec) = fold[DOMAIN vec].set
    BY Zenon DEF FromVec, FoldLeft, MapThenFoldSet
  <2> QED
    BY <1>1, <2>1, Zenon
<1> HIDE DEF fold
<1>7. fold[{}] = b
  BY <1>5
<1>8. ASSUME NEW i \in 1 .. n PROVE fold[1 .. i] = LoadOne(fold[1 .. i - 1], vec[i])
  <2>1. 1 .. i \in SUBSET (1 .. n) /\ 1 .. i # {} /\ Max(1 .. i) = i /\ (1 .. i) \ {i} = 1 .. i - 1
    BY <1>1, Segments
  <2>2. fold[1 .. i] = LoadOne(fold[(1 .. i) \ {Max(1 .. i)}], vec[Max(1 .. i)])
    BY <1>1, <1>5, <2>1, Zenon
  <2> QED
    BY <2>1, <2>2, Zenon
<1> DEFINE a == [i \in 0 .. n |-> fold[1 .. i]]
<1>9. a[0] = b /\ FromVec(vec) = a[n].set
  <2>1. 1 .. 0 = {} /\ 0 \in 0 .. n /\ n \in 0 .. n
    BY <1>1
  <2> QED
    BY <1>6, <1>7, <2>1
<1>10. \A i \in 1 .. n : a[i] = LoadOne(a[i - 1], vec[i])
  <2> SUFFICES ASSUME NEW i \in 1 .. n PROVE a[i] = LoadOne(a[i - 1], vec[i])
    OBVIOUS
  <2>1. i \in 0 .. n /\ i - 1 \in 0 .. n
    BY <1>1
  <2> QED
    BY <1>8, <2>1
<1>11. a \in [0 .. n -> LoadType]
  <2> DEFINE T == {k \in Nat : a[k] \in LoadType}
  <2>1. 0 \in T
    BY <1>1, <1>9
  <2>2. ASSUME NEW i \in 1 .. n, i - 1 \in T PROVE i \in T
    <3>1. vec[i] \in ItemType /\ i \in Nat
      BY <1>1
    <3> HIDE DEF a
    <3> QED
      BY <1>10, <2>2, <3>1, LoadOneType
  <2>3. \A i \in 0 .. n : i \in T
    <3> HIDE DEF T, n
    <3> QED
      BY <1>1, <2>1, <2>2, ListInduction
  <2> QED
    BY <2>3
<1> HIDE DEF a
<1> QED
  BY <1>9, <1>10, <1>11

\* The first entry of an id is taken as it is, and indexed if it is visible.
LEMMA LoadFirstJoins ==
  ASSUME NEW S, UniqueStamps(S), NEW acc, Sound(acc.set, S),
         NEW e \in ItemType, Genuine(e.entries, S), e.id \notin acc.ids,
         \A kind \in Kinds : acc.set.entries[<<e.id, kind>>] = NoStamp
  PROVE  LET r == LoadOne(acc, e) IN
           /\ Sound(r.set, S)
           /\ Joined(acc.set.entries, ItemOps(e), r.set.entries)
<1> DEFINE old == acc.set.entries
           new == Placed(acc, e)
           id  == e.id
           shown == {[key |-> AddKey(new, id), id |-> id]}
           order == IF IsVisible(e.entries, id)
                    THEN With(acc.set.order, AddKey(e.entries, id), id) ELSE acc.set.order
<1>1. /\ old \in Board /\ id \in Strokes /\ e.entries \in Board /\ acc.set.order = IndexOf(old)
      /\ Genuine(old, S) /\ acc.set.order \subseteq [key : Stamp, id : Strokes]
  BY DEF Sound, SetType, ItemType
<1>2. LoadOne(acc, e) = [ids |-> acc.ids \cup {id}, set |-> [entries |-> new, order |-> order]]
  BY LoadFirst
<1>3. new \in Board /\ \A x \in Slots : new[x] = IF x[1] = id THEN e.entries[x] ELSE old[x]
  BY <1>1 DEF Placed, Board
<1>4. \A x \in Slots : x[1] = id => old[x] = NoStamp
  BY DEF Slots
<1>5. \A kind \in Kinds, s \in Strokes : <<s, kind>> \in Slots /\ <<s, kind>>[1] = s
  BY DEF Slots
<1> HIDE DEF old, new, id, order
<1>6. \A s \in Strokes \ {id} : SameEntry(old, new, s)
  BY <1>3, <1>5 DEF SameEntry
<1>7. SameEntry(e.entries, new, id)
  BY <1>1, <1>3, <1>5 DEF SameEntry
<1>8. /\ \A s \in Strokes \ {id} : (IsVisible(old, s) <=> IsVisible(new, s)) /\ AddKey(old, s) = AddKey(new, s)
      /\ IsVisible(e.entries, id) <=> IsVisible(new, id)
      /\ AddKey(e.entries, id) = AddKey(new, id)
  BY <1>6, <1>7, SameIsVisible
<1>9. ~IsVisible(old, id)
  <2>1. AddKey(old, id) = NoStamp
    BY <1>1, <1>4, <1>5 DEF AddKey, Kinds
  <2> QED
    BY <1>1, <2>1, VisibleHasKey DEF Stamp, NoStamp
<1>10. Genuine(new, S)
  <2> SUFFICES ASSUME NEW x \in Slots
               PROVE  new[x] = NoStamp \/ \E op \in S : SlotOf(op) = x /\ op.ts = new[x]
    BY DEF Genuine
  <2> QED
    BY <1>1, <1>3 DEF Genuine
<1>11. KeysDiffer(new)
  BY <1>3, <1>10, GenuineKeysDiffer
<1>12. IndexOf(new) = IndexOf(old) \cup (IF IsVisible(new, id) THEN shown ELSE {})
  <2>1. Visible(new) = Visible(old) \cup (IF IsVisible(new, id) THEN {id} ELSE {})
    BY <1>1, <1>8, <1>9 DEF Visible
  <2>2. IndexOf(old) = {[key |-> AddKey(new, s), id |-> s] : s \in Visible(old)}
    BY <1>8, <1>9 DEF IndexOf, Visible
  <2> HIDE DEF shown
  <2>3. CASE IsVisible(new, id)
    <3>1. shown = {[key |-> AddKey(new, s), id |-> s] : s \in {id}}
      BY DEF shown
    <3> QED
      BY <2>1, <2>2, <2>3, <3>1 DEF IndexOf
  <2>4. CASE ~IsVisible(new, id)
    BY <2>1, <2>2, <2>4 DEF IndexOf
  <2> QED
    BY <2>3, <2>4
<1>13. order = IndexOf(new)
  <2>1. CASE IsVisible(new, id)
    <3>1. AddKey(new, id) # NoStamp
      BY <1>1, <1>3, <2>1, VisibleHasKey DEF Stamp, NoStamp
    <3>2. \A s \in Visible(old) : s # id /\ AddKey(old, s) = AddKey(new, s) /\ AddKey(new, s) # AddKey(new, id)
      BY <1>1, <1>8, <1>9, <1>11, <3>1 DEF Visible, KeysDiffer
    <3>3. Without(IndexOf(old), AddKey(new, id)) = IndexOf(old)
      BY <3>2 DEF Without, IndexOf
    <3>4. order = With(IndexOf(old), AddKey(new, id), id)
      BY <1>1, <1>8, <2>1 DEF order, id
    <3> QED
      BY <1>12, <2>1, <3>3, <3>4 DEF With
  <2>2. CASE ~IsVisible(new, id)
    BY <1>1, <1>8, <1>12, <2>2 DEF order, id
  <2> QED
    BY <2>1, <2>2
<1>14. Joined(old, ItemOps(e), new)
  <2>1. Below(old, new)
    <3> SUFFICES ASSUME NEW x \in Slots PROVE AtMost(old[x], new[x])
      BY DEF Below
    <3> QED
      BY <1>1, <1>3, <1>4, BoardType, NoStampIsLeast, AtMostIsReflexive
  <2>2. ASSUME NEW op \in ItemOps(e) PROVE AtMost(op.ts, new[SlotOf(op)])
    <3>1. op \in Op /\ op.id = id /\ op.ts = e.entries[SlotOf(op)] /\ SlotOf(op) \in Slots /\ op.ts \in Mark
      BY SlotType DEF ItemOps, OpsOf, id
    <3>2. new[SlotOf(op)] = op.ts
      BY <1>3, <3>1 DEF SlotOf
    <3> QED
      BY <3>1, <3>2, AtMostIsReflexive
  <2>3. ASSUME NEW x \in Slots
        PROVE  new[x] = old[x] \/ \E op \in ItemOps(e) : SlotOf(op) = x /\ op.ts = new[x]
    <3>1. CASE x[1] # id \/ e.entries[x] = NoStamp
      BY <1>3, <1>4, <3>1
    <3>2. CASE x[1] = id /\ e.entries[x] # NoStamp
      <4>1. PICK op \in OpsOf(e.entries) : SlotOf(op) = x /\ op.ts = e.entries[x]
        BY <1>1, <3>2, OpOfSlot
      <4>2. op.id = id
        BY <3>2, <4>1 DEF SlotOf
      <4> QED
        BY <1>3, <3>2, <4>1, <4>2 DEF ItemOps, id
    <3> QED
      BY <3>1, <3>2
  <2> QED
    BY <1>3, <2>1, <2>2, <2>3 DEF Joined
<1>15. Sound([entries |-> new, order |-> order], S)
  BY <1>3, <1>10, <1>13, IndexType DEF Sound, SetType
<1> QED
  BY <1>2, <1>14, <1>15 DEF old

\* A later entry of the same id is folded in.
LEMMA LoadAgainJoins ==
  ASSUME NEW S, UniqueStamps(S), NEW acc \in LoadType, Sound(acc.set, S),
         NEW e \in ItemType, Genuine(e.entries, S), e.id \in acc.ids
  PROVE  LET r == LoadOne(acc, e) IN
           /\ Sound(r.set, S)
           /\ Joined(acc.set.entries, ItemOps(e), r.set.entries)
<1> DEFINE list == EntryOps(e.entries, e.id)
<1>1. e.entries \in Board /\ e.id \in Strokes /\ S \subseteq Op
  BY DEF ItemType, UniqueStamps
<1>2. OpsOf(e.entries) \subseteq S
  BY <1>1, GenuineOps
<1>3. list \in Seq(OpsOf(e.entries)) /\ Range(list) = ItemOps(e)
  BY <1>1, EntryElements DEF ItemOps
<1>4. list \in Seq(S)
  <2> HIDE DEF list
  <2> QED
    BY <1>2, <1>3
<1> HIDE DEF list
<1>5. /\ Sound(ApplyAll(acc.set, list).set, S)
      /\ Joined(acc.set.entries, Range(list), ApplyAll(acc.set, list).set.entries)
  BY <1>4, ApplyAllJoins
<1>6. LoadOne(acc, e).set = ApplyAll(acc.set, list).set
  BY LoadAgain DEF list
<1> QED
  BY <1>3, <1>5, <1>6

\* From<Vec> gives a sound set with everything the list knows.
THEOREM FromVecJoins ==
  ASSUME NEW S, UniqueStamps(S), NEW vec \in Seq(ItemType),
         \A i \in 1 .. Len(vec) : Genuine(vec[i].entries, S)
  PROVE  /\ Sound(FromVec(vec), S)
         /\ Joined(Empty, UNION {ItemOps(vec[i]) : i \in 1 .. Len(vec)}, FromVec(vec).entries)
<1> DEFINE n == Len(vec)
           done(k) == UNION {ItemOps(vec[i]) : i \in 1 .. k}
           P(acc, k) == /\ Sound(acc.set, S)
                        /\ acc.ids = {vec[i].id : i \in 1 .. k}
                        /\ Joined(Empty, done(k), acc.set.entries)
<1>1. n \in Nat /\ DOMAIN vec = 1 .. n /\ S \subseteq Op
  BY DEF UniqueStamps
<1>2. PICK a \in [0 .. n -> LoadType] :
         /\ a[0] = [ids |-> {}, set |-> New]
         /\ \A i \in 1 .. n : a[i] = LoadOne(a[i - 1], vec[i])
         /\ FromVec(vec) = a[n].set
  BY FromVecSteps
<1> DEFINE T == {k \in 0 .. n : P(a[k], k)}
<1>3. P(a[0], 0)
  <2>1. done(0) = {} /\ {vec[i].id : i \in 1 .. 0} = {}
    OBVIOUS
  <2>2. a[0].set = New /\ a[0].ids = {} /\ Sound(New, S) /\ New.entries = Empty /\ Joined(Empty, {}, Empty)
    BY <1>2, NewIsSound, EmptyType, JoinedNone
  <2> HIDE DEF done
  <2> QED
    BY <2>1, <2>2
<1>4. ASSUME NEW k \in 1 .. n, P(a[k - 1], k - 1) PROVE P(a[k], k)
  <2> DEFINE acc == a[k - 1]
             e == vec[k]
  <2>1. acc \in LoadType /\ e \in ItemType /\ Genuine(e.entries, S) /\ a[k] = LoadOne(acc, e)
    <3>1. k - 1 \in 0 .. n /\ k \in DOMAIN vec
      OBVIOUS
    <3> QED
      BY <1>1, <1>2, <3>1
  <2>2. Sound(acc.set, S) /\ acc.ids = {vec[i].id : i \in 1 .. k - 1} /\ Joined(Empty, done(k - 1), acc.set.entries)
    BY <1>4
  <2>3. \A op \in done(k - 1) : op \in Op /\ op.id \in acc.ids
    BY <2>2 DEF ItemOps, OpsOf
  <2>4. 1 .. k = (1 .. k - 1) \cup {k}
    OBVIOUS
  <2>5. done(k) = done(k - 1) \cup ItemOps(e) /\ {vec[i].id : i \in 1 .. k} = acc.ids \cup {e.id}
    BY <2>2, <2>4
  <2> HIDE DEF acc, e, done
  <2>6. Sound(a[k].set, S) /\ Joined(acc.set.entries, ItemOps(e), a[k].set.entries) /\ a[k].ids = acc.ids \cup {e.id}
    <3>1. CASE e.id \in acc.ids
      <4>1. LoadOne(acc, e).ids = acc.ids
        BY <2>1, <3>1, LoadAgain
      <4> QED
        BY <2>1, <2>2, <3>1, <4>1, LoadAgainJoins
    <3>2. CASE e.id \notin acc.ids
      <4>1. ASSUME NEW kind \in Kinds PROVE acc.set.entries[<<e.id, kind>>] = NoStamp
        <5>1. <<e.id, kind>> \in Slots
          BY <2>1 DEF ItemType, Slots
        <5>2. \A op \in done(k - 1) : SlotOf(op) # <<e.id, kind>>
          BY <2>3, <3>2 DEF SlotOf
        <5> QED
          BY <2>2, <5>1, <5>2 DEF Joined, Empty
      <4>2. LoadOne(acc, e).ids = acc.ids \cup {e.id}
        BY <3>2, LoadFirst
      <4> QED
        BY <2>1, <2>2, <3>2, <4>1, <4>2, LoadFirstJoins
    <3> QED
      BY <3>1, <3>2
  <2>7. Joined(Empty, done(k), a[k].set.entries)
    <3>1. ItemOps(e) \subseteq Op /\ done(k - 1) \subseteq Op
      BY <2>3 DEF ItemOps, OpsOf
    <3> QED
      BY <2>2, <2>5, <2>6, <3>1, EmptyType, JoinedTwice
  <2> QED
    BY <2>5, <2>6, <2>7
<1>5. \A k \in 0 .. n : k \in T
  <2> HIDE DEF P
  <2>1. 0 \in 0 .. n /\ \A k \in 1 .. n : k \in 0 .. n
    BY <1>1
  <2>2. 0 \in T /\ \A k \in 1 .. n : k - 1 \in T => k \in T
    BY <1>3, <1>4, <2>1
  <2> HIDE DEF T, n
  <2> QED
    BY <1>1, <2>2, ListInduction
<1>6. P(a[n], n)
  <2>1. n \in 0 .. n
    BY <1>1
  <2> HIDE DEF P
  <2> QED
    BY <1>5, <2>1
<1> QED
  BY <1>2, <1>6

\* Into<Vec> lists every entry.
LEMMA VecElements ==
  ASSUME NEW ss, ss.entries \in Board, NEW walk \in Walks
  PROVE  LET vec == ToVec(ss, walk) IN
           /\ vec \in Seq(ItemType)
           /\ \A i \in 1 .. Len(vec) : vec[i].entries = ss.entries
           /\ UNION {ItemOps(vec[i]) : i \in 1 .. Len(vec)} = OpsOf(ss.entries)
<1> DEFINE n == Cardinality(Strokes)
           vec == ToVec(ss, walk)
           item(i) == [id |-> walk[i], entries |-> ss.entries]
<1>1. /\ n \in Nat /\ walk \in [1 .. n -> Strokes] /\ DOMAIN walk = 1 .. n
      /\ \A s \in Strokes : \E i \in 1 .. n : walk[i] = s
  BY WalkMeetsAll
<1> HIDE DEF n
<1>2. vec = [i \in 1 .. n |-> item(i)]
  BY <1>1 DEF ToVec
<1>3. vec \in [1 .. n -> ItemType]
  BY <1>1, <1>2 DEF ItemType
<1>4. vec \in Seq(ItemType) /\ Len(vec) = n
  BY <1>1, <1>3, FunctionIsSeq
<1>5. \A i \in 1 .. n : vec[i].entries = ss.entries /\ vec[i].id = walk[i]
  BY <1>2
<1> HIDE DEF vec
<1>6. \A i \in 1 .. n : ItemOps(vec[i]) = {op \in OpsOf(ss.entries) : op.id = walk[i]}
  BY <1>5 DEF ItemOps
<1>7. \A op \in OpsOf(ss.entries) : \E i \in 1 .. n : walk[i] = op.id
  BY <1>1 DEF OpsOf, Op
<1>8. UNION {ItemOps(vec[i]) : i \in 1 .. n} = OpsOf(ss.entries)
  BY <1>6, <1>7
<1> QED
  BY <1>4, <1>5, <1>8 DEF vec

LEMMA JoinedAnew == ASSUME NEW b \in Board PROVE Joined(Empty, OpsOf(b), b)
<1>1. ASSUME NEW x \in Slots PROVE MergeInto(Empty, b)[x] = b[x]
  <2>1. MergeInto(Empty, b)[x] = Later(NoStamp, b[x]) /\ b[x] \in Mark
    BY BoardType DEF MergeInto, Empty
  <2>2. ~Before(NoStamp, b[x]) => b[x] = NoStamp
    BY <2>1, NoStampIsLeast, AtMostIsAntisymmetric DEF AtMost
  <2> QED
    BY <2>1, <2>2 DEF Later
<1>2. MergeInto(Empty, b) = b
  <2>1. MergeInto(Empty, b) \in Board
    BY EmptyType, MergeType
  <2> QED
    BY <1>1, <2>1 DEF Board
<1> QED
  BY <1>2, EmptyType, JoinedByMerge

\* A sound set survives a save and a load unchanged, its index included.
THEOREM ReloadChangesNothing ==
  ASSUME NEW S, UniqueStamps(S), NEW ss, Sound(ss, S), NEW walk \in Walks
  PROVE  FromVec(ToVec(ss, walk)) = ss
<1> DEFINE vec == ToVec(ss, walk)
<1>1. ss.entries \in Board /\ Genuine(ss.entries, S) /\ OpsOf(ss.entries) \in SUBSET Op
  BY SoundEntries DEF Sound, OpsOf
<1>2. /\ vec \in Seq(ItemType)
      /\ \A i \in 1 .. Len(vec) : vec[i].entries = ss.entries
      /\ UNION {ItemOps(vec[i]) : i \in 1 .. Len(vec)} = OpsOf(ss.entries)
  BY <1>1, VecElements
<1> HIDE DEF vec
<1>3. Sound(FromVec(vec), S) /\ Joined(Empty, OpsOf(ss.entries), FromVec(vec).entries)
  <2>1. \A i \in 1 .. Len(vec) : Genuine(vec[i].entries, S)
    BY <1>1, <1>2
  <2> QED
    BY <1>2, <2>1, FromVecJoins
<1>4. FromVec(vec).entries = ss.entries
  BY <1>1, <1>3, EmptyType, JoinedAnew, JoinedIsUnique
<1> QED
  BY <1>3, <1>4, SoundEqual DEF vec

\* A list with the entries of two sets loads as their merge.
THEOREM LoadIsMerge ==
  ASSUME NEW S, UniqueStamps(S), NEW a, NEW b, Sound(a, S), Sound(b, S),
         NEW w1 \in Walks, NEW w2 \in Walks
  PROVE  FromVec(ToVec(a, w1) \o ToVec(b, w2)) = Merge(a, b, w1).set
<1> DEFINE v == ToVec(a, w1)
           w == ToVec(b, w2)
           vec == v \o w
           ops == OpsOf(a.entries) \cup OpsOf(b.entries)
<1>1. /\ a.entries \in Board /\ Genuine(a.entries, S) /\ b.entries \in Board /\ Genuine(b.entries, S)
      /\ OpsOf(a.entries) \subseteq Op /\ OpsOf(b.entries) \subseteq Op
  BY SoundEntries DEF Sound, OpsOf
<1>2. /\ v \in Seq(ItemType) /\ w \in Seq(ItemType)
      /\ \A i \in 1 .. Len(v) : v[i].entries = a.entries
      /\ \A i \in 1 .. Len(w) : w[i].entries = b.entries
      /\ UNION {ItemOps(v[i]) : i \in 1 .. Len(v)} = OpsOf(a.entries)
      /\ UNION {ItemOps(w[i]) : i \in 1 .. Len(w)} = OpsOf(b.entries)
  BY <1>1, VecElements
<1> HIDE DEF v, w
<1>3. vec \in Seq(ItemType)
  BY <1>2
<1>4. /\ \A i \in 1 .. Len(v) : i \in 1 .. Len(vec) /\ vec[i] = v[i]
      /\ \A i \in 1 .. Len(w) : i + Len(v) \in 1 .. Len(vec) /\ vec[i + Len(v)] = w[i]
      /\ \A i \in 1 .. Len(vec) : (i \in 1 .. Len(v) /\ vec[i] = v[i]) \/ (\E j \in 1 .. Len(w) : vec[i] = w[j])
  <2>1. \A i \in 1 .. Len(v) : i \in 1 .. Len(vec) /\ vec[i] = v[i]
    BY <1>2
  <2>2. \A i \in 1 .. Len(w) : i + Len(v) \in 1 .. Len(vec) /\ vec[i + Len(v)] = w[i]
    BY <1>2
  <2>3. \A i \in 1 .. Len(vec) :
          \/ i \in 1 .. Len(v) /\ vec[i] = v[i]
          \/ i - Len(v) \in 1 .. Len(w) /\ vec[i] = w[i - Len(v)]
    BY <1>2
  <2> QED
    BY <2>1, <2>2, <2>3
<1> HIDE DEF vec
<1>5. UNION {ItemOps(vec[i]) : i \in 1 .. Len(vec)} = ops
  <2>1. ASSUME NEW i \in 1 .. Len(vec) PROVE ItemOps(vec[i]) \subseteq ops
    BY <1>2, <1>4
  <2>2. \A op \in OpsOf(a.entries) : \E i \in 1 .. Len(vec) : op \in ItemOps(vec[i])
    BY <1>2, <1>4
  <2>3. \A op \in OpsOf(b.entries) : \E i \in 1 .. Len(vec) : op \in ItemOps(vec[i])
    BY <1>2, <1>4
  <2> QED
    BY <2>1, <2>2, <2>3
<1>6. \A i \in 1 .. Len(vec) : Genuine(vec[i].entries, S)
  BY <1>1, <1>2, <1>4
<1>7. Sound(FromVec(vec), S) /\ Joined(Empty, ops, FromVec(vec).entries)
  BY <1>3, <1>5, <1>6, FromVecJoins
<1>8. Sound(Merge(a, b, w1).set, S) /\ Merge(a, b, w1).set.entries = MergeInto(a.entries, b.entries)
  BY MergeJoins
<1>9. Joined(Empty, ops, MergeInto(a.entries, b.entries))
  BY <1>1, EmptyType, JoinedAnew, JoinedByMerge, JoinedTwice
<1>10. FromVec(vec).entries = Merge(a, b, w1).set.entries
  <2>1. ops \in SUBSET Op
    BY <1>1
  <2> HIDE DEF ops
  <2> QED
    BY <1>7, <1>8, <1>9, <2>1, EmptyType, JoinedIsUnique
<1> QED
  BY <1>7, <1>8, <1>10, SoundEqual DEF vec, v, w

-----------------------------------------------------------------------------
(* The replicas.                                                             *)

\* Every replica is sound, and is what the ops it has seen make of an empty set.
SetInv ==
  /\ set \in [Replicas -> SetType]
  /\ seen \in [Replicas -> SUBSET issued]
  /\ UniqueStamps(issued)
  /\ \A r \in Replicas : Sound(set[r], issued) /\ Joined(Empty, seen[r], set[r].entries)

\* Merging two replicas is seeing what either has seen.
LEMMA MergeOfJoined ==
  ASSUME NEW O1 \in SUBSET Op, NEW O2 \in SUBSET Op, NEW e, NEW f, Joined(Empty, O1, e), Joined(Empty, O2, f)
  PROVE  Joined(Empty, O1 \cup O2, MergeInto(e, f))
<1> DEFINE m == MergeInto(e, f)
<1>1. e \in Board /\ f \in Board /\ m \in Board /\ Below(e, m) /\ Below(f, m)
  BY MergeType, MergeGrows DEF Joined
<1>2. \A x \in Slots : m[x] = e[x] \/ m[x] = f[x]
  BY DEF MergeInto, Later
<1> HIDE DEF m
<1>3. Below(Empty, m)
  BY <1>1, EmptyType, BelowIsTransitive DEF Joined
<1>4. ASSUME NEW op \in O1 \cup O2 PROVE AtMost(op.ts, m[SlotOf(op)])
  <2>1. SlotOf(op) \in Slots /\ op.ts \in Mark
    BY SlotType
  <2>2. /\ AtMost(op.ts, e[SlotOf(op)]) \/ AtMost(op.ts, f[SlotOf(op)])
        /\ AtMost(e[SlotOf(op)], m[SlotOf(op)]) /\ AtMost(f[SlotOf(op)], m[SlotOf(op)])
    BY <1>1, <2>1 DEF Joined, Below
  <2> QED
    BY <1>1, <2>1, <2>2, BoardType, AtMostIsTransitive
<1>5. \A x \in Slots : m[x] = Empty[x] \/ \E op \in O1 \cup O2 : SlotOf(op) = x /\ op.ts = m[x]
  BY <1>2 DEF Joined
<1> QED
  BY <1>1, <1>3, <1>4, <1>5 DEF Joined, m

LEMMA SoundStays ==
  ASSUME NEW S, NEW T, S \subseteq T, NEW ss, Sound(ss, S) PROVE Sound(ss, T)
BY GenuineStays DEF Sound

LEMMA SetInvInit == Init => SetInv
<1> SUFFICES ASSUME Init PROVE SetInv
  OBVIOUS
<1>1. Sound(New, issued) /\ New.entries = Empty /\ New \in SetType
  BY NewIsSound DEF Sound
<1>2. Joined(Empty, {}, Empty)
  BY EmptyType, JoinedNone
<1>3. \A r \in Replicas : set[r] = New /\ seen[r] = {}
  BY DEF Init
<1>4. set \in [Replicas -> SetType] /\ seen \in [Replicas -> SUBSET issued] /\ UniqueStamps(issued)
  BY <1>1 DEF Init, UniqueStamps
<1> QED
  BY <1>1, <1>2, <1>3, <1>4 DEF SetInv

LEMMA SetInvNext == SetInv /\ [Next]_vars => SetInv'
<1> SUFFICES ASSUME SetInv, [Next]_vars PROVE SetInv'
  OBVIOUS
<1>1. /\ set \in [Replicas -> SetType] /\ seen \in [Replicas -> SUBSET issued] /\ UniqueStamps(issued)
      /\ issued \subseteq Op
      /\ \A r \in Replicas : Sound(set[r], issued) /\ Joined(Empty, seen[r], set[r].entries)
  BY DEF SetInv, UniqueStamps
<1>2. CASE Issue
  <2>1. PICK id \in Strokes, kind \in Kinds, n \in 1 .. MaxCounter, c \in Clients :
          LET op == [id |-> id, kind |-> kind, ts |-> [counter |-> n, client |-> c]] IN
            /\ \A o \in issued : o.ts # op.ts
            /\ issued' = issued \cup {op}
            /\ UNCHANGED <<set, seen>>
    BY <1>2 DEF Issue
  <2> DEFINE op == [id |-> id, kind |-> kind, ts |-> [counter |-> n, client |-> c]]
  <2>2. op \in Op
    <3>1. n \in Nat \ {0}
      OBVIOUS
    <3> QED
      BY <3>1 DEF Op, Stamp
  <2>3. issued' = issued \cup {op} /\ (\A o \in issued : o.ts # op.ts) /\ set' = set /\ seen' = seen
    BY <2>1
  <2> HIDE DEF op
  <2>4. UniqueStamps(issued')
    BY <1>1, <2>2, <2>3 DEF UniqueStamps
  <2>5. \A r \in Replicas : Sound(set[r], issued')
    BY <1>1, <2>3, SoundStays
  <2> QED
    BY <1>1, <2>3, <2>4, <2>5 DEF SetInv
<1>3. ASSUME NEW r \in Replicas, Deliver(r) PROVE SetInv'
  <2>1. PICK op \in issued : /\ set' = [set EXCEPT ![r] = Apply(@, op).set]
                             /\ seen' = [seen EXCEPT ![r] = @ \cup {op}]
                             /\ UNCHANGED issued
    BY <1>3 DEF Deliver
  <2>2. /\ Sound(Apply(set[r], op).set, issued)
        /\ Apply(set[r], op).set.entries = ApplyTo(set[r].entries, op)
    BY <1>1, ApplySound
  <2>3. Joined(Empty, seen[r] \cup {op}, ApplyTo(set[r].entries, op))
    <3>1. set[r].entries \in Board /\ op \in Op /\ seen[r] \subseteq Op
      BY <1>1 DEF SetType
    <3> QED
      BY <1>1, <3>1, EmptyType, JoinedByOne, JoinedTwice
  <2>4. \A q \in Replicas : /\ set'[q] = IF q = r THEN Apply(set[r], op).set ELSE set[q]
                            /\ seen'[q] = IF q = r THEN seen[r] \cup {op} ELSE seen[q]
    BY <1>1, <2>1
  <2>5. set' \in [Replicas -> SetType] /\ seen' \in [Replicas -> SUBSET issued]
    BY <1>1, <2>1, <2>2 DEF Sound
  <2> QED
    BY <1>1, <2>1, <2>2, <2>3, <2>4, <2>5 DEF SetInv
<1>4. ASSUME NEW r \in Replicas, Reload(r) PROVE SetInv'
  <2>1. PICK walk \in Walks : set' = [set EXCEPT ![r] = FromVec(ToVec(@, walk))]
    BY <1>4 DEF Reload
  <2>2. FromVec(ToVec(set[r], walk)) = set[r]
    BY <1>1, ReloadChangesNothing
  <2>3. set' = set /\ issued' = issued /\ seen' = seen
    BY <1>1, <1>4, <2>1, <2>2 DEF Reload
  <2> QED
    BY <1>1, <2>3 DEF SetInv
<1>5. ASSUME NEW r \in Replicas, NEW q \in Replicas, Sync(r, q) PROVE SetInv'
  <2>1. PICK walk \in Walks : set' = [set EXCEPT ![r] = Merge(@, set[q], walk).set]
    BY <1>5 DEF Sync
  <2>2. seen' = [seen EXCEPT ![r] = @ \cup seen[q]] /\ issued' = issued
    BY <1>5 DEF Sync
  <2> DEFINE m == Merge(set[r], set[q], walk)
  <2>3. Sound(m.set, issued) /\ m.set.entries = MergeInto(set[r].entries, set[q].entries)
    BY <1>1, MergeJoins
  <2>4. set' = [set EXCEPT ![r] = m.set]
    BY <2>1
  <2> HIDE DEF m
  <2>5. Joined(Empty, seen[r] \cup seen[q], m.set.entries)
    BY <1>1, <2>3, MergeOfJoined
  <2>6. \A p \in Replicas : /\ set'[p] = IF p = r THEN m.set ELSE set[p]
                            /\ seen'[p] = IF p = r THEN seen[r] \cup seen[q] ELSE seen[p]
    BY <1>1, <2>2, <2>4
  <2>7. set' \in [Replicas -> SetType] /\ seen' \in [Replicas -> SUBSET issued]
    BY <1>1, <2>2, <2>3, <2>4 DEF Sound
  <2> QED
    BY <1>1, <2>2, <2>3, <2>5, <2>6, <2>7 DEF SetInv
<1>6. CASE UNCHANGED vars
  BY <1>1, <1>6 DEF SetInv, vars
<1> QED
  BY <1>2, <1>3, <1>4, <1>5, <1>6 DEF Next

LEMMA SetInvariant == Spec => []SetInv
<1>1. Init => SetInv
  BY SetInvInit
<1>2. SetInv /\ [Next]_vars => SetInv'
  BY SetInvNext
<1> QED
  BY <1>1, <1>2, PTL DEF Spec

\* Type correctness of the replicas: every key in an index is the stamp of an op.
THEOREM StrokeSetTypes == Spec => []TypeOK
<1>1. SetInv => TypeOK
  BY DEF SetInv, TypeOK, SetType, UniqueStamps
<1> QED
  BY <1>1, SetInvariant, PTL

\* Applies, merges and loads in any mixture leave the index what rebuilding it
\* from the entries would give.
THEOREM IndexAlwaysAgrees == Spec => []IndexAgrees
<1>1. SetInv => IndexAgrees
  BY DEF SetInv, Sound, IndexAgrees
<1> QED
  BY <1>1, SetInvariant, PTL

\* The newest stamp among a set of ops is the one that applying them all leaves.
LEMMA JoinedIsNewest ==
  ASSUME NEW ops \in SUBSET Op, NEW e, Joined(Empty, ops, e), NEW x \in Slots
  PROVE  e[x] = Newest(ops, x)
<1> DEFINE stamps == {op.ts : op \in {o \in ops : SlotOf(o) = x}}
<1>1. e[x] = NoStamp \/ e[x] \in stamps
  BY DEF Joined, Empty
<1>2. \A t \in stamps : AtMost(t, e[x]) /\ t \in Stamp
  BY SlotType DEF Joined
<1>3. e[x] \in Mark
  BY BoardType DEF Joined
<1>4. CASE stamps = {}
  BY <1>1, <1>4 DEF Newest
<1>5. CASE stamps # {}
  <2>1. e[x] \in stamps
    <3>1. PICK t \in stamps : AtMost(t, e[x]) /\ t \in Stamp
      BY <1>2, <1>5
    <3>2. e[x] # NoStamp
      BY <3>1, NoStampIsLeast, AtMostIsAntisymmetric DEF Mark, Stamp, NoStamp
    <3> QED
      BY <1>1, <3>2
  <2> DEFINE m == CHOOSE t \in stamps : \A u \in stamps : AtMost(u, t)
  <2>2. m \in stamps /\ \A u \in stamps : AtMost(u, m)
    BY <1>2, <2>1
  <2>3. Newest(ops, x) = m
    BY <1>5 DEF Newest
  <2> HIDE DEF m, stamps
  <2>4. AtMost(m, e[x]) /\ AtMost(e[x], m) /\ m \in Mark
    BY <1>2, <2>1, <2>2 DEF Mark
  <2> QED
    BY <1>3, <2>3, <2>4, AtMostIsAntisymmetric
<1> QED
  BY <1>4, <1>5

\* A replica is a function of the set of ops that reached it.
THEOREM OrderNeverMatters == Spec => []OrderDoesNotMatter
<1>1. SetInv => OrderDoesNotMatter
  <2> SUFFICES ASSUME SetInv, NEW r \in Replicas
               PROVE  set[r].entries = [x \in Slots |-> Newest(seen[r], x)]
    BY DEF OrderDoesNotMatter
  <2>1. seen[r] \in SUBSET Op /\ Joined(Empty, seen[r], set[r].entries) /\ set[r].entries \in Board
    BY DEF SetInv, UniqueStamps, Joined
  <2>2. \A x \in Slots : set[r].entries[x] = Newest(seen[r], x)
    BY <2>1, JoinedIsNewest
  <2> QED
    BY <2>1, <2>2 DEF Board
<1> QED
  BY <1>1, SetInvariant, PTL

\* A merge is the join of the two sets, index included, whichever side merges
\* and in whatever order the map is walked; a count of zero is honest.
THEOREM MergeIsAlwaysJoin == Spec => []MergeIsJoin
<1>1. SetInv => MergeIsJoin
  <2> SUFFICES ASSUME SetInv, NEW r \in Replicas, NEW q \in Replicas, NEW w1 \in Walks, NEW w2 \in Walks
               PROVE  LET a == Merge(set[r], set[q], w1)
                          b == Merge(set[q], set[r], w2)
                      IN  /\ a.set.entries = MergeInto(set[r].entries, set[q].entries)
                          /\ a.set = b.set
                          /\ a.changed = 0 => a.set.order = set[r].order
    BY DEF MergeIsJoin
  <2> DEFINE a == Merge(set[r], set[q], w1)
             b == Merge(set[q], set[r], w2)
  <2>1. UniqueStamps(issued) /\ Sound(set[r], issued) /\ Sound(set[q], issued)
    BY DEF SetInv
  <2>2. Sound(a.set, issued) /\ a.set.entries = MergeInto(set[r].entries, set[q].entries)
    BY <2>1, MergeJoins
  <2>0. a.changed = 0 => a.set.order = set[r].order
    BY <2>1, QuietMerge
  <2>3. Sound(b.set, issued) /\ b.set.entries = MergeInto(set[q].entries, set[r].entries)
    BY <2>1, MergeJoins
  <2>4. MergeInto(set[r].entries, set[q].entries) = MergeInto(set[q].entries, set[r].entries)
    BY <2>1, SoundEntries, MergeIsCommutative
  <2> HIDE DEF a, b
  <2>5. a.set = b.set
    BY <2>2, <2>3, <2>4, SoundEqual
  <2> QED
    BY <2>0, <2>2, <2>5 DEF a, b
<1> QED
  BY <1>1, SetInvariant, PTL

\* Duplicate ids in a loaded list are folded in by the rules of a merge.
THEOREM DuplicatesAlwaysFold == Spec => []LoadFoldsDuplicates
<1>1. SetInv => LoadFoldsDuplicates
  BY LoadIsMerge DEF SetInv, LoadFoldsDuplicates
<1> QED
  BY <1>1, SetInvariant, PTL

\* "Returns true if the visible state changed", in every state a replica can be in.
THEOREM ChangesAlwaysReported == Spec => []ChangesAreReported
BY StrokeSetTypes, ReportsEveryChange, PTL
=============================================================================
