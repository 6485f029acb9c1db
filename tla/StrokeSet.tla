------------------------------ MODULE StrokeSet ------------------------------
(***************************************************************************)
(* StrokeSet of common/src/crdt.rs with its draw-order index: several      *)
(* replicas of one set, brought up to date by ops in any order and any     *)
(* number of times, by merges of whole sets, and by a save and a load.     *)
(*                                                                         *)
(* The index is a BTreeMap from the add stamp to the stroke: a set of      *)
(* pairs no two of which have the same key.                                *)
(***************************************************************************)
EXTENDS Lww, Sequences, SequencesExt

CONSTANTS
  Replicas,
  MaxCounter   \* bound: largest counter of an issued stamp

ASSUME StrokeSetAssumption == IsFiniteSet(Strokes) /\ MaxCounter \in Nat

VARIABLES
  set,     \* set[r]: the replica's entries and its order index
  issued,  \* ops handed to the system so far; each stamp is used once
  seen     \* seen[r]: ops that reached the replica, one way or another (history)

vars == <<set, issued, seen>>

New == [entries |-> Empty, order |-> {}]

Without(order, k) == {p \in order : p.key # k}
With(order, k, id) == Without(order, k) \cup {[key |-> k, id |-> id]}

AddKey(entries, s) == entries[<<s, "Add">>]

\* Mutant of Apply: a stroke that moves keeps its old place in the index too.
ApplyKeepsOldKey(ss, op) ==
  LET new     == ApplyTo(ss.entries, op)
      was     == IsVisible(ss.entries, op.id)
      now     == IsVisible(new, op.id)
      oldKey  == AddKey(ss.entries, op.id)
      newKey  == AddKey(new, op.id)
      changed == was # now \/ (now /\ oldKey # newKey)
      rest    == IF was /\ ~now THEN Without(ss.order, oldKey) ELSE ss.order
      order   == IF changed /\ now THEN With(rest, newKey, op.id) ELSE rest
  IN  [set |-> [entries |-> new, order |-> order], changed |-> changed]

\* Mutant of Apply: only visibility is compared.
ApplyIgnoresMoves(ss, op) ==
  LET new     == ApplyTo(ss.entries, op)
      was     == IsVisible(ss.entries, op.id)
      now     == IsVisible(new, op.id)
      rest    == Without(ss.order, AddKey(ss.entries, op.id))
      order   == IF now THEN With(rest, AddKey(new, op.id), op.id) ELSE rest
  IN  [set |-> [entries |-> new, order |-> order], changed |-> was # now]

\* apply: the new set, and whether the visible state changed.
Apply(ss, op) ==
  LET new     == ApplyTo(ss.entries, op)
      was     == IsVisible(ss.entries, op.id)
      now     == IsVisible(new, op.id)
      oldKey  == AddKey(ss.entries, op.id)
      newKey  == AddKey(new, op.id)
      changed == was # now \/ (now /\ oldKey # newKey)
      rest    == IF changed /\ was THEN Without(ss.order, oldKey) ELSE ss.order
      order   == IF changed /\ now THEN With(rest, newKey, op.id) ELSE rest
  IN  [set |-> [entries |-> new, order |-> order], changed |-> changed]

\* apply_all: the new set, and how many ops changed the visible state.
ApplyAll(ss, ops) ==
  FoldLeft(LAMBDA acc, op : LET r == Apply(acc.set, op) IN
             [set |-> r.set, changed |-> acc.changed + IF r.changed THEN 1 ELSE 0],
           [set |-> ss, changed |-> 0], ops)

\* One register as a list of ops: empty for None.
RegisterOps(entries, s, kind) ==
  LET ts == entries[<<s, kind>>] IN
    IF ts = NoStamp THEN <<>> ELSE <<[id |-> s, kind |-> kind, ts |-> ts]>>

\* Mutant of EntryOps: the tombstone is left out.
EntryOpsAddOnly(entries, s) == RegisterOps(entries, s, "Add")

\* The adds and removes of one entry, None left out.
EntryOps(entries, s) == RegisterOps(entries, s, "Add") \o RegisterOps(entries, s, "Remove")

\* A HashMap is walked in any order.
Walks == SetToSeqs(Strokes)

\* merge: every entry of other is applied, its add before its remove.
Merge(ss, other, walk) ==
  ApplyAll(ss, FlattenSeq([i \in DOMAIN walk |-> EntryOps(other.entries, walk[i])]))

\* Into<Vec>: the entries, without the index.
ToVec(ss, walk) == [i \in DOMAIN walk |-> [id |-> walk[i], entries |-> ss.entries]]

\* Mutant of LoadOne: the last entry of an id replaces the earlier ones.
LoadOneReplaces(acc, e) ==
  [ids |-> acc.ids \cup {e.id},
   set |-> [entries |-> [x \in Slots |-> IF x[1] = e.id THEN e.entries[x]
                                         ELSE acc.set.entries[x]],
            order   |-> LET rest == {p \in acc.set.order : p.id # e.id} IN
                          IF IsVisible(e.entries, e.id)
                          THEN With(rest, AddKey(e.entries, e.id), e.id) ELSE rest]]

\* From<Vec>: the first entry of an id is taken as it is, later ones are folded in.
LoadOne(acc, e) ==
  IF e.id \in acc.ids
  THEN [acc EXCEPT !.set = ApplyAll(@, EntryOps(e.entries, e.id)).set]
  ELSE [ids |-> acc.ids \cup {e.id},
        set |-> [entries |-> [x \in Slots |-> IF x[1] = e.id THEN e.entries[x]
                                              ELSE acc.set.entries[x]],
                 order   |-> IF IsVisible(e.entries, e.id)
                             THEN With(acc.set.order, AddKey(e.entries, e.id), e.id)
                             ELSE acc.set.order]]

FromVec(vec) == FoldLeft(LoadOne, [ids |-> {}, set |-> New], vec).set

-----------------------------------------------------------------------------
Init ==
  /\ set = [r \in Replicas |-> New]
  /\ issued = {}
  /\ seen = [r \in Replicas |-> {}]

\* Somebody stamps an op.  Clocks hand out every stamp once.
Issue ==
  \E id \in Strokes, kind \in Kinds, n \in 1 .. MaxCounter, c \in Clients :
    LET op == [id |-> id, kind |-> kind, ts |-> [counter |-> n, client |-> c]] IN
      /\ \A o \in issued : o.ts # op.ts
      /\ issued' = issued \cup {op}
      /\ UNCHANGED <<set, seen>>

\* An op reaches a replica, for the first time or once more.
Deliver(r) ==
  \E op \in issued :
    /\ set' = [set EXCEPT ![r] = Apply(@, op).set]
    /\ seen' = [seen EXCEPT ![r] = @ \cup {op}]
    /\ UNCHANGED issued

\* Replica r merges a snapshot of replica q.
Sync(r, q) ==
  /\ \E walk \in Walks : set' = [set EXCEPT ![r] = Merge(@, set[q], walk).set]
  /\ seen' = [seen EXCEPT ![r] = @ \cup seen[q]]
  /\ UNCHANGED issued

\* The set is serialised and read back.
Reload(r) ==
  /\ \E walk \in Walks : set' = [set EXCEPT ![r] = FromVec(ToVec(@, walk))]
  /\ UNCHANGED <<issued, seen>>

Next ==
  \/ Issue
  \/ \E r \in Replicas : Deliver(r) \/ Reload(r)
  \/ \E r, q \in Replicas : r # q /\ Sync(r, q)

Spec == Init /\ [][Next]_vars

-----------------------------------------------------------------------------
(* Properties *)

IndexOf(entries) == {[key |-> AddKey(entries, s), id |-> s] : s \in Visible(entries)}

TypeOK ==
  /\ issued \subseteq Op
  /\ \A r \in Replicas : /\ set[r].entries \in Board
                         /\ set[r].order \subseteq [key : Stamp, id : Strokes]
                         /\ seen[r] \subseteq issued

\* The index lists exactly the visible strokes at their add stamps, whatever
\* mixture of applies, merges and loads produced the set.
IndexAgrees == \A r \in Replicas : set[r].order = IndexOf(set[r].entries)

\* The newest stamp among the ops seen for a slot.
Newest(ops, x) ==
  LET stamps == {op.ts : op \in {o \in ops : SlotOf(o) = x}} IN
    IF stamps = {} THEN NoStamp
    ELSE CHOOSE t \in stamps : \A u \in stamps : AtMost(u, t)

\* A replica is a function of the set of ops that reached it: neither their
\* order, nor repetition, nor the way they came matters.
OrderDoesNotMatter ==
  \A r \in Replicas : set[r].entries = [x \in Slots |-> Newest(seen[r], x)]

\* Which strokes are visible, and which of two is drawn first.
Ahead(b) ==
  {p \in Visible(b) \X Visible(b) : AtMost(b[<<p[1], "Add">>], b[<<p[2], "Add">>])}

\* "Returns true if the visible state changed (a stroke appeared, disappeared,
\* or moved in draw order)": no such change goes unreported, so no caller that
\* skips its repaint or its save on false is ever stale.  The only other
\* reports are those of a newer Add of a visible stroke that keeps its place.
ChangesAreReported ==
  \A r \in Replicas : \A op \in issued :
    LET old  == set[r].entries
        res  == Apply(set[r], op)
        same == Ahead(res.set.entries) = Ahead(old)
    IN  /\ ~same => res.changed
        /\ res.changed /\ same => op.kind = "Add" /\ IsVisible(old, op.id)

\* Merging is the join of the two sets, index included, in whatever order the
\* hash map is walked; both sides of a mutual merge end up equal; and a merge
\* that reports no change changed nothing that a renderer would have to redraw.
MergeIsJoin ==
  \A r, q \in Replicas : \A w1, w2 \in Walks :
    LET a == Merge(set[r], set[q], w1)
        b == Merge(set[q], set[r], w2)
    IN  /\ a.set.entries = MergeInto(set[r].entries, set[q].entries)
        /\ a.set = b.set
        /\ a.changed = 0 => a.set.order = set[r].order

\* "Duplicate ids in the input: fold them in via the LWW rules": a list with
\* the entries of two sets loads as their merge.
LoadFoldsDuplicates ==
  \A r, q \in Replicas : \A w1, w2 \in Walks :
    FromVec(ToVec(set[r], w1) \o ToVec(set[q], w2)) = Merge(set[r], set[q], w1).set
=============================================================================
