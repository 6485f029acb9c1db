--------------------------------- MODULE Lww ---------------------------------
(***************************************************************************)
(* The last-writer-wins register algebra of common/src/crdt.rs, shared by  *)
(* every module that holds a replica.                                      *)
(*                                                                         *)
(* A StrokeEntry has two registers, the newest add and the newest remove.  *)
(* A board maps every slot, a stroke and one of its two registers, to the  *)
(* stamp the register holds.  A stroke's payload never changes once drawn, *)
(* so a register is its stamp alone; NoStamp is the Option's None.         *)
(***************************************************************************)
EXTENDS Integers

CONSTANTS
  Clients,   \* client ids: Uuids are compared as numbers
  Strokes    \* stroke ids

ASSUME ClientsAssumption == Clients \subseteq Nat

Kinds == {"Add", "Remove"}
Slots == Strokes \X Kinds

\* LamportClock::tick increments before it stamps, so no counter is 0.
Stamp   == [counter : Nat \ {0}, client : Clients]
NoStamp == [counter |-> 0, client |-> 0]

\* Mutant of Before: no tie-break between clients.
BeforeUntied(a, b) == a.counter < b.counter

\* The derived Ord of Timestamp: counter first, client id to break ties.
Before(a, b) ==
  \/ a.counter < b.counter
  \/ a.counter = b.counter /\ a.client < b.client

AtMost(a, b) == ~Before(b, a)

\* Mutant of Later: the last arrival wins.
LaterArrival(a, b) == b

\* A register is replaced only by a strictly newer stamp.
Later(a, b) == IF Before(a, b) THEN b ELSE a

Op == [id : Strokes, kind : Kinds, ts : Stamp]
SlotOf(op) == <<op.id, op.kind>>

Board == [Slots -> Stamp \cup {NoStamp}]
Empty == [x \in Slots |-> NoStamp]

\* Mutant of ApplyTo: an op writes both registers of its stroke.
ApplyToBoth(b, op) ==
  [x \in Slots |-> IF x[1] = op.id THEN Later(b[x], op.ts) ELSE b[x]]

\* Entries of StrokeSet after apply(op).
ApplyTo(b, op) == [b EXCEPT ![SlotOf(op)] = Later(@, op.ts)]

\* Mutant of MergeInto: the snapshot replaces the document.
MergeReplaces(a, b) == b

\* Entries of StrokeSet after merge(other): apply of every add and remove.
MergeInto(a, b) == [x \in Slots |-> Later(a[x], b[x])]

IsVisible(b, s) == Before(b[<<s, "Remove">>], b[<<s, "Add">>])
Visible(b) == {s \in Strokes : IsVisible(b, s)}

\* What apply compares: the visible strokes and their place in draw order.
Drawn(b) == [s \in Visible(b) |-> b[<<s, "Add">>]]

\* b knows everything a knows.
Below(a, b) == \A x \in Slots : AtMost(a[x], b[x])

\* Every register holds the stamp of an op on that very register.
Genuine(b, ops) ==
  \A x \in Slots : b[x] = NoStamp \/ \E op \in ops : SlotOf(op) = x /\ op.ts = b[x]

\* The counters that latest_timestamp takes the maximum of.
Counters(b) == {b[x].counter : x \in Slots}

\* The op that undoes op, absent when only a tombstone was ever seen.
CanInvert(b, op) == op.kind = "Remove" => b[<<op.id, "Add">>] # NoStamp
Inverted(op, ts) ==
  [id |-> op.id, kind |-> IF op.kind = "Add" THEN "Remove" ELSE "Add", ts |-> ts]
=============================================================================
