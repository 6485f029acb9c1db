------------------------------- MODULE History -------------------------------
(***************************************************************************)
(* One client's editing: the gestures, the groups of ops they make, and    *)
(* the two stacks of client/src/app.rs that undo and redo them, while ops  *)
(* of other clients change the same document.                              *)
(*                                                                         *)
(* The user interface is one thread.  A frame handles what arrived, then   *)
(* the shortcuts, then the pointer, so a shortcut or a remote op may fall  *)
(* anywhere inside a drag.  Pen, Line, Rect and Ellipse are one tool here. *)
(***************************************************************************)
EXTENDS Lww, Sequences, SequencesExt, FiniteSets

CONSTANTS
  me,          \* this client
  AuthorOf,    \* AuthorOf[s]: Stroke.client_id
  MaxHistory,  \* MAX_HISTORY
  MaxClock,    \* bound: largest counter of a stamp
  MaxRemote,   \* bound: ops that arrive from other clients
  None         \* Option's None

ASSUME HistoryAssumption ==
  /\ IsFiniteSet(Strokes)
  /\ me \in Clients
  /\ AuthorOf \in [Strokes -> Clients]
  /\ MaxHistory \in Nat \ {0}
  /\ MaxClock \in Nat
  /\ MaxRemote \in Nat
  /\ None \notin Seq(Op)

Tools == {"Draw", "Text", "Eraser", "Pan"}

VARIABLES
  doc, clock,   \* the document and the counter of the LamportClock
  tool,         \* the tool selected
  held,         \* the pointer is down on the canvas
  drawing,      \* the stroke under the pen
  text,         \* the label being typed and whether it would be committed
  erasing,      \* ops of the eraser drag
  undo, redo,   \* groups of ops, newest last
  remote,       \* ops that have arrived from other clients (bounded)
  foreign       \* strokes the stacks no longer speak of (history)

gesture == <<tool, held, drawing, text>>
vars    == <<doc, clock, gesture, erasing, undo, redo, remote, foreign>>

Init ==
  /\ doc = Empty /\ clock = 0
  /\ tool = "Draw" /\ held = FALSE
  /\ drawing = None /\ text = None /\ erasing = None
  /\ undo = <<>> /\ redo = <<>>
  /\ remote = 0 /\ foreign = {}

-----------------------------------------------------------------------------
(* Groups and stacks *)

IdsOf(group) == {group[i].id : i \in DOMAIN group}
Erasing      == IF erasing = None THEN <<>> ELSE erasing

\* Some entry of the history is about s.
Mentioned(s) ==
  \E group \in {Erasing} \cup Range(undo) \cup Range(redo) : s \in IdsOf(group)

\* Mutant of Stamped: the clock ticks after the stamp is made.
StampedBefore(n) == [counter |-> clock + n - 1, client |-> me]

\* The nth stamp from now.
Stamped(n) == [counter |-> clock + n, client |-> me]
Tick(n)    == clock + n <= MaxClock /\ clock' = clock + n

Trimmed(stack) == IF Len(stack) > MaxHistory THEN Tail(stack) ELSE stack

\* A group becomes the newest entry, and what was undone before is gone.
Record(group) == undo' = Trimmed(Append(undo, group)) /\ redo' = <<>>

Forgotten == redo' = redo /\ undo' = undo

\* apply_all
Applied(group) == FoldLeft(ApplyTo, doc, group)

\* Mutant of Invert: get instead of get_any, so that an erased stroke has no payload.
InvertShown(group) ==
  LET n == Len(group)
      inverse(i) == LET op == group[n + 1 - i] IN
        IF op.kind = "Remove" => IsVisible(doc, op.id) THEN <<Inverted(op, Stamped(i))>> ELSE <<>>
  IN  FlattenSeq([i \in 1 .. n |-> inverse(i)])

\* Mutant of Invert: stamped with the clock before it ticks.
InvertBehind(group) ==
  LET n == Len(group)
      inverse(i) == LET op == group[n + 1 - i] IN
        IF CanInvert(doc, op) THEN <<Inverted(op, Stamped(i - 1))>> ELSE <<>>
  IN  FlattenSeq([i \in 1 .. n |-> inverse(i)])

\* The inverse of the ith op from the end of group, or nothing.
InverseAt(group, i) ==
  LET op == group[Len(group) + 1 - i] IN
    IF CanInvert(doc, op) THEN <<Inverted(op, Stamped(i))>> ELSE <<>>

\* invert: the ops that undo a group, its last op first, with ascending stamps.
Invert(group) == FlattenSeq([i \in 1 .. Len(group) |-> InverseAt(group, i)])

\* commit_stroke, then commit.
CommitStroke(s) ==
  LET op == [id |-> s, kind |-> "Add", ts |-> Stamped(1)] IN
    /\ Tick(1)
    /\ doc' = ApplyTo(doc, op)
    /\ Record(<<op>>)

\* An id nobody has seen yet: Uuids are fresh.
Fresh == {s \in Strokes : AuthorOf[s] = me /\ doc[<<s, "Add">>] = NoStamp}

-----------------------------------------------------------------------------
(* Pen and shapes *)

StartDrawing ==
  /\ tool = "Draw" /\ ~held
  /\ held' = TRUE
  /\ drawing' \in Fresh
  /\ UNCHANGED <<doc, clock, tool, text, erasing, undo, redo, foreign, remote>>

StopDrawing ==
  /\ tool = "Draw" /\ held /\ drawing # None
  /\ held' = FALSE /\ drawing' = None
  /\ CommitStroke(drawing)
  /\ UNCHANGED <<tool, text, erasing, foreign, remote>>

\* Released with nothing to commit: a shape too small to be one, a drag that
\* began under another tool, or one that ends while Space is held.
DropDrawing ==
  /\ tool \in {"Draw", "Text", "Pan"} /\ held
  /\ held' = FALSE /\ drawing' = None
  /\ UNCHANGED <<doc, clock, tool, text, erasing, undo, redo, foreign, remote>>

-----------------------------------------------------------------------------
(* Text *)

\* finish_text: blank labels are dropped.
FinishText(commit) ==
  IF text # None /\ text.filled /\ commit
  THEN CommitStroke(text.id)
  ELSE UNCHANGED <<doc, clock, undo, redo>>

\* A click finishes the label before and starts another.
PlaceLabel ==
  /\ tool = "Text" /\ ~held
  /\ FinishText(TRUE)
  /\ \E s \in Fresh : /\ text # None => s # text.id
                      /\ text' = [id |-> s, filled |-> FALSE]
  /\ UNCHANGED <<tool, held, drawing, erasing, foreign, remote>>

Type ==
  /\ text # None
  /\ text' = [text EXCEPT !.filled = ~@]
  /\ UNCHANGED <<doc, clock, tool, held, drawing, erasing, undo, redo, foreign, remote>>

\* Enter and a lost focus commit, Escape does not.
CloseEditor ==
  /\ text # None
  /\ \E commit \in BOOLEAN : FinishText(commit)
  /\ text' = None
  /\ UNCHANGED <<tool, held, drawing, erasing, foreign, remote>>

-----------------------------------------------------------------------------
(* Eraser *)

RemoveOp(s) == [id |-> s, kind |-> "Remove", ts |-> Stamped(1)]

\* What the pointer hits is removed at once, and belongs to the drag if there is one.
Touch(s, group) ==
  /\ Tick(1)
  /\ doc' = ApplyTo(doc, RemoveOp(s))
  /\ IF group = None
     THEN /\ erasing' = None
          /\ foreign' = foreign \cup {r \in {s} : Mentioned(r)}
     ELSE /\ erasing' = Append(group, RemoveOp(s))
          /\ UNCHANGED foreign

Miss(group) == erasing' = group /\ UNCHANGED <<doc, clock, foreign>>

StartErasing ==
  /\ tool = "Eraser" /\ ~held
  /\ held' = TRUE
  /\ Miss(Erasing) \/ \E s \in Visible(doc) : Touch(s, Erasing)
  /\ UNCHANGED <<tool, drawing, text, undo, redo, remote>>

\* The tool may have been selected after the drag began: then there is no group.
Erase ==
  /\ tool = "Eraser" /\ held
  /\ \E s \in Visible(doc) : Touch(s, erasing)
  /\ UNCHANGED <<gesture, undo, redo, remote>>

\* Mutant of FinishErase: the redo stack survives.
FinishEraseKeepsRedo ==
  IF Erasing = <<>> THEN Forgotten
  ELSE undo' = Trimmed(Append(undo, Erasing)) /\ redo' = redo

FinishErase == IF Erasing = <<>> THEN Forgotten ELSE Record(Erasing)

StopErasing ==
  /\ tool = "Eraser" /\ held
  /\ held' = FALSE
  /\ FinishErase
  /\ erasing' = None
  /\ UNCHANGED <<doc, clock, tool, drawing, text, foreign, remote>>

\* Press and release in one place.
ClickErase ==
  /\ tool = "Eraser" /\ ~held
  /\ \E s \in Visible(doc) :
       /\ Tick(1)
       /\ doc' = ApplyTo(doc, RemoveOp(s))
       /\ Record(Append(Erasing, RemoveOp(s)))
  /\ erasing' = None
  /\ UNCHANGED <<gesture, foreign, remote>>

-----------------------------------------------------------------------------
(* Shortcuts and buttons *)

\* Mutant of SelectTool: a half-finished drag is dropped like a drawing.
SelectToolDrops ==
  /\ \E t \in Tools \ {tool} : tool' = t
  /\ drawing' = None /\ text' = None /\ erasing' = None
  /\ IF text # None THEN FinishText(TRUE) ELSE UNCHANGED <<doc, clock, undo, redo>>
  /\ UNCHANGED <<held, foreign, remote>>

\* cancel_gesture: an eraser drag ends where it is, a label is committed.
SelectTool ==
  /\ \E t \in Tools \ {tool} : tool' = t
  /\ drawing' = None /\ text' = None /\ erasing' = None
  /\ IF text # None THEN FinishText(TRUE)
     ELSE FinishErase /\ UNCHANGED <<doc, clock>>
  /\ UNCHANGED <<held, foreign, remote>>

\* Take a group from one stack, apply its inverse, and put that on the other.
TakeBack(group) ==
  /\ Tick(Len(group))
  /\ doc' = Applied(Invert(group))
  /\ foreign' = foreign \cup (IdsOf(Erasing) \cap IdsOf(group))
  /\ UNCHANGED <<gesture, erasing, remote>>

Undo ==
  /\ undo # <<>>
  /\ TakeBack(Last(undo))
  /\ undo' = Front(undo)
  /\ redo' = Append(redo, Invert(Last(undo)))

Redo ==
  /\ redo # <<>>
  /\ TakeBack(Last(redo))
  /\ redo' = Front(redo)
  /\ undo' = Append(undo, Invert(Last(redo)))

Mine == {s \in Visible(doc) : AuthorOf[s] = me}

\* visible: in draw order.
MineInOrder ==
  {list \in [1 .. Cardinality(Mine) -> Mine] :
     \A i, j \in DOMAIN list :
       i < j => Before(doc[<<list[i], "Add">>], doc[<<list[j], "Add">>])}

\* clear_mine: every visible stroke of this client in draw order, as one group.
ClearMine ==
  /\ Mine # {}
  /\ \E list \in MineInOrder :
       LET group == [i \in DOMAIN list |->
                       [id |-> list[i], kind |-> "Remove", ts |-> Stamped(i)]]
       IN  /\ Tick(Len(group))
           /\ doc' = Applied(group)
           /\ Record(group)
  /\ UNCHANGED <<gesture, erasing, foreign, remote>>

-----------------------------------------------------------------------------
(* Other clients *)

\* Another client can name this client's strokes once they have been drawn.
Known(s) == AuthorOf[s] # me \/ doc[<<s, "Add">>] # NoStamp

Remote ==
  \E s \in {r \in Strokes : Known(r)}, kind \in Kinds, c \in Clients \ {me}, n \in 1 .. MaxClock :
    LET op == [id |-> s, kind |-> kind, ts |-> [counter |-> n, client |-> c]] IN
      /\ \A x \in Slots : doc[x] # op.ts
      /\ clock' = IF n > clock THEN n ELSE clock
      /\ doc' = ApplyTo(doc, op)
      /\ foreign' = IF Mentioned(s) /\ IsVisible(doc, s) # IsVisible(ApplyTo(doc, op), s)
                    THEN foreign \cup {s} ELSE foreign
      /\ remote < MaxRemote /\ remote' = remote + 1
      /\ UNCHANGED <<gesture, erasing, undo, redo>>

-----------------------------------------------------------------------------
Next ==
  \/ StartDrawing \/ StopDrawing \/ DropDrawing
  \/ PlaceLabel \/ Type \/ CloseEditor
  \/ StartErasing \/ Erase \/ StopErasing \/ ClickErase
  \/ SelectTool \/ Undo \/ Redo \/ ClearMine
  \/ Remote

Spec == Init /\ [][Next]_vars

-----------------------------------------------------------------------------
(* Properties *)

Groups == {Erasing} \cup Range(undo) \cup Range(redo)

TypeOK ==
  /\ doc \in Board /\ clock \in 0 .. MaxClock
  /\ tool \in Tools /\ held \in BOOLEAN
  /\ drawing \in Strokes \cup {None}
  /\ text \in [id : Strokes, filled : BOOLEAN] \cup {None}
  /\ \A group \in Groups : \A i \in DOMAIN group : group[i] \in Op
  /\ foreign \subseteq Strokes

\* MAX_HISTORY bounds both stacks together, although only commit and
\* finish_erase trim and redo pushes without looking.
HistoryBounded == Len(undo) + Len(redo) <= MaxHistory

\* invert filters out what it cannot invert, but there never is such an op:
\* every entry of the history, undone or redone any number of times and
\* whatever others did to its strokes, can be taken back whole.
EntriesStayWhole ==
  \A group \in Range(undo) \cup Range(redo) :
    group # <<>> /\ \A i \in DOMAIN group : CanInvert(doc, group[i])

\* Undo and redo have their way: whatever others have done to its strokes since,
\* each stroke of the entry is put back to where the first op about it found it,
\* also when it was erased twice in one drag.
UndoPrevails ==
  [][(Undo \/ Redo) =>
       LET group == IF Undo THEN Last(undo) ELSE Last(redo) IN
         \A i \in DOMAIN group :
           (\A j \in 1 .. i - 1 : group[j].id # group[i].id) =>
             (IsVisible(doc', group[i].id) <=> group[i].kind = "Remove")]_vars

\* "Ids tombstoned during the current eraser drag (undo groups them)": what
\* this client erases is in some entry it can undo.
ErasedIsRecorded ==
  [][\A s \in Strokes :
       (IsVisible(doc, s) /\ ~IsVisible(doc', s) /\ doc'[<<s, "Remove">>].client = me)
         => Mentioned(s)']_vars

-----------------------------------------------------------------------------
(* The log of pictures that the stacks stand for *)

\* What was on picture before a group: on each of its strokes the first op decides.
Reverted(picture, group) ==
  {s \in Strokes :
     IF s \in IdsOf(group)
     THEN \E i \in DOMAIN group : /\ group[i].id = s /\ group[i].kind = "Remove"
                                  /\ \A j \in 1 .. i - 1 : group[j].id # s
     ELSE s \in picture}

\* The pictures a stack leads to from picture, which comes last.
Pictures(picture, stack) ==
  LET n == Len(stack)
      at[i \in 1 .. n + 1] == IF i = n + 1 THEN picture ELSE Reverted(at[i + 1], stack[i])
  IN  at

Unwound(picture, stack) == [i \in 1 .. Len(stack) |-> Pictures(picture, stack)[i] \ foreign]

Picture == Visible(doc) \cup IdsOf(Erasing)

Log == INSTANCE UndoLog WITH
  now    <- Picture \ foreign,
  lifted <- IdsOf(Erasing) \ foreign,
  past   <- Unwound(Picture, undo),
  future <- Unwound(Picture, redo)

\* Undo and redo walk through the pictures the user has seen, for every stroke
\* that nobody else has meddled with.
Refines == Log!Spec
=============================================================================
