--------------------------- MODULE PreviewsProofs ---------------------------
(* Theorems about Previews, for every number of authors, strokes, deltas,   *)
(* connections and rejoins, and every capacity of the channel.              *)
EXTENDS Previews, TLAPS

\* Messages that can be under way: a delta is of a stroke that was begun.
Good ==
  {m \in [type : {"Delta"}, id : Begun, n : Nat] : m.n \in 1 .. MaxDeltas[m.id]}
    \cup {Idle, Left}
    \cup [type : {"Ops"}, adds : SUBSET Strokes, removes : SUBSET Strokes]
Frames == [from : Authors, msg : Good]

LinkType ==
  /\ sent \in [Strokes -> Nat]
  /\ cur \in [Authors -> Nat] /\ link \in [Authors -> BOOLEAN]
  /\ queue \in [Authors -> Seq(Good)]
  /\ up \in [Conns -> Seq(Good)]
  /\ rx \in Seq(Frames)

\* Overflow makes everything shown spotty: that is what protects NeverTwice
\* from the snapshot that answers it.
PreviewInv ==
  /\ TypeOK /\ LinkType
  /\ lagged => Shown \subseteq spotty
  /\ NeverTwice

-----------------------------------------------------------------------------
(* Queues *)

LEMMA WiderSeq ==
  ASSUME NEW S, NEW T, S \subseteq T, NEW q \in Seq(S) PROVE q \in Seq(T)
OBVIOUS

LEMMA PartOfSeq ==
  ASSUME NEW S, NEW q \in Seq(S), NEW i \in Nat \ {0}, NEW j \in 0 .. Len(q)
  PROVE  SubSeq(q, i, j) \in Seq(S)
OBVIOUS

LEMMA JoinedSeqs ==
  ASSUME NEW S, NEW p \in Seq(S), NEW q \in Seq(S) PROVE p \o q \in Seq(S)
OBVIOUS

LEMMA NoSeq == ASSUME NEW S PROVE << >> \in Seq(S)
OBVIOUS

LEMMA ShortSeqs == ASSUME NEW S, NEW e \in S PROVE << >> \in Seq(S) /\ <<e>> \in Seq(S)
OBVIOUS

LEMMA RangeType == ASSUME NEW S, NEW q \in Seq(S) PROVE Range(q) \subseteq S
BY DEF Range

LEMMA ConnType ==
  /\ \A k \in Conns : k[1] \in Authors /\ k[2] \in 1 .. MaxConns[k[1]] /\ k = <<k[1], k[2]>>
  /\ \A c \in Authors : \A n \in 1 .. MaxConns[c] : <<c, n>> \in Conns
BY DEF Conns

\* A stroke that was begun stays begun, and so does what is under way.
LEMMA GoodGrows == Begun \subseteq Begun' => Good \subseteq Good' /\ Frames \subseteq Frames'
BY DEF Good, Frames, Idle, Left

\* The queues of messages are still queues of messages.
LEMMA QueuesStay ==
  ASSUME LinkType, Begun \subseteq Begun'
  PROVE  /\ \A c \in Authors : queue[c] \in Seq(Good')
         /\ \A k \in Conns : up[k] \in Seq(Good')
         /\ rx \in Seq(Frames')
BY GoodGrows, WiderSeq DEF LinkType

LEMMA SendType ==
  ASSUME TypeOK, LinkType, Begun \subseteq Begun', NEW c \in Authors, NEW m \in Good', Send(c, m)
  PROVE  queue' \in [Authors -> Seq(Good')] /\ up' \in [Conns -> Seq(Good')]
<1>1. Current(c) \in Conns
  BY ConnType DEF TypeOK, Current
<1>2. /\ \A d \in Authors : queue[d] \in Seq(Good')
      /\ \A k \in Conns : up[k] \in Seq(Good')
  BY QueuesStay
<1>3. queue \in [Authors -> Seq(Good)] /\ up \in [Conns -> Seq(Good)]
  BY DEF LinkType
<1>4. Append(queue[c], m) \in Seq(Good') /\ Append(up[Current(c)], m) \in Seq(Good')
  BY <1>1, <1>2
<1> QED
  BY <1>1, <1>2, <1>3, <1>4 DEF Send

LEMMA BroadcastType ==
  ASSUME TypeOK, LinkType, NEW c \in Authors, NEW m \in Good, Broadcast(c, m)
  PROVE  /\ rx' \in Seq(Frames) /\ Len(rx') <= Capacity /\ lagged' \in BOOLEAN
         /\ lagged' => lagged \/ Overwritten = Begun
<1>1. rx \in Seq(Frames) /\ Len(rx) <= Capacity /\ Capacity \in Nat \ {0} /\ lagged \in BOOLEAN
  BY PreviewsAssumption DEF TypeOK, LinkType
<1> DEFINE f == [from |-> c, msg |-> m]
<1>2. f \in Frames
  BY DEF Frames
<1> HIDE DEF f
<1>3. CASE vses = "out"
  BY <1>1, <1>3 DEF Broadcast
<1>4. CASE vses # "out" /\ Len(rx) # Capacity
  <2>1. rx' = Append(rx, f) /\ lagged' = lagged
    BY <1>1, <1>4 DEF Broadcast, f
  <2> QED
    BY <1>1, <1>2, <1>4, <2>1
<1>5. CASE vses # "out" /\ Len(rx) = Capacity
  <2>1. rx' = Append(Tail(rx), f) /\ lagged' \in BOOLEAN
    BY <1>1, <1>5 DEF Broadcast, f
  <2>2. Tail(rx) \in Seq(Frames) /\ Len(Tail(rx)) = Len(rx) - 1
    BY <1>1, <1>5
  <2>3. rx' \in Seq(Frames) /\ Len(rx') <= Capacity
    BY <1>1, <1>2, <1>5, <2>1, <2>2
  <2> QED
    BY <1>5, <2>1, <2>3 DEF Overwritten
<1> QED
  BY <1>3, <1>4, <1>5
-----------------------------------------------------------------------------
(* What a step may show *)

\* Previews and documents that stay as they are.
LEMMA StillScreen ==
  ASSUME PreviewInv, spotty \subseteq spotty', UNCHANGED <<previews, doc>>,
         lagged' => lagged \/ Shown \subseteq spotty'
  PROVE  /\ lagged' => Shown' \subseteq spotty'
         /\ NeverTwice'
BY DEF PreviewInv, NeverTwice, Shown

\* An author at work.
LEMMA DrawInv ==
  ASSUME PreviewInv, NEW c \in Authors, Draw(c) \/ SendCursor(c)
  PROVE  PreviewInv'
<1>0. TypeOK /\ LinkType
  BY DEF PreviewInv
<1>1. CASE Begin(c)
  <2>1. PICK s \in Mine(c) :
          /\ status[s] = "new" /\ status' = [status EXCEPT ![s] = "open"]
          /\ sent' = [sent EXCEPT ![s] = 1]
          /\ spotty' = IF link[c] /\ vses = "live" THEN spotty ELSE spotty \cup {s}
          /\ Send(c, Delta(s, 1))
    BY <1>1 DEF Begin
  <2>2. s \in Strokes /\ MaxDeltas[s] \in Nat \ {0}
    BY PreviewsAssumption DEF Mine
  <2>3. Begun' = Begun \cup {s}
    BY <1>0, <2>1, <2>2 DEF Begun, TypeOK
  <2>4. Delta(s, 1) \in Good'
    BY <2>2, <2>3 DEF Delta, Good
  <2>5. queue' \in [Authors -> Seq(Good')] /\ up' \in [Conns -> Seq(Good')] /\ rx \in Seq(Frames')
    BY <1>0, <2>1, <2>3, <2>4, SendType, QueuesStay
  <2>6. /\ UNCHANGED <<cur, link, ses, room, vses, joins, rx, lagged, doc, previews>>
    BY <1>1 DEF Begin
  <2>7. sent' \in [Strokes -> Nat] /\ \A t \in Strokes : sent'[t] \in 0 .. MaxDeltas[t]
    BY <1>0, <2>1, <2>2 DEF TypeOK, LinkType
  <2>8. LinkType'
    BY <1>0, <2>5, <2>6, <2>7 DEF LinkType
  <2>9. TypeOK'
    BY <1>0, <2>1, <2>2, <2>3, <2>6, <2>7 DEF TypeOK, Shown
  <2> QED
    BY <2>1, <2>6, <2>8, <2>9, StillScreen DEF PreviewInv
<1>2. ASSUME NEW m \in Good, Send(c, m), Begun' = Begun,
             status' \in [Strokes -> {"new", "open", "drawn", "cancelled", "erased"}],
             sent' \in [Strokes -> Nat], \A s \in Strokes : sent'[s] \in 0 .. MaxDeltas[s],
             UNCHANGED <<cur, link, ses, room, viewer>>
      PROVE  PreviewInv'
  <2>1. Good' = Good /\ Frames' = Frames
    BY <1>2 DEF Good, Frames, Idle, Left
  <2>2. queue' \in [Authors -> Seq(Good')] /\ up' \in [Conns -> Seq(Good')]
    BY <1>0, <1>2, <2>1, SendType
  <2>3. LinkType'
    BY <1>0, <1>2, <2>1, <2>2 DEF LinkType, viewer
  <2>4. TypeOK'
    BY <1>0, <1>2 DEF TypeOK, viewer, Shown
  <2> QED
    BY <1>2, <2>3, <2>4, StillScreen DEF PreviewInv, viewer
<1>3. ASSUME NEW s \in Strokes, status[s] # "new",
             NEW st \in {"open", "drawn", "cancelled", "erased"}, status' = [status EXCEPT ![s] = st]
      PROVE  /\ Begun' = Begun
             /\ status' \in [Strokes -> {"new", "open", "drawn", "cancelled", "erased"}]
  BY <1>0, <1>3 DEF Begun, TypeOK
<1>4. CASE Extend(c)
  <2>1. PICK s \in Open(c) :
          /\ sent[s] < MaxDeltas[s] /\ sent' = [sent EXCEPT ![s] = @ + 1]
          /\ Send(c, Delta(s, sent[s] + 1))
    BY <1>4 DEF Extend
  <2>2. s \in Begun /\ s \in Strokes /\ MaxDeltas[s] \in Nat /\ sent[s] \in Nat
    BY <1>0, PreviewsAssumption DEF Open, Mine, Begun, LinkType
  <2>3. Delta(s, sent[s] + 1) \in Good
    BY <2>1, <2>2 DEF Delta, Good
  <2>4. /\ sent' \in [Strokes -> Nat] /\ \A t \in Strokes : sent'[t] \in 0 .. MaxDeltas[t]
    BY <1>0, <2>1, <2>2 DEF TypeOK, LinkType
  <2>5. Begun' = Begun /\ status' \in [Strokes -> {"new", "open", "drawn", "cancelled", "erased"}]
        /\ UNCHANGED <<cur, link, ses, room, viewer>>
    BY <1>0, <1>4 DEF Extend, Begun, TypeOK
  <2> QED
    BY <1>2, <2>1, <2>3, <2>4, <2>5
<1>5. CASE Commit(c)
  <2>1. PICK s \in Open(c) : status' = [status EXCEPT ![s] = "drawn"] /\ Send(c, Ops({s}, {}))
    BY <1>5 DEF Commit
  <2>2. s \in Strokes /\ status[s] # "new"
    BY DEF Open, Mine
  <2>3. Ops({s}, {}) \in Good
    BY <2>2 DEF Ops, Good
  <2>4. UNCHANGED <<sent, cur, link, ses, room, viewer>>
    BY <1>5 DEF Commit
  <2>5. Begun' = Begun /\ status' \in [Strokes -> {"new", "open", "drawn", "cancelled", "erased"}]
    BY <1>3, <2>1, <2>2
  <2>6. sent' \in [Strokes -> Nat] /\ \A t \in Strokes : sent'[t] \in 0 .. MaxDeltas[t]
    BY <1>0, <2>4 DEF TypeOK, LinkType
  <2> QED
    BY <1>2, <2>1, <2>3, <2>4, <2>5, <2>6
<1>6. CASE Erase(c)
  <2>1. PICK s \in Mine(c) : /\ status[s] = "drawn" /\ status' = [status EXCEPT ![s] = "erased"]
                             /\ Send(c, Ops({}, {s}))
    BY <1>6 DEF Erase
  <2>2. s \in Strokes /\ status[s] # "new"
    BY <2>1 DEF Mine
  <2>3. Ops({}, {s}) \in Good
    BY <2>2 DEF Ops, Good
  <2>4. UNCHANGED <<sent, cur, link, ses, room, viewer>>
    BY <1>6 DEF Erase
  <2>5. Begun' = Begun /\ status' \in [Strokes -> {"new", "open", "drawn", "cancelled", "erased"}]
    BY <1>3, <2>1, <2>2
  <2>6. sent' \in [Strokes -> Nat] /\ \A t \in Strokes : sent'[t] \in 0 .. MaxDeltas[t]
    BY <1>0, <2>4 DEF TypeOK, LinkType
  <2> QED
    BY <1>2, <2>1, <2>3, <2>4, <2>5, <2>6
<1>7. CASE SendCursor(c)
  <2>1. Idle \in Good
    BY DEF Good
  <2>2. Begun' = Begun
    BY <1>7 DEF SendCursor, Begun
  <2> QED
    BY <1>0, <1>2, <1>7, <2>1, <2>2 DEF SendCursor, TypeOK, LinkType
<1>8. CASE Cancel(c)
  <2>1. PICK s \in Open(c) : status' = [status EXCEPT ![s] = "cancelled"]
    BY <1>8 DEF Cancel
  <2>2. s \in Strokes /\ status[s] # "new"
    BY DEF Open, Mine
  <2>3. Begun' = Begun /\ status' \in [Strokes -> {"new", "open", "drawn", "cancelled", "erased"}]
    BY <1>3, <2>1, <2>2
  <2>4. Good' = Good /\ Frames' = Frames
    BY <2>3 DEF Good, Frames, Idle, Left
  <2>5. UNCHANGED <<sent, cur, link, queue, up, ses, room, viewer>>
    BY <1>8 DEF Cancel
  <2>6. TypeOK' /\ LinkType'
    BY <1>0, <2>3, <2>4, <2>5 DEF TypeOK, LinkType, viewer, Shown
  <2> QED
    BY <2>5, <2>6, StillScreen DEF PreviewInv, viewer
<1> QED
  BY <1>1, <1>4, <1>5, <1>6, <1>7, <1>8 DEF Draw
\* Steps that begin no stroke leave the kinds of messages alone.
LEMMA SameGood ==
  ASSUME status' = status PROVE Begun' = Begun /\ Good' = Good /\ Frames' = Frames
BY DEF Begun, Good, Frames, Idle, Left

\* The network thread.
LEMMA NetInv ==
  ASSUME PreviewInv, NEW c \in Authors, Break(c) \/ Connect(c)
  PROVE  PreviewInv'
<1>0. TypeOK /\ LinkType
  BY DEF PreviewInv
<1>1. CASE Break(c)
  <2>1. PICK i \in 0 .. Len(up[Current(c)]) : \E j \in i .. Len(up[Current(c)]) :
          /\ up' = [up EXCEPT ![Current(c)] = SubSeq(up[Current(c)], 1, i)]
          /\ queue' = [queue EXCEPT ![c] = SubSeq(up[Current(c)], j + 1, Len(up[Current(c)]))]
    BY <1>1 DEF Break
  <2>p. PICK j \in i .. Len(up[Current(c)]) :
          queue' = [queue EXCEPT ![c] = SubSeq(up[Current(c)], j + 1, Len(up[Current(c)]))]
    BY <2>1
  <2>2. Current(c) \in Conns
    BY <1>0, ConnType DEF TypeOK, Current
  <2>3. up[Current(c)] \in Seq(Good) /\ Len(up[Current(c)]) \in Nat
    BY <1>0, <2>2 DEF LinkType
  <2>4. SubSeq(up[Current(c)], 1, i) \in Seq(Good)
    BY <2>3, PartOfSeq
  <2>5. SubSeq(up[Current(c)], j + 1, Len(up[Current(c)])) \in Seq(Good)
    <3>1. j + 1 \in Nat \ {0} /\ Len(up[Current(c)]) \in 0 .. Len(up[Current(c)])
      BY <2>3
    <3> QED
      BY <2>3, <3>1, PartOfSeq
  <2>6. up' \in [Conns -> Seq(Good)] /\ queue' \in [Authors -> Seq(Good)]
    BY <1>0, <2>1, <2>p, <2>2, <2>4, <2>5 DEF LinkType
  <2>7. /\ link' = [link EXCEPT ![c] = FALSE] /\ spotty' = spotty \cup Open(c)
        /\ UNCHANGED <<status, sent, cur, ses, room, vses, joins, rx, lagged, doc, previews>>
    BY <1>1 DEF Break
  <2>8. Begun' = Begun /\ Good' = Good /\ Frames' = Frames /\ Open(c) \subseteq Begun
    BY <2>7, SameGood DEF Open, Mine, Begun
  <2>9. TypeOK' /\ LinkType'
    BY <1>0, <2>6, <2>7, <2>8 DEF TypeOK, LinkType, Shown
  <2> QED
    BY <2>7, <2>9, StillScreen DEF PreviewInv
<1>2. CASE Connect(c)
  <2>1. PICK n \in 0 .. Len(queue[c]) :
          up' = [up EXCEPT ![<<c, cur[c] + 1>>] =
                   Outbox(SubSeq(queue[c], 1, n)) \o SubSeq(queue[c], n + 1, Len(queue[c]))]
    BY <1>2 DEF Connect
  <2>2. /\ cur[c] + 1 \in 1 .. MaxConns[c] /\ <<c, cur[c] + 1>> \in Conns /\ cur[c] + 1 \in Nat
    <3>1. cur[c] \in 1 .. MaxConns[c] /\ cur[c] < MaxConns[c] /\ MaxConns[c] \in Nat
      BY <1>0, <1>2, PreviewsAssumption DEF TypeOK, Connect
    <3>2. cur[c] + 1 \in 1 .. MaxConns[c] /\ cur[c] + 1 \in Nat
      BY <3>1
    <3> QED
      BY <3>2, ConnType
  <2>3. queue[c] \in Seq(Good) /\ Len(queue[c]) \in Nat /\ n + 1 \in Nat \ {0}
    BY <1>0 DEF LinkType
  <2>4. SubSeq(queue[c], 1, n) \in Seq(Good) /\ SubSeq(queue[c], n + 1, Len(queue[c])) \in Seq(Good)
    BY <2>3, PartOfSeq
  <2>5. ASSUME NEW q \in Seq(Good) PROVE Outbox(q) \in Seq(Good)
    <3> DEFINE ops == {m \in Range(q) : m.type = "Ops"}
               adds == UNION {m.adds : m \in ops}
               removes == UNION {m.removes : m \in ops}
    <3>1. ops \subseteq [type : {"Ops"}, adds : SUBSET Strokes, removes : SUBSET Strokes]
      BY RangeType DEF Good, Idle, Left
    <3>2. adds \subseteq Strokes /\ removes \subseteq Strokes
      BY <3>1
    <3> HIDE DEF adds, removes
    <3>3. Ops(adds, removes) \in Good
      BY <3>2 DEF Ops, Good
    <3>4. Outbox(q) \in {<<>>, <<Ops(adds, removes)>>}
      BY DEF Outbox, adds, removes
    <3> QED
      BY <3>3, <3>4, ShortSeqs
  <2>6. Outbox(SubSeq(queue[c], 1, n)) \o SubSeq(queue[c], n + 1, Len(queue[c])) \in Seq(Good)
    BY <2>4, <2>5, JoinedSeqs
  <2>7. up' \in [Conns -> Seq(Good)]
    BY <1>0, <2>1, <2>2, <2>6 DEF LinkType
  <2>8. /\ link' = [link EXCEPT ![c] = TRUE] /\ cur' = [cur EXCEPT ![c] = @ + 1]
        /\ ses' = [ses EXCEPT ![<<c, cur[c] + 1>>] = "live"]
        /\ queue' = [queue EXCEPT ![c] = <<>>]
        /\ UNCHANGED <<status, sent, room, viewer>>
    BY <1>2 DEF Connect
  <2>9. Begun' = Begun /\ Good' = Good /\ Frames' = Frames
    BY <2>8, SameGood
  <2>10. <<>> \in Seq(Good) /\ cur \in [Authors -> Nat] /\ \A d \in Authors : cur'[d] \in 1 .. MaxConns[d]
    BY <1>0, <2>2, <2>8 DEF TypeOK, LinkType
  <2>11. LinkType'
    BY <1>0, <2>2, <2>7, <2>8, <2>9, <2>10 DEF LinkType, viewer
  <2>12. TypeOK'
    BY <1>0, <2>2, <2>8, <2>9, <2>10 DEF TypeOK, LinkType, Shown, viewer
  <2> QED
    BY <2>8, <2>11, <2>12, StillScreen DEF PreviewInv, viewer
<1> QED
  BY <1>1, <1>2

LEMMA AppliedType ==
  ASSUME NEW f \in [Strokes -> {Unknown, Visible, Erased}], NEW m
  PROVE  /\ Applied(f, m) \in [Strokes -> {Unknown, Visible, Erased}]
         /\ \A s \in Strokes : Applied(f, m)[s] = Visible => f[s] = Visible \/ s \in m.adds
BY DEF Applied, Unknown, Visible, Erased

\* The sessions of authors.
LEMMA SessionInv ==
  ASSUME PreviewInv, NEW k \in Conns, Handle(k) \/ End(k)
  PROVE  PreviewInv'
<1>0. TypeOK /\ LinkType /\ k[1] \in Authors /\ Shown \subseteq Begun
  BY ConnType DEF PreviewInv, TypeOK
<1>1. Left \in Good
  BY DEF Good
<1>2. ASSUME NEW m \in Good, Broadcast(k[1], m), UNCHANGED author, UNCHANGED <<vses, doc, previews>>,
             NEW q \in Seq(Good), up' = [up EXCEPT ![k] = q],
             NEW S \in SUBSET Begun, spotty' = spotty \cup Overwritten \cup S,
             ses' \in [Conns -> {"none", "live", "closed"}],
             room' \in [Strokes -> {Unknown, Visible, Erased}]
      PROVE  PreviewInv'
  <2>1. /\ rx' \in Seq(Frames) /\ Len(rx') <= Capacity /\ lagged' \in BOOLEAN
        /\ lagged' => lagged \/ Overwritten = Begun
    BY <1>0, <1>2, BroadcastType
  <2>2. Begun' = Begun /\ Good' = Good /\ Frames' = Frames /\ Overwritten \subseteq Begun
    BY <1>2, SameGood DEF author, Overwritten
  <2>3. up' \in [Conns -> Seq(Good)]
    BY <1>0, <1>2 DEF LinkType
  <2>4. LinkType'
    BY <1>0, <1>2, <2>1, <2>2, <2>3 DEF LinkType, author
  <2>5. TypeOK'
    BY <1>0, <1>2, <2>1, <2>2 DEF TypeOK, Shown, author
  <2>6. spotty \subseteq spotty' /\ (lagged' => lagged \/ Shown \subseteq spotty')
    BY <1>0, <1>2, <2>1
  <2> QED
    BY <1>2, <2>4, <2>5, <2>6, StillScreen DEF PreviewInv
<1>3. CASE Handle(k)
  <2>1. Head(up[k]) \in Good /\ Tail(up[k]) \in Seq(Good)
    BY <1>0, <1>3 DEF Handle, LinkType
  <2>2. /\ Broadcast(k[1], Head(up[k])) /\ UNCHANGED <<author, vses, doc, previews, ses>>
        /\ up' = [up EXCEPT ![k] = Tail(up[k])] /\ spotty' = spotty \cup Overwritten \cup {}
        /\ room' \in {room, Applied(room, Head(up[k]))}
    BY <1>3 DEF Handle
  <2>3. room' \in [Strokes -> {Unknown, Visible, Erased}] /\ ses' \in [Conns -> {"none", "live", "closed"}]
    <3>1. room \in [Strokes -> {Unknown, Visible, Erased}] /\ ses \in [Conns -> {"none", "live", "closed"}]
      BY <1>0 DEF TypeOK
    <3>2. Applied(room, Head(up[k])) \in [Strokes -> {Unknown, Visible, Erased}]
      BY <3>1, AppliedType
    <3> QED
      BY <2>2, <3>1, <3>2
  <2>4. {} \in SUBSET Begun /\ UNCHANGED author
    BY <2>2
  <2> QED
    BY <1>2, <2>1, <2>2, <2>3, <2>4
<1>4. CASE End(k)
  <2>1. /\ Broadcast(k[1], Left) /\ UNCHANGED <<author, vses, doc, previews, room>>
        /\ up' = [up EXCEPT ![k] = <<>>] /\ spotty' = spotty \cup Overwritten \cup Open(k[1])
        /\ ses' = [ses EXCEPT ![k] = "closed"]
    BY <1>4 DEF End
  <2>2. /\ <<>> \in Seq(Good) /\ Open(k[1]) \subseteq Begun
        /\ room' \in [Strokes -> {Unknown, Visible, Erased}] /\ ses' \in [Conns -> {"none", "live", "closed"}]
    BY <1>0, <2>1 DEF TypeOK, Open, Mine, Begun
  <2> QED
    BY <1>1, <1>2, <2>1, <2>2
<1> QED
  BY <1>3, <1>4
\* What handle_server makes of a frame, P being the previews afterwards.
LEMMA BelieveShows ==
  ASSUME PreviewInv, NEW c \in Authors, NEW m \in Good, NEW P, P = Believe(c, m)
  PROVE  /\ DOMAIN P \subseteq Begun
         /\ \A s \in DOMAIN P : P[s] \in Seq(1 .. MaxDeltas[s])
         /\ \A s \in DOMAIN P : s \in Shown \/ doc[s] # Visible
         /\ m.type = "Ops" => DOMAIN P \subseteq Shown \ m.adds
<1>1. Shown \subseteq Begun /\ \A s \in Shown : previews[s] \in Seq(1 .. MaxDeltas[s])
  BY DEF PreviewInv, TypeOK
<1>2. Begun \subseteq Strokes
  BY DEF Begun
<1>3. ASSUME NEW S, P = Keep(S)
      PROVE  DOMAIN P = Shown \cap S /\ \A s \in DOMAIN P : P[s] = previews[s]
  BY <1>3 DEF Keep
<1>4. CASE m.type \in {"Cursor", "Left"}
  <2>1. P = Keep(Strokes \ Mine(c))
    BY <1>4 DEF Believe
  <2> QED
    BY <1>1, <1>3, <1>4, <2>1
<1>5. CASE m.type = "Ops"
  <2>1. P = Keep(Strokes \ m.adds)
    BY <1>5 DEF Believe
  <2>2. DOMAIN P = Shown \cap (Strokes \ m.adds) /\ \A s \in DOMAIN P : P[s] = previews[s]
    BY <2>1 DEF Keep
  <2> QED
    BY <1>1, <2>2
<1>6. CASE m.type = "Delta"
  <2>1. m.id \in Begun /\ m.n \in 1 .. MaxDeltas[m.id]
    BY <1>6 DEF Good, Idle, Left
  <2>2. CASE doc[m.id] = Visible
    <3>1. P = previews
      BY <1>6, <2>2 DEF Believe
    <3> QED
      BY <1>1, <1>6, <3>1 DEF Shown
  <2>3. CASE doc[m.id] # Visible
    <3>1. P = NewPreview(c, m)
      BY <1>6, <2>3 DEF Believe
    <3> DEFINE kept == IF m.id \in Shown THEN Shown ELSE Shown \ Mine(c)
               old  == IF m.id \in Shown THEN previews[m.id] ELSE <<>>
    <3>2. P = [s \in kept \cup {m.id} |-> IF s # m.id THEN previews[s] ELSE Folded(old, m)]
      BY <3>1 DEF NewPreview
    <3>3. old \in Seq(1 .. MaxDeltas[m.id])
      BY <1>1, NoSeq
    <3>4. Folded(old, m) \in Seq(1 .. MaxDeltas[m.id])
      <4>1. <<m.n>> \in Seq(1 .. MaxDeltas[m.id])
        BY <2>1, ShortSeqs
      <4>2. Append(old, m.n) \in Seq(1 .. MaxDeltas[m.id])
        BY <2>1, <3>3
      <4> QED
        BY <4>1, <4>2 DEF Folded
    <3>5. kept \subseteq Shown
      OBVIOUS
    <3> HIDE DEF kept, old
    <3> QED
      BY <1>1, <1>6, <2>1, <2>3, <3>2, <3>4, <3>5
  <2> QED
    BY <2>2, <2>3
<1>7. m.type \in {"Delta", "Cursor", "Left", "Ops"}
  BY DEF Good, Idle, Left
<1> QED
  BY <1>4, <1>5, <1>6, <1>7

\* The viewer's session and the viewer itself.
LEMMA ViewerInv ==
  ASSUME PreviewInv, Relay \/ Resync \/ Leave \/ Subscribe \/ Welcome
  PROVE  PreviewInv'
<1>0. TypeOK /\ LinkType /\ room \in [Strokes -> {Unknown, Visible, Erased}]
      /\ doc \in [Strokes -> {Unknown, Visible, Erased}]
  BY DEF PreviewInv, TypeOK
<1>1. UNCHANGED <<author, up, ses, room>> /\ Begun' = Begun /\ Good' = Good /\ Frames' = Frames
  <2>1. UNCHANGED <<author, up, ses, room>>
    BY DEF Relay, Resync, Leave, Subscribe, Welcome
  <2> QED
    BY <2>1, SameGood DEF author
<1>2. ASSUME rx' \in Seq(Frames), Len(rx') <= Capacity, lagged' \in BOOLEAN,
             vses' \in {"out", "subscribed", "live"},
             doc' \in [Strokes -> {Unknown, Visible, Erased}],
             Shown' \subseteq Begun, spotty' \subseteq Begun,
             \A s \in Shown' : previews'[s] \in Seq(1 .. MaxDeltas[s])
      PROVE  TypeOK' /\ LinkType'
  <2>1. LinkType'
    BY <1>0, <1>1, <1>2 DEF LinkType, author
  <2>2. TypeOK'
    BY <1>0, <1>1, <1>2 DEF TypeOK, author
  <2> QED
    BY <2>1, <2>2
<1>3. Merged(doc, room) \in [Strokes -> {Unknown, Visible, Erased}]
  BY <1>0 DEF Merged, Unknown, Visible, Erased
<1>4. /\ DOMAIN <<>> = {} /\ <<>> \in Seq(Frames) /\ Len(<<>>) = 0 /\ Capacity \in Nat
      /\ spotty \subseteq Begun /\ Begun \subseteq Begun
  BY <1>0, PreviewsAssumption DEF TypeOK
<1>5. CASE Relay
  <2> DEFINE f == Head(rx)
  <2>1. f \in Frames /\ Tail(rx) \in Seq(Frames) /\ Len(Tail(rx)) = Len(rx) - 1 /\ Len(rx) <= Capacity
    BY <1>0, <1>5 DEF Relay, LinkType, TypeOK
  <2>2. /\ previews' = Believe(f.from, f.msg) /\ rx' = Tail(rx)
        /\ doc' = IF f.msg.type = "Ops" THEN Applied(doc, f.msg) ELSE doc
        /\ UNCHANGED <<vses, lagged, spotty>> /\ ~lagged
    BY <1>5 DEF Relay
  <2> HIDE DEF f
  <2>3. f.from \in Authors /\ f.msg \in Good
    BY <2>1 DEF Frames
  <2>4. /\ Shown' \subseteq Begun
        /\ \A s \in Shown' : previews'[s] \in Seq(1 .. MaxDeltas[s])
        /\ \A s \in Shown' : s \in Shown \/ doc[s] # Visible
        /\ f.msg.type = "Ops" => Shown' \subseteq Shown \ f.msg.adds
    BY <2>2, <2>3, BelieveShows DEF Shown
  <2>5. /\ doc' \in [Strokes -> {Unknown, Visible, Erased}]
        /\ \A s \in Strokes : doc'[s] = Visible =>
             doc[s] = Visible \/ (f.msg.type = "Ops" /\ s \in f.msg.adds)
    <3>1. Applied(doc, f.msg) \in [Strokes -> {Unknown, Visible, Erased}]
      BY <1>0, AppliedType
    <3>2. \A s \in Strokes : Applied(doc, f.msg)[s] = Visible => doc[s] = Visible \/ s \in f.msg.adds
      BY <1>0, AppliedType
    <3> QED
      BY <1>0, <2>2, <3>1, <3>2
  <2>6. TypeOK' /\ LinkType'
    BY <1>0, <1>2, <1>4, <2>1, <2>2, <2>4, <2>5 DEF TypeOK
  <2>7. NeverTwice'
    <3> SUFFICES ASSUME NEW s \in Shown', s \notin spotty, doc'[s] = Visible PROVE FALSE
      BY <2>2 DEF NeverTwice
    <3>1. s \in Strokes
      BY <2>4 DEF Begun
    <3>2. s \in Shown \/ doc[s] # Visible
      BY <2>4
    <3>3. s \in Shown => doc[s] # Visible
      BY DEF PreviewInv, NeverTwice
    <3>4. f.msg.type = "Ops" /\ s \in f.msg.adds
      BY <2>5, <3>1, <3>2, <3>3
    <3> QED
      BY <2>4, <3>4
  <2> QED
    BY <2>2, <2>6, <2>7 DEF PreviewInv
<1>6. CASE Resync
  <2>1. /\ lagged /\ lagged' = FALSE /\ doc' = Merged(doc, room)
        /\ UNCHANGED <<vses, rx, previews, spotty>> /\ Shown' = Shown
    BY <1>6 DEF Resync, Shown
  <2>2. TypeOK' /\ LinkType'
    BY <1>0, <1>2, <1>3, <2>1 DEF TypeOK, LinkType
  <2>3. Shown \subseteq spotty
    BY <2>1 DEF PreviewInv
  <2> QED
    BY <2>1, <2>2, <2>3 DEF PreviewInv, NeverTwice
<1>7. CASE Leave \/ Welcome
  <2>1. /\ previews' = <<>> /\ spotty' = spotty \cup Begun /\ vses' \in {"out", "live"}
        /\ (rx' = <<>> /\ lagged' = FALSE) \/ UNCHANGED <<rx, lagged>>
        /\ doc' \in {doc, Merged(doc, room)}
    BY <1>7 DEF Leave, Welcome
  <2>2. Shown' = {}
    BY <1>4, <2>1 DEF Shown
  <2>4. rx' \in Seq(Frames) /\ Len(rx') <= Capacity /\ lagged' \in BOOLEAN
    <3>1. CASE rx' = <<>> /\ lagged' = FALSE
      <4>1. <<>> \in Seq(Frames)
        BY NoSeq
      <4>2. Len(<<>>) = 0 /\ 0 <= Capacity
        BY PreviewsAssumption
      <4> QED
        BY <3>1, <4>1, <4>2
    <3>2. CASE UNCHANGED <<rx, lagged>>
      BY <1>0, <3>2 DEF TypeOK, LinkType
    <3> QED
      BY <2>1, <3>1, <3>2
  <2>5. /\ doc' \in [Strokes -> {Unknown, Visible, Erased}] /\ spotty' \subseteq Begun
        /\ vses' \in {"out", "subscribed", "live"}
    BY <1>0, <1>3, <1>4, <2>1
  <2>3. TypeOK' /\ LinkType'
    BY <1>2, <2>2, <2>4, <2>5
  <2> QED
    BY <2>2, <2>3 DEF PreviewInv, NeverTwice
<1>8. CASE Subscribe
  <2>1. vses' = "subscribed" /\ UNCHANGED <<rx, lagged, doc, previews, spotty>> /\ Shown' = Shown
    BY <1>8 DEF Subscribe, Shown
  <2>2. Shown' \subseteq Begun /\ \A s \in Shown' : previews'[s] \in Seq(1 .. MaxDeltas[s])
    BY <1>0, <2>1 DEF TypeOK
  <2>3. /\ rx' \in Seq(Frames) /\ Len(rx') <= Capacity /\ lagged' \in BOOLEAN
        /\ doc' \in [Strokes -> {Unknown, Visible, Erased}] /\ spotty' \subseteq Begun
        /\ vses' \in {"out", "subscribed", "live"}
    BY <1>0, <2>1 DEF TypeOK, LinkType
  <2>4. TypeOK' /\ LinkType'
    BY <1>2, <2>2, <2>3
  <2> QED
    BY <2>1, <2>4, StillScreen DEF PreviewInv
<1> QED
  BY <1>5, <1>6, <1>7, <1>8

-----------------------------------------------------------------------------
LEMMA InvInit == Init => PreviewInv
<1> SUFFICES ASSUME Init PROVE PreviewInv
  OBVIOUS
<1>1. Begun = {} /\ Shown = {}
  BY DEF Init, Begun, Shown
<1>2. TypeOK
  <2>1. \A s \in Strokes : sent[s] \in 0 .. MaxDeltas[s]
    BY PreviewsAssumption DEF Init
  <2>2. \A c \in Authors : cur[c] \in 1 .. MaxConns[c] /\ link[c] \in BOOLEAN
    BY PreviewsAssumption DEF Init
  <2>3. Len(rx) <= Capacity
    BY PreviewsAssumption DEF Init
  <2>4. {room, doc} \subseteq [Strokes -> {Unknown, Visible, Erased}]
    BY DEF Init
  <2>5. ses \in [Conns -> {"none", "live", "closed"}]
    BY DEF Init
  <2>6. status \in [Strokes -> {"new", "open", "drawn", "cancelled", "erased"}]
    BY DEF Init
  <2> QED
    BY <1>1, <2>1, <2>2, <2>3, <2>4, <2>5, <2>6 DEF Init, TypeOK
<1>3. LinkType
  BY ShortSeqs DEF Init, LinkType
<1> QED
  BY <1>1, <1>2, <1>3 DEF PreviewInv, NeverTwice, Init

LEMMA InvNext == PreviewInv /\ [Next]_vars => PreviewInv'
<1> SUFFICES ASSUME PreviewInv, [Next]_vars PROVE PreviewInv'
  OBVIOUS
<1>1. CASE UNCHANGED vars
  <2>1. UNCHANGED <<status, sent, cur, link, queue, up, ses, room, vses, rx, lagged, doc, previews, spotty>>
    BY <1>1 DEF vars, author, viewer
  <2>2. Begun' = Begun /\ Good' = Good /\ Frames' = Frames /\ Shown' = Shown
    BY <2>1, SameGood DEF Shown
  <2> QED
    BY <2>1, <2>2 DEF PreviewInv, TypeOK, LinkType, NeverTwice
<1> QED
  BY <1>1, DrawInv, NetInv, SessionInv, ViewerInv DEF Next

\* Every variable has its type, and only strokes that were begun are shown.
THEOREM PreviewTypes == Spec => []TypeOK
<1>1. PreviewInv => TypeOK
  BY DEF PreviewInv
<1> QED
  BY <1>1, InvInit, InvNext, PTL DEF Spec

\* "Receivers discard the preview once the matching Add arrives": deltas that
\* come late, ops flushed from an outbox and snapshots never put a stroke on the
\* board beside its preview, unless a frame was lost to the viewer.
THEOREM NeverShownTwice == Spec => []NeverTwice
<1>1. PreviewInv => NeverTwice
  BY DEF PreviewInv
<1> QED
  BY <1>1, InvInit, InvNext, PTL DEF Spec

-----------------------------------------------------------------------------
(* What a queue says of a stroke                                             *)
(*                                                                           *)
(* To a stroke s a message is a number: that of the delta of s it carries,   *)
(* 0 if it leaves the preview of s alone, EndsIt if it takes it away, MayEnd  *)
(* if it may: the first delta of its author's next stroke.                   *)

EndsIt == -1
MayEnd == -2

Mark(c, m, s) ==
  CASE m.type = "Delta"              -> IF m.id = s THEN m.n
                                        ELSE IF AuthorOf[s] = c THEN MayEnd ELSE 0
    [] m.type \in {"Cursor", "Left"} -> IF AuthorOf[s] = c THEN EndsIt ELSE 0
    [] m.type = "Ops"                -> IF s \in m.adds THEN EndsIt ELSE 0

\* The messages of author c in q, and the frames of the viewer's subscription.
Marks(c, q, s) == [i \in 1 .. Len(q) |-> Mark(c, q[i], s)]
RxMarks(q, s)  == [i \in 1 .. Len(q) |-> Mark(q[i].from, q[i].msg, s)]

\* There is a delta of s.
Drawn(p) == \E i \in 1 .. Len(p) : p[i] > 0

\* Something ends the preview, and no delta follows.
Cut(p) == \E i \in 1 .. Len(p) : p[i] = EndsIt /\ \A j \in i + 1 .. Len(p) : p[j] <= 0

\* The deltas of s are those after lo, up to hi, each once and in order.
Run(p, lo, hi) ==
  /\ \A i \in 1 .. Len(p) : p[i] > 0 => p[i] \in lo + 1 .. hi
  /\ \A n \in lo + 1 .. hi : \E i \in 1 .. Len(p) : p[i] = n
  /\ \A j \in 1 .. Len(p) : \A i \in 1 .. j - 1 : p[i] > 0 /\ p[j] > 0 => p[i] < p[j]

\* Whatever may take the preview away comes before all deltas of s, of which lo are past.
Calm(p, lo) == \A j \in 1 .. Len(p) : p[j] < 0 => lo = 0 /\ \A i \in 1 .. j - 1 : p[i] <= 0

LEMMA NoMarks ==
  /\ ~Drawn(<<>>) /\ ~Cut(<<>>)
  /\ \A lo \in Nat : Calm(<<>>, lo) /\ \A hi \in Nat : lo <= hi /\ Run(<<>>, lo, hi) => lo = hi
<1>1. Len(<<>>) = 0 /\ ~\E i \in 1 .. Len(<<>>) : TRUE
  OBVIOUS
<1>2. ASSUME NEW lo \in Nat, NEW hi \in Nat, lo <= hi, Run(<<>>, lo, hi) PROVE lo = hi
  <2>1. lo + 1 \notin lo + 1 .. hi
    BY <1>1, <1>2 DEF Run
  <2> QED
    BY <1>2, <2>1
<1> QED
  BY <1>1, <1>2 DEF Drawn, Cut, Calm

LEMMA DrawnCut == ASSUME NEW p, ~Drawn(p), NEW j \in 1 .. Len(p) PROVE ~(p[j] > 0)
BY DEF Drawn

\* One more mark.
LEMMA PushMark ==
  ASSUME NEW p \in Seq(Int), NEW x \in Int
  PROVE  /\ Drawn(Append(p, x)) <=> Drawn(p) \/ x > 0
         /\ x <= 0 /\ Cut(p) => Cut(Append(p, x))
         /\ x = EndsIt => Cut(Append(p, x))
         /\ \A lo \in Nat : /\ Calm(p, lo) /\ x >= 0 => Calm(Append(p, x), lo)
                            /\ Calm(p, 0) /\ ~Drawn(p) => Calm(Append(p, x), 0)
<1> DEFINE q == Append(p, x)
<1>1. Len(p) \in Nat /\ Len(q) = Len(p) + 1 /\ q[Len(q)] = x /\ \A i \in 1 .. Len(p) : q[i] = p[i]
  OBVIOUS
<1>2. /\ \A i \in 1 .. Len(q) : i = Len(q) \/ i \in 1 .. Len(p)
      /\ Len(q) \in 1 .. Len(q) /\ \A i \in 1 .. Len(p) : i \in 1 .. Len(q)
      /\ \A i \in 1 .. Len(p) : p[i] \in Int
  BY <1>1
<1> HIDE DEF q
<1>3. Drawn(q) <=> Drawn(p) \/ x > 0
  BY <1>1, <1>2 DEF Drawn
<1>4. ASSUME x <= 0, Cut(p) PROVE Cut(q)
  <2>1. PICK i \in 1 .. Len(p) : p[i] = EndsIt /\ \A j \in i + 1 .. Len(p) : p[j] <= 0
    BY <1>4 DEF Cut
  <2>2. ASSUME NEW j \in i + 1 .. Len(q) PROVE q[j] <= 0
    <3>1. j = Len(q) \/ j \in i + 1 .. Len(p)
      BY <1>1, <2>1
    <3> QED
      BY <1>1, <1>4, <2>1, <3>1
  <2>3. i \in 1 .. Len(q) /\ q[i] = EndsIt
    BY <1>1, <1>2, <2>1
  <2> QED
    BY <2>2, <2>3 DEF Cut
<1>5. ASSUME x = EndsIt PROVE Cut(q)
  <2>1. \A j \in Len(q) + 1 .. Len(q) : q[j] <= 0
    BY <1>1
  <2> QED
    BY <1>1, <1>2, <1>5, <2>1 DEF Cut
<1>6. ASSUME NEW lo \in Nat, Calm(p, lo), x >= 0 PROVE Calm(q, lo)
  <2> SUFFICES ASSUME NEW j \in 1 .. Len(q), q[j] < 0
               PROVE  lo = 0 /\ \A i \in 1 .. j - 1 : q[i] <= 0
    BY DEF Calm
  <2>1. j \in 1 .. Len(p) /\ p[j] < 0
    BY <1>1, <1>2, <1>6
  <2>2. \A i \in 1 .. j - 1 : i \in 1 .. Len(p)
    BY <1>1, <2>1
  <2> QED
    BY <1>1, <1>6, <2>1, <2>2 DEF Calm
<1>7. ASSUME Calm(p, 0), ~Drawn(p) PROVE Calm(q, 0)
  <2> SUFFICES ASSUME NEW j \in 1 .. Len(q), NEW i \in 1 .. j - 1 PROVE q[i] <= 0
    BY DEF Calm
  <2>1. i \in 1 .. Len(p)
    BY <1>1
  <2> QED
    BY <1>1, <1>2, <1>7, <2>1 DEF Drawn
<1> QED
  BY <1>3, <1>4, <1>5, <1>6, <1>7 DEF q

LEMMA PushRun ==
  ASSUME NEW p \in Seq(Int), NEW x \in Int, NEW lo \in Nat, NEW hi \in Nat, lo <= hi, Run(p, lo, hi)
  PROVE  /\ x <= 0 => Run(Append(p, x), lo, hi)
         /\ x = hi + 1 => Run(Append(p, x), lo, hi + 1)
<1> DEFINE q == Append(p, x)
<1>1. Len(p) \in Nat /\ Len(q) = Len(p) + 1 /\ q[Len(q)] = x /\ \A i \in 1 .. Len(p) : q[i] = p[i]
  OBVIOUS
<1>2. /\ \A i \in 1 .. Len(q) : i = Len(q) \/ i \in 1 .. Len(p)
      /\ Len(q) \in 1 .. Len(q) /\ \A i \in 1 .. Len(p) : i \in 1 .. Len(q)
      /\ \A i \in 1 .. Len(p) : p[i] \in Int
  BY <1>1
<1> HIDE DEF q
<1>3. ASSUME NEW j \in 1 .. Len(q), NEW i \in 1 .. j - 1, q[i] > 0, q[j] > 0, x <= 0 \/ x = hi + 1
      PROVE  q[i] < q[j]
  <2>1. i \in 1 .. Len(p) /\ q[i] = p[i] /\ p[i] \in lo + 1 .. hi
    BY <1>1, <1>2, <1>3 DEF Run
  <2>2. CASE j = Len(q)
    BY <1>1, <1>3, <2>1, <2>2
  <2>3. CASE j \in 1 .. Len(p)
    BY <1>1, <1>3, <2>1, <2>3 DEF Run
  <2> QED
    BY <1>2, <2>2, <2>3
<1>4. ASSUME x <= 0 PROVE Run(q, lo, hi)
  <2>1. \A i \in 1 .. Len(q) : q[i] > 0 => q[i] \in lo + 1 .. hi
    BY <1>1, <1>2, <1>4 DEF Run
  <2>2. \A n \in lo + 1 .. hi : \E i \in 1 .. Len(q) : q[i] = n
    BY <1>1, <1>2 DEF Run
  <2> QED
    BY <1>3, <1>4, <2>1, <2>2 DEF Run
<1>5. ASSUME x = hi + 1 PROVE Run(q, lo, hi + 1)
  <2>1. ASSUME NEW i \in 1 .. Len(q), q[i] > 0 PROVE q[i] \in lo + 1 .. hi + 1
    <3>1. CASE i = Len(q)
      BY <1>1, <1>5, <3>1
    <3>2. CASE i \in 1 .. Len(p)
      <4>1. p[i] \in lo + 1 .. hi
        BY <1>1, <2>1, <3>2 DEF Run
      <4> QED
        BY <1>1, <3>2, <4>1
    <3> QED
      BY <1>2, <3>1, <3>2
  <2>2. ASSUME NEW n \in lo + 1 .. hi + 1 PROVE \E i \in 1 .. Len(q) : q[i] = n
    <3>1. CASE n = hi + 1
      BY <1>1, <1>2, <1>5, <3>1
    <3>2. CASE n # hi + 1
      <4>1. n \in lo + 1 .. hi
        BY <3>2
      <4> QED
        BY <1>1, <1>2, <4>1 DEF Run
    <3> QED
      BY <3>1, <3>2
  <2> QED
    BY <1>3, <1>5, <2>1, <2>2 DEF Run
<1> QED
  BY <1>4, <1>5 DEF q

\* One mark less.
LEMMA PopMark ==
  ASSUME NEW p \in Seq(Int), p # <<>>
  PROVE  /\ Drawn(Tail(p)) => Drawn(p)
         /\ Drawn(p) => Head(p) > 0 \/ Drawn(Tail(p))
         /\ Cut(p) => Cut(Tail(p)) \/ (Head(p) = EndsIt /\ ~Drawn(Tail(p)))
         /\ \A lo \in Nat : Calm(p, lo) => /\ Calm(Tail(p), lo)
                                           /\ Head(p) > 0 => Calm(Tail(p), lo + 1)
                                           /\ Head(p) < 0 => lo = 0
<1> DEFINE q == Tail(p)
<1>1. /\ Len(p) \in Nat \ {0} /\ Len(q) = Len(p) - 1 /\ Head(p) = p[1]
      /\ \A i \in 1 .. Len(q) : q[i] = p[i + 1]
  OBVIOUS
<1>2. /\ \A i \in 1 .. Len(q) : i + 1 \in 1 .. Len(p)
      /\ \A i \in 1 .. Len(p) : i = 1 \/ (i - 1 \in 1 .. Len(q) /\ q[i - 1] = p[i])
      /\ 1 \in 1 .. Len(p)
      /\ \A i \in 1 .. Len(p) : p[i] \in Int
  BY <1>1
<1> HIDE DEF q
<1>3. Drawn(q) => Drawn(p)
  BY <1>1, <1>2 DEF Drawn
<1>4. Drawn(p) => Head(p) > 0 \/ Drawn(q)
  BY <1>1, <1>2 DEF Drawn
<1>5. ASSUME Cut(p) PROVE Cut(q) \/ (Head(p) = EndsIt /\ ~Drawn(q))
  <2>1. PICK i \in 1 .. Len(p) : p[i] = EndsIt /\ \A j \in i + 1 .. Len(p) : p[j] <= 0
    BY <1>5 DEF Cut
  <2>2. CASE i = 1
    <3>1. ASSUME NEW j \in 1 .. Len(q) PROVE ~(q[j] > 0)
      <4>1. j + 1 \in i + 1 .. Len(p) /\ p[j + 1] \in Int
        BY <1>1, <1>2, <2>2
      <4> QED
        BY <1>1, <2>1, <4>1
    <3> QED
      BY <1>1, <2>1, <2>2, <3>1 DEF Drawn
  <2>3. CASE i # 1
    <3>1. i - 1 \in 1 .. Len(q) /\ q[i - 1] = EndsIt
      BY <1>2, <2>1, <2>3
    <3>2. ASSUME NEW j \in (i - 1) + 1 .. Len(q) PROVE q[j] <= 0
      <4>1. j \in 1 .. Len(q) /\ j + 1 \in i + 1 .. Len(p)
        BY <1>1, <3>1
      <4> QED
        BY <1>1, <2>1, <4>1
    <3> QED
      BY <3>1, <3>2 DEF Cut
  <2> QED
    BY <2>2, <2>3
<1>6. ASSUME NEW lo \in Nat, Calm(p, lo)
      PROVE  /\ Calm(q, lo) /\ (Head(p) > 0 => Calm(q, lo + 1)) /\ (Head(p) < 0 => lo = 0)
  <2>1. ASSUME NEW j \in 1 .. Len(q), q[j] < 0
        PROVE  lo = 0 /\ Head(p) <= 0 /\ \A i \in 1 .. j - 1 : q[i] <= 0
    <3>1. j + 1 \in 1 .. Len(p) /\ p[j + 1] < 0
      BY <1>1, <1>2, <2>1
    <3>2. lo = 0 /\ \A i \in 1 .. (j + 1) - 1 : p[i] <= 0
      BY <1>6, <3>1 DEF Calm
    <3>3. 1 \in 1 .. (j + 1) - 1 /\ \A i \in 1 .. j - 1 : i + 1 \in 1 .. (j + 1) - 1 /\ i \in 1 .. Len(q)
      BY <1>1
    <3> QED
      BY <1>1, <3>2, <3>3
  <2>2. Calm(q, lo)
    BY <2>1 DEF Calm
  <2>3. Head(p) > 0 => Calm(q, lo + 1)
    <3>1. Head(p) \in Int
      BY <1>1, <1>2
    <3> QED
      BY <2>1, <3>1 DEF Calm
  <2>4. Head(p) < 0 => lo = 0
    BY <1>1, <1>2, <1>6 DEF Calm
  <2> QED
    BY <2>2, <2>3, <2>4
<1> QED
  BY <1>3, <1>4, <1>5, <1>6 DEF q

LEMMA PopRun ==
  ASSUME NEW p \in Seq(Int), p # <<>>, NEW lo \in Nat, NEW hi \in Nat, Run(p, lo, hi)
  PROVE  /\ Head(p) <= 0 => Run(Tail(p), lo, hi)
         /\ Head(p) > 0 => Head(p) = lo + 1 /\ lo < hi /\ Run(Tail(p), lo + 1, hi)
<1> DEFINE q == Tail(p)
<1>1. /\ Len(p) \in Nat \ {0} /\ Len(q) = Len(p) - 1 /\ Head(p) = p[1]
      /\ \A i \in 1 .. Len(q) : q[i] = p[i + 1]
  OBVIOUS
<1>2. /\ \A i \in 1 .. Len(q) : i + 1 \in 1 .. Len(p)
      /\ \A i \in 1 .. Len(p) : i = 1 \/ (i - 1 \in 1 .. Len(q) /\ q[i - 1] = p[i])
      /\ 1 \in 1 .. Len(p)
      /\ \A i \in 1 .. Len(p) : p[i] \in Int
  BY <1>1
<1> HIDE DEF q
<1>3. ASSUME NEW j \in 1 .. Len(q), NEW i \in 1 .. j - 1, q[i] > 0, q[j] > 0 PROVE q[i] < q[j]
  <2>1. i \in 1 .. Len(q) /\ i + 1 \in 1 .. (j + 1) - 1 /\ j + 1 \in 1 .. Len(p)
    BY <1>1
  <2> QED
    BY <1>1, <1>3, <2>1 DEF Run
<1>4. \A j \in 1 .. Len(q) : q[j] > 0 => q[j] \in lo + 1 .. hi
  BY <1>1, <1>2 DEF Run
<1>5. ASSUME Head(p) <= 0 PROVE Run(q, lo, hi)
  <2>1. ASSUME NEW n \in lo + 1 .. hi PROVE \E i \in 1 .. Len(q) : q[i] = n
    <3>1. PICK i \in 1 .. Len(p) : p[i] = n
      BY DEF Run
    <3>2. i # 1
      BY <1>1, <1>5, <3>1
    <3> QED
      BY <1>2, <3>1, <3>2
  <2> QED
    BY <1>3, <1>4, <2>1 DEF Run
<1>6. ASSUME Head(p) > 0 PROVE Head(p) = lo + 1 /\ lo < hi /\ Run(q, lo + 1, hi)
  <2>1. p[1] \in lo + 1 .. hi
    BY <1>1, <1>2, <1>6 DEF Run
  <2>2. ASSUME NEW i \in 1 .. Len(p), i # 1, p[i] > 0 PROVE p[1] < p[i]
    <3>1. 1 \in 1 .. i - 1
      BY <1>1, <2>2
    <3> QED
      BY <1>1, <1>6, <2>2, <3>1 DEF Run
  <2>3. Head(p) = lo + 1 /\ lo < hi
    <3>1. lo + 1 \in lo + 1 .. hi
      BY <2>1
    <3>2. PICK i \in 1 .. Len(p) : p[i] = lo + 1
      BY <3>1 DEF Run
    <3>3. i = 1
      <4>1. p[i] > 0 /\ ~(p[1] < p[i])
        BY <2>1, <3>2
      <4> QED
        BY <2>2, <4>1
    <3> QED
      BY <1>1, <2>1, <3>2, <3>3
  <2>4. ASSUME NEW j \in 1 .. Len(q), q[j] > 0 PROVE q[j] \in lo + 1 + 1 .. hi
    <3>1. j + 1 \in 1 .. Len(p) /\ j + 1 # 1 /\ q[j] = p[j + 1]
      BY <1>1, <1>2
    <3>2. p[1] < p[j + 1] /\ q[j] \in lo + 1 .. hi
      BY <1>4, <2>2, <2>4, <3>1
    <3> QED
      BY <1>1, <2>3, <3>1, <3>2
  <2>5. ASSUME NEW n \in lo + 1 + 1 .. hi PROVE \E i \in 1 .. Len(q) : q[i] = n
    <3>1. n \in lo + 1 .. hi /\ n # lo + 1
      OBVIOUS
    <3>2. PICK i \in 1 .. Len(p) : p[i] = n
      BY <3>1 DEF Run
    <3>3. i # 1
      BY <1>1, <2>3, <3>1, <3>2
    <3> QED
      BY <1>2, <3>2, <3>3
  <2> QED
    BY <1>3, <2>3, <2>4, <2>5 DEF Run
<1> QED
  BY <1>5, <1>6 DEF q

\* What is left of a queue, and what follows another.
LEMMA RestCut ==
  ASSUME NEW p \in Seq(Int), NEW a \in 1 .. Len(p) + 1
  PROVE  LET q == SubSeq(p, a, Len(p)) IN Drawn(q) => Drawn(p) /\ (Cut(p) => Cut(q))
<1> DEFINE q == SubSeq(p, a, Len(p))
<1>1. /\ Len(p) \in Nat /\ Len(q) = Len(p) - a + 1
      /\ \A i \in 1 .. Len(q) : q[i] = p[i + a - 1] /\ i + a - 1 \in 1 .. Len(p)
  OBVIOUS
<1> HIDE DEF q
<1>2. ASSUME Drawn(q) PROVE Drawn(p)
  BY <1>1, <1>2 DEF Drawn
<1>3. ASSUME Drawn(q), Cut(p) PROVE Cut(q)
  <2>1. PICK i \in 1 .. Len(p) : p[i] = EndsIt /\ \A j \in i + 1 .. Len(p) : p[j] <= 0
    BY <1>3 DEF Cut
  <2>2. PICK d \in 1 .. Len(q) : q[d] > 0
    BY <1>3 DEF Drawn
  <2>3. d + a - 1 < i
    <3>1. d + a - 1 # i
      BY <1>1, <2>1, <2>2 DEF EndsIt
    <3>2. d + a - 1 \notin i + 1 .. Len(p)
      <4>1. p[d + a - 1] \in Int /\ p[d + a - 1] > 0
        BY <1>1, <2>2
      <4>2. ~(p[d + a - 1] <= 0)
        BY <4>1
      <4> QED
        BY <2>1, <4>2
    <3> QED
      BY <1>1, <2>1, <2>2, <3>1, <3>2
  <2>4. i - a + 1 \in 1 .. Len(q) /\ (i - a + 1) + a - 1 = i
    BY <1>1, <2>1, <2>2, <2>3
  <2>5. ASSUME NEW j \in (i - a + 1) + 1 .. Len(q) PROVE q[j] <= 0
    <3>1. j \in 1 .. Len(q) /\ j + a - 1 \in i + 1 .. Len(p)
      BY <1>1, <2>4
    <3> QED
      BY <1>1, <2>1, <3>1
  <2> QED
    BY <1>1, <2>1, <2>4, <2>5 DEF Cut
<1> QED
  BY <1>2, <1>3 DEF q

LEMMA JoinCut ==
  ASSUME NEW p \in Seq(Int), NEW q \in Seq(Int)
  PROVE  /\ Drawn(p \o q) => Drawn(p) \/ Drawn(q)
         /\ Cut(q) => Cut(p \o q)
<1> DEFINE r == p \o q
<1>1. /\ Len(p) \in Nat /\ Len(q) \in Nat /\ Len(r) = Len(p) + Len(q)
      /\ \A i \in 1 .. Len(p) : r[i] = p[i]
      /\ \A i \in 1 .. Len(q) : r[Len(p) + i] = q[i]
  OBVIOUS
<1> HIDE DEF r
<1>2. \A i \in 1 .. Len(r) : i \in 1 .. Len(p) \/ (i - Len(p) \in 1 .. Len(q) /\ r[i] = q[i - Len(p)])
  <2> TAKE i \in 1 .. Len(r)
  <2>1. i \notin 1 .. Len(p) => i - Len(p) \in 1 .. Len(q) /\ Len(p) + (i - Len(p)) = i
    BY <1>1
  <2> QED
    BY <1>1, <2>1
<1>3. Drawn(r) => Drawn(p) \/ Drawn(q)
  BY <1>1, <1>2 DEF Drawn
<1>4. ASSUME Cut(q) PROVE Cut(r)
  <2>1. PICK i \in 1 .. Len(q) : q[i] = EndsIt /\ \A j \in i + 1 .. Len(q) : q[j] <= 0
    BY <1>4 DEF Cut
  <2>2. Len(p) + i \in 1 .. Len(r) /\ r[Len(p) + i] = EndsIt
    BY <1>1, <2>1
  <2>3. ASSUME NEW j \in (Len(p) + i) + 1 .. Len(r) PROVE r[j] <= 0
    <3>1. j - Len(p) \in i + 1 .. Len(q) /\ j \in 1 .. Len(r) /\ j \notin 1 .. Len(p)
      BY <1>1
    <3> QED
      BY <1>2, <2>1, <3>1
  <2> QED
    BY <2>2, <2>3 DEF Cut
<1> QED
  BY <1>3, <1>4 DEF r

-----------------------------------------------------------------------------
(* Who sends what, through which connection                                  *)

Committed == {s \in Strokes : status[s] \in {"drawn", "erased"}}

\* Messages c may have sent by now.
Of(c) ==
  [type : {"Delta"}, id : Mine(c) \cap Begun, n : Nat] \cup {Idle, Left}
    \cup [type : {"Ops"}, adds : SUBSET (Mine(c) \cap Committed), removes : SUBSET Strokes]
FramesOf == UNION {[from : {c}, msg : Of(c)] : c \in Authors}

Owned ==
  /\ \A c \in Authors : queue[c] \in Seq(Of(c))
  /\ \A k \in Conns : up[k] \in Seq(Of(k[1]))
  /\ rx \in Seq(FramesOf)
  /\ \A s \in Strokes : room[s] = Visible \/ doc[s] = Visible => s \in Committed

\* Sessions and strokes being drawn.
Wired ==
  /\ \A k \in Conns : /\ ses[k] # "live" => up[k] = <<>>
                      /\ k[2] > cur[k[1]] => ses[k] = "none"
  /\ \A c \in Authors : link[c] => ses[Current(c)] = "live"
  /\ vses # "live" => Begun \subseteq spotty
  /\ \A s \in Strokes : status[s] = "open" =>
       /\ sent[s] >= 1
       /\ s \notin spotty => link[AuthorOf[s]]
       /\ \A t \in Open(AuthorOf[s]) : t = s

LEMMA OfGrows ==
  ASSUME Begun \subseteq Begun', Committed \subseteq Committed'
  PROVE  (\A c \in Authors : Of(c) \subseteq Of(c)') /\ FramesOf \subseteq FramesOf'
<1>1. ASSUME NEW c \in Authors PROVE Of(c) \subseteq Of(c)'
  <2>1. Mine(c)' = Mine(c)
    BY DEF Mine
  <2> QED
    BY <2>1 DEF Of, Idle, Left
<1> QED
  BY <1>1 DEF FramesOf

LEMMA FrameOf ==
  /\ \A c \in Authors : \A m \in Of(c) : [from |-> c, msg |-> m] \in FramesOf
  /\ \A f \in FramesOf : f.from \in Authors /\ f.msg \in Of(f.from)
BY DEF FramesOf

LEMMA MessagesOf ==
  ASSUME NEW c \in Authors
  PROVE  /\ Idle \in Of(c) /\ Left \in Of(c)
         /\ \A s \in Mine(c) \cap Begun : \A n \in Nat : Delta(s, n) \in Of(c)
         /\ \A A \in SUBSET (Mine(c) \cap Committed) : \A R \in SUBSET Strokes : Ops(A, R) \in Of(c)
BY DEF Of, Delta, Ops, Idle, Left

LEMMA HeadTail ==
  ASSUME NEW S, NEW q \in Seq(S), q # <<>> PROVE Head(q) \in S /\ Tail(q) \in Seq(S)
OBVIOUS

LEMMA OwnedSend ==
  ASSUME TypeOK, Owned, Begun \subseteq Begun', Committed \subseteq Committed',
         NEW c \in Authors, NEW m \in Of(c)', Send(c, m), queue \in [Authors -> Seq(Good)],
         up \in [Conns -> Seq(Good)], UNCHANGED <<room, doc, rx>>
  PROVE  Owned'
<1>1. Current(c) \in Conns /\ Current(c)[1] = c
  BY ConnType DEF TypeOK, Current
<1>2. /\ \A d \in Authors : queue[d] \in Seq(Of(d)')
      /\ \A k \in Conns : up[k] \in Seq(Of(k[1])')
      /\ rx \in Seq(FramesOf')
  BY OfGrows, WiderSeq, ConnType DEF Owned
<1>3. Append(queue[c], m) \in Seq(Of(c)') /\ Append(up[Current(c)], m) \in Seq(Of(c)')
  BY <1>1, <1>2
<1>4. \A d \in Authors : queue'[d] \in Seq(Of(d)')
  BY <1>2, <1>3 DEF Send
<1>5. \A k \in Conns : up'[k] \in Seq(Of(k[1])')
  BY <1>1, <1>2, <1>3 DEF Send
<1> QED
  BY <1>2, <1>4, <1>5 DEF Owned

\* A stroke goes one way.
LEMMA OneWay ==
  ASSUME TypeOK, [Next]_vars PROVE Begun \subseteq Begun' /\ Committed \subseteq Committed'
<1>1. CASE status' = status
  BY <1>1 DEF Begun, Committed
<1>2. ASSUME NEW s \in Strokes, NEW st, status' = [status EXCEPT ![s] = st],
             \/ status[s] = "new" /\ st = "open"
             \/ status[s] = "open" /\ st \in {"drawn", "cancelled"}
             \/ status[s] = "drawn" /\ st = "erased"
      PROVE  Begun \subseteq Begun' /\ Committed \subseteq Committed'
  BY <1>2 DEF TypeOK, Begun, Committed
<1>3. ASSUME NEW c \in Authors, Draw(c)
      PROVE  \/ status' = status
             \/ \E s \in Strokes : \E st :
                  /\ status' = [status EXCEPT ![s] = st]
                  /\ \/ status[s] = "new" /\ st = "open"
                     \/ status[s] = "open" /\ st \in {"drawn", "cancelled"}
                     \/ status[s] = "drawn" /\ st = "erased"
  <2>1. CASE Begin(c)
    BY <2>1 DEF Begin, Mine
  <2>2. CASE Extend(c)
    BY <2>2 DEF Extend, Open, Mine
  <2>3. CASE Commit(c)
    BY <2>3 DEF Commit, Open, Mine
  <2>4. CASE Cancel(c)
    BY <2>4 DEF Cancel, Open, Mine
  <2>5. CASE Erase(c)
    BY <2>5 DEF Erase, Mine
  <2> QED
    BY <1>3, <2>1, <2>2, <2>3, <2>4, <2>5 DEF Draw
<1>4. ASSUME NEW c \in Authors, SendCursor(c) \/ Break(c) \/ Connect(c) PROVE status' = status
  BY <1>4 DEF SendCursor, Break, Connect
<1>5. ASSUME NEW k \in Conns, Handle(k) \/ End(k) PROVE status' = status
  BY <1>5 DEF Handle, End, author
<1>6. ASSUME Relay \/ Resync \/ Leave \/ Subscribe \/ Welcome \/ UNCHANGED vars PROVE status' = status
  BY <1>6 DEF Relay, Resync, Leave, Subscribe, Welcome, author, vars
<1> QED
  BY <1>1, <1>2, <1>3, <1>4, <1>5, <1>6 DEF Next

\* The outbox holds ops of its author only.
LEMMA OutboxOf == ASSUME NEW c \in Authors, NEW q \in Seq(Of(c)) PROVE Outbox(q) \in Seq(Of(c))
<1> DEFINE ops == {m \in Range(q) : m.type = "Ops"}
           adds == UNION {m.adds : m \in ops}
           removes == UNION {m.removes : m \in ops}
<1>1. ops \subseteq [type : {"Ops"}, adds : SUBSET (Mine(c) \cap Committed), removes : SUBSET Strokes]
  BY RangeType DEF Of, Idle, Left
<1>2. adds \subseteq Mine(c) \cap Committed /\ removes \subseteq Strokes
  BY <1>1
<1> HIDE DEF adds, removes
<1>3. Ops(adds, removes) \in Of(c)
  BY <1>2, MessagesOf
<1>4. Outbox(q) \in {<<>>, <<Ops(adds, removes)>>}
  BY DEF Outbox, adds, removes
<1> QED
  BY <1>3, <1>4, ShortSeqs

LEMMA OwnedDraw ==
  ASSUME PreviewInv, Owned, NEW c \in Authors, Draw(c) \/ SendCursor(c),
         Begun \subseteq Begun', Committed \subseteq Committed'
  PROVE  Owned'
<1>0. /\ TypeOK /\ queue \in [Authors -> Seq(Good)] /\ up \in [Conns -> Seq(Good)]
      /\ Mine(c)' = Mine(c) /\ sent \in [Strokes -> Nat]
      /\ status \in [Strokes -> {"new", "open", "drawn", "cancelled", "erased"}]
  BY DEF PreviewInv, LinkType, Mine, TypeOK
<1>1. UNCHANGED <<room, doc, rx>>
  BY DEF Draw, Begin, Extend, Commit, Cancel, Erase, SendCursor, viewer
<1>2. ASSUME NEW m \in Of(c)', Send(c, m) PROVE Owned'
  BY <1>0, <1>1, <1>2, OwnedSend
<1>3. /\ Idle \in Of(c)'
      /\ \A s \in (Mine(c) \cap Begun)' : \A n \in Nat : Delta(s, n) \in Of(c)'
      /\ \A A \in SUBSET (Mine(c) \cap Committed)' : \A R \in SUBSET Strokes : Ops(A, R) \in Of(c)'
  BY DEF Of, Delta, Ops, Idle, Left
<1>4. CASE Begin(c)
  <2>1. PICK s \in Mine(c) : status[s] = "new" /\ status' = [status EXCEPT ![s] = "open"] /\ Send(c, Delta(s, 1))
    BY <1>4 DEF Begin
  <2>2. s \in (Mine(c) \cap Begun)'
    BY <1>0, <2>1 DEF Mine, Begun
  <2> QED
    BY <1>2, <1>3, <2>1, <2>2
<1>5. CASE Extend(c)
  <2>1. PICK s \in Open(c) : Send(c, Delta(s, sent[s] + 1))
    BY <1>5 DEF Extend
  <2>2. s \in (Mine(c) \cap Begun)' /\ sent[s] + 1 \in Nat
    BY <1>0 DEF Mine, Begun, Open
  <2> QED
    BY <1>2, <1>3, <2>1, <2>2
<1>6. CASE Commit(c)
  <2>1. PICK s \in Open(c) : status' = [status EXCEPT ![s] = "drawn"] /\ Send(c, Ops({s}, {}))
    BY <1>6 DEF Commit
  <2>2. {s} \in SUBSET (Mine(c) \cap Committed)'
    BY <1>0, <2>1 DEF Mine, Committed, Open
  <2> QED
    BY <1>2, <1>3, <2>1, <2>2
<1>7. CASE Erase(c)
  <2>1. PICK s \in Mine(c) : Send(c, Ops({}, {s}))
    BY <1>7 DEF Erase
  <2>2. {} \in SUBSET (Mine(c) \cap Committed)' /\ {s} \in SUBSET Strokes
    BY DEF Mine
  <2> QED
    BY <1>2, <1>3, <2>1, <2>2
<1>8. CASE SendCursor(c)
  BY <1>2, <1>3, <1>8 DEF SendCursor
<1>9. CASE Cancel(c)
  <2>1. UNCHANGED <<queue, up>>
    BY <1>9 DEF Cancel
  <2>2. /\ \A d \in Authors : queue[d] \in Seq(Of(d)')
        /\ \A k \in Conns : up[k] \in Seq(Of(k[1])')
        /\ rx \in Seq(FramesOf')
    BY OfGrows, WiderSeq, ConnType DEF Owned
  <2> QED
    BY <1>1, <2>1, <2>2 DEF Owned
<1> QED
  BY <1>4, <1>5, <1>6, <1>7, <1>8, <1>9 DEF Draw

\* Steps that draw nothing leave the kinds of messages as they are.
LEMMA SameOf ==
  ASSUME status' = status
  PROVE  /\ Committed' = Committed /\ FramesOf' = FramesOf
         /\ \A c \in Authors : Of(c)' = Of(c) /\ Mine(c)' = Mine(c) /\ Open(c)' = Open(c)
BY DEF Committed, FramesOf, Of, Mine, Begun, Idle, Left, Open

LEMMA OwnedNet ==
  ASSUME PreviewInv, Owned, NEW c \in Authors, Break(c) \/ Connect(c)
  PROVE  Owned'
<1>0. /\ TypeOK /\ queue \in [Authors -> Seq(Good)] /\ up \in [Conns -> Seq(Good)]
  BY DEF PreviewInv, LinkType
<1>1. /\ UNCHANGED <<status, room, doc, rx>>
  BY DEF Break, Connect, viewer
<1>2. Committed' = Committed /\ FramesOf' = FramesOf /\ \A d \in Authors : Of(d)' = Of(d)
  BY <1>1, SameOf
<1>3. \A k \in Conns : k[1] \in Authors
  BY ConnType
<1>4. CASE Break(c)
  <2> DEFINE q == up[Current(c)]
  <2>1. PICK i \in 0 .. Len(q) : \E j \in i .. Len(q) :
          /\ up' = [up EXCEPT ![Current(c)] = SubSeq(q, 1, i)]
          /\ queue' = [queue EXCEPT ![c] = SubSeq(q, j + 1, Len(q))]
    BY <1>4 DEF Break
  <2>2. PICK j \in i .. Len(q) : queue' = [queue EXCEPT ![c] = SubSeq(q, j + 1, Len(q))]
    BY <2>1
  <2>3. Current(c) \in Conns /\ Current(c)[1] = c
    BY <1>0, ConnType DEF TypeOK, Current
  <2>4. q \in Seq(Of(c)) /\ Len(q) \in Nat
    BY <2>3 DEF Owned
  <2>5. SubSeq(q, 1, i) \in Seq(Of(c)) /\ SubSeq(q, j + 1, Len(q)) \in Seq(Of(c))
    <3>1. j + 1 \in Nat \ {0} /\ Len(q) \in 0 .. Len(q)
      BY <2>4
    <3> QED
      BY <2>4, <3>1, PartOfSeq
  <2> HIDE DEF q
  <2>6. \A d \in Authors : queue'[d] \in Seq(Of(d))
    BY <1>0, <2>2, <2>5 DEF Owned
  <2>7. \A k \in Conns : up'[k] \in Seq(Of(k[1]))
    BY <1>0, <2>1, <2>3, <2>5 DEF Owned
  <2> QED
    BY <1>1, <1>2, <1>3, <2>6, <2>7 DEF Owned
<1>5. CASE Connect(c)
  <2> DEFINE q == queue[c]
             new == <<c, cur[c] + 1>>
  <2>1. PICK n \in 0 .. Len(q) :
          up' = [up EXCEPT ![new] = Outbox(SubSeq(q, 1, n)) \o SubSeq(q, n + 1, Len(q))]
    BY <1>5 DEF Connect
  <2>2. queue' = [queue EXCEPT ![c] = <<>>] /\ new[1] = c
    BY <1>5 DEF Connect
  <2>3. q \in Seq(Of(c)) /\ Len(q) \in Nat
    BY DEF Owned
  <2>4. SubSeq(q, 1, n) \in Seq(Of(c)) /\ SubSeq(q, n + 1, Len(q)) \in Seq(Of(c))
    <3>1. n + 1 \in Nat \ {0} /\ Len(q) \in 0 .. Len(q)
      BY <2>3
    <3> QED
      BY <2>3, <3>1, PartOfSeq
  <2>5. Outbox(SubSeq(q, 1, n)) \o SubSeq(q, n + 1, Len(q)) \in Seq(Of(c))
    BY <2>4, OutboxOf, JoinedSeqs
  <2> HIDE DEF q, new
  <2>6. \A d \in Authors : queue'[d] \in Seq(Of(d))
    BY <1>0, <2>2, NoSeq DEF Owned
  <2>7. \A k \in Conns : up'[k] \in Seq(Of(k[1]))
    BY <1>0, <2>1, <2>2, <2>5 DEF Owned
  <2> QED
    BY <1>1, <1>2, <1>3, <2>6, <2>7 DEF Owned
<1> QED
  BY <1>4, <1>5

LEMMA OwnedRx ==
  ASSUME Owned, NEW c \in Authors, NEW m \in Of(c), Broadcast(c, m), Capacity \in Nat \ {0}
  PROVE  rx' \in Seq(FramesOf)
<1> DEFINE f == [from |-> c, msg |-> m]
<1>1. f \in FramesOf /\ rx \in Seq(FramesOf)
  BY FrameOf DEF Owned
<1> HIDE DEF f
<1>2. rx' = rx \/ rx' = Append(rx, f) \/ (Len(rx) = Capacity /\ rx' = Append(Tail(rx), f))
  BY DEF Broadcast, f
<1>3. Len(rx) = Capacity => Tail(rx) \in Seq(FramesOf)
  BY <1>1
<1> QED
  BY <1>1, <1>2, <1>3

LEMMA OwnedSession ==
  ASSUME PreviewInv, Owned, NEW k \in Conns, Handle(k) \/ End(k)
  PROVE  Owned'
<1>0. /\ up \in [Conns -> Seq(Good)] /\ k[1] \in Authors /\ Capacity \in Nat \ {0}
      /\ room \in [Strokes -> {Unknown, Visible, Erased}]
  BY ConnType, PreviewsAssumption DEF PreviewInv, LinkType, TypeOK
<1>1. UNCHANGED <<status, queue, doc>>
  BY DEF Handle, End, author
<1>2. Committed' = Committed /\ FramesOf' = FramesOf /\ \A d \in Authors : Of(d)' = Of(d)
  BY <1>1, SameOf
<1>3. \A j \in Conns : j[1] \in Authors
  BY ConnType
<1>4. ASSUME NEW m \in Of(k[1]), Broadcast(k[1], m), NEW q \in Seq(Of(k[1])), up' = [up EXCEPT ![k] = q],
             \A s \in Strokes : room'[s] = Visible => s \in Committed
      PROVE  Owned'
  <2>1. rx' \in Seq(FramesOf)
    BY <1>0, <1>4, OwnedRx
  <2>2. \A j \in Conns : up'[j] \in Seq(Of(j[1]))
    BY <1>0, <1>4 DEF Owned
  <2> QED
    BY <1>1, <1>2, <1>3, <1>4, <2>1, <2>2 DEF Owned
<1>5. CASE Handle(k)
  <2>1. up[k] \in Seq(Of(k[1])) /\ up[k] # <<>>
    BY <1>5 DEF Handle, Owned
  <2> DEFINE m == Head(up[k])
  <2>2. m \in Of(k[1]) /\ Tail(up[k]) \in Seq(Of(k[1]))
    BY <2>1, HeadTail
  <2>3. Broadcast(k[1], m) /\ up' = [up EXCEPT ![k] = Tail(up[k])]
    BY <1>5 DEF Handle
  <2>4. room' = IF m.type = "Ops" THEN Applied(room, m) ELSE room
    BY <1>5 DEF Handle
  <2> HIDE DEF m
  <2>5. \A s \in Strokes : room'[s] = Visible => s \in Committed
    <3>1. m.type = "Ops" => m.adds \subseteq Committed
      BY <2>2 DEF Of, Idle, Left
    <3>2. \A s \in Strokes : Applied(room, m)[s] = Visible => room[s] = Visible \/ s \in m.adds
      BY <1>0, AppliedType
    <3> QED
      BY <2>4, <3>1, <3>2 DEF Owned
  <2> QED
    BY <1>4, <2>2, <2>3, <2>5
<1>6. CASE End(k)
  <2>1. Broadcast(k[1], Left) /\ up' = [up EXCEPT ![k] = <<>>] /\ room' = room
    BY <1>6 DEF End
  <2>2. Left \in Of(k[1]) /\ <<>> \in Seq(Of(k[1]))
    BY <1>0, MessagesOf, NoSeq
  <2> QED
    BY <1>4, <2>1, <2>2 DEF Owned
<1> QED
  BY <1>5, <1>6

LEMMA OwnedViewer ==
  ASSUME PreviewInv, Owned, Relay \/ Resync \/ Leave \/ Subscribe \/ Welcome
  PROVE  Owned'
<1>0. room \in [Strokes -> {Unknown, Visible, Erased}] /\ doc \in [Strokes -> {Unknown, Visible, Erased}]
  BY DEF PreviewInv, TypeOK
<1>1. UNCHANGED <<status, queue, up, room>>
  BY DEF Relay, Resync, Leave, Subscribe, Welcome, author
<1>2. Committed' = Committed /\ FramesOf' = FramesOf /\ \A d \in Authors : Of(d)' = Of(d)
  BY <1>1, SameOf
<1>3. \A j \in Conns : j[1] \in Authors
  BY ConnType
<1>4. rx' \in Seq(FramesOf)
  <2>1. rx \in Seq(FramesOf) /\ <<>> \in Seq(FramesOf) /\ (rx # <<>> => Tail(rx) \in Seq(FramesOf))
    BY DEF Owned
  <2>2. rx' \in {rx, <<>>} \/ (rx # <<>> /\ rx' = Tail(rx))
    BY DEF Relay, Resync, Leave, Subscribe, Welcome
  <2> QED
    BY <2>1, <2>2
<1>5. \A s \in Strokes : doc'[s] = Visible => s \in Committed
  <2>1. \A s \in Strokes : Merged(doc, room)[s] = Visible => doc[s] = Visible \/ room[s] = Visible
    BY <1>0 DEF Merged
  <2>2. CASE Relay
    <3> DEFINE f == Head(rx)
    <3>1. f \in FramesOf
      BY <2>2 DEF Owned, Relay
    <3>2. doc' = IF f.msg.type = "Ops" THEN Applied(doc, f.msg) ELSE doc
      BY <2>2 DEF Relay
    <3> HIDE DEF f
    <3>3. f.msg.type = "Ops" => f.msg.adds \subseteq Committed
      BY <3>1, FrameOf DEF Of, Idle, Left
    <3>4. \A s \in Strokes : Applied(doc, f.msg)[s] = Visible => doc[s] = Visible \/ s \in f.msg.adds
      BY <1>0, AppliedType
    <3> QED
      BY <3>2, <3>3, <3>4 DEF Owned
  <2>3. CASE ~Relay
    <3>1. doc' \in {doc, Merged(doc, room)}
      BY <2>3 DEF Resync, Leave, Subscribe, Welcome
    <3> QED
      BY <2>1, <3>1 DEF Owned
  <2> QED
    BY <2>2, <2>3
<1> QED
  BY <1>1, <1>2, <1>3, <1>4, <1>5 DEF Owned

LEMMA OwnedNext == ASSUME PreviewInv, Owned, [Next]_vars PROVE Owned'
<1>1. CASE UNCHANGED vars
  <2>1. UNCHANGED <<status, queue, up, rx, room, doc>>
    BY <1>1 DEF vars, author, viewer
  <2>2. Committed' = Committed /\ FramesOf' = FramesOf /\ \A d \in Authors : Of(d)' = Of(d)
    BY <2>1, SameOf
  <2> QED
    BY <2>1, <2>2, ConnType DEF Owned
<1>2. Begun \subseteq Begun' /\ Committed \subseteq Committed'
  BY OneWay DEF PreviewInv
<1> QED
  BY <1>1, <1>2, OwnedDraw, OwnedNet, OwnedSession, OwnedViewer DEF Next

\* The connections of Wired, and its strokes.
WiredConns ==
  /\ \A k \in Conns : /\ ses[k] # "live" => up[k] = <<>>
                      /\ k[2] > cur[k[1]] => ses[k] = "none"
  /\ \A c \in Authors : link[c] => ses[Current(c)] = "live"

WiredStrokes ==
  /\ vses # "live" => Begun \subseteq spotty
  /\ \A s \in Strokes : status[s] = "open" =>
       /\ sent[s] >= 1
       /\ s \notin spotty => link[AuthorOf[s]]
       /\ \A t \in Strokes : AuthorOf[t] = AuthorOf[s] /\ status[t] = "open" => t = s

LEMMA WiredParts == Wired <=> WiredConns /\ WiredStrokes
BY DEF Wired, WiredConns, WiredStrokes, Open, Mine

LEMMA WiredPartsNext == WiredConns' /\ WiredStrokes' => Wired'
BY DEF Wired, WiredConns, WiredStrokes, Open, Mine

LEMMA CurrentIs ==
  ASSUME TypeOK, NEW c \in Authors PROVE Current(c) \in Conns /\ Current(c)[1] = c
BY ConnType DEF TypeOK, Current

LEMMA WiredDraw ==
  ASSUME PreviewInv, Wired, NEW c \in Authors, Draw(c) \/ SendCursor(c) PROVE Wired'
<1>0. /\ TypeOK /\ up \in [Conns -> Seq(Good)] /\ sent \in [Strokes -> Nat]
      /\ status \in [Strokes -> {"new", "open", "drawn", "cancelled", "erased"}]
      /\ WiredConns /\ WiredStrokes /\ c = c
  BY WiredParts DEF PreviewInv, LinkType, TypeOK
<1>1. UNCHANGED <<cur, link, ses, vses>>
  BY DEF Draw, Begin, Extend, Commit, Cancel, Erase, SendCursor, viewer
<1>2. WiredConns'
  <2>1. up' = up \/ \E m : Send(c, m)
    BY DEF Draw, Begin, Extend, Commit, Cancel, Erase, SendCursor
  <2>2. \A k \in Conns : up'[k] = up[k] \/ (link[c] /\ k = Current(c))
    BY <1>0, <2>1, CurrentIs DEF Send
  <2> QED
    BY <1>0, <1>1, <2>2 DEF WiredConns, Current
<1>3. WiredStrokes'
  <2>1. CASE Begin(c)
    <3>1. PICK s \in Mine(c) :
            /\ status[s] = "new" /\ status' = [status EXCEPT ![s] = "open"]
            /\ sent' = [sent EXCEPT ![s] = 1]
            /\ spotty' = IF link[c] /\ vses = "live" THEN spotty ELSE spotty \cup {s}
            /\ Open(c) = {}
      BY <2>1 DEF Begin
    <3>2. s \in Strokes /\ AuthorOf[s] = c /\ \A t \in Strokes : AuthorOf[t] = c => status[t] # "open"
      BY <3>1 DEF Mine, Open
    <3>3. \A t \in Strokes : t # s => status'[t] = status[t] /\ sent'[t] = sent[t]
      BY <1>0, <3>1
    <3>4. status'[s] = "open" /\ sent'[s] = 1
      BY <1>0, <3>1, <3>2
    <3>5. vses' # "live" => Begun' \subseteq spotty'
      BY <1>0, <1>1, <3>1, <3>3 DEF WiredStrokes, Begun
    <3> QED
      BY <1>0, <1>1, <3>1, <3>2, <3>3, <3>4, <3>5 DEF WiredStrokes
  <2>2. ASSUME Begun' \subseteq Begun, spotty' = spotty,
               \A s \in Strokes : status'[s] = "open" => status[s] = "open" /\ sent'[s] >= sent[s]
        PROVE  WiredStrokes'
    <3>1. \A s \in Strokes : status[s] = "open" => sent[s] >= 1 /\ sent[s] \in Nat /\ sent'[s] \in Nat
      <4>1. sent' \in [Strokes -> Nat]
        BY DrawInv DEF PreviewInv, LinkType
      <4> QED
        BY <1>0, <4>1 DEF WiredStrokes
    <3> QED
      BY <1>0, <1>1, <2>2, <3>1 DEF WiredStrokes
  <2>3. CASE Extend(c)
    <3>1. /\ UNCHANGED <<status, spotty>> /\ \A s \in Strokes : sent'[s] >= sent[s]
      BY <1>0, <2>3 DEF Extend, Open, Mine, viewer
    <3> QED
      BY <2>2, <3>1 DEF Begun
  <2>4. CASE Commit(c) \/ Cancel(c) \/ Erase(c) \/ SendCursor(c)
    <3>1. UNCHANGED <<sent, spotty>>
      BY <2>4 DEF Commit, Cancel, Erase, SendCursor, viewer
    <3>2. \A s \in Strokes : status'[s] = status[s] \/ (status'[s] # "open" /\ status[s] # "new")
      BY <1>0, <2>4 DEF Commit, Cancel, Erase, SendCursor, Open
    <3>3. Begun' \subseteq Begun /\ \A s \in Strokes : status'[s] = "open" => status[s] = "open"
      BY <3>2 DEF Begun
    <3>4. \A s \in Strokes : sent'[s] >= sent[s]
      BY <1>0, <3>1
    <3> QED
      BY <2>2, <3>1, <3>3, <3>4
  <2> QED
    BY <2>1, <2>3, <2>4 DEF Draw
<1> QED
  BY <1>2, <1>3, WiredPartsNext

LEMMA WiredNet ==
  ASSUME PreviewInv, Wired, NEW c \in Authors, Break(c) \/ Connect(c) PROVE Wired'
<1>0. /\ TypeOK /\ up \in [Conns -> Seq(Good)] /\ link \in [Authors -> BOOLEAN] /\ cur \in [Authors -> Nat]
      /\ ses \in [Conns -> {"none", "live", "closed"}]
      /\ WiredConns /\ WiredStrokes
  BY WiredParts DEF PreviewInv, LinkType, TypeOK
<1>1. UNCHANGED <<status, sent, vses>>
  BY DEF Break, Connect, viewer
<1>2. CASE Break(c)
  <2>1. /\ link[c] /\ link' = [link EXCEPT ![c] = FALSE] /\ UNCHANGED <<cur, ses>>
        /\ spotty' = spotty \cup Open(c)
        /\ \A k \in Conns : up'[k] = up[k] \/ k = Current(c)
    BY <1>0, <1>2 DEF Break
  <2>2. WiredConns'
    <3>1. ses[Current(c)] = "live"
      BY <2>1, <1>0 DEF WiredConns
    <3> QED
      BY <1>0, <2>1, <3>1 DEF WiredConns, Current
  <2>3. WiredStrokes'
    BY <1>0, <1>1, <2>1, PreviewsAssumption DEF WiredStrokes, Begun, Open, Mine
  <2> QED
    BY <2>2, <2>3, WiredPartsNext
<1>3. CASE Connect(c)
  <2> DEFINE new == <<c, cur[c] + 1>>
  <2>1. /\ link' = [link EXCEPT ![c] = TRUE] /\ cur' = [cur EXCEPT ![c] = cur[c] + 1]
        /\ ses' = [ses EXCEPT ![new] = "live"] /\ UNCHANGED spotty
        /\ \A k \in Conns : up'[k] = up[k] \/ k = new
    BY <1>0, <1>3 DEF Connect, viewer
  <2>2. new \in Conns /\ new[1] = c /\ new[2] = cur[c] + 1 /\ cur[c] \in Nat
    <3>1. cur[c] \in 1 .. MaxConns[c] /\ cur[c] < MaxConns[c] /\ MaxConns[c] \in Nat
      BY <1>0, <1>3, PreviewsAssumption DEF TypeOK, Connect
    <3>2. cur[c] + 1 \in 1 .. MaxConns[c]
      BY <3>1
    <3> QED
      BY <3>1, <3>2, ConnType
  <2>3. ASSUME NEW k \in Conns, k[2] > cur'[k[1]] PROVE k # new /\ k[2] > cur[k[1]]
    <3>1. k[1] \in Authors /\ k[2] \in Nat /\ cur[k[1]] \in Nat
      <4>1. k[1] \in Authors /\ k[2] \in 1 .. MaxConns[k[1]]
        BY ConnType
      <4> QED
        BY <1>0, <4>1
    <3>2. CASE k[1] = c
      <4>1. cur'[k[1]] = cur[c] + 1
        BY <1>0, <2>1, <3>1, <3>2
      <4> QED
        BY <2>2, <2>3, <3>1, <3>2, <4>1
    <3>3. CASE k[1] # c
      <4>1. cur'[k[1]] = cur[k[1]]
        BY <1>0, <2>1, <3>1, <3>3
      <4> QED
        BY <2>2, <2>3, <3>3, <4>1
    <3> QED
      BY <3>2, <3>3
  <2>4. ASSUME NEW d \in Authors, link'[d] PROVE ses'[<<d, cur'[d]>>] = "live"
    <3>1. CASE d = c
      BY <1>0, <2>1, <2>2, <3>1
    <3>2. CASE d # c
      <4>1. link[d] /\ cur'[d] = cur[d] /\ <<d, cur[d]>> # new /\ <<d, cur[d]>> \in Conns
        BY <1>0, <2>1, <2>4, <3>2, CurrentIs DEF Current
      <4>2. ses[<<d, cur[d]>>] = "live"
        BY <1>0, <4>1 DEF WiredConns, Current
      <4> QED
        BY <1>0, <2>1, <4>1, <4>2
    <3> QED
      BY <3>1, <3>2
  <2> HIDE DEF new
  <2>5. ASSUME NEW k \in Conns PROVE /\ ses'[k] # "live" => up'[k] = <<>>
                                     /\ k[2] > cur'[k[1]] => ses'[k] = "none"
    <3>1. CASE k = new
      BY <1>0, <2>1, <2>3, <3>1
    <3>2. CASE k # new
      <4>1. ses'[k] = ses[k] /\ up'[k] = up[k]
        BY <1>0, <2>1, <3>2
      <4> QED
        BY <1>0, <2>3, <4>1 DEF WiredConns
    <3> QED
      BY <3>1, <3>2
  <2>6. WiredConns'
    BY <2>4, <2>5 DEF WiredConns, Current
  <2>7. WiredStrokes'
    BY <1>0, <1>1, <2>1, PreviewsAssumption DEF WiredStrokes, Begun
  <2> QED
    BY <2>6, <2>7, WiredPartsNext
<1> QED
  BY <1>2, <1>3

LEMMA WiredRest ==
  ASSUME PreviewInv, Wired,
         \/ \E k \in Conns : Handle(k) \/ End(k)
         \/ Relay \/ Resync \/ Leave \/ Subscribe \/ Welcome
  PROVE  Wired'
<1>0. /\ TypeOK /\ up \in [Conns -> Seq(Good)] /\ ses \in [Conns -> {"none", "live", "closed"}]
      /\ WiredConns /\ WiredStrokes
  BY WiredParts DEF PreviewInv, LinkType, TypeOK
<1>1. UNCHANGED author /\ spotty \subseteq spotty'
  BY DEF Handle, End, Relay, Resync, Leave, Subscribe, Welcome
<1>2. vses' # "live" => Begun' \subseteq spotty'
  <2>1. CASE vses' = vses
    BY <1>0, <1>1, <2>1 DEF WiredStrokes, Begun, author
  <2>2. CASE vses' # vses
    BY <1>0, <1>1, <2>2 DEF WiredStrokes, Begun, author, Handle, End, Relay, Resync, Leave, Subscribe, Welcome
  <2> QED
    BY <2>1, <2>2
<1>3. WiredStrokes'
  BY <1>0, <1>1, <1>2 DEF WiredStrokes, author
<1>4. WiredConns'
  <2>1. ASSUME NEW k \in Conns, Handle(k) \/ End(k) PROVE WiredConns'
    <3>1. /\ ses[k] = "live" /\ \A j \in Conns : j # k => ses'[j] = ses[j] /\ up'[j] = up[j]
          /\ ses'[k] = "live" \/ (ses'[k] = "closed" /\ up'[k] = <<>>)
          /\ ses'[k] = "closed" => ~(link[k[1]] /\ Current(k[1]) = k)
      BY <1>0, <2>1 DEF Handle, End
    <3>2. ASSUME NEW d \in Authors, link[d] PROVE ses'[Current(d)] = "live"
      <4>1. Current(d) \in Conns /\ Current(d)[1] = d /\ ses[Current(d)] = "live"
        BY <1>0, <3>2, CurrentIs DEF WiredConns
      <4>2. CASE Current(d) = k
        BY <3>1, <3>2, <4>1, <4>2
      <4>3. CASE Current(d) # k
        BY <3>1, <4>1, <4>3
      <4> QED
        BY <4>2, <4>3
    <3>3. ASSUME NEW j \in Conns PROVE /\ ses'[j] # "live" => up'[j] = <<>>
                                       /\ j[2] > cur[j[1]] => ses'[j] = "none"
      BY <1>0, <3>1 DEF WiredConns
    <3> QED
      BY <1>1, <3>2, <3>3 DEF WiredConns, author, Current
  <2>2. ASSUME Relay \/ Resync \/ Leave \/ Subscribe \/ Welcome PROVE WiredConns'
    <3>1. UNCHANGED <<ses, up, cur, link>>
      BY <2>2 DEF Relay, Resync, Leave, Subscribe, Welcome, author
    <3> QED
      BY <1>0, <3>1 DEF WiredConns, Current
  <2> QED
    BY <2>1, <2>2
<1> QED
  BY <1>3, <1>4, WiredPartsNext

LEMMA WiredNext == ASSUME PreviewInv, Wired, [Next]_vars PROVE Wired'
<1>1. CASE UNCHANGED vars
  BY <1>1 DEF vars, author, viewer, Wired, Begun, Open, Mine, Current
<1> QED
  BY <1>1, WiredDraw, WiredNet, WiredRest DEF Next

-----------------------------------------------------------------------------
(* Marks of queues                                                           *)

\* u is what g makes of the elements of q.
Reads(g, q, u) == u \in Seq(Int) /\ Len(u) = Len(q) /\ \A i \in 1 .. Len(q) : u[i] = g[q[i]]

LEMMA SameSeq ==
  ASSUME NEW S, NEW p \in Seq(S), NEW q \in Seq(S), Len(p) = Len(q),
         \A i \in 1 .. Len(p) : p[i] = q[i]
  PROVE  p = q
OBVIOUS

LEMMA ReadsOne ==
  ASSUME NEW g, NEW S, NEW q \in Seq(S), NEW u, NEW v, Reads(g, q, u), Reads(g, q, v)
  PROVE  u = v
BY SameSeq DEF Reads

LEMMA ReadsAppend ==
  ASSUME NEW S, NEW g \in [S -> Int], NEW q \in Seq(S), NEW u, Reads(g, q, u), NEW e \in S
  PROVE  Reads(g, Append(q, e), Append(u, g[e]))
<1>1. /\ u \in Seq(Int) /\ g[e] \in Int /\ Len(u) = Len(q) /\ Len(q) \in Nat
      /\ \A i \in 1 .. Len(q) : u[i] = g[q[i]]
  BY DEF Reads
<1> DEFINE r == Append(q, e)
           v == Append(u, g[e])
<1>2. Len(r) = Len(q) + 1 /\ r[Len(q) + 1] = e /\ \A i \in 1 .. Len(q) : r[i] = q[i]
  OBVIOUS
<1>3. v \in Seq(Int) /\ Len(v) = Len(q) + 1 /\ v[Len(q) + 1] = g[e] /\ \A i \in 1 .. Len(q) : v[i] = u[i]
  BY <1>1
<1> HIDE DEF r, v
<1>4. \A i \in 1 .. Len(q) + 1 : i = Len(q) + 1 \/ i \in 1 .. Len(q)
  BY <1>1
<1>5. Reads(g, r, v)
  BY <1>1, <1>2, <1>3, <1>4 DEF Reads
<1> QED
  BY <1>5 DEF r, v

LEMMA ReadsTail ==
  ASSUME NEW S, NEW g \in [S -> Int], NEW q \in Seq(S), q # <<>>, NEW u, Reads(g, q, u)
  PROVE  u # <<>> /\ Head(u) = g[Head(q)] /\ Reads(g, Tail(q), Tail(u))
<1>1. /\ u \in Seq(Int) /\ Len(u) = Len(q) /\ Len(q) \in Nat \ {0}
      /\ \A i \in 1 .. Len(q) : u[i] = g[q[i]]
  BY DEF Reads
<1> DEFINE r == Tail(q)
           v == Tail(u)
<1>2. Len(r) = Len(q) - 1 /\ Head(q) = q[1] /\ \A i \in 1 .. Len(q) - 1 : r[i] = q[i + 1]
  BY <1>1
<1>3. u # <<>>
  BY <1>1
<1>4. /\ v \in Seq(Int) /\ Len(v) = Len(u) - 1 /\ Head(u) = u[1]
      /\ \A i \in 1 .. Len(u) - 1 : v[i] = u[i + 1]
  BY <1>1, <1>3
<1> HIDE DEF r, v
<1>5. 1 \in 1 .. Len(q) /\ \A i \in 1 .. Len(q) - 1 : i + 1 \in 1 .. Len(q)
  BY <1>1
<1>7. v \in Seq(Int) /\ Len(v) = Len(r) /\ Len(r) = Len(q) - 1
  BY <1>1, <1>2, <1>4
<1>8. \A i \in 1 .. Len(q) - 1 : v[i] = g[r[i]]
  BY <1>1, <1>2, <1>4, <1>5
<1>6. Reads(g, r, v)
  BY <1>7, <1>8 DEF Reads
<1> QED
  BY <1>1, <1>2, <1>3, <1>4, <1>5, <1>6 DEF r, v

LEMMA ReadsRest ==
  ASSUME NEW S, NEW g \in [S -> Int], NEW q \in Seq(S), NEW u, Reads(g, q, u),
         NEW a \in 1 .. Len(q) + 1
  PROVE  Reads(g, SubSeq(q, a, Len(q)), SubSeq(u, a, Len(q)))
<1>1. /\ u \in Seq(Int) /\ Len(u) = Len(q) /\ Len(q) \in Nat
      /\ \A i \in 1 .. Len(q) : u[i] = g[q[i]]
  BY DEF Reads
<1> DEFINE n == Len(q) - a + 1
           r == SubSeq(q, a, Len(q))
           v == SubSeq(u, a, Len(u))
<1>2. n \in Nat /\ Len(r) = n /\ \A i \in 1 .. n : r[i] = q[i + a - 1] /\ i + a - 1 \in 1 .. Len(q)
  OBVIOUS
<1>3. v \in Seq(Int) /\ Len(v) = Len(u) - a + 1 /\ \A i \in 1 .. Len(u) - a + 1 : v[i] = u[i + a - 1]
  BY <1>1
<1>4. v = SubSeq(u, a, Len(q)) /\ Len(v) = n /\ \A i \in 1 .. n : v[i] = u[i + a - 1]
  BY <1>1, <1>3
<1> HIDE DEF r, v, n
<1>5. Reads(g, r, v)
  BY <1>1, <1>2, <1>3, <1>4 DEF Reads
<1> QED
  BY <1>4, <1>5 DEF r

LEMMA Joined ==
  ASSUME NEW S, NEW p \in Seq(S), NEW q \in Seq(S)
  PROVE  /\ p \o q \in Seq(S) /\ Len(p \o q) = Len(p) + Len(q)
         /\ \A i \in 1 .. Len(p) : (p \o q)[i] = p[i]
         /\ \A i \in 1 .. Len(q) : (p \o q)[Len(p) + i] = q[i]
OBVIOUS

LEMMA ReadsJoin ==
  ASSUME NEW S, NEW g \in [S -> Int], NEW p \in Seq(S), NEW q \in Seq(S), NEW t, NEW u,
         Reads(g, p, t), Reads(g, q, u)
  PROVE  Reads(g, p \o q, t \o u)
<1>1. /\ t \in Seq(Int) /\ Len(t) = Len(p) /\ Len(p) \in Nat
      /\ u \in Seq(Int) /\ Len(u) = Len(q) /\ Len(q) \in Nat
      /\ \A i \in 1 .. Len(p) : t[i] = g[p[i]]
      /\ \A i \in 1 .. Len(q) : u[i] = g[q[i]]
  BY DEF Reads
<1> DEFINE r == p \o q
           v == t \o u
<1>2. /\ Len(r) = Len(p) + Len(q) /\ \A i \in 1 .. Len(p) : r[i] = p[i]
      /\ \A i \in 1 .. Len(q) : r[Len(p) + i] = q[i]
  OBVIOUS
<1>3. /\ v \in Seq(Int) /\ Len(v) = Len(t) + Len(u) /\ \A i \in 1 .. Len(t) : v[i] = t[i]
      /\ \A i \in 1 .. Len(u) : v[Len(t) + i] = u[i]
  <2>1. t \in Seq(Int) /\ u \in Seq(Int)
    BY <1>1
  <2> QED
    BY <2>1, Joined
<1> HIDE DEF r, v
<1>4. ASSUME NEW i \in 1 .. Len(r) PROVE v[i] = g[r[i]]
  <2>1. CASE i \in 1 .. Len(p)
    BY <1>1, <1>2, <1>3, <2>1
  <2>2. CASE i \notin 1 .. Len(p)
    <3>1. i - Len(p) \in 1 .. Len(q) /\ Len(p) + (i - Len(p)) = i
      BY <1>1, <1>2, <2>2
    <3> DEFINE j == i - Len(p)
    <3>2. r[Len(p) + j] = q[j] /\ v[Len(t) + j] = u[j]
      BY <1>1, <1>2, <1>3, <3>1
    <3>3. u[j] = g[q[j]]
      BY <1>1, <3>1
    <3> QED
      BY <1>1, <3>1, <3>2, <3>3
  <2> QED
    BY <2>1, <2>2
<1>5. Reads(g, r, v)
  BY <1>1, <1>2, <1>3, <1>4 DEF Reads
<1> QED
  BY <1>5 DEF r, v

\* Marks of the messages of an author.
LEMMA MarksRead ==
  ASSUME NEW c, NEW s, NEW S, NEW g, g = [m \in S |-> Mark(c, m, s)], g \in [S -> Int], NEW q \in Seq(S)
  PROVE  Reads(g, q, Marks(c, q, s))
<1>1. Len(q) \in Nat /\ \A i \in 1 .. Len(q) : q[i] \in S /\ g[q[i]] \in Int /\ g[q[i]] = Mark(c, q[i], s)
  OBVIOUS
<1>2. Marks(c, q, s) \in [1 .. Len(q) -> Int]
  BY <1>1 DEF Marks
<1>3. Marks(c, q, s) \in Seq(Int) /\ Len(Marks(c, q, s)) = Len(q)
  BY <1>1, <1>2
<1> QED
  BY <1>1, <1>3 DEF Reads, Marks

LEMMA RxRead ==
  ASSUME NEW s, NEW S, NEW g, g = [f \in S |-> Mark(f.from, f.msg, s)], g \in [S -> Int], NEW q \in Seq(S)
  PROVE  Reads(g, q, RxMarks(q, s))
<1>1. /\ Len(q) \in Nat
      /\ \A i \in 1 .. Len(q) : q[i] \in S /\ g[q[i]] \in Int /\ g[q[i]] = Mark(q[i].from, q[i].msg, s)
  OBVIOUS
<1>2. RxMarks(q, s) \in [1 .. Len(q) -> Int]
  BY <1>1 DEF RxMarks
<1>3. RxMarks(q, s) \in Seq(Int) /\ Len(RxMarks(q, s)) = Len(q)
  BY <1>1, <1>2
<1> QED
  BY <1>1, <1>3 DEF Reads, RxMarks

\* What c may ever say of its strokes.
Sayable(c) ==
  [type : {"Delta"}, id : Mine(c), n : Nat] \cup {Idle, Left}
    \cup [type : {"Ops"}, adds : SUBSET Mine(c), removes : SUBSET Strokes]
Sayables == UNION {[from : {c}, msg : Sayable(c)] : c \in Authors}

LEMMA MarkType ==
  /\ \A c \in Authors : \A m \in Sayable(c) : \A s : Mark(c, m, s) \in Int
  /\ \A f \in Sayables : \A s : Mark(f.from, f.msg, s) \in Int
<1>1. ASSUME NEW c \in Authors, NEW m \in Sayable(c), NEW s PROVE Mark(c, m, s) \in Int
  BY DEF Sayable, Mark, EndsIt, MayEnd, Idle, Left
<1>2. \A f \in Sayables : f.from \in Authors /\ f.msg \in Sayable(f.from)
  BY DEF Sayables
<1> QED
  BY <1>1, <1>2

\* The marks that go with what can be done to a queue.
LEMMA MarksOf ==
  ASSUME NEW c \in Authors, NEW s, NEW q \in Seq(Sayable(c))
  PROVE  /\ Marks(c, q, s) \in Seq(Int)
         /\ \A m \in Sayable(c) : Marks(c, Append(q, m), s) = Append(Marks(c, q, s), Mark(c, m, s))
         /\ q # <<>> => /\ Marks(c, q, s) # <<>> /\ Head(Marks(c, q, s)) = Mark(c, Head(q), s)
                        /\ Marks(c, Tail(q), s) = Tail(Marks(c, q, s))
         /\ \A a \in 1 .. Len(q) + 1 :
              Marks(c, SubSeq(q, a, Len(q)), s) = SubSeq(Marks(c, q, s), a, Len(q))
         /\ \A p \in Seq(Sayable(c)) : Marks(c, p \o q, s) = Marks(c, p, s) \o Marks(c, q, s)
<1> DEFINE S == Sayable(c)
           g == [m \in S |-> Mark(c, m, s)]
<1>1. g \in [S -> Int] /\ \A m \in S : g[m] = Mark(c, m, s)
  BY MarkType
<1>2. \A p \in Seq(S) : Reads(g, p, Marks(c, p, s))
  <2> TAKE p \in Seq(S)
  <2>1. g = [m \in S |-> Mark(c, m, s)]
    OBVIOUS
  <2> HIDE DEF g, S
  <2> QED
    BY <1>1, <2>1, MarksRead
<1> HIDE DEF g, S
<1>q. q \in Seq(S)
  BY DEF S
<1>3. Marks(c, q, s) \in Seq(Int)
  BY <1>2, <1>q DEF Reads
<1>4. ASSUME NEW m \in S PROVE Marks(c, Append(q, m), s) = Append(Marks(c, q, s), Mark(c, m, s))
  <2>1. Append(q, m) \in Seq(S)
    BY <1>q
  <2>2. Reads(g, Append(q, m), Append(Marks(c, q, s), g[m]))
    BY <1>1, <1>2, <1>q, ReadsAppend
  <2> QED
    BY <1>1, <1>2, <2>1, <2>2, ReadsOne
<1>5. ASSUME q # <<>>
      PROVE  /\ Marks(c, q, s) # <<>> /\ Head(Marks(c, q, s)) = Mark(c, Head(q), s)
             /\ Marks(c, Tail(q), s) = Tail(Marks(c, q, s))
  <2>1. Head(q) \in S /\ Tail(q) \in Seq(S)
    BY <1>q, <1>5, HeadTail
  <2>2. /\ Marks(c, q, s) # <<>> /\ Head(Marks(c, q, s)) = g[Head(q)]
        /\ Reads(g, Tail(q), Tail(Marks(c, q, s)))
    BY <1>1, <1>2, <1>q, <1>5, ReadsTail
  <2> QED
    BY <1>1, <1>2, <2>1, <2>2, ReadsOne
<1>6. ASSUME NEW a \in 1 .. Len(q) + 1
      PROVE  Marks(c, SubSeq(q, a, Len(q)), s) = SubSeq(Marks(c, q, s), a, Len(q))
  <2>1. SubSeq(q, a, Len(q)) \in Seq(S)
    BY <1>q
  <2>2. Reads(g, SubSeq(q, a, Len(q)), SubSeq(Marks(c, q, s), a, Len(q)))
    BY <1>1, <1>2, <1>q, ReadsRest
  <2> DEFINE r == SubSeq(q, a, Len(q))
             v == SubSeq(Marks(c, q, s), a, Len(q))
  <2> HIDE DEF r, v
  <2>3. r \in Seq(S) /\ Reads(g, r, v)
    BY <2>1, <2>2 DEF r, v
  <2>4. Marks(c, r, s) = v
    BY <1>2, <2>3, ReadsOne
  <2> QED
    BY <2>4 DEF r, v
<1>7. ASSUME NEW p \in Seq(S) PROVE Marks(c, p \o q, s) = Marks(c, p, s) \o Marks(c, q, s)
  <2>1. p \o q \in Seq(S)
    BY <1>q
  <2>2. Reads(g, p \o q, Marks(c, p, s) \o Marks(c, q, s))
    BY <1>1, <1>2, <1>q, ReadsJoin
  <2> DEFINE r == p \o q
             v == Marks(c, p, s) \o Marks(c, q, s)
  <2> HIDE DEF r, v
  <2>3. r \in Seq(S) /\ Reads(g, r, v)
    BY <2>1, <2>2 DEF r, v
  <2>4. Marks(c, r, s) = v
    BY <1>2, <2>3, ReadsOne
  <2> QED
    BY <2>4 DEF r, v
<1> QED
  BY <1>3, <1>4, <1>5, <1>6, <1>7 DEF S

LEMMA RxMarksOf ==
  ASSUME NEW s, NEW q \in Seq(Sayables)
  PROVE  /\ RxMarks(q, s) \in Seq(Int)
         /\ \A f \in Sayables : RxMarks(Append(q, f), s) = Append(RxMarks(q, s), Mark(f.from, f.msg, s))
         /\ q # <<>> => /\ RxMarks(q, s) # <<>>
                        /\ Head(RxMarks(q, s)) = Mark(Head(q).from, Head(q).msg, s)
                        /\ RxMarks(Tail(q), s) = Tail(RxMarks(q, s))
<1> DEFINE S == Sayables
           g == [f \in S |-> Mark(f.from, f.msg, s)]
<1>1. g \in [S -> Int] /\ \A f \in S : g[f] = Mark(f.from, f.msg, s)
  BY MarkType
<1>2. \A p \in Seq(S) : Reads(g, p, RxMarks(p, s))
  <2> TAKE p \in Seq(S)
  <2>1. g = [f \in S |-> Mark(f.from, f.msg, s)]
    OBVIOUS
  <2> HIDE DEF g, S
  <2> QED
    BY <1>1, <2>1, RxRead
<1> HIDE DEF g, S
<1>q. q \in Seq(S)
  BY DEF S
<1>3. RxMarks(q, s) \in Seq(Int)
  BY <1>2, <1>q DEF Reads
<1>4. ASSUME NEW f \in S PROVE RxMarks(Append(q, f), s) = Append(RxMarks(q, s), Mark(f.from, f.msg, s))
  <2>1. Append(q, f) \in Seq(S)
    BY <1>q
  <2>2. Reads(g, Append(q, f), Append(RxMarks(q, s), g[f]))
    BY <1>1, <1>2, <1>q, ReadsAppend
  <2> QED
    BY <1>1, <1>2, <2>1, <2>2, ReadsOne
<1>5. ASSUME q # <<>>
      PROVE  /\ RxMarks(q, s) # <<>> /\ Head(RxMarks(q, s)) = Mark(Head(q).from, Head(q).msg, s)
             /\ RxMarks(Tail(q), s) = Tail(RxMarks(q, s))
  <2>1. Head(q) \in S /\ Tail(q) \in Seq(S)
    BY <1>q, <1>5, HeadTail
  <2>2. /\ RxMarks(q, s) # <<>> /\ Head(RxMarks(q, s)) = g[Head(q)]
        /\ Reads(g, Tail(q), Tail(RxMarks(q, s)))
    BY <1>1, <1>2, <1>q, <1>5, ReadsTail
  <2> QED
    BY <1>1, <1>2, <2>1, <2>2, ReadsOne
<1> QED
  BY <1>3, <1>4, <1>5 DEF S

-----------------------------------------------------------------------------
(* What is under way about a stroke                                          *)

Sent(s)   == Marks(AuthorOf[s], up[Current(AuthorOf[s])], s)
Kept(s)   == Marks(AuthorOf[s], queue[AuthorOf[s]], s)
Coming(s) == RxMarks(rx, s)

\* A session of c other than that of the connection it has: its end is still to come.
OldLive(c) == \E k \in Conns : k[1] = c /\ ses[k] = "live" /\ ~(link[c] /\ k = Current(c))

\* A stroke that was committed: what is shown or comes of it will be ended.
EndedOf(s) ==
  /\ Drawn(Kept(s)) => Cut(Kept(s))
  /\ link[AuthorOf[s]] /\ Drawn(Sent(s)) => Cut(Sent(s))
  /\ s \in Shown \/ Drawn(Coming(s)) =>
       \/ Cut(Coming(s))
       \/ OldLive(AuthorOf[s])
       \/ link[AuthorOf[s]] /\ Cut(Sent(s))

\* h deltas of s are shown, those up to r come, the others are still with the session.
Whole(s, h) == IF s \in Freehand THEN [i \in 1 .. h |-> i] ELSE <<h>>
FollowedAt(s, h, r) ==
  /\ IF h = 0 THEN s \notin Shown ELSE s \in Shown /\ previews[s] = Whole(s, h)
  /\ Run(Coming(s), h, r) /\ Calm(Coming(s), h)
  /\ Run(Sent(s), r, sent[s]) /\ Calm(Sent(s), r)
FollowedOf(s) == \E h \in 0 .. sent[s] : \E r \in h .. sent[s] : FollowedAt(s, h, r)

Ended    == \A s \in Committed \ spotty : EndedOf(s)
Followed == \A s \in Strokes \ spotty :
              status[s] = "open" /\ ~OldLive(AuthorOf[s]) => FollowedOf(s)

\* Nothing waits for the network thread of an author that is connected.
Flushed == \A c \in Authors : link[c] => queue[c] = <<>>

Ready == PreviewInv /\ Owned /\ Wired /\ Flushed

LEMMA FlushedNext == ASSUME PreviewInv, Flushed, [Next]_vars PROVE Flushed'
<1>0. link \in [Authors -> BOOLEAN] /\ queue \in [Authors -> Seq(Good)]
  BY DEF PreviewInv, LinkType
<1>1. ASSUME NEW c \in Authors, Draw(c) \/ SendCursor(c) PROVE Flushed'
  <2>1. link' = link /\ (queue' = queue \/ \E m : Send(c, m))
    BY <1>1 DEF Draw, Begin, Extend, Commit, Cancel, Erase, SendCursor
  <2> QED
    BY <1>0, <2>1 DEF Flushed, Send
<1>2. ASSUME NEW c \in Authors, Break(c) \/ Connect(c) PROVE Flushed'
  <2>1. CASE Break(c)
    BY <1>0, <2>1 DEF Flushed, Break
  <2>2. CASE Connect(c)
    BY <1>0, <2>2 DEF Flushed, Connect
  <2> QED
    BY <1>2, <2>1, <2>2
<1>3. CASE UNCHANGED author
  BY <1>3 DEF Flushed, author
<1>4. \/ \E c \in Authors : Draw(c) \/ SendCursor(c) \/ Break(c) \/ Connect(c)
      \/ UNCHANGED author
  BY DEF Next, vars, Handle, End, Relay, Resync, Leave, Subscribe, Welcome
<1> QED
  BY <1>1, <1>2, <1>3, <1>4

LEMMA SayableOf ==
  ASSUME NEW c \in Authors
  PROVE  Of(c) \subseteq Sayable(c) /\ FramesOf \subseteq Sayables
<1>1. \A d \in Authors : Of(d) \subseteq Sayable(d)
  BY DEF Of, Sayable
<1> QED
  BY <1>1 DEF FramesOf, Sayables

LEMMA ReadyTypes ==
  ASSUME Ready, NEW s \in Strokes
  PROVE  /\ AuthorOf[s] \in Authors /\ sent[s] \in Nat /\ s \in Mine(AuthorOf[s])
         /\ Current(AuthorOf[s]) \in Conns /\ Current(AuthorOf[s])[1] = AuthorOf[s]
         /\ queue[AuthorOf[s]] \in Seq(Sayable(AuthorOf[s]))
         /\ up[Current(AuthorOf[s])] \in Seq(Sayable(AuthorOf[s]))
         /\ rx \in Seq(Sayables)
         /\ Kept(s) \in Seq(Int) /\ Sent(s) \in Seq(Int) /\ Coming(s) \in Seq(Int)
<1> DEFINE c == AuthorOf[s]
<1>1. c \in Authors /\ sent[s] \in Nat /\ s \in Mine(c)
  BY PreviewsAssumption DEF Ready, PreviewInv, LinkType, Mine
<1>2. Current(c) \in Conns /\ Current(c)[1] = c
  BY <1>1, CurrentIs DEF Ready, PreviewInv
<1>3. queue[c] \in Seq(Of(c)) /\ up[Current(c)] \in Seq(Of(c)) /\ rx \in Seq(FramesOf)
  BY <1>1, <1>2 DEF Ready, Owned
<1> HIDE DEF c
<1>4. queue[c] \in Seq(Sayable(c)) /\ up[Current(c)] \in Seq(Sayable(c)) /\ rx \in Seq(Sayables)
  BY <1>1, <1>3, SayableOf, WiderSeq
<1>5. Marks(c, queue[c], s) \in Seq(Int) /\ Marks(c, up[Current(c)], s) \in Seq(Int)
  BY <1>1, <1>4, MarksOf
<1>6. RxMarks(rx, s) \in Seq(Int)
  BY <1>4, RxMarksOf
<1> QED
  BY <1>1, <1>2, <1>4, <1>5, <1>6 DEF c, Kept, Sent, Coming

\* Nobody else's messages are about a stroke.
LEMMA OthersMark ==
  ASSUME NEW c \in Authors, NEW m \in Sayable(c), NEW s \in Strokes, AuthorOf[s] # c
  PROVE  Mark(c, m, s) = 0
BY DEF Sayable, Mark, Mine, Idle, Left

\* What its author's messages do to it.
LEMMA OwnMark ==
  ASSUME NEW c \in Authors, NEW m \in Sayable(c), NEW s \in Strokes, AuthorOf[s] = c
  PROVE  /\ m.type = "Delta" => Mark(c, m, s) = IF m.id = s THEN m.n ELSE MayEnd
         /\ m.type = "Ops" => Mark(c, m, s) = IF s \in m.adds THEN EndsIt ELSE 0
         /\ m \in {Idle, Left} => Mark(c, m, s) = EndsIt
BY DEF Sayable, Mark, Idle, Left

\* A stroke that was not begun is drawn nowhere.
LEMMA NotBegun ==
  ASSUME Ready, NEW s \in Strokes, status[s] = "new"
  PROVE  ~Drawn(Kept(s)) /\ ~Drawn(Sent(s)) /\ ~Drawn(Coming(s)) /\ s \notin Shown
<1> DEFINE c == AuthorOf[s]
<1>1. c \in Authors /\ Current(c) \in Conns /\ Current(c)[1] = c
  BY ReadyTypes
<1>2. queue[c] \in Seq(Of(c)) /\ up[Current(c)] \in Seq(Of(c)) /\ rx \in Seq(FramesOf)
  BY <1>1 DEF Ready, Owned
<1>3. s \notin Begun
  BY DEF Begun
<1>4. \A d \in Authors : \A m \in Of(d) : ~(Mark(d, m, s) > 0)
  BY <1>3 DEF Of, Mark, EndsIt, MayEnd, Idle, Left
<1>5. \A f \in FramesOf : ~(Mark(f.from, f.msg, s) > 0)
  BY <1>4, FrameOf
<1> HIDE DEF c
<1>6. ASSUME NEW q \in Seq(Of(c)) PROVE ~Drawn(Marks(c, q, s))
  <2>1. Len(Marks(c, q, s)) = Len(q) /\ \A i \in 1 .. Len(q) : q[i] \in Of(c) /\ Marks(c, q, s)[i] = Mark(c, q[i], s)
    BY DEF Marks
  <2> QED
    BY <1>1, <1>4, <2>1 DEF Drawn
<1>7. ~Drawn(RxMarks(rx, s))
  <2>1. /\ Len(RxMarks(rx, s)) = Len(rx)
        /\ \A i \in 1 .. Len(rx) : rx[i] \in FramesOf /\ RxMarks(rx, s)[i] = Mark(rx[i].from, rx[i].msg, s)
    BY <1>2 DEF RxMarks
  <2> QED
    BY <1>5, <2>1 DEF Drawn
<1>8. s \notin Shown
  BY <1>3 DEF Ready, PreviewInv, TypeOK
<1> QED
  BY <1>2, <1>6, <1>7, <1>8 DEF c, Kept, Sent, Coming

\* The end of what h and r may be, at rest.
LEMMA RunEmpty ==
  ASSUME NEW p \in Seq(Int), ~Drawn(p), NEW r \in Nat
  PROVE  Run(p, r, r) /\ Calm(p, 0)
<1>1. \A i \in 1 .. Len(p) : p[i] \in Int /\ ~(p[i] > 0)
  BY DEF Drawn
<1>2. \A j \in 1 .. Len(p) : \A i \in 1 .. j - 1 : i \in 1 .. Len(p)
  OBVIOUS
<1>3. \A i \in 1 .. Len(p) : p[i] <= 0
  BY <1>1
<1>4. r + 1 .. r = {}
  OBVIOUS
<1> QED
  BY <1>1, <1>2, <1>3, <1>4 DEF Run, Calm

LEMMA NoRun == ASSUME NEW p \in Seq(Int), NEW r \in Nat, Run(p, r, r) PROVE ~Drawn(p)
<1>1. r + 1 .. r = {}
  OBVIOUS
<1> QED
  BY <1>1 DEF Run, Drawn

-----------------------------------------------------------------------------
(* Steps that leave a stroke alone                                           *)

\* Neither its author nor what it said moves.
Unmoved(s) ==
  /\ UNCHANGED <<status[s], sent[s], Kept(s), Sent(s), link[AuthorOf[s]]>>
  /\ OldLive(AuthorOf[s])' <=> OldLive(AuthorOf[s])
Unseen(s) ==
  /\ Coming(s)' = Coming(s) /\ (s \in Shown' <=> s \in Shown)
  /\ s \in Shown => previews'[s] = previews[s]

LEMMA StillEnded ==
  ASSUME NEW s \in Strokes, EndedOf(s), Unmoved(s), Unseen(s) PROVE EndedOf(s)'
BY DEF EndedOf, Unmoved, Unseen

LEMMA StillFollowed ==
  ASSUME NEW s \in Strokes, FollowedOf(s), Unmoved(s), Unseen(s) PROVE FollowedOf(s)'
<1>0. PICK h \in 0 .. sent[s] : \E r \in h .. sent[s] : FollowedAt(s, h, r)
  BY DEF FollowedOf
<1>1. PICK r \in h .. sent[s] : FollowedAt(s, h, r)
  BY <1>0
<1>2. FollowedAt(s, h, r)'
  BY <1>1 DEF FollowedAt, Unmoved, Unseen, Whole
<1>3. sent'[s] = sent[s]
  BY DEF Unmoved
<1> QED
  BY <1>2, <1>3 DEF FollowedOf

\* Steps of an author and its sessions leave the strokes of the others unmoved.
LEMMA OthersUnmoved ==
  ASSUME Ready, NEW d \in Authors, NEW s \in Strokes, AuthorOf[s] # d,
         \/ Draw(d) \/ SendCursor(d) \/ Break(d) \/ Connect(d)
         \/ \E k \in Conns : k[1] = d /\ (Handle(k) \/ End(k))
  PROVE  Unmoved(s)
<1> DEFINE c == AuthorOf[s]
<1>0. /\ TypeOK /\ queue \in [Authors -> Seq(Good)] /\ up \in [Conns -> Seq(Good)]
      /\ link \in [Authors -> BOOLEAN] /\ cur \in [Authors -> Nat] /\ sent \in [Strokes -> Nat]
      /\ ses \in [Conns -> {"none", "live", "closed"}]
      /\ status \in [Strokes -> {"new", "open", "drawn", "cancelled", "erased"}]
      /\ c \in Authors /\ Current(c) \in Conns /\ Current(c)[1] = c
      /\ Current(d) \in Conns /\ Current(d)[1] = d
  BY ReadyTypes, CurrentIs DEF Ready, PreviewInv, LinkType, TypeOK
<1>1. status'[s] = status[s] /\ sent'[s] = sent[s]
  BY <1>0 DEF Draw, Begin, Extend, Commit, Cancel, Erase, SendCursor, Break, Connect, Handle, End,
              Open, Mine, author
<1>2. link'[c] = link[c] /\ cur'[c] = cur[c] /\ queue'[c] = queue[c]
  <2>1. CASE Draw(d) \/ SendCursor(d)
    <3>1. UNCHANGED <<link, cur>> /\ (queue' = queue \/ \E m : Send(d, m))
      BY <2>1 DEF Draw, Begin, Extend, Commit, Cancel, Erase, SendCursor
    <3> QED
      BY <1>0, <3>1 DEF Send
  <2>2. CASE Break(d)
    BY <1>0, <2>2 DEF Break
  <2>3. CASE Connect(d)
    BY <1>0, <2>3 DEF Connect
  <2>4. CASE UNCHANGED author
    BY <2>4 DEF author
  <2> QED
    BY <2>1, <2>2, <2>3, <2>4 DEF Handle, End
<1>3. \A k \in Conns : k[1] # d => up'[k] = up[k] /\ ses'[k] = ses[k]
  <2>1. CASE Draw(d) \/ SendCursor(d)
    <3>1. UNCHANGED ses /\ (up' = up \/ \E m : Send(d, m))
      BY <2>1 DEF Draw, Begin, Extend, Commit, Cancel, Erase, SendCursor
    <3> QED
      BY <1>0, <3>1 DEF Send
  <2>2. CASE Break(d)
    BY <1>0, <2>2 DEF Break
  <2>3. CASE Connect(d)
    <3>1. <<d, cur[d] + 1>>[1] = d
      OBVIOUS
    <3> QED
      BY <1>0, <2>3, <3>1 DEF Connect
  <2>4. ASSUME NEW k \in Conns, k[1] = d, Handle(k) \/ End(k)
        PROVE  \A j \in Conns : j[1] # d => up'[j] = up[j] /\ ses'[j] = ses[j]
    BY <1>0, <2>4 DEF Handle, End
  <2> QED
    BY <2>1, <2>2, <2>3, <2>4
<1>4. Current(c)' = Current(c)
  BY <1>2 DEF Current
<1>5. OldLive(c)' <=> OldLive(c)
  BY <1>0, <1>2, <1>3, <1>4 DEF OldLive
<1> QED
  BY <1>0, <1>1, <1>2, <1>3, <1>4, <1>5 DEF Unmoved, Kept, Sent

-----------------------------------------------------------------------------
(* An author draws                                                           *)

LEMMA SendMarks ==
  ASSUME Ready, NEW s \in Strokes, NEW c \in Authors, c = AuthorOf[s], NEW m \in Sayable(c), Send(c, m),
         UNCHANGED <<cur, link>>
  PROVE  /\ link[c] => Sent(s)' = Append(Sent(s), Mark(c, m, s)) /\ Kept(s)' = Kept(s)
         /\ ~link[c] => Kept(s)' = Append(Kept(s), Mark(c, m, s)) /\ Sent(s)' = Sent(s)
<1>1. /\ queue \in [Authors -> Seq(Good)] /\ up \in [Conns -> Seq(Good)] /\ Current(c) \in Conns
      /\ queue[c] \in Seq(Sayable(c)) /\ up[Current(c)] \in Seq(Sayable(c))
  BY ReadyTypes DEF Ready, PreviewInv, LinkType
<1>2. Current(c)' = Current(c)
  BY DEF Current
<1>3. Marks(c, Append(queue[c], m), s) = Append(Marks(c, queue[c], s), Mark(c, m, s))
  BY <1>1, MarksOf
<1>4. Marks(c, Append(up[Current(c)], m), s) = Append(Marks(c, up[Current(c)], s), Mark(c, m, s))
  BY <1>1, MarksOf
<1>5. CASE link[c]
  <2>1. up'[Current(c)] = Append(up[Current(c)], m) /\ queue' = queue
    BY <1>1, <1>5 DEF Send
  <2> QED
    BY <1>2, <1>4, <1>5, <2>1 DEF Sent, Kept
<1>6. CASE ~link[c]
  <2>1. queue'[c] = Append(queue[c], m) /\ up' = up
    BY <1>1, <1>6 DEF Send
  <2> QED
    BY <1>2, <1>3, <1>6, <2>1 DEF Sent, Kept
<1> QED
  BY <1>5, <1>6

\* The connections and the viewer while an author draws.
LEMMA DrawLeaves ==
  ASSUME Ready, NEW c \in Authors, Draw(c) \/ SendCursor(c), NEW s \in Strokes
  PROVE  /\ UNCHANGED <<cur, link, ses>> /\ spotty \subseteq spotty' /\ Unseen(s)
         /\ OldLive(AuthorOf[s])' <=> OldLive(AuthorOf[s])
<1>1. UNCHANGED <<cur, link, ses, rx, previews>> /\ spotty \subseteq spotty'
  BY DEF Draw, Begin, Extend, Commit, Cancel, Erase, SendCursor, viewer
<1> QED
  BY <1>1 DEF Unseen, Coming, Shown, OldLive, Current

\* The messages of an author that works.
LEMMA Utterances ==
  ASSUME Ready, NEW c \in Authors
  PROVE  /\ Idle \in Sayable(c)
         /\ \A t \in Mine(c) : \A n \in Nat : Delta(t, n) \in Sayable(c)
         /\ \A t \in Mine(c) : Ops({t}, {}) \in Sayable(c) /\ Ops({}, {t}) \in Sayable(c)
<1>1. Mine(c) \subseteq Strokes
  BY DEF Mine
<1> QED
  BY <1>1 DEF Sayable, Delta, Ops, Idle, Left

\* What the author of a stroke says of it while it works.
Said(s, c, m) ==
  /\ Send(c, m)
  /\ \/ /\ Mark(c, m, s) <= 0 /\ status'[s] # "open"
        /\ status'[s] = status[s] \/ (status[s] = "drawn" /\ status'[s] = "erased")
     \/ Mark(c, m, s) = EndsIt /\ status[s] = "open" /\ status'[s] = "drawn"
     \/ /\ Mark(c, m, s) = 1 /\ status[s] = "new" /\ status'[s] = "open" /\ sent'[s] = 1
        /\ s \notin spotty' => link[c]
     \/ /\ Mark(c, m, s) = sent[s] + 1 /\ status[s] = "open" /\ status'[s] = "open"
        /\ sent'[s] = sent[s] + 1
     \/ Mark(c, m, s) = 0 /\ status[s] = "open" /\ status'[s] = "open" /\ sent'[s] = sent[s]

LEMMA DrawSays ==
  ASSUME Ready, NEW s \in Strokes, NEW c \in Authors, c = AuthorOf[s], Draw(c) \/ SendCursor(c)
  PROVE  \/ /\ UNCHANGED <<queue, up>> /\ sent'[s] = sent[s]
            /\ status'[s] = status[s] \/ status'[s] = "cancelled"
         \/ \E m \in Sayable(c) : Said(s, c, m)
<1>0. /\ TypeOK /\ sent \in [Strokes -> Nat] /\ s \in Mine(c)
      /\ status \in [Strokes -> {"new", "open", "drawn", "cancelled", "erased"}]
      /\ WiredStrokes /\ EndsIt <= 0 /\ MayEnd <= 0
  BY ReadyTypes, WiredParts DEF Ready, PreviewInv, LinkType, TypeOK, EndsIt, MayEnd
<1>1. ASSUME NEW t \in Mine(c), NEW n \in Nat
      PROVE  Delta(t, n) \in Sayable(c) /\ Mark(c, Delta(t, n), s) = IF t = s THEN n ELSE MayEnd
  <2>1. Delta(t, n) \in Sayable(c) /\ Delta(t, n).type = "Delta" /\ Delta(t, n).id = t /\ Delta(t, n).n = n
    BY Utterances DEF Delta
  <2> QED
    BY <2>1, OwnMark
<1>2. ASSUME NEW t \in Mine(c)
      PROVE  /\ Ops({t}, {}) \in Sayable(c) /\ Mark(c, Ops({t}, {}), s) = IF t = s THEN EndsIt ELSE 0
             /\ Ops({}, {t}) \in Sayable(c) /\ Mark(c, Ops({}, {t}), s) = 0
  <2>1. /\ Ops({t}, {}) \in Sayable(c) /\ Ops({}, {t}) \in Sayable(c)
    BY Utterances
  <2>2. /\ Ops({t}, {}).type = "Ops" /\ Ops({t}, {}).adds = {t}
        /\ Ops({}, {t}).type = "Ops" /\ Ops({}, {t}).adds = {}
    BY DEF Ops
  <2>3. Mark(c, Ops({t}, {}), s) = IF s \in Ops({t}, {}).adds THEN EndsIt ELSE 0
    BY <2>1, <2>2, OwnMark
  <2>4. Mark(c, Ops({}, {t}), s) = IF s \in Ops({}, {t}).adds THEN EndsIt ELSE 0
    BY <2>1, <2>2, OwnMark
  <2> QED
    BY <2>1, <2>2, <2>3, <2>4
<1>3. Idle \in Sayable(c) /\ Mark(c, Idle, s) = EndsIt
  BY Utterances, OwnMark
<1>4. CASE Begin(c)
  <2>1. PICK t \in Mine(c) :
          /\ status[t] = "new" /\ status' = [status EXCEPT ![t] = "open"]
          /\ sent' = [sent EXCEPT ![t] = 1] /\ Send(c, Delta(t, 1)) /\ Open(c) = {}
          /\ spotty' = IF link[c] /\ vses = "live" THEN spotty ELSE spotty \cup {t}
    BY <1>4 DEF Begin
  <2>2. t \in Strokes /\ status[s] # "open"
    BY <1>0, <2>1 DEF Mine, Open
  <2>3. Delta(t, 1) \in Sayable(c) /\ Mark(c, Delta(t, 1), s) = IF t = s THEN 1 ELSE MayEnd
    BY <1>1
  <2>4. CASE t = s
    BY <1>0, <2>1, <2>2, <2>3, <2>4 DEF Said
  <2>5. CASE t # s
    BY <1>0, <2>1, <2>2, <2>3, <2>5 DEF Said
  <2> QED
    BY <2>4, <2>5
<1>5. CASE Extend(c)
  <2>1. PICK t \in Open(c) : sent' = [sent EXCEPT ![t] = @ + 1] /\ Send(c, Delta(t, sent[t] + 1))
    BY <1>5 DEF Extend
  <2>2. /\ t \in Strokes /\ t \in Mine(c) /\ status[t] = "open" /\ status' = status /\ sent[t] + 1 \in Nat
        /\ status[s] = "open" => s = t
    BY <1>0, <1>5 DEF Mine, Open, Extend, WiredStrokes
  <2>3. /\ Delta(t, sent[t] + 1) \in Sayable(c)
        /\ Mark(c, Delta(t, sent[t] + 1), s) = IF t = s THEN sent[t] + 1 ELSE MayEnd
    BY <1>1, <2>2
  <2>4. CASE t = s
    BY <1>0, <2>1, <2>2, <2>3, <2>4 DEF Said
  <2>5. CASE t # s
    BY <1>0, <2>1, <2>2, <2>3, <2>5 DEF Said
  <2> QED
    BY <2>4, <2>5
<1>6. CASE Commit(c)
  <2>1. PICK t \in Open(c) : status' = [status EXCEPT ![t] = "drawn"] /\ Send(c, Ops({t}, {}))
    BY <1>6 DEF Commit
  <2>2. t \in Strokes /\ t \in Mine(c) /\ status[t] = "open" /\ (status[s] = "open" => s = t)
    BY <1>0 DEF Mine, Open, WiredStrokes
  <2>3. CASE t = s
    BY <1>0, <1>2, <2>1, <2>2, <2>3 DEF Said
  <2>4. CASE t # s
    BY <1>0, <1>2, <2>1, <2>2, <2>4 DEF Said
  <2> QED
    BY <2>3, <2>4
<1>7. CASE Erase(c)
  <2>1. PICK t \in Mine(c) : /\ status[t] = "drawn" /\ status' = [status EXCEPT ![t] = "erased"]
                             /\ Send(c, Ops({}, {t})) /\ sent' = sent
    BY <1>7 DEF Erase
  <2>2. t \in Strokes
    BY DEF Mine
  <2>3. Ops({}, {t}) \in Sayable(c) /\ Mark(c, Ops({}, {t}), s) = 0
    BY <1>2
  <2>4. CASE t = s
    BY <1>0, <2>1, <2>2, <2>3, <2>4 DEF Said
  <2>5. CASE t # s
    BY <1>0, <2>1, <2>2, <2>3, <2>5 DEF Said
  <2> QED
    BY <2>4, <2>5
<1>8. CASE SendCursor(c)
  <2>1. Send(c, Idle) /\ status' = status /\ status[s] # "open"
    BY <1>0, <1>8 DEF SendCursor, Open
  <2> QED
    BY <1>0, <1>3, <2>1 DEF Said
<1>9. CASE Cancel(c)
  BY <1>0, <1>9 DEF Cancel, Open
<1> QED
  BY <1>4, <1>5, <1>6, <1>7, <1>8, <1>9 DEF Draw

LEMMA EndedDraw ==
  ASSUME Ready, Ended, NEW s \in Committed' \ spotty', NEW c \in Authors, c = AuthorOf[s],
         Draw(c) \/ SendCursor(c)
  PROVE  EndedOf(s)'
<1>0. /\ s \in Strokes /\ UNCHANGED <<cur, link, ses>> /\ s \notin spotty /\ Unseen(s)
      /\ OldLive(c)' <=> OldLive(c)
      /\ Kept(s) \in Seq(Int) /\ Sent(s) \in Seq(Int) /\ Coming(s) \in Seq(Int)
      /\ status'[s] \in {"drawn", "erased"}
      /\ link'[c] = link[c]
  BY DrawLeaves, ReadyTypes DEF Committed
<1>1. s \in Committed => EndedOf(s)
  BY <1>0 DEF Ended
<1>2. CASE UNCHANGED <<queue, up>> /\ s \in Committed
  <2>1. Kept(s)' = Kept(s) /\ Sent(s)' = Sent(s)
    BY <1>0, <1>2 DEF Kept, Sent, Current
  <2> QED
    BY <1>0, <1>1, <1>2, <2>1 DEF EndedOf, Unseen
<1>3. ASSUME NEW m \in Sayable(c), Send(c, m), Mark(c, m, s) <= 0, s \in Committed PROVE EndedOf(s)'
  <2>1. Mark(c, m, s) \in Int
    BY MarkType
  <2>2. CASE link[c]
    <3>1. Sent(s)' = Append(Sent(s), Mark(c, m, s)) /\ Kept(s)' = Kept(s)
      BY <1>0, <1>3, <2>2, SendMarks
    <3>2. (Drawn(Sent(s)') => Drawn(Sent(s))) /\ (Cut(Sent(s)) => Cut(Sent(s)'))
      BY <1>0, <1>3, <2>1, <3>1, PushMark
    <3> QED
      BY <1>0, <1>1, <1>3, <3>1, <3>2 DEF EndedOf, Unseen
  <2>3. CASE ~link[c]
    <3>1. Kept(s)' = Append(Kept(s), Mark(c, m, s)) /\ Sent(s)' = Sent(s)
      BY <1>0, <1>3, <2>3, SendMarks
    <3>2. (Drawn(Kept(s)') => Drawn(Kept(s))) /\ (Cut(Kept(s)) => Cut(Kept(s)'))
      BY <1>0, <1>3, <2>1, <3>1, PushMark
    <3> QED
      BY <1>0, <1>1, <1>3, <3>1, <3>2 DEF EndedOf, Unseen
  <2> QED
    BY <2>2, <2>3
<1>4. ASSUME NEW m \in Sayable(c), Send(c, m), Mark(c, m, s) = EndsIt, status[s] = "open" PROVE EndedOf(s)'
  <2>1. link[c] /\ queue[c] = <<>>
    <3>1. WiredStrokes
      BY WiredParts DEF Ready
    <3> QED
      BY <1>0, <1>4, <3>1 DEF WiredStrokes, Ready, Flushed
  <2>2. Sent(s)' = Append(Sent(s), EndsIt) /\ Kept(s)' = Kept(s)
    BY <1>0, <1>4, <2>1, SendMarks
  <2>5. EndsIt \in Int
    BY DEF EndsIt
  <2>3. Cut(Sent(s)')
    BY <1>0, <2>2, <2>5, PushMark
  <2>4. ~Drawn(Kept(s))
    BY <1>0, <2>1 DEF Kept, Marks, Drawn
  <2> QED
    BY <1>0, <2>1, <2>2, <2>3, <2>4 DEF EndedOf
<1>5. \/ UNCHANGED <<queue, up>> /\ s \in Committed
      \/ \E m \in Sayable(c) : Send(c, m) /\ Mark(c, m, s) <= 0 /\ s \in Committed
      \/ \E m \in Sayable(c) : Send(c, m) /\ Mark(c, m, s) = EndsIt /\ status[s] = "open"
  BY <1>0, DrawSays DEF Committed, Said
<1> QED
  BY <1>2, <1>3, <1>4, <1>5

LEMMA FollowedDraw ==
  ASSUME Ready, Followed, NEW s \in Strokes \ spotty', NEW c \in Authors, c = AuthorOf[s],
         status'[s] = "open", ~OldLive(c)', Draw(c) \/ SendCursor(c)
  PROVE  FollowedOf(s)'
<1>0. /\ UNCHANGED <<cur, link, ses>> /\ s \notin spotty /\ Unseen(s) /\ ~OldLive(c)
      /\ Sent(s) \in Seq(Int) /\ Coming(s) \in Seq(Int) /\ sent[s] \in Nat
  BY DrawLeaves, ReadyTypes
<1>1. status[s] = "open" => link[c] /\ FollowedOf(s)
  <2>1. WiredStrokes
    BY WiredParts DEF Ready
  <2> QED
    BY <1>0, <2>1 DEF WiredStrokes, Followed
<1>2. CASE UNCHANGED <<queue, up>> /\ status[s] = "open" /\ sent'[s] = sent[s]
  <2>1. Kept(s)' = Kept(s) /\ Sent(s)' = Sent(s) /\ link'[c] = link[c]
    BY <1>0, <1>2 DEF Kept, Sent, Current
  <2> QED
    BY <1>0, <1>1, <1>2, <2>1, StillFollowed DEF Unmoved
<1>3. ASSUME NEW m \in Sayable(c), Send(c, m), status[s] = "open", sent'[s] \in {sent[s], sent[s] + 1},
             Mark(c, m, s) = IF sent'[s] = sent[s] THEN 0 ELSE sent'[s]
      PROVE  FollowedOf(s)'
  <2>0. Sent(s)' = Append(Sent(s), Mark(c, m, s))
    BY <1>0, <1>1, <1>3, SendMarks
  <2>1. Sent(s)' = Append(Sent(s), Mark(c, m, s)) /\ Mark(c, m, s) \in Int /\ Mark(c, m, s) >= 0
    BY <1>0, <1>3, <2>0
  <2>2. PICK h \in 0 .. sent[s] : \E r \in h .. sent[s] : FollowedAt(s, h, r)
    BY <1>1, <1>3 DEF FollowedOf
  <2>3. PICK r \in h .. sent[s] : FollowedAt(s, h, r)
    BY <2>2
  <2>4. h \in 0 .. sent'[s] /\ r \in h .. sent'[s] /\ r \in Nat /\ r <= sent[s]
    BY <1>0, <1>3
  <2>5. Run(Sent(s), r, sent[s]) /\ Calm(Sent(s), r)
    BY <2>3 DEF FollowedAt
  <2>6. Run(Sent(s)', r, sent'[s])
    BY <1>0, <1>3, <2>1, <2>4, <2>5, PushRun
  <2>7. Calm(Sent(s)', r)
    BY <1>0, <2>1, <2>4, <2>5, PushMark
  <2>8. FollowedAt(s, h, r)'
    BY <1>0, <2>3, <2>6, <2>7 DEF FollowedAt, Unseen, Whole
  <2> QED
    BY <2>4, <2>8 DEF FollowedOf
<1>4. ASSUME NEW m \in Sayable(c), Send(c, m), status[s] = "new", Mark(c, m, s) = 1, sent'[s] = 1, link[c]
      PROVE  FollowedOf(s)'
  <2>1. Sent(s)' = Append(Sent(s), 1)
    BY <1>0, <1>4, SendMarks
  <2>2. ~Drawn(Sent(s)) /\ ~Drawn(Coming(s)) /\ s \notin Shown
    BY <1>4, NotBegun
  <2>3. Run(Sent(s), 0, 0) /\ Calm(Sent(s), 0) /\ Run(Coming(s), 0, 0) /\ Calm(Coming(s), 0)
    BY <1>0, <2>2, RunEmpty
  <2>4. Run(Sent(s)', 0, 1)
    <3>1. 1 = 0 + 1 /\ 0 \in Nat /\ 1 \in Int /\ 0 <= 0
      OBVIOUS
    <3> QED
      BY <1>0, <2>1, <2>3, <3>1, PushRun
  <2>5. Calm(Sent(s)', 0)
    BY <1>0, <2>1, <2>3, PushMark
  <2>6. FollowedAt(s, 0, 0)'
    BY <1>0, <1>4, <2>2, <2>3, <2>4, <2>5 DEF FollowedAt, Unseen
  <2>7. 0 \in 0 .. sent'[s]
    BY <1>4
  <2> QED
    BY <2>6, <2>7 DEF FollowedOf
<1>5. \/ UNCHANGED <<queue, up>> /\ status[s] = "open" /\ sent'[s] = sent[s]
      \/ \E m \in Sayable(c) :
           /\ Send(c, m) /\ status[s] = "open" /\ sent'[s] \in {sent[s], sent[s] + 1}
           /\ Mark(c, m, s) = IF sent'[s] = sent[s] THEN 0 ELSE sent'[s]
      \/ \E m \in Sayable(c) :
           Send(c, m) /\ status[s] = "new" /\ Mark(c, m, s) = 1 /\ sent'[s] = 1 /\ link[c]
  BY <1>0, DrawSays DEF Said
<1> QED
  BY <1>2, <1>3, <1>4, <1>5

-----------------------------------------------------------------------------
(* The network thread of an author                                           *)

\* A flushed outbox draws nothing.
LEMMA OutboxMarks ==
  ASSUME NEW c \in Authors, NEW s \in Strokes, c = AuthorOf[s], NEW q \in Seq(Sayable(c))
  PROVE  Outbox(q) \in Seq(Sayable(c)) /\ ~Drawn(Marks(c, Outbox(q), s))
<1> DEFINE ops == {m \in Range(q) : m.type = "Ops"}
           adds == UNION {m.adds : m \in ops}
           removes == UNION {m.removes : m \in ops}
<1>1. ops \subseteq [type : {"Ops"}, adds : SUBSET Mine(c), removes : SUBSET Strokes]
  BY RangeType DEF Sayable, Idle, Left
<1>2. adds \subseteq Mine(c) /\ removes \subseteq Strokes
  BY <1>1
<1> HIDE DEF adds, removes
<1> DEFINE o == Ops(adds, removes)
<1>3. o \in Sayable(c) /\ o.type = "Ops"
  BY <1>2 DEF Ops, Sayable
<1>4. Outbox(q) = <<>> \/ Outbox(q) = <<o>>
  BY DEF Outbox, adds, removes
<1> HIDE DEF o
<1>5. ~(Mark(c, o, s) > 0)
  BY <1>3, OwnMark DEF EndsIt
<1>6. CASE Outbox(q) = <<>>
  BY <1>6, NoSeq DEF Marks, Drawn
<1>7. CASE Outbox(q) = <<o>>
  <2>1. <<o>> \in Seq(Sayable(c)) /\ Len(<<o>>) = 1 /\ <<o>>[1] = o
    BY <1>3
  <2>2. Len(Marks(c, <<o>>, s)) = 1 /\ Marks(c, <<o>>, s)[1] = Mark(c, o, s)
    BY <2>1 DEF Marks
  <2> QED
    BY <1>5, <1>7, <2>1, <2>2 DEF Drawn
<1> QED
  BY <1>4, <1>6, <1>7

LEMMA EndedBreak ==
  ASSUME Ready, Ended, NEW s \in Committed \ spotty, NEW c \in Authors, c = AuthorOf[s], Break(c)
  PROVE  EndedOf(s)'
<1>0. /\ s \in Strokes /\ EndedOf(s) /\ link \in [Authors -> BOOLEAN]
      /\ queue \in [Authors -> Seq(Good)] /\ Sent(s) \in Seq(Int)
      /\ Current(c) \in Conns /\ Current(c)[1] = c /\ up[Current(c)] \in Seq(Sayable(c))
  BY ReadyTypes DEF Committed, Ended, Ready, PreviewInv, LinkType
<1> DEFINE q == up[Current(c)]
<1>1. PICK i \in 0 .. Len(q) : \E j \in i .. Len(q) : queue' = [queue EXCEPT ![c] = SubSeq(q, j + 1, Len(q))]
  BY DEF Break
<1>2. PICK j \in i .. Len(q) : queue' = [queue EXCEPT ![c] = SubSeq(q, j + 1, Len(q))]
  BY <1>1
<1>3. link[c] /\ ~link'[c] /\ UNCHANGED <<cur, ses, rx, previews>>
  BY <1>0 DEF Break
<1>4. OldLive(c)'
  <2>1. ses[Current(c)] = "live"
    BY <1>3 DEF Ready, Wired
  <2> QED
    BY <1>0, <1>3, <2>1 DEF OldLive
<1>5. Sent(s) = Marks(c, q, s) /\ Len(q) \in Nat /\ Len(Marks(c, q, s)) = Len(q)
  BY <1>0 DEF Sent, Marks
<1> HIDE DEF q
<1>6. Kept(s)' = SubSeq(Sent(s), j + 1, Len(Sent(s)))
  <2>1. Kept(s)' = Marks(c, SubSeq(q, j + 1, Len(q)), s)
    BY <1>0, <1>2 DEF Kept
  <2>2. q \in Seq(Sayable(c)) /\ j + 1 \in 1 .. Len(q) + 1
    BY <1>0, <1>5 DEF q
  <2>3. Marks(c, SubSeq(q, j + 1, Len(q)), s) = SubSeq(Marks(c, q, s), j + 1, Len(q))
    BY <2>2, MarksOf
  <2> QED
    BY <1>5, <2>1, <2>3
<1>7. Drawn(Kept(s)') => Cut(Kept(s)')
  <2>1. j + 1 \in 1 .. Len(Sent(s)) + 1
    BY <1>5
  <2>2. Drawn(Kept(s)') => Drawn(Sent(s)) /\ (Cut(Sent(s)) => Cut(Kept(s)'))
    BY <1>0, <1>6, <2>1, RestCut
  <2> QED
    BY <1>0, <1>3, <2>2 DEF EndedOf
<1> QED
  BY <1>3, <1>4, <1>7 DEF EndedOf

LEMMA EndedConnect ==
  ASSUME Ready, Ended, NEW s \in Committed \ spotty, NEW c \in Authors, c = AuthorOf[s], Connect(c)
  PROVE  EndedOf(s)'
<1>0. /\ s \in Strokes /\ EndedOf(s) /\ link \in [Authors -> BOOLEAN] /\ cur \in [Authors -> Nat]
      /\ queue \in [Authors -> Seq(Good)] /\ up \in [Conns -> Seq(Good)]
      /\ ses \in [Conns -> {"none", "live", "closed"}]
      /\ Kept(s) \in Seq(Int) /\ queue[c] \in Seq(Sayable(c))
  BY ReadyTypes DEF Committed, Ended, Ready, PreviewInv, LinkType, TypeOK
<1> DEFINE q == queue[c]
           new == <<c, cur[c] + 1>>
<1>1. PICK n \in 0 .. Len(q) :
        up' = [up EXCEPT ![new] = Outbox(SubSeq(q, 1, n)) \o SubSeq(q, n + 1, Len(q))]
  BY DEF Connect
<1>2. /\ ~link[c] /\ UNCHANGED <<rx, previews>> /\ cur'[c] = cur[c] + 1 /\ queue'[c] = <<>>
      /\ ses' = [ses EXCEPT ![new] = "live"]
  BY <1>0 DEF Connect, viewer
<1>3. new \in Conns
  <2>1. cur[c] \in 1 .. MaxConns[c] /\ cur[c] < MaxConns[c] /\ MaxConns[c] \in Nat
    BY PreviewsAssumption DEF Ready, PreviewInv, TypeOK, Connect
  <2>2. cur[c] + 1 \in 1 .. MaxConns[c]
    BY <2>1
  <2> QED
    BY <2>2, ConnType
<1>4. OldLive(c) => OldLive(c)'
  <2> SUFFICES ASSUME NEW k \in Conns, k[1] = c, ses[k] = "live" PROVE OldLive(c)'
    BY DEF OldLive
  <2>1. k[2] \in Nat /\ cur[c] \in Nat /\ ~(k[2] > cur[c])
    <3>1. k[2] \in 1 .. MaxConns[c]
      BY ConnType
    <3>2. k[2] > cur[c] => ses[k] = "none"
      BY DEF Ready, Wired
    <3> QED
      BY <1>0, <3>1, <3>2
  <2>2. k # new
    BY <2>1
  <2>3. k # Current(c)' /\ ses'[k] = "live"
    BY <1>0, <1>2, <2>2 DEF Current
  <2> QED
    BY <2>3 DEF OldLive
<1> DEFINE a == SubSeq(q, 1, n)
           b == SubSeq(q, n + 1, Len(q))
<1>5. q \in Seq(Sayable(c)) /\ Len(q) \in Nat /\ n + 1 \in 1 .. Len(q) + 1 /\ n + 1 \in Nat \ {0}
  BY <1>0
<1> HIDE DEF q
<1>6. a \in Seq(Sayable(c)) /\ b \in Seq(Sayable(c))
  <2>1. Len(q) \in 0 .. Len(q) /\ 1 \in Nat \ {0}
    BY <1>5
  <2> QED
    BY <1>5, <2>1, PartOfSeq
<1>7. Kept(s) = Marks(c, q, s) /\ Len(Marks(c, q, s)) = Len(q)
  BY <1>5 DEF Kept, Marks, q
<1>8. Marks(c, b, s) = SubSeq(Kept(s), n + 1, Len(Kept(s)))
  BY <1>5, <1>7, MarksOf
<1>9. up'[new] = Outbox(a) \o b
  BY <1>0, <1>1, <1>3
<1>10. Sent(s)' = Marks(c, Outbox(a) \o b, s)
  BY <1>2, <1>9 DEF Sent, Current
<1> HIDE DEF a, b, new
<1>11. /\ Outbox(a) \in Seq(Sayable(c)) /\ ~Drawn(Marks(c, Outbox(a), s))
  BY <1>0, <1>6, OutboxMarks
<1>12. Sent(s)' = Marks(c, Outbox(a), s) \o Marks(c, b, s)
  BY <1>6, <1>10, <1>11, MarksOf
<1>13. Marks(c, Outbox(a), s) \in Seq(Int) /\ Marks(c, b, s) \in Seq(Int)
  BY <1>6, <1>11, MarksOf
<1>14. Drawn(Sent(s)') => Drawn(Marks(c, b, s))
  BY <1>11, <1>12, <1>13, JoinCut
<1>15. Drawn(Marks(c, b, s)) => Cut(Marks(c, b, s))
  <2>1. n + 1 \in 1 .. Len(Kept(s)) + 1
    BY <1>5, <1>7
  <2>2. Drawn(Marks(c, b, s)) => Drawn(Kept(s)) /\ (Cut(Kept(s)) => Cut(Marks(c, b, s)))
    BY <1>0, <1>8, <2>1, RestCut
  <2> QED
    BY <1>0, <2>2 DEF EndedOf
<1>16. Cut(Marks(c, b, s)) => Cut(Sent(s)')
  BY <1>12, <1>13, JoinCut
<1>17. ~Drawn(Kept(s)')
  BY <1>2 DEF Kept, Marks, Drawn
<1>18. s \in Shown' \/ Drawn(Coming(s)') => Cut(Coming(s)') \/ OldLive(c)'
  BY <1>0, <1>2, <1>4 DEF EndedOf, Coming, Shown
<1> QED
  BY <1>14, <1>15, <1>16, <1>17, <1>18 DEF EndedOf

LEMMA NetWatched ==
  ASSUME Ready, Ended, Followed, NEW c \in Authors, Break(c) \/ Connect(c)
  PROVE  Ended' /\ Followed'
<1>1. UNCHANGED <<status, sent, rx, previews>> /\ spotty \subseteq spotty'
  BY DEF Break, Connect, viewer
<1>2. Committed' = Committed
  BY <1>1, SameOf
<1>3. \A s \in Strokes : Unseen(s) /\ AuthorOf[s] \in Authors
  BY <1>1, PreviewsAssumption DEF Unseen, Coming, Shown
<1>4. Ended'
  <2> SUFFICES ASSUME NEW s \in Committed \ spotty PROVE EndedOf(s)'
    BY <1>1, <1>2 DEF Ended
  <2>1. s \in Strokes
    BY DEF Committed
  <2>2. CASE AuthorOf[s] = c
    BY <2>2, EndedBreak, EndedConnect
  <2>3. CASE AuthorOf[s] # c
    <3>1. Unmoved(s)
      BY <2>1, <2>3, OthersUnmoved
    <3> QED
      BY <1>3, <2>1, <3>1, StillEnded DEF Ended
  <2> QED
    BY <2>2, <2>3
<1>5. Followed'
  <2> SUFFICES ASSUME NEW s \in Strokes \ spotty', status[s] = "open", ~OldLive(AuthorOf[s])'
               PROVE  FollowedOf(s)'
    BY <1>1 DEF Followed
  <2>1. CASE AuthorOf[s] = c
    <3>1. link[c]
      BY <1>1, <2>1 DEF Ready, Wired
    <3>2. CASE Break(c)
      <4>1. s \in spotty'
        BY <2>1, <3>2 DEF Break, Open, Mine
      <4> QED
        BY <4>1
    <3> QED
      BY <3>1, <3>2 DEF Connect
  <2>2. CASE AuthorOf[s] # c
    <3>1. Unmoved(s)
      BY <2>2, OthersUnmoved
    <3>2. FollowedOf(s)
      BY <1>1, <3>1 DEF Followed, Unmoved
    <3> QED
      BY <1>3, <3>1, <3>2, StillFollowed
  <2> QED
    BY <2>1, <2>2
<1> QED
  BY <1>4, <1>5

LEMMA DrawWatched ==
  ASSUME Ready, Ended, Followed, NEW c \in Authors, Draw(c) \/ SendCursor(c)
  PROVE  Ended' /\ Followed'
<1>1. ASSUME NEW s \in Committed' \ spotty' PROVE EndedOf(s)'
  <2>0. s \in Strokes /\ s \notin spotty /\ Unseen(s)
    BY <1>1, DrawLeaves DEF Committed
  <2>1. CASE AuthorOf[s] = c
    BY <2>1, EndedDraw
  <2>2. CASE AuthorOf[s] # c
    <3>1. Unmoved(s)
      BY <2>0, <2>2, OthersUnmoved
    <3>2. EndedOf(s)
      BY <2>0, <3>1 DEF Ended, Unmoved, Committed
    <3> QED
      BY <2>0, <3>1, <3>2, StillEnded
  <2> QED
    BY <2>1, <2>2
<1>2. ASSUME NEW s \in Strokes \ spotty', status'[s] = "open", ~OldLive(AuthorOf[s])'
      PROVE  FollowedOf(s)'
  <2>0. s \notin spotty /\ Unseen(s)
    BY DrawLeaves
  <2>1. CASE AuthorOf[s] = c
    BY <1>2, <2>1, FollowedDraw
  <2>2. CASE AuthorOf[s] # c
    <3>1. Unmoved(s)
      BY <2>2, OthersUnmoved
    <3>2. FollowedOf(s)
      BY <1>2, <2>0, <3>1 DEF Followed, Unmoved
    <3> QED
      BY <2>0, <3>1, <3>2, StillFollowed
  <2> QED
    BY <2>1, <2>2
<1> QED
  BY <1>1, <1>2 DEF Ended, Followed

-----------------------------------------------------------------------------
(* The sessions of authors                                                   *)

\* What the server passes on of a stroke of which nothing was missed.
LEMMA PassedOn ==
  ASSUME Ready, NEW d \in Authors, NEW m \in Sayable(d), Broadcast(d, m),
         spotty \cup Overwritten \subseteq spotty', NEW s \in Begun \ spotty'
  PROVE  Coming(s)' = Append(Coming(s), Mark(d, m, s))
<1>1. vses # "out" /\ Len(rx) # Capacity
  BY DEF Ready, Wired, Overwritten
<1> DEFINE f == [from |-> d, msg |-> m]
<1>2. rx' = Append(rx, f)
  BY <1>1 DEF Broadcast
<1>3. f \in Sayables /\ f.from = d /\ f.msg = m
  BY DEF Sayables
<1>4. rx \in Seq(Sayables)
  BY SayableOf, WiderSeq DEF Ready, Owned
<1> HIDE DEF f
<1>5. RxMarks(Append(rx, f), s) = Append(RxMarks(rx, s), Mark(f.from, f.msg, s))
  BY <1>3, <1>4, RxMarksOf
<1> QED
  BY <1>2, <1>3, <1>5 DEF Coming

\* A session that is not its author's latest is about to end.
LEMMA OldOne ==
  ASSUME NEW k \in Conns, ses[k] = "live", ~(link[k[1]] /\ Current(k[1]) = k) PROVE OldLive(k[1])
BY DEF OldLive

\* The latest session handles a message.
LEMMA HandleOwn ==
  ASSUME Ready, NEW s \in Strokes, NEW c \in Authors, c = AuthorOf[s], NEW k \in Conns, k = Current(c),
         Handle(k), link[c], Coming(s)' = Append(Coming(s), Mark(c, Head(up[k]), s))
  PROVE  /\ EndedOf(s) => EndedOf(s)'
         /\ FollowedOf(s) => FollowedOf(s)'
<1> DEFINE x == Mark(c, Head(up[k]), s)
<1>0. /\ up \in [Conns -> Seq(Good)] /\ up[k] \in Seq(Sayable(c)) /\ up[k] # <<>>
      /\ Sent(s) \in Seq(Int) /\ Coming(s) \in Seq(Int) /\ sent[s] \in Nat
  BY ReadyTypes DEF Ready, PreviewInv, LinkType, Handle
<1>1. UNCHANGED <<author, ses, previews>> /\ up'[k] = Tail(up[k])
  BY <1>0 DEF Handle
<1>2. UNCHANGED <<status, sent, cur, link, queue>> /\ Current(c)' = k
  BY <1>1 DEF author, Current
<1>3. /\ Marks(c, up[k], s) # <<>> /\ Head(Marks(c, up[k], s)) = x
      /\ Marks(c, Tail(up[k]), s) = Tail(Marks(c, up[k], s))
  BY <1>0, MarksOf
<1>4. Sent(s) # <<>> /\ Head(Sent(s)) = x /\ Sent(s)' = Tail(Sent(s))
  BY <1>1, <1>2, <1>3 DEF Sent
<1>5. x \in Int
  BY <1>0, HeadTail, MarkType
<1> HIDE DEF x
<1>c. Coming(s)' = Append(Coming(s), x)
  BY DEF x
<1>6. Kept(s)' = Kept(s) /\ Shown' = Shown /\ link'[c] /\ (OldLive(c)' <=> OldLive(c))
  BY <1>1, <1>2 DEF Kept, Shown, OldLive, Current
<1>7. Tail(Sent(s)) \in Seq(Int)
  BY <1>0, <1>4
<1>8. ASSUME EndedOf(s) PROVE EndedOf(s)'
  <2>1. /\ Drawn(Tail(Sent(s))) => Drawn(Sent(s))
        /\ Cut(Sent(s)) => Cut(Tail(Sent(s))) \/ (x = EndsIt /\ ~Drawn(Tail(Sent(s))))
    BY <1>0, <1>4, PopMark
  <2>2. Drawn(Sent(s)) => Cut(Sent(s))
    BY <1>8 DEF EndedOf
  <2>3. Drawn(Sent(s)') => Cut(Sent(s)')
    BY <1>4, <2>1, <2>2
  <2>4. Drawn(Kept(s)') => Cut(Kept(s)')
    BY <1>6, <1>8 DEF EndedOf
  <2>5. ASSUME x > 0 PROVE Cut(Sent(s)')
    <3>1. 1 \in 1 .. Len(Sent(s)) /\ Sent(s)[1] = x
      BY <1>0, <1>4
    <3>2. Drawn(Sent(s))
      BY <2>5, <3>1 DEF Drawn
    <3> QED
      BY <1>4, <2>1, <2>2, <2>5, <3>2 DEF EndsIt
  <2>6. ASSUME x <= 0, s \in Shown \/ Drawn(Coming(s)')
        PROVE  Cut(Coming(s)') \/ OldLive(c) \/ Cut(Sent(s)')
    <3>1. s \in Shown \/ Drawn(Coming(s))
      BY <1>0, <1>5, <1>c, <2>6, PushMark
    <3>2. Cut(Coming(s)) \/ OldLive(c) \/ Cut(Sent(s))
      BY <1>8, <3>1 DEF EndedOf
    <3>3. Cut(Coming(s)) => Cut(Coming(s)')
      BY <1>0, <1>5, <1>c, <2>6, PushMark
    <3>4. x = EndsIt => Cut(Coming(s)')
      BY <1>0, <1>5, <1>c, PushMark
    <3> QED
      BY <1>4, <2>1, <3>2, <3>3, <3>4
  <2> QED
    BY <1>5, <1>6, <2>3, <2>4, <2>5, <2>6 DEF EndedOf
<1>9. ASSUME FollowedOf(s) PROVE FollowedOf(s)'
  <2>1. PICK h \in 0 .. sent[s] : \E r \in h .. sent[s] : FollowedAt(s, h, r)
    BY <1>9 DEF FollowedOf
  <2>2. PICK r \in h .. sent[s] : FollowedAt(s, h, r)
    BY <2>1
  <2>3. h \in Nat /\ r \in Nat /\ h <= r /\ r <= sent[s] /\ sent'[s] = sent[s]
    BY <1>0, <1>2
  <2>4. /\ Run(Coming(s), h, r) /\ Calm(Coming(s), h)
        /\ Run(Sent(s), r, sent[s]) /\ Calm(Sent(s), r)
    BY <2>2 DEF FollowedAt
  <2>5. Calm(Sent(s)', r) /\ (x > 0 => Calm(Sent(s)', r + 1)) /\ (x < 0 => r = 0)
    BY <1>0, <1>4, <2>3, <2>4, PopMark
  <2>6. /\ x <= 0 => Run(Sent(s)', r, sent[s])
        /\ x > 0 => x = r + 1 /\ r < sent[s] /\ Run(Sent(s)', r + 1, sent[s])
    BY <1>0, <1>4, <2>3, <2>4, PopRun
  <2>7. /\ x <= 0 => Run(Coming(s)', h, r)
        /\ x = r + 1 => Run(Coming(s)', h, r + 1)
    BY <1>0, <1>5, <1>c, <2>3, <2>4, PushRun
  <2>8. x >= 0 => Calm(Coming(s)', h)
    BY <1>0, <1>5, <1>c, <2>3, <2>4, PushMark
  <2>9. ASSUME NEW q, q \in {r, r + 1}, Run(Coming(s)', h, q), Calm(Coming(s)', h),
               Run(Sent(s)', q, sent[s]), Calm(Sent(s)', q), q <= sent[s]
        PROVE  FollowedOf(s)'
    <3>1. FollowedAt(s, h, q)'
      BY <1>1, <1>6, <2>2, <2>3, <2>9 DEF FollowedAt, Whole
    <3>2. h \in 0 .. sent'[s] /\ q \in h .. sent'[s]
      BY <2>3, <2>9
    <3> QED
      BY <3>1, <3>2 DEF FollowedOf
  <2>10. CASE x > 0
    <3>1. r + 1 <= sent[s]
      BY <1>0, <2>3, <2>6, <2>10
    <3> QED
      BY <1>5, <2>5, <2>6, <2>7, <2>8, <2>9, <2>10, <3>1
  <2>11. CASE x = 0
    BY <2>3, <2>5, <2>6, <2>7, <2>8, <2>9, <2>11
  <2>12. CASE x < 0
    <3>1. r = 0 /\ h = 0
      BY <2>3, <2>5, <2>12
    <3>2. ~Drawn(Coming(s))
      BY <1>0, <2>4, <3>1, NoRun
    <3>3. Calm(Coming(s)', h)
      BY <1>0, <1>5, <1>c, <2>4, <3>1, <3>2, PushMark
    <3> QED
      BY <1>5, <2>3, <2>5, <2>6, <2>7, <2>9, <2>12, <3>3
  <2> QED
    BY <1>5, <2>10, <2>11, <2>12
<1> QED
  BY <1>8, <1>9

LEMMA SessionWatched ==
  ASSUME Ready, Ended, Followed, NEW k \in Conns, Handle(k) \/ End(k)
  PROVE  Ended' /\ Followed'
<1> DEFINE d == k[1]
           m == IF Handle(k) THEN Head(up[k]) ELSE Left
<1>0. /\ d \in Authors /\ up \in [Conns -> Seq(Good)] /\ ses \in [Conns -> {"none", "live", "closed"}]
      /\ ses[k] = "live" /\ link \in [Authors -> BOOLEAN]
  BY ConnType DEF Ready, PreviewInv, LinkType, TypeOK, Handle, End
<1>1. UNCHANGED <<author, previews>> /\ spotty \cup Overwritten \subseteq spotty'
  BY DEF Handle, End
<1>2. UNCHANGED <<status, sent, cur, link, queue>> /\ Shown' = Shown /\ Begun' = Begun
  BY <1>1 DEF author, Shown, Begun
<1>3. m \in Sayable(d)
  <2>1. up[k] \in Seq(Of(d))
    BY <1>0 DEF Ready, Owned
  <2>2. up[k] \in Seq(Sayable(d)) /\ Left \in Sayable(d)
    BY <1>0, <2>1, SayableOf, WiderSeq DEF Sayable
  <2> QED
    BY <2>2, HeadTail DEF Handle
<1>4. Broadcast(d, m)
  BY DEF Handle, End
<1>5. ~Handle(k) => m = Left
  OBVIOUS
<1>6. Handle(k) => m = Head(up[k])
  OBVIOUS
<1> HIDE DEF m
<1>7. \A s \in Begun \ spotty' : Coming(s)' = Append(Coming(s), Mark(d, m, s))
  BY <1>0, <1>1, <1>3, <1>4, PassedOn
<1> HIDE DEF d
<1>d. d = k[1]
  BY DEF d
<1>8. ASSUME NEW s \in Begun \ spotty', AuthorOf[s] # d
      PROVE  (EndedOf(s) => EndedOf(s)') /\ (FollowedOf(s) => FollowedOf(s)') /\ Unmoved(s)
  <2>0. s \in Strokes /\ s \notin spotty /\ Coming(s) \in Seq(Int) /\ sent[s] \in Nat
    BY <1>1, ReadyTypes DEF Begun
  <2>1. Unmoved(s)
    BY <1>0, <1>8, <1>d, <2>0, OthersUnmoved
  <2>2. Coming(s)' = Append(Coming(s), 0)
    BY <1>0, <1>3, <1>7, <1>8, <2>0, OthersMark
  <2>3. /\ Drawn(Coming(s)') => Drawn(Coming(s))
        /\ Cut(Coming(s)) => Cut(Coming(s)')
        /\ \A lo \in Nat : Calm(Coming(s), lo) => Calm(Coming(s)', lo)
    <3>1. 0 \in Int /\ 0 <= 0 /\ 0 >= 0 /\ ~(0 > 0)
      OBVIOUS
    <3> QED
      BY <2>0, <2>2, <3>1, PushMark
  <2>4. EndedOf(s) => EndedOf(s)'
    BY <1>2, <2>1, <2>3 DEF EndedOf, Unmoved
  <2>5. ASSUME FollowedOf(s) PROVE FollowedOf(s)'
    <3>1. PICK h \in 0 .. sent[s] : \E r \in h .. sent[s] : FollowedAt(s, h, r)
      BY <2>5 DEF FollowedOf
    <3>2. PICK r \in h .. sent[s] : FollowedAt(s, h, r)
      BY <3>1
    <3>3. h \in Nat /\ r \in Nat /\ h <= r /\ sent'[s] = sent[s]
      BY <1>2, <2>0
    <3>4. Run(Coming(s), h, r) /\ Calm(Coming(s), h)
      BY <3>2 DEF FollowedAt
    <3>5. Run(Coming(s)', h, r)
      <4>1. 0 \in Int /\ 0 <= 0
        OBVIOUS
      <4> QED
        BY <2>0, <2>2, <3>3, <3>4, <4>1, PushRun
    <3>6. Calm(Coming(s)', h)
      BY <2>3, <3>3, <3>4
    <3>7. FollowedAt(s, h, r)'
      BY <1>1, <1>2, <2>1, <3>2, <3>5, <3>6 DEF FollowedAt, Whole, Unmoved
    <3> QED
      BY <3>3, <3>7 DEF FollowedOf
  <2> QED
    BY <2>1, <2>4, <2>5
<1>9. ASSUME NEW s \in Begun \ spotty', AuthorOf[s] = d, Handle(k), link[d], Current(d) = k
      PROVE  (EndedOf(s) => EndedOf(s)') /\ (FollowedOf(s) => FollowedOf(s)')
  <2>1. s \in Strokes /\ Coming(s)' = Append(Coming(s), Mark(d, Head(up[k]), s))
    BY <1>6, <1>7, <1>9 DEF Begun
  <2> QED
    BY <1>0, <1>9, <2>1, HandleOwn
<1>10. ASSUME NEW s \in Begun \ spotty', AuthorOf[s] = d, ~(link[d] /\ Current(d) = k), EndedOf(s)
       PROVE  EndedOf(s)'
  <2>0. s \in Strokes /\ Coming(s) \in Seq(Int) /\ Current(d) \in Conns
    BY <1>10, ReadyTypes DEF Begun
  <2>1. Kept(s)' = Kept(s)
    BY <1>2 DEF Kept
  <2>2. link[d] => Sent(s)' = Sent(s)
    <3>1. \A j \in Conns : j # k => up'[j] = up[j]
      BY <1>0 DEF Handle, End
    <3> QED
      BY <1>2, <1>10, <2>0, <3>1 DEF Sent, Current
  <2>3. Handle(k) => OldLive(d)'
    <3>1. Handle(k) => ses' = ses
      BY DEF Handle
    <3> QED
      BY <1>0, <1>2, <1>10, <1>d, <3>1 DEF OldLive, Current
  <2>4. ~Handle(k) => Cut(Coming(s)')
    <3>1. ~Handle(k) => Mark(d, m, s) = EndsIt
      BY <1>0, <1>3, <1>5, <1>10, <2>0, OwnMark
    <3>2. EndsIt \in Int
      BY DEF EndsIt
    <3> QED
      BY <1>7, <1>10, <2>0, <3>1, <3>2, PushMark
  <2> QED
    BY <1>2, <1>10, <2>1, <2>2, <2>3, <2>4 DEF EndedOf
<1>11. ASSUME NEW s \in Begun \ spotty', AuthorOf[s] = d, ~(link[d] /\ Current(d) = k), status[s] = "open"
       PROVE  OldLive(d)'
  <2>1. CASE Handle(k)
    <3>1. ses' = ses
      BY <2>1 DEF Handle
    <3> QED
      BY <1>0, <1>2, <1>11, <1>d, <3>1 DEF OldLive, Current
  <2>2. CASE ~Handle(k)
    <3>1. s \in spotty'
      BY <1>11, <1>d, <2>2 DEF End, Open, Mine, Begun
    <3> QED
      BY <3>1
  <2> QED
    BY <2>1, <2>2
<1>12. link[d] /\ Current(d) = k => Handle(k)
  BY <1>d DEF End
<1>13. Ended'
  <2> SUFFICES ASSUME NEW s \in Strokes, s \in Committed, s \notin spotty' PROVE EndedOf(s)'
    BY <1>2, SameOf DEF Ended, Committed
  <2>1. s \in Begun \ spotty' /\ EndedOf(s)
    BY <1>1 DEF Begun, Committed, Ended
  <2> QED
    BY <1>8, <1>9, <1>10, <1>12, <2>1
<1>14. Followed'
  <2> SUFFICES ASSUME NEW s \in Strokes \ spotty', status[s] = "open", ~OldLive(AuthorOf[s])'
               PROVE  FollowedOf(s)'
    BY <1>2 DEF Followed
  <2>1. s \in Begun \ spotty' /\ s \notin spotty
    BY <1>1 DEF Begun
  <2>2. ~OldLive(AuthorOf[s]) => FollowedOf(s)
    BY <2>1 DEF Followed
  <2>3. CASE AuthorOf[s] # d
    <3>1. Unmoved(s)
      BY <1>8, <2>1, <2>3
    <3>2. FollowedOf(s)
      BY <2>2, <3>1 DEF Unmoved
    <3> QED
      BY <1>8, <2>1, <2>3, <3>2
  <2>4. CASE AuthorOf[s] = d
    <3>1. link[d] /\ Current(d) = k
      BY <1>11, <2>1, <2>4
    <3>2. Handle(k)
      BY <1>12, <3>1
    <3>3. ~OldLive(d)
      <4>1. ses' = ses
        BY <3>2 DEF Handle
      <4> QED
        BY <1>2, <2>4, <4>1 DEF OldLive, Current
    <3> QED
      BY <1>9, <2>1, <2>2, <2>4, <3>1, <3>2, <3>3
  <2> QED
    BY <2>3, <2>4
<1> QED
  BY <1>13, <1>14

-----------------------------------------------------------------------------
(* The viewer, and all steps                                                 *)

\* What the viewer makes of a message, by its mark.
LEMMA BelieveMarked ==
  ASSUME NEW d \in Authors, NEW m \in Sayable(d), m.type = "Delta" => m.n >= 1,
         NEW s \in Strokes, NEW x, x = Mark(d, m, s), NEW P, P = Believe(d, m)
  PROVE  /\ x = 0 => (s \in DOMAIN P <=> s \in Shown) /\ (s \in Shown => P[s] = previews[s])
         /\ x < 0 => (s \in DOMAIN P => s \in Shown)
         /\ x = EndsIt => s \notin DOMAIN P
         /\ x > 0 /\ doc[s] # Visible =>
              /\ s \in DOMAIN P
              /\ P[s] = IF s \in Freehand THEN Append(IF s \in Shown THEN previews[s] ELSE <<>>, x)
                        ELSE <<x>>
<1>0. Shown = DOMAIN previews /\ EndsIt = -1 /\ MayEnd = -2 /\ m.type \in {"Delta", "Cursor", "Left", "Ops"}
  BY DEF Shown, EndsIt, MayEnd, Sayable, Idle, Left
<1>1. CASE m.type = "Delta"
  <2>1. m.id \in Mine(d) /\ m.n \in Nat \ {0} /\ m.id \in Strokes
    BY <1>1 DEF Sayable, Mine, Idle, Left
  <2>2. P = IF doc[m.id] = Visible THEN previews ELSE NewPreview(d, m)
    BY <1>1 DEF Believe
  <2>3. x = IF m.id = s THEN m.n ELSE IF AuthorOf[s] = d THEN MayEnd ELSE 0
    BY <1>1 DEF Mark
  <2>4. CASE doc[m.id] = Visible
    BY <1>0, <2>1, <2>2, <2>3, <2>4
  <2>5. CASE doc[m.id] # Visible
    <3> DEFINE kept == IF m.id \in Shown THEN Shown ELSE Shown \ Mine(d)
    <3>1. P = [t \in kept \cup {m.id} |->
                 IF t # m.id THEN previews[t]
                 ELSE Folded(IF t \in Shown THEN previews[t] ELSE <<>>, m)]
      BY <2>2, <2>5 DEF NewPreview
    <3>2. AuthorOf[s] # d => s \notin Mine(d)
      BY DEF Mine
    <3>3. DOMAIN P = kept \cup {m.id}
      BY <3>1
    <3>4. s # m.id /\ s \in kept => P[s] = previews[s]
      BY <3>1
    <3>5. P[m.id] = Folded(IF m.id \in Shown THEN previews[m.id] ELSE <<>>, m)
      BY <3>1
    <3>6. x = 0 => (s \in DOMAIN P <=> s \in Shown) /\ (s \in Shown => P[s] = previews[s])
      BY <1>0, <2>1, <2>3, <3>2, <3>3, <3>4
    <3>7. x < 0 => s # m.id
      BY <1>0, <2>1, <2>3
    <3>8. x # EndsIt
      BY <1>0, <2>1, <2>3
    <3>9. x > 0 => s = m.id /\ x = m.n
      BY <1>0, <2>1, <2>3
    <3>10. x > 0 => s \in DOMAIN P /\ P[s] = IF s \in Freehand THEN Append(IF s \in Shown THEN previews[s] ELSE <<>>, x)
                        ELSE <<x>>
      BY <3>3, <3>5, <3>9 DEF Folded
    <3> QED
      BY <3>3, <3>6, <3>7, <3>8, <3>10
  <2> QED
    BY <2>4, <2>5
<1>2. CASE m.type \in {"Cursor", "Left"}
  <2>1. P = Keep(Strokes \ Mine(d)) /\ x = IF AuthorOf[s] = d THEN EndsIt ELSE 0
    BY <1>2 DEF Believe, Mark
  <2>2. AuthorOf[s] = d <=> s \in Mine(d)
    BY DEF Mine
  <2> QED
    BY <1>0, <2>1, <2>2 DEF Keep
<1>3. CASE m.type = "Ops"
  <2>1. P = Keep(Strokes \ m.adds) /\ x = IF s \in m.adds THEN EndsIt ELSE 0
    BY <1>3 DEF Believe, Mark
  <2> QED
    BY <1>0, <2>1 DEF Keep
<1> QED
  BY <1>0, <1>1, <1>2, <1>3

\* One more delta of a stroke whose deltas append.
LEMMA WholeGrows ==
  ASSUME NEW h \in Nat, NEW s, s \in Freehand
  PROVE  Append(IF h = 0 THEN <<>> ELSE Whole(s, h), h + 1) = Whole(s, h + 1)
<1> DEFINE p == [i \in 1 .. h |-> i]
           q == [i \in 1 .. h + 1 |-> i]
<1>1. p \in Seq(Nat) /\ Len(p) = h /\ \A i \in 1 .. h : p[i] = i
  OBVIOUS
<1>2. q \in Seq(Nat) /\ Len(q) = h + 1 /\ \A i \in 1 .. h + 1 : q[i] = i
  OBVIOUS
<1> HIDE DEF p, q
<1>3. /\ Append(p, h + 1) \in Seq(Nat) /\ Len(Append(p, h + 1)) = h + 1
      /\ \A i \in 1 .. h + 1 : Append(p, h + 1)[i] = IF i = h + 1 THEN h + 1 ELSE p[i]
  BY <1>1
<1>4. \A i \in 1 .. h + 1 : Append(p, h + 1)[i] = q[i]
  <2> TAKE i \in 1 .. h + 1
  <2>1. i # h + 1 => i \in 1 .. h
    OBVIOUS
  <2> QED
    BY <1>1, <1>2, <1>3, <2>1
<1>5. Append(p, h + 1) = q
  BY <1>2, <1>3, <1>4, SameSeq
<1>6. h = 0 => p = <<>>
  BY DEF p
<1> QED
  BY <1>5, <1>6 DEF Whole, p, q

LEMMA RelayWatched ==
  ASSUME Ready, Relay, NEW s \in Begun \ spotty
  PROVE  /\ EndedOf(s) => EndedOf(s)'
         /\ status[s] = "open" /\ FollowedOf(s) => FollowedOf(s)'
<1> DEFINE f == Head(rx)
           x == Mark(f.from, f.msg, s)
<1>0. /\ s \in Strokes /\ rx # <<>> /\ rx \in Seq(Sayables) /\ Coming(s) \in Seq(Int) /\ sent[s] \in Nat
      /\ rx \in Seq(Frames)
  BY ReadyTypes DEF Begun, Relay, Ready, PreviewInv, LinkType
<1>1. UNCHANGED <<author, up, ses>> /\ rx' = Tail(rx) /\ previews' = Believe(f.from, f.msg)
  BY DEF Relay
<1>2. UNCHANGED <<status, sent, cur, link, queue>>
  BY <1>1 DEF author
<1>3. f \in Sayables /\ f \in Frames
  BY <1>0, HeadTail
<1>4. f.from \in Authors /\ f.msg \in Sayable(f.from) /\ (f.msg.type = "Delta" => f.msg.n >= 1)
  <2>1. f.from \in Authors /\ f.msg \in Sayable(f.from)
    BY <1>3 DEF Sayables
  <2>2. f.msg \in Good
    BY <1>3 DEF Frames
  <2>3. f.msg.type = "Delta" => f.msg.n \in 1 .. MaxDeltas[f.msg.id] /\ f.msg.n \in Nat
    BY <2>2 DEF Good, Idle, Left
  <2> QED
    BY <2>1, <2>3
<1>5. x \in Int
  BY <1>3, MarkType
<1>6. /\ RxMarks(rx, s) # <<>> /\ Head(RxMarks(rx, s)) = x
      /\ RxMarks(Tail(rx), s) = Tail(RxMarks(rx, s))
  BY <1>0, RxMarksOf
<1> HIDE DEF f
<1>7. /\ x = 0 => (s \in DOMAIN previews' <=> s \in Shown) /\ (s \in Shown => previews'[s] = previews[s])
      /\ x < 0 => (s \in DOMAIN previews' => s \in Shown)
      /\ x = EndsIt => s \notin DOMAIN previews'
      /\ x > 0 /\ doc[s] # Visible =>
           /\ s \in DOMAIN previews'
           /\ previews'[s] = IF s \in Freehand THEN Append(IF s \in Shown THEN previews[s] ELSE <<>>, x)
                             ELSE <<x>>
  BY <1>0, <1>1, <1>4, BelieveMarked
<1> HIDE DEF x
<1>8. Coming(s) # <<>> /\ Head(Coming(s)) = x /\ Coming(s)' = Tail(Coming(s)) /\ Shown' = DOMAIN previews'
  BY <1>1, <1>6 DEF Coming, Shown
<1>9. Kept(s)' = Kept(s) /\ Sent(s)' = Sent(s) /\ (OldLive(AuthorOf[s])' <=> OldLive(AuthorOf[s]))
  BY <1>1, <1>2 DEF Kept, Sent, OldLive, Current
<1>10. ASSUME EndedOf(s) PROVE EndedOf(s)'
  <2>1. /\ Drawn(Tail(Coming(s))) => Drawn(Coming(s))
        /\ Cut(Coming(s)) => Cut(Tail(Coming(s))) \/ (x = EndsIt /\ ~Drawn(Tail(Coming(s))))
    BY <1>0, <1>8, PopMark
  <2>2. x > 0 => Drawn(Coming(s))
    <3>1. 1 \in 1 .. Len(Coming(s)) /\ Coming(s)[1] = x
      BY <1>0, <1>8
    <3> QED
      BY <3>1 DEF Drawn
  <2>3. s \in Shown' /\ ~(x > 0) => s \in Shown
    <3>1. ~(x > 0) => x = 0 \/ x < 0
      BY <1>5
    <3> QED
      BY <1>7, <1>8, <3>1
  <2>4. x = EndsIt => s \notin Shown' /\ ~(x > 0)
    BY <1>7, <1>8 DEF EndsIt
  <2>5. s \in Shown' \/ Drawn(Coming(s)') => s \in Shown \/ Drawn(Coming(s))
    BY <1>8, <2>1, <2>2, <2>3
  <2>6. s \in Shown' \/ Drawn(Coming(s)') =>
          Cut(Coming(s)') \/ OldLive(AuthorOf[s]) \/ (link[AuthorOf[s]] /\ Cut(Sent(s)))
    BY <1>8, <1>10, <2>1, <2>4, <2>5 DEF EndedOf
  <2> QED
    BY <1>2, <1>9, <1>10, <2>6 DEF EndedOf
<1>11. ASSUME status[s] = "open", FollowedOf(s) PROVE FollowedOf(s)'
  <2>0. doc[s] # Visible
    BY <1>0, <1>11 DEF Ready, Owned, Committed
  <2>1. PICK h \in 0 .. sent[s] : \E r \in h .. sent[s] : FollowedAt(s, h, r)
    BY <1>11 DEF FollowedOf
  <2>2. PICK r \in h .. sent[s] : FollowedAt(s, h, r)
    BY <2>1
  <2>3. h \in Nat /\ r \in Nat /\ h <= r /\ r <= sent[s] /\ sent'[s] = sent[s]
    BY <1>0, <1>2
  <2>4. /\ Run(Coming(s), h, r) /\ Calm(Coming(s), h)
        /\ IF h = 0 THEN s \notin Shown ELSE s \in Shown /\ previews[s] = Whole(s, h)
    BY <2>2 DEF FollowedAt
  <2>5. Calm(Coming(s)', h) /\ (x > 0 => Calm(Coming(s)', h + 1)) /\ (x < 0 => h = 0)
    BY <1>0, <1>8, <2>3, <2>4, PopMark
  <2>6. /\ x <= 0 => Run(Coming(s)', h, r)
        /\ x > 0 => x = h + 1 /\ h < r /\ Run(Coming(s)', h + 1, r)
    BY <1>0, <1>8, <2>3, <2>4, PopRun
  <2>7. ASSUME NEW q, q \in {h, h + 1}, q <= r, Run(Coming(s)', q, r), Calm(Coming(s)', q),
               IF q = 0 THEN s \notin Shown' ELSE s \in Shown' /\ previews'[s] = Whole(s, q)
        PROVE  FollowedOf(s)'
    <3>1. FollowedAt(s, q, r)'
      BY <1>2, <1>9, <2>2, <2>7 DEF FollowedAt, Whole
    <3>2. q \in 0 .. sent'[s] /\ r \in q .. sent'[s]
      BY <1>0, <2>3, <2>7
    <3> QED
      BY <3>1, <3>2 DEF FollowedOf
  <2>8. CASE x > 0
    <3>1. s \in Shown' /\ previews'[s] = Whole(s, h + 1)
      <4>1. x = h + 1
        BY <2>6, <2>8
      <4>2. CASE s \in Freehand
        <5>1. previews'[s] = Append(IF s \in Shown THEN previews[s] ELSE <<>>, h + 1)
          BY <1>7, <2>0, <2>8, <4>1, <4>2
        <5>2. (IF s \in Shown THEN previews[s] ELSE <<>>) = IF h = 0 THEN <<>> ELSE Whole(s, h)
          BY <2>4
        <5> QED
          BY <1>7, <1>8, <2>0, <2>3, <2>8, <4>2, <5>1, <5>2, WholeGrows
      <4>3. CASE s \notin Freehand
        BY <1>7, <1>8, <2>0, <2>8, <4>1, <4>3 DEF Whole
      <4> QED
        BY <4>2, <4>3
    <3>2. h + 1 # 0 /\ h + 1 <= r
      BY <2>3, <2>6, <2>8
    <3> QED
      BY <2>5, <2>6, <2>7, <2>8, <3>1, <3>2
  <2>9. CASE x = 0
    <3>1. IF h = 0 THEN s \notin Shown' ELSE s \in Shown' /\ previews'[s] = Whole(s, h)
      BY <1>7, <1>8, <2>4, <2>9
    <3> QED
      BY <2>3, <2>5, <2>6, <2>7, <2>9, <3>1
  <2>10. CASE x < 0
    <3>1. h = 0 /\ s \notin Shown'
      BY <1>7, <1>8, <2>4, <2>5, <2>10
    <3> QED
      BY <1>5, <2>3, <2>5, <2>6, <2>7, <2>10, <3>1
  <2> QED
    BY <1>5, <2>8, <2>9, <2>10
<1> QED
  BY <1>10, <1>11

LEMMA ViewerWatched ==
  ASSUME Ready, Ended, Followed, Relay \/ Resync \/ Leave \/ Subscribe \/ Welcome
  PROVE  Ended' /\ Followed'
<1>1. UNCHANGED <<author, up, ses>> /\ spotty \subseteq spotty'
  BY DEF Relay, Resync, Leave, Subscribe, Welcome
<1>2. UNCHANGED <<status, sent, cur, link, queue>> /\ Committed \subseteq Begun
  BY <1>1 DEF author, Committed, Begun
<1>3. Committed' = Committed
  BY <1>2, SameOf
<1>4. \A s \in Strokes : Unmoved(s)
  BY <1>1, <1>2 DEF Unmoved, Kept, Sent, OldLive, Current
<1>5. ASSUME NEW s \in Begun, s \notin spotty', ~Relay PROVE Unseen(s)
  <2>1. rx' = rx /\ previews' = previews
    BY <1>5 DEF Resync, Leave, Subscribe, Welcome
  <2> QED
    BY <2>1 DEF Unseen, Coming, Shown
<1>6. ASSUME NEW s \in Begun, s \notin spotty'
      PROVE  (EndedOf(s) => EndedOf(s)') /\ (status[s] = "open" /\ FollowedOf(s) => FollowedOf(s)')
  <2>0. s \in Strokes /\ s \in Begun \ spotty
    BY <1>1, <1>6 DEF Begun
  <2>1. CASE Relay
    BY <2>0, <2>1, RelayWatched
  <2>2. CASE ~Relay
    BY <1>4, <1>5, <1>6, <2>0, <2>2, StillEnded, StillFollowed
  <2> QED
    BY <2>1, <2>2
<1>7. Ended'
  BY <1>1, <1>2, <1>3, <1>6 DEF Ended
<1>8. Followed'
  <2> SUFFICES ASSUME NEW s \in Strokes \ spotty', status[s] = "open", ~OldLive(AuthorOf[s])'
               PROVE  FollowedOf(s)'
    BY <1>2 DEF Followed
  <2>1. s \in Begun /\ s \notin spotty /\ ~OldLive(AuthorOf[s])
    BY <1>1, <1>4 DEF Begun, Unmoved
  <2> QED
    BY <1>6, <2>1 DEF Followed
<1> QED
  BY <1>7, <1>8

\* An old session or a cut on its way will end what is shown of a committed stroke,
\* and of one being drawn the deltas shown, those coming and those still with the
\* session are all of them, unless the viewer missed something.
WatchInv == Ready /\ Ended /\ Followed

LEMMA WatchInit == Init => WatchInv
<1> SUFFICES ASSUME Init PROVE WatchInv
  OBVIOUS
<1>1. PreviewInv
  BY InvInit
<1>2. Begun = {} /\ Committed = {} /\ spotty = {} /\ \A s \in Strokes : status[s] = "new"
  BY DEF Init, Begun, Committed
<1>3. Owned
  BY NoSeq, ConnType DEF Init, Owned, Unknown, Visible
<1>4. Wired
  <2>1. ASSUME NEW k \in Conns PROVE (ses[k] # "live" => up[k] = <<>>) /\ (k[2] > cur[k[1]] => ses[k] = "none")
    <3>1. k[1] \in Authors /\ cur[k[1]] = 1 /\ (k[2] > 1 => k[2] # 1)
      BY ConnType DEF Init
    <3> QED
      BY <3>1 DEF Init
  <2>2. ASSUME NEW c \in Authors PROVE ses[Current(c)] = "live"
    <3>1. cur[c] = 1 /\ 1 \in 1 .. MaxConns[c]
      BY PreviewsAssumption DEF Init
    <3>2. Current(c) \in Conns /\ Current(c)[2] = 1
      BY <3>1, ConnType DEF Current
    <3> QED
      BY <3>2 DEF Init
  <2> QED
    BY <1>2, <2>1, <2>2 DEF Wired
<1>5. Flushed
  BY DEF Init, Flushed
<1> QED
  BY <1>1, <1>2, <1>3, <1>4, <1>5 DEF WatchInv, Ready, Ended, Followed

LEMMA WatchNext == WatchInv /\ [Next]_vars => WatchInv'
<1> SUFFICES ASSUME WatchInv, [Next]_vars PROVE WatchInv'
  OBVIOUS
<1>0. Ready /\ Ended /\ Followed /\ PreviewInv /\ Owned /\ Wired /\ Flushed
  BY DEF WatchInv, Ready
<1>1. Ready'
  BY <1>0, InvNext, OwnedNext, WiredNext, FlushedNext DEF Ready
<1>2. CASE UNCHANGED vars
  <2>1. UNCHANGED <<status, sent, cur, link, queue, up, ses, rx, previews, spotty>>
    BY <1>2 DEF vars, author, viewer
  <2>2. \A s \in Strokes : Unmoved(s) /\ Unseen(s)
    BY <2>1 DEF Unmoved, Unseen, Kept, Sent, Coming, Shown, OldLive, Current
  <2>3. Committed' = Committed /\ Committed \subseteq Strokes
    BY <2>1 DEF Committed
  <2>4. Ended'
    BY <1>0, <2>1, <2>2, <2>3, StillEnded DEF Ended
  <2>5. Followed'
    BY <1>0, <2>1, <2>2, StillFollowed DEF Followed, Unmoved
  <2> QED
    BY <1>1, <2>4, <2>5 DEF WatchInv
<1>3. CASE Next
  <2>1. Ended' /\ Followed'
    BY <1>0, <1>3, DrawWatched, NetWatched, SessionWatched, ViewerWatched DEF Next
  <2> QED
    BY <1>1, <2>1 DEF WatchInv
<1> QED
  BY <1>2, <1>3

\* When everything has arrived, nothing is under way.
LEMMA SettledIs ==
  ASSUME Ready, NEW c \in Authors, Settled(c), NEW s \in Strokes, AuthorOf[s] = c
  PROVE  ~OldLive(c) /\ Coming(s) = <<>> /\ Sent(s) = <<>>
<1>1. Current(c) \in Conns /\ Current(c)[1] = c
  BY ReadyTypes
<1>2. rx = <<>> /\ up[Current(c)] = <<>> /\ ~OldLive(c)
  BY <1>1 DEF Settled, OldLive
<1> QED
  BY <1>2 DEF Coming, Sent, Marks, RxMarks

\* The README's promise that a stroke is watched while it is drawn, and
\* handle_server's three ways of ending that (an Add, a pointer that moves, a
\* peer that leaves): whatever the order in which deltas, commits, outboxes and
\* the ends of old sessions arrive, a stroke that is over leaves nothing behind.
THEOREM NoGhostEver == Spec => []NoGhost
<1>1. WatchInv => NoGhost
  <2> SUFFICES ASSUME WatchInv, NEW c \in Authors, Settled(c), NEW s \in (Shown \cap Mine(c)) \ spotty
               PROVE  status[s] \in {"open", "cancelled"}
    BY DEF NoGhost
  <2>1. Ready /\ s \in Strokes /\ AuthorOf[s] = c
    BY DEF WatchInv, Mine
  <2>2. ~OldLive(c) /\ ~Cut(Coming(s)) /\ ~Cut(Sent(s))
    BY <2>1, SettledIs, NoMarks
  <2>3. s \notin Committed
    BY <2>1, <2>2 DEF WatchInv, Ended, EndedOf
  <2>4. s \in Begun /\ status[s] \in {"new", "open", "drawn", "cancelled", "erased"}
    BY <2>1 DEF Ready, PreviewInv, TypeOK
  <2> QED
    BY <2>1, <2>3, <2>4 DEF Begun, Committed
<1> QED
  BY <1>1, WatchInit, WatchNext, PTL DEF Spec

\* StrokeDelta::apply_to at the viewer: what it has folded is what its author has
\* drawn, all of it, once and in order, whatever others do meanwhile.
THEOREM AlwaysFollows == Spec => []FollowsTheDrawing
<1>1. WatchInv => FollowsTheDrawing
  <2> SUFFICES ASSUME WatchInv, NEW c \in Authors, Settled(c), NEW s \in Open(c) \ spotty
               PROVE  /\ s \in Shown
                      /\ previews[s] = IF s \in Freehand THEN [i \in 1 .. sent[s] |-> i] ELSE <<sent[s]>>
    BY DEF FollowsTheDrawing
  <2>1. Ready /\ s \in Strokes /\ AuthorOf[s] = c /\ status[s] = "open" /\ sent[s] >= 1 /\ sent[s] \in Nat
    BY DEF WatchInv, Mine, Open, Ready, Wired, PreviewInv, LinkType
  <2>2. ~OldLive(c) /\ Coming(s) = <<>> /\ Sent(s) = <<>>
    BY <2>1, SettledIs
  <2>3. FollowedOf(s)
    BY <2>1, <2>2 DEF WatchInv, Followed
  <2>4. PICK h \in 0 .. sent[s] : \E r \in h .. sent[s] : FollowedAt(s, h, r)
    BY <2>3 DEF FollowedOf
  <2>5. PICK r \in h .. sent[s] : FollowedAt(s, h, r)
    BY <2>4
  <2>6. h = r /\ r = sent[s]
    <3>1. h \in Nat /\ r \in Nat /\ h <= r /\ r <= sent[s]
      BY <2>1
    <3> QED
      BY <2>1, <2>2, <2>5, <3>1, NoMarks DEF FollowedAt
  <2> QED
    BY <2>1, <2>5, <2>6 DEF FollowedAt, Whole
<1> QED
  BY <1>1, WatchInit, WatchNext, PTL DEF Spec
=============================================================================
