------------------------------ MODULE Previews ------------------------------
(***************************************************************************)
(* Strokes being watched while they are drawn: the StrokeDelta and Cursor  *)
(* messages of their authors, the sessions that pass them on, and the      *)
(* previews map of one client that watches (client/src/app.rs).            *)
(*                                                                         *)
(* An author may reconnect while the server still runs its old session.    *)
(* The viewer may lag behind the broadcast channel, and leave and come     *)
(* back.  Its socket and event queue keep the order of what the session    *)
(* writes and nothing depends on when it looks, so a frame that is relayed *)
(* is handled in the same step.  A stroke goes one way here: it is drawn,  *)
(* then perhaps erased, so its registers are a number that only grows.     *)
(***************************************************************************)
EXTENDS Integers, Sequences, Functions

CONSTANTS
  Authors, Strokes,
  AuthorOf,    \* AuthorOf[s]: Stroke.client_id
  Freehand,    \* strokes whose deltas append; those of the others replace
  MaxDeltas,   \* MaxDeltas[s], bound: deltas the author sends of s
  MaxConns,    \* MaxConns[c], bound: connections c makes
  MaxJoins,    \* bound: times the viewer comes back
  MaxSent,     \* bound: messages of an author waiting to be sent or handled
  Capacity     \* BROADCAST_CAPACITY

ASSUME PreviewsAssumption ==
  /\ AuthorOf \in [Strokes -> Authors]
  /\ Freehand \subseteq Strokes
  /\ MaxDeltas \in [Strokes -> Nat \ {0}]
  /\ MaxSent \in Nat \ {0} /\ Capacity \in Nat \ {0}
  /\ MaxConns \in [Authors -> Nat \ {0}]
  /\ MaxJoins \in Nat

Conns == UNION {{c} \X (1 .. MaxConns[c]) : c \in Authors}

VARIABLES
  status,    \* status[s]: what its author has done with it
  sent,      \* sent[s]: deltas its author has made of it
  cur,       \* cur[c]: the author's latest connection
  link,      \* link[c]: that connection is up
  queue,     \* queue[c]: messages its network thread has not taken yet
  up,        \* up[k]: messages session k has still to handle
  ses,       \* ses[k]: where session k is
  room,      \* room[s]: what the server's document knows of s
  vses,      \* where the viewer's session is
  joins,     \* times the viewer has come back (bounded)
  rx,        \* frames the viewer's broadcast receiver retains
  lagged,    \* the channel overwrote one it had not received
  doc,       \* doc[s]: what the viewer's document knows of s
  previews,  \* previews[s]: the deltas that make up the preview, for those shown
  spotty     \* strokes of which the viewer missed something (history)

author == <<status, sent, cur, link, queue>>
viewer == <<vses, joins, rx, lagged, doc, previews, spotty>>
vars   == <<author, up, ses, room, viewer>>

\* What a document knows of a stroke.
Unknown == 0
Visible == 1
Erased  == 2
Merged(f, g) == [s \in Strokes |-> IF f[s] < g[s] THEN g[s] ELSE f[s]]

\* apply_all; a Remove is newer than the Add, whichever comes first.
Applied(f, m) ==
  [s \in Strokes |-> IF s \in m.removes THEN Erased
                     ELSE IF s \in m.adds /\ f[s] = Unknown THEN Visible ELSE f[s]]

Mine(c)  == {s \in Strokes : AuthorOf[s] = c}
Open(c)  == {s \in Mine(c) : status[s] = "open"}
Begun    == {s \in Strokes : status[s] # "new"}

Init ==
  /\ status = [s \in Strokes |-> "new"] /\ sent = [s \in Strokes |-> 0]
  /\ cur = [c \in Authors |-> 1] /\ link = [c \in Authors |-> TRUE]
  /\ queue = [c \in Authors |-> <<>>]
  /\ up = [k \in Conns |-> <<>>]
  /\ ses = [k \in Conns |-> IF k[2] = 1 THEN "live" ELSE "none"]
  /\ room = [s \in Strokes |-> Unknown] /\ doc = room
  /\ vses = "live" /\ joins = 0
  /\ rx = <<>> /\ lagged = FALSE
  /\ previews = <<>> /\ spotty = {}

-----------------------------------------------------------------------------
(* An author *)

Current(c) == <<c, cur[c]>>

\* NetHandle::send, and the network thread's sending while it is connected.
Send(c, m) ==
  IF link[c]
  THEN /\ Len(up[Current(c)]) < MaxSent
       /\ up' = [up EXCEPT ![Current(c)] = Append(@, m)] /\ queue' = queue
  ELSE /\ Len(queue[c]) < MaxSent
       /\ queue' = [queue EXCEPT ![c] = Append(@, m)] /\ up' = up

Delta(s, n)        == [type |-> "Delta", id |-> s, n |-> n]
Idle               == [type |-> "Cursor"]
Ops(adds, removes) == [type |-> "Ops", adds |-> adds, removes |-> removes]
Left               == [type |-> "Left"]

\* A drag starts, or a label is placed; the first delta goes out in that frame.
Begin(c) ==
  /\ Open(c) = {}
  /\ \E s \in Mine(c) :
       /\ status[s] = "new"
       /\ status' = [status EXCEPT ![s] = "open"]
       /\ sent' = [sent EXCEPT ![s] = 1]
       /\ spotty' = IF link[c] /\ vses = "live" THEN spotty ELSE spotty \cup {s}
       /\ Send(c, Delta(s, 1))
  /\ UNCHANGED <<cur, link, ses, room, vses, joins, rx, lagged, doc, previews>>

\* More points, another corner, more text.
Extend(c) ==
  /\ \E s \in Open(c) :
       /\ sent[s] < MaxDeltas[s]
       /\ sent' = [sent EXCEPT ![s] = @ + 1]
       /\ Send(c, Delta(s, sent[s] + 1))
  /\ UNCHANGED <<status, cur, link, ses, room, viewer>>

Commit(c) ==
  /\ \E s \in Open(c) :
       /\ status' = [status EXCEPT ![s] = "drawn"]
       /\ Send(c, Ops({s}, {}))
  /\ UNCHANGED <<sent, cur, link, ses, room, viewer>>

\* Another tool in mid-drag, a shape too small, a blank label: nothing is sent.
Cancel(c) ==
  /\ \E s \in Open(c) : status' = [status EXCEPT ![s] = "cancelled"]
  /\ UNCHANGED <<sent, cur, link, queue, up, ses, room, viewer>>

Erase(c) ==
  /\ \E s \in Mine(c) :
       /\ status[s] = "drawn"
       /\ status' = [status EXCEPT ![s] = "erased"]
       /\ Send(c, Ops({}, {s}))
  /\ UNCHANGED <<sent, cur, link, ses, room, viewer>>

\* send_cursor, in whatever frames it is due and the pointer has moved.  While the
\* author is drawing the message says so, which changes no preview: left out.
SendCursor(c) ==
  /\ link[c] /\ Open(c) = {}
  /\ Send(c, Idle)
  /\ UNCHANGED <<status, sent, cur, link, ses, room, viewer>>

\* The connection is lost: some of what was sent arrives, some is lost, and some
\* had not been taken from the user interface yet.
Break(c) ==
  /\ link[c]
  /\ link' = [link EXCEPT ![c] = FALSE]
  /\ \E i \in 0 .. Len(up[Current(c)]) : \E j \in i .. Len(up[Current(c)]) :
       /\ up' = [up EXCEPT ![Current(c)] = SubSeq(@, 1, i)]
       /\ queue' = [queue EXCEPT ![c] = SubSeq(up[Current(c)], j + 1, Len(up[Current(c)]))]
  /\ spotty' = spotty \cup Open(c)
  /\ UNCHANGED <<status, sent, cur, ses, room, vses, joins, rx, lagged, doc, previews>>

\* Ops among messages, as the one message the outbox is flushed in.
Outbox(msgs) ==
  LET ops == {m \in Range(msgs) : m.type = "Ops"} IN
    IF ops = {} THEN <<>>
    ELSE <<Ops(UNION {m.adds : m \in ops}, UNION {m.removes : m \in ops})>>

\* While it waited to reconnect the network thread has put away the ops of the
\* first messages and dropped the others; what came later is sent as it is.
Connect(c) ==
  /\ ~link[c] /\ cur[c] < MaxConns[c]
  /\ link' = [link EXCEPT ![c] = TRUE]
  /\ cur' = [cur EXCEPT ![c] = @ + 1]
  /\ ses' = [ses EXCEPT ![<<c, cur[c] + 1>>] = "live"]
  /\ \E n \in 0 .. Len(queue[c]) :
       up' = [up EXCEPT ![<<c, cur[c] + 1>>] =
                Outbox(SubSeq(queue[c], 1, n)) \o SubSeq(queue[c], n + 1, Len(queue[c]))]
  /\ queue' = [queue EXCEPT ![c] = <<>>]
  /\ UNCHANGED <<status, sent, room, viewer>>

-----------------------------------------------------------------------------
(* The server's session of connection k of an author *)

\* Mutant of Broadcast: the channel keeps all it has not delivered.
BroadcastAll(c, m) ==
  IF vses = "out" THEN UNCHANGED <<rx, lagged>>
  ELSE rx' = Append(rx, [from |-> c, msg |-> m]) /\ lagged' = lagged

\* Room::broadcast, as far as the viewer is concerned.
Broadcast(c, m) ==
  IF vses = "out" THEN UNCHANGED <<rx, lagged>>
  ELSE LET full == Len(rx) = Capacity IN
         /\ rx' = Append(IF full THEN Tail(rx) ELSE rx, [from |-> c, msg |-> m])
         /\ lagged' = (lagged \/ full)

\* What a broadcast that overwrites a frame may have been about.
Overwritten == IF vses # "out" /\ Len(rx) = Capacity THEN Begun ELSE {}

\* handle_client_message: ops are applied to the room, all is passed on.  Here
\* this is one step; Replication has the gap between the two.
Handle(k) ==
  /\ ses[k] = "live" /\ up[k] # <<>>
  /\ LET m == Head(up[k]) IN
       /\ room' = IF m.type = "Ops" THEN Applied(room, m) ELSE room
       /\ Broadcast(k[1], m)
  /\ spotty' = spotty \cup Overwritten
  /\ up' = [up EXCEPT ![k] = Tail(@)]
  /\ UNCHANGED <<author, ses, vses, joins, doc, previews>>

\* Mutant of End: nobody is told.
EndSilently(k) ==
  /\ ses[k] = "live" /\ ~(link[k[1]] /\ Current(k[1]) = k)
  /\ ses' = [ses EXCEPT ![k] = "closed"]
  /\ up' = [up EXCEPT ![k] = <<>>]
  /\ UNCHANGED <<author, room, viewer>>

\* The session of a connection that is gone ends.  PeerLeft takes away what the
\* author has sent through its next connection, too.
End(k) ==
  /\ ses[k] = "live" /\ ~(link[k[1]] /\ Current(k[1]) = k)
  /\ ses' = [ses EXCEPT ![k] = "closed"]
  /\ up' = [up EXCEPT ![k] = <<>>]
  /\ Broadcast(k[1], Left)
  /\ spotty' = spotty \cup Overwritten \cup Open(k[1])
  /\ UNCHANGED <<author, room, vses, joins, doc, previews>>

-----------------------------------------------------------------------------
(* The viewer *)

Shown == DOMAIN previews
Keep(S) == [s \in Shown \cap S |-> previews[s]]

\* Mutant of Folded: a delta replaces what there is, also of a freehand stroke.
FoldedWhole(preview, d) == <<d.n>>

\* StrokeDelta::apply_to
Folded(preview, d) == IF d.id \in Freehand THEN Append(preview, d.n) ELSE <<d.n>>

\* apply_delta: it starts a preview, which ends the author's older one, or is
\* folded into the one there is.
NewPreview(c, d) ==
  LET kept == IF d.id \in Shown THEN Shown ELSE Shown \ Mine(c) IN
    [s \in kept \cup {d.id} |->
       IF s # d.id THEN previews[s]
       ELSE Folded(IF s \in Shown THEN previews[s] ELSE <<>>, d)]

\* Mutant of Believe: an Add leaves its preview alone.
BelieveBeside(c, m) ==
  CASE m.type = "Delta"               -> IF doc[m.id] = Visible THEN previews ELSE NewPreview(c, m)
    [] m.type \in {"Cursor", "Left"} -> Keep(Strokes \ Mine(c))
    [] OTHER                          -> previews

\* Mutant of Believe: a pointer that moves takes no preview away.
BelieveStill(c, m) ==
  CASE m.type = "Delta"  -> IF doc[m.id] = Visible THEN previews ELSE NewPreview(c, m)
    [] m.type = "Left"   -> Keep(Strokes \ Mine(c))
    [] m.type = "Ops"    -> Keep(Strokes \ m.adds)
    [] m.type = "Cursor" -> previews

\* handle_server: an Add ends its preview, a Remove does not.
Believe(c, m) ==
  CASE m.type = "Delta"               -> IF doc[m.id] = Visible THEN previews ELSE NewPreview(c, m)
    [] m.type \in {"Cursor", "Left"} -> Keep(Strokes \ Mine(c))
    [] m.type = "Ops"                 -> Keep(Strokes \ m.adds)

Relay ==
  /\ vses = "live" /\ ~lagged /\ rx # <<>>
  /\ LET f == Head(rx) IN
       /\ previews' = Believe(f.from, f.msg)
       /\ doc' = IF f.msg.type = "Ops" THEN Applied(doc, f.msg) ELSE doc
  /\ rx' = Tail(rx)
  /\ UNCHANGED <<author, up, ses, room, vses, joins, lagged, spotty>>

\* Lagged: the strokes come again, the previews stay as they are.
Resync ==
  /\ vses = "live" /\ lagged
  /\ lagged' = FALSE
  /\ doc' = Merged(doc, room)
  /\ UNCHANGED <<author, up, ses, room, vses, joins, rx, previews, spotty>>

\* The viewer's connection ends: NetEvent::Disconnected.
Leave ==
  /\ vses = "live" /\ joins < MaxJoins
  /\ vses' = "out" /\ joins' = joins + 1
  /\ rx' = <<>> /\ lagged' = FALSE
  /\ previews' = <<>>
  /\ spotty' = spotty \cup Begun
  /\ UNCHANGED <<author, up, ses, room, doc>>

Subscribe ==
  /\ vses = "out"
  /\ vses' = "subscribed"
  /\ UNCHANGED <<author, up, ses, room, joins, rx, lagged, doc, previews, spotty>>

Welcome ==
  /\ vses = "subscribed"
  /\ vses' = "live"
  /\ doc' = Merged(doc, room)
  /\ previews' = <<>>
  /\ spotty' = spotty \cup Begun
  /\ UNCHANGED <<author, up, ses, room, joins, rx, lagged>>

-----------------------------------------------------------------------------
Draw(c) == Begin(c) \/ Extend(c) \/ Commit(c) \/ Cancel(c) \/ Erase(c)

Next ==
  \/ \E c \in Authors : Draw(c) \/ SendCursor(c) \/ Break(c) \/ Connect(c)
  \/ \E k \in Conns : Handle(k) \/ End(k)
  \/ Relay \/ Resync \/ Leave \/ Subscribe \/ Welcome

Spec == Init /\ [][Next]_vars

\* The server and the viewer's session go on; nobody has to draw, move the
\* pointer or reconnect.
FairSpec ==
  /\ Spec
  /\ \A k \in Conns : WF_vars(Handle(k)) /\ WF_vars(End(k))
  /\ WF_vars(Relay) /\ WF_vars(Resync) /\ WF_vars(Subscribe) /\ WF_vars(Welcome)

-----------------------------------------------------------------------------
(* Properties *)

TypeOK ==
  /\ status \in [Strokes -> {"new", "open", "drawn", "cancelled", "erased"}]
  /\ \A s \in Strokes : sent[s] \in 0 .. MaxDeltas[s]
  /\ \A c \in Authors : cur[c] \in 1 .. MaxConns[c] /\ link[c] \in BOOLEAN
  /\ ses \in [Conns -> {"none", "live", "closed"}]
  /\ {room, doc} \subseteq [Strokes -> {Unknown, Visible, Erased}]
  /\ vses \in {"out", "subscribed", "live"} /\ lagged \in BOOLEAN
  /\ Len(rx) <= Capacity
  /\ Shown \subseteq Begun /\ spotty \subseteq Begun
  /\ \A s \in Shown : previews[s] \in Seq(1 .. MaxDeltas[s])

\* A preview never covers a stroke that is on the board, except the spotty ones:
\* of which the channel dropped a frame, begun before the viewer joined again, or
\* open when their author's connection broke.
NeverTwice == \A s \in Shown \ spotty : doc[s] # Visible

\* All that author c has sent has reached the viewer, and only its latest
\* session runs.
Settled(c) ==
  /\ vses = "live" /\ ~lagged /\ rx = <<>>
  /\ \A k \in Conns : k[1] = c => up[k] = <<>>
  /\ \A k \in Conns : k[1] = c /\ ses[k] = "live" => link[c] /\ k = Current(c)

\* No preview outlives its stroke: once an author's messages have arrived, what
\* is shown of it is still being drawn, or was given up and not yet replaced;
\* also when the Add was lost with a connection or overtaken by a late delta.
NoGhost ==
  \A c \in Authors : Settled(c) =>
    \A s \in (Shown \cap Mine(c)) \ spotty : status[s] \in {"open", "cancelled"}

\* A viewer that missed nothing shows every stroke that is being drawn, all of
\* it and nothing twice: nobody else's messages take a preview away.
FollowsTheDrawing ==
  \A c \in Authors : Settled(c) =>
    \A s \in Open(c) \ spotty :
      /\ s \in Shown
      /\ previews[s] = IF s \in Freehand THEN [i \in 1 .. sent[s] |-> i] ELSE <<sent[s]>>

\* Assumption: the author moves its pointer again and again while connected and
\* not drawing, so that idle cursors, which end a preview, keep arriving.
Moving(c) == []<><<SendCursor(c)>>_vars

\* A stroke that was committed, erased or given up is not shown for ever, even to
\* a viewer that missed the frame which ended it, once that viewer keeps up.
PreviewsGo ==
  \A c \in Authors :
    Moving(c) /\ <>[]~lagged =>
      []<>(\A s \in Shown \cap Mine(c) : status[s] = "open")
=============================================================================
