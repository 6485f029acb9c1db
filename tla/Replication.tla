----------------------------- MODULE Replication -----------------------------
(***************************************************************************)
(* One room of the server and the clients that edit it: the path of an op  *)
(* from WeavedrawApp::commit (client/src/app.rs) through the network       *)
(* thread (client/src/net.rs) and the sessions (server/src/ws.rs) into the *)
(* room and its broadcast channel (server/src/room.rs), and back to every  *)
(* other client.                                                           *)
(*                                                                         *)
(* A client makes numbered connections <<c, 1>>, <<c, 2>>, ...; the server *)
(* runs one session per connection, and the session of a connection the    *)
(* client has given up may still be running when the next one starts.      *)
(* Batches of ops travel as single ops: each op of a batch is handled in   *)
(* the order the batch has, with more interleavings than the code allows.  *)
(***************************************************************************)
EXTENDS Lww, Sequences, Functions

CONSTANTS
  Author,     \* Stroke.client_id: who draws a stroke
  MaxClock,   \* bound: ops a client may stamp
  MaxConns,   \* bound: connections each client makes; all but the last may fail
  Capacity    \* BROADCAST_CAPACITY

ASSUME ReplicationAssumption ==
  /\ Author \in [Strokes -> Clients]
  /\ MaxClock \in Nat
  /\ MaxConns \in [Clients -> Nat]
  /\ Capacity \in Nat \ {0}

Conns == UNION {{c} \X (1 .. MaxConns[c]) : c \in Clients}

VARIABLES
  doc,      \* doc[c]: entries of the client's Document
  clock,    \* clock[c]: counter of its LamportClock
  pending,  \* pending[c]: ops in to_net or in the outbox, oldest first
  cur,      \* cur[c]: its latest connection, 0 before the first
  online,   \* online[c]: the net thread is inside session()
  up,       \* up[k]: ops on the socket that session k has yet to finish
  down,     \* down[c]: server messages on the socket or in from_net
  ses,      \* ses[k]: where session k of the server is
  rx,       \* rx[k]: frames its broadcast receiver retains
  lagged,   \* lagged[k]: the channel overwrote a frame k had not received
  room,     \* entries of Room.state
  issued,   \* every op ever stamped (history)
  carried   \* carried[k]: every op ever sent on connection k (history)

client == <<doc, clock, pending, issued, carried>>
link   == <<cur, online>>
server == <<ses, rx, lagged>>
vars   == <<doc, clock, pending, cur, online, up, down, ses, rx, lagged, room,
            issued, carried>>

OpsMsg   == [type : {"Ops"}, op : Op]
BoardMsg == [type : {"Snapshot"}, board : Board]   \* Welcome too
Outbound == [exclude : Clients, op : Op]

Current(c) == <<c, cur[c]>>

\* Welcome was written; from "live" on the session handles one frame or one
\* broadcast at a time.
Joined(k) == ses[k] \in {"welcomed", "live", "applying"}
\* Mutant of Subscribed: the receiver is created after the Welcome snapshot.
SubscribedLate(k) == ses[k] \in {"live", "applying"}

Subscribed(k) == ses[k] = "subscribed" \/ Joined(k)

Init ==
  /\ doc = [c \in Clients |-> Empty]
  /\ clock = [c \in Clients |-> 0]
  /\ pending = [c \in Clients |-> <<>>]
  /\ cur = [c \in Clients |-> 0]
  /\ online = [c \in Clients |-> FALSE]
  /\ up = [k \in Conns |-> <<>>]
  /\ down = [c \in Clients |-> <<>>]
  /\ ses = [k \in Conns |-> "none"]
  /\ rx = [k \in Conns |-> <<>>]
  /\ lagged = [k \in Conns |-> FALSE]
  /\ room = Empty
  /\ issued = {}
  /\ carried = [k \in Conns |-> {}]

-----------------------------------------------------------------------------
(* The user interface thread of client c. *)

\* Mutant of Tick: stamps with the clock before incrementing it.
TickBehind(c) == [counter |-> clock[c], client |-> c]

\* Mutant of Tick: every client stamps with the same id.
TickShared(c) == [counter |-> clock[c] + 1, client |-> 1]

Tick(c) == [counter |-> clock[c] + 1, client |-> c]

\* Mutant of Commit: the op is sent but not applied locally.
CommitRemote(c, op) ==
  /\ clock[c] < MaxClock
  /\ clock' = [clock EXCEPT ![c] = op.ts.counter]
  /\ pending' = [pending EXCEPT ![c] = Append(@, op)]
  /\ issued' = issued \cup {op}
  /\ UNCHANGED <<doc, link, up, down, server, room, carried>>

\* Apply a local op to the document and hand it to the network thread.
Commit(c, op) ==
  /\ clock[c] < MaxClock
  /\ clock' = [clock EXCEPT ![c] = op.ts.counter]
  /\ doc' = [doc EXCEPT ![c] = ApplyTo(@, op)]
  /\ pending' = [pending EXCEPT ![c] = Append(@, op)]
  /\ issued' = issued \cup {op}
  /\ UNCHANGED <<link, up, down, server, room, carried>>

\* A finished stroke has a fresh id.
Draw(c, s) ==
  /\ Author[s] = c
  /\ \A op \in issued : op.id # s
  /\ Commit(c, [id |-> s, kind |-> "Add", ts |-> Tick(c)])

\* The eraser hits any visible stroke; "clear" removes one's own.
Erase(c, s) ==
  /\ IsVisible(doc[c], s)
  /\ Commit(c, [id |-> s, kind |-> "Remove", ts |-> Tick(c)])

\* Undo or redo of an op of one's own; which one is on top of the two stacks
\* is left open.
Invert(c) ==
  \E op \in issued :
    /\ op.ts.client = c
    /\ CanInvert(doc[c], op)
    /\ Commit(c, Inverted(op, Tick(c)))

\* Mutant of Stamps: the clock does not observe a merged snapshot.
StampsOfOps(m) == IF m.type = "Ops" THEN {m.op.ts.counter} ELSE {}

Stamps(m) == IF m.type = "Ops" THEN {m.op.ts.counter} ELSE Counters(m.board)
Absorb(b, m) == IF m.type = "Ops" THEN ApplyTo(b, m.op) ELSE MergeInto(b, m.board)

\* Mutant of Observed: nothing is observed.
ObservedNever(clk, stamps, n) == n = clk

\* The larger of the clock and the stamps it observes.
Observed(clk, stamps, n) ==
  n \in {clk} \cup stamps /\ \A m \in {clk} \cup stamps : m <= n

\* handle_server: Ops observes every op, Welcome and Snapshot the latest stamp.
Receive(c) ==
  /\ down[c] # <<>>
  /\ \E n \in {clock[c]} \cup Stamps(Head(down[c])) :
       /\ Observed(clock[c], Stamps(Head(down[c])), n)
       /\ clock' = [clock EXCEPT ![c] = n]
  /\ doc' = [doc EXCEPT ![c] = Absorb(@, Head(down[c]))]
  /\ down' = [down EXCEPT ![c] = Tail(@)]
  /\ UNCHANGED <<pending, link, up, server, room, issued, carried>>

-----------------------------------------------------------------------------
(* The network thread of client c. *)

\* Mutant of Connect: a reconnection begins with an empty outbox.
ConnectFresh(c) ==
  /\ ~online[c]
  /\ cur[c] < MaxConns[c]
  /\ cur' = [cur EXCEPT ![c] = @ + 1]
  /\ online' = [online EXCEPT ![c] = TRUE]
  /\ ses' = [ses EXCEPT ![<<c, cur[c] + 1>>] = "hello"]
  /\ pending' = IF cur[c] > 0 THEN [pending EXCEPT ![c] = <<>>] ELSE pending
  /\ UNCHANGED <<doc, clock, issued, carried, up, down, rx, lagged, room>>

\* The socket is up and Hello is on its way.
Connect(c) ==
  /\ ~online[c]
  /\ cur[c] < MaxConns[c]
  /\ cur' = [cur EXCEPT ![c] = @ + 1]
  /\ online' = [online EXCEPT ![c] = TRUE]
  /\ ses' = [ses EXCEPT ![<<c, cur[c] + 1>>] = "hello"]
  /\ UNCHANGED <<client, up, down, rx, lagged, room>>

\* Mutant of Send: nothing is replayed once a connection has failed.
SendOnce(c) ==
  /\ online[c]
  /\ pending[c] # <<>>
  /\ cur[c] = 1
  /\ up' = [up EXCEPT ![Current(c)] = Append(@, Head(pending[c]))]
  /\ pending' = [pending EXCEPT ![c] = Tail(@)]
  /\ carried' = [carried EXCEPT ![Current(c)] = @ \cup {Head(pending[c])}]
  /\ UNCHANGED <<doc, clock, link, down, server, room, issued>>

\* The outbox straight after Hello, then to_net, in the order committed.
Send(c) ==
  /\ online[c]
  /\ pending[c] # <<>>
  /\ up' = [up EXCEPT ![Current(c)] = Append(@, Head(pending[c]))]
  /\ pending' = [pending EXCEPT ![c] = Tail(@)]
  /\ carried' = [carried EXCEPT ![Current(c)] = @ \cup {Head(pending[c])}]
  /\ UNCHANGED <<doc, clock, link, down, server, room, issued>>

\* session() returns.  What had reached from_net is still handled, the rest
\* of what the server sent is gone; what was sent is up to the server.
Drop(c) ==
  /\ online' = [online EXCEPT ![c] = FALSE]
  /\ \E n \in 0 .. Len(down[c]) : down' = [down EXCEPT ![c] = SubSeq(@, 1, n)]
  /\ UNCHANGED <<client, cur, up, server, room>>

Break(c)    == online[c] /\ cur[c] < MaxConns[c] /\ Drop(c)
SeeClose(c) == online[c] /\ ses[Current(c)] = "closed" /\ Drop(c)

-----------------------------------------------------------------------------
(* The session of connection k on the server. *)

\* A write to a socket the client has given up goes nowhere.
Reaches(k) == online[k[1]] /\ cur[k[1]] = k[2]
Write(k, m) ==
  down' = IF Reaches(k) THEN [down EXCEPT ![k[1]] = Append(@, m)] ELSE down

Snapshot == [type |-> "Snapshot", board |-> room]

\* Hello was read: subscribe before the snapshot is taken.
Subscribe(k) ==
  /\ ses[k] = "hello"
  /\ ses' = [ses EXCEPT ![k] = "subscribed"]
  /\ UNCHANGED <<client, link, up, down, rx, lagged, room>>

\* Mutant of Welcome: the snapshot is left out.
WelcomeEmpty(k) ==
  /\ ses[k] = "subscribed"
  /\ ses' = [ses EXCEPT ![k] = "welcomed"]
  /\ UNCHANGED <<client, link, up, down, rx, lagged, room>>

Welcome(k) ==
  /\ ses[k] = "subscribed"
  /\ ses' = [ses EXCEPT ![k] = "welcomed"]
  /\ Write(k, Snapshot)
  /\ UNCHANGED <<client, link, up, rx, lagged, room>>

\* The send was awaited: the main loop starts.
Enter(k) ==
  /\ ses[k] = "welcomed"
  /\ ses' = [ses EXCEPT ![k] = "live"]
  /\ UNCHANGED <<client, link, up, down, rx, lagged, room>>

\* handle_client_message, Ops: apply under the write lock ...
Apply(k) ==
  /\ ses[k] = "live"
  /\ up[k] # <<>>
  /\ room' = ApplyTo(room, Head(up[k]))
  /\ ses' = [ses EXCEPT ![k] = "applying"]
  /\ UNCHANGED <<client, link, up, down, rx, lagged>>

\* A full channel overwrites its oldest frame; a receiver still behind it lags.
Full(j) == Len(rx[j]) = Capacity

\* ... then fan out to every subscriber, the author's own receiver included.
Broadcast(k) ==
  /\ ses[k] = "applying"
  /\ LET out == [exclude |-> k[1], op |-> Head(up[k])] IN
       rx' = [j \in Conns |->
                IF Subscribed(j)
                THEN Append(IF Full(j) THEN Tail(rx[j]) ELSE rx[j], out)
                ELSE rx[j]]
  /\ lagged' = [j \in Conns |-> lagged[j] \/ (Subscribed(j) /\ Full(j))]
  /\ up' = [up EXCEPT ![k] = Tail(@)]
  /\ ses' = [ses EXCEPT ![k] = "live"]
  /\ UNCHANGED <<client, link, down, room>>

\* Mutant of Resync: a lagged receiver just goes on.
ResyncSkips(k) ==
  /\ ses[k] = "live"
  /\ lagged[k]
  /\ lagged' = [lagged EXCEPT ![k] = FALSE]
  /\ UNCHANGED <<client, link, up, down, ses, rx, room>>

\* rx.recv(): Lagged comes first and is answered with the full state.
Resync(k) ==
  /\ ses[k] = "live"
  /\ lagged[k]
  /\ lagged' = [lagged EXCEPT ![k] = FALSE]
  /\ Write(k, Snapshot)
  /\ UNCHANGED <<client, link, up, ses, rx, room>>

Relay(k) ==
  /\ ses[k] = "live"
  /\ ~lagged[k]
  /\ rx[k] # <<>>
  /\ rx' = [rx EXCEPT ![k] = Tail(@)]
  /\ IF Head(rx[k]).exclude # k[1]
     THEN Write(k, [type |-> "Ops", op |-> Head(rx[k]).op])
     ELSE down' = down
  /\ UNCHANGED <<client, link, up, ses, lagged, room>>

\* session() returns: a rejection, an error, the client's close or a shutdown.
\* Bound: the last connection of a client does not fail.
Close(k) ==
  /\ ses[k] \in {"hello", "subscribed", "welcomed", "live"}
  /\ k[2] < MaxConns[k[1]]
  /\ ses' = [ses EXCEPT ![k] = "closed"]
  /\ up' = [up EXCEPT ![k] = <<>>]
  /\ rx' = [rx EXCEPT ![k] = <<>>]
  /\ lagged' = [lagged EXCEPT ![k] = FALSE]
  /\ UNCHANGED <<client, link, down, room>>

-----------------------------------------------------------------------------
Edit(c) == Invert(c) \/ \E s \in Strokes : Draw(c, s) \/ Erase(c, s)
Net(c)  == Receive(c) \/ Connect(c) \/ Send(c) \/ SeeClose(c)
Serve(k) ==
  \/ Subscribe(k) \/ Welcome(k) \/ Enter(k)
  \/ Apply(k) \/ Broadcast(k) \/ Resync(k) \/ Relay(k)

Next ==
  \/ \E c \in Clients : Edit(c) \/ Net(c) \/ Break(c)
  \/ \E k \in Conns : Serve(k) \/ Close(k)

Spec == Init /\ [][Next]_vars

\* Every thread and task keeps running; select! picks among ready branches at
\* random, so none starves for good.  Nobody has to edit, and nothing has to fail.
Fairness ==
  /\ \A c \in Clients :
       /\ WF_vars(Receive(c)) /\ WF_vars(Connect(c))
       /\ WF_vars(Send(c)) /\ WF_vars(SeeClose(c))
  /\ \A k \in Conns :
       /\ WF_vars(Subscribe(k)) /\ WF_vars(Welcome(k)) /\ WF_vars(Enter(k))
       /\ WF_vars(Apply(k)) /\ WF_vars(Broadcast(k))
       /\ WF_vars(Resync(k)) /\ WF_vars(Relay(k))

FairSpec == Spec /\ Fairness

-----------------------------------------------------------------------------
(* Properties *)

SesStates == {"none", "hello", "subscribed", "welcomed", "live", "applying", "closed"}

TypeOK ==
  /\ doc \in [Clients -> Board]
  /\ clock \in [Clients -> Nat]
  /\ pending \in [Clients -> Seq(Op)]
  /\ cur \in [Clients -> Nat]
  /\ online \in [Clients -> BOOLEAN]
  /\ up \in [Conns -> Seq(Op)]
  /\ down \in [Clients -> Seq(OpsMsg \cup BoardMsg)]
  /\ ses \in [Conns -> SesStates]
  /\ rx \in [Conns -> Seq(Outbound)]
  /\ lagged \in [Conns -> BOOLEAN]
  /\ room \in Board
  /\ issued \in SUBSET Op
  /\ carried \in [Conns -> SUBSET Op]

\* The clock of a client is never behind a stamp in its document, whichever
\* of broadcast ops, resync and Welcome brought the stamp there.
ClockCovers ==
  \A c \in Clients, x \in Slots : doc[c][x].counter <= clock[c]

\* Stamps are unique in the whole system ("makes every timestamp in the
\* system unique"), through reconnections and clocks that observe each other.
StampsUnique == \A a, b \in issued : a.ts = b.ts => a = b

\* A session is numbered before it runs, and holds the op it is applying.
Numbering ==
  /\ \A c \in Clients : cur[c] <= MaxConns[c] /\ (online[c] => cur[c] > 0)
  /\ \A k \in Conns : k[2] > cur[k[1]] => ses[k] = "none"
  /\ \A k \in Conns : ses[k] = "applying" => up[k] # <<>>

Knows(c, op) == AtMost(op.ts, doc[c][SlotOf(op)])

\* Leaving the author out of a broadcast withholds nothing from it: every op
\* under way is known to the client it will not be sent to, even when that
\* client has reconnected since.
AuthorKnows ==
  /\ \A c \in Clients : \A op \in Range(pending[c]) : Knows(c, op)
  /\ \A k \in Conns : \A op \in Range(up[k]) : Knows(k[1], op)
  /\ \A k \in Conns : \A o \in Range(rx[k]) : Knows(o.exclude, o.op)

Sourced(m) == IF m.type = "Ops" THEN m.op \in issued ELSE Genuine(m.board, issued)

\* Nothing is made up: whatever a document, the room, a queue or a snapshot
\* under way holds was issued by a client, for that stroke and that register.
NothingMadeUp ==
  /\ Genuine(room, issued)
  /\ \A c \in Clients : /\ Genuine(doc[c], issued)
                         /\ Range(pending[c]) \subseteq issued
                         /\ \A m \in Range(down[c]) : Sourced(m)
  /\ \A k \in Conns : /\ Range(up[k]) \subseteq issued
                       /\ \A o \in Range(rx[k]) : o.op \in issued

\* m will bring slot x up to t when it is received.
Brings(m, x, t) ==
  IF m.type = "Ops" THEN SlotOf(m.op) = x /\ AtMost(t, m.op.ts)
                    ELSE AtMost(t, m.board[x])

\* An op some session has applied and will broadcast.
Applied(x, t) ==
  \E k \in Conns : /\ ses[k] = "applying"
                   /\ SlotOf(Head(up[k])) = x
                   /\ AtMost(t, Head(up[k]).ts)

\* What the room knows of slot x is known to c, or on its way to it.
OnItsWay(c, x) ==
  \/ AtMost(room[x], doc[c][x])
  \/ lagged[Current(c)]
  \/ \E m \in Range(down[c]) : Brings(m, x, room[x])
  \/ \E o \in Range(rx[Current(c)]) :
       o.exclude # c /\ SlotOf(o.op) = x /\ AtMost(room[x], o.op.ts)
  \/ Applied(x, room[x])

InSync(c) == cur[c] > 0 /\ online[c] /\ Joined(Current(c))

\* Nothing slips between the snapshot of Welcome and the broadcasts that
\* follow, nor past a full channel: for a joined client, whatever the room
\* holds is in its document or on its way.
NothingSlips == \A c \in Clients : InSync(c) => \A x \in Slots : OnItsWay(c, x)

\* The inductive invariant behind NothingSlips.
SyncInv == TypeOK /\ Numbering /\ AuthorKnows /\ NothingSlips

\* Nothing is left to relay to client c, nor to be broadcast.
Drained(c) ==
  /\ InSync(c) /\ down[c] = <<>>
  /\ rx[Current(c)] = <<>> /\ ~lagged[Current(c)]
  /\ \A k \in Conns : ses[k] # "applying"

\* A joined client that has handled all there is knows all the room knows.
DrainedKnowsRoom == \A c \in Clients : Drained(c) => Below(room, doc[c])

AtRoom(op) == AtMost(op.ts, room[SlotOf(op)])

\* op was sent on connection k of its author.
SentOn(op, k) == k[1] = op.ts.client /\ op \in carried[k]

\* An op leaves the client's queue only for the socket and the socket only
\* for the room.  It is lost with the session of the very connection it was
\* sent on, never otherwise: what was drawn after that session had ended is
\* in the outbox and survives the reconnection.
NothingLost ==
  \A op \in issued :
    \/ AtRoom(op)
    \/ op \in Range(pending[op.ts.client])
    \/ \E k \in Conns : SentOn(op, k) /\ (op \in Range(up[k]) \/ ses[k] = "closed")

\* Sent on a connection whose session ended before it came to the op.
Lost(op) == ~AtRoom(op) /\ \E k \in Conns : SentOn(op, k) /\ ses[k] = "closed"

\* "Strokes drawn while offline are queued and replayed": every op reaches
\* the room in the end, but for those sent on a connection whose session ended.
EventuallyDelivered == <>[](\A op \in issued : AtRoom(op) \/ Lost(op))

\* "Local operations always sort after everything already known": what the
\* user just did shows on the user's own board, whatever arrived before it.
LocalEditShows ==
  [][\A op \in issued' \ issued :
       IsVisible(doc'[op.ts.client], op.id) <=> op.kind = "Add"]_vars

\* No replica ever forgets: a late, repeated or stale message, a resync or a
\* rejoin never takes a register back.
NeverForgets ==
  [][Below(room, room') /\ \A c \in Clients : Below(doc[c], doc'[c])]_vars

\* Whatever fails on the way, every client ends up with all the room knows.
EventuallyCaughtUp == \A c \in Clients : <>[]Below(room, doc[c])

\* Strong eventual consistency: where no op was lost all replicas end up equal,
\* whatever was lagged behind, reconnected to or drawn in between.
Converges ==
  <>[]((\A op \in issued : ~Lost(op)) => \A c \in Clients : doc[c] = room)

\* The clients' documents and the room are replicas of one shared board.
Abstract == INSTANCE SharedBoard WITH view <- doc, hub <- room, log <- issued
Refines  == Abstract!Spec
=============================================================================
