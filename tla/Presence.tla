------------------------------ MODULE Presence ------------------------------
(***************************************************************************)
(* Who is in a room: the peers map of server/src/room.rs, the sessions of  *)
(* server/src/ws.rs that join, announce, move and leave it, and what each  *)
(* client believes (WeavedrawApp.peers in client/src/app.rs).              *)
(*                                                                         *)
(* Connections are numbered as in Replication: a client that is back may   *)
(* have a session while the server still runs the previous one.  Cursors   *)
(* are numbers: 0 on joining, then one per move.                           *)
(***************************************************************************)
EXTENDS Integers, FiniteSets, Sequences, Functions

CONSTANTS
  Clients,
  MaxConns,   \* bound: connections each client makes
  MaxMoves,   \* bound: cursor messages each client sends
  MaxPeers,   \* Config.max_peers
  Capacity    \* BROADCAST_CAPACITY

ASSUME PresenceAssumption ==
  /\ IsFiniteSet(Clients)
  /\ MaxConns \in [Clients -> Nat]
  /\ MaxMoves \in Nat
  /\ MaxPeers \in Nat
  /\ Capacity \in Nat \ {0}

Conns == UNION {{c} \X (1 .. MaxConns[c]) : c \in Clients}

VARIABLES
  cur,      \* cur[c]: the client's latest connection, 0 before the first
  online,   \* online[c]: its network thread is inside session()
  seen,     \* seen[c]: its peers map, from clients to their cursors
  down,     \* down[c]: events under way to its user interface
  moves,    \* moves[c]: cursor messages the server has handled for it
  ses,      \* ses[k]: where session k is
  cursor,   \* cursor[k]: the session's own copy of the cursor
  rx,       \* rx[k]: frames its broadcast receiver retains
  lagged,   \* lagged[k]: the channel overwrote a frame it had not received
  peers,    \* Room.peers, from clients to cursors
  missed,   \* running sessions that have lagged (history)
  muddled   \* clients listed by a session that never ran, or by two at a time (history)

client == <<cur, online, seen, moves>>
server == <<ses, cursor, rx, lagged, missed>>
vars   == <<cur, online, seen, down, moves, ses, cursor, rx, lagged, peers, missed, muddled>>

Spots == 0 .. MaxMoves
Peers == UNION {[D -> Spots] : D \in SUBSET Clients}
None  == [c \in {} |-> 0]

Put(f, c, v) == [d \in DOMAIN f \cup {c} |-> IF d = c THEN v ELSE f[d]]
Drop(f, c)   == Restrict(f, DOMAIN f \ {c})

Current(c) == <<c, cur[c]>>

\* In the room's map, as far as the session itself is concerned.
Present(k) == ses[k] \in {"joined", "greeted", "live", "moving"}
\* Something is still to be announced about its client.
Unsettled(k) == ses[k] \in {"joined", "greeted", "moving", "leaving"}
\* Mutant of Subscribed: the session subscribes when its main loop begins.
SubscribedLate(k) == ses[k] \in {"live", "moving"}

\* Its receiver is still read, or will be.
Subscribed(k) == ses[k] = "subscribed" \/ Present(k)

Init ==
  /\ cur = [c \in Clients |-> 0]
  /\ online = [c \in Clients |-> FALSE]
  /\ seen = [c \in Clients |-> None]
  /\ down = [c \in Clients |-> <<>>]
  /\ moves = [c \in Clients |-> 0]
  /\ ses = [k \in Conns |-> "none"]
  /\ cursor = [k \in Conns |-> 0]
  /\ rx = [k \in Conns |-> <<>>]
  /\ lagged = [k \in Conns |-> FALSE]
  /\ peers = None
  /\ missed = {}
  /\ muddled = {}

-----------------------------------------------------------------------------
(* The client *)

Connect(c) ==
  /\ ~online[c]
  /\ cur[c] < MaxConns[c]
  /\ cur' = [cur EXCEPT ![c] = @ + 1]
  /\ online' = [online EXCEPT ![c] = TRUE]
  /\ ses' = [ses EXCEPT ![<<c, cur[c] + 1>>] = "hello"]
  /\ UNCHANGED <<seen, down, moves, cursor, rx, lagged, peers, missed, muddled>>

\* session() returns: what had arrived is handled, then Disconnected.  The
\* connection broke, or the server has closed it.
Disconnect(c) ==
  /\ online[c]
  /\ online' = [online EXCEPT ![c] = FALSE]
  /\ \E n \in 0 .. Len(down[c]) :
       down' = [down EXCEPT ![c] = Append(SubSeq(@, 1, n), [type |-> "Disconnected"])]
  /\ UNCHANGED <<cur, seen, moves, server, peers, muddled>>

\* handle_net and handle_server.
Believe(f, me, m) ==
  CASE m.type = "Welcome"              -> m.peers
    [] m.type \in {"Joined", "Cursor"} -> IF m.who = me THEN f ELSE Put(f, m.who, m.cursor)
    [] m.type = "Left"                 -> Drop(f, m.who)
    [] m.type = "Disconnected"         -> None
    [] OTHER                           -> f

Receive(c) ==
  /\ down[c] # <<>>
  /\ seen' = [seen EXCEPT ![c] = Believe(@, c, Head(down[c]))]
  /\ down' = [down EXCEPT ![c] = Tail(@)]
  /\ UNCHANGED <<cur, online, moves, server, peers, muddled>>

-----------------------------------------------------------------------------
(* The session of connection k *)

Reaches(k) == online[k[1]] /\ cur[k[1]] = k[2]
Write(k, m) ==
  down' = IF Reaches(k) THEN [down EXCEPT ![k[1]] = Append(@, m)] ELSE down

Full(j) == Len(rx[j]) = Capacity

\* What session k still holds is never read again.
Unread(k) ==
  /\ cursor' = [cursor EXCEPT ![k] = 0]
  /\ rx' = [rx EXCEPT ![k] = <<>>]
  /\ lagged' = [lagged EXCEPT ![k] = FALSE]
  /\ missed' = missed \ {k}

\* Room::broadcast to every subscriber; k goes on to state next.
Broadcast(k, m, next) ==
  /\ rx' = [j \in Conns |->
              IF Subscribed(j)
              THEN Append(IF Full(j) THEN Tail(rx[j]) ELSE rx[j], [exclude |-> k[1], msg |-> m])
              ELSE rx[j]]
  /\ lagged' = [j \in Conns |-> lagged[j] \/ (Subscribed(j) /\ Full(j))]
  /\ missed' = missed \cup {j \in Conns : Subscribed(j) /\ Full(j)}
  /\ ses' = [ses EXCEPT ![k] = next]

\* The Hello is refused, or none comes in time.
Refuse(k) ==
  /\ ses[k] = "hello"
  /\ ses' = [ses EXCEPT ![k] = "closed"]
  /\ UNCHANGED <<client, down, cursor, rx, lagged, peers, missed, muddled>>

Subscribe(k) ==
  /\ ses[k] = "hello"
  /\ ses' = [ses EXCEPT ![k] = "subscribed"]
  /\ UNCHANGED <<client, down, cursor, rx, lagged, peers, missed, muddled>>

\* Mutant of HasRoom: one client too many.
HasRoomForOneMore(c) == Cardinality(DOMAIN peers) <= MaxPeers \/ c \in DOMAIN peers

\* A client already in the map is let in again, whatever the room's size.
HasRoom(c) == Cardinality(DOMAIN peers) < MaxPeers \/ c \in DOMAIN peers

Doubled(k) == \E j \in Conns \ {k} : j[1] = k[1] /\ (Present(j) \/ ses[j] = "leaving")

\* Mutant of Join: the map has an entry per connection.
JoinByConnection(k) ==
  /\ ses[k] = "subscribed"
  /\ HasRoom(k[1])
  /\ ses' = [ses EXCEPT ![k] = "joined"]
  /\ peers' = Put(peers, k, cursor[k])
  /\ muddled' = IF Doubled(k) THEN muddled \cup {k[1]} ELSE muddled
  /\ UNCHANGED <<client, down, cursor, rx, lagged, missed>>

Join(k) ==
  /\ ses[k] = "subscribed"
  /\ HasRoom(k[1])
  /\ ses' = [ses EXCEPT ![k] = "joined"]
  /\ peers' = Put(peers, k[1], cursor[k])
  /\ muddled' = IF Doubled(k) THEN muddled \cup {k[1]} ELSE muddled
  /\ UNCHANGED <<client, down, cursor, rx, lagged, missed>>

\* Rejection::RoomFull.
TurnAway(k) ==
  /\ ses[k] = "subscribed"
  /\ ~HasRoom(k[1])
  /\ ses' = [ses EXCEPT ![k] = "closed"]
  /\ Unread(k)
  /\ UNCHANGED <<client, down, peers, muddled>>

\* Welcome carries peers_except(client_id).
Greet(k) ==
  /\ ses[k] = "joined"
  /\ ses' = [ses EXCEPT ![k] = "greeted"]
  /\ Write(k, [type |-> "Welcome", peers |-> Drop(peers, k[1])])
  /\ UNCHANGED <<client, cursor, rx, lagged, peers, missed, muddled>>

\* Writing Welcome fails: the session returns at once, without leave.
GreetFails(k) ==
  /\ ses[k] = "joined"
  /\ ~Reaches(k)
  /\ ses' = [ses EXCEPT ![k] = "closed"]
  /\ Unread(k)
  /\ muddled' = muddled \cup {k[1]}
  /\ UNCHANGED <<client, down, peers>>

Announce(k) ==
  /\ ses[k] = "greeted"
  /\ Broadcast(k, [type |-> "Joined", who |-> k[1], cursor |-> cursor[k]], "live")
  /\ UNCHANGED <<client, down, cursor, peers, muddled>>

\* A Cursor message: update_cursor first ...
Move(k) ==
  /\ ses[k] = "live"
  /\ moves[k[1]] < MaxMoves
  /\ moves' = [moves EXCEPT ![k[1]] = @ + 1]
  /\ cursor' = [cursor EXCEPT ![k] = moves'[k[1]]]
  /\ peers' = IF k[1] \in DOMAIN peers THEN [peers EXCEPT ![k[1]] = moves'[k[1]]] ELSE peers
  /\ ses' = [ses EXCEPT ![k] = "moving"]
  /\ UNCHANGED <<cur, online, seen, down, rx, lagged, missed, muddled>>

\* ... then the broadcast.
Tell(k) ==
  /\ ses[k] = "moving"
  /\ Broadcast(k, [type |-> "Cursor", who |-> k[1], cursor |-> cursor[k]], "live")
  /\ UNCHANGED <<client, down, cursor, peers, muddled>>

Relay(k) ==
  /\ ses[k] = "live"
  /\ ~lagged[k]
  /\ rx[k] # <<>>
  /\ rx' = [rx EXCEPT ![k] = Tail(@)]
  /\ IF Head(rx[k]).exclude # k[1] THEN Write(k, Head(rx[k]).msg) ELSE down' = down
  /\ UNCHANGED <<client, ses, cursor, lagged, peers, missed, muddled>>

\* Lagged is answered with the strokes, not with the peers.
Resync(k) ==
  /\ ses[k] = "live"
  /\ lagged[k]
  /\ lagged' = [lagged EXCEPT ![k] = FALSE]
  /\ Write(k, [type |-> "Snapshot"])
  /\ UNCHANGED <<client, ses, cursor, rx, peers, missed, muddled>>

\* Mutant of Leave: the map is left as it is.
LeaveListed(k) ==
  /\ ses[k] = "live"
  /\ ses' = [ses EXCEPT ![k] = "leaving"]
  /\ Unread(k)
  /\ UNCHANGED <<client, down, peers, muddled>>

\* The main loop ends, for whatever reason: leave ...
Leave(k) ==
  /\ ses[k] = "live"
  /\ ses' = [ses EXCEPT ![k] = "leaving"]
  /\ peers' = Drop(peers, k[1])
  /\ Unread(k)
  /\ UNCHANGED <<client, down, muddled>>

\* ... and tell the others.
Depart(k) ==
  /\ ses[k] = "leaving"
  /\ Broadcast(k, [type |-> "Left", who |-> k[1]], "closed")
  /\ UNCHANGED <<client, down, cursor, peers, muddled>>

-----------------------------------------------------------------------------
Step(k) ==
  \/ Refuse(k) \/ Subscribe(k) \/ Join(k) \/ TurnAway(k) \/ Greet(k) \/ GreetFails(k)
  \/ Announce(k) \/ Move(k) \/ Tell(k) \/ Relay(k) \/ Resync(k) \/ Leave(k) \/ Depart(k)

Next ==
  \/ \E c \in Clients : Connect(c) \/ Disconnect(c) \/ Receive(c)
  \/ \E k \in Conns : Step(k)

Spec == Init /\ [][Next]_vars

-----------------------------------------------------------------------------
(* Properties *)

\* The messages on the way to a client.
Msg == [type : {"Welcome"}, peers : Peers]
       \cup [type : {"Joined", "Cursor"}, who : Clients, cursor : Spots]
       \cup [type : {"Left"}, who : Clients]
       \cup [type : {"Snapshot", "Disconnected"}]

\* Room::peers has client ids for keys, and everything else its shape.
TypeOK ==
  /\ cur \in [Clients -> Nat]
  /\ online \in [Clients -> BOOLEAN]
  /\ seen \in [Clients -> Peers]
  /\ down \in [Clients -> Seq(Msg)]
  /\ moves \in [Clients -> Spots]
  /\ ses \in [Conns -> {"none", "hello", "subscribed", "joined", "greeted",
                        "live", "moving", "leaving", "closed"}]
  /\ cursor \in [Conns -> Spots]
  /\ rx \in [Conns -> Seq([exclude : Clients, msg : Msg])]
  /\ lagged \in [Conns -> BOOLEAN]
  /\ peers \in Peers
  /\ missed \subseteq Conns
  /\ muddled \subseteq Clients

HasSession(c) == \E k \in Conns : k[1] = c /\ Present(k)

\* Room::join and Room::leave keep the map in step with the sessions: it
\* lists exactly the clients with a session, except those whose sessions
\* overlapped or whose Welcome could not be written (WelcomeListsEveryone shows
\* what becomes of these).
ListsThePresent == \A c \in Clients \ muddled : c \in DOMAIN peers <=> HasSession(c)

\* Room::join: of the clients whose sessions never overlapped and whose Welcome
\* was written, no more are in the room at once than it has places, whatever
\* the muddled ones do to the map in the meantime.
PlacesHold == Cardinality({c \in Clients \ muddled : HasSession(c)}) <= MaxPeers

\* Connected, and joined on that very connection.
Served(c) == online[c] /\ Present(Current(c))

\* src/README.md, "Connections per room before `RoomFull`": of all clients
\* together, no more are connected and served at once than the room has places.
FullInTime == Cardinality({c \in Clients : Served(c)}) <= MaxPeers

\* Client c has handled all that concerns client d, and nothing was overwritten.
UpToDate(c, d) ==
  /\ online[c]
  /\ ses[Current(c)] \in {"greeted", "live", "moving"} /\ Current(c) \notin missed
  /\ down[c] = <<>> /\ rx[Current(c)] = <<>>
  /\ \A k \in Conns : k[1] = d => ~Unsettled(k)

\* ws.rs::session and WeavedrawApp::handle_server: however joining, moving and leaving interleave with the Welcome of another
\* client, that client ends up with the room's view, cursors included.
SeesTheRoom ==
  \A c \in Clients : \A d \in Clients \ (muddled \cup {c}) : UpToDate(c, d) =>
    /\ d \in DOMAIN seen[c] <=> d \in DOMAIN peers
    /\ d \in DOMAIN peers => seen[c][d] = peers[d]

\* ServerMessage::Welcome, "everyone currently present": whoever Welcome lists
\* has a session, and whoever has a session is listed.
WelcomeListsEveryone == \A c \in Clients : c \in DOMAIN peers <=> HasSession(c)
=============================================================================
