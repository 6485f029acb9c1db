--------------------------- MODULE PresenceProofs ---------------------------
(* Theorems about Presence, for every number of clients, connections, cursor *)
(* messages and places, and every capacity of the channel.                   *)
EXTENDS Presence, FiniteSetTheorems, TLAPS

-----------------------------------------------------------------------------
(* Connections and maps of peers *)

LEMMA ConnsOf ==
  /\ \A k \in Conns : k[1] \in Clients /\ k[2] \in 1 .. MaxConns[k[1]] /\ k = <<k[1], k[2]>>
  /\ \A c \in Clients : \A n \in 1 .. MaxConns[c] : <<c, n>> \in Conns
BY DEF Conns

LEMMA PeersAre ==
  ASSUME NEW f PROVE f \in Peers <=> \E D \in SUBSET Clients : f \in [D -> Spots]
BY DEF Peers

LEMMA PeersDomain ==
  ASSUME NEW f \in Peers
  PROVE  /\ DOMAIN f \subseteq Clients /\ f = [c \in DOMAIN f |-> f[c]]
         /\ \A c \in DOMAIN f : f[c] \in Spots
BY DEF Peers

LEMMA NoneIsPeers == None \in Peers /\ DOMAIN None = {}
<1>1. None \in [{} -> Spots] /\ {} \in SUBSET Clients
  BY DEF None
<1> QED
  BY <1>1, PeersAre DEF None

LEMMA PutIsPeers ==
  ASSUME NEW f \in Peers, NEW c \in Clients, NEW v \in Spots
  PROVE  Put(f, c, v) \in Peers /\ DOMAIN Put(f, c, v) = DOMAIN f \cup {c}
<1>1. DOMAIN f \cup {c} \in SUBSET Clients /\ \A d \in DOMAIN f : f[d] \in Spots
  BY PeersDomain
<1>2. Put(f, c, v) \in [DOMAIN f \cup {c} -> Spots]
  BY <1>1 DEF Put
<1> QED
  BY <1>1, <1>2, PeersAre DEF Put

LEMMA DropIsPeers ==
  ASSUME NEW f \in Peers, NEW c
  PROVE  Drop(f, c) \in Peers /\ DOMAIN Drop(f, c) = DOMAIN f \ {c}
<1>1. DOMAIN f \ {c} \in SUBSET Clients /\ \A d \in DOMAIN f : f[d] \in Spots
  BY PeersDomain
<1>2. Drop(f, c) \in [DOMAIN f \ {c} -> Spots]
  BY <1>1 DEF Drop, Restrict
<1> QED
  BY <1>1, <1>2, PeersAre DEF Drop, Restrict

-----------------------------------------------------------------------------
(* Type correctness of what the theorems below need *)

\* The part of TypeOK about sessions and the room.
RoomType ==
  /\ cur \in [Clients -> Nat]
  /\ moves \in [Clients -> Spots]
  /\ ses \in [Conns -> {"none", "hello", "subscribed", "joined", "greeted",
                        "live", "moving", "leaving", "closed"}]
  /\ cursor \in [Conns -> Spots]
  /\ peers \in Peers
  /\ muddled \subseteq Clients
  /\ \A k \in Conns : k[2] > cur[k[1]] => ses[k] = "none"

LEMMA RoomTypeInit == Init => RoomType
<1> SUFFICES ASSUME Init PROVE RoomType
  OBVIOUS
<1>1. 0 \in Spots
  BY PresenceAssumption DEF Spots
<1> QED
  BY <1>1, NoneIsPeers DEF Init, RoomType

LEMMA MoveType ==
  ASSUME RoomType, NEW k \in Conns, Move(k) PROVE RoomType' /\ DOMAIN peers' = DOMAIN peers
<1>1. k[1] \in Clients
  BY ConnsOf
<1>2. moves[k[1]] + 1 \in Spots /\ moves' = [moves EXCEPT ![k[1]] = moves[k[1]] + 1]
  BY <1>1, PresenceAssumption DEF RoomType, Move, Spots
<1>3. moves' \in [Clients -> Spots] /\ moves'[k[1]] \in Spots
  BY <1>1, <1>2 DEF RoomType
<1>4. peers' \in Peers /\ DOMAIN peers' = DOMAIN peers
  <2>1. CASE k[1] \in DOMAIN peers
    <3>1. peers' = [peers EXCEPT ![k[1]] = moves'[k[1]]]
      BY <2>1 DEF Move
    <3>2. PICK D \in SUBSET Clients : peers \in [D -> Spots]
      BY PeersAre DEF RoomType
    <3>3. peers' \in [D -> Spots]
      BY <3>1, <3>2, <1>3
    <3> QED
      BY <3>2, <3>3, PeersAre
  <2> QED
    BY <2>1 DEF Move, RoomType
<1> QED
  BY <1>3, <1>4 DEF RoomType, Move

LEMMA RoomTypeNext == RoomType /\ [Next]_vars => RoomType'
<1> SUFFICES ASSUME RoomType, [Next]_vars PROVE RoomType'
  OBVIOUS
<1>0. 0 \in Spots
  BY PresenceAssumption DEF Spots
<1>1. ASSUME NEW c \in Clients, Connect(c) PROVE RoomType'
  <2>1. cur[c] \in Nat /\ cur' = [cur EXCEPT ![c] = cur[c] + 1] /\ cur' \in [Clients -> Nat]
    BY <1>1 DEF RoomType, Connect
  <2>2. ses' = [ses EXCEPT ![<<c, cur[c] + 1>>] = "hello"]
    BY <1>1 DEF Connect
  <2>3. ASSUME NEW k \in Conns, k[2] > cur'[k[1]] PROVE ses'[k] = "none"
    <3>1. k[1] \in Clients /\ k[2] \in Int /\ cur[k[1]] \in Nat /\ ses[k] = "none" /\ k # <<c, cur[c] + 1>>
      <4>1. k[1] \in Clients /\ k[2] \in Int /\ cur[k[1]] \in Nat
        BY ConnsOf, PresenceAssumption DEF RoomType
      <4>2. k[1] = c => k[2] > cur[c] + 1
        BY <2>1, <2>3, <4>1
      <4>3. k[2] > cur[k[1]]
        BY <2>1, <2>3, <4>1
      <4> QED
        BY <2>1, <4>1, <4>2, <4>3 DEF RoomType
    <3> QED
      BY <2>2, <3>1 DEF RoomType
  <2>4. ses' \in [Conns -> {"none", "hello", "subscribed", "joined", "greeted",
                            "live", "moving", "leaving", "closed"}]
    BY <2>2 DEF RoomType
  <2> QED
    BY <1>1, <2>1, <2>3, <2>4 DEF RoomType, Connect
<1>2. ASSUME NEW c \in Clients, Disconnect(c) \/ Receive(c) PROVE RoomType'
  BY <1>2 DEF RoomType, Disconnect, Receive, server
<1>3. ASSUME NEW k \in Conns, Refuse(k) \/ Subscribe(k) \/ Greet(k) PROVE RoomType'
  BY <1>3 DEF RoomType, Refuse, Subscribe, Greet, client
<1>4. ASSUME NEW k \in Conns, TurnAway(k) \/ GreetFails(k) PROVE RoomType'
  <2>1. k[1] \in Clients
    BY ConnsOf
  <2>2. CASE TurnAway(k)
    BY <2>2, <1>0 DEF RoomType, TurnAway, Unread, client
  <2>3. CASE GreetFails(k)
    BY <2>3, <2>1, <1>0 DEF RoomType, GreetFails, Unread, client
  <2> QED
    BY <1>4, <2>2, <2>3
<1>5. ASSUME NEW k \in Conns, Join(k) PROVE RoomType'
  <2>1. k[1] \in Clients /\ cursor[k] \in Spots
    BY ConnsOf DEF RoomType
  <2>2. peers' \in Peers
    BY <1>5, <2>1, PutIsPeers DEF RoomType, Join
  <2> QED
    BY <1>5, <2>1, <2>2 DEF RoomType, Join, client
<1>6. ASSUME NEW k \in Conns, Announce(k) \/ Tell(k) \/ Depart(k) PROVE RoomType'
  BY <1>6 DEF RoomType, Announce, Tell, Depart, Broadcast, client
<1>7. ASSUME NEW k \in Conns, Move(k) PROVE RoomType'
  BY <1>7, MoveType
<1>8. ASSUME NEW k \in Conns, Relay(k) \/ Resync(k) PROVE RoomType'
  BY <1>8 DEF RoomType, Relay, Resync, client
<1>9. ASSUME NEW k \in Conns, Leave(k) PROVE RoomType'
  <2>1. peers' \in Peers
    BY <1>9, DropIsPeers DEF RoomType, Leave
  <2> QED
    BY <1>9, <1>0, <2>1 DEF RoomType, Leave, Unread, client
<1>10. CASE UNCHANGED vars
  BY <1>10 DEF RoomType, vars
<1> QED
  BY <1>1, <1>2, <1>3, <1>4, <1>5, <1>6, <1>7, <1>8, <1>9, <1>10 DEF Next, Step

-----------------------------------------------------------------------------
(* Type correctness of everything *)

Frame == [exclude : Clients, msg : Msg]

LEMMA MsgTypes ==
  /\ \A f \in Peers : [type |-> "Welcome", peers |-> f] \in Msg
  /\ \A c \in Clients, v \in Spots : /\ [type |-> "Joined", who |-> c, cursor |-> v] \in Msg
                                      /\ [type |-> "Cursor", who |-> c, cursor |-> v] \in Msg
  /\ \A c \in Clients : [type |-> "Left", who |-> c] \in Msg
  /\ [type |-> "Snapshot"] \in Msg /\ [type |-> "Disconnected"] \in Msg
BY DEF Msg

LEMMA BelieveType ==
  ASSUME NEW f \in Peers, NEW me, NEW m \in Msg PROVE Believe(f, me, m) \in Peers
<1>1. m.type \in {"Welcome", "Joined", "Cursor", "Left", "Snapshot", "Disconnected"}
  BY DEF Msg
<1>2. CASE m.type = "Welcome"
  <2>1. m.peers \in Peers
    BY <1>2 DEF Msg
  <2> QED
    BY <1>2, <2>1 DEF Believe
<1>3. CASE m.type \in {"Joined", "Cursor"}
  <2>1. m.who \in Clients /\ m.cursor \in Spots
    BY <1>3 DEF Msg
  <2>2. Put(f, m.who, m.cursor) \in Peers
    BY <2>1, PutIsPeers
  <2> QED
    BY <1>3, <2>2 DEF Believe
<1>4. CASE m.type = "Left"
  BY <1>4, DropIsPeers DEF Believe
<1>5. CASE m.type \in {"Snapshot", "Disconnected"}
  BY <1>5, NoneIsPeers DEF Believe
<1> QED
  BY <1>1, <1>2, <1>3, <1>4, <1>5

LEMMA WriteType ==
  ASSUME TypeOK, NEW k \in Conns, NEW m \in Msg, Write(k, m)
  PROVE  down' \in [Clients -> Seq(Msg)]
<1>1. k[1] \in Clients
  BY ConnsOf
<1>2. Append(down[k[1]], m) \in Seq(Msg)
  BY <1>1 DEF TypeOK
<1> QED
  BY <1>1, <1>2 DEF TypeOK, Write

\* A subscription's frames after one more.
LEMMA PushType ==
  ASSUME NEW q \in Seq(Frame), NEW f \in Frame
  PROVE  /\ Append(q, f) \in Seq(Frame)
         /\ Len(q) = Capacity => Append(Tail(q), f) \in Seq(Frame)
<1>1. ASSUME Len(q) = Capacity PROVE Tail(q) \in Seq(Frame)
  BY <1>1, PresenceAssumption
<1> QED
  BY <1>1

LEMMA BroadcastType ==
  ASSUME TypeOK, NEW k \in Conns, NEW m \in Msg, NEW next, Broadcast(k, m, next)
  PROVE  /\ rx' \in [Conns -> Seq(Frame)]
         /\ lagged' \in [Conns -> BOOLEAN] /\ missed' \subseteq Conns
<1>1. [exclude |-> k[1], msg |-> m] \in Frame
  BY ConnsOf DEF Frame
<1>2. rx \in [Conns -> Seq(Frame)]
  BY DEF TypeOK, Frame
<1>3. rx' = [j \in Conns |->
               IF Subscribed(j)
               THEN Append(IF Len(rx[j]) = Capacity THEN Tail(rx[j]) ELSE rx[j],
                           [exclude |-> k[1], msg |-> m])
               ELSE rx[j]]
  BY DEF Broadcast, Full
<1>4. ASSUME NEW j \in Conns PROVE rx'[j] \in Seq(Frame)
  <2>1. rx[j] \in Seq(Frame)
    BY <1>2
  <2>2. CASE Subscribed(j) /\ Len(rx[j]) = Capacity
    BY <1>1, <1>3, <2>1, <2>2, PushType
  <2>3. CASE Subscribed(j) /\ Len(rx[j]) # Capacity
    BY <1>1, <1>3, <2>1, <2>3, PushType
  <2>4. CASE ~Subscribed(j)
    BY <1>3, <2>1, <2>4
  <2> QED
    BY <2>2, <2>3, <2>4
<1>5. rx' \in [Conns -> Seq(Frame)]
  BY <1>3, <1>4
<1>6. lagged' \in [Conns -> BOOLEAN]
  BY DEF TypeOK, Broadcast
<1>7. missed' \subseteq Conns
  BY DEF TypeOK, Broadcast
<1> QED
  BY <1>5, <1>6, <1>7

LEMMA UnreadType ==
  ASSUME TypeOK, NEW k \in Conns, Unread(k)
  PROVE  /\ rx' \in [Conns -> Seq(Frame)]
         /\ lagged' \in [Conns -> BOOLEAN] /\ missed' \subseteq Conns
<1>1. rx' \in [Conns -> Seq(Frame)]
  <2>1. rx \in [Conns -> Seq(Frame)]
    BY DEF TypeOK, Frame
  <2>2. rx' = [rx EXCEPT ![k] = <<>>] /\ <<>> \in Seq(Frame)
    BY DEF Unread
  <2> QED
    BY <2>1, <2>2
<1>2. lagged' \in [Conns -> BOOLEAN] /\ missed' \subseteq Conns
  BY DEF TypeOK, Unread
<1> QED
  BY <1>1, <1>2

\* What TypeOK says beyond RoomType.
LinkType ==
  /\ online \in [Clients -> BOOLEAN]
  /\ seen \in [Clients -> Peers]
  /\ down \in [Clients -> Seq(Msg)]
  /\ rx \in [Conns -> Seq(Frame)]
  /\ lagged \in [Conns -> BOOLEAN]
  /\ missed \subseteq Conns

LEMMA TwoParts == RoomType => (TypeOK <=> LinkType)
BY DEF RoomType, LinkType, TypeOK, Frame

LEMMA DisconnectType ==
  ASSUME LinkType, NEW c \in Clients, Disconnect(c) PROVE LinkType'
<1>1. PICK n \in 0 .. Len(down[c]) :
        down' = [down EXCEPT ![c] = Append(SubSeq(@, 1, n), [type |-> "Disconnected"])]
  BY DEF Disconnect
<1>2. down[c] \in Seq(Msg) /\ n \in Int
  BY <1>1 DEF LinkType
<1>3. SubSeq(down[c], 1, n) \in Seq(Msg)
  BY <1>1, <1>2
<1>4. Append(SubSeq(down[c], 1, n), [type |-> "Disconnected"]) \in Seq(Msg)
  BY <1>3, MsgTypes
<1>5. down' \in [Clients -> Seq(Msg)]
  BY <1>1, <1>4 DEF LinkType
<1> QED
  BY <1>5 DEF LinkType, Disconnect, server

LEMMA ReceiveType ==
  ASSUME LinkType, NEW c \in Clients, Receive(c) PROVE LinkType'
<1>1. down[c] \in Seq(Msg) /\ down[c] # <<>> /\ seen[c] \in Peers
  BY DEF LinkType, Receive
<1>2. Head(down[c]) \in Msg /\ Tail(down[c]) \in Seq(Msg)
  BY <1>1
<1>3. Believe(seen[c], c, Head(down[c])) \in Peers
  BY <1>1, <1>2, BelieveType
<1> QED
  BY <1>2, <1>3 DEF LinkType, Receive, server

LEMMA LinkTypeNext ==
  ASSUME RoomType, LinkType, [Next]_vars PROVE LinkType'
<1>0. TypeOK
  BY TwoParts
<1>1. ASSUME NEW c \in Clients, Connect(c) PROVE LinkType'
  BY <1>1 DEF LinkType, Connect
<1>2. ASSUME NEW c \in Clients, Disconnect(c) \/ Receive(c) PROVE LinkType'
  BY <1>2, DisconnectType, ReceiveType
<1>3. ASSUME NEW k \in Conns, Refuse(k) \/ Subscribe(k) \/ Join(k) \/ Move(k) PROVE LinkType'
  BY <1>3 DEF LinkType, Refuse, Subscribe, Join, Move, client
<1>4. ASSUME NEW k \in Conns, TurnAway(k) \/ GreetFails(k) \/ Leave(k) PROVE LinkType'
  <2>1. Unread(k) /\ UNCHANGED <<online, seen, down>>
    BY <1>4 DEF TurnAway, GreetFails, Leave, client
  <2> QED
    BY <1>0, <2>1, UnreadType DEF LinkType
<1>5. ASSUME NEW k \in Conns, Greet(k) PROVE LinkType'
  <2>1. [type |-> "Welcome", peers |-> Drop(peers, k[1])] \in Msg
    BY MsgTypes, DropIsPeers DEF RoomType
  <2>2. down' \in [Clients -> Seq(Msg)]
    BY <1>0, <1>5, <2>1, WriteType DEF Greet
  <2> QED
    BY <1>5, <2>2 DEF LinkType, Greet, client
<1>6. ASSUME NEW k \in Conns, Announce(k) \/ Tell(k) \/ Depart(k) PROVE LinkType'
  <2>1. PICK m \in Msg, next \in {"live", "closed"} : Broadcast(k, m, next)
    BY <1>6, ConnsOf, MsgTypes DEF Announce, Tell, Depart, RoomType
  <2>2. UNCHANGED <<online, seen, down>>
    BY <1>6 DEF Announce, Tell, Depart, client
  <2> QED
    BY <1>0, <2>1, <2>2, BroadcastType DEF LinkType
<1>7. ASSUME NEW k \in Conns, Relay(k) PROVE LinkType'
  <2>1. rx[k] \in Seq(Frame) /\ rx[k] # <<>>
    BY <1>7 DEF LinkType, Relay
  <2>2. Head(rx[k]) \in Frame /\ Tail(rx[k]) \in Seq(Frame)
    BY <2>1
  <2>3. Head(rx[k]).msg \in Msg
    BY <2>2 DEF Frame
  <2>4. down' \in [Clients -> Seq(Msg)]
    BY <1>0, <1>7, <2>3, WriteType DEF Relay, LinkType
  <2> QED
    BY <1>7, <2>2, <2>4 DEF LinkType, Relay, client
<1>8. ASSUME NEW k \in Conns, Resync(k) PROVE LinkType'
  <2>1. down' \in [Clients -> Seq(Msg)]
    BY <1>0, <1>8, MsgTypes, WriteType DEF Resync
  <2> QED
    BY <1>8, <2>1 DEF LinkType, Resync, client
<1>9. CASE UNCHANGED vars
  BY <1>9 DEF LinkType, vars
<1> QED
  BY <1>1, <1>2, <1>3, <1>4, <1>5, <1>6, <1>7, <1>8, <1>9 DEF Next, Step

LEMMA InitialTypes == Init => RoomType /\ LinkType /\ TypeOK
<1> SUFFICES ASSUME Init PROVE LinkType
  BY RoomTypeInit, TwoParts
<1>1. <<>> \in Seq(Msg) /\ <<>> \in Seq(Frame)
  OBVIOUS
<1> QED
  BY <1>1, NoneIsPeers DEF Init, LinkType

\* The map has clients for keys and cursors for values, and so has every copy of
\* it that travels or that a client keeps.
THEOREM PresenceTypes == Spec => []TypeOK
<1>1. RoomType /\ LinkType => TypeOK
  BY TwoParts
<1> QED
  BY <1>1, InitialTypes, RoomTypeNext, LinkTypeNext, PTL DEF Spec

-----------------------------------------------------------------------------
(* Places in the room *)

MapFits == Cardinality(DOMAIN peers) <= MaxPeers

LEMMA PlacesNext == RoomType /\ MapFits /\ [Next]_vars => MapFits'
<1> SUFFICES ASSUME RoomType, MapFits, [Next]_vars PROVE MapFits'
  OBVIOUS
<1>fin. IsFiniteSet(DOMAIN peers)
  BY PeersDomain, FS_Subset, PresenceAssumption DEF RoomType
<1>1. CASE DOMAIN peers' = DOMAIN peers
  BY <1>1 DEF MapFits
<1>2. ASSUME NEW k \in Conns, Join(k) PROVE MapFits'
  <2>1. DOMAIN peers' = DOMAIN peers \cup {k[1]}
    BY <1>2, ConnsOf, PutIsPeers DEF RoomType, Join
  <2>2. CASE k[1] \in DOMAIN peers
    BY <2>1, <2>2, <1>1
  <2>3. CASE k[1] \notin DOMAIN peers
    <3>1. Cardinality(DOMAIN peers) < MaxPeers
      BY <1>2, <2>3 DEF Join, HasRoom
    <3>2. Cardinality(DOMAIN peers') = Cardinality(DOMAIN peers) + 1
      BY <1>fin, <2>1, <2>3, FS_AddElement
    <3>3. Cardinality(DOMAIN peers) \in Nat
      BY <1>fin, FS_CardinalityType
    <3> QED
      BY <3>1, <3>2, <3>3, PresenceAssumption DEF MapFits
  <2> QED
    BY <2>2, <2>3
<1>3. ASSUME NEW k \in Conns, Leave(k) PROVE MapFits'
  <2>1. DOMAIN peers' \subseteq DOMAIN peers
    BY <1>3, DropIsPeers DEF RoomType, Leave
  <2>2. /\ Cardinality(DOMAIN peers') <= Cardinality(DOMAIN peers)
        /\ Cardinality(DOMAIN peers') \in Nat /\ Cardinality(DOMAIN peers) \in Nat
    BY <1>fin, <2>1, FS_Subset, FS_CardinalityType
  <2> QED
    BY <2>2, PresenceAssumption DEF MapFits
<1>4. ASSUME NEW k \in Conns, Move(k) PROVE MapFits'
  BY <1>4, <1>1, MoveType
<1>5. ASSUME peers' = peers PROVE MapFits'
  BY <1>5, <1>1
<1>6. ASSUME NEW c \in Clients, Connect(c) \/ Disconnect(c) \/ Receive(c) PROVE peers' = peers
  BY <1>6 DEF Connect, Disconnect, Receive
<1>7. ASSUME NEW k \in Conns,
             \/ Refuse(k) \/ Subscribe(k) \/ TurnAway(k) \/ Greet(k) \/ GreetFails(k)
             \/ Announce(k) \/ Tell(k) \/ Relay(k) \/ Resync(k) \/ Depart(k)
      PROVE peers' = peers
  BY <1>7 DEF Refuse, Subscribe, TurnAway, Greet, GreetFails, Announce, Tell, Relay, Resync, Depart
<1> QED
  BY <1>2, <1>3, <1>4, <1>5, <1>6, <1>7 DEF Next, Step, vars

LEMMA InitialPlaces == Init => MapFits
<1> SUFFICES ASSUME Init PROVE MapFits
  OBVIOUS
<1>1. DOMAIN peers = {} /\ Cardinality({}) = 0
  BY NoneIsPeers, FS_EmptySet DEF Init
<1> QED
  BY <1>1, PresenceAssumption DEF MapFits

-----------------------------------------------------------------------------
(* The map and the sessions *)

InRoom(k) == Present(k) \/ ses[k] = "leaving"

\* Of a client that is not muddled one session at most is in the room or has
\* still to say that it left: its teardown cannot take another's entry away.
OneSession ==
  \A j \in Conns, k \in Conns :
    j[1] = k[1] /\ k[1] \notin muddled /\ InRoom(j) /\ InRoom(k) => j = k

ListInv == RoomType /\ OneSession /\ ListsThePresent

\* Steps that leave the map alone, and the room of everybody but k.
LEMMA ListIdle ==
  ASSUME ListInv, RoomType', peers' = peers, muddled \subseteq muddled',
         \A j \in Conns : (Present(j)' <=> Present(j)) /\ (InRoom(j)' => InRoom(j))
  PROVE  ListInv'
<1>1. OneSession'
  BY DEF ListInv, OneSession
<1>2. \A c \in Clients : HasSession(c)' <=> HasSession(c)
  BY DEF HasSession
<1>3. ListsThePresent'
  BY <1>2 DEF ListInv, ListsThePresent
<1> QED
  BY <1>1, <1>3 DEF ListInv

LEMMA JoinKeepsList == ASSUME ListInv, RoomType', NEW k \in Conns, Join(k) PROVE ListInv'
<1>0. /\ k[1] \in Clients /\ ~InRoom(k) /\ ses' = [ses EXCEPT ![k] = "joined"]
      /\ muddled' = IF Doubled(k) THEN muddled \cup {k[1]} ELSE muddled
      /\ DOMAIN peers' = DOMAIN peers \cup {k[1]}
  BY ConnsOf, PutIsPeers DEF ListInv, RoomType, Join, InRoom, Present
<1>1. Present(k)' /\ InRoom(k)'
  BY <1>0 DEF ListInv, RoomType, Present, InRoom
<1>2. \A j \in Conns \ {k} : (Present(j)' <=> Present(j)) /\ (InRoom(j)' <=> InRoom(j))
  BY <1>0 DEF ListInv, RoomType, Present, InRoom
<1>3. OneSession'
  <2> SUFFICES ASSUME NEW i \in Conns, NEW j \in Conns,
                      i[1] = j[1], j[1] \notin muddled', InRoom(i)', InRoom(j)', i # j
               PROVE  FALSE
    BY DEF OneSession
  <2>1. CASE i = k \/ j = k
    BY <2>1, <1>0, <1>2 DEF Doubled, InRoom
  <2>2. CASE i # k /\ j # k
    BY <2>2, <1>0, <1>2 DEF ListInv, OneSession
  <2> QED
    BY <2>1, <2>2
<1>4. ListsThePresent'
  <2> SUFFICES ASSUME NEW c \in Clients \ muddled' PROVE c \in DOMAIN peers' <=> HasSession(c)'
    BY DEF ListsThePresent
  <2>1. CASE c = k[1]
    BY <2>1, <1>0, <1>1 DEF HasSession
  <2>2. CASE c # k[1]
    <3>1. HasSession(c)' <=> HasSession(c)
      BY <2>2, <1>2 DEF HasSession
    <3> QED
      BY <2>2, <3>1, <1>0 DEF ListInv, ListsThePresent
  <2> QED
    BY <2>1, <2>2
<1> QED
  BY <1>3, <1>4 DEF ListInv

LEMMA LeaveKeepsList == ASSUME ListInv, RoomType', NEW k \in Conns, Leave(k) PROVE ListInv'
<1>0. /\ k[1] \in Clients /\ Present(k) /\ ses' = [ses EXCEPT ![k] = "leaving"]
      /\ muddled' = muddled /\ DOMAIN peers' = DOMAIN peers \ {k[1]}
  BY ConnsOf, DropIsPeers DEF ListInv, RoomType, Leave, Present
<1>1. ~Present(k)' /\ InRoom(k)' /\ InRoom(k)
  BY <1>0 DEF ListInv, RoomType, Present, InRoom
<1>2. \A j \in Conns \ {k} : (Present(j)' <=> Present(j)) /\ (InRoom(j)' <=> InRoom(j))
  BY <1>0 DEF ListInv, RoomType, Present, InRoom
<1>3. OneSession'
  BY <1>0, <1>1, <1>2 DEF ListInv, OneSession
<1>4. ListsThePresent'
  <2> SUFFICES ASSUME NEW c \in Clients \ muddled' PROVE c \in DOMAIN peers' <=> HasSession(c)'
    BY DEF ListsThePresent
  <2>1. CASE c = k[1]
    <3>1. \A j \in Conns : j[1] = c /\ Present(j) => j = k
      BY <2>1, <1>0 DEF ListInv, OneSession, InRoom
    <3> QED
      BY <2>1, <3>1, <1>0, <1>1, <1>2 DEF HasSession
  <2>2. CASE c # k[1]
    <3>1. HasSession(c)' <=> HasSession(c)
      BY <2>2, <1>2 DEF HasSession
    <3> QED
      BY <2>2, <3>1, <1>0 DEF ListInv, ListsThePresent
  <2> QED
    BY <2>1, <2>2
<1> QED
  BY <1>3, <1>4 DEF ListInv

\* A session that ends without leave muddles its client.
LEMMA GreetFailsKeepsList ==
  ASSUME ListInv, RoomType', NEW k \in Conns, GreetFails(k) PROVE ListInv'
<1>0. /\ k[1] \in Clients /\ ses' = [ses EXCEPT ![k] = "closed"]
      /\ muddled' = muddled \cup {k[1]} /\ peers' = peers
  BY ConnsOf DEF GreetFails
<1>1. ~Present(k)' /\ ~InRoom(k)'
  BY <1>0 DEF ListInv, RoomType, Present, InRoom
<1>2. \A j \in Conns \ {k} : (Present(j)' <=> Present(j)) /\ (InRoom(j)' <=> InRoom(j))
  BY <1>0 DEF ListInv, RoomType, Present, InRoom
<1>3. OneSession'
  BY <1>0, <1>1, <1>2 DEF ListInv, OneSession
<1>4. \A c \in Clients \ muddled' : HasSession(c)' <=> HasSession(c)
  BY <1>0, <1>2 DEF HasSession
<1>5. ListsThePresent'
  BY <1>0, <1>4 DEF ListInv, ListsThePresent
<1> QED
  BY <1>3, <1>5 DEF ListInv

LEMMA ListNext == ListInv /\ [Next]_vars => ListInv'
<1> SUFFICES ASSUME ListInv, [Next]_vars PROVE ListInv'
  OBVIOUS
<1>0. RoomType /\ RoomType'
  BY RoomTypeNext DEF ListInv
<1>1. ASSUME NEW c \in Clients, Connect(c) PROVE ListInv'
  <2>1. \A j \in Conns : (Present(j)' <=> Present(j)) /\ (InRoom(j)' => InRoom(j))
    <3> DEFINE new == <<c, cur[c] + 1>>
    <3>1. ses' = [ses EXCEPT ![new] = "hello"] /\ cur[c] \in Nat
      BY <1>0, <1>1 DEF Connect, RoomType
    <3>2. new \in Conns => ses[new] = "none"
      BY <1>0, <3>1 DEF RoomType
    <3> HIDE DEF new
    <3> QED
      BY <3>1, <3>2, <1>0 DEF RoomType, Present, InRoom
  <2> QED
    BY <1>0, <1>1, <2>1, ListIdle DEF Connect
<1>2. ASSUME NEW c \in Clients, Disconnect(c) \/ Receive(c) PROVE ListInv'
  BY <1>0, <1>2, ListIdle DEF Disconnect, Receive, server, Present, InRoom
<1>3. ASSUME NEW k \in Conns, Refuse(k) \/ Subscribe(k) \/ TurnAway(k) \/ Greet(k) PROVE ListInv'
  BY <1>0, <1>3, ListIdle
  DEF Refuse, Subscribe, TurnAway, Greet, Unread, client, RoomType, Present, InRoom
<1>4. ASSUME NEW k \in Conns, GreetFails(k) PROVE ListInv'
  BY <1>0, <1>4, GreetFailsKeepsList
<1>5. ASSUME NEW k \in Conns, Join(k) PROVE ListInv'
  BY <1>0, <1>5, JoinKeepsList
<1>6. ASSUME NEW k \in Conns, Announce(k) \/ Tell(k) \/ Depart(k) PROVE ListInv'
  BY <1>0, <1>6, ListIdle DEF Announce, Tell, Depart, Broadcast, client, RoomType, Present, InRoom
<1>7. ASSUME NEW k \in Conns, Move(k) PROVE ListInv'
  <2>1. /\ DOMAIN peers' = DOMAIN peers /\ muddled' = muddled
        /\ \A j \in Conns : (Present(j)' <=> Present(j)) /\ (InRoom(j)' <=> InRoom(j))
    BY <1>0, <1>7, MoveType DEF Move, RoomType, Present, InRoom
  <2>2. OneSession'
    BY <2>1 DEF ListInv, OneSession
  <2>3. ListsThePresent'
    <3>1. \A c \in Clients : HasSession(c)' <=> HasSession(c)
      BY <2>1 DEF HasSession
    <3> QED
      BY <2>1, <3>1 DEF ListInv, ListsThePresent
  <2> QED
    BY <1>0, <2>2, <2>3 DEF ListInv
<1>8. ASSUME NEW k \in Conns, Relay(k) \/ Resync(k) PROVE ListInv'
  BY <1>0, <1>8, ListIdle DEF Relay, Resync, client, Present, InRoom
<1>9. ASSUME NEW k \in Conns, Leave(k) PROVE ListInv'
  BY <1>0, <1>9, LeaveKeepsList
<1>10. CASE UNCHANGED vars
  BY <1>0, <1>10, ListIdle DEF vars, Present, InRoom
<1> QED
  BY <1>1, <1>2, <1>3, <1>4, <1>5, <1>6, <1>7, <1>8, <1>9, <1>10 DEF Next, Step

LEMMA InitialList == Init => ListInv
<1> SUFFICES ASSUME Init PROVE ListInv
  OBVIOUS
<1>1. \A k \in Conns : ~Present(k) /\ ~InRoom(k)
  BY DEF Init, Present, InRoom
<1>2. DOMAIN peers = {}
  BY NoneIsPeers DEF Init
<1> QED
  BY <1>1, <1>2, RoomTypeInit DEF ListInv, OneSession, ListsThePresent, HasSession

\* Room::join and Room::leave keep the map in step with the sessions, but for the
\* two ways, a Welcome that fails and sessions that overlap, which muddled records.
THEOREM MapFollowsSessions == Spec => []ListsThePresent
<1>1. ListInv => ListsThePresent
  BY DEF ListInv
<1> QED
  BY <1>1, InitialList, ListNext, PTL DEF Spec

\* Room::join counts entries of a map from which old teardowns take what is not
\* theirs; still no more clients than there are places are in the room at once,
\* apart from those that this or a failed Welcome has muddled.
THEOREM PlacesAlwaysHold == Spec => []PlacesHold
<1>1. RoomType /\ MapFits /\ ListsThePresent => PlacesHold
  <2> SUFFICES ASSUME RoomType, MapFits, ListsThePresent PROVE PlacesHold
    OBVIOUS
  <2> DEFINE inside == {c \in Clients \ muddled : HasSession(c)}
  <2>1. inside \subseteq DOMAIN peers
    BY DEF ListsThePresent
  <2>2. IsFiniteSet(DOMAIN peers)
    BY PeersDomain, FS_Subset, PresenceAssumption DEF RoomType
  <2>3. /\ Cardinality(inside) <= Cardinality(DOMAIN peers)
        /\ Cardinality(inside) \in Nat /\ Cardinality(DOMAIN peers) \in Nat
    BY <2>1, <2>2, FS_Subset, FS_CardinalityType
  <2> QED
    BY <2>3, PresenceAssumption DEF MapFits, PlacesHold
<1>2. RoomType /\ MapFits /\ [Next]_vars => MapFits'
  BY PlacesNext
<1> QED
  BY <1>1, <1>2, MapFollowsSessions, InitialPlaces, RoomTypeInit, RoomTypeNext, PTL DEF Spec

-----------------------------------------------------------------------------
(* What a client is told about another                                       *)
(*                                                                           *)
(* The cursor a client will have for d once it has handled everything under  *)
(* way is in the last message about d: among the frames its session still    *)
(* has to relay, else among the events on their way to it, else it is what   *)
(* it believes now.                                                          *)

Away == -1
Entry(f, d) == IF d \in DOMAIN f THEN f[d] ELSE Away

\* Handling m changes what is believed of d ...
About(m, d) ==
  \/ m.type \in {"Welcome", "Disconnected"}
  \/ m.type \in {"Joined", "Cursor", "Left"} /\ m.who = d

\* ... to this.
Says(m, d) ==
  CASE m.type = "Welcome"              -> Entry(m.peers, d)
    [] m.type \in {"Joined", "Cursor"} -> m.cursor
    [] OTHER                           -> Away

Silent(q, d) == \A i \in 1 .. Len(q) : ~About(q[i], d)

\* The last message of q about d says v, if there is one.
EndsOn(q, d, v) ==
  \A i \in 1 .. Len(q) :
    About(q[i], d) /\ (\A j \in i + 1 .. Len(q) : ~About(q[j], d)) => Says(q[i], d) = v

Msgs(q) == [i \in 1 .. Len(q) |-> q[i].msg]

LEMMA BelieveEntry ==
  ASSUME NEW f \in Peers, NEW m \in Msg, NEW me, NEW d \in Clients, d # me
  PROVE  Entry(Believe(f, me, m), d) = IF About(m, d) THEN Says(m, d) ELSE Entry(f, d)
<1>1. m.type \in {"Welcome", "Joined", "Cursor", "Left", "Snapshot", "Disconnected"}
  BY DEF Msg
<1>2. CASE m.type = "Welcome"
  BY <1>2 DEF Believe, About, Says
<1>3. CASE m.type \in {"Joined", "Cursor"}
  <2>1. Believe(f, me, m) = IF m.who = me THEN f ELSE Put(f, m.who, m.cursor)
    BY <1>3 DEF Believe
  <2>2. (About(m, d) <=> m.who = d) /\ Says(m, d) = m.cursor
    BY <1>3 DEF About, Says
  <2> QED
    BY <2>1, <2>2 DEF Entry, Put
<1>4. CASE m.type = "Left"
  <2>1. Believe(f, me, m) = Drop(f, m.who) /\ (About(m, d) <=> m.who = d) /\ Says(m, d) = Away
    BY <1>4 DEF Believe, About, Says
  <2> QED
    BY <2>1 DEF Entry, Drop, Restrict
<1>5. CASE m.type = "Disconnected"
  <2>1. Believe(f, me, m) = None /\ About(m, d) /\ Says(m, d) = Away
    BY <1>5 DEF Believe, About, Says
  <2> QED
    BY <2>1, NoneIsPeers DEF Entry
<1>6. CASE m.type = "Snapshot"
  BY <1>6 DEF Believe, About
<1> QED
  BY <1>1, <1>2, <1>3, <1>4, <1>5, <1>6

LEMMA OneMore ==
  ASSUME NEW S, NEW q \in Seq(S), NEW m \in S, NEW d, NEW v
  PROVE  /\ ~About(m, d) => /\ Silent(Append(q, m), d) <=> Silent(q, d)
                            /\ EndsOn(q, d, v) => EndsOn(Append(q, m), d, v)
         /\ About(m, d) => ~Silent(Append(q, m), d) /\ EndsOn(Append(q, m), d, Says(m, d))
<1> DEFINE r == Append(q, m)
<1>1. Len(r) = Len(q) + 1 /\ Len(q) \in Nat /\ r[Len(r)] = m /\ \A i \in 1 .. Len(q) : r[i] = q[i]
  OBVIOUS
<1> HIDE DEF r
<1>2. ASSUME ~About(m, d) PROVE Silent(r, d) <=> Silent(q, d)
  BY <1>1, <1>2 DEF Silent
<1>3. ASSUME ~About(m, d), EndsOn(q, d, v) PROVE EndsOn(r, d, v)
  <2> SUFFICES ASSUME NEW i \in 1 .. Len(r), About(r[i], d),
                      \A j \in i + 1 .. Len(r) : ~About(r[j], d)
               PROVE  Says(r[i], d) = v
    BY DEF EndsOn
  <2>1. i \in 1 .. Len(q)
    BY <1>1, <1>3
  <2>2. \A j \in i + 1 .. Len(q) : ~About(q[j], d)
    BY <1>1, <2>1
  <2> QED
    BY <1>1, <1>3, <2>1, <2>2 DEF EndsOn
<1>4. ASSUME About(m, d) PROVE ~Silent(r, d) /\ EndsOn(r, d, Says(m, d))
  <2>1. Len(r) \in 1 .. Len(r)
    BY <1>1
  <2>2. ASSUME NEW i \in 1 .. Len(r), i # Len(r) PROVE Len(r) \in i + 1 .. Len(r)
    BY <1>1, <2>2
  <2> QED
    BY <1>1, <1>4, <2>1, <2>2 DEF Silent, EndsOn
<1> QED
  BY <1>2, <1>3, <1>4 DEF r

LEMMA OneLess ==
  ASSUME NEW S, NEW q \in Seq(S), q # <<>>, NEW d, NEW v
  PROVE  /\ EndsOn(q, d, v) => EndsOn(Tail(q), d, v)
         /\ Silent(q, d) => Silent(Tail(q), d)
         /\ Silent(Tail(q), d) /\ ~About(Head(q), d) => Silent(q, d)
         /\ Silent(Tail(q), d) /\ About(Head(q), d) /\ EndsOn(q, d, v) => Says(Head(q), d) = v
<1> DEFINE r == Tail(q)
<1>1. /\ Len(r) = Len(q) - 1 /\ Len(q) \in Nat \ {0} /\ Head(q) = q[1]
      /\ \A i \in 1 .. Len(r) : r[i] = q[i + 1]
  OBVIOUS
<1> HIDE DEF r
<1>2. ASSUME EndsOn(q, d, v) PROVE EndsOn(r, d, v)
  <2> SUFFICES ASSUME NEW i \in 1 .. Len(r), About(r[i], d),
                      \A j \in i + 1 .. Len(r) : ~About(r[j], d)
               PROVE  Says(r[i], d) = v
    BY DEF EndsOn
  <2>1. i + 1 \in 1 .. Len(q)
    BY <1>1
  <2>2. ASSUME NEW j \in (i + 1) + 1 .. Len(q) PROVE ~About(q[j], d)
    <3>1. j - 1 \in i + 1 .. Len(r) /\ j - 1 \in 1 .. Len(r) /\ (j - 1) + 1 = j
      BY <1>1
    <3> QED
      BY <1>1, <3>1
  <2> QED
    BY <1>1, <1>2, <2>1, <2>2 DEF EndsOn
<1>3. ASSUME Silent(q, d) PROVE Silent(r, d)
  <2>1. \A i \in 1 .. Len(r) : i + 1 \in 1 .. Len(q)
    BY <1>1
  <2> QED
    BY <1>1, <1>3, <2>1 DEF Silent
<1>4. ASSUME Silent(r, d) PROVE \A j \in 2 .. Len(q) : ~About(q[j], d)
  <2> SUFFICES ASSUME NEW j \in 2 .. Len(q) PROVE ~About(q[j], d)
    OBVIOUS
  <2>1. j - 1 \in 1 .. Len(r) /\ (j - 1) + 1 = j
    BY <1>1
  <2> QED
    BY <1>1, <1>4, <2>1 DEF Silent
<1>5. ASSUME Silent(r, d), ~About(Head(q), d) PROVE Silent(q, d)
  BY <1>1, <1>4, <1>5 DEF Silent
<1>6. ASSUME Silent(r, d), About(Head(q), d), EndsOn(q, d, v) PROVE Says(Head(q), d) = v
  <2>1. 1 \in 1 .. Len(q) /\ 1 + 1 .. Len(q) = 2 .. Len(q)
    BY <1>1
  <2> QED
    BY <1>1, <1>4, <1>6, <2>1 DEF EndsOn
<1> QED
  BY <1>2, <1>3, <1>5, <1>6 DEF r

LEMMA FunctionOf ==
  ASSUME NEW S, NEW q \in Seq(S) PROVE q = [i \in 1 .. Len(q) |-> q[i]]
OBVIOUS

LEMMA MsgsOf ==
  ASSUME NEW q \in Seq(Frame)
  PROVE  /\ Msgs(q) \in Seq(Msg)
         /\ \A f \in Frame : Msgs(Append(q, f)) = Append(Msgs(q), f.msg)
         /\ q # <<>> => /\ Msgs(q) # <<>> /\ Head(Msgs(q)) = Head(q).msg
                        /\ Msgs(Tail(q)) = Tail(Msgs(q))
<1>1. /\ Msgs(q) \in Seq(Msg) /\ Len(Msgs(q)) = Len(q)
      /\ \A i \in 1 .. Len(q) : Msgs(q)[i] = q[i].msg
  <2>1. \A i \in 1 .. Len(q) : q[i].msg \in Msg
    <3>1. \A i \in 1 .. Len(q) : q[i] \in Frame
      OBVIOUS
    <3> QED
      BY <3>1 DEF Frame
  <2>2. Msgs(q) \in [1 .. Len(q) -> Msg] /\ Len(q) \in Nat
    BY <2>1 DEF Msgs
  <2>3. Msgs(q) \in Seq(Msg) /\ Len(Msgs(q)) = Len(q)
    BY <2>2
  <2> QED
    BY <2>3 DEF Msgs
<1>2. ASSUME NEW f \in Frame PROVE Msgs(Append(q, f)) = Append(Msgs(q), f.msg)
  <2>1. f.msg \in Msg
    BY DEF Frame
  <2>2. Append(q, f) \in Seq(Frame) /\ Len(Append(q, f)) = Len(q) + 1
    OBVIOUS
  <2>3. Append(Msgs(q), f.msg) \in Seq(Msg) /\ Len(Append(Msgs(q), f.msg)) = Len(q) + 1
    BY <1>1, <2>1
  <2>4. \A i \in 1 .. Len(q) + 1 : Append(q, f)[i].msg = Append(Msgs(q), f.msg)[i]
    BY <1>1, <2>1
  <2> QED
    BY <2>2, <2>3, <2>4 DEF Msgs
<1>3. ASSUME q # <<>> PROVE /\ Msgs(q) # <<>> /\ Head(Msgs(q)) = Head(q).msg
                            /\ Msgs(Tail(q)) = Tail(Msgs(q))
  <2>1. Len(q) \in Nat \ {0} /\ Tail(q) \in Seq(Frame) /\ Len(Tail(q)) = Len(q) - 1
    BY <1>3
  <2>2. Msgs(q) # <<>> /\ Head(Msgs(q)) = Head(q).msg
    BY <1>1, <1>3, <2>1
  <2>3. Tail(Msgs(q)) \in Seq(Msg) /\ Len(Tail(Msgs(q))) = Len(q) - 1
    BY <1>1, <2>1, <2>2
  <2>4. ASSUME NEW i \in 1 .. Len(q) - 1 PROVE Tail(q)[i].msg = Tail(Msgs(q))[i]
    <3>1. Tail(q)[i] = q[i + 1] /\ i + 1 \in 1 .. Len(q)
      BY <2>1
    <3>2. Tail(Msgs(q))[i] = Msgs(q)[i + 1]
      BY <1>1, <2>1, <2>2
    <3> QED
      BY <1>1, <3>1, <3>2
  <2>5. Msgs(Tail(q)) = [i \in 1 .. Len(q) - 1 |-> Tail(q)[i].msg]
    BY <2>1 DEF Msgs
  <2>6. Tail(Msgs(q)) = [i \in 1 .. Len(q) - 1 |-> Tail(Msgs(q))[i]]
    BY <2>3, FunctionOf
  <2> QED
    BY <2>2, <2>4, <2>5, <2>6
<1> QED
  BY <1>1, <1>2, <1>3

LEMMA EntryPut ==
  ASSUME NEW f, NEW c, NEW v, NEW d
  PROVE  Entry(Put(f, c, v), d) = IF d = c THEN v ELSE Entry(f, d)
BY DEF Entry, Put

LEMMA EntryDrop ==
  ASSUME NEW f, NEW c, NEW d
  PROVE  Entry(Drop(f, c), d) = IF d = c THEN Away ELSE Entry(f, d)
BY DEF Entry, Drop, Restrict

-----------------------------------------------------------------------------
(* The view                                                                  *)

\* Nothing is still to be announced about d, whose sessions followed one another.
Settled(d) == d \notin muddled /\ \A k \in Conns : k[1] = d => ~Unsettled(k)

\* A subscription holds announcements only, each hidden from whom it is about.
FramesTell ==
  \A k \in Conns :
    /\ ~Subscribed(k) => rx[k] = <<>>
    /\ \A i \in 1 .. Len(rx[k]) :
         /\ rx[k][i].msg.type \in {"Joined", "Cursor", "Left"}
         /\ rx[k][i].exclude = rx[k][i].msg.who

\* The room's cursor for a client and its session's are the same.
CursorsAgree ==
  \A k \in Conns : Present(k) /\ k[1] \notin muddled => peers[k[1]] = cursor[k]

\* What a subscription holds about d ends on what the room has.
RxCurrent ==
  \A k \in Conns : \A d \in Clients : Settled(d) => EndsOn(Msgs(rx[k]), d, Entry(peers, d))

\* Client c has been written the Welcome, and nothing since has been overwritten.
Follows(c) ==
  online[c] /\ ses[Current(c)] \in {"greeted", "live", "moving"} /\ Current(c) \notin missed

\* What c has been sent, or believes, about d.
Told(c, d) ==
  /\ EndsOn(down[c], d, Entry(peers, d))
  /\ Silent(down[c], d) => Entry(seen[c], d) = Entry(peers, d)

\* If its subscription holds nothing about d, it is what the room has.
Watched(c, d) == Follows(c) /\ Settled(d) /\ Silent(Msgs(rx[Current(c)]), d)
DownCurrent == \A c \in Clients : \A d \in Clients \ {c} : Watched(c, d) => Told(c, d)

\* A network thread in session() runs one of its client's connections.
Online == \A c \in Clients : online[c] => Current(c) \in Conns

ViewInv == TypeOK /\ ListInv /\ Online /\ FramesTell /\ CursorsAgree /\ RxCurrent /\ DownCurrent

LEMMA ViewIsRooms == ViewInv => SeesTheRoom
<1> SUFFICES ASSUME ViewInv, NEW c \in Clients, NEW d \in Clients \ (muddled \cup {c}), UpToDate(c, d)
             PROVE  /\ d \in DOMAIN seen[c] <=> d \in DOMAIN peers
                    /\ d \in DOMAIN peers => seen[c][d] = peers[d]
  BY DEF SeesTheRoom
<1>1. Watched(c, d) /\ Silent(down[c], d)
  BY DEF UpToDate, Watched, Follows, Settled, Silent, Msgs
<1>2. Entry(seen[c], d) = Entry(peers, d)
  BY <1>1 DEF ViewInv, DownCurrent, Told
<1>3. /\ \A e \in DOMAIN seen[c] : seen[c][e] \in Spots
      /\ \A e \in DOMAIN peers : peers[e] \in Spots
  BY PeersDomain DEF ViewInv, TypeOK
<1>4. Away \notin Spots
  BY PresenceAssumption DEF Away, Spots
<1> QED
  BY <1>2, <1>3, <1>4 DEF Entry

LEMMA ViewInit == Init => ViewInv
<1> SUFFICES ASSUME Init PROVE ViewInv
  OBVIOUS
<1>1. TypeOK /\ ListInv
  BY InitialTypes, InitialList
<1>2. \A k \in Conns : rx[k] = <<>> /\ ~Present(k)
  BY DEF Init, Present
<1>3. \A k \in Conns : Len(rx[k]) = 0
  BY <1>2
<1>4. FramesTell /\ CursorsAgree
  BY <1>2, <1>3 DEF FramesTell, CursorsAgree
<1>5. RxCurrent
  BY <1>3 DEF RxCurrent, EndsOn, Msgs
<1>6. DownCurrent /\ Online
  BY DEF Init, DownCurrent, Watched, Follows, Online
<1> QED
  BY <1>1, <1>4, <1>5, <1>6 DEF ViewInv

LEMMA ViewTypesNext == ViewInv /\ [Next]_vars => TypeOK' /\ ListInv' /\ Online'
<1>1. ASSUME ViewInv, [Next]_vars PROVE TypeOK' /\ ListInv' /\ Online'
  <2>1. RoomType /\ LinkType
    BY <1>1, TwoParts DEF ViewInv, ListInv
  <2>2. RoomType' /\ LinkType' /\ ListInv'
    BY <1>1, <2>1, RoomTypeNext, LinkTypeNext, ListNext DEF ViewInv
  <2>3. (RoomType => (TypeOK <=> LinkType))'
    BY TwoParts, PTL
  <2>4. Online'
    <3>1. ASSUME NEW c \in Clients, Connect(c) PROVE Online'
      <4>1. cur' = [cur EXCEPT ![c] = cur[c] + 1] /\ online' = [online EXCEPT ![c] = TRUE]
        BY <3>1 DEF Connect
      <4>2. cur[c] + 1 \in 1 .. MaxConns[c] /\ cur[c] \in Nat
        <5>1. cur[c] \in Nat /\ MaxConns[c] \in Nat /\ cur[c] < MaxConns[c]
          BY <2>1, <3>1, PresenceAssumption DEF Connect, RoomType
        <5> QED
          BY <5>1
      <4>3. <<c, cur[c] + 1>> \in Conns
        BY <4>2, ConnsOf
      <4>4. ASSUME NEW d \in Clients, online'[d] PROVE <<d, cur'[d]>> \in Conns
        BY <2>1, <4>1, <4>3, <4>4, <1>1 DEF RoomType, LinkType, ViewInv, Online, Current
      <4> QED
        BY <4>4 DEF Online, Current
    <3>2. CASE UNCHANGED cur /\ \A c \in Clients : online'[c] => online[c]
      BY <1>1, <3>2 DEF ViewInv, Online, Current
    <3>3. ASSUME NEW c \in Clients, Disconnect(c) \/ Receive(c) PROVE Online'
      BY <2>1, <3>2, <3>3 DEF LinkType, Disconnect, Receive
    <3>4. ASSUME NEW k \in Conns, Step(k) PROVE UNCHANGED <<cur, online>>
      BY <3>4 DEF Step, Refuse, Subscribe, Join, TurnAway, Greet, GreetFails, Announce, Move, Tell,
                  Relay, Resync, Leave, Depart, client
    <3> QED
      BY <1>1, <3>1, <3>2, <3>3, <3>4 DEF Next, vars
  <2> QED
    BY <2>2, <2>3, <2>4
<1> QED
  BY <1>1

\* Nobody becomes settled by a step of another client's session.
LEMMA OthersSettled ==
  ASSUME TypeOK, NEW k \in Conns, NEW next, ses' = [ses EXCEPT ![k] = next],
         muddled \subseteq muddled', NEW d \in Clients, d # k[1], Settled(d)'
  PROVE  Settled(d)
<1>1. \A j \in Conns : j[1] = d => ses'[j] = ses[j]
  BY DEF TypeOK
<1> QED
  BY <1>1 DEF Settled, Unsettled

\* Nor its own client, when it goes where something remains to be said.
LEMMA Unannounced ==
  ASSUME TypeOK, NEW k \in Conns,
         NEW next \in {"joined", "greeted", "moving", "leaving"},
         ses' = [ses EXCEPT ![k] = next]
  PROVE  ~Settled(k[1])'
<1>1. Unsettled(k)'
  BY DEF TypeOK, Unsettled
<1> QED
  BY <1>1 DEF Settled

\* What a broadcast does to a subscription.
LEMMA Pushed ==
  ASSUME TypeOK, NEW k \in Conns, NEW m \in Msg, NEW next, Broadcast(k, m, next),
         NEW j \in Conns
  PROVE  /\ [exclude |-> k[1], msg |-> m] \in Frame
         /\ ~Subscribed(j) => rx'[j] = rx[j]
         /\ Subscribed(j) => \/ /\ rx[j] # <<>> /\ j \in missed'
                                /\ rx'[j] = Append(Tail(rx[j]), [exclude |-> k[1], msg |-> m])
                             \/ rx'[j] = Append(rx[j], [exclude |-> k[1], msg |-> m])
<1>1. [exclude |-> k[1], msg |-> m] \in Frame
  BY ConnsOf DEF Frame
<1>2. ASSUME ~Subscribed(j) PROVE rx'[j] = rx[j]
  BY <1>2 DEF Broadcast
<1>3. ASSUME Subscribed(j), Full(j)
      PROVE  /\ rx[j] # <<>> /\ j \in missed'
             /\ rx'[j] = Append(Tail(rx[j]), [exclude |-> k[1], msg |-> m])
  <2>1. rx[j] # <<>>
    BY <1>3, PresenceAssumption DEF Full
  <2> QED
    BY <1>3, <2>1 DEF Broadcast
<1>4. ASSUME Subscribed(j), ~Full(j)
      PROVE  rx'[j] = Append(rx[j], [exclude |-> k[1], msg |-> m])
  BY <1>4 DEF Broadcast
<1> QED
  BY <1>1, <1>2, <1>3, <1>4

Telling(q) ==
  \A i \in 1 .. Len(q) : /\ q[i].msg.type \in {"Joined", "Cursor", "Left"}
                         /\ q[i].exclude = q[i].msg.who

LEMMA TellingMoves ==
  ASSUME NEW q \in Seq(Frame), Telling(q)
  PROVE  /\ \A f \in Frame : /\ f.msg.type \in {"Joined", "Cursor", "Left"}
                             /\ f.exclude = f.msg.who
                             => Telling(Append(q, f))
         /\ q # <<>> => /\ Telling(Tail(q))
                        /\ Head(q).msg.type \in {"Joined", "Cursor", "Left"}
                        /\ Head(q).exclude = Head(q).msg.who
<1>1. ASSUME NEW f \in Frame, f.msg.type \in {"Joined", "Cursor", "Left"}, f.exclude = f.msg.who
      PROVE  Telling(Append(q, f))
  <2>1. /\ Len(Append(q, f)) = Len(q) + 1 /\ Len(q) \in Nat
        /\ \A i \in 1 .. Len(q) + 1 : Append(q, f)[i] = IF i = Len(q) + 1 THEN f ELSE q[i]
    OBVIOUS
  <2>2. \A i \in 1 .. Len(q) + 1 : i = Len(q) + 1 \/ i \in 1 .. Len(q)
    BY <2>1
  <2> QED
    BY <1>1, <2>1, <2>2 DEF Telling
<1>2. ASSUME q # <<>>
      PROVE  /\ Telling(Tail(q))
             /\ Head(q).msg.type \in {"Joined", "Cursor", "Left"}
             /\ Head(q).exclude = Head(q).msg.who
  <2>1. /\ Len(Tail(q)) = Len(q) - 1 /\ Len(q) \in Nat \ {0} /\ Head(q) = q[1]
        /\ \A i \in 1 .. Len(q) - 1 : Tail(q)[i] = q[i + 1]
    BY <1>2
  <2>2. 1 \in 1 .. Len(q) /\ \A i \in 1 .. Len(q) - 1 : i + 1 \in 1 .. Len(q)
    BY <2>1
  <2> QED
    BY <2>1, <2>2 DEF Telling
<1> QED
  BY <1>1, <1>2

\* Room::broadcast by the last thing a session says of where its client now is.
LEMMA BroadcastKeepsView ==
  ASSUME ViewInv, NEW k \in Conns, NEW m \in Msg, NEW next \in {"live", "closed"},
         Broadcast(k, m, next), next = "live" => Present(k), next = "closed" => ~Present(k),
         m.type \in {"Joined", "Cursor", "Left"}, m.who = k[1],
         k[1] \notin muddled => Says(m, k[1]) = Entry(peers, k[1]),
         ses[k] \in {"greeted", "moving", "leaving"},
         UNCHANGED <<cur, online, seen, down, peers, muddled, cursor>>
  PROVE  FramesTell' /\ CursorsAgree' /\ RxCurrent' /\ DownCurrent'
<1> DEFINE f == [exclude |-> k[1], msg |-> m]
<1>0. TypeOK /\ rx \in [Conns -> Seq(Frame)] /\ k[1] \in Clients
  BY ConnsOf DEF ViewInv, TypeOK, Frame
<1>1. ses' = [ses EXCEPT ![k] = next]
  BY DEF Broadcast
<1>2. \A j \in Conns : /\ Subscribed(j)' <=> Subscribed(j)
                       /\ Present(j)' => Present(j)
  BY <1>0, <1>1 DEF TypeOK, Subscribed, Present
<1>3. f \in Frame /\ f.msg = m /\ f.exclude = k[1] /\ f.msg.type = m.type /\ f.msg.who = k[1]
  BY <1>0, Pushed
<1>4. \A j \in Conns :
        /\ ~Subscribed(j) => rx'[j] = rx[j]
        /\ Subscribed(j) => \/ (rx[j] # <<>> /\ j \in missed' /\ rx'[j] = Append(Tail(rx[j]), f))
                            \/ rx'[j] = Append(rx[j], f)
  BY <1>0, Pushed
<1>5. \A d \in Clients : About(m, d) <=> d = k[1]
  BY DEF About
<1> HIDE DEF f
<1>6. FramesTell'
  <2> SUFFICES ASSUME NEW j \in Conns PROVE (~Subscribed(j)' => rx'[j] = <<>>) /\ Telling(rx'[j])
    BY DEF FramesTell, Telling
  <2>1. (~Subscribed(j) => rx[j] = <<>>) /\ Telling(rx[j]) /\ rx[j] \in Seq(Frame)
    BY <1>0 DEF ViewInv, FramesTell, Telling
  <2>2. rx[j] # <<>> => Tail(rx[j]) \in Seq(Frame) /\ Telling(Tail(rx[j]))
    BY <2>1, TellingMoves
  <2>3. Telling(Append(rx[j], f)) /\ (rx[j] # <<>> => Telling(Append(Tail(rx[j]), f)))
    BY <1>3, <2>1, <2>2, TellingMoves
  <2> QED
    BY <1>2, <1>4, <2>1, <2>3
<1>7. CursorsAgree'
  BY <1>2 DEF ViewInv, CursorsAgree
<1>8. RxCurrent'
  <2> SUFFICES ASSUME NEW j \in Conns, NEW d \in Clients, Settled(d)'
               PROVE  EndsOn(Msgs(rx'[j]), d, Entry(peers', d))
    BY DEF RxCurrent
  <2>1. rx[j] \in Seq(Frame) /\ (rx[j] # <<>> => Tail(rx[j]) \in Seq(Frame))
    BY <1>0
  <2>2. CASE ~Subscribed(j)
    <3>1. rx'[j] = <<>>
      BY <1>4, <2>2 DEF ViewInv, FramesTell
    <3> QED
      BY <3>1 DEF EndsOn, Msgs
  <2>3. CASE Subscribed(j)
    <3>1. PICK q \in Seq(Frame) :
            /\ rx'[j] = Append(q, f)
            /\ q = rx[j] \/ (rx[j] # <<>> /\ q = Tail(rx[j]))
      BY <1>4, <2>1, <2>3
    <3>2. Msgs(rx'[j]) = Append(Msgs(q), m) /\ Msgs(q) \in Seq(Msg)
      BY <1>3, <3>1, MsgsOf
    <3>3. CASE d = k[1]
      <4>1. EndsOn(Append(Msgs(q), m), d, Says(m, d))
        BY <1>5, <3>2, <3>3, OneMore
      <4> QED
        BY <3>2, <3>3, <4>1 DEF Settled
    <3>4. CASE d # k[1]
      <4>1. Settled(d)
        BY <1>0, <1>1, <3>4, OthersSettled
      <4>2. EndsOn(Msgs(rx[j]), d, Entry(peers, d))
        BY <4>1 DEF ViewInv, RxCurrent
      <4>3. EndsOn(Msgs(q), d, Entry(peers, d))
        <5>1. ASSUME rx[j] # <<>>, q = Tail(rx[j]) PROVE EndsOn(Msgs(q), d, Entry(peers, d))
          <6>1. /\ Msgs(rx[j]) \in Seq(Msg) /\ Msgs(rx[j]) # <<>>
                /\ Msgs(q) = Tail(Msgs(rx[j]))
            BY <2>1, <5>1, MsgsOf
          <6> QED
            BY <6>1, <4>2, OneLess
        <5> QED
          BY <3>1, <4>2, <5>1
      <4>4. EndsOn(Append(Msgs(q), m), d, Entry(peers, d))
        BY <1>5, <3>2, <3>4, <4>3, OneMore
      <4> QED
        BY <3>2, <4>4
    <3> QED
      BY <3>3, <3>4
  <2> QED
    BY <2>2, <2>3
<1>9. DownCurrent'
  <2> SUFFICES ASSUME NEW c \in Clients, NEW d \in Clients \ {c}, Watched(c, d)'
               PROVE  Told(c, d)'
    BY DEF DownCurrent
  <2> DEFINE j == Current(c)
  <2>1. j' = j /\ j \in Conns /\ Subscribed(j)
    <3>1. j' = j /\ ses'[j] \in {"greeted", "live", "moving"}
      BY DEF Watched, Follows, Current
    <3>2. j \in Conns
      BY DEF ViewInv, Online, Watched, Follows
    <3> QED
      BY <1>2, <3>1, <3>2 DEF Subscribed, Present
  <2>2. j \notin missed' /\ j \notin missed /\ Silent(Msgs(rx'[j]), d) /\ online[c]
    BY <2>1 DEF Watched, Follows, Broadcast
  <2>3. rx'[j] = Append(rx[j], f) /\ rx[j] \in Seq(Frame)
    BY <1>0, <1>4, <2>1, <2>2
  <2>4. Msgs(rx'[j]) = Append(Msgs(rx[j]), m) /\ Msgs(rx[j]) \in Seq(Msg)
    BY <1>3, <2>3, MsgsOf
  <2>5. d # k[1] /\ Silent(Msgs(rx[j]), d)
    BY <1>5, <2>2, <2>4, OneMore
  <2>6. Settled(d)
    BY <1>0, <1>1, <2>5, OthersSettled DEF Watched
  <2>7. ses[j] \in {"greeted", "live", "moving"}
    BY <1>0, <1>1, <2>1 DEF TypeOK, Watched, Follows, Subscribed, Present
  <2> HIDE DEF j
  <2>8. Watched(c, d)
    BY <2>2, <2>5, <2>6, <2>7 DEF Watched, Follows, j
  <2> QED
    BY <2>8 DEF ViewInv, DownCurrent, Told
<1> QED
  BY <1>6, <1>7, <1>8, <1>9

\* A step of session k that sends nothing: its own frames may go unread, and if
\* what the room has for its client changes, something is still to be said.
LEMMA QuietKeepsView ==
  ASSUME ViewInv, NEW k \in Conns, NEW next, ses' = [ses EXCEPT ![k] = next],
         muddled \subseteq muddled', UNCHANGED <<cur, online, seen, down>>,
         \/ rx' = rx /\ missed' = missed
         \/ rx' = [rx EXCEPT ![k] = <<>>] /\ missed' = missed \ {k} /\ next \in {"leaving", "closed"},
         next \in {"live", "moving"} => ses[k] \in {"greeted", "live", "moving"},
         next # "greeted",
         next \in {"subscribed", "joined", "live", "moving"} \/ ~Subscribed(k) \/ rx' # rx \/ rx[k] = <<>>,
         \A d \in Clients : Settled(d)' => Settled(d) /\ Entry(peers', d) = Entry(peers, d)
  PROVE  FramesTell' /\ RxCurrent' /\ DownCurrent'
<1>0. TypeOK /\ rx \in [Conns -> Seq(Frame)] /\ ses'[k] = next
  BY DEF ViewInv, TypeOK, Frame
<1>1. \A j \in Conns : j # k => ses'[j] = ses[j] /\ rx'[j] = rx[j] /\ (j \in missed' <=> j \in missed)
  BY <1>0 DEF TypeOK
<1>2. rx'[k] = rx[k] \/ (rx'[k] = <<>> /\ next \in {"leaving", "closed"})
  BY <1>0
<1>3. FramesTell'
  <2> SUFFICES ASSUME NEW j \in Conns PROVE (~Subscribed(j)' => rx'[j] = <<>>) /\ Telling(rx'[j])
    BY DEF FramesTell, Telling
  <2>1. (~Subscribed(j) => rx[j] = <<>>) /\ Telling(rx[j]) /\ Telling(<<>>)
    BY DEF ViewInv, FramesTell, Telling
  <2>2. CASE j # k
    BY <1>1, <2>1, <2>2 DEF Subscribed, Present
  <2>3. CASE j = k
    <3>1. rx' # rx => rx'[k] = <<>>
      BY <1>0
    <3> QED
      BY <1>0, <1>2, <2>1, <2>3, <3>1 DEF Subscribed, Present
  <2> QED
    BY <2>2, <2>3
<1>4. RxCurrent'
  <2> SUFFICES ASSUME NEW j \in Conns, NEW d \in Clients, Settled(d)'
               PROVE  EndsOn(Msgs(rx'[j]), d, Entry(peers', d))
    BY DEF RxCurrent
  <2>1. rx'[j] = rx[j] \/ rx'[j] = <<>>
    BY <1>1, <1>2
  <2>2. EndsOn(Msgs(rx[j]), d, Entry(peers', d))
    BY DEF ViewInv, RxCurrent
  <2>3. EndsOn(Msgs(<<>>), d, Entry(peers', d))
    BY DEF EndsOn, Msgs
  <2> QED
    BY <2>1, <2>2, <2>3
<1>5. DownCurrent'
  <2> SUFFICES ASSUME NEW c \in Clients, NEW d \in Clients \ {c}, Watched(c, d)'
               PROVE  Told(c, d)'
    BY DEF DownCurrent
  <2> DEFINE j == Current(c)
  <2>1. /\ j' = j /\ j \in Conns /\ online[c] /\ j \notin missed'
        /\ ses'[j] \in {"greeted", "live", "moving"} /\ Settled(d)' /\ Silent(Msgs(rx'[j]), d)
    BY DEF ViewInv, Online, Watched, Follows, Current
  <2>2. rx'[j] = rx[j] /\ j \notin missed /\ ses[j] \in {"greeted", "live", "moving"}
    <3> HIDE DEF j
    <3>1. CASE j # k
      BY <1>1, <2>1, <3>1
    <3>2. CASE j = k
      BY <1>0, <1>2, <2>1, <3>2
    <3> QED
      BY <3>1, <3>2
  <2>3. Watched(c, d) /\ Entry(peers', d) = Entry(peers, d)
    BY <2>1, <2>2 DEF Watched, Follows
  <2> QED
    BY <2>3 DEF ViewInv, DownCurrent, Told
<1> QED
  BY <1>3, <1>4, <1>5

\* One more message to a client that does not come from the room's channel.
LEMMA WriteElsewhere ==
  ASSUME TypeOK, NEW k \in Conns, NEW m, Write(k, m), NEW c \in Clients
  PROVE  /\ Current(c) # k \/ ~online[c] => down'[c] = down[c]
         /\ Current(c) = k /\ online[c] => down'[c] = Append(down[c], m)
<1>1. k[1] \in Clients /\ k = <<k[1], k[2]>>
  BY ConnsOf
<1>2. Reaches(k) => down' = [down EXCEPT ![k[1]] = Append(down[k[1]], m)]
  BY DEF Write
<1>3. ~Reaches(k) => down' = down
  BY DEF Write
<1>4. Reaches(k) /\ k[1] = c => Current(c) = k /\ online[c]
  BY <1>1 DEF Reaches, Current
<1>5. Current(c) = k /\ online[c] => Reaches(k) /\ k[1] = c
  BY <1>1 DEF Reaches, Current
<1> QED
  BY <1>1, <1>2, <1>3, <1>4, <1>5 DEF TypeOK

LEMMA GreetKeepsView ==
  ASSUME ViewInv, NEW k \in Conns, Greet(k)
  PROVE  FramesTell' /\ CursorsAgree' /\ RxCurrent' /\ DownCurrent'
<1> DEFINE m == [type |-> "Welcome", peers |-> Drop(peers, k[1])]
<1>0. /\ TypeOK /\ k[1] \in Clients /\ ses[k] = "joined" /\ ses' = [ses EXCEPT ![k] = "greeted"]
      /\ UNCHANGED <<cur, online, seen, moves, cursor, rx, lagged, peers, missed, muddled>>
      /\ Write(k, m)
  BY ConnsOf DEF ViewInv, Greet, client
<1>m. m \in Msg
  BY MsgTypes, DropIsPeers DEF ViewInv, TypeOK
<1>says. \A d : About(m, d) /\ Says(m, d) = Entry(Drop(peers, k[1]), d)
  BY DEF About, Says
<1> HIDE DEF m
<1>1. \A j \in Conns : (Subscribed(j)' <=> Subscribed(j)) /\ (Present(j)' => Present(j))
  BY <1>0 DEF TypeOK, Subscribed, Present
<1>2. FramesTell' /\ CursorsAgree'
  BY <1>0, <1>1 DEF ViewInv, FramesTell, CursorsAgree
<1>3. \A d \in Clients : Settled(d)' => Settled(d)
  BY <1>0, OthersSettled, Unannounced
<1>4. RxCurrent'
  BY <1>0, <1>3 DEF ViewInv, RxCurrent
<1>5. DownCurrent'
  <2> SUFFICES ASSUME NEW c \in Clients, NEW d \in Clients \ {c}, Watched(c, d)'
               PROVE  Told(c, d)'
    BY DEF DownCurrent
  <2>1. online[c] /\ Current(c)' = Current(c) /\ down[c] \in Seq(Msg)
    BY <1>0 DEF Watched, Follows, Current, TypeOK
  <2>2. CASE Current(c) = k
    <3>1. down'[c] = Append(down[c], m)
      BY <1>0, <2>1, <2>2, WriteElsewhere
    <3>2. Says(m, d) = Entry(peers, d)
      <4>1. d # k[1]
        BY <2>2 DEF Current
      <4> QED
        BY <1>says, <4>1, EntryDrop
    <3>3. EndsOn(down'[c], d, Says(m, d)) /\ ~Silent(down'[c], d)
      BY <1>m, <1>says, <2>1, <3>1, OneMore
    <3> QED
      BY <1>0, <3>2, <3>3 DEF Told
  <2>3. CASE Current(c) # k
    <3>1. down'[c] = down[c]
      BY <1>0, <2>3, WriteElsewhere
    <3>2. ses'[Current(c)] = ses[Current(c)]
      BY <1>0, <2>3 DEF TypeOK
    <3>3. Watched(c, d)
      BY <1>0, <1>3, <2>1, <3>2 DEF Watched, Follows
    <3> QED
      BY <1>0, <3>1, <3>3 DEF ViewInv, DownCurrent, Told
  <2> QED
    BY <2>2, <2>3
<1> QED
  BY <1>2, <1>4, <1>5

\* A frame handed on says of d what the subscription no longer does.
LEMMA RelayKeepsView ==
  ASSUME ViewInv, NEW k \in Conns, Relay(k)
  PROVE  FramesTell' /\ CursorsAgree' /\ RxCurrent' /\ DownCurrent'
<1> DEFINE f == Head(rx[k])
<1>0. /\ TypeOK /\ rx \in [Conns -> Seq(Frame)] /\ rx[k] # <<>> /\ rx' = [rx EXCEPT ![k] = Tail(rx[k])]
      /\ UNCHANGED <<cur, online, seen, moves, ses, cursor, lagged, peers, missed, muddled>>
      /\ IF f.exclude # k[1] THEN Write(k, f.msg) ELSE down' = down
  BY DEF ViewInv, TypeOK, Frame, Relay, client
<1>1. /\ f \in Frame /\ Telling(rx[k]) /\ Telling(Tail(rx[k])) /\ rx'[k] = Tail(rx[k])
      /\ f.msg.type \in {"Joined", "Cursor", "Left"} /\ f.exclude = f.msg.who
      /\ \A j \in Conns : j # k => rx'[j] = rx[j]
  <2>1. Telling(rx[k]) /\ rx[k] \in Seq(Frame)
    BY <1>0 DEF ViewInv, FramesTell, Telling
  <2> QED
    BY <1>0, <2>1, TellingMoves
<1>2. f.msg \in Msg
  BY <1>1 DEF Frame
<1>3. /\ Msgs(rx[k]) \in Seq(Msg) /\ Msgs(rx[k]) # <<>> /\ Head(Msgs(rx[k])) = f.msg
      /\ Msgs(rx'[k]) = Tail(Msgs(rx[k]))
  BY <1>0, <1>1, MsgsOf
<1> HIDE DEF f
<1>4. \A d : Settled(d)' <=> Settled(d)
  BY <1>0 DEF Settled, Unsettled
<1>5. FramesTell' /\ CursorsAgree'
  <2>1. \A j \in Conns : (Subscribed(j)' <=> Subscribed(j)) /\ (Present(j)' <=> Present(j))
    BY <1>0 DEF Subscribed, Present
  <2>2. Subscribed(k)
    BY DEF Relay, Subscribed, Present
  <2> QED
    BY <1>0, <1>1, <2>1, <2>2 DEF ViewInv, FramesTell, Telling, CursorsAgree
<1>6. RxCurrent'
  <2> SUFFICES ASSUME NEW j \in Conns, NEW d \in Clients, Settled(d)'
               PROVE  EndsOn(Msgs(rx'[j]), d, Entry(peers', d))
    BY DEF RxCurrent
  <2>1. EndsOn(Msgs(rx[j]), d, Entry(peers, d))
    BY <1>4 DEF ViewInv, RxCurrent
  <2>2. CASE j = k
    <3>1. EndsOn(Tail(Msgs(rx[k])), d, Entry(peers, d))
      BY <1>3, <2>1, <2>2, OneLess
    <3> QED
      BY <1>0, <1>3, <2>2, <3>1
  <2>3. CASE j # k
    BY <1>0, <1>1, <2>1, <2>3
  <2> QED
    BY <2>2, <2>3
<1>7. DownCurrent'
  <2> SUFFICES ASSUME NEW c \in Clients, NEW d \in Clients \ {c}, Watched(c, d)'
               PROVE  Told(c, d)'
    BY DEF DownCurrent
  <2>1. /\ online[c] /\ Current(c)' = Current(c) /\ down[c] \in Seq(Msg) /\ Follows(c)
        /\ Settled(d) /\ Silent(Msgs(rx'[Current(c)]), d) /\ Current(c) \in Conns
    BY <1>0, <1>4 DEF ViewInv, Online, Watched, Follows, Current, TypeOK
  <2>2. CASE Current(c) # k
    <3>1. down'[c] = down[c]
      BY <1>0, <2>2, WriteElsewhere
    <3>2. Watched(c, d)
      BY <1>1, <2>1, <2>2 DEF Watched
    <3> QED
      BY <1>0, <3>1, <3>2 DEF ViewInv, DownCurrent, Told
  <2>3. CASE Current(c) = k
    <3>1. k[1] = c
      BY <2>3 DEF Current
    <3>2. EndsOn(Msgs(rx[k]), d, Entry(peers, d)) /\ Silent(Tail(Msgs(rx[k])), d)
      BY <1>3, <2>1, <2>3 DEF ViewInv, RxCurrent
    <3>3. CASE About(f.msg, d)
      <4>1. f.msg.who = d /\ f.exclude # c
        BY <1>1, <3>3 DEF About
      <4>2. down'[c] = Append(down[c], f.msg)
        BY <1>0, <2>1, <2>3, <3>1, <4>1, WriteElsewhere
      <4>3. Says(f.msg, d) = Entry(peers, d)
        BY <1>3, <3>2, <3>3, OneLess
      <4>4. EndsOn(down'[c], d, Says(f.msg, d)) /\ ~Silent(down'[c], d)
        BY <1>2, <2>1, <3>3, <4>2, OneMore
      <4> QED
        BY <1>0, <4>3, <4>4 DEF Told
    <3>4. CASE ~About(f.msg, d)
      <4>1. Silent(Msgs(rx[k]), d)
        BY <1>3, <3>2, <3>4, OneLess
      <4>2. Told(c, d)
        BY <2>1, <2>3, <4>1 DEF ViewInv, DownCurrent, Watched
      <4>3. down'[c] \in {down[c], Append(down[c], f.msg)}
        BY <1>0, <2>1, <2>3, WriteElsewhere
      <4>4. /\ Silent(down'[c], d) <=> Silent(down[c], d)
            /\ EndsOn(down'[c], d, Entry(peers, d))
        BY <1>2, <2>1, <3>4, <4>2, <4>3, OneMore DEF Told
      <4> QED
        BY <1>0, <4>2, <4>4 DEF Told
    <3> QED
      BY <3>3, <3>4
  <2> QED
    BY <2>2, <2>3
<1> QED
  BY <1>5, <1>6, <1>7

LEMMA ResyncKeepsView ==
  ASSUME ViewInv, NEW k \in Conns, Resync(k)
  PROVE  FramesTell' /\ CursorsAgree' /\ RxCurrent' /\ DownCurrent'
<1> DEFINE m == [type |-> "Snapshot"]
<1>0. /\ TypeOK /\ Write(k, m)
      /\ UNCHANGED <<cur, online, seen, moves, ses, cursor, rx, peers, missed, muddled>>
  BY DEF ViewInv, Resync, client
<1>1. m \in Msg /\ \A d : ~About(m, d)
  BY MsgTypes DEF About
<1> HIDE DEF m
<1>2. /\ \A d : Settled(d)' <=> Settled(d)
      /\ \A j \in Conns : (Subscribed(j)' <=> Subscribed(j)) /\ (Present(j)' <=> Present(j))
  BY <1>0 DEF Settled, Unsettled, Subscribed, Present
<1>3. FramesTell' /\ CursorsAgree' /\ RxCurrent'
  BY <1>0, <1>2 DEF ViewInv, FramesTell, CursorsAgree, RxCurrent
<1>4. DownCurrent'
  <2> SUFFICES ASSUME NEW c \in Clients, NEW d \in Clients \ {c}, Watched(c, d)'
               PROVE  Told(c, d)'
    BY DEF DownCurrent
  <2>1. down[c] \in Seq(Msg) /\ Told(c, d)
    BY <1>0, <1>2 DEF ViewInv, DownCurrent, Watched, Follows, Current, TypeOK
  <2>2. down'[c] \in {down[c], Append(down[c], m)}
    BY <1>0, WriteElsewhere
  <2>3. /\ Silent(down'[c], d) <=> Silent(down[c], d)
        /\ EndsOn(down'[c], d, Entry(peers, d))
    BY <1>1, <2>1, <2>2, OneMore DEF Told
  <2> QED
    BY <1>0, <2>1, <2>3 DEF Told
<1> QED
  BY <1>3, <1>4

\* WeavedrawApp::handle_server: what it held about d, c now believes.
LEMMA ReceiveKeepsView ==
  ASSUME ViewInv, NEW e \in Clients, Receive(e)
  PROVE  FramesTell' /\ CursorsAgree' /\ RxCurrent' /\ DownCurrent'
<1>0. /\ TypeOK /\ down[e] # <<>> /\ down[e] \in Seq(Msg) /\ seen[e] \in Peers
      /\ UNCHANGED <<cur, online, moves, ses, cursor, rx, lagged, peers, missed, muddled>>
      /\ seen' = [seen EXCEPT ![e] = Believe(seen[e], e, Head(down[e]))]
      /\ down' = [down EXCEPT ![e] = Tail(down[e])]
  BY DEF ViewInv, TypeOK, Receive, server
<1>1. /\ \A d : Settled(d)' <=> Settled(d)
      /\ \A j \in Conns : (Subscribed(j)' <=> Subscribed(j)) /\ (Present(j)' <=> Present(j))
  BY <1>0 DEF Settled, Unsettled, Subscribed, Present
<1>2. FramesTell' /\ CursorsAgree' /\ RxCurrent'
  BY <1>0, <1>1 DEF ViewInv, FramesTell, CursorsAgree, RxCurrent
<1>3. DownCurrent'
  <2> SUFFICES ASSUME NEW c \in Clients, NEW d \in Clients \ {c}, Watched(c, d)'
               PROVE  Told(c, d)'
    BY DEF DownCurrent
  <2>1. Told(c, d)
    BY <1>0, <1>1 DEF ViewInv, DownCurrent, Watched, Follows, Current
  <2>2. CASE c # e
    BY <1>0, <2>1, <2>2 DEF TypeOK, Told
  <2>3. CASE c = e
    <3> DEFINE m == Head(down[c])
    <3>1. m \in Msg /\ down'[c] = Tail(down[c]) /\ seen'[c] = Believe(seen[c], c, m)
      BY <1>0, <2>3 DEF TypeOK
    <3>2. EndsOn(down'[c], d, Entry(peers, d))
      BY <1>0, <2>1, <2>3, <3>1, OneLess DEF Told
    <3>3. ASSUME Silent(down'[c], d) PROVE Entry(seen'[c], d) = Entry(peers, d)
      <4>1. Entry(seen'[c], d) = IF About(m, d) THEN Says(m, d) ELSE Entry(seen[c], d)
        BY <1>0, <2>3, <3>1, BelieveEntry
      <4>2. CASE About(m, d)
        <5>1. Says(m, d) = Entry(peers, d)
          BY <1>0, <2>1, <2>3, <3>1, <3>3, <4>2, OneLess DEF Told
        <5> QED
          BY <4>1, <4>2, <5>1
      <4>3. CASE ~About(m, d)
        <5>1. Silent(down[c], d)
          BY <1>0, <2>3, <3>1, <3>3, <4>3, OneLess
        <5> QED
          BY <2>1, <4>1, <4>3, <5>1 DEF Told
      <4> QED
        BY <4>2, <4>3
    <3> HIDE DEF m
    <3> QED
      BY <1>0, <3>2, <3>3 DEF Told
  <2> QED
    BY <2>2, <2>3
<1> QED
  BY <1>2, <1>3

LEMMA LinkKeepsView ==
  ASSUME ViewInv, NEW e \in Clients, Connect(e) \/ Disconnect(e)
  PROVE  FramesTell' /\ CursorsAgree' /\ RxCurrent' /\ DownCurrent'
<1>0. TypeOK /\ UNCHANGED <<seen, moves, cursor, rx, lagged, peers, missed, muddled>>
  BY DEF ViewInv, Connect, Disconnect, server
<1>1. ASSUME NEW j \in Conns PROVE ses'[j] = ses[j] \/ (ses[j] = "none" /\ ses'[j] = "hello")
  <2>1. ASSUME Connect(e) PROVE ses[<<e, cur[e] + 1>>] = "none" \/ <<e, cur[e] + 1>> \notin Conns
    <3>1. RoomType /\ cur[e] \in Nat
      BY DEF ViewInv, ListInv, RoomType
    <3> QED
      BY <3>1 DEF RoomType
  <2> QED
    BY <1>0, <2>1 DEF TypeOK, Connect, Disconnect, server
<1>2. /\ \A d : Settled(d)' <=> Settled(d)
      /\ \A j \in Conns : (Subscribed(j)' <=> Subscribed(j)) /\ (Present(j)' <=> Present(j))
  BY <1>0, <1>1 DEF Settled, Unsettled, Subscribed, Present
<1>3. FramesTell' /\ CursorsAgree' /\ RxCurrent'
  BY <1>0, <1>2 DEF ViewInv, FramesTell, CursorsAgree, RxCurrent
<1>4. DownCurrent'
  <2> SUFFICES ASSUME NEW c \in Clients, NEW d \in Clients \ {c}, Watched(c, d)'
               PROVE  Told(c, d)'
    BY DEF DownCurrent
  <2>1. c # e
    <3>1. CASE Connect(e)
      <4>1. /\ cur[e] + 1 \in 1 .. MaxConns[e] /\ cur' = [cur EXCEPT ![e] = cur[e] + 1]
        <5>1. cur[e] \in Nat /\ MaxConns[e] \in Nat /\ cur[e] < MaxConns[e]
          BY <1>0, <3>1, PresenceAssumption DEF Connect, TypeOK
        <5> QED
          BY <3>1, <5>1 DEF Connect
      <4>2. <<e, cur[e] + 1>> \in Conns
        BY <4>1, ConnsOf
      <4>3. ses'[<<e, cur'[e]>>] = "hello"
        BY <1>0, <3>1, <4>1, <4>2 DEF Connect, TypeOK
      <4> QED
        BY <4>3 DEF Watched, Follows, Current
    <3>2. CASE Disconnect(e)
      BY <1>0, <3>2 DEF Disconnect, TypeOK, Watched, Follows
    <3> QED
      BY <3>1, <3>2
  <2>2. down'[c] = down[c] /\ online'[c] = online[c] /\ cur'[c] = cur[c]
    BY <1>0, <2>1 DEF TypeOK, Connect, Disconnect
  <2>3. Current(c)' = Current(c) /\ Current(c) \in Conns
    BY <2>2 DEF ViewInv, Online, Watched, Follows, Current
  <2>4. ses[Current(c)] \in {"greeted", "live", "moving"}
    BY <1>1, <2>3 DEF Watched, Follows
  <2>5. Watched(c, d)
    BY <1>0, <1>2, <2>2, <2>3, <2>4 DEF Watched, Follows
  <2> QED
    BY <1>0, <2>2, <2>5 DEF ViewInv, DownCurrent, Told
<1> QED
  BY <1>3, <1>4

\* The room's cursor for a client follows its only session's.
LEMMA CursorsStay ==
  ASSUME ViewInv, ListInv', NEW k \in Conns, NEW next, ses' = [ses EXCEPT ![k] = next],
         muddled \subseteq muddled',
         \A j \in Conns \ {k} : cursor'[j] = cursor[j],
         \A d \in Clients \ {k[1]} : Entry(peers', d) = Entry(peers, d),
         Present(k)' /\ k[1] \notin muddled' => peers'[k[1]] = cursor'[k],
         \/ Present(k)'
         \/ InRoom(k)'
         \/ peers' = peers
  PROVE  CursorsAgree'
<1> SUFFICES ASSUME NEW j \in Conns, Present(j)', j[1] \notin muddled'
             PROVE  peers'[j[1]] = cursor'[j]
  BY DEF CursorsAgree
<1>1. j # k => Present(j) /\ peers[j[1]] = cursor[j]
  BY DEF ViewInv, TypeOK, CursorsAgree, Present
<1>2. CASE j[1] # k[1]
  <2>1. HasSession(j[1]) /\ HasSession(j[1])' /\ j[1] \in Clients
    BY <1>1, <1>2, ConnsOf DEF HasSession
  <2>2. j[1] \in DOMAIN peers /\ j[1] \in DOMAIN peers'
    BY <2>1 DEF ViewInv, ListInv, ListsThePresent
  <2> QED
    BY <1>1, <1>2, <2>1, <2>2 DEF Entry
<1>3. CASE j = k
  BY <1>3
<1>4. CASE j # k /\ j[1] = k[1]
  <2>1. ~InRoom(k)'
    BY <1>4 DEF ListInv, OneSession, InRoom
  <2> QED
    BY <1>1, <1>4, <2>1 DEF InRoom
<1> QED
  BY <1>2, <1>3, <1>4

\* Steps that say nothing, one by one.
LEMMA QuietSteps ==
  ASSUME ViewInv, ListInv', NEW k \in Conns,
         Refuse(k) \/ Subscribe(k) \/ TurnAway(k) \/ GreetFails(k)
  PROVE  FramesTell' /\ CursorsAgree' /\ RxCurrent' /\ DownCurrent'
<1>0. TypeOK
  BY DEF ViewInv
<1>1. PICK next \in {"closed", "subscribed"} :
        /\ ses' = [ses EXCEPT ![k] = next]
        /\ next = "subscribed" => ses[k] = "hello" /\ rx' = rx
  BY DEF Refuse, Subscribe, TurnAway, GreetFails
<1>2. /\ UNCHANGED <<cur, online, seen, down, peers>> /\ muddled \subseteq muddled'
      /\ \A j \in Conns \ {k} : cursor'[j] = cursor[j]
  BY <1>0 DEF TypeOK, Refuse, Subscribe, TurnAway, GreetFails, Unread, client
<1>3. \/ rx' = rx /\ missed' = missed /\ ses[k] = "hello"
      \/ rx' = [rx EXCEPT ![k] = <<>>] /\ missed' = missed \ {k} /\ next = "closed"
  BY <1>0, <1>1 DEF TypeOK, Refuse, Subscribe, TurnAway, GreetFails, Unread
<1>4. ses[k] = "hello" => ~Subscribed(k)
  BY DEF Subscribed, Present
<1>5. ASSUME NEW d \in Clients, Settled(d)' PROVE Settled(d)
  <2>1. CASE GreetFails(k)
    <3>1. d # k[1]
      BY <1>5, <2>1 DEF GreetFails, Settled
    <3> QED
      BY <1>0, <1>1, <1>2, <1>5, <3>1, OthersSettled
  <2>2. CASE ~GreetFails(k)
    <3>1. ~Unsettled(k) /\ muddled' = muddled
      BY <2>2 DEF Refuse, Subscribe, TurnAway, Unsettled
    <3>2. \A j \in Conns : j # k => ses'[j] = ses[j]
      BY <1>0, <1>1 DEF TypeOK
    <3> QED
      BY <1>5, <3>1, <3>2 DEF Settled, Unsettled
  <2> QED
    BY <2>1, <2>2
<1>6. FramesTell' /\ RxCurrent' /\ DownCurrent'
  <2>1. next = "subscribed" \/ ~Subscribed(k) \/ rx' # rx \/ rx[k] = <<>>
    BY <1>0, <1>1, <1>3, <1>4 DEF TypeOK
  <2> QED
    BY <1>1, <1>2, <1>3, <1>5, <2>1, QuietKeepsView
<1>7. CursorsAgree'
  <2>1. ~Present(k)'
    BY <1>0, <1>1 DEF TypeOK, Present
  <2> QED
    BY <1>1, <1>2, <2>1, CursorsStay
<1> QED
  BY <1>6, <1>7

\* Join, update_cursor and leave change the map, and the session is to say so.
LEMMA MapSteps ==
  ASSUME ViewInv, ListInv', TypeOK', NEW k \in Conns, Join(k) \/ Move(k) \/ Leave(k)
  PROVE  FramesTell' /\ CursorsAgree' /\ RxCurrent' /\ DownCurrent'
<1>0. TypeOK /\ k[1] \in Clients
  BY ConnsOf DEF ViewInv
<1>1. PICK next \in {"joined", "moving", "leaving"} :
        /\ ses' = [ses EXCEPT ![k] = next]
        /\ next = "joined" => Join(k)
        /\ next = "moving" => Move(k)
        /\ next = "leaving" => Leave(k)
  BY DEF Join, Move, Leave
<1>2. /\ UNCHANGED <<cur, online, seen, down>> /\ muddled \subseteq muddled'
      /\ \A j \in Conns \ {k} : cursor'[j] = cursor[j]
  BY <1>0, <1>1 DEF TypeOK, Join, Move, Leave, Unread, client
<1>3. \/ rx' = rx /\ missed' = missed
      \/ rx' = [rx EXCEPT ![k] = <<>>] /\ missed' = missed \ {k} /\ next = "leaving"
  BY <1>1 DEF Join, Move, Leave, Unread
<1>4. ASSUME NEW d \in Clients \ {k[1]} PROVE Entry(peers', d) = Entry(peers, d)
  <2>1. CASE Join(k)
    BY <2>1, EntryPut DEF Join
  <2>2. CASE Move(k)
    <3>1. DOMAIN peers' = DOMAIN peers /\ (d \in DOMAIN peers => peers'[d] = peers[d])
      BY <2>2 DEF Move
    <3> QED
      BY <3>1 DEF Entry
  <2>3. CASE Leave(k)
    BY <2>3, EntryDrop DEF Leave
  <2> QED
    BY <2>1, <2>2, <2>3
<1>5. ASSUME NEW d \in Clients, Settled(d)'
      PROVE  Settled(d) /\ Entry(peers', d) = Entry(peers, d)
  <2>1. d # k[1]
    BY <1>0, <1>1, <1>5, Unannounced
  <2> QED
    BY <1>0, <1>1, <1>2, <1>4, <1>5, <2>1, OthersSettled
<1>6. FramesTell' /\ RxCurrent' /\ DownCurrent'
  <2>1. next = "moving" => ses[k] = "live"
    BY <1>1 DEF Move
  <2>2. next \in {"subscribed", "joined", "live", "moving"} \/ rx' # rx \/ rx[k] = <<>>
    <3>1. next = "leaving" => rx' = [rx EXCEPT ![k] = <<>>]
      BY <1>1 DEF Leave, Unread
    <3> QED
      BY <1>0, <3>1 DEF TypeOK
  <2> QED
    BY <1>1, <1>2, <1>3, <1>5, <2>1, <2>2, QuietKeepsView
<1>7. CursorsAgree'
  <2>1. ASSUME Present(k)', k[1] \notin muddled' PROVE peers'[k[1]] = cursor'[k]
    <3>1. ses'[k] = next /\ next # "leaving"
      BY <1>0, <1>1, <2>1 DEF TypeOK, Present
    <3>2. CASE Join(k)
      BY <3>2 DEF Join, Put
    <3>3. CASE Move(k)
      <4>1. k[1] \in DOMAIN peers
        <5>1. HasSession(k[1])
          BY <3>3 DEF Move, HasSession, Present
        <5>2. k[1] \notin muddled
          BY <1>2, <2>1
        <5> QED
          BY <1>0, <5>1, <5>2 DEF ViewInv, ListInv, ListsThePresent
      <4>2. peers' = [peers EXCEPT ![k[1]] = moves'[k[1]]] /\ cursor' = [cursor EXCEPT ![k] = moves'[k[1]]]
        BY <3>3, <4>1 DEF Move
      <4> QED
        BY <1>0, <4>1, <4>2 DEF TypeOK
    <3> QED
      BY <1>1, <3>1, <3>2, <3>3
  <2>2. InRoom(k)'
    BY <1>0, <1>1 DEF TypeOK, InRoom, Present
  <2> QED
    BY <1>1, <1>2, <1>4, <2>1, <2>2, CursorsStay
<1> QED
  BY <1>6, <1>7

LEMMA SayingSteps ==
  ASSUME ViewInv, NEW k \in Conns, Announce(k) \/ Tell(k) \/ Depart(k)
  PROVE  FramesTell' /\ CursorsAgree' /\ RxCurrent' /\ DownCurrent'
<1>0. TypeOK /\ k[1] \in Clients /\ cursor[k] \in Spots
  BY ConnsOf DEF ViewInv, TypeOK
<1>1. UNCHANGED <<cur, online, seen, down, peers, muddled, cursor>>
  BY DEF Announce, Tell, Depart, client
<1>2. CASE Announce(k) \/ Tell(k)
  <2>1. PICK m \in Msg : /\ Broadcast(k, m, "live")
                         /\ m.type \in {"Joined", "Cursor"} /\ m.who = k[1] /\ m.cursor = cursor[k]
    BY <1>0, <1>2, MsgTypes DEF Announce, Tell
  <2>2. Present(k) /\ ses[k] \in {"greeted", "moving"}
    BY <1>2 DEF Announce, Tell, Present
  <2>3. ASSUME k[1] \notin muddled PROVE Says(m, k[1]) = Entry(peers, k[1])
    <3>1. HasSession(k[1])
      BY <2>2 DEF HasSession
    <3>2. k[1] \in DOMAIN peers
      BY <1>0, <2>3, <3>1 DEF ViewInv, ListInv, ListsThePresent
    <3>3. peers[k[1]] = cursor[k]
      BY <2>2, <2>3 DEF ViewInv, CursorsAgree
    <3> QED
      BY <2>1, <3>2, <3>3 DEF Says, Entry
  <2> QED
    BY <1>1, <2>1, <2>2, <2>3, BroadcastKeepsView
<1>3. CASE Depart(k)
  <2>1. PICK m \in Msg : Broadcast(k, m, "closed") /\ m.type = "Left" /\ m.who = k[1]
    BY <1>0, <1>3, MsgTypes DEF Depart
  <2>2. ~Present(k) /\ ses[k] = "leaving" /\ InRoom(k)
    BY <1>3 DEF Depart, Present, InRoom
  <2>3. ASSUME k[1] \notin muddled PROVE Says(m, k[1]) = Entry(peers, k[1])
    <3>1. ~HasSession(k[1])
      BY <2>2, <2>3 DEF ViewInv, ListInv, OneSession, HasSession, InRoom
    <3>2. k[1] \notin DOMAIN peers
      BY <1>0, <2>3, <3>1 DEF ViewInv, ListInv, ListsThePresent
    <3> QED
      BY <2>1, <3>2 DEF Says, Entry
  <2> QED
    BY <1>1, <2>1, <2>2, <2>3, BroadcastKeepsView
<1> QED
  BY <1>2, <1>3

LEMMA ViewNext == ViewInv /\ [Next]_vars => ViewInv'
<1> SUFFICES ASSUME ViewInv, [Next]_vars PROVE ViewInv'
  OBVIOUS
<1>0. TypeOK' /\ ListInv' /\ Online'
  BY ViewTypesNext
<1>1. ASSUME NEW k \in Conns, Step(k)
      PROVE  FramesTell' /\ CursorsAgree' /\ RxCurrent' /\ DownCurrent'
  BY <1>0, <1>1, QuietSteps, MapSteps, SayingSteps, GreetKeepsView, RelayKeepsView, ResyncKeepsView
  DEF Step
<1>2. ASSUME NEW c \in Clients, Connect(c) \/ Disconnect(c) \/ Receive(c)
      PROVE  FramesTell' /\ CursorsAgree' /\ RxCurrent' /\ DownCurrent'
  BY <1>2, LinkKeepsView, ReceiveKeepsView
<1>3. ASSUME UNCHANGED vars PROVE FramesTell' /\ CursorsAgree' /\ RxCurrent' /\ DownCurrent'
  BY <1>3 DEF vars, ViewInv, FramesTell, CursorsAgree, RxCurrent, DownCurrent, Told, Watched, Follows,
              Settled, Unsettled, Subscribed, Present, Current
<1>4. FramesTell' /\ CursorsAgree' /\ RxCurrent' /\ DownCurrent'
  BY <1>1, <1>2, <1>3 DEF Next
<1> QED
  BY <1>0, <1>4 DEF ViewInv

\* ws.rs::session subscribes before it joins, and greets before it relays: a
\* client that has handled what it was sent has of every other client the room's
\* cursor, and only of those present, whatever was announced in between.
THEOREM EveryoneSeesTheRoom == Spec => []SeesTheRoom
BY ViewInit, ViewNext, ViewIsRooms, PTL DEF Spec
=============================================================================
