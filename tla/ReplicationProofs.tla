-------------------------- MODULE ReplicationProofs --------------------------
(* Theorems about Replication, for every number of clients, strokes,        *)
(* connections and for every capacity of the broadcast channel.             *)
EXTENDS Replication, LwwTheorems

-----------------------------------------------------------------------------
(* Sequences as queues. *)

LEMMA RangeOfAppend ==
  ASSUME NEW T, NEW q \in Seq(T), NEW e \in T
  PROVE  /\ Append(q, e) \in Seq(T) /\ Append(q, e) # <<>>
         /\ Range(Append(q, e)) = Range(q) \cup {e}
         /\ q # <<>> => Head(Append(q, e)) = Head(q)
<1> DEFINE a == Append(q, e)
<1>0. /\ Len(a) = Len(q) + 1 /\ Len(q) \in Nat /\ a \in Seq(T)
      /\ DOMAIN a = 1 .. Len(q) + 1 /\ DOMAIN q = 1 .. Len(q)
      /\ a[Len(q) + 1] = e /\ \A i \in 1 .. Len(q) : a[i] = q[i]
  OBVIOUS
<1>1. Range(a) = Range(q) \cup {e}
  <2> HIDE DEF a
  <2>1. ASSUME NEW i \in DOMAIN a PROVE a[i] \in Range(q) \cup {e}
    BY <1>0 DEF Range
  <2>2. ASSUME NEW i \in DOMAIN q PROVE q[i] \in Range(a)
    BY <1>0 DEF Range
  <2>3. e \in Range(a)
    BY <1>0 DEF Range
  <2> QED
    BY <2>1, <2>2, <2>3 DEF Range
<1>2. Append(q, e) # <<>>
  <2>1. Len(Append(q, e)) = Len(q) + 1 /\ Len(q) \in Nat
    OBVIOUS
  <2>2. Len(<<>>) = 0
    OBVIOUS
  <2> QED
    BY <2>1, <2>2
<1>3. q # <<>> => Head(Append(q, e)) = Head(q)
  OBVIOUS
<1> QED
  BY <1>1, <1>2, <1>3

LEMMA RangeOfTail ==
  ASSUME NEW T, NEW q \in Seq(T), q # <<>>
  PROVE  /\ Tail(q) \in Seq(T) /\ Head(q) \in T
         /\ Range(q) = Range(Tail(q)) \cup {Head(q)}
<1>1. Len(q) \in Nat \ {0} /\ DOMAIN q = 1 .. Len(q) /\ Head(q) = q[1] /\ q[1] \in T
  OBVIOUS
<1>2. Tail(q) \in Seq(T) /\ Len(Tail(q)) = Len(q) - 1
      /\ \A i \in 1 .. Len(q) - 1 : Tail(q)[i] = q[i + 1]
  BY <1>1
<1>3. DOMAIN Tail(q) = 1 .. Len(q) - 1
  BY <1>2
<1>4. Range(q) \subseteq Range(Tail(q)) \cup {Head(q)}
  <2> SUFFICES ASSUME NEW i \in 1 .. Len(q), i # 1 PROVE q[i] \in Range(Tail(q))
    BY <1>1 DEF Range
  <2>1. i - 1 \in 1 .. Len(q) - 1
    BY <1>1
  <2>2. Tail(q)[i - 1] = q[i]
    BY <2>1, <1>2
  <2> QED
    BY <2>1, <2>2, <1>3 DEF Range
<1>5. Range(Tail(q)) \cup {Head(q)} \subseteq Range(q)
  <2>1. ASSUME NEW i \in 1 .. Len(q) - 1 PROVE Tail(q)[i] \in Range(q)
    BY <1>1, <1>2 DEF Range
  <2> QED
    BY <2>1, <1>1, <1>3 DEF Range
<1> QED
  BY <1>1, <1>2, <1>4, <1>5

LEMMA RangeOfPrefix ==
  ASSUME NEW T, NEW q \in Seq(T), NEW n \in 0 .. Len(q)
  PROVE  SubSeq(q, 1, n) \in Seq(T) /\ Range(SubSeq(q, 1, n)) \subseteq Range(q)
BY DEF Range

LEMMA RangeOfEmpty == ASSUME NEW T PROVE << >> \in Seq(T) /\ Range(<< >>) = {}
BY DEF Range

LEMMA RangeType == ASSUME NEW T, NEW q \in Seq(T) PROVE Range(q) \subseteq T
BY DEF Range

-----------------------------------------------------------------------------
(* Types. *)

LEMMA ConnType ==
  ASSUME NEW k \in Conns
  PROVE  /\ k = <<k[1], k[2]>> /\ k[1] \in Clients
         /\ k[2] \in 1 .. MaxConns[k[1]] /\ k[2] \in Nat
BY ReplicationAssumption DEF Conns

LEMMA ConnNumber ==
  ASSUME NEW c \in Clients, NEW n \in 1 .. MaxConns[c]
  PROVE  <<c, n>> \in Conns
BY DEF Conns

\* The latest connection, once there is one.
LEMMA CurrentType ==
  ASSUME TypeOK, Numbering, NEW c \in Clients, cur[c] > 0
  PROVE  Current(c) \in Conns /\ Current(c)[1] = c /\ Current(c)[2] = cur[c]
BY ConnNumber, ReplicationAssumption DEF TypeOK, Numbering, Current

Types == TypeOK /\ Numbering

LEMMA TypesInit == Init => Types
<1> SUFFICES ASSUME Init PROVE Types
  OBVIOUS
<1>1. TypeOK
  BY EmptyType, RangeOfEmpty DEF Init, TypeOK, SesStates
<1>2. Numbering
  BY ReplicationAssumption, ConnType DEF Init, Numbering
<1> QED
  BY <1>1, <1>2 DEF Types

\* A stamp of one's own.
LEMMA TickType ==
  ASSUME TypeOK, NEW c \in Clients
  PROVE  Tick(c) \in Stamp /\ Tick(c).client = c /\ Tick(c).counter = clock[c] + 1
BY DEF TypeOK, Tick, Stamp

\* What a client does to its own document.
LEMMA CommitTypes ==
  ASSUME Types, NEW c \in Clients, NEW op \in Op, Commit(c, op)
  PROVE  Types'
<1> USE DEF Types
<1>1. doc' \in [Clients -> Board] /\ clock' \in [Clients -> Nat]
  BY ApplyType DEF Commit, TypeOK, Op, Stamp
<1>2. pending' \in [Clients -> Seq(Op)]
  BY DEF Commit, TypeOK
<1>3. TypeOK'
  BY <1>1, <1>2 DEF Commit, TypeOK, link, server
<1>4. Numbering'
  BY DEF Commit, Numbering, link, server
<1> QED
  BY <1>3, <1>4

\* Draw, Erase and Invert are commits of a well-formed op with a fresh stamp.
LEMMA EditIsCommit ==
  ASSUME TypeOK, NEW c \in Clients, Edit(c)
  PROVE  \E op \in Op : op.ts = Tick(c) /\ Commit(c, op)
<1>1. ASSUME NEW s \in Strokes, Draw(c, s) PROVE \E op \in Op : op.ts = Tick(c) /\ Commit(c, op)
  <2> DEFINE o == [id |-> s, kind |-> "Add", ts |-> Tick(c)]
  <2>1. o \in Op /\ o.ts = Tick(c)
    BY TickType DEF Op, Kinds
  <2> QED
    BY <1>1, <2>1 DEF Draw
<1>2. ASSUME NEW s \in Strokes, Erase(c, s) PROVE \E op \in Op : op.ts = Tick(c) /\ Commit(c, op)
  <2> DEFINE o == [id |-> s, kind |-> "Remove", ts |-> Tick(c)]
  <2>1. o \in Op /\ o.ts = Tick(c)
    BY TickType DEF Op, Kinds
  <2> QED
    BY <1>2, <2>1 DEF Erase
<1>3. ASSUME Invert(c) PROVE \E op \in Op : op.ts = Tick(c) /\ Commit(c, op)
  <2>1. PICK old \in issued : Commit(c, Inverted(old, Tick(c)))
    BY <1>3 DEF Invert
  <2>2. old \in Op
    BY DEF TypeOK
  <2>3. Inverted(old, Tick(c)) \in Op /\ Inverted(old, Tick(c)).ts = Tick(c)
    BY <2>2, TickType DEF Inverted, Op, Kinds
  <2> QED
    BY <2>1, <2>3
<1> QED
  BY <1>1, <1>2, <1>3 DEF Edit

\* What is received is a message, and absorbing it gives a board.
LEMMA AbsorbType ==
  ASSUME NEW b \in Board, NEW m \in OpsMsg \cup BoardMsg
  PROVE  Absorb(b, m) \in Board
BY ApplyType, MergeType DEF Absorb, OpsMsg, BoardMsg

LEMMA ReceiveTypes ==
  ASSUME Types, NEW c \in Clients, Receive(c)
  PROVE  Types'
<1> USE DEF Types
<1>1. Head(down[c]) \in OpsMsg \cup BoardMsg /\ Tail(down[c]) \in Seq(OpsMsg \cup BoardMsg)
  BY RangeOfTail DEF TypeOK, Receive
<1>2. doc' \in [Clients -> Board]
  BY <1>1, AbsorbType DEF Receive, TypeOK
<1>3. Stamps(Head(down[c])) \subseteq Nat
  <2>1. ASSUME NEW b \in Board PROVE Counters(b) \subseteq Nat
    BY BoardType, MarkShape DEF Counters
  <2> QED
    BY <1>1, <2>1 DEF Stamps, OpsMsg, BoardMsg, Op, Stamp
<1>4. clock' \in [Clients -> Nat]
  BY <1>3 DEF Receive, TypeOK
<1>5. TypeOK'
  BY <1>1, <1>2, <1>4 DEF Receive, TypeOK, link, server
<1>6. Numbering'
  BY DEF Receive, Numbering, link, server
<1> QED
  BY <1>5, <1>6

\* The steps of the network thread.
LEMMA NetTypes ==
  ASSUME Types, NEW c \in Clients, Connect(c) \/ Send(c) \/ Break(c) \/ SeeClose(c)
  PROVE  Types'
<1> USE DEF Types
<1>1. CASE Connect(c)
  <2>0. cur[c] \in Nat /\ MaxConns[c] \in Nat /\ cur[c] < MaxConns[c]
    BY <1>1, ReplicationAssumption DEF Connect, TypeOK
  <2>1. TypeOK'
    <3>1. cur' \in [Clients -> Nat] /\ online' \in [Clients -> BOOLEAN]
      BY <1>1, <2>0 DEF Connect, TypeOK
    <3>2. ses' \in [Conns -> SesStates]
      BY <1>1 DEF Connect, TypeOK, SesStates
    <3> QED
      BY <1>1, <3>1, <3>2 DEF Connect, TypeOK, client
  <2>2. cur[c] + 1 \in Nat /\ cur[c] + 1 <= MaxConns[c]
    BY <2>0
  <2>3. \A d \in Clients : cur'[d] <= MaxConns[d] /\ (online'[d] => cur'[d] > 0)
    BY <1>1, <2>2 DEF Connect, Numbering, TypeOK
  <2>4. ASSUME NEW k \in Conns, k[2] > cur'[k[1]] PROVE ses'[k] = "none"
    <3>1. k # <<c, cur[c] + 1>> /\ k[2] > cur[k[1]]
      BY <1>1, <2>4, ConnType DEF Connect, TypeOK
    <3> QED
      BY <1>1, <3>1 DEF Connect, Numbering, TypeOK
  <2>5. ASSUME NEW k \in Conns, ses'[k] = "applying" PROVE up'[k] # <<>>
    BY <1>1, <2>5 DEF Connect, Numbering, TypeOK
  <2> QED
    BY <2>1, <2>3, <2>4, <2>5 DEF Numbering
<1>2. CASE Send(c)
  <2>1. Current(c) \in Conns
    BY <1>2, CurrentType DEF Send, Numbering
  <2>2. Head(pending[c]) \in Op /\ Tail(pending[c]) \in Seq(Op)
    BY <1>2, RangeOfTail DEF Send, TypeOK
  <2>3. up' \in [Conns -> Seq(Op)] /\ \A k \in Conns : up[k] # <<>> => up'[k] # <<>>
    <3>1. up \in [Conns -> Seq(Op)] /\ up' = [up EXCEPT ![Current(c)] = Append(@, Head(pending[c]))]
      BY <1>2 DEF Send, TypeOK
    <3>2. \A k \in Conns : Append(up[k], Head(pending[c])) \in Seq(Op)
                           /\ Append(up[k], Head(pending[c])) # <<>>
      BY <3>1, <2>2, RangeOfAppend
    <3> QED
      BY <3>1, <3>2, <2>1
  <2>4. TypeOK'
    <3>1. carried' \in [Conns -> SUBSET Op]
      BY <1>2, <2>1, <2>2 DEF Send, TypeOK
    <3> QED
      BY <1>2, <2>2, <2>3, <3>1 DEF Send, TypeOK, link, server
  <2>5. Numbering'
    BY <1>2, <2>3 DEF Send, Numbering, link, server
  <2> QED
    BY <2>4, <2>5
<1>3. CASE Drop(c)
  <2>1. down' \in [Clients -> Seq(OpsMsg \cup BoardMsg)]
    BY <1>3, RangeOfPrefix DEF Drop, TypeOK
  <2>2. TypeOK'
    BY <1>3, <2>1 DEF Drop, TypeOK, client, server
  <2>3. Numbering'
    BY <1>3 DEF Drop, Numbering, TypeOK, server
  <2> QED
    BY <2>2, <2>3
<1> QED
  BY <1>1, <1>2, <1>3 DEF Break, SeeClose

\* A write leaves a queue of messages.
LEMMA WriteType ==
  ASSUME TypeOK, NEW k \in Conns, NEW m \in OpsMsg \cup BoardMsg, Write(k, m)
  PROVE  down' \in [Clients -> Seq(OpsMsg \cup BoardMsg)]
<1>1. \A c \in Clients : Append(down[c], m) \in Seq(OpsMsg \cup BoardMsg)
  BY RangeOfAppend DEF TypeOK
<1> QED
  BY <1>1, ConnType DEF TypeOK, Write

LEMMA SnapshotType == TypeOK => Snapshot \in OpsMsg \cup BoardMsg
BY DEF TypeOK, Snapshot, BoardMsg

\* The frame a session has at the head of its queue is an op.
LEMMA HeadOfUp ==
  ASSUME TypeOK, NEW k \in Conns, up[k] # <<>>
  PROVE  /\ Head(up[k]) \in Op /\ Tail(up[k]) \in Seq(Op)
         /\ Range(up[k]) = Range(Tail(up[k])) \cup {Head(up[k])}
BY RangeOfTail DEF TypeOK

\* What Broadcast does to the receiver of session j.
Sent(k, j) ==
  IF Subscribed(j)
  THEN Append(IF Full(j) THEN Tail(rx[j]) ELSE rx[j], [exclude |-> k[1], op |-> Head(up[k])])
  ELSE rx[j]

LEMMA SentType ==
  ASSUME Types, NEW k \in Conns, NEW j \in Conns, ses[k] = "applying"
  PROVE  /\ Sent(k, j) \in Seq(Outbound)
         /\ Range(Sent(k, j)) \subseteq Range(rx[j]) \cup {[exclude |-> k[1], op |-> Head(up[k])]}
         /\ Subscribed(j) => [exclude |-> k[1], op |-> Head(up[k])] \in Range(Sent(k, j))
         /\ ~Full(j) => Range(rx[j]) \subseteq Range(Sent(k, j))
<1> DEFINE out == [exclude |-> k[1], op |-> Head(up[k])]
<1>1. out \in Outbound
  BY HeadOfUp, ConnType DEF Types, Numbering, Outbound
<1>2. rx[j] \in Seq(Outbound)
  BY DEF Types, TypeOK
<1>3. CASE ~Subscribed(j)
  BY <1>2, <1>3 DEF Sent
<1>4. CASE Subscribed(j) /\ ~Full(j)
  <2>1. Sent(k, j) = Append(rx[j], out)
    BY <1>4 DEF Sent
  <2> QED
    BY <2>1, <1>1, <1>2, RangeOfAppend
<1>5. CASE Subscribed(j) /\ Full(j)
  <2>1. rx[j] # <<>>
    BY <1>5, ReplicationAssumption DEF Full
  <2>2. Sent(k, j) = Append(Tail(rx[j]), out)
    BY <1>5 DEF Sent
  <2>3. Tail(rx[j]) \in Seq(Outbound) /\ Range(Tail(rx[j])) \subseteq Range(rx[j])
    BY <1>2, <2>1, RangeOfTail
  <2>4. Append(Tail(rx[j]), out) \in Seq(Outbound)
        /\ Range(Append(Tail(rx[j]), out)) = Range(Tail(rx[j])) \cup {out}
    <3> DEFINE t == Tail(rx[j])
    <3>1. t \in Seq(Outbound)
      BY <2>3
    <3> HIDE DEF out, t
    <3>2. Append(t, out) \in Seq(Outbound) /\ Range(Append(t, out)) = Range(t) \cup {out}
      BY <3>1, <1>1, RangeOfAppend
    <3> QED
      BY <3>2 DEF t
  <2> QED
    BY <2>2, <2>3, <2>4, <1>5
<1> QED
  BY <1>3, <1>4, <1>5

\* The steps of a session.
LEMMA ServeTypes ==
  ASSUME Types, NEW k \in Conns, Serve(k) \/ Close(k)
  PROVE  Types'
<1>1. TypeOK /\ Numbering
  BY DEF Types
<1> USE <1>1
<1>2. ses[k] # "none" => ~(k[2] > cur[k[1]])
  BY DEF Numbering
<1>3. CASE Subscribe(k)
  <2>1. TypeOK'
    BY <1>3 DEF Subscribe, TypeOK, SesStates, client, link
  <2>2. Numbering'
    BY <1>2, <1>3 DEF Subscribe, Numbering, TypeOK, link
  <2> QED
    BY <2>1, <2>2 DEF Types
<1>4. CASE Welcome(k)
  <2>1. down' \in [Clients -> Seq(OpsMsg \cup BoardMsg)]
    BY <1>4, WriteType, SnapshotType DEF Welcome
  <2>2. TypeOK'
    BY <1>4, <2>1 DEF Welcome, TypeOK, SesStates, client, link
  <2>3. Numbering'
    BY <1>2, <1>4 DEF Welcome, Numbering, TypeOK, link
  <2> QED
    BY <2>2, <2>3 DEF Types
<1>10. CASE Enter(k)
  <2>1. TypeOK'
    BY <1>10 DEF Enter, TypeOK, SesStates, client, link
  <2>2. Numbering'
    BY <1>2, <1>10 DEF Enter, Numbering, TypeOK, link
  <2> QED
    BY <2>1, <2>2 DEF Types
<1>5. CASE Apply(k)
  <2>1. room' \in Board
    BY <1>5, HeadOfUp, ApplyType DEF Apply, TypeOK
  <2>2. TypeOK'
    BY <1>5, <2>1 DEF Apply, TypeOK, SesStates, client, link
  <2>3. Numbering'
    BY <1>2, <1>5 DEF Apply, Numbering, TypeOK, link
  <2> QED
    BY <2>2, <2>3 DEF Types
<1>6. CASE Broadcast(k)
  <2>1. rx' = [j \in Conns |-> Sent(k, j)]
    BY <1>6 DEF Broadcast, Sent
  <2>2. rx' \in [Conns -> Seq(Outbound)]
    BY <2>1, <1>6, SentType DEF Broadcast, Types
  <2>3. up' \in [Conns -> Seq(Op)]
    BY <1>6, HeadOfUp DEF Broadcast, Numbering, TypeOK
  <2>4. lagged' \in [Conns -> BOOLEAN]
    BY <1>6 DEF Broadcast
  <2>5. ses' \in [Conns -> SesStates]
    BY <1>6 DEF Broadcast, TypeOK, SesStates
  <2>6. TypeOK'
    BY <1>6, <2>2, <2>3, <2>4, <2>5 DEF Broadcast, TypeOK, client, link, SesStates
  <2>7. Numbering'
    BY <1>2, <1>6 DEF Broadcast, Numbering, TypeOK, link
  <2> QED
    BY <2>6, <2>7 DEF Types
<1>7. CASE Resync(k)
  <2>1. down' \in [Clients -> Seq(OpsMsg \cup BoardMsg)]
    BY <1>7, WriteType, SnapshotType DEF Resync
  <2>2. TypeOK'
    BY <1>7, <2>1 DEF Resync, TypeOK, client, link
  <2>3. Numbering'
    BY <1>7 DEF Resync, Numbering, link
  <2> QED
    BY <2>2, <2>3 DEF Types
<1>8. CASE Relay(k)
  <2>1. Head(rx[k]) \in Outbound /\ Tail(rx[k]) \in Seq(Outbound)
    BY <1>8, RangeOfTail DEF Relay, TypeOK
  <2>2. [type |-> "Ops", op |-> Head(rx[k]).op] \in OpsMsg \cup BoardMsg
    BY <2>1 DEF Outbound, OpsMsg
  <2>3. down' \in [Clients -> Seq(OpsMsg \cup BoardMsg)]
    BY <1>8, <2>2, WriteType DEF Relay, TypeOK
  <2>4. TypeOK'
    BY <1>8, <2>1, <2>3 DEF Relay, TypeOK, client, link
  <2>5. Numbering'
    BY <1>8 DEF Relay, Numbering, link
  <2> QED
    BY <2>4, <2>5 DEF Types
<1>9. CASE Close(k)
  <2>1. TypeOK'
    BY <1>9, RangeOfEmpty DEF Close, TypeOK, SesStates, client, link
  <2>2. Numbering'
    BY <1>2, <1>9 DEF Close, Numbering, TypeOK, link
  <2> QED
    BY <2>1, <2>2 DEF Types
<1> QED
  BY <1>3, <1>4, <1>5, <1>6, <1>7, <1>8, <1>9, <1>10 DEF Serve

LEMMA TypesNext == Types /\ [Next]_vars => Types'
<1> SUFFICES ASSUME Types, [Next]_vars PROVE Types'
  OBVIOUS
<1>1. ASSUME NEW c \in Clients, Edit(c) PROVE Types'
  BY <1>1, EditIsCommit, CommitTypes DEF Types
<1>2. ASSUME NEW c \in Clients, Net(c) \/ Break(c) PROVE Types'
  BY <1>2, ReceiveTypes, NetTypes DEF Net
<1>3. ASSUME NEW k \in Conns, Serve(k) \/ Close(k) PROVE Types'
  BY <1>3, ServeTypes
<1>4. CASE UNCHANGED vars
  BY <1>4 DEF Types, TypeOK, Numbering, vars
<1> QED
  BY <1>1, <1>2, <1>3, <1>4 DEF Next

\* In every behaviour every variable has its type and sessions are numbered
\* in the order they run.
THEOREM TypeCorrect == Spec => [](TypeOK /\ Numbering)
<1>1. Types => TypeOK /\ Numbering
  BY DEF Types
<1> QED
  BY <1>1, TypesInit, TypesNext, PTL DEF Spec

-----------------------------------------------------------------------------
(* Clocks and stamps. *)

\* Types are an invariant to rest on, now and after the step.
LEMMA Step == ASSUME Types, [Next]_vars PROVE Types /\ Types' /\ TypeOK /\ TypeOK'
BY TypesNext DEF Types

\* Clocks are ahead of every stamp of their client, seen or issued.
ClockInv ==
  /\ ClockCovers
  /\ \A op \in issued : op.ts.counter <= clock[op.ts.client]
  /\ StampsUnique

\* A new stamp is newer than all the client can see.
LEMMA TickIsNewest ==
  ASSUME TypeOK, ClockCovers, NEW c \in Clients, NEW x \in Slots
  PROVE  Before(doc[c][x], Tick(c))
<1>1. doc[c][x] \in Mark /\ doc[c][x].counter \in Nat
  BY BoardType, MarkShape DEF TypeOK
<1>2. doc[c][x].counter <= clock[c] /\ clock[c] \in Nat
  BY DEF ClockCovers, TypeOK
<1> QED
  BY <1>1, <1>2, TickType DEF Before

\* The registers a client's step leaves in its document carry no counter that
\* its clock does not cover.
LEMMA CommitClock ==
  ASSUME TypeOK, TypeOK', ClockInv, NEW c \in Clients, NEW op \in Op,
         op.ts = Tick(c), Commit(c, op)
  PROVE  ClockInv'
<1>1. /\ clock[c] \in Nat /\ op.ts.counter = clock[c] + 1 /\ op.ts.client = c
      /\ clock' = [clock EXCEPT ![c] = clock[c] + 1]
      /\ clock \in [Clients -> Nat]
      /\ doc' = [doc EXCEPT ![c] = ApplyTo(doc[c], op)]
      /\ doc \in [Clients -> Board]
      /\ issued' = issued \cup {op} /\ issued \subseteq Op
  BY TickType DEF Commit, TypeOK
<1>2. ClockCovers'
  <2> SUFFICES ASSUME NEW d \in Clients, NEW x \in Slots
               PROVE  doc'[d][x].counter <= clock'[d]
    BY DEF ClockCovers
  <2>1. doc[d][x].counter <= clock[d] /\ doc[d][x].counter \in Nat
    BY <1>1, BoardType, MarkShape DEF ClockCovers, ClockInv
  <2>2. CASE d # c
    BY <1>1, <2>1, <2>2
  <2>3. CASE d = c
    <3>1. doc'[c][x] \in {doc[c][x], op.ts}
      BY <1>1, ApplySlots DEF Later
    <3> QED
      BY <1>1, <2>1, <2>3, <3>1
  <2> QED
    BY <2>2, <2>3
<1>3. \A o \in issued : o.ts.counter <= clock[o.ts.client] /\ o.ts.client \in Clients /\ o.ts.counter \in Nat
  BY <1>1 DEF ClockInv, Op, Stamp
<1>4. \A o \in issued' : o.ts.counter <= clock'[o.ts.client]
  BY <1>1, <1>3
<1>5. \A o \in issued : o.ts # op.ts
  BY <1>1, <1>3
<1>6. StampsUnique'
  BY <1>1, <1>5 DEF StampsUnique, ClockInv
<1> QED
  BY <1>2, <1>4, <1>6 DEF ClockInv

LEMMA ReceiveClock ==
  ASSUME TypeOK, TypeOK', ClockInv, NEW c \in Clients, Receive(c)
  PROVE  ClockInv'
<1> DEFINE m == Head(down[c])
<1>1. m \in OpsMsg \cup BoardMsg
  BY RangeOfTail DEF TypeOK, Receive
<1> HIDE DEF m
<1>2. PICK n \in {clock[c]} \cup Stamps(m) :
        /\ \A i \in {clock[c]} \cup Stamps(m) : i <= n
        /\ clock' = [clock EXCEPT ![c] = n]
  BY DEF Receive, Observed, m
<1>3. /\ doc' = [doc EXCEPT ![c] = Absorb(doc[c], m)]
      /\ clock \in [Clients -> Nat] /\ doc \in [Clients -> Board] /\ clock' \in [Clients -> Nat]
      /\ issued' = issued /\ issued \subseteq Op
  BY DEF Receive, TypeOK, m
<1>4. n \in Nat /\ clock'[c] = n /\ clock[c] <= n /\ \A i \in Stamps(m) : i <= n
  BY <1>2, <1>3
<1>5. ASSUME NEW x \in Slots PROVE Absorb(doc[c], m)[x].counter <= n
  <2>1. doc[c] \in Board /\ doc[c][x].counter <= clock[c] /\ doc[c][x].counter \in Nat /\ clock[c] \in Nat
    BY <1>3, BoardType, MarkShape DEF ClockCovers, ClockInv
  <2>2. CASE m \in OpsMsg
    <3>1. Absorb(doc[c], m)[x] \in {doc[c][x], m.op.ts} /\ m.op.ts.counter \in Stamps(m)
      BY <2>1, <2>2, ApplySlots DEF Absorb, Stamps, OpsMsg, Later
    <3> QED
      BY <2>1, <3>1, <1>4
  <2>3. CASE m \in BoardMsg
    <3>1. Absorb(doc[c], m)[x] \in {doc[c][x], m.board[x]} /\ m.board[x].counter \in Stamps(m)
      BY <2>3 DEF Absorb, Stamps, BoardMsg, MergeInto, Later, Counters
    <3> QED
      BY <2>1, <3>1, <1>4
  <2> QED
    BY <1>1, <2>2, <2>3
<1>6. ClockCovers'
  <2> SUFFICES ASSUME NEW d \in Clients, NEW x \in Slots
               PROVE  doc'[d][x].counter <= clock'[d]
    BY DEF ClockCovers
  <2>1. CASE d = c
    BY <1>3, <1>4, <1>5, <2>1
  <2>2. CASE d # c
    BY <1>2, <1>3, <2>2 DEF ClockCovers, ClockInv
  <2> QED
    BY <2>1, <2>2
<1>7. ASSUME NEW op \in issued PROVE op.ts.counter <= clock'[op.ts.client]
  <2>1. op.ts.counter <= clock[op.ts.client] /\ op.ts.client \in Clients /\ op.ts.counter \in Nat
    BY <1>3 DEF ClockInv, Op, Stamp
  <2>2. clock[op.ts.client] <= clock'[op.ts.client]
        /\ clock[op.ts.client] \in Nat /\ clock'[op.ts.client] \in Nat
    BY <1>2, <1>3, <1>4, <2>1
  <2> QED
    BY <2>1, <2>2
<1>8. StampsUnique'
  BY <1>3 DEF StampsUnique, ClockInv
<1> QED
  BY <1>3, <1>6, <1>7, <1>8 DEF ClockInv

\* Every other step leaves documents, clocks and issued ops alone.
Quiet(c) == Connect(c) \/ Send(c) \/ Break(c) \/ SeeClose(c)

LEMMA QuietKeepsClient ==
  ASSUME (\E c \in Clients : Quiet(c)) \/ (\E k \in Conns : Serve(k) \/ Close(k)) \/ UNCHANGED vars
  PROVE  UNCHANGED <<doc, clock, issued>>
<1>1. ASSUME NEW c \in Clients, Quiet(c) PROVE UNCHANGED <<doc, clock, issued>>
  BY <1>1 DEF Quiet, Connect, Send, Break, SeeClose, Drop, client
<1>2. ASSUME NEW k \in Conns, Serve(k) \/ Close(k) PROVE UNCHANGED <<doc, clock, issued>>
  BY <1>2 DEF Serve, Close, Subscribe, Welcome, Enter, Apply, Broadcast, Resync, Relay, client
<1> QED
  BY <1>1, <1>2 DEF vars

\* The three ways a step can look to the clients.
LEMMA StepCases ==
  ASSUME TypeOK, [Next]_vars
  PROVE  \/ \E c \in Clients, op \in Op : op.ts = Tick(c) /\ Commit(c, op)
         \/ \E c \in Clients : Receive(c)
         \/ (\E c \in Clients : Quiet(c)) \/ (\E k \in Conns : Serve(k) \/ Close(k)) \/ UNCHANGED vars
BY EditIsCommit DEF Next, Net, Quiet

LEMMA ClockNext == Types /\ ClockInv /\ [Next]_vars => ClockInv'
<1> SUFFICES ASSUME Types, ClockInv, [Next]_vars PROVE ClockInv'
  OBVIOUS
<1>1. TypeOK /\ TypeOK'
  BY Step
<1>2. CASE UNCHANGED <<doc, clock, issued>>
  BY <1>2 DEF ClockInv, ClockCovers, StampsUnique
<1> QED
  BY <1>1, <1>2, StepCases, CommitClock, ReceiveClock, QuietKeepsClient

LEMMA ClockInit == Init => ClockInv
BY DEF Init, ClockInv, ClockCovers, StampsUnique, Empty, NoStamp

\* LamportClock::observe is called wherever a stamp enters the document, so
\* the clock is never behind what the client shows.
THEOREM ClockAhead == Spec => []ClockCovers
<1>1. ClockInv => ClockCovers
  BY DEF ClockInv
<1> QED
  BY <1>1, TypesInit, TypesNext, ClockInit, ClockNext, PTL DEF Spec

\* "every timestamp in the system unique", however often clients reconnect.
THEOREM UniqueStamps == Spec => []StampsUnique
<1>1. ClockInv => StampsUnique
  BY DEF ClockInv
<1> QED
  BY <1>1, TypesInit, TypesNext, ClockInit, ClockNext, PTL DEF Spec

-----------------------------------------------------------------------------
(* What a step may never do. *)

LEMMA LocalEditStep ==
  ASSUME Types, ClockInv, [Next]_vars, NEW op \in issued' \ issued
  PROVE  IsVisible(doc'[op.ts.client], op.id) <=> op.kind = "Add"
<1>1. TypeOK /\ TypeOK'
  BY Step
<1>2. PICK c \in Clients, o \in Op : o.ts = Tick(c) /\ Commit(c, o)
  <2>1. ~UNCHANGED <<doc, clock, issued>>
    OBVIOUS
  <2>2. ASSUME NEW c \in Clients, Receive(c) PROVE FALSE
    BY <2>2 DEF Receive
  <2> QED
    BY <1>1, <2>1, <2>2, StepCases, QuietKeepsClient
<1>3. op = o
  BY <1>2 DEF Commit
<1>4. /\ op.ts = Tick(c) /\ op.ts.client = c /\ op \in Op
      /\ doc[c] \in Board /\ doc'[c] = ApplyTo(doc[c], op)
  BY <1>1, <1>2, <1>3, TickType DEF Commit, TypeOK
<1> DEFINE add == <<op.id, "Add">>
           rem == <<op.id, "Remove">>
<1>5. add \in Slots /\ rem \in Slots /\ add # rem
      /\ SlotOf(op) = IF op.kind = "Add" THEN add ELSE rem
  BY <1>4 DEF Slots, Kinds, Op, SlotOf
<1> HIDE DEF add, rem
<1>6. Before(doc[c][add], op.ts) /\ Before(doc[c][rem], op.ts)
  BY <1>1, <1>4, <1>5, TickIsNewest DEF ClockInv
<1>7. doc'[c][SlotOf(op)] = op.ts
  BY <1>4, <1>5, <1>6, ApplySlots DEF Later
<1>8. op.ts \in Mark /\ doc[c][add] \in Mark /\ doc[c][rem] \in Mark
  BY <1>4, <1>5, BoardType, SlotType
<1>9. CASE op.kind = "Add"
  <2>1. doc'[c][rem] = doc[c][rem]
    BY <1>4, <1>5, <1>9, ApplySlots
  <2> QED
    BY <1>4, <1>5, <1>6, <1>7, <1>9, <2>1 DEF IsVisible, add, rem
<1>10. CASE op.kind # "Add"
  <2>1. doc'[c][add] = doc[c][add]
    BY <1>4, <1>5, <1>10, ApplySlots
  <2>2. ~Before(op.ts, doc[c][add])
    BY <1>6, <1>8, BeforeIsAsymmetric
  <2> QED
    BY <1>4, <1>5, <1>7, <1>10, <2>1, <2>2 DEF IsVisible, add, rem
<1> QED
  BY <1>9, <1>10

\* "local operations always sort after everything already known": what the
\* user just did shows at once, whatever the client had received before.
THEOREM LocalEditAlwaysShows == Spec => LocalEditShows
<1>1. Types /\ ClockInv /\ [Next]_vars =>
        [\A op \in issued' \ issued :
           IsVisible(doc'[op.ts.client], op.id) <=> op.kind = "Add"]_vars
  BY LocalEditStep
<1> QED
  BY <1>1, TypesInit, TypesNext, ClockInit, ClockNext, PTL DEF Spec, LocalEditShows

\* A message never takes a register back.
LEMMA AbsorbGrows ==
  ASSUME NEW b \in Board, NEW m \in OpsMsg \cup BoardMsg
  PROVE  Below(b, Absorb(b, m))
BY ApplyGrows, MergeGrows DEF Absorb, OpsMsg, BoardMsg

LEMMA DocGrows ==
  ASSUME Types, [Next]_vars, NEW d \in Clients
  PROVE  Below(doc[d], doc'[d])
<1>1. TypeOK /\ TypeOK' /\ doc[d] \in Board
  BY Step DEF TypeOK
<1>2. CASE UNCHANGED doc
  BY <1>1, <1>2, BelowIsReflexive
<1>3. ASSUME NEW c \in Clients, NEW op \in Op, Commit(c, op) PROVE Below(doc[d], doc'[d])
  BY <1>1, <1>3, ApplyGrows, BelowIsReflexive DEF Commit, TypeOK
<1>4. ASSUME NEW c \in Clients, Receive(c) PROVE Below(doc[d], doc'[d])
  <2>1. Head(down[c]) \in OpsMsg \cup BoardMsg
    BY <1>1, <1>4, RangeOfTail DEF Receive, TypeOK
  <2> QED
    BY <1>1, <1>4, <2>1, AbsorbGrows, BelowIsReflexive DEF Receive, TypeOK
<1> QED
  BY <1>1, <1>2, <1>3, <1>4, StepCases, QuietKeepsClient

\* Only a session that applies an op touches the room.
LEMMA RoomCases ==
  ASSUME TypeOK, [Next]_vars
  PROVE  room' = room \/ \E k \in Conns : Apply(k)
<1>1. ASSUME NEW c \in Clients, Edit(c) PROVE room' = room
  BY <1>1, EditIsCommit DEF Commit
<1>2. ASSUME NEW c \in Clients, Net(c) \/ Break(c) PROVE room' = room
  BY <1>2 DEF Net, Receive, Connect, Send, Break, SeeClose, Drop
<1>3. ASSUME NEW k \in Conns, Serve(k) \/ Close(k), ~Apply(k) PROVE room' = room
  BY <1>3 DEF Serve, Close, Subscribe, Welcome, Enter, Broadcast, Resync, Relay
<1> QED
  BY <1>1, <1>2, <1>3 DEF Next, vars

LEMMA RoomGrows == ASSUME Types, [Next]_vars PROVE Below(room, room')
<1>1. TypeOK /\ room \in Board
  BY DEF Types, TypeOK
<1>2. ASSUME NEW k \in Conns, Apply(k) PROVE Below(room, room')
  BY <1>1, <1>2, HeadOfUp, ApplyGrows DEF Apply
<1> QED
  BY <1>1, <1>2, RoomCases, BelowIsReflexive

\* Whatever is late, repeated or stale, no replica ever forgets.
THEOREM ReplicasNeverForget == Spec => NeverForgets
<1>1. Types /\ [Next]_vars =>
        [Below(room, room') /\ \A c \in Clients : Below(doc[c], doc'[c])]_vars
  BY RoomGrows, DocGrows
<1> QED
  BY <1>1, TypesInit, TypesNext, PTL DEF Spec, NeverForgets

-----------------------------------------------------------------------------
(* Nothing slips. *)

\* A client never unlearns an op.
LEMMA KnowsStays ==
  ASSUME Types, [Next]_vars, NEW c \in Clients, NEW op \in Op, Knows(c, op)
  PROVE  Knows(c, op)'
<1>1. SlotOf(op) \in Slots /\ op.ts \in Mark
  BY SlotType
<1>2. doc[c][SlotOf(op)] \in Mark /\ doc'[c][SlotOf(op)] \in Mark
  BY <1>1, Step, BoardType DEF TypeOK
<1>3. AtMost(doc[c][SlotOf(op)], doc'[c][SlotOf(op)])
  BY <1>1, DocGrows DEF Below
<1> QED
  BY <1>1, <1>2, <1>3, AtMostIsTransitive DEF Knows

\* The queues hold ops.
LEMMA QueuedOps ==
  ASSUME TypeOK
  PROVE  /\ \A c \in Clients : Range(pending[c]) \subseteq Op
         /\ \A k \in Conns : Range(up[k]) \subseteq Op
         /\ \A k \in Conns : Range(rx[k]) \subseteq Outbound
         /\ \A c \in Clients : Range(down[c]) \subseteq OpsMsg \cup BoardMsg
BY RangeType DEF TypeOK

\* AuthorKnows is kept by a step after which the queues hold known ops only.
LEMMA AuthorKnowsStays ==
  ASSUME Types, AuthorKnows, [Next]_vars,
         \A c \in Clients : Range(pending'[c]) \subseteq Range(pending[c]),
         \A k \in Conns : Range(up'[k]) \subseteq Range(up[k]),
         \A k \in Conns : Range(rx'[k]) \subseteq Range(rx[k])
  PROVE  AuthorKnows'
<1>1. \A c \in Clients : \A op \in Range(pending'[c]) : Knows(c, op)'
  BY QueuedOps, Step, KnowsStays DEF AuthorKnows
<1>2. \A k \in Conns : \A op \in Range(up'[k]) : Knows(k[1], op)'
  BY QueuedOps, Step, KnowsStays, ConnType DEF AuthorKnows
<1>3. \A k \in Conns : \A o \in Range(rx'[k]) : Knows(o.exclude, o.op)'
  BY QueuedOps, Step, KnowsStays DEF AuthorKnows, Outbound
<1> QED
  BY <1>1, <1>2, <1>3 DEF AuthorKnows

LEMMA CommitAuthorKnows ==
  ASSUME Types, AuthorKnows, [Next]_vars, NEW c \in Clients, NEW op \in Op, Commit(c, op)
  PROVE  AuthorKnows'
<1>1. TypeOK /\ TypeOK'
  BY Step
<1>2. Knows(c, op)'
  BY <1>1, ApplyGrows DEF Commit, Knows, TypeOK
<1>3. ASSUME NEW d \in Clients, NEW o \in Range(pending'[d]) PROVE Knows(d, o)'
  <2>1. o \in Range(pending[d]) \/ (d = c /\ o = op)
    BY <1>1, RangeOfAppend DEF Commit, TypeOK
  <2> QED
    BY <1>1, <1>2, <2>1, QueuedOps, KnowsStays DEF AuthorKnows
<1>4. up' = up /\ rx' = rx
  BY DEF Commit, server
<1>5. \A k \in Conns : \A o \in Range(up'[k]) : Knows(k[1], o)'
  BY <1>1, <1>4, QueuedOps, KnowsStays, ConnType DEF AuthorKnows
<1>6. \A k \in Conns : \A o \in Range(rx'[k]) : Knows(o.exclude, o.op)'
  BY <1>1, <1>4, QueuedOps, KnowsStays DEF AuthorKnows, Outbound
<1> QED
  BY <1>3, <1>5, <1>6 DEF AuthorKnows

LEMMA SendAuthorKnows ==
  ASSUME Types, AuthorKnows, [Next]_vars, NEW c \in Clients, Send(c)
  PROVE  AuthorKnows'
<1>1. TypeOK /\ TypeOK' /\ Numbering
  BY Step DEF Types
<1>2. Current(c) \in Conns /\ Current(c)[1] = c
  BY <1>1, CurrentType DEF Send, Numbering
<1> DEFINE op == Head(pending[c])
<1>3. op \in Op /\ op \in Range(pending[c]) /\ Range(Tail(pending[c])) \subseteq Range(pending[c])
  BY <1>1, RangeOfTail DEF Send, TypeOK
<1>4. pending' = [pending EXCEPT ![c] = Tail(pending[c])] /\ rx' = rx
      /\ up' = [up EXCEPT ![Current(c)] = Append(up[Current(c)], op)]
  BY DEF Send, server
<1> HIDE DEF op
<1>5. ASSUME NEW d \in Clients, NEW o \in Range(pending'[d]) PROVE Knows(d, o)'
  <2>1. o \in Range(pending[d])
    BY <1>1, <1>3, <1>4 DEF TypeOK
  <2> QED
    BY <1>1, <2>1, QueuedOps, KnowsStays DEF AuthorKnows
<1>6. ASSUME NEW k \in Conns, NEW o \in Range(up'[k]) PROVE Knows(k[1], o)'
  <2>1. CASE o \in Range(up[k])
    BY <1>1, <2>1, QueuedOps, KnowsStays, ConnType DEF AuthorKnows
  <2>2. CASE o \notin Range(up[k])
    <3>1. up[Current(c)] \in Seq(Op) /\ up \in [Conns -> Seq(Op)]
      BY <1>1, <1>2 DEF TypeOK
    <3>2. Range(Append(up[Current(c)], op)) = Range(up[Current(c)]) \cup {op}
      BY <3>1, <1>3, RangeOfAppend
    <3>3. k = Current(c) /\ o = op
      BY <1>4, <2>2, <3>1, <3>2
    <3> QED
      BY <1>2, <1>3, <3>3, KnowsStays DEF AuthorKnows
  <2> QED
    BY <2>1, <2>2
<1>7. \A k \in Conns : \A o \in Range(rx'[k]) : Knows(o.exclude, o.op)'
  BY <1>1, <1>4, QueuedOps, KnowsStays DEF AuthorKnows, Outbound
<1> QED
  BY <1>5, <1>6, <1>7 DEF AuthorKnows

LEMMA BroadcastAuthorKnows ==
  ASSUME Types, AuthorKnows, [Next]_vars, NEW k \in Conns, Broadcast(k)
  PROVE  AuthorKnows'
<1>1. TypeOK /\ TypeOK' /\ Numbering
  BY Step DEF Types
<1>2. Head(up[k]) \in Op /\ Range(up[k]) = Range(Tail(up[k])) \cup {Head(up[k])}
  BY <1>1, HeadOfUp DEF Broadcast, Numbering
<1>3. up' = [up EXCEPT ![k] = Tail(up[k])] /\ pending' = pending
      /\ rx' = [j \in Conns |-> Sent(k, j)] /\ ses[k] = "applying"
  BY DEF Broadcast, client, Sent
<1>4. \A d \in Clients : \A o \in Range(pending'[d]) : Knows(d, o)'
  BY <1>1, <1>3, QueuedOps, KnowsStays DEF AuthorKnows
<1>5. ASSUME NEW j \in Conns, NEW o \in Range(up'[j]) PROVE Knows(j[1], o)'
  <2>1. o \in Range(up[j])
    BY <1>1, <1>2, <1>3 DEF TypeOK
  <2> QED
    BY <1>1, <2>1, QueuedOps, KnowsStays, ConnType DEF AuthorKnows
<1>6. ASSUME NEW j \in Conns, NEW o \in Range(rx'[j]) PROVE Knows(o.exclude, o.op)'
  <2>1. CASE o \in Range(rx[j])
    BY <1>1, <2>1, QueuedOps, KnowsStays DEF AuthorKnows, Outbound
  <2>2. CASE o \notin Range(rx[j])
    <3>1. o = [exclude |-> k[1], op |-> Head(up[k])]
      BY <1>3, <2>2, SentType
    <3>2. Knows(k[1], Head(up[k]))
      BY <1>2 DEF AuthorKnows
    <3> QED
      BY <1>2, <3>1, <3>2, KnowsStays, ConnType
  <2> QED
    BY <2>1, <2>2
<1> QED
  BY <1>4, <1>5, <1>6 DEF AuthorKnows

LEMMA AuthorKnowsNext ==
  ASSUME Types, AuthorKnows, [Next]_vars
  PROVE  AuthorKnows'
<1>1. TypeOK /\ TypeOK'
  BY Step
<1>2. ASSUME NEW c \in Clients, Edit(c) PROVE AuthorKnows'
  BY <1>1, <1>2, EditIsCommit, CommitAuthorKnows
<1>3. ASSUME NEW c \in Clients, Send(c) PROVE AuthorKnows'
  BY <1>3, SendAuthorKnows
<1>4. ASSUME NEW c \in Clients, Receive(c) \/ Connect(c) \/ Drop(c) PROVE AuthorKnows'
  <2>1. UNCHANGED <<pending, up, rx>>
    BY <1>4 DEF Receive, Connect, Drop, client, server
  <2> QED
    BY <2>1, AuthorKnowsStays
<1>5. ASSUME NEW k \in Conns, Broadcast(k) PROVE AuthorKnows'
  BY <1>5, BroadcastAuthorKnows
<1>6. ASSUME NEW k \in Conns, Subscribe(k) \/ Welcome(k) \/ Enter(k) \/ Apply(k) \/ Resync(k)
      PROVE  AuthorKnows'
  <2>1. UNCHANGED <<pending, up, rx>>
    BY <1>6 DEF Subscribe, Welcome, Enter, Apply, Resync, client
  <2> QED
    BY <2>1, AuthorKnowsStays
<1>7. ASSUME NEW k \in Conns, Relay(k) PROVE AuthorKnows'
  <2>1. UNCHANGED <<pending, up>> /\ rx' = [rx EXCEPT ![k] = Tail(rx[k])]
    BY <1>7 DEF Relay, client
  <2>2. Range(Tail(rx[k])) \subseteq Range(rx[k])
    BY <1>1, <1>7, RangeOfTail DEF Relay, TypeOK
  <2>3. \A j \in Conns : Range(rx'[j]) \subseteq Range(rx[j])
    BY <1>1, <2>1, <2>2 DEF TypeOK
  <2> QED
    BY <2>1, <2>3, AuthorKnowsStays
<1>8. ASSUME NEW k \in Conns, Close(k) PROVE AuthorKnows'
  <2>1. /\ pending' = pending
        /\ up' = [up EXCEPT ![k] = <<>>] /\ rx' = [rx EXCEPT ![k] = <<>>]
    BY <1>8 DEF Close, client
  <2>2. \A j \in Conns : Range(rx'[j]) \subseteq Range(rx[j]) /\ Range(up'[j]) \subseteq Range(up[j])
    BY <1>1, <2>1, RangeOfEmpty DEF TypeOK
  <2> QED
    BY <2>1, <2>2, AuthorKnowsStays
<1>9. CASE UNCHANGED vars
  BY <1>9, AuthorKnowsStays DEF vars
<1> QED
  BY <1>2, <1>3, <1>4, <1>5, <1>6, <1>7, <1>8, <1>9 DEF Next, Net, Break, SeeClose, Serve

\* What a client did not yet receive stays on its way when the queues that
\* carry it only grow and no op is applied or broadcast.
LEMMA WayStays ==
  ASSUME Types, [Next]_vars, NEW c \in Clients, NEW x \in Slots, OnItsWay(c, x),
         cur[c] > 0, room' = room, cur'[c] = cur[c],
         lagged[Current(c)] => lagged'[Current(c)],
         Range(down[c]) \subseteq Range(down'[c]),
         Range(rx[Current(c)]) \subseteq Range(rx'[Current(c)]),
         \A k \in Conns : ses[k] = "applying" =>
           ses'[k] = "applying" /\ Head(up'[k]) = Head(up[k])
  PROVE  OnItsWay(c, x)'
<1>1. TypeOK /\ TypeOK' /\ Current(c)' = Current(c)
  BY Step DEF Current
<1>2. CASE AtMost(room[x], doc[c][x])
  <2>1. /\ AtMost(doc[c][x], doc'[c][x]) /\ room[x] \in Mark
        /\ doc[c][x] \in Mark /\ doc'[c][x] \in Mark
    BY <1>1, DocGrows, BoardType DEF Below, TypeOK
  <2> QED
    BY <1>2, <2>1, AtMostIsTransitive DEF OnItsWay
<1>3. CASE lagged[Current(c)]
  BY <1>1, <1>3 DEF OnItsWay
<1>4. CASE \E m \in Range(down[c]) : Brings(m, x, room[x])
  BY <1>4 DEF OnItsWay, Brings
<1>5. CASE \E o \in Range(rx[Current(c)]) :
             o.exclude # c /\ SlotOf(o.op) = x /\ AtMost(room[x], o.op.ts)
  BY <1>1, <1>5 DEF OnItsWay
<1>6. CASE Applied(x, room[x])
  <2>1. Applied(x, room[x])'
    BY <1>6 DEF Applied
  <2> QED
    BY <2>1 DEF OnItsWay
<1> QED
  BY <1>2, <1>3, <1>4, <1>5, <1>6 DEF OnItsWay

\* The head of a queue that is not empty stays where it is when one appends.
LEMMA CommitSlips ==
  ASSUME Types, NothingSlips, [Next]_vars, NEW c \in Clients, NEW op \in Op, Commit(c, op)
  PROVE  NothingSlips'
<1>1. UNCHANGED <<cur, online, up, down, ses, rx, lagged, room>>
  BY DEF Commit, link, server
<1> SUFFICES ASSUME NEW d \in Clients, InSync(d)', NEW x \in Slots PROVE OnItsWay(d, x)'
  BY DEF NothingSlips
<1>2. InSync(d)
  BY <1>1 DEF InSync, Joined, Current
<1> QED
  BY <1>1, <1>2, WayStays DEF NothingSlips, InSync

LEMMA SendSlips ==
  ASSUME Types, NothingSlips, [Next]_vars, NEW c \in Clients, Send(c)
  PROVE  NothingSlips'
<1>1. UNCHANGED <<cur, online, down, ses, rx, lagged, room>> /\ TypeOK /\ Numbering
  BY DEF Send, link, server, Types
<1>2. Current(c) \in Conns /\ Head(pending[c]) \in Op
      /\ up' = [up EXCEPT ![Current(c)] = Append(up[Current(c)], Head(pending[c]))]
  BY <1>1, CurrentType, RangeOfTail DEF Send, Numbering, TypeOK
<1>3. ASSUME NEW k \in Conns, ses[k] = "applying" PROVE Head(up'[k]) = Head(up[k])
  <2>1. up[k] # <<>> /\ up[k] \in Seq(Op) /\ up \in [Conns -> Seq(Op)]
    BY <1>1, <1>3 DEF Numbering, TypeOK
  <2>2. Head(Append(up[k], Head(pending[c]))) = Head(up[k])
    BY <1>2, <2>1, RangeOfAppend
  <2> QED
    BY <1>2, <2>1, <2>2
<1> SUFFICES ASSUME NEW d \in Clients, InSync(d)', NEW x \in Slots PROVE OnItsWay(d, x)'
  BY DEF NothingSlips
<1>4. InSync(d)
  BY <1>1 DEF InSync, Joined, Current
<1> QED
  BY <1>1, <1>3, <1>4, WayStays DEF NothingSlips, InSync

LEMMA ReceiveSlips ==
  ASSUME Types, NothingSlips, [Next]_vars, NEW c \in Clients, Receive(c)
  PROVE  NothingSlips'
<1> DEFINE m == Head(down[c])
<1>1. TypeOK /\ TypeOK' /\ m \in OpsMsg \cup BoardMsg
      /\ Range(down[c]) = Range(Tail(down[c])) \cup {m}
  BY Step, RangeOfTail DEF Receive, TypeOK
<1>2. /\ UNCHANGED <<cur, online, up, ses, rx, lagged, room>>
      /\ down' = [down EXCEPT ![c] = Tail(down[c])]
      /\ doc' = [doc EXCEPT ![c] = Absorb(doc[c], m)]
  BY DEF Receive, link, server
<1> SUFFICES ASSUME NEW d \in Clients, InSync(d)', NEW x \in Slots PROVE OnItsWay(d, x)'
  BY DEF NothingSlips
<1>3. InSync(d) /\ OnItsWay(d, x)
  BY <1>2 DEF InSync, Joined, Current, NothingSlips
<1>4. CASE d # c
  <2>1. down'[d] = down[d]
    BY <1>1, <1>2, <1>4 DEF TypeOK
  <2> QED
    BY <1>2, <1>3, <2>1, WayStays DEF InSync
<1>5. CASE d = c /\ Brings(m, x, room[x])
  <2>1. /\ doc[c] \in Board /\ doc'[c] = Absorb(doc[c], m)
        /\ room[x] \in Mark /\ doc'[c][x] \in Mark
    BY <1>1, <1>2, BoardType DEF TypeOK
  <2>2. CASE m \in OpsMsg
    <3>1. m.op \in Op /\ SlotOf(m.op) = x /\ AtMost(room[x], m.op.ts)
          /\ doc'[c] = ApplyTo(doc[c], m.op)
      BY <1>5, <2>1, <2>2 DEF Brings, OpsMsg, Absorb
    <3>2. AtMost(m.op.ts, doc'[c][x]) /\ m.op.ts \in Mark
      BY <2>1, <3>1, ApplyGrows, SlotType
    <3> QED
      BY <1>2, <1>5, <2>1, <3>1, <3>2, AtMostIsTransitive DEF OnItsWay
  <2>3. CASE m \in BoardMsg
    <3>1. m.board \in Board /\ AtMost(room[x], m.board[x])
          /\ doc'[c] = MergeInto(doc[c], m.board)
      BY <1>5, <2>1, <2>3 DEF Brings, BoardMsg, Absorb
    <3>2. AtMost(m.board[x], doc'[c][x]) /\ m.board[x] \in Mark
      BY <2>1, <3>1, MergeGrows, BoardType DEF Below
    <3> QED
      BY <1>2, <1>5, <2>1, <3>1, <3>2, AtMostIsTransitive DEF OnItsWay
  <2> QED
    BY <1>1, <2>2, <2>3
<1>6. CASE d = c /\ ~Brings(m, x, room[x])
  <2>1. AtMost(room[x], doc[c][x]) => AtMost(room[x], doc'[c][x])
    <3>1. /\ AtMost(doc[c][x], doc'[c][x]) /\ room[x] \in Mark
          /\ doc[c][x] \in Mark /\ doc'[c][x] \in Mark
      BY <1>1, DocGrows, BoardType DEF Below, TypeOK
    <3> QED
      BY <3>1, AtMostIsTransitive
  <2>2. (\E n \in Range(down[c]) : Brings(n, x, room[x])) =>
          \E n \in Range(down'[c]) : Brings(n, x, room[x])
    BY <1>1, <1>2, <1>6 DEF TypeOK
  <2>3. Current(c)' = Current(c) /\ Applied(x, room[x])' = Applied(x, room[x])
    BY <1>2 DEF Current, Applied
  <2>4. \A n, t : Brings(n, x, t)' = Brings(n, x, t)
    BY DEF Brings
  <2> QED
    BY <1>2, <1>3, <1>6, <2>1, <2>2, <2>3, <2>4 DEF OnItsWay
<1> QED
  BY <1>4, <1>5, <1>6

LEMMA ConnectSlips ==
  ASSUME Types, NothingSlips, [Next]_vars, NEW c \in Clients, Connect(c)
  PROVE  NothingSlips'
<1>1. TypeOK /\ Numbering /\ cur[c] \in Nat /\ MaxConns[c] \in Nat
  BY ReplicationAssumption DEF Types, TypeOK
<1> DEFINE k == <<c, cur[c] + 1>>
<1>2. k \in Conns /\ k[1] = c /\ k[2] = cur[c] + 1
  BY <1>1, ConnNumber DEF Connect
<1>3. /\ UNCHANGED <<doc, up, down, rx, lagged, room>>
      /\ cur' = [cur EXCEPT ![c] = cur[c] + 1] /\ online' = [online EXCEPT ![c] = TRUE]
      /\ ses' = [ses EXCEPT ![k] = "hello"]
  BY DEF Connect, client
<1>4. ses[k] = "none"
  BY <1>1, <1>2 DEF Numbering
<1> HIDE DEF k
<1> SUFFICES ASSUME NEW d \in Clients, InSync(d)', NEW x \in Slots PROVE OnItsWay(d, x)'
  BY DEF NothingSlips
<1>5. d # c
  <2>1. SUFFICES ASSUME d = c PROVE FALSE
    OBVIOUS
  <2>2. Current(c)' = k
    BY <1>1, <1>3 DEF Current, TypeOK, k
  <2>3. ses'[k] = "hello"
    BY <1>1, <1>2, <1>3 DEF TypeOK
  <2> QED
    BY <2>1, <2>2, <2>3 DEF InSync, Joined
<1>6. cur'[d] = cur[d] /\ online'[d] = online[d] /\ Current(d)' = Current(d) /\ Current(d) # k
  BY <1>1, <1>3, <1>5 DEF TypeOK, Current, k
<1>7. \A j \in Conns : j # k => ses'[j] = ses[j]
  BY <1>1, <1>3 DEF TypeOK
<1>8. Current(d) \in Conns
  BY <1>1, <1>6, CurrentType DEF InSync
<1>9. InSync(d)
  BY <1>6, <1>7, <1>8 DEF InSync, Joined
<1> QED
  BY <1>2, <1>3, <1>4, <1>6, <1>7, <1>9, WayStays DEF NothingSlips, InSync

LEMMA DropSlips ==
  ASSUME Types, NothingSlips, [Next]_vars, NEW c \in Clients, Drop(c)
  PROVE  NothingSlips'
<1>1. TypeOK /\ UNCHANGED <<doc, cur, up, ses, rx, lagged, room>>
      /\ online' = [online EXCEPT ![c] = FALSE]
  BY DEF Types, Drop, client, server
<1> SUFFICES ASSUME NEW d \in Clients, InSync(d)', NEW x \in Slots PROVE OnItsWay(d, x)'
  BY DEF NothingSlips
<1>2. d # c /\ online'[d] = online[d]
  BY <1>1 DEF InSync, TypeOK
<1>3. down'[d] = down[d]
  BY <1>1, <1>2 DEF Drop, TypeOK
<1>4. InSync(d)
  BY <1>1, <1>2 DEF InSync, Joined, Current
<1> QED
  BY <1>1, <1>3, <1>4, WayStays DEF NothingSlips, InSync

\* A session writes to nobody else's queue, and to its own only at the end.
LEMMA WriteAppends ==
  ASSUME TypeOK, NEW k \in Conns, NEW m \in OpsMsg \cup BoardMsg, Write(k, m), NEW d \in Clients
  PROVE  /\ Range(down[d]) \subseteq Range(down'[d])
         /\ InSync(d) /\ Current(d) = k => m \in Range(down'[d])
<1>1. down[d] \in Seq(OpsMsg \cup BoardMsg) /\ down \in [Clients -> Seq(OpsMsg \cup BoardMsg)]
  BY DEF TypeOK
<1>2. Range(Append(down[d], m)) = Range(down[d]) \cup {m}
  BY <1>1, RangeOfAppend
<1>3. k[1] \in Clients
  BY ConnType
<1>4. CASE Reaches(k)
  <2>1. down' = [down EXCEPT ![k[1]] = Append(down[k[1]], m)]
    BY <1>4 DEF Write
  <2> QED
    BY <1>1, <1>2, <1>3, <2>1 DEF InSync, Current
<1>5. CASE ~Reaches(k)
  BY <1>5 DEF Write, Reaches, InSync, Current
<1> QED
  BY <1>4, <1>5

\* The snapshot a session has just sent is on its way.
LEMMA SnapshotBrings ==
  ASSUME TypeOK, NEW c \in Clients, NEW x \in Slots, room' = room,
         Snapshot \in Range(down'[c])
  PROVE  OnItsWay(c, x)'
<1>1. AtMost(room[x], room[x])
  BY BoardType, AtMostIsReflexive DEF TypeOK
<1>2. Brings(Snapshot, x, room[x])
  BY <1>1 DEF Brings, Snapshot
<1>3. \A m, t : Brings(m, x, t)' = Brings(m, x, t)
  BY DEF Brings
<1> QED
  BY <1>2, <1>3 DEF OnItsWay

LEMMA SubscribeSlips ==
  ASSUME Types, NothingSlips, [Next]_vars, NEW k \in Conns, Subscribe(k)
  PROVE  NothingSlips'
<1>1. /\ TypeOK /\ UNCHANGED <<doc, cur, online, up, down, rx, lagged, room>>
      /\ ses' = [ses EXCEPT ![k] = "subscribed"] /\ ses[k] = "hello"
  BY DEF Types, Subscribe, client, link
<1> SUFFICES ASSUME NEW d \in Clients, InSync(d)', NEW x \in Slots PROVE OnItsWay(d, x)'
  BY DEF NothingSlips
<1>2. Current(d) \in Conns /\ Current(d)' = Current(d) /\ ses \in [Conns -> SesStates]
  BY <1>1, CurrentType DEF InSync, Types, Current, TypeOK, SesStates
<1>3. InSync(d)
  BY <1>1, <1>2 DEF InSync, Joined
<1>4. \A j \in Conns : ses[j] = "applying" => ses'[j] = "applying"
  BY <1>1, <1>2
<1> QED
  BY <1>1, <1>3, <1>4, WayStays DEF NothingSlips, InSync

LEMMA WelcomeSlips ==
  ASSUME Types, NothingSlips, [Next]_vars, NEW k \in Conns, Welcome(k)
  PROVE  NothingSlips'
<1>1. /\ TypeOK /\ UNCHANGED <<doc, cur, online, up, rx, lagged, room>>
      /\ ses' = [ses EXCEPT ![k] = "welcomed"] /\ ses[k] = "subscribed" /\ Write(k, Snapshot)
  BY DEF Types, Welcome, client, link
<1> SUFFICES ASSUME NEW d \in Clients, InSync(d)', NEW x \in Slots PROVE OnItsWay(d, x)'
  BY DEF NothingSlips
<1>2. Current(d) \in Conns /\ Current(d)' = Current(d) /\ ses \in [Conns -> SesStates]
      /\ cur[d] > 0 /\ online[d]
  BY <1>1, CurrentType DEF InSync, Types, Current, TypeOK, SesStates
<1>3. CASE Current(d) = k
  <2>1. Reaches(k) /\ k[1] = d
    BY <1>2, <1>3, ConnType DEF Current, Reaches
  <2>2. down' = [down EXCEPT ![d] = Append(down[d], Snapshot)]
    BY <1>1, <2>1 DEF Write
  <2>3. down[d] \in Seq(OpsMsg \cup BoardMsg) /\ down'[d] = Append(down[d], Snapshot)
    BY <1>1, <2>2 DEF TypeOK
  <2>4. Snapshot \in Range(down'[d])
    BY <1>1, <2>3, SnapshotType, RangeOfAppend
  <2> QED
    BY <1>1, <2>4, SnapshotBrings
<1>4. CASE Current(d) # k
  <2>1. InSync(d)
    BY <1>1, <1>2, <1>4 DEF InSync, Joined
  <2>2. \A j \in Conns : ses[j] = "applying" => ses'[j] = "applying"
    BY <1>1, <1>2
  <2>3. Range(down[d]) \subseteq Range(down'[d])
    BY <1>1, SnapshotType, WriteAppends
  <2> QED
    BY <1>1, <2>1, <2>2, <2>3, WayStays DEF NothingSlips, InSync
<1> QED
  BY <1>3, <1>4

LEMMA EnterSlips ==
  ASSUME Types, NothingSlips, [Next]_vars, NEW k \in Conns, Enter(k)
  PROVE  NothingSlips'
<1>1. /\ TypeOK /\ UNCHANGED <<doc, cur, online, up, down, rx, lagged, room>>
      /\ ses' = [ses EXCEPT ![k] = "live"] /\ ses[k] = "welcomed"
  BY DEF Types, Enter, client, link
<1> SUFFICES ASSUME NEW d \in Clients, InSync(d)', NEW x \in Slots PROVE OnItsWay(d, x)'
  BY DEF NothingSlips
<1>2. Current(d) \in Conns /\ Current(d)' = Current(d) /\ ses \in [Conns -> SesStates]
  BY <1>1, CurrentType DEF InSync, Types, Current, TypeOK
<1>3. InSync(d)
  BY <1>1, <1>2 DEF InSync, Joined
<1>4. \A j \in Conns : ses[j] = "applying" => ses'[j] = "applying"
  BY <1>1, <1>2
<1> QED
  BY <1>1, <1>3, <1>4, WayStays DEF NothingSlips, InSync

LEMMA ResyncSlips ==
  ASSUME Types, NothingSlips, [Next]_vars, NEW k \in Conns, Resync(k)
  PROVE  NothingSlips'
<1>1. /\ TypeOK /\ UNCHANGED <<doc, cur, online, up, ses, rx, room>>
      /\ lagged' = [lagged EXCEPT ![k] = FALSE] /\ Write(k, Snapshot)
  BY DEF Types, Resync, client, link
<1> SUFFICES ASSUME NEW d \in Clients, InSync(d)', NEW x \in Slots PROVE OnItsWay(d, x)'
  BY DEF NothingSlips
<1>2. InSync(d) /\ Current(d) \in Conns
  BY <1>1, CurrentType DEF InSync, Joined, Current, Types
<1>3. /\ Range(down[d]) \subseteq Range(down'[d])
      /\ Current(d) = k => Snapshot \in Range(down'[d])
  BY <1>1, <1>2, SnapshotType, WriteAppends
<1>4. CASE Current(d) = k
  BY <1>1, <1>3, <1>4, SnapshotBrings
<1>5. CASE Current(d) # k
  <2>1. lagged'[Current(d)] = lagged[Current(d)]
    BY <1>1, <1>2, <1>5 DEF TypeOK
  <2> QED
    BY <1>1, <1>2, <1>3, <2>1, WayStays DEF NothingSlips, InSync
<1> QED
  BY <1>4, <1>5

LEMMA RelaySlips ==
  ASSUME Types, NothingSlips, [Next]_vars, NEW k \in Conns, Relay(k)
  PROVE  NothingSlips'
<1> DEFINE out == Head(rx[k])
           m == [type |-> "Ops", op |-> out.op]
<1>1. /\ TypeOK /\ UNCHANGED <<doc, cur, online, up, ses, lagged, room>>
      /\ rx' = [rx EXCEPT ![k] = Tail(rx[k])]
      /\ out \in Outbound /\ Range(rx[k]) = Range(Tail(rx[k])) \cup {out}
      /\ IF out.exclude # k[1] THEN Write(k, m) ELSE down' = down
  BY RangeOfTail DEF Types, Relay, client, link, TypeOK
<1>2. m \in OpsMsg \cup BoardMsg
  BY <1>1 DEF Outbound, OpsMsg
<1> SUFFICES ASSUME NEW d \in Clients, InSync(d)', NEW x \in Slots PROVE OnItsWay(d, x)'
  BY DEF NothingSlips
<1>3. InSync(d) /\ Current(d) \in Conns /\ OnItsWay(d, x) /\ Current(d)[1] = d
  BY <1>1, CurrentType DEF InSync, Joined, Current, Types, NothingSlips
<1>4. Range(down[d]) \subseteq Range(down'[d])
  BY <1>1, <1>2, WriteAppends
<1>5. CASE /\ Current(d) = k /\ out.exclude # d
           /\ SlotOf(out.op) = x /\ AtMost(room[x], out.op.ts)
  <2>1. m \in Range(down'[d])
    BY <1>1, <1>2, <1>3, <1>5, WriteAppends
  <2>2. Brings(m, x, room[x])
    BY <1>1, <1>5 DEF Brings
  <2>3. \A n, t : Brings(n, x, t)' = Brings(n, x, t)
    BY DEF Brings
  <2> HIDE DEF m
  <2> QED
    BY <1>1, <2>1, <2>2, <2>3 DEF OnItsWay
<1>6. CASE ~(/\ Current(d) = k /\ out.exclude # d
             /\ SlotOf(out.op) = x /\ AtMost(room[x], out.op.ts))
  <2>1. \A o \in Range(rx[Current(d)]) \ Range(rx'[Current(d)]) : Current(d) = k /\ o = out
    BY <1>1, <1>3 DEF TypeOK
  <2>2. (\E o \in Range(rx[Current(d)]) :
           o.exclude # d /\ SlotOf(o.op) = x /\ AtMost(room[x], o.op.ts)) =>
        (\E o \in Range(rx'[Current(d)]) :
           o.exclude # d /\ SlotOf(o.op) = x /\ AtMost(room[x], o.op.ts))
    BY <1>6, <2>1
  <2>3. Current(d)' = Current(d) /\ Applied(x, room[x])' = Applied(x, room[x])
    BY <1>1 DEF Current, Applied
  <2>4. \A n, t : Brings(n, x, t)' = Brings(n, x, t)
    BY DEF Brings
  <2> QED
    BY <1>1, <1>3, <1>4, <2>2, <2>3, <2>4 DEF OnItsWay
<1> QED
  BY <1>5, <1>6

LEMMA CloseSlips ==
  ASSUME Types, NothingSlips, [Next]_vars, NEW k \in Conns, Close(k)
  PROVE  NothingSlips'
<1>1. /\ TypeOK /\ UNCHANGED <<doc, cur, online, down, room>> /\ ses[k] # "applying"
      /\ ses' = [ses EXCEPT ![k] = "closed"] /\ up' = [up EXCEPT ![k] = <<>>]
      /\ rx' = [rx EXCEPT ![k] = <<>>] /\ lagged' = [lagged EXCEPT ![k] = FALSE]
  BY DEF Types, Close, client, link
<1> SUFFICES ASSUME NEW d \in Clients, InSync(d)', NEW x \in Slots PROVE OnItsWay(d, x)'
  BY DEF NothingSlips
<1>2. Current(d) \in Conns /\ Current(d)' = Current(d) /\ ses \in [Conns -> SesStates]
  BY <1>1, CurrentType DEF InSync, Types, Current, TypeOK, SesStates
<1>3. Current(d) # k /\ InSync(d)
  BY <1>1, <1>2 DEF InSync, Joined
<1>4. rx'[Current(d)] = rx[Current(d)] /\ lagged'[Current(d)] = lagged[Current(d)]
  BY <1>1, <1>2, <1>3 DEF TypeOK
<1>5. \A j \in Conns : ses[j] = "applying" => ses'[j] = "applying" /\ Head(up'[j]) = Head(up[j])
  BY <1>1, <1>2 DEF TypeOK
<1> QED
  BY <1>1, <1>3, <1>4, <1>5, WayStays DEF NothingSlips, InSync

\* The op is in the room: either the room knew better, or the session that
\* applied it is about to broadcast it.
LEMMA ApplySlips ==
  ASSUME Types, NothingSlips, [Next]_vars, NEW k \in Conns, Apply(k)
  PROVE  NothingSlips'
<1> DEFINE op == Head(up[k])
<1>1. /\ TypeOK /\ UNCHANGED <<doc, cur, online, up, down, rx, lagged>>
      /\ ses' = [ses EXCEPT ![k] = "applying"] /\ ses[k] = "live"
      /\ room' = ApplyTo(room, op) /\ room \in Board /\ op \in Op
      /\ ses \in [Conns -> SesStates]
  BY HeadOfUp DEF Types, Apply, client, link, TypeOK, SesStates
<1> SUFFICES ASSUME NEW d \in Clients, InSync(d)', NEW x \in Slots PROVE OnItsWay(d, x)'
  BY DEF NothingSlips
<1>2. Current(d)' = Current(d) /\ InSync(d) /\ OnItsWay(d, x)
  <2>1. Current(d) \in Conns /\ Current(d)' = Current(d)
    BY <1>1, CurrentType DEF InSync, Types, Current
  <2> QED
    BY <1>1, <2>1 DEF InSync, Joined, NothingSlips
<1>3. CASE room'[x] = room[x]
  <2>1. Applied(x, room[x]) => Applied(x, room[x])'
    <3>1. \A j \in Conns : ses[j] = "applying" => ses'[j] = "applying"
      BY <1>1
    <3> QED
      BY <1>1, <1>3, <3>1 DEF Applied
  <2>2. \A n, t : Brings(n, x, t)' = Brings(n, x, t)
    BY DEF Brings
  <2> QED
    BY <1>1, <1>2, <1>3, <2>1, <2>2 DEF OnItsWay
<1>4. CASE room'[x] # room[x]
  <2>1. x = SlotOf(op) /\ room'[x] = op.ts /\ op.ts \in Mark
    BY <1>1, <1>4, ApplySlots, SlotType DEF Later
  <2>2. AtMost(room'[x], op.ts) /\ ses'[k] = "applying" /\ op = Head(up'[k])
    BY <1>1, <2>1, AtMostIsReflexive
  <2> HIDE DEF op
  <2>3. Applied(x, room[x])'
    BY <2>1, <2>2 DEF Applied
  <2> QED
    BY <2>3 DEF OnItsWay
<1> QED
  BY <1>3, <1>4

\* The applied op moves into every receiver; its author, whom the relay will
\* skip, knows it already.
LEMMA BroadcastSlips ==
  ASSUME Types, AuthorKnows, NothingSlips, [Next]_vars, NEW k \in Conns, Broadcast(k)
  PROVE  NothingSlips'
<1> DEFINE op == Head(up[k])
           out == [exclude |-> k[1], op |-> op]
<1>1. /\ TypeOK /\ UNCHANGED <<doc, cur, online, down, room>>
      /\ ses' = [ses EXCEPT ![k] = "live"] /\ ses[k] = "applying"
      /\ rx' = [j \in Conns |-> Sent(k, j)]
      /\ lagged' = [j \in Conns |-> lagged[j] \/ (Subscribed(j) /\ Full(j))]
      /\ up' = [up EXCEPT ![k] = Tail(up[k])]
      /\ up[k] # <<>> /\ ses \in [Conns -> SesStates]
  BY DEF Types, Broadcast, Numbering, client, link, TypeOK, Sent, SesStates
<1>2. op \in Op /\ Knows(k[1], op)
  BY <1>1, HeadOfUp DEF AuthorKnows
<1> SUFFICES ASSUME NEW d \in Clients, InSync(d)', NEW x \in Slots PROVE OnItsWay(d, x)'
  BY DEF NothingSlips
<1> DEFINE j == Current(d)
<1>3. j \in Conns /\ Current(d)' = j /\ InSync(d) /\ OnItsWay(d, x)
  <2>1. Current(d) \in Conns /\ Current(d)' = Current(d)
    BY <1>1, CurrentType DEF InSync, Types, Current
  <2> QED
    BY <1>1, <2>1 DEF InSync, Joined, NothingSlips
<1>4. Subscribed(j)
  BY <1>3 DEF InSync, Subscribed
<1>5. CASE Full(j) \/ lagged[j]
  <2>1. lagged'[j]
    BY <1>1, <1>3, <1>4, <1>5
  <2> QED
    BY <1>3, <2>1 DEF OnItsWay
<1>6. CASE ~Full(j) /\ ~lagged[j]
  <2>1. Range(rx[j]) \subseteq Range(rx'[j]) /\ out \in Range(rx'[j])
    BY <1>1, <1>3, <1>4, <1>6, SentType
  <2>2. CASE Applied(x, room[x])
    <3>1. PICK i \in Conns : /\ ses[i] = "applying" /\ SlotOf(Head(up[i])) = x
                             /\ AtMost(room[x], Head(up[i]).ts)
      BY <2>2 DEF Applied
    <3>2. CASE i # k
      <4>1. ses'[i] = "applying" /\ up'[i] = up[i]
        BY <1>1, <3>1, <3>2 DEF TypeOK
      <4>2. Applied(x, room[x])'
        BY <1>1, <3>1, <4>1 DEF Applied
      <4> QED
        BY <4>2 DEF OnItsWay
    <3>3. CASE i = k /\ k[1] # d
      <4>1. out.exclude # d /\ SlotOf(out.op) = x /\ AtMost(room'[x], out.op.ts)
        BY <1>1, <3>1, <3>3
      <4> HIDE DEF out
      <4> QED
        BY <1>3, <2>1, <4>1 DEF OnItsWay
    <3>4. CASE i = k /\ k[1] = d
      <4>1. AtMost(room[x], op.ts) /\ AtMost(op.ts, doc[d][x])
        BY <1>2, <3>1, <3>4 DEF Knows
      <4>2. room[x] \in Mark /\ op.ts \in Mark /\ doc[d][x] \in Mark
        BY <1>1, <1>2, BoardType, SlotType DEF TypeOK
      <4>3. AtMost(room'[x], doc'[d][x])
        BY <1>1, <4>1, <4>2, AtMostIsTransitive
      <4> QED
        BY <4>3 DEF OnItsWay
    <3> QED
      BY <3>2, <3>3, <3>4
  <2>3. CASE ~Applied(x, room[x])
    <3>1. \A n, t : Brings(n, x, t)' = Brings(n, x, t)
      BY DEF Brings
    <3> QED
      BY <1>1, <1>3, <1>6, <2>1, <2>3, <3>1 DEF OnItsWay
  <2> QED
    BY <2>2, <2>3
<1> QED
  BY <1>5, <1>6

LEMMA SyncNext == SyncInv /\ [Next]_vars => SyncInv'
<1> SUFFICES ASSUME SyncInv, [Next]_vars PROVE SyncInv'
  OBVIOUS
<1>1. Types /\ Types' /\ TypeOK /\ AuthorKnows /\ NothingSlips
  BY Step DEF SyncInv, Types
<1>2. AuthorKnows'
  BY <1>1, AuthorKnowsNext
<1>3. ASSUME NEW c \in Clients, Edit(c) PROVE NothingSlips'
  BY <1>1, <1>3, EditIsCommit, CommitSlips
<1>4. ASSUME NEW c \in Clients, Net(c) \/ Break(c) PROVE NothingSlips'
  BY <1>1, <1>4, ReceiveSlips, ConnectSlips, SendSlips, DropSlips DEF Net, Break, SeeClose
<1>5. ASSUME NEW k \in Conns, Serve(k) \/ Close(k) PROVE NothingSlips'
  BY <1>1, <1>5, SubscribeSlips, WelcomeSlips, EnterSlips, ApplySlips, BroadcastSlips, ResyncSlips,
     RelaySlips, CloseSlips DEF Serve
<1>6. ASSUME UNCHANGED vars PROVE NothingSlips'
  <2>1. SUFFICES ASSUME NEW d \in Clients, InSync(d)', NEW x \in Slots PROVE OnItsWay(d, x)'
    BY DEF NothingSlips
  <2>2. InSync(d)
    BY <1>6, <2>1 DEF vars, InSync, Joined, Current
  <2> QED
    BY <1>1, <1>6, <2>2, WayStays DEF vars, NothingSlips, InSync
<1>7. NothingSlips'
  BY <1>3, <1>4, <1>5, <1>6 DEF Next
<1> QED
  BY <1>1, <1>2, <1>7 DEF SyncInv, Types

LEMMA SyncInit == Init => SyncInv
<1> SUFFICES ASSUME Init PROVE SyncInv
  OBVIOUS
<1>1. TypeOK /\ Numbering
  BY TypesInit DEF Types
<1>2. AuthorKnows
  BY RangeOfEmpty DEF Init, AuthorKnows
<1>3. NothingSlips
  BY DEF Init, NothingSlips, InSync
<1> QED
  BY <1>1, <1>2, <1>3 DEF SyncInv

\* "Subscribe before snapshotting so nothing slips between the two": whatever
\* the room knows, a joined client knows or will be told, through joins,
\* reconnections, half-open sessions and overflows of the channel.
THEOREM NothingEverSlips == Spec => []NothingSlips
<1>1. SyncInv => NothingSlips
  BY DEF SyncInv
<1> QED
  BY <1>1, SyncInit, SyncNext, PTL DEF Spec

\* Skipping the author of a broadcast withholds nothing from that client.
THEOREM AuthorsKnow == Spec => []AuthorKnows
<1>1. SyncInv => AuthorKnows
  BY DEF SyncInv
<1> QED
  BY <1>1, SyncInit, SyncNext, PTL DEF Spec

\* A joined client with nothing left to receive knows all the room knows.
THEOREM DrainedClientsKnow == Spec => []DrainedKnowsRoom
<1>1. SyncInv => DrainedKnowsRoom
  <2> SUFFICES ASSUME SyncInv, NEW c \in Clients, Drained(c), NEW x \in Slots
               PROVE  AtMost(room[x], doc[c][x])
    BY DEF DrainedKnowsRoom, Below
  <2>1. OnItsWay(c, x) /\ ~Applied(x, room[x])
    BY DEF SyncInv, NothingSlips, Drained, Applied
  <2>2. Range(down[c]) = {} /\ Range(rx[Current(c)]) = {}
    BY RangeOfEmpty DEF Drained
  <2> QED
    BY <2>1, <2>2 DEF OnItsWay, Drained
<1> QED
  BY <1>1, SyncInit, SyncNext, PTL DEF Spec
-----------------------------------------------------------------------------
(* Nothing is lost. *)

\* Where an op is between its author and the room; the disjunction of
\* NothingLost.
Placed(op) ==
  \/ AtRoom(op)
  \/ op \in Range(pending[op.ts.client])
  \/ \E k \in Conns : SentOn(op, k) /\ (op \in Range(up[k]) \/ ses[k] = "closed")

\* A session that is about to broadcast has put its op into the room.
HandedOver == \A k \in Conns : ses[k] = "applying" => AtRoom(Head(up[k]))

DeliveryInv == HandedOver /\ \A op \in issued : Placed(op)

LEMMA AtRoomStays ==
  ASSUME Types, [Next]_vars, NEW op \in Op, AtRoom(op) PROVE AtRoom(op)'
<1>1. SlotOf(op) \in Slots /\ op.ts \in Mark
  BY SlotType
<1>2. room[SlotOf(op)] \in Mark /\ room'[SlotOf(op)] \in Mark
  BY <1>1, Step, BoardType DEF TypeOK
<1>3. AtMost(room[SlotOf(op)], room'[SlotOf(op)])
  BY <1>1, RoomGrows DEF Below
<1> QED
  BY <1>1, <1>2, <1>3, AtMostIsTransitive DEF AtRoom

\* A step that empties no queue and reopens no session keeps an op placed.
LEMMA PlacedStays ==
  ASSUME Types, [Next]_vars, NEW op \in Op, Placed(op),
         Range(pending[op.ts.client]) \subseteq Range(pending'[op.ts.client]),
         \A k \in Conns : Range(up[k]) \subseteq Range(up'[k]),
         \A k \in Conns : carried[k] \subseteq carried'[k],
         \A k \in Conns : ses[k] = "closed" => ses'[k] = "closed"
  PROVE  Placed(op)'
<1>1. CASE AtRoom(op)
  BY <1>1, AtRoomStays DEF Placed
<1>2. CASE op \in Range(pending[op.ts.client])
  BY <1>2 DEF Placed
<1>3. ASSUME NEW k \in Conns, SentOn(op, k), op \in Range(up[k]) \/ ses[k] = "closed"
      PROVE  Placed(op)'
  <2>1. SentOn(op, k)' /\ (op \in Range(up'[k]) \/ ses'[k] = "closed")
    BY <1>3 DEF SentOn
  <2> QED
    BY <1>3, <2>1 DEF Placed
<1> QED
  BY <1>1, <1>2, <1>3 DEF Placed

LEMMA CommitDelivers ==
  ASSUME Types, DeliveryInv, [Next]_vars, NEW c \in Clients, NEW op \in Op,
         op.ts = Tick(c), Commit(c, op)
  PROVE  DeliveryInv'
<1>1. TypeOK /\ TypeOK' /\ op.ts.client = c
  BY Step, TickType
<1>2. /\ pending' = [pending EXCEPT ![c] = Append(pending[c], op)]
      /\ issued' = issued \cup {op} /\ UNCHANGED <<up, ses, room, carried>>
  BY DEF Commit, server
<1>3. Range(Append(pending[c], op)) = Range(pending[c]) \cup {op} /\ pending \in [Clients -> Seq(Op)]
  BY <1>1, RangeOfAppend DEF TypeOK
<1>4. HandedOver'
  BY <1>2 DEF DeliveryInv, HandedOver, AtRoom
<1>5. ASSUME NEW o \in issued PROVE Placed(o)'
  <2>1. o \in Op /\ o.ts.client \in Clients
    BY <1>1 DEF TypeOK, Op, Stamp
  <2>2. Range(pending[o.ts.client]) \subseteq Range(pending'[o.ts.client])
    BY <1>2, <1>3, <2>1
  <2> QED
    BY <1>2, <2>1, <2>2, PlacedStays DEF DeliveryInv
<1>6. Placed(op)'
  <2>1. op \in Range(pending'[op.ts.client])
    BY <1>1, <1>2, <1>3
  <2> QED
    BY <2>1 DEF Placed
<1> QED
  BY <1>2, <1>4, <1>5, <1>6 DEF DeliveryInv

LEMMA SendDelivers ==
  ASSUME Types, DeliveryInv, [Next]_vars, NEW c \in Clients, Send(c)
  PROVE  DeliveryInv'
<1>1. TypeOK /\ TypeOK' /\ Numbering
  BY Step DEF Types
<1>2. Current(c) \in Conns /\ Current(c)[1] = c
  BY <1>1, CurrentType DEF Send, Numbering
<1> DEFINE h == Head(pending[c])
<1>3. h \in Op /\ Range(pending[c]) = Range(Tail(pending[c])) \cup {h} /\ pending \in [Clients -> Seq(Op)]
  BY <1>1, RangeOfTail DEF Send, TypeOK
<1>4. /\ pending' = [pending EXCEPT ![c] = Tail(pending[c])]
      /\ up' = [up EXCEPT ![Current(c)] = Append(up[Current(c)], h)]
      /\ carried' = [carried EXCEPT ![Current(c)] = carried[Current(c)] \cup {h}]
      /\ UNCHANGED <<ses, room, issued>>
  BY DEF Send, server
<1> HIDE DEF h
<1>5. up[Current(c)] \in Seq(Op) /\ up \in [Conns -> Seq(Op)]
  BY <1>1, <1>2 DEF TypeOK
<1>6. /\ Range(Append(up[Current(c)], h)) = Range(up[Current(c)]) \cup {h}
      /\ up[Current(c)] # <<>> => Head(Append(up[Current(c)], h)) = Head(up[Current(c)])
  BY <1>3, <1>5, RangeOfAppend
<1>7. /\ \A k \in Conns : Range(up[k]) \subseteq Range(up'[k])
      /\ \A k \in Conns : carried[k] \subseteq carried'[k]
      /\ h \in carried'[Current(c)]
  <2>1. carried \in [Conns -> SUBSET Op]
    BY <1>1 DEF TypeOK
  <2> QED
    BY <1>2, <1>4, <1>5, <1>6, <2>1
<1>8. HandedOver'
  <2> SUFFICES ASSUME NEW k \in Conns, ses'[k] = "applying" PROVE AtRoom(Head(up[k])) /\ Head(up'[k]) = Head(up[k])
    BY <1>4 DEF HandedOver, AtRoom
  <2>1. ses[k] = "applying" /\ up[k] # <<>>
    BY <1>1, <1>4 DEF Numbering
  <2> QED
    BY <1>4, <1>5, <1>6, <2>1 DEF DeliveryInv, HandedOver
<1>9. ASSUME NEW o \in issued PROVE Placed(o)'
  <2>1. o \in Op /\ o.ts.client \in Clients /\ Placed(o)
    BY <1>1 DEF TypeOK, Op, Stamp, DeliveryInv
  <2>2. CASE o.ts.client = c /\ o = h
    <3>1. PICK k \in Conns : k = Current(c)
      BY <1>2
    <3>2. o \in Range(up'[k]) /\ SentOn(o, k)'
      BY <1>2, <1>4, <1>5, <1>6, <1>7, <2>2, <3>1 DEF SentOn
    <3> QED
      BY <3>2 DEF Placed
  <2>3. CASE o.ts.client # c
    BY <1>3, <1>4, <1>7, <2>1, <2>3, PlacedStays
  <2>4. CASE o.ts.client = c /\ o # h
    <3>1. CASE o \in Range(pending[c])
      <4>1. o \in Range(pending'[c])
        BY <1>3, <1>4, <2>4, <3>1
      <4> QED
        BY <2>4, <4>1 DEF Placed
    <3>2. CASE AtRoom(o)
      BY <2>1, <3>2, AtRoomStays DEF Placed
    <3>3. ASSUME NEW k \in Conns, SentOn(o, k), o \in Range(up[k]) \/ ses[k] = "closed"
          PROVE  Placed(o)'
      <4>1. SentOn(o, k)' /\ (o \in Range(up'[k]) \/ ses'[k] = "closed")
        BY <1>4, <1>7, <3>3 DEF SentOn
      <4> QED
        BY <3>3, <4>1 DEF Placed
    <3> QED
      BY <2>1, <2>4, <3>1, <3>2, <3>3 DEF Placed
  <2> QED
    BY <2>2, <2>3, <2>4
<1> QED
  BY <1>4, <1>8, <1>9 DEF DeliveryInv

\* Steps that leave queues and issued ops alone.
LEMMA OthersDeliver ==
  ASSUME Types, DeliveryInv, [Next]_vars, UNCHANGED <<pending, up, issued, carried>>,
         \A k \in Conns : ses[k] = "closed" => ses'[k] = "closed",
         \A k \in Conns : ses'[k] = "applying" =>
           ses[k] = "applying" \/ AtMost(Head(up[k]).ts, room'[SlotOf(Head(up[k]))])
  PROVE  DeliveryInv'
<1>1. TypeOK /\ Numbering
  BY Step DEF Types
<1>2. HandedOver'
  <2> SUFFICES ASSUME NEW k \in Conns, ses[k] = "applying"
               PROVE  AtMost(Head(up[k]).ts, room'[SlotOf(Head(up[k]))])
    BY DEF HandedOver, AtRoom
  <2>1. Head(up[k]) \in Op /\ AtRoom(Head(up[k]))
    BY <1>1, HeadOfUp DEF Numbering, DeliveryInv, HandedOver
  <2> QED
    BY <2>1, AtRoomStays DEF AtRoom
<1>3. ASSUME NEW o \in issued PROVE Placed(o)'
  <2>1. o \in Op
    BY <1>1 DEF TypeOK
  <2> QED
    BY <2>1, PlacedStays DEF DeliveryInv
<1> QED
  BY <1>2, <1>3 DEF DeliveryInv

LEMMA BroadcastDelivers ==
  ASSUME Types, DeliveryInv, [Next]_vars, NEW k \in Conns, Broadcast(k)
  PROVE  DeliveryInv'
<1>1. TypeOK /\ Numbering
  BY Step DEF Types
<1>2. Head(up[k]) \in Op /\ Range(up[k]) = Range(Tail(up[k])) \cup {Head(up[k])}
  BY <1>1, HeadOfUp DEF Broadcast, Numbering
<1>3. /\ up' = [up EXCEPT ![k] = Tail(up[k])] /\ ses' = [ses EXCEPT ![k] = "live"]
      /\ UNCHANGED <<pending, issued, room, carried>> /\ ses[k] = "applying"
      /\ up \in [Conns -> Seq(Op)] /\ ses \in [Conns -> SesStates]
  BY <1>1 DEF Broadcast, client, TypeOK
<1>4. AtRoom(Head(up[k]))
  BY <1>3 DEF DeliveryInv, HandedOver
<1>5. HandedOver'
  BY <1>3 DEF DeliveryInv, HandedOver, AtRoom
<1>6. ASSUME NEW o \in issued PROVE Placed(o)'
  <2>1. o \in Op /\ Placed(o)
    BY <1>1 DEF TypeOK, DeliveryInv
  <2>2. CASE AtRoom(o)
    BY <2>1, <2>2, AtRoomStays DEF Placed
  <2>3. CASE o \in Range(pending[o.ts.client])
    BY <1>3, <2>3 DEF Placed
  <2>4. ASSUME ~AtRoom(o), NEW j \in Conns, SentOn(o, j), o \in Range(up[j]) \/ ses[j] = "closed"
        PROVE  Placed(o)'
    <3>1. o # Head(up[k])
      BY <1>4, <2>4
    <3>2. SentOn(o, j)' /\ (o \in Range(up'[j]) \/ ses'[j] = "closed")
      BY <1>2, <1>3, <2>4, <3>1 DEF SentOn
    <3> QED
      BY <2>4, <3>2 DEF Placed
  <2> QED
    BY <2>1, <2>2, <2>3, <2>4 DEF Placed
<1> QED
  BY <1>3, <1>5, <1>6 DEF DeliveryInv

LEMMA CloseDelivers ==
  ASSUME Types, DeliveryInv, [Next]_vars, NEW k \in Conns, Close(k)
  PROVE  DeliveryInv'
<1>1. TypeOK
  BY Step
<1>2. /\ up' = [up EXCEPT ![k] = <<>>] /\ ses' = [ses EXCEPT ![k] = "closed"]
      /\ UNCHANGED <<pending, issued, room, carried>> /\ ses[k] # "applying"
      /\ up \in [Conns -> Seq(Op)] /\ ses \in [Conns -> SesStates]
  BY <1>1 DEF Close, client, TypeOK
<1>3. HandedOver'
  BY <1>2 DEF DeliveryInv, HandedOver, AtRoom
<1>4. ASSUME NEW o \in issued PROVE Placed(o)'
  <2>1. o \in Op /\ Placed(o)
    BY <1>1 DEF TypeOK, DeliveryInv
  <2>2. CASE AtRoom(o)
    BY <2>1, <2>2, AtRoomStays DEF Placed
  <2>3. CASE o \in Range(pending[o.ts.client])
    BY <1>2, <2>3 DEF Placed
  <2>4. ASSUME NEW j \in Conns, SentOn(o, j), o \in Range(up[j]) \/ ses[j] = "closed"
        PROVE  Placed(o)'
    <3>1. SentOn(o, j)' /\ (o \in Range(up'[j]) \/ ses'[j] = "closed")
      BY <1>2, <2>4 DEF SentOn
    <3> QED
      BY <2>4, <3>1 DEF Placed
  <2> QED
    BY <2>1, <2>2, <2>3, <2>4 DEF Placed
<1> QED
  BY <1>2, <1>3, <1>4 DEF DeliveryInv

LEMMA DeliveryNext == Types /\ DeliveryInv /\ [Next]_vars => DeliveryInv'
<1> SUFFICES ASSUME Types, DeliveryInv, [Next]_vars PROVE DeliveryInv'
  OBVIOUS
<1>1. TypeOK /\ Numbering
  BY Step DEF Types
<1>2. ASSUME NEW c \in Clients, Edit(c) PROVE DeliveryInv'
  BY <1>1, <1>2, EditIsCommit, CommitDelivers
<1>3. ASSUME NEW c \in Clients, Send(c) PROVE DeliveryInv'
  BY <1>3, SendDelivers
<1>4. ASSUME NEW c \in Clients, Receive(c) \/ Drop(c) PROVE DeliveryInv'
  <2>1. UNCHANGED <<pending, up, issued, carried, ses>>
    BY <1>4 DEF Receive, Drop, client, server
  <2> QED
    BY <2>1, OthersDeliver
<1>5. ASSUME NEW c \in Clients, Connect(c) PROVE DeliveryInv'
  <2>1. UNCHANGED <<pending, up, issued, carried>> /\ ses' = [ses EXCEPT ![<<c, cur[c] + 1>>] = "hello"]
    BY <1>5 DEF Connect, client
  <2>2. ASSUME NEW k \in Conns, k = <<c, cur[c] + 1>> PROVE ses[k] = "none"
    BY <1>1, <2>2 DEF Numbering, TypeOK
  <2>3. /\ \A j \in Conns : ses[j] = "closed" => ses'[j] = "closed"
        /\ \A j \in Conns : ses'[j] = "applying" => ses[j] = "applying"
    BY <1>1, <2>1, <2>2 DEF TypeOK
  <2> QED
    BY <2>1, <2>3, OthersDeliver
<1>6. ASSUME NEW k \in Conns, Apply(k) PROVE DeliveryInv'
  <2>1. /\ UNCHANGED <<pending, up, issued, carried>> /\ ses' = [ses EXCEPT ![k] = "applying"]
        /\ ses[k] = "live" /\ room' = ApplyTo(room, Head(up[k]))
    BY <1>6 DEF Apply, client
  <2>2. Head(up[k]) \in Op /\ room \in Board
    BY <1>1, <1>6, HeadOfUp DEF Apply, TypeOK
  <2>3. AtMost(Head(up[k]).ts, room'[SlotOf(Head(up[k]))])
    BY <2>1, <2>2, ApplyGrows
  <2>4. \A j \in Conns : /\ ses[j] = "closed" => ses'[j] = "closed"
                         /\ ses'[j] = "applying" => ses[j] = "applying" \/ j = k
    BY <1>1, <2>1 DEF TypeOK
  <2> QED
    BY <2>1, <2>3, <2>4, OthersDeliver
<1>7. ASSUME NEW k \in Conns, Subscribe(k) \/ Welcome(k) \/ Enter(k) \/ Resync(k) \/ Relay(k)
      PROVE  DeliveryInv'
  <2>1. UNCHANGED <<pending, up, issued, carried>>
    BY <1>7 DEF Subscribe, Welcome, Enter, Resync, Relay, client
  <2>2. /\ \A j \in Conns : ses[j] = "closed" => ses'[j] = "closed"
        /\ \A j \in Conns : ses'[j] = "applying" => ses[j] = "applying"
    BY <1>1, <1>7 DEF TypeOK, Subscribe, Welcome, Enter, Resync, Relay
  <2> QED
    BY <2>1, <2>2, OthersDeliver
<1>8. ASSUME NEW k \in Conns, Broadcast(k) \/ Close(k) PROVE DeliveryInv'
  BY <1>8, BroadcastDelivers, CloseDelivers
<1>9. CASE UNCHANGED vars
  BY <1>9, OthersDeliver DEF vars
<1> QED
  BY <1>2, <1>3, <1>4, <1>5, <1>6, <1>7, <1>8, <1>9 DEF Next, Net, Break, SeeClose, Serve

\* An op leaves a queue only for the next one on its way to the room, and is
\* lost only with the session of the connection it was sent on: the outbox, a
\* later reconnection and the gap between applying and broadcasting lose nothing.
THEOREM NothingIsLost == Spec => []NothingLost
<1>1. Init => DeliveryInv
  BY DEF Init, DeliveryInv, HandedOver
<1>2. DeliveryInv => NothingLost
  BY DEF DeliveryInv, Placed, AtRoom, NothingLost
<1> QED
  BY <1>1, <1>2, TypesInit, TypesNext, DeliveryNext, PTL DEF Spec

-----------------------------------------------------------------------------
(* Replication implements SharedBoard: doc is view, room is hub and issued   *)
(* is log.                                                                   *)

\* NothingMadeUp is kept by a step after which every queue holds what it held.
LEMMA MadeUpStays ==
  ASSUME NothingMadeUp, UNCHANGED <<doc, room, issued>>,
         \A c \in Clients : /\ Range(pending'[c]) \subseteq Range(pending[c])
                            /\ Range(down'[c]) \subseteq Range(down[c])
         , \A k \in Conns : /\ Range(up'[k]) \subseteq Range(up[k])
                            /\ Range(rx'[k]) \subseteq Range(rx[k])
  PROVE  NothingMadeUp'
BY DEF NothingMadeUp, Sourced

LEMMA CommitMadeUp ==
  ASSUME Types, Types', NothingMadeUp, NEW c \in Clients, NEW op \in Op, Commit(c, op)
  PROVE  NothingMadeUp'
<1>1. /\ TypeOK /\ UNCHANGED <<up, down, rx, room>>
      /\ issued' = issued \cup {op} /\ doc' = [doc EXCEPT ![c] = ApplyTo(doc[c], op)]
      /\ pending' = [pending EXCEPT ![c] = Append(pending[c], op)]
  BY DEF Types, Commit, server
<1>2. issued \subseteq issued' /\ op \in issued'
  BY <1>1
<1>3. Genuine(room', issued')
  BY <1>1, <1>2, GenuineStays DEF NothingMadeUp
<1>4. ASSUME NEW d \in Clients PROVE Genuine(doc'[d], issued')
  <2>1. Genuine(doc[d], issued') /\ doc[d] \in Board
    BY <1>1, <1>2, GenuineStays DEF NothingMadeUp, TypeOK
  <2>2. Genuine(ApplyTo(doc[d], op), issued')
    BY <1>2, <2>1, ApplyGenuine
  <2> QED
    BY <1>1, <2>1, <2>2 DEF TypeOK
<1>5. ASSUME NEW d \in Clients PROVE Range(pending'[d]) \subseteq issued'
  <2>1. pending[d] \in Seq(Op) /\ Range(pending[d]) \subseteq issued
    BY <1>1 DEF TypeOK, NothingMadeUp
  <2>2. Range(Append(pending[d], op)) = Range(pending[d]) \cup {op}
    BY <2>1, RangeOfAppend
  <2> QED
    BY <1>1, <1>2, <2>1, <2>2 DEF TypeOK
<1>6. ASSUME NEW d \in Clients, NEW m \in Range(down'[d]) PROVE Sourced(m)'
  <2>1. Sourced(m)
    BY <1>1 DEF NothingMadeUp
  <2> QED
    BY <1>2, <2>1, GenuineStays DEF Sourced
<1>7. \A k \in Conns : /\ Range(up'[k]) \subseteq issued'
                       /\ \A o \in Range(rx'[k]) : o.op \in issued'
  BY <1>1, <1>2 DEF NothingMadeUp
<1> QED
  BY <1>3, <1>4, <1>5, <1>6, <1>7 DEF NothingMadeUp

LEMMA ReceiveMadeUp ==
  ASSUME Types, Types', NothingMadeUp, NEW c \in Clients, Receive(c)
  PROVE  NothingMadeUp'
<1> DEFINE m == Head(down[c])
<1>1. /\ TypeOK /\ UNCHANGED <<pending, up, rx, room, issued>>
      /\ doc' = [doc EXCEPT ![c] = Absorb(doc[c], m)]
      /\ down' = [down EXCEPT ![c] = Tail(down[c])]
  BY DEF Types, Receive, server
<1>2. m \in OpsMsg \cup BoardMsg /\ Range(down[c]) = Range(Tail(down[c])) \cup {m}
  BY <1>1, RangeOfTail DEF Receive, TypeOK
<1>3. Sourced(m) /\ Genuine(doc[c], issued) /\ doc[c] \in Board
  BY <1>1, <1>2 DEF NothingMadeUp, TypeOK
<1>4. Genuine(Absorb(doc[c], m), issued)
  BY <1>2, <1>3, ApplyGenuine, MergeGenuine DEF Sourced, Absorb, OpsMsg, BoardMsg
<1>5. \A d \in Clients : Genuine(doc'[d], issued)
  BY <1>1, <1>4 DEF NothingMadeUp, TypeOK
<1>6. \A d \in Clients : Range(down'[d]) \subseteq Range(down[d])
  BY <1>1, <1>2 DEF TypeOK
<1>7. \A d \in Clients : \A n \in Range(down'[d]) : Sourced(n)'
  BY <1>1, <1>6 DEF NothingMadeUp, Sourced
<1> QED
  BY <1>1, <1>5, <1>7 DEF NothingMadeUp

LEMMA NetMadeUp ==
  ASSUME Types, Types', NothingMadeUp, NEW c \in Clients, Quiet(c)
  PROVE  NothingMadeUp'
<1>1. TypeOK /\ Numbering /\ UNCHANGED <<doc, room, issued, rx>>
  BY DEF Types, Quiet, Connect, Send, Break, SeeClose, Drop, client, server
<1>2. CASE Connect(c)
  BY <1>1, <1>2, MadeUpStays DEF Connect, client
<1>3. CASE Send(c)
  <2>1. Current(c) \in Conns
    BY <1>1, <1>3, CurrentType DEF Send, Numbering
  <2>2. /\ Head(pending[c]) \in Op /\ Range(pending[c]) = Range(Tail(pending[c])) \cup {Head(pending[c])}
        /\ pending' = [pending EXCEPT ![c] = Tail(pending[c])] /\ down' = down
        /\ up' = [up EXCEPT ![Current(c)] = Append(up[Current(c)], Head(pending[c]))]
    BY <1>1, <1>3, RangeOfTail DEF Send, TypeOK
  <2>3. \A d \in Clients : Range(pending'[d]) \subseteq issued
    BY <1>1, <2>2 DEF TypeOK, NothingMadeUp
  <2>4. ASSUME NEW k \in Conns PROVE Range(up'[k]) \subseteq issued
    <3>1. Range(Append(up[k], Head(pending[c]))) = Range(up[k]) \cup {Head(pending[c])}
      BY <1>1, <2>2, RangeOfAppend DEF TypeOK
    <3> QED
      BY <1>1, <2>2, <3>1 DEF TypeOK, NothingMadeUp
  <2> QED
    BY <1>1, <2>2, <2>3, <2>4 DEF NothingMadeUp, Sourced
<1>4. CASE Drop(c)
  <2>1. \A d \in Clients : Range(down'[d]) \subseteq Range(down[d])
    BY <1>1, <1>4, RangeOfPrefix DEF Drop, TypeOK
  <2> QED
    BY <1>1, <1>4, <2>1, MadeUpStays DEF Drop, client
<1> QED
  BY <1>2, <1>3, <1>4 DEF Quiet, Break, SeeClose

\* What a session writes is made of what the room and the receiver hold.
LEMMA WriteMadeUp ==
  ASSUME TypeOK, NothingMadeUp, NEW k \in Conns, NEW m \in OpsMsg \cup BoardMsg,
         Sourced(m), Write(k, m), NEW d \in Clients, NEW n \in Range(down'[d])
  PROVE  Sourced(n)
<1>1. down[d] \in Seq(OpsMsg \cup BoardMsg) /\ down \in [Clients -> Seq(OpsMsg \cup BoardMsg)]
  BY DEF TypeOK
<1>2. Range(Append(down[d], m)) = Range(down[d]) \cup {m}
  BY <1>1, RangeOfAppend
<1>3. n \in Range(down[d]) \/ n = m
  BY <1>1, <1>2 DEF Write
<1> QED
  BY <1>3 DEF NothingMadeUp

LEMMA ServeMadeUp ==
  ASSUME Types, Types', NothingMadeUp, NEW k \in Conns, Serve(k) \/ Close(k)
  PROVE  NothingMadeUp'
<1>1. TypeOK /\ Numbering /\ UNCHANGED <<doc, issued, pending>>
  BY DEF Types, Serve, Close, Subscribe, Welcome, Enter, Apply, Broadcast, Resync, Relay, client
<1>2. CASE Subscribe(k) \/ Enter(k)
  BY <1>1, <1>2, MadeUpStays DEF Subscribe, Enter, client
<1>3. CASE Welcome(k) \/ Resync(k)
  <2>1. UNCHANGED <<room, up, rx>> /\ Write(k, Snapshot)
    BY <1>3 DEF Welcome, Resync
  <2>2. Sourced(Snapshot)
    BY DEF Sourced, Snapshot, NothingMadeUp
  <2>3. \A d \in Clients : \A n \in Range(down'[d]) : Sourced(n)
    BY <1>1, <2>1, <2>2, SnapshotType, WriteMadeUp
  <2> QED
    BY <1>1, <2>1, <2>3 DEF NothingMadeUp, Sourced
<1>4. CASE Apply(k)
  <2>1. Head(up[k]) \in Op /\ Head(up[k]) \in issued
    BY <1>1, <1>4, HeadOfUp DEF Apply, NothingMadeUp
  <2>2. Genuine(room', issued)
    BY <1>1, <1>4, <2>1, ApplyGenuine DEF Apply, NothingMadeUp, TypeOK
  <2> QED
    BY <1>1, <1>4, <2>2 DEF Apply, NothingMadeUp, Sourced
<1>5. CASE Broadcast(k)
  <2>1. /\ UNCHANGED <<room, down>> /\ ses[k] = "applying" /\ up[k] # <<>>
        /\ up' = [up EXCEPT ![k] = Tail(up[k])] /\ rx' = [j \in Conns |-> Sent(k, j)]
    BY <1>1, <1>5 DEF Broadcast, Sent, Numbering
  <2>2. Head(up[k]) \in issued /\ Range(Tail(up[k])) \subseteq issued
    BY <1>1, <2>1, HeadOfUp DEF NothingMadeUp
  <2>3. \A j \in Conns : Range(up'[j]) \subseteq issued
    BY <1>1, <2>1, <2>2 DEF TypeOK, NothingMadeUp
  <2>4. ASSUME NEW j \in Conns, NEW o \in Range(rx'[j]) PROVE o.op \in issued
    <3>1. rx'[j] = Sent(k, j)
      BY <2>1
    <3>2. o \in Range(rx[j]) \/ o = [exclude |-> k[1], op |-> Head(up[k])]
      BY <2>1, <3>1, SentType
    <3> QED
      BY <2>2, <3>2 DEF NothingMadeUp
  <2> QED
    BY <1>1, <2>1, <2>3, <2>4 DEF NothingMadeUp, Sourced
<1>6. CASE Relay(k)
  <2> DEFINE m == [type |-> "Ops", op |-> Head(rx[k]).op]
  <2>1. /\ UNCHANGED <<room, up>> /\ rx' = [rx EXCEPT ![k] = Tail(rx[k])]
        /\ Head(rx[k]) \in Outbound /\ Range(rx[k]) = Range(Tail(rx[k])) \cup {Head(rx[k])}
        /\ Write(k, m) \/ down' = down
    BY <1>1, <1>6, RangeOfTail DEF Relay, TypeOK
  <2>2. m \in OpsMsg \cup BoardMsg /\ Sourced(m)
    BY <2>1 DEF Outbound, OpsMsg, Sourced, NothingMadeUp
  <2> HIDE DEF m
  <2>3. \A d \in Clients : \A n \in Range(down'[d]) : Sourced(n)
    BY <1>1, <2>1, <2>2, WriteMadeUp DEF NothingMadeUp
  <2>4. \A j \in Conns : Range(rx'[j]) \subseteq Range(rx[j])
    BY <1>1, <2>1 DEF TypeOK
  <2> QED
    BY <1>1, <2>1, <2>3, <2>4 DEF NothingMadeUp, Sourced
<1>7. CASE Close(k)
  <2>1. /\ UNCHANGED <<room, down>>
        /\ up' = [up EXCEPT ![k] = <<>>] /\ rx' = [rx EXCEPT ![k] = <<>>]
    BY <1>7 DEF Close
  <2>2. \A j \in Conns : Range(rx'[j]) \subseteq Range(rx[j]) /\ Range(up'[j]) \subseteq Range(up[j])
    BY <1>1, <2>1, RangeOfEmpty DEF TypeOK
  <2> QED
    BY <1>1, <2>1, <2>2, MadeUpStays
<1> QED
  BY <1>2, <1>3, <1>4, <1>5, <1>6, <1>7 DEF Serve

LEMMA MadeUpNext == Types /\ NothingMadeUp /\ [Next]_vars => NothingMadeUp'
<1> SUFFICES ASSUME Types, NothingMadeUp, [Next]_vars PROVE NothingMadeUp'
  OBVIOUS
<1>1. Types' /\ TypeOK
  BY Step
<1>2. CASE UNCHANGED vars
  BY <1>2, MadeUpStays DEF vars
<1> QED
  BY <1>1, <1>2, StepCases, CommitMadeUp, ReceiveMadeUp, NetMadeUp, ServeMadeUp

LEMMA MadeUpInit == Init => NothingMadeUp
BY EmptyGenuine, RangeOfEmpty DEF Init, NothingMadeUp

\* Replicas, queues and snapshots only ever hold what clients issued.
THEOREM NothingIsMadeUp == Spec => []NothingMadeUp
BY TypesInit, TypesNext, MadeUpInit, MadeUpNext, PTL DEF Spec

-----------------------------------------------------------------------------
(* The refinement. *)

\* The instance shares the register algebra.
LEMMA SameAlgebra ==
  /\ Abstract!Slots = Slots /\ Abstract!Board = Board /\ Abstract!Empty = Empty
  /\ \A a, b : Abstract!Before(a, b) = Before(a, b)
  /\ \A a, b : Abstract!Below(a, b) = Below(a, b)
  /\ \A b, op : Abstract!ApplyTo(b, op) = ApplyTo(b, op)
  /\ \A b, S : Abstract!Genuine(b, S) = Genuine(b, S)
<1>1. Abstract!Slots = Slots /\ Abstract!Stamp = Stamp /\ Abstract!NoStamp = NoStamp
  BY DEF Abstract!Slots, Abstract!Kinds, Slots, Kinds, Abstract!Stamp, Stamp,
         Abstract!NoStamp, NoStamp
<1>2. Abstract!Board = Board /\ Abstract!Empty = Empty
  BY <1>1 DEF Abstract!Board, Board, Abstract!Empty, Empty
<1>3. \A a, b : Abstract!Before(a, b) = Before(a, b)
  BY DEF Abstract!Before, Before
<1>4. \A a, b : Abstract!Below(a, b) = Below(a, b)
  BY <1>1, <1>3 DEF Abstract!Below, Below, Abstract!AtMost, AtMost
<1>5. \A a, b : Abstract!Later(a, b) = Later(a, b)
  BY <1>3 DEF Abstract!Later, Later
<1>6. \A op : Abstract!SlotOf(op) = SlotOf(op)
  BY DEF Abstract!SlotOf, SlotOf
<1>7. \A b, op : Abstract!ApplyTo(b, op) = ApplyTo(b, op)
  BY <1>5, <1>6 DEF Abstract!ApplyTo, ApplyTo
<1>8. \A b, S : Abstract!Genuine(b, S) = Genuine(b, S)
  BY <1>1, <1>6 DEF Abstract!Genuine, Genuine
<1> QED
  BY <1>1, <1>2, <1>3, <1>4, <1>7, <1>8

LEMMA RefinesInit == Init => Abstract!Init
BY SameAlgebra DEF Init, Abstract!Init

\* A local commit is an Edit: its stamp is new, and newer than the view.
LEMMA CommitRefines ==
  ASSUME Types, ClockInv, NEW c \in Clients, NEW op \in Op, op.ts = Tick(c), Commit(c, op)
  PROVE  Abstract!Next
<1>1. /\ TypeOK /\ ClockCovers /\ op.ts.client = c /\ op.ts.counter = clock[c] + 1
      /\ clock[c] \in Nat
  BY TickType DEF Types, ClockInv, TypeOK
<1>2. ASSUME NEW o \in issued PROVE o.ts # op.ts
  <2>1. o.ts.counter <= clock[o.ts.client] /\ o.ts.counter \in Nat
    BY <1>1 DEF ClockInv, TypeOK, Op, Stamp
  <2> QED
    BY <1>1, <2>1
<1>3. \A x \in Slots : Before(doc[c][x], op.ts)
  BY <1>1, TickIsNewest
<1>4. Abstract!Edit(c, op) /\ op \in issued'
  BY <1>1, <1>2, <1>3, SameAlgebra DEF Commit, Abstract!Edit
<1> QED
  BY <1>4 DEF Abstract!Next

LEMMA ReceiveRefines ==
  ASSUME Types, Types', NothingMadeUp, NothingMadeUp', [Next]_vars, NEW c \in Clients, Receive(c)
  PROVE  Abstract!Next
<1>1. /\ doc' \in [Clients -> Board] /\ UNCHANGED <<room, issued>>
      /\ doc' = [doc EXCEPT ![c] = Absorb(doc[c], Head(down[c]))] /\ doc \in [Clients -> Board]
  BY DEF Types, TypeOK, Receive
<1>2. Below(doc[c], doc'[c]) /\ Genuine(doc'[c], issued)
  BY <1>1, DocGrows DEF NothingMadeUp
<1>3. Abstract!Learn(c)
  BY <1>1, <1>2, SameAlgebra DEF Abstract!Learn, Abstract!Learns
<1> QED
  BY <1>3 DEF Abstract!Next

LEMMA ApplyRefines ==
  ASSUME Types, Types', NothingMadeUp, NothingMadeUp', [Next]_vars, NEW k \in Conns, Apply(k)
  PROVE  Abstract!Next
<1>1. room' \in Board /\ UNCHANGED <<doc, issued>> /\ Below(room, room') /\ Genuine(room', issued)
  BY RoomGrows DEF Types, TypeOK, Apply, client, NothingMadeUp
<1>2. Abstract!LearnHub
  BY <1>1, SameAlgebra DEF Abstract!LearnHub, Abstract!Learns
<1> QED
  BY <1>2 DEF Abstract!Next

LEMMA RefinesNext ==
  Types /\ ClockInv /\ NothingMadeUp /\ [Next]_vars => [Abstract!Next]_(Abstract!bvars)
<1> SUFFICES ASSUME Types, ClockInv, NothingMadeUp, [Next]_vars
             PROVE  [Abstract!Next]_(Abstract!bvars)
  OBVIOUS
<1>1. Types' /\ NothingMadeUp' /\ TypeOK
  BY Step, MadeUpNext
<1>2. ASSUME UNCHANGED <<doc, clock, issued>>, ~\E k \in Conns : Apply(k)
      PROVE  UNCHANGED Abstract!bvars
  BY <1>1, <1>2, RoomCases DEF Abstract!bvars
<1>3. ASSUME NEW k \in Conns, Apply(k) PROVE Abstract!Next
  BY <1>1, <1>3, ApplyRefines
<1> QED
  BY <1>1, <1>2, <1>3, StepCases, QuietKeepsClient, CommitRefines, ReceiveRefines

\* The documents of the clients and the room are replicas of one board: with
\* the network left out, an edit appears at its author and then spreads.
THEOREM ReplicationImplementsBoard == Spec => Refines
BY TypesInit, TypesNext, ClockInit, ClockNext, MadeUpInit, MadeUpNext,
   RefinesInit, RefinesNext, PTL DEF Spec, Refines, Abstract!Spec
=============================================================================
