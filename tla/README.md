# Weavedraw in TLA+

A model of [Weavedraw](../src/README.md), a collaborative whiteboard: desktop
clients that draw strokes, a server that relays them, and a CRDT that makes
every replica agree. The modules here are translated from the Rust source,
model-checked with TLC on small instances, and, for what matters most, proved
with TLAPS for instances of any size.

## The system

| Component | Source | State it keeps | Operations | Talks to |
|---|---|---|---|---|
| Register algebra | `common/src/crdt.rs` | per stroke, the newest add and the newest remove | apply, merge, is_visible, inverse | used by every replica |
| `StrokeSet` | `common/src/crdt.rs` | the entries, and an index of the visible strokes in draw order | apply, apply_all, merge, load, save | document and room |
| Document and clock | `client/src/app.rs` | a `StrokeSet`, a Lamport clock, a generation counter | commit, undo, redo, clear, erase, handle_server | network thread (two channels) |
| Network thread | `client/src/net.rs` | the connection, the outbox of offline ops | connect, Hello, flush outbox, relay, reconnect with backoff | UI by channels, server by WebSocket |
| Session | `server/src/ws.rs` | a socket, a broadcast receiver, a cursor | handshake, handle a message, relay a broadcast, resync, teardown | room |
| Room | `server/src/room.rs` | a `StrokeSet` behind a lock, the peers, a broadcast channel, a dirty flag | apply_ops, broadcast, join, leave, save_if_dirty | sessions, disk |
| Registry, flush loop, main | `server/src/registry.rs`, `lib.rs`, `main.rs` | the open rooms; snapshot files | get_or_create, flush_all, shutdown | rooms, disk |
| Gestures, history | `client/src/app.rs` | the stroke being drawn, the erase group, undo and redo stacks | drag, click, cancel, undo, redo | document |
| Presence, previews | `room.rs`, `ws.rs`, `app.rs`, `protocol.rs` | peers' cursors, half-drawn strokes | join, leave, cursor, delta | broadcast |
| Renderer | `client/src/gpu.rs`, `canvas.rs` | GPU chunks, tessellation cache | sync, paint | document |

### What is hard about it

* **Concurrency.** A session runs beside all others, and the room's lock covers
  single calls only: apply and broadcast, subscribe and snapshot, change and
  dirty flag are separate steps. The client's UI and network threads are joined
  by unbounded channels.
* **Ordering.** A newcomer gets a snapshot and broadcasts from two paths; a
  full broadcast channel drops the oldest frames and the session answers with a
  snapshot; ops can arrive twice and late.
* **Failure.** Connections break at any point, and the server may still run the
  old session of a client that is back. Writes fail. The process is killed.
* **Stale copies.** The draw-order index, the generation counter, the dirty
  flag and the clock all summarise other state and must not fall behind it.

### What makes each component correct

* Registers: apply and merge are a join, so order, grouping and repetition of
  what arrives do not matter.
* `StrokeSet`: the index lists exactly the visible strokes; no change of what is
  drawn goes unreported.
* Document and clock: stamps are unique, and a local edit beats everything its
  author can see.
* Replication: nothing slips between snapshot and broadcasts; no replica
  forgets or invents anything; everyone ends up with all the room knows, and the
  room with all that was drawn offline.
* Persistence: a room that is not dirty looks the same on disk, a snapshot is
  never torn, and what was saved stays saved.
* History: undo and redo walk through the pictures the user has seen, whole
  groups at a time, whatever others do to the strokes meanwhile.
* Previews: a half-drawn stroke is shown as its author draws it, never beside
  the committed one, and not for ever.
* Renderer: what is on the GPU is the document, in draw order, without
  tessellating again what is already there.

## The modules

| Module | Models | Checked by |
|---|---|---|
| `Lww` | stamps, registers, boards, ops: the pure part of `crdt.rs` | (used by all) |
| `StrokeSet` | `StrokeSet` with its index, folds and loads | `MCStrokeSet` |
| `Replication` | UI thread, network thread, sessions, room and channel for one room | `MCReplication` |
| `SharedBoard` | abstract specification: what replication promises, without a network | as `Refines` of `Replication` |
| `Presence` | the room's peer map, its sessions, what clients believe about peers | `MCPresence` |
| `Persistence` | registry, dirty flag, save, flush loop, shutdown, crash | `MCPersistence` |
| `History` | one client's gestures, groups, undo and redo stacks | `MCHistory` |
| `UndoLog` | abstract specification: what undo and redo promise | as `Refines` of `History` |
| `Previews` | deltas and cursors on their way from authors to one viewer | `MCPreviews` |
| `Renderer` | chunks, meshes and the generation by which the renderer tells a change | `MCRenderer` |
| `LwwTheorems`, `StrokeSetProofs`, `ReplicationProofs`, `PresenceProofs`, `PersistenceProofs`, `HistoryProofs`, `PreviewsProofs`, `RendererProofs` | theorems | TLAPS |

`Replication` composes document, network thread, session and room; the other
modules each take one more piece of the state along the same path. `Lww` is
shared by `StrokeSet`, `Replication`, `Persistence` and `History`.

Definitions named after a mutant ("Mutant of ...") are plausible bugs of the
definition they precede. Each property is violated when one of them takes that
definition's place, so none of them holds by the shape of the model.

### Lww and StrokeSet

A stroke's payload is fixed when it is drawn, so an entry is two registers that
each hold a stamp. A *slot* is a stroke and one of its registers, and a *board*
maps slots to stamps; `NoStamp` is `None`. `ApplyTo` and `MergeInto` are what
`apply` and `merge` do to the entries.

`StrokeSet` adds the `BTreeMap` index and the counts. Its replicas take ops in any order and any
number of times, merge each other, and are serialised and read back. `HashMap`
iteration order is quantified over wherever it could matter.

### Replication

| Variable | Code |
|---|---|
| `doc`, `clock` | `WeavedrawApp.doc.set`, `WeavedrawApp.clock.counter` |
| `pending` | `to_net`, then the `outbox` of `net.rs::run`, oldest first |
| `online`, `cur` | the network thread is in `session()`; which connection |
| `up` | frames on the socket towards the server |
| `down` | frames on the socket towards the client, then `from_net` |
| `ses` | how far `ws.rs::session` is |
| `rx`, `lagged` | what the session's `broadcast::Receiver` has not received |
| `room` | `Room.state` |
| `issued`, `carried` | history: every op stamped; the ops sent on each connection |

`Draw`, `Erase` and `Invert` are the edits, all through `Commit`. `Invert` lets
undo or redo pick any op of the client instead of the top of a stack, which
gives more behaviours than the program has. `Receive` is `handle_server`.
`Connect`, `Send`, `Break`, `SeeClose` are the network thread. `Subscribe`,
`Welcome`, `Enter`, `Apply`, `Broadcast`, `Resync`, `Relay`, `Close` are the
session, one action per stretch between two awaits or lock releases. An `Ops`
message of several ops is several messages of one op, with more interleavings
than the code allows. A rejection is a `Close`.

Presence and ephemeral frames share the broadcast channel with ops. They are
left out: their only effect on ops is to fill the channel sooner, and the
channel is checked at a capacity of one, where any frame fills it.

### Presence

| Variable | Code |
|---|---|
| `peers` | `Room.peers`, from clients to cursors (numbers) |
| `ses`, `cursor`, `rx`, `lagged` | how far `ws.rs::session` is, its `cursor`, its broadcast receiver |
| `cur`, `online`, `down` | as in `Replication` |
| `seen` | `WeavedrawApp.peers` |
| `missed`, `muddled` | history: sessions that lagged; clients whose sessions overlapped, or ended without `leave` |

`Subscribe`, `Join` (or `TurnAway`), `Greet` (or `GreetFails`) and `Announce`
are the handshake in the order of the code; `Move` and `Tell`, `Leave` and
`Depart` are the map update and the broadcast after it. `Refuse` is every
early return before that. Only presence messages are in the channel; `Resync`
answers a lag without the peers, as the code does.

### Persistence

| Variable | Code |
|---|---|
| `phase` | the process: off, running, stopping (after Ctrl-C), final flush |
| `open`, `state`, `dirty` | `Registry.rooms`, `Room.state`, `Room.dirty` |
| `at` | a session between `apply_all` and `dirty.store` in `apply_ops` |
| `fl`, `todo`, `cur`, `buf` | where the flusher is, rooms left in `flush_all`, the room being saved, its encoded snapshot |
| `file`, `tmp`, `aside` | `<room>.bincode`, `<room>.tmp`, `<room>.bincode.corrupt` |
| `old` | history: snapshots found unreadable |

Every step of `save_if_dirty` and `write_atomic` is an action, `Fail` may end
any of the file operations, and `Crash` may come between any two. (`save_if_dirty` may also return early, its flag cleared, when
`codec::encode` fails (`room.rs:132`): that is left out, because neither codec
can fail on a `StrokeSet` in memory.) `Upgrade`
stands for a new server version whose snapshot format differs, as v1 and v2 of
the protocol do. `axum::serve` does not wait for upgraded sockets, so sessions
go on until `Exit`. A crash here is the death of the process, not of the
machine: `write_atomic` does not sync, and what a power failure leaves of a
renamed file is up to the file system.

### History

| Variable | Code |
|---|---|
| `doc`, `clock` | `WeavedrawApp.doc.set`, `WeavedrawApp.clock.counter` |
| `tool`, `held` | the tool selected; the pointer is down on the canvas |
| `drawing`, `text`, `erasing` | the fields of those names: gestures in progress |
| `undo`, `redo` | the two stacks of groups of ops |
| `foreign` | history: strokes on which somebody else, or an undo in mid-drag, has overridden an entry |

One frame handles what arrived, then the shortcuts, then the pointer, so remote
ops and shortcuts fall anywhere inside a drag: `Remote`, `Undo`, `Redo`,
`ClearMine` and `SelectTool` are enabled with the pointer down. A released
pointer is `StopDrawing`, `DropDrawing` or `StopErasing`, depending on the tool
selected *then*. `Touch` removes a stroke at once and adds it to the group of
the drag, if there is one. Holding Space while nothing is dragged commits a
label (`CloseEditor`); a drag that ends under it is `DropDrawing` or `StopErasing`.

`UndoLog` is a log of pictures. A group is mapped to the picture its inverse
leads to (`Reverted`, `Pictures`), for all strokes that are not `foreign`.

### Previews

| Variable | Code |
|---|---|
| `status`, `sent` | what an author has done with a stroke; deltas it has made of it |
| `cur`, `link`, `queue` | the author's connection; what its network thread has not taken yet |
| `up`, `ses` | frames towards the server; the author's sessions |
| `vses`, `rx`, `lagged` | the viewer's session and its broadcast receiver |
| `room`, `doc`, `previews` | the server's document, the viewer's document and previews |
| `spotty` | history: strokes of which the viewer missed something |

`Begin`, `Extend`, `Commit`, `Cancel`, `Erase` and `SendCursor` are the author's
frames, `Break`, `Outbox` and `Connect` its network thread, which keeps ops and
drops ephemera while it is offline. `Handle` and `End` are its sessions; `apply_ops` and the broadcast after it are
one step of `Handle`, although others may come between them (as they do in
`Replication`): between them a viewer could only get a snapshot that has the op already, when it
rejoins or after a lag, and what has been begun by then is `spotty` in any case;
`Believe` is `handle_server` of the viewer, with `NewPreview` for `apply_delta`
and `Folded` for `StrokeDelta::apply_to`. A stroke is drawn, then perhaps
erased by its author, so that its two registers are one number that grows.

### Renderer

| Variable | Code |
|---|---|
| `visible`, `generation` | `StrokeSet::visible` in draw order, `Document.generation` |
| `camera` | bucket of zoom levels and pixel density asked for in this frame |
| `scale`, `meshes`, `built` | `TessCache`: its bucket, the strokes it has meshes of, those tessellated in the last sync |
| `synced`, `chunks` | `StrokeRenderer.synced`, `Gpu.chunks` |
| `missing` | history: groups left out by failed allocations |

The document changes by any op or merge, with the generation advancing as often
as `apply` and `merge` count, which for a merge may be twice for nothing. `Sync`
is the whole of `sync` with `begin_frame`, the loop over groups, `upload`,
`truncate` and `end_frame`; any of the new chunks may fail to be allocated.
The GL objects behind a chunk are not modelled. A chunk's key is the list of its ids: the
64-bit hash is taken to be free of collisions.

## What is checked

| Run | Instance | Distinct states | Shows |
|---|---|---|---|
| `replicate` | 2 clients, 1 stroke, 2 ops each, client 1 connects twice, capacity 1 | 172 000 | `TypeOK`, `ClockCovers`, `StampsUnique`, `NothingMadeUp`, `NothingSlips`, `AuthorKnows`, `NothingLost`, `DrainedKnowsRoom`, `LocalEditShows`, `NeverForgets`; `Refines`: the system implements `SharedBoard`; with fairness, `EventuallyCaughtUp`, `EventuallyDelivered`, `Converges` |
| `stroke_set` | 2 replicas, 2 strokes, stamps of 2 clients up to 2 | 22 500 | `IndexAgrees`, `OrderDoesNotMatter`, `ChangesAreReported`, `MergeIsJoin`, `LoadFoldsDuplicates` |
| `present` | 2 clients, one connection and one move each, capacity 1 | 400 000 | `TypeOK`, `SeesTheRoom` |
| `rejoin` | 2 clients, one of which comes back, room for 1 | 430 000 | `ListsThePresent`, `PlacesHold` |
| `save` | 2 rooms (the writes of one may fail for ever), 1 session, 2 ops, 2 starts, 1 upgrade | 478 000 | `CleanIsSaved`, `NeverTorn`, `FileGrows`, `SnapshotsSurvive`; with fairness, `EventuallySaved` |
| `history` | 2 strokes of the client's own and one of another client, 5 stamps, 1 remote op, `MAX_HISTORY` 2 | 134 000 | `TypeOK`, `HistoryBounded`, `EntriesStayWhole`, `UndoPrevails`; `Refines`: the stacks implement `UndoLog` |
| `previews` | 1 author with 2 strokes (one appends, one replaces) and 2 connections, 1 viewer that rejoins once, capacity 1 | 577 000 | `TypeOK`, `NeverTwice`, `NoGhost`, `FollowsTheDrawing`; with fairness, `PreviewsGo` |
| `renderer` | 3 strokes and a label, chunks of 2, 2 scales, 5 changes, 2 failed allocations | 524 000 | `ShowsTheDocument`, `TessellatesOnce` |

Four runs end in a violation: here the code does something else than its
comments or documents say.

* `second_unreadable` (`NothingDeleted`) - a snapshot that does not decode is moved
  aside, "nothing is deleted" (`registry.rs:108-109`). The name it is moved to
  is always the same, so a room's second unreadable snapshot replaces the first
  (`registry.rs:125`). Two changes of format are enough. `SnapshotsSurvive`
  states what does hold: nothing else is ever written over.
* `welcome` (`WelcomeListsEveryone`) - `Welcome` lists "everyone currently
  present" (`protocol.rs:125-126`), but when writing it fails, `session` returns
  without `leave` (`ws.rs:105`): a client that is gone stays listed and
  holds a place.
* `overfull` (`FullInTime`) - `max_peers` is "Connections per room before
  `RoomFull`" (`src/README.md:31`). Teardown calls `leave(client_id)`
  (`ws.rs:160`) whichever session made the entry. The old session of a client
  that is back removes the new one's entry, so `join` counts one too few: in a
  room of one place two clients are connected and served.
  `PlacesHold` and `ListsThePresent` state what does hold, for the clients that
  have met neither of these two cases (all but those in `muddled`).
* `unrecorded` (`ErasedIsRecorded`) - `erasing` holds "Ids tombstoned during the
  current eraser drag (undo groups them)." (`app.rs:198`), but the group is
  opened by a press under the Eraser. A drag that began under another tool and
  goes on after `E` was pressed erases strokes that no undo brings back
  (`app.rs:804`).

What else was met on the way, read in the code and in the models' states rather than
shown by a run of its own:

* "Persist to disk if anything changed since the last save." (`room.rs:126`): a
  tombstone that hides nothing visible leaves the room clean and is forgotten
  with the process. `CleanIsSaved` states what does hold: what is *drawn*
  is on disk.
* Ops are "queued while offline and flushed after the next successful handshake"
  (`net.rs:4-5`, and `src/README.md:47-49`). `session` empties the outbox and
  sends it right after `Hello`, before any answer (`net.rs:183`). A connection
  that ends before `Welcome`, because the room is full or the socket breaks,
  takes those ops with it; they stay in the author's document and reach nobody
  else. `NothingLost` and `EventuallyDelivered` state what does hold: an op is
  lost only with the session of the connection it was sent on.
* `debug_assert_eq!(index, self.chunks.len())` (`gpu.rs:320`). When a chunk could
  not be allocated, `upload` returns (`gpu.rs:327`) and is called for the next
  one with an index beyond the end: a debug build panics, a release build puts
  the chunk one place earlier. What is painted is still in order, without the
  missing group, until the next change repairs it; nothing tries again
  before. `ShowsTheDocument` says so.

* `merge` "Returns how many elements changed visibility." (`crdt.rs:194`): an
  entry with an add and a newer remove counts twice though it was never shown.
  Callers compare the count with zero or add it to the generation;
  `MergeIsJoin` and `Renderer` (`MergeInvisible`) show that this is harmless.
* "Returns `true` if the visible state changed (a stroke appeared, disappeared,
  or moved in draw order)" (`crdt.rs:146-147`): `apply` also returns true for a
  newer `Add` of a visible stroke that keeps its place. `ChangesAreReported`
  says that this is the only exception and that no change goes unreported;
  a caller then repaints or saves once too often.
* "Receivers discard the preview once the matching `Add` arrives"
  (`protocol.rs:28`): a viewer that lagged gets the stroke in a snapshot
  instead and keeps the preview beside it until the author's next idle cursor.
  `NeverTwice` therefore excludes `spotty` strokes, and `PreviewsGo` says that
  they do not stay.
* An allocation of which one of three objects fails leaks the other two
  (`gpu.rs:327`).
* "Undo / redo (own strokes only)" (`src/README.md:76`): undoing an eraser drag
  brings back the strokes of others, and redoing it removes them again.

### Why the bounds are enough

Two clients suffice for every race between an author, another client and the
server, and client 1's second connection for every race between a session and
its successor. One slot of channel capacity makes every broadcast to a busy
session an overflow. Two ops per client give concurrent stamps with equal
counters, an erase of a stroke its author has just changed, and an undo. In
`StrokeSet`, two strokes and stamps up to two give moves, ties between clients
and tombstones that arrive first. In `Persistence`, a session and the flusher
show a change and its mark on both sides of a save, two rooms what one failing
write does to the other, and two starts a restart over the left-overs of a
crash. The theorems cover what the bounds leave open.

In `Presence`, every race is between a
newcomer and one other client, or between two sessions of one client.
`SeesTheRoom` says nothing of a client whose session has lagged: the code does
not repair its peers.

In `replicate`, one stroke is enough because strokes do not interact but through
the clock: its two registers are written by both clients. Drawing offline happens
before, between and after client 1's connections, and what it draws after a
session has closed must survive that. `save` has one change of format;
`second_unreadable` shows what a second one does, and the theorem
`SnapshotsAlwaysSurvive` is about any number.

In `History`, two groups fill the stacks, so that trimming, a redo after a
trim and a record over a redo all happen; a drag can erase the same stroke twice
with an undo or the remote op between. In `Previews`, one author is enough, because every
handler touches the previews of the sender only; its second connection gives a
late delta and a `PeerLeft` that overtakes. In `Renderer`, chunks of two and
four strokes give changes within a chunk, across chunks, and a last chunk that
comes and goes.

Named bounds: `MaxMoves` (cursor messages a client sends), `MaxClock` (ops a client stamps), `MaxConns` (connections it
makes; the last one does not fail, so that it is worth asking what happens
eventually), `MaxCounter`, `MaxStarts`, `MaxUpgrades`,
`MaxRemote` (ops of others), `MaxDeltas`, `MaxJoins`, `MaxSent` (messages of an
author under way), `MaxChanges` (steps of the generation), `MaxFailures`.

### Fairness

`Replication!Fairness` is weak fairness of each step of the network thread,
the UI's event loop and the sessions. They are tasks and threads that are
never blocked for good in the model (channels of the model are unbounded; see
below), and `select!` picks at random among the branches that are ready, so no branch waits
for ever. No edit and no failure is fair: users need not draw and nothing has
to break.

`Persistence!Fairness` is weak fairness of the flusher and of `dirty.store`,
and strong fairness of the three file operations for rooms that are not
`Stuck`: a disk may fail any number of times but not every time. Rooms in
`Stuck` may fail for ever. `EventuallySaved` says nothing of a process that has
exited.

`Previews!FairSpec` is weak fairness of the sessions and of the viewer. Nobody
has to draw, move or reconnect, so `PreviewsGo` assumes what it needs: the
author moves its pointer again and again while not drawing, and the viewer
stops lagging some day. Without either, a stale preview may stay for ever: an idle cursor message is
all that takes it away, and no document promises one.

## What is proved

For every set of clients, strokes, rooms and sessions, every capacity and every
bound:

* `LwwTheorems` - merge is commutative, associative and idempotent; ops commute
  and repeat harmlessly; boards only climb. The base is that stamps are
  totally ordered (`BeforeIsTotal`, `BeforeIsTransitive`), from
  `ClientsAssumption`: client ids are compared as numbers. Its second part is
  about lists: what folds and `FlattenSeq` give for lists of any length.
* `StrokeSetProofs` - the operators: `ApplyKeepsIndex`, `ApplyAllJoins`,
  `MergeJoins`, `FromVecJoins`, `ReloadChangesNothing`; the replicas:
  `StrokeSetTypes`, `IndexAlwaysAgrees`, `ChangesAlwaysReported`,
  `OrderNeverMatters`, `MergeIsAlwaysJoin`, `DuplicatesAlwaysFold`.
* `ReplicationProofs` - `TypeCorrect`, `ClockAhead`, `UniqueStamps`,
  `LocalEditAlwaysShows`, `ReplicasNeverForget`, `NothingEverSlips`,
  `AuthorsKnow`, `DrainedClientsKnow`, `NothingIsLost`, `NothingIsMadeUp` and
  `ReplicationImplementsBoard` (`Spec => Refines`).
* `PresenceProofs` - `PresenceTypes`, `PlacesAlwaysHold`, `MapFollowsSessions`,
  `EveryoneSeesTheRoom`.
* `HistoryProofs` - `HistoryTypes`, `HistoryStaysBounded`, `EntriesAlwaysWhole`,
  `UndoAlwaysPrevails` and `HistoryImplementsLog` (`Spec => Refines`).
* `PreviewsProofs` - `PreviewTypes`, `NeverShownTwice`, `NoGhostEver`,
  `AlwaysFollows`.
* `RendererProofs` - `AlwaysShowsTheDocument`, `NothingTessellatedTwice`.
* `PersistenceProofs` - `DiskInvariant`, `CleanRoomsAreSaved`,
  `SnapshotsAreNeverTorn`, `FilesOnlyGrow` and `SnapshotsAlwaysSurvive`, for any
  number of starts and changes of format.

The arguments:

* *Stamps.* `ClockCovers` alone is not inductive: an op under way to a client is covered
  only once it is received. `ClockInv` adds that every stamp a client ever
  issued is at most its own clock, so `Tick` is new.
* *Nothing slips.* `NothingSlips` follows a stamp the room has through every place
  it can be on its way to a client: a snapshot or op in `down`, a frame in
  `rx`, a lag that will be answered by a snapshot, or a session that has
  applied but not yet broadcast. A frame that excludes its own receiver brings
  nothing, so `AuthorKnows` is needed: whoever is left out knows the op
  already, on every connection it may have. `SyncInv` is the two together with
  types and the numbering of connections.
* *Nothing lost.* `NothingLost` follows an op through the queues of its author.
  Once it is sent on a connection, it stays in that connection's socket until the
  session takes it or closes; an op that is still in the outbox when a session
  closes is not touched by that, and `carried` tells the two apart. At the end
  an op is popped only when the session broadcasts, which says
  nothing of the room: `HandedOver` adds that a session about to broadcast has
  put its op there, and boards only climb from then on.
* *Refinement.* A step of `Commit` is an abstract `Edit`: its stamp is new
  (`StampsUnique`) and beats all the client sees (`ClockCovers`). `Receive` is
  `Learn`, because boards climb and `NothingMadeUp`; `Apply` is
  `LearnHub`; everything else stutters.
* *Persistence.* `CleanIsSaved` is not inductive while a room is being saved.
  `SaveInv` says what is true then: between the snapshot and the rename, if the
  flag is still clear and no session is about to set it, the snapshot looks
  like the room; and file, snapshot and room only climb in this order.
  `SnapshotsSurvive` follows step by step (`SurviveStep`): only `Open` moves a
  file, and only one that does not decode; only the rename replaces one.
* *Lists.* The library's induction theorems take an operator as a parameter,
  which the provers cannot instantiate. `LeastNumber` therefore comes from the
  well-foundedness of inclusion among finite sets, and `NumberInduction` and
  `ListInduction` are about a *set* of numbers instead of a predicate. A fold over
  n elements is a function `a[0..n]` of its intermediate results (`Steps`,
  `StepsExist`), and what a fold keeps is proved of every `a[i]`.
  `FlattenElements` says which elements a concatenation of lists has, and where.
* *Index.* An op touches one stroke (`ApplyIsLocal`), so all others
  look the same before and after, and of two others neither overtakes the
  other: `apply`'s comparison of that one misses no change of the drawing
  (`AheadLists`, `ReportsEveryChange`). For the index, `KeysDiffer` (no two strokes were added at one stamp, which
  `UniqueStamps` gives every client) makes the removal by key remove that
  stroke and no other.
* *Whole lists of ops.* A set is *sound* when its index is what rebuilding it
  would give. `apply_all`, `merge` and `From<Vec>` are folds that keep this and
  raise each register to the newest stamp they met (`RegisterOps`: at most one
  op for each register of an entry), so neither the order of a list nor that of the hash map shows.
  `OrderDoesNotMatter` follows: a replica depends on which ops reached it and on
  nothing else.
* *Previews.* `NeverTwice` exempts strokes of which the viewer missed something
  (`spotty`): a frame that the channel dropped, but also strokes begun before it
  rejoined, or open when their author's connection broke. `PreviewInv` adds that while an overflow is unanswered everything
  shown is spotty: the snapshot that answers it may bring a shown stroke.
* *The watcher's view.* `NoGhost` and `FollowsTheDrawing` speak of quiet
  moments; `WatchInv` says what is true before. `Ready` adds to `PreviewInv` that
  queues carry their author's own messages (`Owned`), that what is being
  drawn is the one open stroke of a live connection (`Wired`), and that a connected
  author has flushed its outbox (`Flushed`). `Ended`: of a stroke that is settled, what
  removes the preview is on its way, or a session still has to end, which removes it
  too. `Followed`: of a stroke being drawn, what is shown and the deltas on their
  way are together all that was drawn, with no session of its author's past left
  to interfere. Only a loss (`spotty`) exempts a stroke.
* *Presence.* `TypeOK` is split in two: `RoomType` for the map and the sessions,
  on which the other theorems rest, and `LinkType` for what is on its way
  to clients. `ListsThePresent` needs `OneSession`: a client that is not
  `muddled` has at most one session between `join` and `leave`, so that session
  made the entry and its `leave` removes it. `PlacesHold` follows: those clients
  all have an entry, and `join` never lets the map exceed its places
  (`MapFits`). For `SeesTheRoom`, `ViewInv` follows
  the *last* message about a peer through broadcast receiver and socket to
  the client's map: wherever one is pending, it says what the room has
  (`RxCurrent`, `DownCurrent`). The moments between the change of the map and
  its announcement are the session's `Unsettled` ones, and a `Welcome` is
  right because whatever changed before it is in it and whatever changes after it is
  in the receiver, which was subscribed first.
* *History.* `HistoryBounded` bounds the sum of the stacks, because `redo`
  pushes without trimming: each push of `undo` or `redo` is paid for by a pop
  of the other, and only `Record` grows the sum, having emptied one and trimmed
  the other. For the rest, `HistInv` says that the clock is ahead of the
  document and that every group, on a stack or under the eraser, is `Reversible`:
  the document has seen an add of each of its strokes. Nothing forgets an add,
  so no step spoils a group (`EntriesStayWhole`), and the inverse of a group is one
  op for each of its ops, again reversible (`InvertWhole`). Its stamps are ahead
  of all the document knows (`FreshOpsWin`), so on each register the last one wins,
  which inverts the *first* op of the group on that stroke
  (`UndoPrevails`).
* *The log of pictures.* A stack stands for the pictures it leads back to,
  counted from the one on the screen (`View`), so any change of the picture may
  change them all. `LogInv` adds to `HistInv` what keeps them in step, always
  apart from strokes that are `foreign`: on a stroke of a group the picture after
  the group is as the group's ops have left it (`Chained`); what the eraser holds is
  hidden (`Erased`); and what is being drawn is unknown to everybody
  (`GestureKept`). Hence a stack that keeps its groups while the picture
  changes elsewhere keeps its pictures (`ViewStays`), a group recorded, undone
  or redone adds or removes exactly one (`ViewRecords`, `ViewGrows`,
  `ViewShrinks`), and a stroke no group is about enters or leaves all of them
  together (`ViewFlips`). An undo under the eraser's hand makes foreign what
  group and drag both touch (`MovesBack`); so does a remote op on a stroke of a
  group (`Meddles`).
* *Renderer.* `RenderInv`: a chunk holds what its key says, at the scale of the
  cache (`Sound`), each stroke on the screen has a mesh, and when the generation
  is the one last synced the screen is complete. During `sync` the chunks
  already passed are new and the others still old (`Fitting`); since groups are the drawing
  cut into pieces, their pictures put together are the picture of the whole.

The assumptions are those of the modules (`ClientsAssumption`,
`PresenceAssumption` and so on), which TLC evaluates in every run. `StrokeSet` and
`History` assume `Strokes` to be finite: a set of strokes, in memory, is
walked in some order. How many there are is left open. `History` also assumes
that `None` is no list of ops: a drag that has erased nothing yet is not the same as
no drag.

## What is only model-checked, and what is not modelled

Liveness stays with TLC (`EventuallyCaughtUp`, `EventuallyDelivered`,
`Converges`, `EventuallySaved`, `PreviewsGo`): its proofs need `ENABLED`, which the provers do not have.

Every other property of a passing run is a theorem. `SelectSeq` and `SetToSortSeq`
cannot be expanded by the provers; `History` and `Renderer` therefore write what the
code filters as `FlattenSeq` of lists of one element or none, and
`clear_ops_for` as any ascending list of the strokes.

Not modelled, and why:

* What a crash of the server does to clients that stay connected later:
  ops since the last flush are gone from the room while clients keep
  them and do not send them again. This needs `Replication` and `Persistence`
  in one state space, beyond what TLC finishes; neither code nor docs promise
  anything there.
* Blocked writes. Sockets in the models are unbounded. A client that flushes a
  large outbox while the server writes a large `Welcome`, and a shutdown behind
  a write to a peer that does not read, depend on kernel buffers.
* Peers that a lagged session still shows after they have left, and a preview whose
  author never moves its pointer again: nothing in the code repairs them, and
  nothing promises that it does.
* `RequestSnapshot` (no client sends it), pings and the length of the backoff.
* Codec, configuration, command line and HTTP routes: no state that anything
  here depends on. Painting, camera, geometry and simplification: floating
  point. Bodies of strokes, names and colours: immutable data.
