----------------------------- MODULE Persistence -----------------------------
(***************************************************************************)
(* Rooms on disk: server/src/registry.rs loads a room's snapshot when the  *)
(* room is first asked for, server/src/room.rs marks it dirty and saves it *)
(* through a temporary file, and the flush loop of server/src/lib.rs and   *)
(* the shutdown of main.rs decide when.  The process may be killed between *)
(* any two steps and started again, and a write may fail.                  *)
(***************************************************************************)
EXTENDS Lww

CONSTANTS
  Rooms,
  Sessions,    \* sessions that may be inside apply_ops at the same time
  Ops,         \* ops the clients may send, again and again, in any order
  Stuck,       \* rooms whose writes need not ever succeed
  MaxStarts,   \* bound: times the process is started
  MaxUpgrades  \* bound: times the snapshot format changes

None == [none |-> TRUE]

ASSUME PersistenceAssumption ==
  /\ None \notin Rooms
  /\ Ops \subseteq Op
  /\ Stuck \subseteq Rooms
  /\ MaxStarts \in Nat
  /\ MaxUpgrades \in Nat

VARIABLES
  phase,     \* of the process: "off", "running", "stopping" or "final"
  open,      \* rooms in the registry
  state,     \* state[r]: entries of Room.state
  dirty,     \* Room.dirty
  at,        \* at[s]: room session s has changed and is about to mark dirty
  fl,        \* where the flusher is
  todo,      \* rooms this flush has still to look at
  cur,       \* room being saved
  buf,       \* its encoded snapshot
  file,      \* file[r]: <room>.bincode
  tmp,       \* tmp[r]: <room>.tmp
  aside,     \* aside[r]: <room>.bincode.corrupt
  old,       \* old[r]: every snapshot the process found unreadable (history)
  starts,
  upgrades

memory == <<open, state, dirty, at>>
flush  == <<fl, todo, cur, buf>>
disk   == <<file, tmp, aside>>
count  == <<old, starts, upgrades>>
vars   == <<phase, open, state, dirty, at, fl, todo, cur, buf,
            file, tmp, aside, old, starts, upgrades>>

\* A file is absent, half written, a snapshot, or a snapshot no longer decoded.
Forms    == {"absent", "torn", "whole", "foreign"}
File     == [form : Forms, board : Board]
Absent   == [form |-> "absent", board |-> Empty]
Torn     == [form |-> "torn", board |-> Empty]
Whole(b) == [form |-> "whole", board |-> b]

Up == phase # "off"

Init ==
  /\ phase = "off" /\ open = {}
  /\ state = [r \in Rooms |-> Empty]
  /\ dirty = [r \in Rooms |-> FALSE]
  /\ at = [s \in Sessions |-> None]
  /\ fl = "wait" /\ todo = {} /\ cur = None /\ buf = Empty
  /\ file = [r \in Rooms |-> Absent]
  /\ tmp = [r \in Rooms |-> Absent]
  /\ aside = [r \in Rooms |-> Absent]
  /\ old = [r \in Rooms |-> {}]
  /\ starts = 0 /\ upgrades = 0

-----------------------------------------------------------------------------
(* Sessions *)

\* Mutant of Loaded: a room always opens empty.
LoadedNothing(r) == Empty

\* load_snapshot: what no longer decodes is moved aside and the room is empty.
Loaded(r) == IF file[r].form = "whole" THEN file[r].board ELSE Empty

\* Mutant of Open: an unreadable snapshot is removed.
OpenDeletes(r) ==
  /\ Up
  /\ r \notin open
  /\ open' = open \cup {r}
  /\ state' = [state EXCEPT ![r] = Loaded(r)]
  /\ IF file[r].form \in {"absent", "whole"}
     THEN UNCHANGED <<file, old>>
     ELSE /\ file' = [file EXCEPT ![r] = Absent]
          /\ old' = [old EXCEPT ![r] = @ \cup {file[r]}]
  /\ UNCHANGED <<phase, dirty, at, flush, tmp, aside, starts, upgrades>>

\* get_or_create, under the registry's mutex.
Open(r) ==
  /\ Up
  /\ r \notin open
  /\ open' = open \cup {r}
  /\ state' = [state EXCEPT ![r] = Loaded(r)]
  /\ IF file[r].form \in {"absent", "whole"}
     THEN UNCHANGED <<file, aside, old>>
     ELSE /\ aside' = [aside EXCEPT ![r] = file[r]]
          /\ file' = [file EXCEPT ![r] = Absent]
          /\ old' = [old EXCEPT ![r] = @ \cup {file[r]}]
  /\ UNCHANGED <<phase, dirty, at, flush, tmp, starts, upgrades>>

\* apply_ops under the write lock; StrokeSet::apply says what changed.
Apply(s, r, op) ==
  /\ Up
  /\ r \in open
  /\ at[s] = None
  /\ LET new == ApplyTo(state[r], op) IN
       /\ state' = [state EXCEPT ![r] = new]
       /\ at' = IF Drawn(new) # Drawn(state[r]) THEN [at EXCEPT ![s] = r] ELSE at
  /\ UNCHANGED <<phase, open, dirty, flush, disk, count>>

\* dirty.store(true), the lock released.
MarkDirty(s) ==
  /\ at[s] # None
  /\ dirty' = [dirty EXCEPT ![at[s]] = TRUE]
  /\ at' = [at EXCEPT ![s] = None]
  /\ UNCHANGED <<phase, open, state, flush, disk, count>>

-----------------------------------------------------------------------------
(* flush_all *)

\* The ticker of flush_loop; select! may still choose it after the signal.
Tick ==
  /\ phase \in {"running", "stopping"}
  /\ fl = "wait"
  /\ fl' = "next" /\ todo' = open
  /\ UNCHANGED <<phase, memory, cur, buf, disk, count>>

\* main, once serve and the flush loop have ended.
FinalFlush ==
  /\ phase = "stopping"
  /\ fl = "ended"
  /\ phase' = "final" /\ fl' = "next" /\ todo' = open
  /\ UNCHANGED <<memory, cur, buf, disk, count>>

\* save_if_dirty: nothing to do, or the flag is cleared before the snapshot.
Swap(r) ==
  /\ fl = "next"
  /\ r \in todo
  /\ todo' = todo \ {r}
  /\ dirty' = [dirty EXCEPT ![r] = FALSE]
  /\ IF dirty[r] THEN fl' = "snapshot" /\ cur' = r ELSE UNCHANGED <<fl, cur>>
  /\ UNCHANGED <<phase, open, state, at, buf, disk, count>>

\* Encoding the snapshot cannot fail with the codecs the build offers, so the
\* error return of codec::encode, which would leave the flag cleared, is left out.
Snapshot ==
  /\ fl = "snapshot"
  /\ fl' = "create" /\ buf' = state[cur]
  /\ UNCHANGED <<phase, memory, todo, cur, disk, count>>

\* Mutant of Create: the snapshot is overwritten in place.
CreateInPlace ==
  /\ fl = "create"
  /\ fl' = "write"
  /\ file' = [file EXCEPT ![cur] = Torn]
  /\ UNCHANGED <<phase, memory, todo, cur, buf, tmp, aside, count>>

\* write_atomic: the temporary file is truncated ...
Create ==
  /\ fl = "create"
  /\ fl' = "write"
  /\ tmp' = [tmp EXCEPT ![cur] = Torn]
  /\ UNCHANGED <<phase, memory, todo, cur, buf, file, aside, count>>

\* ... filled ...
Write ==
  /\ fl = "write"
  /\ fl' = "rename"
  /\ tmp' = [tmp EXCEPT ![cur] = Whole(buf)]
  /\ UNCHANGED <<phase, memory, todo, cur, buf, file, aside, count>>

\* The save is over.
Release == cur' = None /\ buf' = Empty /\ fl' = "next" /\ todo' = todo

\* Mutant of Rename: the flag is cleared when the save is done.
RenameClears ==
  /\ fl = "rename"
  /\ file' = [file EXCEPT ![cur] = tmp[cur]]
  /\ tmp' = [tmp EXCEPT ![cur] = Absent]
  /\ dirty' = [dirty EXCEPT ![cur] = FALSE]
  /\ Release
  /\ UNCHANGED <<phase, open, state, at, aside, count>>

\* ... and renamed over the snapshot.
Rename ==
  /\ fl = "rename"
  /\ file' = [file EXCEPT ![cur] = tmp[cur]]
  /\ tmp' = [tmp EXCEPT ![cur] = Absent]
  /\ Release
  /\ UNCHANGED <<phase, memory, aside, count>>

\* Mutant of Fail: one failure ends the whole flush.
FailStops ==
  /\ fl \in {"create", "write", "rename"}
  /\ dirty' = [dirty EXCEPT ![cur] = TRUE]
  /\ cur' = None /\ buf' = Empty /\ fl' = "next" /\ todo' = {}
  /\ UNCHANGED <<phase, open, state, at, disk, count>>

\* Any step of write_atomic may fail: try again on the next flush.
Fail ==
  /\ fl \in {"create", "write", "rename"}
  /\ dirty' = [dirty EXCEPT ![cur] = TRUE]
  /\ Release
  /\ UNCHANGED <<phase, open, state, at, disk, count>>

\* All rooms were looked at.
Flushed ==
  /\ fl = "next" /\ todo = {}
  /\ phase # "final"
  /\ fl' = "wait"
  /\ UNCHANGED <<phase, memory, todo, cur, buf, disk, count>>

-----------------------------------------------------------------------------
(* The process *)

Start ==
  /\ phase = "off"
  /\ starts < MaxStarts
  /\ phase' = "running" /\ starts' = starts + 1
  /\ UNCHANGED <<memory, flush, disk, old, upgrades>>

\* Ctrl-C.
Signal ==
  /\ phase = "running"
  /\ phase' = "stopping"
  /\ UNCHANGED <<memory, flush, disk, count>>

\* flush_loop sees the flag between two flushes.
EndLoop ==
  /\ phase = "stopping"
  /\ fl = "wait"
  /\ fl' = "ended"
  /\ UNCHANGED <<phase, memory, todo, cur, buf, disk, count>>

\* All that is in memory is gone.
Lose ==
  /\ phase' = "off" /\ open' = {}
  /\ state' = [r \in Rooms |-> Empty]
  /\ dirty' = [r \in Rooms |-> FALSE]
  /\ at' = [s \in Sessions |-> None]
  /\ fl' = "wait" /\ todo' = {} /\ cur' = None /\ buf' = Empty
  /\ UNCHANGED <<disk, count>>

\* main returns.  Upgraded sockets outlive serve, so sessions may be anywhere.
Exit  == phase = "final" /\ fl = "next" /\ todo = {} /\ Lose
Crash == Up /\ Lose

\* A server with another snapshot format is installed.
Upgrade ==
  /\ phase = "off"
  /\ upgrades < MaxUpgrades
  /\ \E r \in Rooms : file[r].form = "whole"
  /\ upgrades' = upgrades + 1
  /\ file' = [r \in Rooms |-> IF file[r].form = "whole"
                              THEN [file[r] EXCEPT !.form = "foreign"] ELSE file[r]]
  /\ UNCHANGED <<phase, memory, flush, tmp, aside, old, starts>>

-----------------------------------------------------------------------------
Serve ==
  \/ \E r \in Rooms : Open(r)
  \/ \E s \in Sessions : MarkDirty(s) \/ \E r \in Rooms, op \in Ops : Apply(s, r, op)

SaveStep == Snapshot \/ Create \/ Write \/ Rename \/ Fail

Next ==
  \/ Serve
  \/ Tick \/ FinalFlush \/ (\E r \in Rooms : Swap(r)) \/ SaveStep \/ Flushed
  \/ Start \/ Signal \/ EndLoop \/ Exit \/ Crash \/ Upgrade

Spec == Init /\ [][Next]_vars

\* Tasks and timers run.  A disk that is not stuck lets a write through now
\* and then; nobody has to open a room, send ops, or stop the server.
Fairness ==
  /\ \A s \in Sessions : WF_vars(MarkDirty(s))
  /\ WF_vars(Tick) /\ WF_vars(FinalFlush) /\ WF_vars(\E r \in Rooms : Swap(r))
  /\ WF_vars(SaveStep) /\ WF_vars(Flushed) /\ WF_vars(EndLoop) /\ WF_vars(Exit)
  /\ \A r \in Rooms \ Stuck :
       SF_vars(cur = r /\ Create) /\ SF_vars(cur = r /\ Write) /\ SF_vars(cur = r /\ Rename)

FairSpec == Spec /\ Fairness

-----------------------------------------------------------------------------
(* Properties *)

TypeOK ==
  /\ phase \in {"off", "running", "stopping", "final"}
  /\ open \subseteq Rooms
  /\ phase = "off" => open = {}
  /\ state \in [Rooms -> Board]
  /\ dirty \in [Rooms -> BOOLEAN]
  /\ at \in [Sessions -> open \cup {None}]
  /\ fl \in {"wait", "next", "snapshot", "create", "write", "rename", "ended"}
  /\ todo \subseteq open
  /\ cur \in open \cup {None}
  /\ cur # None <=> fl \in {"snapshot", "create", "write", "rename"}
  /\ buf \in Board
  /\ file \in [Rooms -> File] /\ tmp \in [Rooms -> File] /\ aside \in [Rooms -> File]
  /\ old \in [Rooms -> SUBSET File]
  /\ starts \in Nat /\ upgrades \in Nat

\* No session is between changing r and marking it.
Marked(r) == \A s \in Sessions : at[s] # r

\* An open room that is not marked dirty, nor about to be, nor being saved,
\* looks on disk as it looks in memory, whatever interleaving of sessions and
\* saves, failed write or crash came before.
CleanIsSaved ==
  \A r \in open : ~dirty[r] /\ Marked(r) /\ cur # r => Drawn(file[r].board) = Drawn(state[r])

\* "a crash never leaves a torn snapshot": not even one killed in mid-write,
\* restarted over a half-written temporary file, and killed again.
NeverTorn == \A r \in Rooms : file[r].form # "torn"

\* The room in memory knows all its snapshot knows, and a snapshot of the
\* right format is only ever replaced by one that knows as much.
FileBehind == \A r \in open : Below(file[r].board, state[r])
FileGrows ==
  [][\A r \in Rooms : file[r].form = "whole" /\ file'[r].form = "whole" =>
       Below(file[r].board, file'[r].board)]_vars

\* What a snapshot holds, readable or not, leaves its file only to be set aside
\* whole: no save, restart or change of format writes over it.  And what was set
\* aside gives way to nothing but the next snapshot that does not decode.
SnapshotsSurvive ==
  [][\A r \in Rooms :
       /\ Below(file[r].board, file'[r].board) \/ aside'[r] = file[r]
       /\ aside'[r] # aside[r] => file[r].form = "foreign" /\ aside'[r] = file[r]]_vars

\* "nothing is deleted": every snapshot that did not decode stays on disk.
\* It does not when a second one of the room is moved aside.
NothingDeleted == \A r \in Rooms : \A f \in old[r] : f \in {file[r], aside[r]}

\* While a room is being saved the snapshot taken is as new as the flag says.
SaveInv ==
  cur # None =>
    /\ file[cur].form \in {"absent", "whole"}
    /\ fl = "rename" => tmp[cur] = Whole(buf)
    /\ fl # "snapshot" =>
         /\ Below(file[cur].board, buf) /\ Below(buf, state[cur])
         /\ ~dirty[cur] /\ Marked(cur) => Drawn(buf) = Drawn(state[cur])

\* The inductive invariant behind CleanIsSaved, NeverTorn and FileGrows.
DiskInv ==
  /\ TypeOK /\ CleanIsSaved /\ NeverTorn /\ FileBehind /\ SaveInv
  /\ \A r \in Rooms : file[r].form = "absent" => file[r].board = Empty
  /\ \A r \in open : file[r].form # "foreign"

\* What is drawn in a room reaches its file in the end, even while the writes
\* of another room fail for ever.  Of a process that has exited it says nothing.
EventuallySaved ==
  \A r \in Rooms \ Stuck : <>[](r \in open => Drawn(file[r].board) = Drawn(state[r]))
=============================================================================
