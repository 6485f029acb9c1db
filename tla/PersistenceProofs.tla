-------------------------- MODULE PersistenceProofs --------------------------
(* Theorems about Persistence, for every number of rooms, sessions, ops,    *)
(* restarts and upgrades.                                                   *)
EXTENDS Persistence, LwwTheorems

LEMMA FileTypes ==
  /\ Absent \in File /\ Torn \in File
  /\ Absent.board = Empty /\ Absent.form = "absent" /\ Torn.form = "torn"
  /\ \A b \in Board : /\ Whole(b) \in File
                       /\ Whole(b).board = b /\ Whole(b).form = "whole"
  /\ \A f \in File : f.board \in Board /\ f.form \in Forms
BY EmptyType DEF File, Forms, Absent, Torn, Whole

-----------------------------------------------------------------------------
(* Type correctness *)

LEMMA TypeInit == Init => TypeOK
BY EmptyType, FileTypes, PersistenceAssumption DEF Init, TypeOK

LEMMA OpenType ==
  ASSUME TypeOK, NEW r \in Rooms, Open(r) PROVE TypeOK'
<1>1. Loaded(r) \in Board
  BY FileTypes, EmptyType DEF TypeOK, Loaded
<1>2. at' \in [Sessions -> open' \cup {None}] /\ todo' \subseteq open' /\ cur' \in open' \cup {None}
  BY DEF TypeOK, Open, flush
<1>3. /\ state' \in [Rooms -> Board] /\ file' \in [Rooms -> File]
      /\ aside' \in [Rooms -> File] /\ old' \in [Rooms -> SUBSET File]
  <2>1. CASE UNCHANGED <<file, aside, old>>
    BY <2>1, <1>1 DEF TypeOK, Open
  <2>2. CASE ~UNCHANGED <<file, aside, old>>
    <3>1. /\ aside' = [aside EXCEPT ![r] = file[r]]
          /\ file' = [file EXCEPT ![r] = Absent]
          /\ old' = [old EXCEPT ![r] = @ \cup {file[r]}]
          /\ state' = [state EXCEPT ![r] = Loaded(r)]
      BY <2>2 DEF Open
    <3>2. file[r] \in File /\ old[r] \cup {file[r]} \in SUBSET File
      BY DEF TypeOK
    <3>3. old' \in [Rooms -> SUBSET File]
      BY <3>1, <3>2 DEF TypeOK
    <3> QED
      BY <3>1, <3>2, <3>3, <1>1, FileTypes DEF TypeOK
  <2> QED
    BY <2>1, <2>2
<1> QED
  BY <1>2, <1>3 DEF TypeOK, Open, flush, Up

LEMMA ApplyKeepsType ==
  ASSUME TypeOK, NEW s \in Sessions, NEW r \in Rooms, NEW op \in Ops, Apply(s, r, op)
  PROVE  TypeOK'
<1>1. ApplyTo(state[r], op) \in Board
  BY ApplyType, PersistenceAssumption DEF TypeOK
<1>2. state' \in [Rooms -> Board] /\ at' \in [Sessions -> open' \cup {None}]
  BY <1>1 DEF TypeOK, Apply
<1> QED
  BY <1>2 DEF TypeOK, Apply, flush, disk, count

LEMMA LoseType == ASSUME TypeOK, Lose PROVE TypeOK'
BY EmptyType DEF TypeOK, Lose, disk, count

LEMMA TypeNext == TypeOK /\ [Next]_vars => TypeOK'
<1> SUFFICES ASSUME TypeOK, [Next]_vars PROVE TypeOK'
  OBVIOUS
<1>none. None \notin Rooms
  BY PersistenceAssumption
<1>1. CASE Serve
  <2>1. CASE \E s \in Sessions : MarkDirty(s)
    BY <2>1 DEF TypeOK, MarkDirty, flush, disk, count
  <2> QED
    BY <1>1, <2>1, OpenType, ApplyKeepsType DEF Serve
<1>2. CASE Tick \/ FinalFlush \/ Flushed \/ Signal \/ EndLoop
  BY <1>2 DEF TypeOK, Tick, FinalFlush, Flushed, Signal, EndLoop, memory, flush, disk, count
<1>3. ASSUME NEW r \in Rooms, Swap(r) PROVE TypeOK'
  BY <1>3, <1>none DEF TypeOK, Swap, disk, count
<1>4. CASE Snapshot
  <2>1. cur \in Rooms
    BY <1>4 DEF TypeOK, Snapshot
  <2> QED
    BY <1>4, <2>1 DEF TypeOK, Snapshot, memory, disk, count
<1>5. CASE Create \/ Write
  BY <1>5, FileTypes DEF TypeOK, Create, Write, memory, count
<1>6. CASE Rename \/ Fail
  <2>1. CASE Rename
    <3>1. file' \in [Rooms -> File] /\ tmp' \in [Rooms -> File]
      BY <2>1, FileTypes DEF TypeOK, Rename
    <3> QED
      BY <2>1, <3>1, EmptyType DEF TypeOK, Rename, Release, memory, count
  <2>2. CASE Fail
    BY <2>2, EmptyType DEF TypeOK, Fail, Release, disk, count
  <2> QED
    BY <1>6, <2>1, <2>2
<1>7. CASE Start
  BY <1>7 DEF TypeOK, Start, memory, flush, disk
<1>8. CASE Exit \/ Crash
  BY <1>8, LoseType DEF Exit, Crash
<1>9. CASE Upgrade
  <2>1. ASSUME NEW f \in File PROVE [f EXCEPT !.form = "foreign"] \in File
    BY DEF File, Forms
  <2>2. file' \in [Rooms -> File]
    BY <1>9, <2>1 DEF TypeOK, Upgrade
  <2> QED
    BY <1>9, <2>2 DEF TypeOK, Upgrade, memory, flush
<1>10. CASE UNCHANGED vars
  BY <1>10 DEF TypeOK, vars
<1> QED
  BY <1>1, <1>2, <1>3, <1>4, <1>5, <1>6, <1>7, <1>8, <1>9, <1>10 DEF Next, SaveStep

-----------------------------------------------------------------------------
(* The invariant of memory and disk *)

LEMMA DiskInit == Init => DiskInv
<1> SUFFICES ASSUME Init PROVE DiskInv
  OBVIOUS
<1>1. /\ open = {} /\ cur = None
      /\ \A r \in Rooms : file[r].form = "absent" /\ file[r].board = Empty
  BY FileTypes DEF Init
<1> QED
  BY <1>1, TypeInit DEF DiskInv, CleanIsSaved, NeverTorn, FileBehind, SaveInv

\* Steps that leave rooms, flags, snapshots and the save in progress alone.
LEMMA DiskIdle ==
  ASSUME DiskInv, TypeOK', UNCHANGED <<open, state, dirty, at, cur, buf, file, tmp>>,
         fl' = fl \/ (cur = None)
  PROVE  DiskInv'
BY DEF DiskInv, CleanIsSaved, NeverTorn, FileBehind, SaveInv, Marked

LEMMA DiskOpen ==
  ASSUME DiskInv, TypeOK', NEW r \in Rooms, Open(r) PROVE DiskInv'
<1>1. /\ file'[r].form \in {"absent", "whole"} /\ file'[r].board = state'[r]
      /\ file'[r].form = "absent" => file'[r].board = Empty
  BY FileTypes DEF DiskInv, TypeOK, NeverTorn, Open, Loaded, File, Forms
<1>2. \A q \in Rooms \ {r} : file'[q] = file[q] /\ state'[q] = state[q]
  BY DEF DiskInv, TypeOK, Open
<1>3. open' = open \cup {r} /\ cur # r /\ UNCHANGED <<dirty, at, fl, cur, buf, tmp>>
  BY PersistenceAssumption DEF DiskInv, TypeOK, Open, flush
<1>4. Below(file'[r].board, state'[r])
  BY <1>1, BelowIsReflexive DEF TypeOK
<1>5. cur # None => cur \in Rooms \ {r}
  BY <1>3 DEF DiskInv, TypeOK
<1>6. CleanIsSaved' /\ NeverTorn' /\ FileBehind'
  BY <1>1, <1>2, <1>3, <1>4 DEF DiskInv, TypeOK, CleanIsSaved, NeverTorn, FileBehind, Marked
<1>7. SaveInv'
  BY <1>2, <1>3, <1>5 DEF DiskInv, SaveInv, Marked
<1> QED
  BY <1>1, <1>2, <1>3, <1>6, <1>7 DEF DiskInv, TypeOK

LEMMA DiskApply ==
  ASSUME DiskInv, TypeOK', NEW s \in Sessions, NEW r \in Rooms, NEW op \in Ops, Apply(s, r, op)
  PROVE  DiskInv'
<1> DEFINE new == ApplyTo(state[r], op)
<1>1. new \in Board /\ Below(state[r], new)
  BY ApplyType, ApplyGrows, PersistenceAssumption DEF DiskInv, TypeOK
<1>2. /\ state' = [state EXCEPT ![r] = new]
      /\ at' = IF Drawn(new) # Drawn(state[r]) THEN [at EXCEPT ![s] = r] ELSE at
      /\ at[s] = None
      /\ UNCHANGED <<open, dirty, fl, cur, buf, file, tmp>>
  BY DEF Apply, flush, disk
<1> HIDE DEF new
<1>3. state'[r] = new /\ \A q \in Rooms \ {r} : state'[q] = state[q]
  BY <1>2 DEF DiskInv, TypeOK
<1>4. Marked(r)' => Marked(r) /\ Drawn(new) = Drawn(state[r])
  BY <1>2, PersistenceAssumption DEF Marked, DiskInv, TypeOK
<1>5. \A q \in Rooms \ {r} : Marked(q)' => Marked(q)
  BY <1>2, PersistenceAssumption DEF Marked, DiskInv, TypeOK
<1>6. \A b \in Board : Below(b, state[r]) => Below(b, new)
  BY <1>1, BelowIsTransitive DEF DiskInv, TypeOK
<1>7. CleanIsSaved'
  BY <1>2, <1>3, <1>4, <1>5 DEF DiskInv, TypeOK, CleanIsSaved
<1>8. FileBehind'
  BY <1>2, <1>3, <1>6, FileTypes DEF DiskInv, TypeOK, FileBehind
<1>9. SaveInv'
  <2> SUFFICES ASSUME cur # None PROVE SaveInv'
    BY <1>2 DEF SaveInv
  <2>1. cur \in Rooms /\ buf \in Board
    BY DEF DiskInv, TypeOK
  <2>2. CASE cur = r
    BY <2>1, <2>2, <1>2, <1>3, <1>4, <1>6 DEF DiskInv, SaveInv
  <2>3. CASE cur # r
    BY <2>1, <2>3, <1>2, <1>3, <1>5 DEF DiskInv, SaveInv
  <2> QED
    BY <2>2, <2>3
<1> QED
  BY <1>2, <1>7, <1>8, <1>9 DEF DiskInv, NeverTorn

LEMMA DiskMark ==
  ASSUME DiskInv, TypeOK', NEW s \in Sessions, MarkDirty(s) PROVE DiskInv'
<1>1. /\ at[s] \in open /\ dirty' = [dirty EXCEPT ![at[s]] = TRUE]
      /\ at' = [at EXCEPT ![s] = None]
      /\ UNCHANGED <<open, state, fl, cur, buf, file, tmp>>
  BY DEF DiskInv, TypeOK, MarkDirty, flush, disk
<1>2. \A q \in Rooms : ~dirty'[q] /\ Marked(q)' => ~dirty[q] /\ Marked(q)
  BY <1>1 DEF Marked, DiskInv, TypeOK
<1> QED
  BY <1>1, <1>2 DEF DiskInv, TypeOK, CleanIsSaved, NeverTorn, FileBehind, SaveInv

LEMMA DiskSwap ==
  ASSUME DiskInv, TypeOK', NEW r \in Rooms, Swap(r) PROVE DiskInv'
<1>1. /\ r \in open /\ cur = None
      /\ dirty' = [dirty EXCEPT ![r] = FALSE]
      /\ IF dirty[r] THEN fl' = "snapshot" /\ cur' = r ELSE UNCHANGED <<fl, cur>>
      /\ UNCHANGED <<open, state, at, buf, file, tmp>>
  BY DEF DiskInv, TypeOK, Swap, disk
<1>2. CleanIsSaved'
  <2> SUFFICES ASSUME NEW q \in open, ~dirty'[q], Marked(q)', cur' # q
               PROVE  Drawn(file[q].board) = Drawn(state[q])
    BY <1>1 DEF CleanIsSaved
  <2>1. ~dirty[q] /\ Marked(q) /\ cur # q
    BY <1>1, PersistenceAssumption DEF DiskInv, TypeOK, Marked
  <2> QED
    BY <2>1 DEF DiskInv, CleanIsSaved
<1>3. SaveInv'
  BY <1>1, FileTypes DEF DiskInv, TypeOK, SaveInv, NeverTorn, Forms
<1> QED
  BY <1>1, <1>2, <1>3 DEF DiskInv, NeverTorn, FileBehind

LEMMA DiskSave ==
  ASSUME DiskInv, TypeOK', SaveStep PROVE DiskInv'
<1>0. cur \in Rooms /\ cur # None /\ cur \in open
  BY DEF DiskInv, TypeOK, SaveStep, Snapshot, Create, Write, Rename, Fail
<1>1. CASE Snapshot
  <2>1. Below(state[cur], state[cur]) /\ Below(file[cur].board, state[cur])
    BY <1>0, BelowIsReflexive DEF DiskInv, TypeOK, FileBehind
  <2>2. SaveInv'
    BY <1>1, <2>1, <1>0 DEF DiskInv, SaveInv, Snapshot, memory, disk
  <2> QED
    BY <1>1, <2>2 DEF DiskInv, CleanIsSaved, NeverTorn, FileBehind, Marked, Snapshot, memory, disk
<1>2. CASE Create \/ Write
  <2>1. SaveInv'
    BY <1>2, <1>0 DEF DiskInv, TypeOK, SaveInv, Marked, Create, Write, memory
  <2> QED
    BY <1>2, <2>1 DEF DiskInv, CleanIsSaved, NeverTorn, FileBehind, Marked, Create, Write, memory
<1>3. CASE Rename
  <2>1. /\ file' = [file EXCEPT ![cur] = Whole(buf)] /\ cur' = None
        /\ UNCHANGED <<open, state, dirty, at>>
    BY <1>3, <1>0 DEF DiskInv, SaveInv, Rename, Release, memory
  <2>2. /\ buf \in Board /\ Below(buf, state[cur])
        /\ ~dirty[cur] /\ Marked(cur) => Drawn(buf) = Drawn(state[cur])
    BY <1>3, <1>0 DEF DiskInv, TypeOK, SaveInv, Rename
  <2>3. /\ file'[cur].board = buf /\ file'[cur].form = "whole"
        /\ \A q \in Rooms \ {cur} : file'[q] = file[q]
    BY <2>1, <2>2, <1>0, FileTypes DEF DiskInv, TypeOK
  <2>4. CleanIsSaved'
    BY <2>1, <2>2, <2>3, <1>0 DEF DiskInv, TypeOK, CleanIsSaved, Marked
  <2> QED
    BY <2>1, <2>2, <2>3, <2>4, <1>0 DEF DiskInv, TypeOK, NeverTorn, FileBehind, SaveInv
<1>4. CASE Fail
  BY <1>4, <1>0
     DEF DiskInv, TypeOK, CleanIsSaved, NeverTorn, FileBehind, SaveInv, Marked, Fail, Release, disk
<1> QED
  BY <1>1, <1>2, <1>3, <1>4 DEF SaveStep

LEMMA DiskLose == ASSUME DiskInv, TypeOK', Lose PROVE DiskInv'
BY DEF DiskInv, CleanIsSaved, NeverTorn, FileBehind, SaveInv, Lose, disk

LEMMA DiskUpgrade == ASSUME DiskInv, TypeOK', Upgrade PROVE DiskInv'
<1>1. open' = {} /\ cur' = None
  BY DEF DiskInv, TypeOK, Upgrade, memory, flush
<1>2. \A r \in Rooms : \/ file'[r] = file[r]
                        \/ file'[r].form = "foreign"
  BY DEF DiskInv, TypeOK, Upgrade, File
<1> QED
  BY <1>1, <1>2 DEF DiskInv, CleanIsSaved, NeverTorn, FileBehind, SaveInv

LEMMA DiskNext == DiskInv /\ [Next]_vars => DiskInv'
<1> SUFFICES ASSUME DiskInv, [Next]_vars PROVE DiskInv'
  OBVIOUS
<1>0. TypeOK'
  BY TypeNext DEF DiskInv
<1>1. CASE Serve
  BY <1>1, <1>0, DiskOpen, DiskApply, DiskMark DEF Serve
<1>2. CASE Tick \/ FinalFlush \/ Flushed \/ EndLoop
  <2>1. cur = None
    BY <1>2 DEF DiskInv, TypeOK, Tick, FinalFlush, Flushed, EndLoop
  <2> QED
    BY <1>2, <2>1, <1>0, DiskIdle DEF Tick, FinalFlush, Flushed, EndLoop, memory, disk
<1>3. CASE Start \/ Signal \/ UNCHANGED vars
  BY <1>3, <1>0, DiskIdle DEF Start, Signal, vars, memory, flush, disk
<1>4. CASE (\E r \in Rooms : Swap(r)) \/ SaveStep
  BY <1>4, <1>0, DiskSwap, DiskSave
<1>5. CASE Exit \/ Crash
  BY <1>5, <1>0, DiskLose DEF Exit, Crash
<1>6. CASE Upgrade
  BY <1>6, <1>0, DiskUpgrade
<1> QED
  BY <1>1, <1>2, <1>3, <1>4, <1>5, <1>6 DEF Next

\* The inductive invariant: in memory and on disk a room agrees as far as
\* save_if_dirty's flag says.
THEOREM DiskInvariant == Spec => []DiskInv
<1> QED
  BY DiskInit, DiskNext, PTL DEF Spec

\* A room that is not dirty looks on disk as it looks in memory.
THEOREM CleanRoomsAreSaved == Spec => []CleanIsSaved
<1>1. DiskInv => CleanIsSaved
  BY DEF DiskInv
<1> QED
  BY <1>1, DiskInvariant, PTL

\* "a crash never leaves a torn snapshot", wherever the process is killed.
THEOREM SnapshotsAreNeverTorn == Spec => []NeverTorn
<1>1. DiskInv => NeverTorn
  BY DEF DiskInv
<1> QED
  BY <1>1, DiskInvariant, PTL

LEMMA FileStep ==
  ASSUME DiskInv, [Next]_vars, NEW r \in Rooms,
         file[r].form = "whole", file'[r].form = "whole"
  PROVE  Below(file[r].board, file'[r].board)
<1>1. CASE file'[r] = file[r]
  BY <1>1, FileTypes, BelowIsReflexive DEF DiskInv, TypeOK
<1>2. CASE Rename
  <2>1. /\ cur \in Rooms /\ buf \in Board /\ Below(file[cur].board, buf)
        /\ file' = [file EXCEPT ![cur] = Whole(buf)]
    BY <1>2, PersistenceAssumption DEF DiskInv, TypeOK, SaveInv, Rename
  <2>2. CASE r = cur
    BY <2>1, <2>2, FileTypes DEF DiskInv, TypeOK
  <2> QED
    BY <2>1, <2>2, <1>1 DEF DiskInv, TypeOK
<1>3. CASE Upgrade
  BY <1>3 DEF DiskInv, TypeOK, Upgrade, File
<1>4. ASSUME NEW q \in Rooms, Open(q) PROVE file'[r] = file[r]
  BY <1>4, FileTypes DEF DiskInv, TypeOK, Open
<1>5. CASE ~Rename /\ ~Upgrade /\ ~(\E q \in Rooms : Open(q))
  <2>1. file' = file
    BY <1>5 DEF Next, Serve, Apply, MarkDirty, Tick, FinalFlush, Swap, SaveStep, Snapshot,
       Create, Write, Fail, Flushed, Start, Signal, EndLoop, Exit, Crash, Lose, disk, vars
  <2> QED
    BY <2>1, <1>1
<1> QED
  BY <1>1, <1>2, <1>3, <1>4, <1>5

\* What was saved once stays saved until the format of snapshots changes.
THEOREM FilesOnlyGrow == Spec => FileGrows
<1>1. DiskInv /\ [Next]_vars =>
        [\A r \in Rooms : file[r].form = "whole" /\ file'[r].form = "whole" =>
           Below(file[r].board, file'[r].board)]_vars
  BY FileStep
<1> QED
  BY <1>1, DiskInit, DiskNext, PTL DEF Spec, FileGrows

-----------------------------------------------------------------------------
(* Snapshots survive *)

LEMMA SurviveStep ==
  ASSUME DiskInv, [Next]_vars, NEW r \in Rooms
  PROVE  /\ Below(file[r].board, file'[r].board) \/ aside'[r] = file[r]
         /\ aside'[r] # aside[r] => file[r].form = "foreign" /\ aside'[r] = file[r]
<1>0. /\ file[r] \in File /\ file[r].board \in Board /\ Below(file[r].board, file[r].board)
      /\ file \in [Rooms -> File] /\ aside \in [Rooms -> File]
  BY FileTypes, BelowIsReflexive DEF DiskInv, TypeOK
<1>1. CASE Rename
  <2>1. /\ cur \in Rooms /\ buf \in Board /\ Below(file[cur].board, buf) /\ aside' = aside
        /\ file' = [file EXCEPT ![cur] = Whole(buf)]
    BY <1>1, PersistenceAssumption DEF DiskInv, TypeOK, SaveInv, Rename
  <2> QED
    BY <1>0, <2>1, FileTypes
<1>2. CASE Upgrade
  <2>1. aside' = aside /\ file'[r].board = file[r].board
    BY <1>0, <1>2 DEF Upgrade, File
  <2> QED
    BY <1>0, <2>1
<1>3. ASSUME NEW q \in Rooms, Open(q)
      PROVE  /\ Below(file[r].board, file'[r].board) \/ aside'[r] = file[r]
             /\ aside'[r] # aside[r] => file[r].form = "foreign" /\ aside'[r] = file[r]
  <2>1. CASE UNCHANGED <<file, aside>>
    BY <1>0, <2>1
  <2>2. CASE ~UNCHANGED <<file, aside>>
    <3>1. /\ file[q].form \notin {"absent", "whole"}
          /\ aside' = [aside EXCEPT ![q] = file[q]] /\ file' = [file EXCEPT ![q] = Absent]
      BY <1>3, <2>2 DEF Open
    <3>2. file[q].form = "foreign"
      BY <3>1, FileTypes DEF DiskInv, TypeOK, NeverTorn, Forms
    <3> QED
      BY <1>0, <3>1, <3>2
  <2> QED
    BY <2>1, <2>2
<1>4. CASE ~Rename /\ ~Upgrade /\ ~(\E q \in Rooms : Open(q))
  <2>1. UNCHANGED <<file, aside>>
    BY <1>4 DEF Next, Serve, Apply, MarkDirty, Tick, FinalFlush, Swap, SaveStep, Snapshot,
       Create, Write, Fail, Flushed, Start, Signal, EndLoop, Exit, Crash, Lose, disk, vars
  <2> QED
    BY <1>0, <2>1
<1> QED
  BY <1>1, <1>2, <1>3, <1>4

\* No save, crash, restart or change of format writes over a snapshot: what does
\* not decode is set aside whole, and stays until the next such snapshot.
THEOREM SnapshotsAlwaysSurvive == Spec => SnapshotsSurvive
<1>1. DiskInv /\ [Next]_vars =>
        [\A r \in Rooms :
           /\ Below(file[r].board, file'[r].board) \/ aside'[r] = file[r]
           /\ aside'[r] # aside[r] => file[r].form = "foreign" /\ aside'[r] = file[r]]_vars
  BY SurviveStep
<1> QED
  BY <1>1, DiskInit, DiskNext, PTL DEF Spec, SnapshotsSurvive
=============================================================================
