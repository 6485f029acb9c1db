------------------------------ MODULE Renderer ------------------------------
(***************************************************************************)
(* The strokes on the GPU: StrokeRenderer of client/src/gpu.rs, the cache  *)
(* of tessellated meshes it draws from (TessCache, client/src/canvas.rs)   *)
(* and the document's generation (client/src/app.rs), by which the         *)
(* renderer tells that something has changed.                              *)
(*                                                                         *)
(* The document is the sequence of its visible strokes in draw order; a    *)
(* chunk's key is the list of ids it is a hash of; a mesh is the stroke    *)
(* and the scale it was tessellated for, a scale being a bucket of zoom    *)
(* levels and a pixel density.                                             *)
(***************************************************************************)
EXTENDS Integers, Sequences, SequencesExt, FiniteSetsExt

CONSTANTS
  Strokes,
  Texts,       \* strokes that are labels: egui paints them
  Scales,
  ChunkSize,   \* CHUNK_SIZE
  MaxChanges,  \* bound: times the document's generation advances
  MaxFailures  \* bound: chunks the driver fails to allocate

NoScale == [none |-> TRUE]

ASSUME RendererAssumption ==
  /\ Texts \subseteq Strokes
  /\ NoScale \notin Scales /\ Scales # {}
  /\ ChunkSize \in Nat \ {0}
  /\ MaxChanges \in Nat /\ MaxFailures \in Nat

VARIABLES
  visible,     \* StrokeSet::visible
  generation,  \* Document.generation
  camera,      \* the scale asked for in this frame
  scale,       \* TessCache: the scale of all its meshes
  meshes,      \* strokes it holds a mesh of
  built,       \* strokes it tessellated in the last sync that did anything
  synced,      \* StrokeRenderer.synced
  chunks,      \* Gpu.chunks
  missing,     \* groups the last sync could not allocate a chunk for (history)
  failures,    \* allocations that failed (bounded)
  running      \* on_exit has not been called

document == <<visible, generation>>
cache    == <<scale, meshes, built>>
gpu      == <<synced, chunks>>
history  == <<missing, failures>>
vars     == <<document, camera, cache, gpu, history, running>>

NoGeneration == -1

Init ==
  /\ visible = <<>> /\ generation = 0
  /\ camera \in Scales
  /\ scale = NoScale /\ meshes = {} /\ built = {}
  /\ synced = NoGeneration /\ chunks = <<>>
  /\ missing = {} /\ failures = 0
  /\ running = TRUE

-----------------------------------------------------------------------------
(* The document *)

\* Document::apply and the like: as many visible changes as were counted.
Advance(n) ==
  /\ running
  /\ generation + n <= MaxChanges
  /\ generation' = generation + n
  /\ UNCHANGED <<camera, cache, gpu, history, running>>

\* A stroke is drawn, redrawn or comes back; its stamp decides where.
Reveal ==
  \E s \in Strokes \ ToSet(visible), i \in 1 .. Len(visible) + 1 :
    Advance(1) /\ visible' = InsertAt(visible, i, s)

Hide ==
  \E k \in DOMAIN visible : Advance(1) /\ visible' = RemoveAt(visible, k)

\* A newer Add of a visible stroke; it counts even if the order stays the same.
Restamp ==
  \E k, i \in DOMAIN visible :
    Advance(1) /\ visible' = InsertAt(RemoveAt(visible, k), i, visible[k])

\* A merge that reveals one stroke and hides another.
Merge ==
  \E k, i \in DOMAIN visible, new \in Strokes \ ToSet(visible) :
    Advance(2) /\ visible' = InsertAt(RemoveAt(visible, k), i, new)

\* A merge that adds and removes a stroke counts both and shows nothing.
MergeInvisible == Advance(2) /\ visible' = visible

-----------------------------------------------------------------------------
(* A frame *)

Zoom ==
  /\ running
  /\ camera' \in Scales \ {camera}
  /\ UNCHANGED <<document, cache, gpu, history, running>>

\* slice::chunks
Groups(v) ==
  [i \in 1 .. (Len(v) + ChunkSize - 1) \div ChunkSize |->
     SubSeq(v, (i - 1) * ChunkSize + 1, IF i * ChunkSize < Len(v) THEN i * ChunkSize ELSE Len(v))]

IsDrawn(s) == s \notin Texts

\* The strokes tess.get is called for.
Touched == {s \in ToSet(visible) : IsDrawn(s)}

\* The strokes of a list that have a mesh, in its order.
Drawn(group) ==
  FlattenSeq([i \in 1 .. Len(group) |-> IF IsDrawn(group[i]) THEN <<group[i]>> ELSE <<>>])

\* One buffer with the meshes of a group, at the scale of the camera.
Chunk(group) == [key |-> group, drawn |-> Drawn(group), at |-> camera]

\* Mutant of Put: the key of a group is that of its first stroke.
PutByFirst(cs, i, group, failed) ==
  IF i <= Len(cs)
  THEN IF Head(cs[i].key) = Head(group) THEN cs ELSE [cs EXCEPT ![i] = Chunk(group)]
  ELSE IF i \in failed THEN cs ELSE Append(cs, Chunk(group))

\* Chunk i is kept, replaced, or pushed behind the last; failed are the groups
\* the driver has no buffers for.
Put(cs, i, group, failed) ==
  IF i <= Len(cs)
  THEN IF cs[i].key = group THEN cs ELSE [cs EXCEPT ![i] = Chunk(group)]
  ELSE IF i \in failed THEN cs ELSE Append(cs, Chunk(group))

\* The loop of sync: all groups are put, one after the other.
PutAll(cs, groups, failed) ==
  FoldLeft(LAMBDA acc, i : Put(acc, i, groups[i], failed), cs, [i \in 1 .. Len(groups) |-> i])

Truncated(cs, n) == SubSeq(cs, 1, IF Len(cs) < n THEN Len(cs) ELSE n)

\* begin_frame found another scale, so that every mesh and chunk is dropped.
Invalidated == scale # camera

\* Mutant of Kept: the meshes of chunks that stay as they are are not asked for.
KeptOfChanged(cs, groups) ==
  UNION {ToSet(groups[i]) \ Texts :
           i \in {j \in DOMAIN groups : j > Len(cs) \/ cs[j].key # groups[j]}}

\* end_frame: only what was asked for in this sync stays.
Kept(cs, groups) == Touched

\* sync, when there is something to do; the draw callback follows in this frame.
Sync ==
  /\ running
  /\ Invalidated \/ synced # generation
  /\ LET old    == IF Invalidated THEN <<>> ELSE chunks
         groups == Groups(visible)
         new    == {i \in DOMAIN groups : i > Len(old)}
     IN \E failed \in SUBSET new :
          /\ failures' = failures + Cardinality(failed)
          /\ failures' <= MaxFailures
          /\ missing' = failed
          /\ chunks' = Truncated(PutAll(old, groups, failed), Len(groups))
          /\ built' = Touched \ (IF Invalidated THEN {} ELSE meshes)
          /\ meshes' = Kept(old, groups)
  /\ scale' = camera /\ synced' = generation
  /\ UNCHANGED <<document, camera, running>>

\* on_exit
Destroy ==
  /\ running
  /\ running' = FALSE
  /\ chunks' = <<>>
  /\ UNCHANGED <<document, camera, cache, synced, history>>

-----------------------------------------------------------------------------
Next ==
  \/ Reveal \/ Hide \/ Restamp \/ Merge \/ MergeInvisible
  \/ Zoom \/ Sync \/ Destroy

Spec == Init /\ [][Next]_vars

-----------------------------------------------------------------------------
(* Properties *)

\* What the callback of paint draws.
Painted == FlattenSeq([i \in 1 .. Len(chunks) |-> chunks[i].drawn])

\* sync would return at once.
InSync == running /\ scale = camera /\ synced = generation

\* The screen shows the document: whatever was drawn, erased, moved in draw order
\* or zoomed since some chunks were uploaded, all strokes are there, once and in
\* draw order, at this scale, save those of groups the last sync had no buffers for:
\* these stay away until the next change, for nothing tries again before.
ShowsTheDocument ==
  InSync =>
    LET groups == Groups(visible) IN
      /\ Painted = FlattenSeq([i \in 1 .. Len(groups) |->
                                IF i \in missing THEN <<>> ELSE Drawn(groups[i])])
      /\ missing = {} => Painted = Drawn(visible)
      /\ \A i \in DOMAIN chunks : chunks[i].at = scale

\* "erasing one re-uploads the chunks after it but never re-tessellates": as long
\* as the scale stays the same no stroke on the screen is tessellated again, even
\* when it moves to another chunk, and no mesh is kept of one that has gone.
TessellatesOnce ==
  [][synced' # synced /\ scale' = scale =>
       built' \cap ToSet(Painted) = {} /\ meshes' \subseteq ToSet(visible)]_vars
=============================================================================
