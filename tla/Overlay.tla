------------------------------ MODULE Overlay ------------------------------
(***************************************************************************)
(* The write overlay of one inode of a mount (fusefs/fuse_write*.go): a    *)
(* sparse local file, the set of its dirty bytes, and what a commit sends  *)
(* to the store.  Files are sequences of bytes; byte i of the code is      *)
(* element i + 1.  A slice of dirty ranges is the set of offsets it        *)
(* covers: the code keeps the ranges sorted and merges those that touch.   *)
(***************************************************************************)
EXTENDS Integers, FiniteSets, Sequences, SequencesExt, FiniteSetsExt

CONSTANTS
    ChunkSize,      \* bytes per chunk
    Page,           \* copyPageSize: bytes per edit of a patch
    MaxDirtyRanges  \* maxDirtyRanges

ASSUME OverlayAssumption == {ChunkSize, Page, MaxDirtyRanges} \subseteq Nat \ {0}

Larger(a, b) == IF a > b THEN a ELSE b
Smaller(a, b) == IF a < b THEN a ELSE b
Span(from, to) == from..(to - 1)                    \* [from, to)
At(file, i) == IF i < Len(file) THEN file[i + 1] ELSE 0
Resize(file, n) == [i \in 1..n |-> At(file, i - 1)]  \* ftruncate
WriteAt(file, off, data) ==
    [i \in 1..Larger(Len(file), off + Len(data)) |->
        IF i > off /\ i <= off + Len(data) THEN data[i - off] ELSE At(file, i - 1)]

(* The maximal runs of a set of offsets: the slice of ranges.              *)
Ranges(offsets) ==
    {r \in {<<s, e + 1>> : s, e \in offsets} :
        /\ r[1] < r[2] /\ Span(r[1], r[2]) \subseteq offsets
        /\ r[1] - 1 \notin offsets /\ r[2] \notin offsets}

-----------------------------------------------------------------------------
(* The state of an open inode.  `held` is the handle that holds opMu, or   *)
(* "" ; `base` and `size` are baseSize and logicalSize; `auth` is          *)
(* tempAuthoritative, `snap` the base snapshot when hasSnap; `half` is a   *)
(* ghost: a patch landed and its truncate did not.                         *)

Overlay(path, size) ==
    [path |-> path, deleted |-> FALSE, poisoned |-> FALSE, closed |-> FALSE, refs |-> 1,
     made |-> FALSE, base |-> size, size |-> size, dirty |-> {}, temp |-> Resize(<<>>, size),
     auth |-> FALSE, hasSnap |-> FALSE, snap |-> <<>>, pending |-> 0, held |-> "", half |-> FALSE]

HasPending(w) == w.pending # 0
Uncommitted(w) == w.dirty # {} \/ w.size # w.base \/ HasPending(w)

(* setLogicalSizeLocked: the temp is cut or extended, ranges are trimmed.  *)
WithSize(w, n) ==
    [w EXCEPT !.size = n, !.temp = Resize(@, n), !.dirty = {b \in @ : b < n}]

(* setSizeLocked: an empty overlay is the whole file; a growth is zeros to *)
(* upload unless the overlay is the whole file.                            *)
Resized(w, n) ==
    IF n = 0 THEN [WithSize(w, 0) EXCEPT !.auth = TRUE, !.hasSnap = FALSE, !.snap = <<>>]
    ELSE IF n > w.size /\ ~w.auth THEN [WithSize(w, n) EXCEPT !.dirty = @ \cup Span(w.size, n)]
    ELSE WithSize(w, n)

(* Allocate, without KEEP_SIZE: past the end is dirty and zero.            *)
Allocated(w, end) ==
    IF end <= w.size THEN w
    ELSE [w EXCEPT !.size = end, !.temp = Resize(@, end), !.dirty = @ \cup Span(w.size, end)]

(* What a reader sees: dirty bytes from the temp, clean bytes below both   *)
(* sizes from the snapshot or else from the stored file, then zeros.       *)
BaseOf(w, stored) == IF w.hasSnap THEN w.snap ELSE stored
View(w, stored) ==
    [i \in 1..w.size |->
        IF i - 1 \in w.dirty THEN At(w.temp, i - 1)
        ELSE IF i - 1 < w.base THEN At(BaseOf(w, stored), i - 1) ELSE 0]
(* A clean byte the base does not have is io.ErrNoProgress.                *)
Readable(w, stored) ==
    \A b \in Span(0, Smaller(w.base, w.size)) \ w.dirty : b < Len(BaseOf(w, stored))

(* ensureDirtyBounded and coalesceDirtyLocked: too many ranges become one, *)
(* the gaps filled from the base.                                          *)
Coalesced(w, stored) ==
    IF Cardinality(Ranges(w.dirty)) <= MaxDirtyRanges THEN w
    ELSE [w EXCEPT !.dirty = Span(0, w.size), !.auth = TRUE,
                   !.temp = IF w.auth THEN @ ELSE View(w, stored)]

(* Write: the gap past the old end and the data are dirty.                 *)
Written(w, stored, off, data) ==
    LET end == off + Len(data)
        gap == IF off > w.size THEN [WithSize(w, off) EXCEPT !.dirty = @ \cup Span(w.size, off)] ELSE w
        grown == IF end > w.size THEN WithSize(gap, end) ELSE gap
    IN  Coalesced([grown EXCEPT !.temp = WriteAt(@, off, data), !.dirty = @ \cup Span(off, end)], stored)

-----------------------------------------------------------------------------
(* The plan of a commit.                                                   *)

ChunkFloor(b) == b - (b % ChunkSize)
ChunkCeil(b) == ChunkFloor(b + ChunkSize - 1)
(* plannedRangesLocked: widened to whole chunks, below the base size only. *)
Planned(w) ==
    UNION {Span(IF r[1] < w.base THEN ChunkFloor(r[1]) ELSE r[1],
                IF r[2] < w.base THEN Larger(r[2], Smaller(ChunkCeil(r[2]), w.base)) ELSE r[2])
             : r \in Ranges(w.dirty)}

WholeImage(w) == w.auth \/ Span(0, w.size) \subseteq w.dirty
FileSize(w) == Larger(w.base, w.size)
ShouldChunkRewrite(w) ==
    LET ranges == Cardinality(Ranges(Planned(w)))
    IN  ranges >= 4 \/ (ranges >= 2 /\ Cardinality(Planned(w)) < FileSize(w) \div 2)
ShouldReplace(w) ==
    LET bytes == Cardinality(w.dirty)
    IN  /\ FileSize(w) > 0
        /\ \/ bytes * 4 >= FileSize(w) * 3
           \/ Cardinality(Ranges(Planned(w))) >= 12 /\ bytes * 3 >= FileSize(w)
           \/ bytes * 2 >= FileSize(w)

(* An edit deletes what it overwrites, up to the base size, page by page.  *)
Pages(r) == {p \in Span(r[1], r[2]) : (p - r[1]) % Page = 0}
(* mutant: an edit deletes as much as it writes *)
EditPastEnd(w, image, p, end) ==
    LET stop == Smaller(p + Page, end)
    IN  [start |-> p, del |-> stop - p, data |-> SubSeq(image, p + 1, stop)]
EditAt(w, image, p, end) ==
    LET stop == Smaller(p + Page, end)
    IN  [start |-> p, del |-> Larger(0, Smaller(stop, w.base) - p), data |-> SubSeq(image, p + 1, stop)]
(* They touch different bytes, so that their set tells their order.         *)
Edits(w, image) == UNION {{EditAt(w, image, p, r[2]) : p \in Pages(r)} : r \in Ranges(w.dirty)}

NoVerb == [kind |-> "none", size |-> 0, image |-> <<>>, planned |-> {}, edits |-> {}, trim |-> FALSE]
(* commitTemp picks one: a bare truncate, a rewrite of the touched chunks  *)
(* from a snapshot of the planned ranges, a replace by the whole image, or *)
(* a patch, with a truncate after it unless it only appends.               *)
Plan(w, stored) ==
    IF w.dirty = {} THEN [NoVerb EXCEPT !.kind = IF w.size = w.base THEN "none" ELSE "truncate", !.size = w.size]
    ELSE IF ShouldChunkRewrite(w)
    THEN [NoVerb EXCEPT !.kind = "rewrite", !.size = w.size, !.planned = Planned(w),
             !.image = [i \in 1..w.size |-> IF i - 1 \in Planned(w) THEN View(w, stored)[i] ELSE 0]]
    ELSE IF ShouldReplace(w)
    THEN [NoVerb EXCEPT !.kind = "replace", !.size = w.size,
             !.image = IF WholeImage(w) THEN w.temp ELSE View(w, stored)]
    ELSE [NoVerb EXCEPT !.kind = "patch", !.size = w.size, !.edits = Edits(w, View(w, stored)),
             !.trim = /\ w.size # w.base
                      /\ ~\E r \in Ranges(w.dirty) : {r} = Ranges(w.dirty) /\ r[1] >= w.base /\ r[2] = w.size]

-----------------------------------------------------------------------------
(* What the store makes of a verb (storage/verbs_upload.go, patch.go).     *)

(* spliceEdit, from the last edit to the first: offsets need no shifting.  *)
Splice(edit, stored) ==
    SubSeq(stored, 1, edit.start) \o edit.data \o SubSeq(stored, edit.start + edit.del + 1, Len(stored))
Earliest(edits) == CHOOSE e \in edits : \A d \in edits : e.start <= d.start
Spliced(stored, edits) == MapThenFoldSet(Splice, stored, LAMBDA e : e, Earliest, edits)
(* buildRewrittenChunks: a chunk that meets a planned range is uploaded    *)
(* whole from the snapshot, the others are kept.                           *)
Rewritten(stored, v) ==
    [i \in 1..v.size |->
        IF \E p \in v.planned : p \div ChunkSize = (i - 1) \div ChunkSize
        THEN v.image[i] ELSE At(stored, i - 1)]
(* Every edit must lie in the stored file.                                 *)
Accepted(stored, v) ==
    v.kind = "patch" => \A e \in v.edits : e.start + e.del <= Len(stored)
Applied(stored, v) ==
    CASE v.kind = "truncate" -> Resize(stored, v.size)
      [] v.kind = "rewrite" -> Rewritten(stored, v)
      [] v.kind = "replace" -> v.image
      [] v.kind = "patch" -> Spliced(stored, v.edits)
      [] v.kind = "none" -> stored

(* removeDirtyRangeLocked and commitCacheRefreshLocked: the overlay is     *)
(* clean; a snapshot takes the bytes that are still marked dirty, which a  *)
(* patch has unmarked just before.                                         *)
Refreshed(w, v) ==
    LET marked == IF v.kind = "patch" THEN {} ELSE w.dirty
    IN  [w EXCEPT !.base = v.size, !.dirty = {}, !.auth = FALSE, !.half = FALSE,
                  !.temp = IF v.kind = "patch" THEN Resize(@, v.size) ELSE @,
                  !.snap = IF ~w.hasSnap THEN @
                           ELSE [i \in 1..w.size |->
                                   IF i - 1 \in marked THEN At(w.temp, i - 1) ELSE At(w.snap, i - 1)]]

=============================================================================
