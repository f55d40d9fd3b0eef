------------------------------- MODULE OpStack -------------------------------
(***************************************************************************)
(* The pending-operation stack of one project (internal/storage/           *)
(* ops_stack.go) and the journal fold (ops_replay.go foldOps): the data    *)
(* structure in which every acknowledged metadata mutation waits for its   *)
(* commit.  This module holds the data structure only, as operators on a   *)
(* record; module PendingOps drives it.                                    *)
(*                                                                         *)
(* An operation is a record                                                *)
(*    [kind, path, to, val, ids, seq, gen]                                 *)
(* where path and to are sequences of names, val is the asserted state   *)
(* with its timestamp at, and ids is the member list of a directory rename *)
(* or the chunk ids of a prune.  Causes, message payloads and the Times    *)
(* counter only reach the commit message and are left out.                 *)
(***************************************************************************)
EXTENDS Naturals, Sequences, SequencesExt, FiniteSets, TLC

StateClass  == {"put", "setattr", "setdir", "mkdir"}
DeleteClass == {"del", "rmdir"}
RenameClass == {"rename", "rendir"}
Kinds       == StateClass \cup DeleteClass \cup RenameClass \cup {"prune", "release"}

NoKey == <<>>

Op(kind, path, to, val, ids) ==
    [kind |-> kind, path |-> path, to |-> to, val |-> val, ids |-> ids,
     seq |-> 0, gen |-> 0]

\* Size estimate of one operation: monotone in the payload.
Weight(op) == 1 + Len(op.path) + Len(op.to) + Cardinality(op.ids)

\* The coalescing key: kind-prefixed so that a file, a directory and a tag of
\* the same name never share an index entry.  An rmdir carries no record and
\* has no key; renames are indexed by target and prunes by pruneIdx.
Key(op) ==
    CASE op.kind \in {"put", "setattr", "del"} -> <<"f", op.path>>
      [] op.kind \in {"mkdir", "setdir"}       -> <<"d", op.path>>
      [] op.kind = "release"                   -> <<"r", op.path>>
      [] OTHER                                 -> NoKey

\* Indices count from 1; 0 means "none".
Empty == [ops |-> <<>>, byPath |-> <<>>, byTarget |-> <<>>, pruneIdx |-> 0,
          bytes |-> 0, gen |-> 0, seq |-> 0]

IndexOp(s, op, i) ==
    CASE op.kind \in RenameClass -> [s EXCEPT !.byTarget = (op.to :> i) @@ @]
      [] op.kind = "prune"       -> [s EXCEPT !.pruneIdx = i]
      [] OTHER -> IF Key(op) = NoKey THEN s
                  ELSE [s EXCEPT !.byPath = (Key(op) :> i) @@ @]

Push(s, op) ==
    IndexOp([s EXCEPT !.ops = Append(@, op), !.bytes = @ + Weight(op)],
            op, Len(s.ops) + 1)

\* Mutant: the entries above the removed one keep their old positions.
RemoveUnshifted(s, idx) ==
    [s EXCEPT !.ops = RemoveAt(@, idx), !.bytes = @ - Weight(s.ops[idx]),
              !.pruneIdx = IF @ = idx THEN 0 ELSE @]

\* The removed entry's own index keeps its value, entries above it shift.
RemoveOpAt(s, idx) ==
    LET shift(i) == IF i > idx THEN i - 1 ELSE i
    IN  [s EXCEPT !.ops      = RemoveAt(@, idx),
                  !.bytes    = @ - Weight(s.ops[idx]),
                  !.byPath   = [k \in DOMAIN @ |-> shift(@[k])],
                  !.byTarget = [k \in DOMAIN @ |-> shift(@[k])],
                  !.pruneIdx = IF @ = idx THEN 0 ELSE shift(@)]

\* A rename into path that is the newest operation and still in the open
\* generation: the only one a later rename or delete may be merged with.
AdjacentRename(s, path) ==
    /\ path \in DOMAIN s.byTarget
    /\ s.byTarget[path] = Len(s.ops)
    /\ Len(s.ops) > 0
    /\ Last(s.ops).kind \in RenameClass
    /\ Last(s.ops).gen = s.gen

\* The older operation on the same key makes room for the new one.
Coalesce(s, op) ==
    Push(IF /\ Key(op) # NoKey
            /\ Key(op) \in DOMAIN s.byPath
            /\ s.ops[s.byPath[Key(op)]].kind \in StateClass \cup DeleteClass \cup {"release"}
         THEN RemoveOpAt(s, s.byPath[Key(op)])
         ELSE s,
         op)

\* rename A->B followed by delete B nets to delete A, repeated while the
\* rewritten delete meets another adjacent rename.
DeleteTransform(s, op) ==
    FoldLeft(LAMBDA acc, i :
                 IF acc.op.kind \in DeleteClass /\ AdjacentRename(acc.s, acc.op.path)
                 THEN [s  |-> RemoveOpAt(acc.s, Len(acc.s.ops)),
                       op |-> [acc.op EXCEPT !.path = Last(acc.s.ops).path]]
                 ELSE acc,
             [s |-> s, op |-> op], s.ops)
Rewritten(r) == Coalesce(r.s, r.op)

\* rename A->B followed by rename B->C nets to rename A->C in A->B's place,
\* with the newer entry state and the older member list.
MergeRename(s, op) ==
    LET i      == Len(s.ops)
        merged == [s.ops[i] EXCEPT !.to = op.to, !.val = op.val, !.seq = op.seq]
    IN  [s EXCEPT !.ops[i]   = merged,
                  !.bytes    = @ - Weight(s.ops[i]) + Weight(merged),
                  !.byTarget = (op.to :> i) @@ [k \in DOMAIN @ \ {op.path} |-> @[k]]]

\* Prunes merge into the first one whatever its generation; the merged
\* operation keeps its place and generation but takes the new number.
MergePrune(s, op) ==
    LET i      == s.pruneIdx
        merged == [s.ops[i] EXCEPT !.ids = @ \cup op.ids, !.seq = op.seq]
    IN  [s EXCEPT !.ops[i] = merged,
                  !.bytes  = @ - Weight(s.ops[i]) + Weight(merged)]

\* A rename or prune that meets nothing to merge with has no key: it is pushed.
Place(s, op) ==
    IF op.kind \in RenameClass /\ AdjacentRename(s, op.path) THEN MergeRename(s, op)
    ELSE IF op.kind = "prune" /\ s.pruneIdx > 0 THEN MergePrune(s, op)
    ELSE Rewritten(DeleteTransform(s, op))

\* append: number the operation, stamp it with the open generation (which an
\* operation carrying a newer one first fast-forwards), then coalesce.
Opened(s, o) == [s EXCEPT !.seq = @ + 1, !.gen = Max({1, @, o.gen})]
Numbered(s, o) == [o EXCEPT !.seq = s.seq, !.gen = s.gen]
PlaceNumbered(s, o) == Place(s, Numbered(s, o))
AppendOp(s, o) == PlaceNumbered(Opened(s, o), o)

AppendAll(s, ops) == FoldLeft(AppendOp, s, ops)

\* An append together with its journal line: the operation before coalescing,
\* with the number and generation it was given.
Delta(s, o) == [s |-> s, line |-> Numbered(s, o)]
AppendWithDelta(s, o) == Delta(AppendOp(s, o), o)

\* Rebuild every index and the byte total from the operations.
Reindex(s) ==
    FoldLeftDomain(LAMBDA t, i : IndexOp([t EXCEPT !.bytes = @ + Weight(s.ops[i])],
                                         s.ops[i], i),
                   [s EXCEPT !.byPath = <<>>, !.byTarget = <<>>,
                             !.pruneIdx = 0, !.bytes = 0],
                   s.ops)

\* Drop every operation last numbered at or below q.
ClearUpTo(s, q) ==
    Reindex([s EXCEPT !.ops = SelectSeq(@, LAMBDA op : op.seq > q)])

\* Mutant: the generation stays open.
FreezeOpen(s) == [s EXCEPT !.gen = IF @ = 0 THEN 1 ELSE @]

\* Close the open generation: what is stacked now is the commit's batch and
\* every later append lands in a newer generation.
Freeze(s) == [s EXCEPT !.gen = (IF @ = 0 THEN 1 ELSE @) + 1]

\* foldOps: rebuild a stack from journal lines, keeping their numbers.
FoldLines(lines) ==
    FoldLeft(LAMBDA s, l :
                 AppendOp([s EXCEPT !.seq = IF l.seq > @ THEN l.seq - 1 ELSE @], l),
             Empty, lines)

\* Hydration of a cold project: the folded operations are appended again,
\* onto a cleared stack that numbers them afresh.
Hydrate(ops) == AppendAll(Empty, ops)
=============================================================================
