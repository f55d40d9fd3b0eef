------------------------------- MODULE Replay --------------------------------
(***************************************************************************)
(* Replay of a batch of pending operations onto an index tree             *)
(* (internal/storage/ops_replay.go, ops_apply.go): the engine behind crash *)
(* recovery and behind the rebase of a conflicting commit.                 *)
(*                                                                         *)
(* A tree is [files, dirs, chunks, tags].  files and dirs map a path to an *)
(* entry [id, mode, at]: id is the inode of a directory or the chunk of a  *)
(* file (0 for an empty file), mode its attributes, at its change time.    *)
(* chunks is the set of chunk ids with a catalog record, tags the set of   *)
(* releases.  The root <<>> is always a directory.  The renumbering of     *)
(* colliding identifiers is left out: a single writer's batch never        *)
(* asserts one identifier for two nodes.                                   *)
(***************************************************************************)
EXTENDS OpStack, Functions

\* The identity of a directory that replay itself had to create.
Minted == [id |-> 0, mode |-> 0, at |-> 0]

Live(t, p) == p \in DOMAIN t.files \/ p \in DOMAIN t.dirs

Parent(p)    == Front(p)
ChildrenOf(t, p) ==
    {q \in DOMAIN t.files \cup DOMAIN t.dirs : q # <<>> /\ Parent(q) = p}
Beneath(p, q) == p # q /\ IsPrefix(p, q)

RemapPath(from, to, p) ==
    IF IsPrefix(from, p) THEN to \o SubSeq(p, Len(from) + 1, Len(p)) ELSE p

WriteFile(t, p, v) == [t EXCEPT !.files = (p :> v) @@ @]
DropFile(t, p)     == [t EXCEPT !.files = Restrict(@, DOMAIN @ \ {p})]
WriteDir(t, p, v)  == [t EXCEPT !.dirs = (p :> v) @@ @]
DropDir(t, p)      == [t EXCEPT !.dirs = Restrict(@, DOMAIN @ \ {p})]

\* The chunks files reference, and the catalog record an operation carries.
ChunksOf(e)   == {e.id} \ {0}
Referenced(t) == UNION {ChunksOf(t.files[p]) : p \in DOMAIN t.files}
Record(t, e)  == [t EXCEPT !.chunks = @ \cup ChunksOf(e)]

\* Create every missing level of a literal target's parent.
EnsureParent(t, p) ==
    [t EXCEPT !.dirs = @ @@ [q \in {SubSeq(p, 1, i) : i \in 0 .. Len(p) - 1} |-> Minted]]

-----------------------------------------------------------------------------
(* The batch plan.                                                         *)

NewPlan(ops) ==
    LET of(kinds) == {ops[i].path : i \in {j \in DOMAIN ops : ops[j].kind \in kinds}}
    IN  [doomed |-> of(DeleteClass \cup RenameClass),
         mkdirs |-> of({"mkdir"}),
         moved  |-> <<>>]

NoMove == <<"no move">>

LongestMovedPrefix(moved, p) ==
    LET keys == {k \in DOMAIN moved : IsPrefix(k, p)}
    IN  IF keys = {} THEN NoMove
        ELSE CHOOSE k \in keys : \A j \in keys : Len(j) <= Len(k)

\* hops[n] is p after n moved-prefix translations; a translation that would
\* revisit a path stops the chase.
Hops(moved, p) ==
    LET last == Cardinality(DOMAIN moved) + 1
        hops[n \in 0 .. last] ==
            IF n = 0 THEN p
            ELSE LET cur  == hops[n - 1]
                     key  == LongestMovedPrefix(moved, cur)
                     next == RemapPath(key, moved[key], cur)
                 IN  IF key = NoMove THEN cur
                     ELSE IF \E i \in 0 .. n - 1 : hops[i] = next THEN cur
                     ELSE next
    IN  hops

TranslateForward(moved, p) ==
    Hops(moved, p)[Cardinality(DOMAIN moved) + 1]

\* A reference to state that existed before the batch: the literal path when
\* something lives there, else the first translation that lands on something.
ResolveLive(plan, t, p) ==
    LET hops    == Hops(plan.moved, p)
        landing == {n \in DOMAIN hops : Live(t, hops[n])}
    IN  IF Live(t, p) \/ landing = {} THEN p
        ELSE hops[CHOOSE n \in landing : \A m \in landing : n <= m]

LiveRemovals(plan) == {TranslateForward(plan.moved, r) : r \in plan.doomed}

-----------------------------------------------------------------------------
(* One handler per operation class; each takes and returns [t, plan].      *)

\* A put is literal; an attribute change refers to existing state.  Both bring
\* the catalog record of the chunk they reference.
ApplyFileState(r, op) ==
    LET p == IF op.kind = "put" THEN op.path ELSE ResolveLive(r.plan, r.t, op.path)
    IN  [r EXCEPT !.t = IF op.kind = "setdir"
                        THEN WriteDir(EnsureParent(@, p), p, op.val)
                        ELSE Record(WriteFile(EnsureParent(@, p), p, op.val), op.val)]

ApplyMkdir(r, op) ==
    [r EXCEPT !.t = WriteDir(EnsureParent(@, op.path), op.path, op.val)]

ApplyDeleteFile(r, op) ==
    [r EXCEPT !.t = DropFile(@, ResolveLive(r.plan, @, op.path))]

\* Skipped when a child survives that the batch does not remove.
ApplyRmdir(r, op) ==
    LET p == ResolveLive(r.plan, r.t, op.path)
    IN  IF ChildrenOf(r.t, p) \subseteq LiveRemovals(r.plan)
        THEN [r EXCEPT !.t = DropDir(@, p)]
        ELSE r

\* The renamed file's chunk records stay in the operation.
ApplyFileRename(r, op) ==
    LET from == ResolveLive(r.plan, r.t, op.path)
    IN  [r EXCEPT !.t = WriteFile(EnsureParent(DropFile(@, from), op.to), op.to, op.val)]

\* Move exactly the listed members that are still there.
MoveMembers(t, from, to, ids) ==
    LET dst(m)    == RemapPath(from, to, m)
        moving    == {m \in ids : dst(m) # m /\ Live(t, m)}
        movedF    == moving \cap DOMAIN t.files
        movedD    == moving \ movedF
        landF     == {dst(m) : m \in movedF}
        landD     == {dst(m) : m \in movedD}
        source(q) == CHOOSE m \in moving : dst(m) = q
    IN  [t EXCEPT !.files = [q \in landF |-> t.files[source(q)]] @@ Restrict(@, DOMAIN @ \ movedF),
                  !.dirs  = [q \in landD |-> t.dirs[source(q)]] @@ Restrict(@, DOMAIN @ \ movedD)]

\* Mutant: the recorded source always stays.
DirRenameKeepsSource(r, op) ==
    LET from == ResolveLive(r.plan, r.t, op.path)
        t1   == MoveMembers(r.t, from, op.to, op.ids)
    IN  [t    |-> WriteDir(EnsureParent(t1, op.to), op.to, op.val),
         plan |-> [r.plan EXCEPT !.moved = (op.path :> op.to) @@ @]]

\* The target takes the recorded directory; the recorded source goes unless
\* the batch also makes it or something lives beneath it.
ApplyDirRename(r, op) ==
    LET from    == ResolveLive(r.plan, r.t, op.path)
        existed == from \in DOMAIN r.t.dirs
        t1      == MoveMembers(r.t, from, op.to, op.ids)
        t2      == WriteDir(EnsureParent(t1, op.to), op.to, op.val)
        kept    == \/ op.path \in r.plan.mkdirs
                   \/ \E q \in DOMAIN t2.files \cup DOMAIN t2.dirs : Beneath(op.path, q)
    IN  [t    |-> IF kept THEN t2 ELSE DropDir(t2, op.path),
         plan |-> IF existed
                  THEN [r.plan EXCEPT !.moved = (op.path :> op.to) @@ @]
                  ELSE r.plan]

\* A prune spares what a file of the target tree references.
ApplyCatalog(r, op) ==
    CASE op.kind = "prune"   -> [r EXCEPT !.t.chunks = @ \ (op.ids \ Referenced(r.t))]
      [] op.kind = "release" -> [r EXCEPT !.t.tags = IF op.val.id = 1 THEN @ \cup {op.path}
                                                     ELSE @ \ {op.path}]

ApplyOneOp(r, op) ==
    CASE op.kind \in {"put", "setattr", "setdir"} -> ApplyFileState(r, op)
      [] op.kind = "mkdir"   -> ApplyMkdir(r, op)
      [] op.kind = "del"     -> ApplyDeleteFile(r, op)
      [] op.kind = "rmdir"   -> ApplyRmdir(r, op)
      [] op.kind = "rename"  -> ApplyFileRename(r, op)
      [] op.kind = "rendir"  -> ApplyDirRename(r, op)
      [] op.kind \in {"prune", "release"} -> ApplyCatalog(r, op)

\* applyOps: replay a batch in order on one plan.
ApplyOps(t, ops) ==
    FoldLeft(ApplyOneOp, [t |-> t, plan |-> NewPlan(ops)], ops).t
=============================================================================
