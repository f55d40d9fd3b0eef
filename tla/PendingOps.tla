----------------------------- MODULE PendingOps -----------------------------
(***************************************************************************)
(* One project of one hub: every acknowledged mutation is applied to the   *)
(* live tree, appended to the pending stack (OpStack) and logged as one    *)
(* delta line per operation in the crash journal.  A commit freezes the    *)
(* stack, publishes the frozen tree and, on success, drops exactly the     *)
(* published operations and rewrites the journal.  A crash loses the live  *)
(* tree and the stack; the next load folds the journal and replays it onto *)
(* the last published tree (Replay).                                       *)
(*                                                                         *)
(* No other writer touches the remote here: module CommitPipeline is the   *)
(* one where several hubs race.                                            *)
(***************************************************************************)
EXTENDS Replay

CONSTANT Scopes   \* the instances explored, one chosen by Init; each is a record

AllVerbs == {"create", "upload", "chmod", "unlink", "mkdir", "rmdir",
             "renameFile", "renameDir", "prune", "release"}

(* The fields of a scope:                                                  *)
(*   files, dirs, tags  the paths files and directories may be created at  *)
(*                      or renamed to, and the release tags                *)
(*   moves              the directory renames to explore, as <<from, to>>  *)
(*   tree               the tree of the last commit before the model starts*)
(*   verbs              the enabled mutations                              *)
(*   clock              bound on the clock, which ticks with each mutation *)
(*   commits, crashes   bounds on commits started and on crashes           *)
(*   lines              journal cap in lines: crossing it compacts         *)
(*   late               may a crash fall between a landing and its         *)
(*                      truncation?                                        *)
ASSUME ScopesAssumption ==
    \A sc \in Scopes :
        /\ sc.verbs \subseteq AllVerbs
        /\ sc.files \cap sc.dirs = {} /\ <<>> \notin sc.files \cup sc.dirs
        /\ sc.moves \subseteq sc.dirs \X sc.dirs
        /\ {sc.clock, sc.commits, sc.crashes, sc.lines} \subseteq Nat
        /\ sc.late \in BOOLEAN

VARIABLES
    scope,     \* the instance explored; never changes
    live,      \* the in-memory tree every reader sees (pm.meta)
    stack,     \* the pending operations (pm.opStack)
    journal,   \* the lines of the crash journal
    base,      \* the tree the remote holds
    flight,    \* the commit in progress, or NoFlight
    clock, commits, crashes

vars == <<scope, live, stack, journal, base, flight, clock, commits, crashes>>

NoFlight == [tree |-> scope.tree, opSeq |-> 0, landed |-> FALSE, open |-> FALSE]

Init ==
    /\ scope \in Scopes
    /\ live = scope.tree
    /\ base = scope.tree
    /\ stack = Empty
    /\ journal = <<>>
    /\ flight = NoFlight
    /\ clock = 1
    /\ commits = 0
    /\ crashes = 0

-----------------------------------------------------------------------------
(* Mutations.  Each one edits a private copy of the live tree, publishes   *)
(* it and appends the operations that describe it, under pm.mu: one step.  *)

\* One logged append; crossing the journal cap rewrites the journal to the
\* folded survivors.
LogLine(lines, d) ==
    [s |-> d.s, j |-> IF Len(lines) + 1 >= scope.lines THEN d.s.ops ELSE Append(lines, d.line)]
Log(r, op) == LogLine(r.j, AppendWithDelta(r.s, op))

Logged(r) == stack' = r.s /\ journal' = r.j

Publish(tree, ops) ==
    /\ live' = tree
    /\ Logged(FoldLeft(Log, [s |-> stack, j |-> journal], ops))
    /\ clock' = clock + 1
    /\ UNCHANGED <<scope, base, flight, commits, crashes>>

May(verb) == verb \in scope.verbs /\ clock < scope.clock

Stamp == [id |-> 0, mode |-> 0, at |-> clock]
Now(e) == [e EXCEPT !.at = clock]

\* Both ends of a namespace change touch the parent directory's times.
Touch(t, p) == [t EXCEPT !.dirs[Parent(p)] = Now(@)]

\* The two paths that bypass the transaction funnel (upload, unlink) log the
\* parent's record after the file's own operation; the funnel ignores a
\* change of times and logs nothing.
ParentOp(t, p) == Op("setdir", Parent(p), NoKey, t.dirs[Parent(p)], {})

CreateFile(p) ==
    LET entry == [id |-> 0, mode |-> clock, at |-> clock]
    IN  /\ May("create")
        /\ ~Live(live, p)
        /\ Parent(p) \in DOMAIN live.dirs
        /\ Publish(Touch(WriteFile(live, p, entry), p),
                  <<Op("put", p, NoKey, entry, {})>>)

\* Upload or replace: new bytes, hence a new chunk.
Upload(p) ==
    LET entry == [id   |-> clock,
                  mode |-> IF p \in DOMAIN live.files THEN live.files[p].mode ELSE clock,
                  at   |-> clock]
        tree  == Touch(Record(WriteFile(live, p, entry), entry), p)
    IN  /\ May("upload")
        /\ p \notin DOMAIN live.dirs
        /\ Parent(p) \in DOMAIN live.dirs
        /\ Publish(tree, <<Op("put", p, NoKey, entry, {}), ParentOp(tree, p)>>)

Chmod(p) ==
    /\ May("chmod")
    /\ \/ LET entry == [live.files[p] EXCEPT !.mode = clock, !.at = clock]
          IN  /\ p \in DOMAIN live.files
              /\ Publish(WriteFile(live, p, entry),
                        <<Op("setattr", p, NoKey, entry, {})>>)
       \/ LET entry == [live.dirs[p] EXCEPT !.mode = clock, !.at = clock]
          IN  /\ p \in DOMAIN live.dirs
              /\ Publish(WriteDir(live, p, entry),
                        <<Op("setdir", p, NoKey, entry, {})>>)

Unlink(p) ==
    LET tree == Touch(DropFile(live, p), p)
    IN  /\ May("unlink")
        /\ p \in DOMAIN live.files
        /\ Publish(tree, <<Op("del", p, NoKey, Stamp, {}), ParentOp(tree, p)>>)

Mkdir(p) ==
    LET entry == [id |-> clock, mode |-> clock, at |-> clock]
    IN  /\ May("mkdir")
        /\ ~Live(live, p)
        /\ Parent(p) \in DOMAIN live.dirs
        /\ Publish(Touch(WriteDir(live, p, entry), p),
                  <<Op("mkdir", p, NoKey, entry, {})>>)

Rmdir(p) ==
    /\ May("rmdir")
    /\ p \in DOMAIN live.dirs
    /\ ChildrenOf(live, p) = {}
    /\ Publish(Touch(DropDir(live, p), p), <<Op("rmdir", p, NoKey, Stamp, {})>>)

\* The funnel pairs a removed and an added path by inode into one rename; a
\* file that replaces another has no added path and logs a delete and a put.
RenameFile(p, q) ==
    LET entry == Now(live.files[p])
        tree  == Touch(Touch(WriteFile(DropFile(live, p), q, entry), p), q)
    IN  /\ May("renameFile")
        /\ p # q
        /\ p \in DOMAIN live.files
        /\ q \notin DOMAIN live.dirs
        /\ Parent(q) \in DOMAIN live.dirs
        /\ Publish(tree, IF q \in DOMAIN live.files
                        THEN <<Op("del", p, NoKey, Stamp, {}),
                               Op("put", q, NoKey, entry, {})>>
                        ELSE <<Op("rename", p, q, entry, {})>>)

\* Every member moves with a rename of its own, in map order.  A directory that
\* replaces an empty one logs rmdir and mkdir: its target was neither added nor
\* removed.
RenameDir(p, q) ==
    LET to(m)   == RemapPath(p, q, m)
        filesIn == {m \in DOMAIN live.files : Beneath(p, m)}
        dirsIn  == {m \in DOMAIN live.dirs : Beneath(p, m)}
        moved   == MoveMembers([live EXCEPT !.dirs = Restrict(@, DOMAIN @ \ {q})],
                               p, q, {p} \cup filesIn \cup dirsIn)
        stamped == [moved EXCEPT
                     !.files = [m \in DOMAIN @ |-> IF Beneath(q, m) THEN Now(@[m]) ELSE @[m]],
                     !.dirs  = [m \in DOMAIN @ |-> IF IsPrefix(q, m) THEN Now(@[m]) ELSE @[m]]]
        tree    == Touch(Touch(stamped, p), q)
        replacing == IF q \in DOMAIN live.dirs THEN {p} ELSE {}
        fileOp(m) == Op("rename", m, to(m), tree.files[to(m)], {})
        dirOp(m)  == Op("rendir", m, to(m), tree.dirs[to(m)],
                        {n \in filesIn \cup dirsIn : Beneath(m, n)})
    IN  /\ May("renameDir")
        /\ p \in DOMAIN live.dirs
        /\ q \notin DOMAIN live.files
        /\ ~IsPrefix(p, q)
        /\ Parent(q) \in DOMAIN live.dirs
        /\ ChildrenOf(live, q) = {}
        /\ \E fs \in SetToSeqs(filesIn), ds \in SetToSeqs(dirsIn \cup ({p} \ replacing)) :
              Publish(tree, [i \in DOMAIN fs |-> fileOp(fs[i])] \o
                           [i \in DOMAIN ds |-> dirOp(ds[i])] \o
                           (IF replacing = {} THEN <<>>
                            ELSE <<Op("rmdir", p, NoKey, Stamp, {}),
                                   Op("mkdir", q, NoKey, tree.dirs[q], {})>>))

\* CompactOrphanChunks: drop the catalog records that neither a live file nor a
\* pending operation references.
CarriesChunks(op) == op.kind \in {"put", "setattr", "rename"}
Roots == Referenced(live) \cup
         UNION {ChunksOf(stack.ops[i].val) :
                   i \in {j \in DOMAIN stack.ops : CarriesChunks(stack.ops[j])}}

Prune ==
    LET orphans == live.chunks \ Roots
    IN  /\ May("prune")
        /\ orphans # {}
        /\ Publish([live EXCEPT !.chunks = @ \ orphans],
                  <<Op("prune", NoKey, NoKey, Stamp, orphans)>>)

\* Creating and removing a release in the catalog.
Release(tag) ==
    LET had  == tag \in live.tags
        flag == [Stamp EXCEPT !.id = IF had THEN 0 ELSE 1]
    IN  /\ May("release")
        /\ Publish([live EXCEPT !.tags = IF had THEN @ \ {tag} ELSE @ \cup {tag}],
                  <<Op("release", tag, NoKey, flag, {})>>)

-----------------------------------------------------------------------------
(* Commit, failure and crash.                                              *)

\* freezeCommitBatch, under pm.mu: nothing to do when clean.
FreezeBatch ==
    /\ ~flight.open
    /\ stack.ops # <<>>
    /\ commits < scope.commits
    /\ commits' = commits + 1
    /\ flight' = [tree |-> live, opSeq |-> stack.seq, landed |-> FALSE, open |-> TRUE]
    /\ stack' = Freeze(stack)
    /\ UNCHANGED <<scope, live, journal, base, clock, crashes>>

\* The manifest CAS succeeds: the remote holds the frozen tree.
Land ==
    /\ flight.open /\ ~flight.landed
    /\ base' = flight.tree
    /\ flight' = [flight EXCEPT !.landed = TRUE]
    /\ UNCHANGED <<scope, live, stack, journal, clock, commits, crashes>>

\* The push fails: the frozen operations stay, there is no mark to undo.
CommitFail ==
    /\ flight.open /\ ~flight.landed
    /\ flight' = NoFlight
    /\ UNCHANGED <<scope, live, stack, journal, base, clock, commits, crashes>>

\* Mutant: a landed commit truncates the journal altogether.
ApplyBackTruncates ==
    /\ flight.open /\ flight.landed
    /\ stack' = ClearUpTo(stack, flight.opSeq)
    /\ journal' = <<>>
    /\ flight' = NoFlight
    /\ UNCHANGED <<scope, live, base, clock, commits, crashes>>

\* applyCommittedTree: drop the published operations, keep the survivors, and
\* rewrite the journal to them.  The live tree already has their effects.
ApplyBack ==
    /\ flight.open /\ flight.landed
    /\ stack' = ClearUpTo(stack, flight.opSeq)
    /\ journal' = stack'.ops
    /\ flight' = NoFlight
    /\ UNCHANGED <<scope, live, base, clock, commits, crashes>>

\* dropSupersededOps: an operation older than the entry it targets is stale.
Superseded(t, op) ==
    LET newer(entries, p) == p \in DOMAIN entries /\ entries[p].at > op.val.at
    IN  CASE op.kind \in {"mkdir", "setdir"} -> op.path # <<>> /\ newer(t.dirs, op.path)
          [] op.kind \in {"put", "setattr", "del", "rmdir"} -> newer(t.files, op.path)
          [] op.kind = "rename" -> newer(t.files, op.to)
          [] op.kind = "rendir" -> newer(t.dirs, op.to)
          [] OTHER -> FALSE

\* journalReplayForLoad: what a cold load makes of a journal.
Recoverable(t, lines) ==
    SelectSeq(FoldLines(lines).ops, LAMBDA op : ~Superseded(t, op))

\* The process dies; the next load reads the remote tree and the journal.
Load(ops) ==
    /\ live' = ApplyOps(base, ops)
    /\ stack' = Hydrate(ops)
    /\ journal' = IF ops = <<>> THEN <<>> ELSE journal

CrashAndRecover ==
    /\ crashes < scope.crashes
    /\ flight.landed => scope.late
    /\ crashes' = crashes + 1
    /\ Load(Recoverable(base, journal))
    /\ flight' = NoFlight
    /\ UNCHANGED <<scope, base, clock, commits>>

Next ==
    \/ \E p \in scope.files : CreateFile(p)
    \/ \E p \in scope.files : Upload(p)
    \/ \E p \in scope.files : Unlink(p)
    \/ \E p \in scope.files \cup scope.dirs : Chmod(p)
    \/ \E p \in scope.dirs : Mkdir(p)
    \/ \E p \in scope.dirs : Rmdir(p)
    \/ \E p, q \in scope.files : RenameFile(p, q)
    \/ \E m \in scope.moves : RenameDir(m[1], m[2])
    \/ Prune
    \/ \E tag \in scope.tags : Release(tag)
    \/ FreezeBatch \/ Land \/ CommitFail \/ ApplyBack
    \/ CrashAndRecover

Spec == Init /\ [][Next]_vars

-----------------------------------------------------------------------------
(* Properties.                                                             *)

TypeOK ==
    /\ \A p \in DOMAIN live.files \cup (DOMAIN live.dirs \ {<<>>}) :
          Parent(p) \in DOMAIN live.dirs
    /\ DOMAIN live.files \cap DOMAIN live.dirs = {}
    /\ \A i \in DOMAIN stack.ops : stack.ops[i].kind \in Kinds
    /\ clock \in 1 .. scope.clock /\ commits \in 0 .. scope.commits
    /\ crashes \in 0 .. scope.crashes

\* Two trees a reader cannot tell apart, times aside.
SameEntries(f, g) ==
    /\ DOMAIN f = DOMAIN g
    /\ \A p \in DOMAIN f : f[p].id = g[p].id /\ f[p].mode = g[p].mode
SameTree(s, t) ==
    SameEntries(s.files, t.files) /\ SameEntries(s.dirs, t.dirs) /\ s.tags = t.tags

\* The coalescing indexes are maintained by shifting while entries are
\* removed from the middle; an append trusts them.  Every operation with a key
\* is found under it, the merge candidate for a rename or a delete is exactly a
\* newest rename to that path in the open generation, and the byte total is
\* the sum over the stack (ops_stack.go append, removeAt, clearUpTo).
IndexesExact ==
    LET at(k)  == {i \in DOMAIN stack.ops : Key(stack.ops[i]) = k}
        keys   == {Key(stack.ops[i]) : i \in DOMAIN stack.ops} \ {NoKey}
        newest == IF stack.ops = <<>> THEN NoKey
                  ELSE IF Last(stack.ops).kind \in RenameClass /\ Last(stack.ops).gen = stack.gen
                       THEN Last(stack.ops).to ELSE NoKey
    IN  /\ DOMAIN stack.byPath = keys
        /\ \A k \in keys : at(k) = {stack.byPath[k]}
        /\ \A p \in scope.files \cup scope.dirs : AdjacentRename(stack, p) <=> p = newest
        /\ {i \in DOMAIN stack.ops : stack.ops[i].kind = "prune"} =
              (IF stack.pruneIdx = 0 THEN {} ELSE {stack.pruneIdx})
        /\ stack.bytes = FoldLeft(LAMBDA n, op : n + Weight(op), 0, stack.ops)

\* Batches without a rename.  With one, recovery and the acknowledged tree can
\* part ways; the README lists the sequences, and the properties below that say
\* how are the ones they violate.
Steady == scope.verbs \cap {"renameFile", "renameDir"} = {}

Recovered    == ApplyOps(base, Recoverable(base, journal))
RecoversLive == SameTree(live, Recovered)

\* A crash at an instant when nothing published is still journalled recovers,
\* unless something was renamed,
\* exactly the tree that was acknowledged, whatever was coalesced, compacted,
\* frozen, failed to publish or already recovered before it.
CrashSafe == Steady /\ ~flight.landed => RecoversLive

\* So does a crash between the landing of a commit and the truncation of its
\* journal: the published operations are replayed a second time (ops.go: "a
\* journal replayed after a crash that landed between commit and journal
\* truncation re-applies harmlessly").
ReplayHarmless == Steady /\ flight.landed => RecoversLive

(* The ways recovery can differ from what was acknowledged, one by one      *)
(* (ops_replay.go: replay must converge to the same final tree).            *)

\* Recovery loses no directory a reader could see.
NoDirectoryLost == DOMAIN live.dirs \subseteq DOMAIN Recovered.dirs

\* Recovery brings back no directory that was renamed away or removed.
NoPhantomDirectory == DOMAIN Recovered.dirs \subseteq DOMAIN live.dirs

\* Recovery loses no file a reader could see.
NoFileLost == DOMAIN live.files \subseteq DOMAIN Recovered.files

\* Recovery brings back no file that was renamed away or deleted.
NoPhantomFile == DOMAIN Recovered.files \subseteq DOMAIN live.files

\* A recovered directory keeps its own record (inode), not another one's.
DirectoryIdentityKept ==
    \A p \in DOMAIN live.dirs \cap DOMAIN Recovered.dirs :
        Recovered.dirs[p].id = live.dirs[p].id

\* The pending stack replayed onto the remote tree is the live tree: what a
\* rebase onto an unchanged upstream would publish is what readers see.
ReplayEquivalent == SameTree(live, ApplyOps(base, stack.ops))

\* When the frozen tree lands, the operations that survive the clear carry
\* everything acknowledged since the freeze, and nothing the freeze held is
\* needed again (applyCommittedTree's third branch keeps the live tree).
SurvivorsCarryTheRest ==
    flight.open =>
        SameTree(live, ApplyOps(flight.tree, ClearUpTo(stack, flight.opSeq).ops))

\* Folding the journal reproduces the live stack, operation by operation and
\* generation by generation, through freezes, failed commits and compactions
\* (ops_replay.go foldOps: "exactly the stack the crashed process held").
FoldMatchesStack ==
    LET shape(op) == [op EXCEPT !.seq = 0]
        fold      == FoldLines(journal).ops
    IN  Steady =>
        /\ Len(fold) = Len(stack.ops)
        /\ \A i \in DOMAIN fold : shape(fold[i]) = shape(stack.ops[i])

\* Every chunk a recovered file references has a catalog record
\* (validate.go rejects a tree where one is missing).
NoDanglingChunk ==
    Steady => Referenced(Recovered) \subseteq Recovered.chunks

\* The stack and its indexes agree (ops_stack.go).
StackExact == TypeOK /\ IndexesExact

\* Unless something was renamed, a crash at any instant rebuilds what was
\* acknowledged, from a journal that folds to the stack (ops_replay.go).
RecoveryExact == CrashSafe /\ ReplayHarmless /\ FoldMatchesStack /\ NoDanglingChunk

=============================================================================
