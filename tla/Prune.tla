------------------------------- MODULE Prune -------------------------------
(***************************************************************************)
(* Prune: reclaim index objects, history, assets and chunk records that     *)
(* nothing refers to (storage/prune.go, cleanup_purge.go,                  *)
(* cleanup_chunkgc.go), next to the verbs of AssetPool, the commits of     *)
(* IndexStore and another hub.                                             *)
(*                                                                         *)
(* A prune holds the project's fence, which admission consults, and starts *)
(* on a clean project.  It lists first and deletes afterwards, checking    *)
(* each asset again just before; the fence is let go for the transaction   *)
(* that drops the records, because that is itself a mutation.              *)
(*                                                                         *)
(* Windows (constant Races) in which the code's checks do not suffice:     *)
(*   admitted     a verb admitted before the prune began goes on           *)
(*   gap          the index changes between an asset's check and its       *)
(*                deletion                                                 *)
(*   stale        it changes between the load a check rests on and the     *)
(*                version recorded for that load                           *)
(*   lateList     git: the other hub commits between the reading of the    *)
(*                references and the listing                               *)
(*   lateHead     git: ... between the listing and the head the delete     *)
(*                commit compares                                          *)
(*   foreign      REST: the other hub commits during an objects prune      *)
(*   foreignCache the other hub's cache holds what the prune deleted       *)
(*   lost         an object is deleted but the reply is lost, so that the  *)
(*                cache keeps it                                           *)
(***************************************************************************)
EXTENDS AssetPool

CONSTANTS
    Pruners,  \* calls of PruneReq
    Cases     \* the scenes

ASSUME PruneAssumption ==
    /\ Pruners \subseteq Owners \ {"free"}
    /\ \A s \in Cases : s.scopes \in [Pruners -> {"none", "all", "history", "objects", "assets", "chunks"}]

VARIABLES pr  \* pruner -> where it stands

vars == <<scene, storeVars, poolVars, pr>>

Waiting == [pc |-> "idle", held |-> FALSE, todo |-> <<>>, kept |-> {}, base |-> 0,
            tasks |-> {}, cut |-> FALSE, refs |-> {}, orphans |-> {}, head |-> 0, ok |-> FALSE]
In(q, pc) == pr[q].pc = pc
Now(q, r) == pr' = [pr EXCEPT ![q] = r]
Move(q, pc) == Now(q, [pr[q] EXCEPT !.pc = pc])

Scopes(s) == IF s = "all" THEN <<"history", "objects", "assets">> ELSE <<s>>
FirstStep == [history |-> "revisions", objects |-> "refs", assets |-> "load", chunks |-> "scan"]

\* The deferred release lets go of the fence this call holds, no other.
Released(q) == IF pr[q].held THEN "free" ELSE fence
\* Mutant: only the successful end lets go of the fence.
QuitsHolding(q, ok) ==
    /\ Now(q, [Waiting EXCEPT !.pc = IF ok THEN "done" ELSE "failed", !.ok = ok, !.cut = pr[q].cut])
    /\ fence' = IF ok THEN Released(q) ELSE fence
Quits(q, ok) ==
    /\ Now(q, [Waiting EXCEPT !.pc = IF ok THEN "done" ELSE "failed", !.ok = ok, !.cut = pr[q].cut])
    /\ fence' = Released(q)
StageEnds(q) ==
    IF Len(pr[q].todo) = 1 THEN Quits(q, TRUE)
    ELSE /\ Now(q, [pr[q] EXCEPT !.todo = Tail(@), !.pc = FirstStep[pr[q].todo[2]]])
         /\ UNCHANGED fence

\* Only a chunks prune may run on uncommitted state.
CleanEnough(q) == ~dirty \/ scene.scopes[q] = "chunks"

Start(q) ==
    /\ In(q, "idle") /\ scene.scopes[q] # "none"
    /\ IF fence = "free" /\ CleanEnough(q)
       THEN LET stages == Scopes(scene.scopes[q])
            IN  /\ fence' = q
                /\ Now(q, [Waiting EXCEPT !.pc = FirstStep[stages[1]], !.held = TRUE, !.todo = stages])
       ELSE Move(q, "refused") /\ UNCHANGED fence
    /\ UNCHANGED <<scene, storeVars, pool, listed, latched, up>>

-----------------------------------------------------------------------------
(* Assets.  Tracked is what the loaded index refers to: the chunks of live  *)
(* files, their releases, and the releases of the catalog.                 *)

TrackedAssets(t) == Live(t) \cap DOMAIN t.chunks
TrackedReleases(t) == t.rels \cup {t.chunks[a] : a \in TrackedAssets(t)}
Tracked(t) == {<<"release", r>> : r \in TrackedReleases(t)} \cup {<<"asset", a>> : a \in TrackedAssets(t)}

\* Untracked releases, unless they are empty, and untracked assets of the rest.
Untracked(tracked) ==
    LET gone == {r \in DOMAIN pool : <<"release", r>> \notin tracked}
    IN  {<<"release", r>> : r \in {x \in gone : pool[x] # {}}}
        \cup {<<"asset", a>> : a \in {x \in UNION {pool[r] : r \in DOMAIN pool \ gone} :
                                        <<"asset", x>> \notin tracked}}

AssetsLoad(q) ==
    /\ In(q, "load")
    /\ IF dirty THEN Quits(q, FALSE) /\ UNCHANGED <<project, known, seen>>
       ELSE /\ FreshLoad
            /\ Now(q, [pr[q] EXCEPT !.pc = "list", !.kept = Tracked(HeadTree)])
            /\ UNCHANGED fence
    /\ UNCHANGED <<scene, left, remote, commit, answer, streak, pool, listed, latched, up>>

AssetsList(q) ==
    /\ In(q, "list")
    /\ listed' = pool
    /\ Now(q, [pr[q] EXCEPT !.pc = "check", !.tasks = Untracked(pr[q].kept),
                            !.cut = Untracked(pr[q].kept) # {}, !.base = 0])
    /\ UNCHANGED <<scene, storeVars, pool, latched, fence, up>>

\* Releases go first.
NextTask(q) ==
    LET T == pr[q].tasks
        R == {t \in T : t[1] = "release"}
    IN  CHOOSE t \in T : R = {} \/ t \in R
Judged(q, base) ==
    LET t == NextTask(q)
    IN  [pr[q] EXCEPT !.base = base,
                      !.pc = IF t \in pr[q].kept THEN "check" ELSE "delete",
                      !.tasks = IF t \in pr[q].kept THEN @ \ {t} ELSE @]

\* A check rests on the last load as long as the version is that load's; a
\* load and the reading of its version are two steps.
\* Mutant: the first load serves every check.
LoadedOnce(q) == pr[q].base # 0
UpToDate(q) == pr[q].base = version

Check(q) ==
    /\ In(q, "check") /\ pr[q].tasks # {}
    /\ IF UpToDate(q)
       THEN Now(q, Judged(q, pr[q].base)) /\ UNCHANGED <<project, known, seen>>
       ELSE FreshLoad /\ Now(q, [pr[q] EXCEPT !.pc = "version", !.kept = Tracked(HeadTree)])
    /\ UNCHANGED <<scene, left, remote, commit, answer, streak, poolVars>>

ReadVersion(q) ==
    /\ In(q, "version")
    /\ Now(q, Judged(q, version))
    /\ UNCHANGED <<scene, storeVars, poolVars>>

\* One deletion; any failure, a missing release or asset included, ends the
\* prune.
Held(task) == IF task[1] = "release" THEN task[2] \in DOMAIN pool ELSE task[2] \in Stored
PoolWithout(task) ==
    IF task[1] = "release" THEN Without(pool, {task[2]})
    ELSE [r \in DOMAIN pool |-> pool[r] \ {task[2]}]

Delete(q) ==
    /\ In(q, "delete")
    /\ LET task == NextTask(q)
       IN  IF Held(task)
           THEN /\ pool' = PoolWithout(task)
                /\ listed' = Unlisted
                /\ Now(q, [pr[q] EXCEPT !.pc = "check", !.tasks = @ \ {task}])
                /\ UNCHANGED fence
           ELSE Quits(q, FALSE) /\ UNCHANGED <<pool, listed>>
    /\ UNCHANGED <<scene, storeVars, latched, up>>

DeleteFails(q) ==
    /\ In(q, "delete") /\ left.faults > 0
    /\ left' = [left EXCEPT !.faults = @ - 1]
    /\ pool' \in {pool, PoolWithout(NextTask(q))}
    /\ Quits(q, FALSE)
    /\ UNCHANGED <<scene, remote, known, project, seen, commit, answer, streak, listed, latched, up>>

-----------------------------------------------------------------------------
(* The tail, unfenced: drop the records nothing refers to, and commit.      *)

DropFence(q) ==
    /\ In(q, "check") /\ pr[q].tasks = {}
    /\ fence' = Released(q)
    /\ Now(q, [pr[q] EXCEPT !.held = FALSE, !.pc = IF pr[q].cut THEN "tail" ELSE "probe"])
    /\ UNCHANGED <<scene, storeVars, pool, listed, latched, up>>

Probe(q) ==
    /\ In(q, "probe")
    /\ FreshLoad
    /\ Now(q, [pr[q] EXCEPT !.pc = IF DOMAIN HeadTree.chunks \subseteq Live(HeadTree) THEN "rehold" ELSE "tail",
                            !.ok = DOMAIN HeadTree.chunks \subseteq Live(HeadTree)])
    /\ UNCHANGED <<scene, left, remote, commit, answer, streak, poolVars>>

\* The scan of a chunks prune only counts.  A live session ends it.
Scan(q) ==
    /\ In(q, "scan")
    /\ fence' = Released(q)
    /\ Now(q, [pr[q] EXCEPT !.held = FALSE, !.pc = IF scene.session THEN "rehold" ELSE "pending"])
    /\ UNCHANGED <<scene, storeVars, pool, listed, latched, up>>

\* The chunks the pending operations carry are read before the transaction.
PendingChunks == UNION {DOMAIN pend[i].recs : i \in {j \in 1..Len(pend) : pend[j].kind = "put"}}
Pending(q) ==
    /\ In(q, "pending")
    /\ Now(q, [pr[q] EXCEPT !.pc = "tail", !.refs = PendingChunks])
    /\ UNCHANGED <<scene, storeVars, poolVars>>

TailAdmitted(q) ==
    /\ In(q, "tail")
    /\ Latches
    /\ Move(q, IF Admission = "ok" THEN "txn" ELSE "rehold")
    /\ UNCHANGED <<scene, storeVars, pool, listed, fence, up>>

\* What the transaction drops, by the tree it works on.
Chunks(q) == scene.scopes[q] = "chunks"
Dead(q, t) == DOMAIN t.chunks \ (Live(t) \cup IF Chunks(q) THEN pr[q].refs ELSE {})

Transact(q) ==
    /\ In(q, "txn")
    /\ LET op == [kind |-> "gc", ids |-> Dead(q, tree)]
       IN  IF op.ids = {}
           THEN IF Chunks(q) THEN UNCHANGED project
                ELSE dirty' = TRUE /\ version' = version + 1 /\ UNCHANGED <<tree, pend, sha>>
           ELSE Publish([tree EXCEPT !.chunks = Without(@, op.ids)], op)
    /\ Now(q, [pr[q] EXCEPT !.pc = IF Chunks(q) THEN "rehold" ELSE "flush", !.ok = Chunks(q)])
    /\ UNCHANGED <<scene, left, remote, known, seen, commit, answer, streak, poolVars>>

Flush(q) ==
    /\ In(q, "flush") /\ commit.pc = "idle"
    /\ IF dirty THEN CommitFreeze(q) /\ Move(q, "flushing")
       ELSE Now(q, [pr[q] EXCEPT !.pc = "rehold", !.ok = TRUE]) /\ UNCHANGED <<scene, storeVars>>
    /\ UNCHANGED poolVars

Flushed(q) ==
    /\ In(q, "flushing") /\ answer[q] # "none"
    /\ Now(q, [pr[q] EXCEPT !.pc = "rehold", !.ok = answer[q] = "ok"])
    /\ answer' = [answer EXCEPT ![q] = "none"]
    /\ UNCHANGED <<scene, left, remote, known, project, seen, commit, streak, poolVars>>

\* Deferred: take the fence back if it is free, then let it go.
Rehold(q) ==
    /\ In(q, "rehold")
    /\ Now(q, [pr[q] EXCEPT !.pc = "release", !.held = fence = "free"])
    /\ fence' = IF fence = "free" THEN q ELSE fence
    /\ UNCHANGED <<scene, storeVars, pool, listed, latched, up>>

Release(q) ==
    /\ In(q, "release")
    /\ Quits(q, pr[q].ok)
    /\ UNCHANGED <<scene, storeVars, pool, listed, latched, up>>

-----------------------------------------------------------------------------
(* Objects: whatever no retained revision reaches.                          *)

Referenced == UNION {Objects(t) : t \in Retained}

ObjectsRefs(q) ==
    /\ In(q, "refs")
    /\ known' = [known EXCEPT !.us = @ \cup {<<"tree", t.files>> : t \in Retained}]
    /\ seen' = tip
    /\ Now(q, [pr[q] EXCEPT !.pc = "objects", !.refs = Referenced])
    /\ UNCHANGED <<scene, left, remote, project, commit, answer, streak, poolVars>>

ObjectsList(q) ==
    /\ In(q, "objects")
    /\ seen' = tip
    /\ IF objs \subseteq pr[q].refs THEN StageEnds(q)
       ELSE /\ Now(q, [pr[q] EXCEPT !.orphans = objs \ pr[q].refs,
                                    !.pc = IF Git THEN "head" ELSE "remove"])
            /\ UNCHANGED fence
    /\ UNCHANGED <<scene, left, remote, known, project, commit, answer, streak,
                   pool, listed, latched, up>>

ReadHead(q) ==
    /\ In(q, "head")
    /\ Now(q, [pr[q] EXCEPT !.pc = "remove", !.head = seen])
    /\ UNCHANGED <<scene, storeVars, poolVars>>

\* Mutant: the cache is left as it is.
Remembers(S) == UNCHANGED known
Forgets(S) == known' = [known EXCEPT !.us = @ \ S]
HeadStands(q) == pr[q].head = tip

\* git: one commit, if the branch is still where the head was read; an object
\* is forgotten once it is gone.
RemoveByCommit(q) ==
    /\ In(q, "remove") /\ Git
    /\ IF HeadStands(q)
       THEN /\ objs' = objs \ pr[q].orphans
            /\ tip' = tip + 1 /\ seen' = tip'
            /\ Forgets(pr[q].orphans)
            /\ StageEnds(q)
       ELSE Quits(q, FALSE) /\ UNCHANGED <<objs, tip, seen, known>>
    /\ UNCHANGED <<scene, left, heads, kept, project, commit, answer, streak,
                   pool, listed, latched, up>>

\* REST: object by object; one that is gone already counts as deleted.
RemoveByObject(q) ==
    /\ In(q, "remove") /\ ~Git
    /\ LET o == CHOOSE x \in pr[q].orphans : TRUE
       IN  /\ objs' = objs \ {o}
           /\ Forgets({o})
           /\ IF pr[q].orphans = {o} THEN StageEnds(q)
              ELSE Now(q, [pr[q] EXCEPT !.orphans = @ \ {o}]) /\ UNCHANGED fence
    /\ UNCHANGED <<scene, left, heads, kept, tip, seen, project, commit, answer, streak,
                   pool, listed, latched, up>>

RemoveFails(q) ==
    /\ In(q, "remove") /\ left.faults > 0
    /\ left' = [left EXCEPT !.faults = @ - 1]
    /\ \/ UNCHANGED <<objs, tip>>
       \/ /\ Open("lost") /\ (Git => HeadStands(q))
          /\ objs' = objs \ IF Git THEN pr[q].orphans ELSE {CHOOSE x \in pr[q].orphans : TRUE}
          /\ tip' = IF Git THEN tip + 1 ELSE tip
    /\ Quits(q, FALSE)
    /\ UNCHANGED <<scene, heads, kept, known, project, seen, commit, answer, streak,
                   pool, listed, latched, up>>

-----------------------------------------------------------------------------
(* History, git only: one checkpoint commit of the tree in place of the     *)
(* revisions, if the branch has not moved.                                 *)

Revisions(q) ==
    /\ In(q, "revisions")
    /\ seen' = IF Git THEN tip ELSE seen
    /\ IF ~Git \/ Cardinality(kept..Len(heads)) = 1 THEN StageEnds(q)
       ELSE Now(q, [pr[q] EXCEPT !.pc = "squash", !.head = tip]) /\ UNCHANGED fence
    /\ UNCHANGED <<scene, left, remote, known, project, commit, answer, streak,
                   pool, listed, latched, up>>

Squash(q) ==
    /\ In(q, "squash")
    /\ IF HeadStands(q)
       THEN kept' = Len(heads) /\ tip' = tip + 1 /\ seen' = tip' /\ StageEnds(q)
       ELSE Quits(q, FALSE) /\ UNCHANGED <<kept, tip, seen>>
    /\ UNCHANGED <<scene, left, heads, objs, known, project, commit, answer, streak,
                   pool, listed, latched, up>>

PrunerStep(q) ==
    \/ AssetsLoad(q) \/ AssetsList(q) \/ Check(q) \/ ReadVersion(q) \/ Delete(q)
    \/ DropFence(q) \/ Probe(q) \/ Scan(q) \/ Pending(q) \/ TailAdmitted(q) \/ Transact(q)
    \/ Flush(q) \/ Flushed(q) \/ Rehold(q) \/ Release(q)
    \/ ObjectsRefs(q) \/ ObjectsList(q) \/ ReadHead(q) \/ RemoveByCommit(q) \/ RemoveByObject(q)
    \/ Revisions(q) \/ Squash(q)

-----------------------------------------------------------------------------
(* The other hub makes and removes a file, or rolls back to the first       *)
(* revision.                                                               *)

Between(S) == \E q \in Pruners : pr[q].pc \in S
ForeignMay ==
    IF Git THEN (Open("lateList") \/ ~Between({"objects"})) /\ (Open("lateHead") \/ ~Between({"head"}))
    ELSE Open("foreign") \/ ~Between({"objects", "remove"})

\* A verb past its admission, the tail's transaction included.
InFlight ==
    \/ \E w \in Writers : up[w].pc \in {"pick", "create", "put", "edit"}
    \/ Between({"txn"})
StartMay == Open("admitted") \/ ~InFlight
\* The index does not move between a check and its deletion.
IndexMay == (Open("gap") \/ ~Between({"delete"})) /\ (Open("stale") \/ ~Between({"version"}))

CommitStep ==
    /\ \/ CommitFreeze("loop") \/ CommitWrite \/ CommitRebase \/ CommitApply
       \/ IndexMay /\ CommitPush
    /\ UNCHANGED <<poolVars, pr>>
Writes(w) == (At(w, "roll") => IndexMay) /\ WriterStep(w) /\ UNCHANGED pr
Faults ==
    \/ CommitFails(TRUE) /\ UNCHANGED <<poolVars, pr>>
    \/ ForeignCommit(ForeignMay) /\ UNCHANGED <<poolVars, pr>>
    \/ ReEnable /\ UNCHANGED pr
    \/ \E q \in Pruners : DeleteFails(q) \/ RemoveFails(q)
Arrives(q) == StartMay /\ Start(q)

Next == CommitStep \/ Faults \/ (\E w \in Writers : Writes(w)) \/ (\E q \in Pruners : Arrives(q) \/ PrunerStep(q))

\* The first two revisions: f rewritten, its first asset left behind, as its
\* chunk record is; release 2 holds an asset nothing ever referred to.
Old(k) == <<"old", k>>
First == [files |-> ("f" :> {Old(1)}), chunks |-> (Old(1) :> 1), rels |-> {1}]
Second == [files |-> ("f" :> {Old(2)}), chunks |-> (Old(1) :> 1 @@ Old(2) :> 1), rels |-> {1}]

Init ==
    /\ scene \in Cases
    /\ left = [commits |-> scene.commits, foreign |-> scene.foreign, faults |-> scene.faults, enables |-> 1]
    /\ heads = <<First, Second>> /\ kept = 1 /\ tip = 2
    /\ objs = Objects(First) \cup Objects(Second) \cup scene.orphans
    /\ known = [us |-> Objects(Second) \cup scene.orphans, them |-> objs]
    /\ tree = Second /\ dirty = FALSE /\ version = 1 /\ pend = <<>>
    /\ sha = Token /\ seen = tip
    /\ commit = NoCommit /\ answer = [o \in Owners |-> "none"] /\ streak = 0
    /\ pool = [r \in {1, 2} |-> IF r = 1 THEN {Old(1), Old(2)} ELSE {Old(3)}]
    /\ listed = Unlisted /\ latched = FALSE /\ fence = "free"
    /\ up = [w \in Writers |-> Fresh] /\ pr = [q \in Pruners |-> Waiting]

Fairness ==
    /\ WF_vars(CommitStep)
    /\ \A w \in Writers : WF_vars(Writes(w))
    /\ \A q \in Pruners : WF_vars(PrunerStep(q))
Spec == Init /\ [][Next]_vars /\ Fairness

-----------------------------------------------------------------------------
TypeOK ==
    /\ kept \in 1..Len(heads) /\ seen \in 1..tip
    /\ DOMAIN known = Hubs /\ fence \in Pruners \cup {"free"}
    /\ answer \in [Owners -> {"none", "ok", "fail"}]
    /\ \A r \in DOMAIN pool : Cardinality(pool[r]) <= Cap
    /\ dirty \/ pend = <<>>

\* A file never refers to a chunk record that is gone: not in the live tree,
\* not in a published head, not in what a commit has built.
RecordsExact ==
    \A t \in {tree, HeadTree, commit.work} : Live(t) \subseteq DOMAIN t.chunks

\* Every object of every retained revision is in the repository.
IndexReadable == Referenced \subseteq objs

\* From its first look at the project to its last deletion, a prune has the
\* fence to itself, no admitted verb is under way, and the project is clean.
PruneAlone ==
    \A q \in Pruners :
        pr[q].pc \in {"load", "list", "check", "version", "delete", "refs", "objects",
                      "head", "remove", "revisions", "squash"}
        => fence = q /\ ~InFlight /\ ~dirty

\* A prune that reports success, with nobody else about, has reclaimed all it
\* was asked for.
Nobody(q) ==
    /\ \A w \in Writers : At(w, "idle")
    /\ \A p \in Pruners \ {q} : pr[p].pc \in {"idle", "refused"}
    /\ left.foreign = scene.foreign
Does(q, s) == scene.scopes[q] \in {s, "all"}
PruneThorough ==
    \A q \in Pruners : In(q, "done") /\ Nobody(q) =>
        /\ Does(q, "objects") => objs = Referenced
        /\ Does(q, "history") /\ Git => Cardinality({i \in kept..Len(heads) : heads[i] # HeadTree}) <= 1
        /\ Does(q, "assets") => Stored = Live(HeadTree)
        /\ Does(q, "assets") \/ Chunks(q) => DOMAIN tree.chunks = Live(tree)

\* The fence of a prune is let go, whatever becomes of the prune.
FenceFreed == \A q \in Pruners : fence = q ~> fence # q

\* Every verb ends.
VerbsEnd == \A w \in Writers : up[w].pc \notin {"idle"} ~> up[w].pc \in {"done", "failed", "refused", "loud"}

\* A prune works alone and takes no object of a revision (pruneFence,
\* pruneObjects).
PruneSafe == TypeOK /\ PruneAlone /\ IndexReadable

\* No file loses its content: neither the assets nor the records that say
\* where they are (deletePurgePlan, CompactOrphanChunks).
ContentKept == NothingDangling /\ RecordsExact

\* What nothing refers to is reclaimed, its records with it, and no failed
\* upload leaves assets behind (compensateDeleteAssets).
Reclaims == NoLeak /\ PruneThorough

\* Prunes and verbs end, and the fence with them (PruneReq).
AllEnd == FenceFreed /\ VerbsEnd

=============================================================================
