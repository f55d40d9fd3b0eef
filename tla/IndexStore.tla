----------------------------- MODULE IndexStore -----------------------------
(***************************************************************************)
(* The split index of one project: a manifest per revision over objects    *)
(* addressed by content (storage/index.go, objects.go, git_repo_write.go), *)
(* as two hubs write it.  "us" is the hub whose pruner Prune describes,    *)
(* "them" another process on the same repository.                          *)
(*                                                                         *)
(* An object is its own address: <<kind, content>>.  A hub remembers the   *)
(* objects it wrote or fetched and does not upload them again; that memory *)
(* is right only while nobody deletes what it remembers.                   *)
(***************************************************************************)
EXTENDS Naturals, Sequences, FiniteSets, SequencesExt

CONSTANTS
    Races,        \* the windows left open; see the modules that use Open
    Threshold,    \* MaxConsecutiveCommitFailures
    Owners        \* whoever may run a commit

ASSUME StoreAssumption == "loop" \in Owners /\ Threshold \in Nat

VARIABLES
    scene,        \* what happens in this behaviour: backend, plans and budgets
    left,         \* the failures and foreign commits still to come
    heads, kept,  \* every revision of the index, and the oldest retained one
    tip,          \* commits made to the branch so far
    objs,         \* the objects in the repository
    known,        \* hub -> the objects its cache holds
    tree, dirty, version,  \* the project's live tree (pm)
    pend,         \* its pending operations
    sha,          \* the token it believes the index has
    seen,         \* the commit its local clone was last reset to
    commit,       \* the commit in flight
    answer,       \* owner -> how its last commit ended
    streak        \* consecutive commit failures

remote == <<heads, kept, tip, objs>>
project == <<tree, dirty, version, pend, sha>>
storeVars == <<left, remote, known, project, seen, commit, answer, streak>>

Hubs == {"us", "them"}
Git == scene.backend = "git"
Open(r) == r \in Races
HeadTree == Last(heads)
\* What a CAS compares: the branch head with git, the manifest's blob with REST.
Token == IF Git THEN tip ELSE Len(heads)
Retained == {heads[i] : i \in kept..Len(heads)}

(* A tree: the files with the assets that hold their chunks, the catalog   *)
(* (asset -> release) and the registered releases.                         *)
Objects(t) == {<<"tree", t.files>>, <<"chunks", t.chunks>>, <<"releases", t.rels>>}
Live(t) == UNION {t.files[n] : n \in DOMAIN t.files}
Without(f, S) == [x \in DOMAIN f \ S |-> f[x]]
Over(f, g) == [x \in DOMAIN f \cup DOMAIN g |-> IF x \in DOMAIN g THEN g[x] ELSE f[x]]

\* The operations the verbs of this model record, and their replay.  A put
\* carries its chunk records but not the releases its verb registered.
Replayed(t, op) ==
    CASE op.kind = "put" ->
            [t EXCEPT !.files = Over(@, [n \in {op.name} |-> DOMAIN op.recs]),
                      !.chunks = Over(@, op.recs)]
      [] op.kind = "delete" -> [t EXCEPT !.files = Without(@, {op.name})]
      [] op.kind = "drop"   -> [t EXCEPT !.rels = @ \ {op.tag}]
      [] op.kind = "gc"     -> [t EXCEPT !.chunks = Without(@, op.ids \ Live(t))]
ReplayAll(t, ops) == FoldLeft(Replayed, t, ops)

\* Publish a changed tree together with the operation that says so.
Publish(t, op) ==
    /\ tree' = t /\ dirty' = TRUE /\ version' = version + 1
    /\ pend' = Append(pend, op)
    /\ UNCHANGED sha

\* A fresh load: the clean project takes the head; a dirty one keeps its tree.
FreshLoad ==
    /\ IF dirty \/ pend # <<>> THEN UNCHANGED project
       ELSE /\ tree' = HeadTree /\ sha' = Token /\ version' = version + 1
            /\ UNCHANGED <<dirty, pend>>
    /\ known' = [known EXCEPT !.us = @ \cup Objects(HeadTree)]
    /\ seen' = tip

-----------------------------------------------------------------------------
(* A commit: freeze, build what the cache does not hold, upload, move the   *)
(* head if it is still where we left it, apply.                            *)

NoCommit == [pc |-> "idle", by |-> "loop", work |-> [files |-> <<>>, chunks |-> <<>>, rels |-> {}],
             need |-> {}, prev |-> 0, ver |-> 0, ops |-> 0, moved |-> FALSE]

Needs(t) == Objects(t) \ known.us

CommitFreeze(o) ==
    /\ commit.pc = "idle" /\ dirty
    /\ commit' = [pc |-> IF Git THEN "push" ELSE "write", by |-> o, work |-> tree,
                  need |-> Needs(tree), prev |-> sha, ver |-> version,
                  ops |-> Len(pend), moved |-> FALSE]
    /\ UNCHANGED <<scene, left, remote, known, project, seen, answer, streak>>

\* REST: the objects first, one by one; the manifest does not name them yet.
CommitWrite ==
    /\ commit.pc = "write"
    /\ LET fresh == commit.need \ known.us
       IN  /\ objs' = objs \cup fresh
           /\ known' = [known EXCEPT !.us = @ \cup fresh]
    /\ commit' = [commit EXCEPT !.pc = "push"]
    /\ UNCHANGED <<scene, left, heads, kept, tip, project, seen, answer, streak>>

\* The revision and, with git, its objects in the same push.
Advance(t, need) ==
    /\ heads' = Append(heads, t)
    /\ tip' = tip + 1
    /\ objs' = IF Git THEN objs \cup need ELSE objs
    /\ UNCHANGED kept

CommitPush ==
    /\ commit.pc = "push" /\ commit.prev = Token
    /\ Advance(commit.work, commit.need)
    /\ known' = [known EXCEPT !.us = @ \cup commit.need]
    /\ seen' = tip + 1
    /\ commit' = [commit EXCEPT !.pc = "apply"]
    /\ UNCHANGED <<scene, left, project, answer, streak>>

\* A conflict: replay the frozen operations on the head and build again.
CommitRebase ==
    /\ commit.pc = "push" /\ commit.prev # Token
    /\ LET onto == ReplayAll(HeadTree, SubSeq(pend, 1, commit.ops))
       IN  commit' = [commit EXCEPT !.pc = IF Git THEN "push" ELSE "write", !.prev = Token,
                                    !.work = onto, !.need = Needs(onto), !.moved = TRUE]
    /\ known' = [known EXCEPT !.us = @ \cup Objects(HeadTree)]
    /\ seen' = tip
    /\ UNCHANGED <<scene, left, remote, project, answer, streak>>

CommitEnds(ok) ==
    /\ commit' = NoCommit
    /\ answer' = [answer EXCEPT ![commit.by] = IF ok THEN "ok" ELSE "fail"]
    /\ streak' = IF ok THEN 0 ELSE streak + 1

CommitApply ==
    /\ commit.pc = "apply"
    /\ LET later == SubSeq(pend, commit.ops + 1, Len(pend))
           same  == version = commit.ver
       IN  /\ pend' = later
           /\ tree' = IF same THEN commit.work
                      ELSE IF commit.moved THEN ReplayAll(commit.work, later) ELSE tree
           /\ version' = IF same \/ commit.moved THEN version + 1 ELSE version
           /\ dirty' = ~same
           /\ sha' = Token
    /\ CommitEnds(TRUE)
    /\ UNCHANGED <<scene, left, remote, known, seen>>

\* A failed publish keeps the operations for another attempt.
CommitFails(allowed) ==
    /\ allowed /\ left.commits > 0
    /\ commit.pc \in {"write", "push"}
    /\ left' = [left EXCEPT !.commits = @ - 1]
    /\ CommitEnds(FALSE)
    /\ UNCHANGED <<scene, remote, known, project, seen>>

-----------------------------------------------------------------------------
(* The other hub makes and removes an empty file, or rolls back to the     *)
(* first revision.  It writes the objects its own cache lacks; nobody      *)
(* tells it what our pruner deletes.                                       *)

Toggled(t) ==
    [t EXCEPT !.files = IF "z" \in DOMAIN @ THEN Without(@, {"z"}) ELSE Over(@, [n \in {"z"} |-> {}])]
Foreign == IF scene.roll THEN heads[1] ELSE Toggled(HeadTree)

ForeignCommit(allowed) ==
    /\ allowed /\ left.foreign > 0 /\ (scene.roll => kept = 1)
    /\ left' = [left EXCEPT !.foreign = @ - 1]
    /\ LET need == Objects(Foreign) \ IF Open("foreignCache") THEN known.them ELSE objs
       IN  /\ heads' = Append(heads, Foreign)
           /\ objs' = objs \cup need
           /\ known' = [known EXCEPT !.them = @ \cup Objects(HeadTree) \cup need]
    /\ tip' = tip + 1
    /\ UNCHANGED <<scene, kept, project, seen, commit, answer, streak>>
=============================================================================
