----------------------------- MODULE AssetPool -----------------------------
(***************************************************************************)
(* Where file content lives: assets in the releases of the project's       *)
(* repository, found through a cached release list                         *)
(* (storage/workflows_releases.go, workflows_chunks.go, transfer.go,       *)
(* caches.go), and the verbs that put references to them into the index:   *)
(* upload and replace, unlink, release deletion and rollback               *)
(* (cleanup.go, verbs_meta.go), behind the admission check of degraded.go. *)
(*                                                                         *)
(* A verb is admitted once, at its entry; everything it does after that    *)
(* happens whatever has begun meanwhile.                                   *)
(***************************************************************************)
EXTENDS IndexStore

CONSTANTS
    Writers,       \* calls of the verbs
    Cap,           \* releaseAssetCap
    MaxRotations   \* maxReleaseRotations

\* The releases of the first state hold two assets.
ASSUME PoolAssumption == Writers \subseteq Owners /\ Cap \in Nat /\ Cap > 1 /\ MaxRotations \in Nat

VARIABLES
    pool,     \* the server's releases: tag -> assets
    listed,   \* the cached release list, or Unlisted
    latched,  \* the project is marked degraded
    fence,    \* the prune that holds the project's fence, or "free"
    up        \* writer -> where its verb stands

poolVars == <<pool, listed, latched, fence, up>>

Unlisted == [r \in {0} |-> {}]
Stored == UNION {pool[r] : r \in DOMAIN pool}
Plan(w) == scene.plans[w]
Verb(w) == Plan(w).verb
Uploads == {"upload", "replace"}

-----------------------------------------------------------------------------
(* Admission.                                                              *)

Admission ==
    IF ~latched /\ streak < Threshold
    THEN IF fence = "free" THEN "ok" ELSE "conflict"
    ELSE IF latched /\ fence # "free" THEN "conflict" ELSE "degraded"
Latches == latched' = (latched \/ streak >= Threshold)

Fresh == [pc |-> "idle", tag |-> 0, recs |-> <<>>, rot |-> 0, leaky |-> FALSE,
          prev |-> 0, answer |-> "none"]
At(w, pc) == up[w].pc = pc
Goes(w, pc) == up' = [up EXCEPT ![w].pc = pc]

Admit(w) ==
    /\ At(w, "idle") /\ Verb(w) \notin {"none", "rollback"}
    /\ Latches
    /\ Goes(w, IF Admission # "ok" THEN "refused"
               ELSE IF Verb(w) \in Uploads THEN "pick" ELSE "edit")
    /\ UNCHANGED <<scene, storeVars, pool, listed, fence>>

\* ReEnableProject lifts the latch and leaves the streak as it is.
ReEnable ==
    /\ latched /\ latched' = FALSE
    /\ left.enables > 0 /\ left' = [left EXCEPT !.enables = @ - 1]
    /\ UNCHANGED <<scene, remote, known, project, seen, commit, answer, streak,
                   pool, listed, fence, up>>

-----------------------------------------------------------------------------
(* An upload: pick a release with room for what remains, put the chunks one *)
(* by one, publish the file.                                               *)

Remaining(w) == Plan(w).size - Cardinality(DOMAIN up[w].recs)
List == IF listed = Unlisted THEN pool ELSE listed
Roomy(list, n) == {r \in DOMAIN list : Cardinality(list[r]) + n <= Cap}
Oldest(R) == CHOOSE r \in R : \A q \in R : r <= q
NextTag(tags) == 1 + (CHOOSE n \in tags \cup {0} : \A q \in tags : q <= n)

\* The cached list learns of a release, alone if there was no list, and of an
\* asset put in one it has.
Added(r, assets) ==
    IF listed = Unlisted THEN [x \in {r} |-> assets] ELSE Over(listed, [x \in {r} |-> assets])
Bumped(r, a) == IF r \in DOMAIN listed THEN [listed EXCEPT ![r] = @ \cup {a}] ELSE listed

Pick(w) ==
    /\ At(w, "pick")
    /\ LET roomy == Roomy(List, Remaining(w))
       IN  up' = [up EXCEPT ![w].pc = IF roomy = {} THEN "create" ELSE "put",
                            ![w].tag = IF roomy = {} THEN NextTag(tree.rels \cup DOMAIN List)
                                       ELSE Oldest(roomy)]
    /\ listed' = List
    /\ UNCHANGED <<scene, storeVars, pool, latched, fence>>

\* Creation, or the release another hub or writer made of that name.
CreateRelease(w) ==
    /\ At(w, "create")
    /\ pool' = Over(pool, [r \in {up[w].tag} \ DOMAIN pool |-> {}])
    /\ listed' = Added(up[w].tag, pool'[up[w].tag])
    /\ Goes(w, "put")
    /\ UNCHANGED <<scene, storeVars, latched, fence>>

\* The k-th asset of this upload.
NewAsset(w) == <<w, Cardinality(DOMAIN up[w].recs) + 1>>

PutChunk(w) ==
    /\ At(w, "put") /\ Remaining(w) > 0
    /\ LET r == up[w].tag
           a == NewAsset(w)
       IN  /\ r \in DOMAIN pool /\ Cardinality(pool[r]) < Cap
           /\ pool' = [pool EXCEPT ![r] = @ \cup {a}]
           /\ listed' = Bumped(r, a)
           /\ up' = [up EXCEPT ![w].recs = Over(@, [x \in {a} |-> r])]
    /\ UNCHANGED <<scene, storeVars, latched, fence>>

\* A full release: forget the list and pick again, a bounded number of times.
Rotate(w) ==
    /\ At(w, "put") /\ Remaining(w) > 0
    /\ up[w].tag \in DOMAIN pool /\ Cardinality(pool[up[w].tag]) = Cap
    /\ IF up[w].rot < MaxRotations
       THEN /\ up' = [up EXCEPT ![w].pc = "pick", ![w].rot = @ + 1]
            /\ listed' = Unlisted
       ELSE Goes(w, "undo") /\ UNCHANGED listed
    /\ UNCHANGED <<scene, storeVars, pool, latched, fence>>

\* The release is gone, or the request failed; its reply may be what was lost,
\* and then the asset stays.  Creating a release may fail as well.
PutFails(w) ==
    /\ (At(w, "put") /\ Remaining(w) > 0) \/ At(w, "create")
    /\ \/ /\ At(w, "put") /\ up[w].tag \notin DOMAIN pool
          /\ Goes(w, "undo") /\ UNCHANGED <<left, pool>>
       \/ /\ left.faults > 0 /\ left' = [left EXCEPT !.faults = @ - 1]
          /\ \/ UNCHANGED pool /\ Goes(w, "undo")
             \/ /\ At(w, "put")
                /\ up[w].tag \in DOMAIN pool /\ Cardinality(pool[up[w].tag]) < Cap
                /\ pool' = [pool EXCEPT ![up[w].tag] = @ \cup {NewAsset(w)}]
                /\ up' = [up EXCEPT ![w].pc = "undo", ![w].leaky = TRUE]
    /\ UNCHANGED <<scene, remote, known, project, seen, commit, answer, streak,
                   listed, latched, fence>>

\* The file goes in with its chunk records, every release they name and the
\* release picked last; it must still be absent (upload) or present (replace).
Publishes(w) ==
    /\ At(w, "put") /\ Remaining(w) = 0
    /\ IF (Plan(w).name \in DOMAIN tree.files) = (Verb(w) = "replace")
       THEN LET op == [kind |-> "put", name |-> Plan(w).name, recs |-> up[w].recs]
                t  == Replayed(tree, op)
            IN  /\ Publish([t EXCEPT !.rels = @ \cup {up[w].tag}
                                              \cup {up[w].recs[a] : a \in DOMAIN up[w].recs}], op)
                /\ Goes(w, "done")
       ELSE Goes(w, "undo") /\ UNCHANGED project
    /\ UNCHANGED <<scene, left, remote, known, seen, commit, answer, streak,
                   pool, listed, latched, fence>>

\* What a failed upload put is deleted again, as far as the server lets it.
\* Mutant: ... but only in the release the upload had reached.
UndoesHere(w) == {a \in DOMAIN up[w].recs : up[w].recs[a] = up[w].tag}
Undoable(w) == DOMAIN up[w].recs

Undo(w) ==
    /\ At(w, "undo")
    /\ \E stuck \in IF left.faults > 0 THEN SUBSET Undoable(w) ELSE {{}} :
         LET gone == Undoable(w) \ stuck
         IN  /\ pool' = [r \in DOMAIN pool |-> pool[r] \ gone]
             /\ listed' = IF gone = {} THEN listed ELSE Unlisted
             /\ up' = [up EXCEPT ![w].pc = "failed", ![w].leaky = @ \/ stuck # {}]
             /\ left' = IF stuck = {} THEN left ELSE [left EXCEPT !.faults = @ - 1]
    /\ UNCHANGED <<scene, remote, known, project, seen, commit, answer, streak, latched, fence>>

\* DeleteFile and DeleteRelease; a release is dropped whatever refers to it.
Edits(w) ==
    /\ At(w, "edit")
    /\ LET op == IF Verb(w) = "delete" THEN [kind |-> "delete", name |-> Plan(w).name]
                 ELSE [kind |-> "drop", tag |-> Plan(w).tag]
           there == IF Verb(w) = "delete" THEN Plan(w).name \in DOMAIN tree.files
                    ELSE Plan(w).tag \in tree.rels
       IN  IF there THEN Publish(Replayed(tree, op), op) /\ Goes(w, "done")
           ELSE Goes(w, "failed") /\ UNCHANGED project
    /\ UNCHANGED <<scene, left, remote, known, seen, commit, answer, streak,
                   pool, listed, latched, fence>>

-----------------------------------------------------------------------------
(* Rollback to the first revision.  Neither admission nor the fence is in   *)
(* its way: it flushes, pins the head, checks that the assets still exist,  *)
(* publishes, and checks once more.                                        *)

Rolling(w) == Verb(w) = "rollback"
Target == heads[1]
AllThere(t) == \A a \in Live(t) :
    a \in DOMAIN t.chunks /\ t.chunks[a] \in DOMAIN pool /\ a \in pool[t.chunks[a]]

RollbackStarts(w) ==
    /\ At(w, "idle") /\ Rolling(w)
    /\ Goes(w, IF kept > 1 THEN "failed" ELSE "flush")
    /\ UNCHANGED <<scene, storeVars, pool, listed, latched, fence>>

RollbackFlushes(w) ==
    /\ At(w, "flush") /\ commit.pc = "idle"
    /\ IF dirty THEN CommitFreeze(w) /\ Goes(w, "flushing")
       ELSE Goes(w, "pin") /\ UNCHANGED <<scene, storeVars>>
    /\ UNCHANGED <<pool, listed, latched, fence>>

RollbackFlushed(w) ==
    /\ At(w, "flushing") /\ answer[w] # "none"
    /\ Goes(w, IF answer[w] = "ok" THEN "pin" ELSE "failed")
    /\ answer' = [answer EXCEPT ![w] = "none"]
    /\ UNCHANGED <<scene, left, remote, known, project, seen, commit, streak,
                   pool, listed, latched, fence>>

\* The revision is read after the head: git pins a fresh head, REST the cached.
RollbackPins(w) ==
    /\ At(w, "pin")
    /\ IF Git THEN FreshLoad ELSE UNCHANGED <<project, known, seen>>
    /\ up' = [up EXCEPT ![w].pc = IF kept > 1 THEN "failed" ELSE "validate",
                        ![w].prev = IF Git THEN Token ELSE sha]
    /\ UNCHANGED <<scene, left, remote, commit, answer, streak, pool, listed, latched, fence>>

RollbackValidates(w) ==
    /\ At(w, "validate")
    /\ listed' = pool
    /\ Goes(w, IF AllThere(Target) THEN "roll" ELSE "failed")
    /\ UNCHANGED <<scene, storeVars, pool, latched, fence>>

\* The publish and, if the project is clean, its new tree.
RollbackPushes(w) ==
    /\ At(w, "roll") /\ UNCHANGED scene
    /\ IF up[w].prev = Token
       THEN /\ Advance(Target, Needs(Target))
            /\ known' = [known EXCEPT !.us = @ \cup Objects(Target)]
            /\ seen' = tip + 1
            /\ IF dirty \/ pend # <<>> THEN UNCHANGED project
               ELSE /\ tree' = Target /\ version' = version + 1
                    /\ sha' = Token'
                    /\ UNCHANGED <<dirty, pend>>
            /\ Goes(w, "verify")
       ELSE Goes(w, "failed") /\ UNCHANGED <<remote, known, seen, project>>
    /\ UNCHANGED <<left, commit, answer, streak, pool, listed, latched, fence>>

RollbackVerifies(w) ==
    /\ At(w, "verify")
    /\ listed' = pool
    /\ Goes(w, IF AllThere(Target) THEN "done" ELSE "loud")
    /\ UNCHANGED <<scene, storeVars, pool, latched, fence>>

WriterStep(w) ==
    \/ Admit(w) \/ Pick(w) \/ CreateRelease(w) \/ PutChunk(w) \/ Rotate(w) \/ PutFails(w)
    \/ Publishes(w) \/ Undo(w) \/ Edits(w)
    \/ RollbackStarts(w) \/ RollbackFlushes(w) \/ RollbackFlushed(w) \/ RollbackPins(w)
    \/ RollbackValidates(w) \/ RollbackPushes(w) \/ RollbackVerifies(w)

-----------------------------------------------------------------------------
\* Every asset a file of the live tree or of the published head refers to is
\* on the server, unless a rollback is about to report that it is not.
NothingDangling ==
    \/ \E w \in Writers : Rolling(w) /\ up[w].pc \in {"verify", "loud"}
    \/ AllThere(tree) /\ AllThere(HeadTree)

\* A failed upload leaves no asset behind, unless a reply was lost or the
\* server refused the clean-up.
NoLeak ==
    \A w \in Writers : At(w, "failed") /\ ~up[w].leaky => {a \in Stored : a[1] = w} = {}
=============================================================================
