---------------------------- MODULE RevisionGate ----------------------------
(***************************************************************************)
(* One project as its writers see it: the cached tree and the revision it  *)
(* is cached at, the single-use compare-and-swap gate (storage/mutate.go), *)
(* the fresh load that re-verifies a declared revision, and the commit.    *)
(*                                                                         *)
(* A path holds a version, an index into the log of everything published.  *)
(* Modules CommitPipeline and ProjectCache model the commit, the journal   *)
(* and the cache entry in full.                                            *)
(***************************************************************************)
EXTENDS Naturals, Sequences, FiniteSets, FiniteSetsExt

CONSTANTS
    Paths, Requests,
    MaxCommitAttempts,  \* one attempt and the rebases after it
    Races       \* the windows left open, see RestWrite

Nobody == "nobody"
Peer == "peer"
Loop == "loop"
ASSUME WritersAssumption == {Nobody, Peer, Loop} \cap Requests = {}
ASSUME AttemptsAssumption == MaxCommitAttempts \in Nat \ {0}

VARIABLES
    log,     \* every version ever published: by whom, what, derived from and put over which
    tree,    \* pm.meta: path -> version
    due,     \* is a token waiting in pm.triggerCh?
    base,    \* pm.baseTree
    sha,     \* pm.sha, as a position in hist
    spent,   \* casToken when casArmed, else 0
    hist,    \* the trees the remote index has had
    commit,  \* the commit in flight
    flight,  \* the fresh load in flight, and the requests waiting for it
    left     \* what is left of the bounds: commits of another hub, pushes and uploads that fail

treeVars == <<log, tree, due>>
gateVars == <<treeVars, base, sha, spent, hist, commit, flight, left>>

NoCommit == [pc |-> "idle", tree |-> <<>>, work |-> <<>>, prev |-> 0, by |-> Nobody, tries |-> 0]
NoFlight == [on |-> FALSE, sha |-> 0, tree |-> <<>>, for |-> {}]

Tip == Len(hist)
Dirty == tree # base
\* Left to the next mutation, drain or shutdown: dirty, and nothing under way.
Shelved == Dirty /\ ~due /\ commit.pc = "idle"
Exists(v) == log[v].kind # "gone"

GateInit(initial, bounds) ==
    /\ log = <<[by |-> Nobody, kind |-> "gone", size |-> 0, from |-> 0, over |-> 0],
               [by |-> Nobody, kind |-> "file", size |-> 1, from |-> 0, over |-> 0],
               [by |-> Nobody, kind |-> "link", size |-> 1, from |-> 0, over |-> 0]>>
    /\ tree = initial /\ base = initial /\ hist = <<initial>>
    /\ sha = 1 /\ spent = 0 /\ due = FALSE
    /\ commit = NoCommit /\ flight = NoFlight
    /\ left = bounds

\* A transaction publishes one version of one path, derived from version from, or
\* from nothing when from is 0, and wakes the commit loop.
Publish(r, p, kind, size, from) ==
    /\ log' = Append(log, [by |-> r, kind |-> kind, size |-> size, from |-> from, over |-> tree[p]])
    /\ tree' = [tree EXCEPT ![p] = Len(log) + 1]
    /\ due' = TRUE

\* Mutant: one revision is used twice.
EqualityOnly(t) == t = 0 \/ t = sha
\* Mutant: what was verified before the upload is not compared again.
UnspentOnly(t) == t = 0 \/ spent # t
\* checkRevisionGateLocked: the declared revision is the committed one and no
\* earlier mutation has used it.
GatePasses(t) == t = 0 \/ (t = sha /\ spent # t)
Arm(t) == spent' = IF t = 0 THEN spent ELSE t

-----------------------------------------------------------------------------
(* The commit: freeze, publish against the cached revision, rebase, apply.  *)

CommitBegins(who) ==
    /\ commit.pc = "idle" /\ Dirty
    /\ commit' = [pc |-> "publish", tree |-> tree, work |-> tree, prev |-> sha, by |-> who, tries |-> 1]
    /\ UNCHANGED <<log, tree, base, sha, spent, hist, flight, left>>

\* The commit loop spends a token; one that finds nothing dirty is spent as well.
LoopWakes ==
    /\ due /\ due' = FALSE
    /\ \/ CommitBegins(Loop)
       \/ commit.pc = "idle" /\ ~Dirty /\ UNCHANGED <<log, tree, base, sha, spent, hist, commit, flight, left>>

CommitPublishes ==
    /\ commit.pc = "publish" /\ commit.prev = Tip
    /\ "staleload" \in Races \/ ~flight.on
    /\ hist' = Append(hist, commit.work)
    /\ commit' = [commit EXCEPT !.pc = "apply", !.prev = Tip + 1]
    /\ UNCHANGED <<treeVars, base, sha, spent, flight, left>>

\* The frozen changes go onto upstream; the newer one wins (rebase.go).
CommitRebases ==
    /\ commit.pc = "publish" /\ commit.prev # Tip
    /\ commit.tries < MaxCommitAttempts
    /\ commit' = [commit EXCEPT !.prev = Tip, !.tries = @ + 1, !.work = [p \in Paths |->
           IF commit.tree[p] # base[p] /\ ~(hist[Tip][p] # base[p] /\ Exists(hist[Tip][p])
                                            /\ hist[Tip][p] > commit.tree[p])
           THEN commit.tree[p] ELSE hist[Tip][p]]]
    /\ UNCHANGED <<treeVars, base, sha, spent, hist, flight, left>>

\* Mutant: the tree is applied, its revision is not.
AppliesTreeOnly ==
    /\ commit.pc = "apply"
    /\ base' = commit.work
    /\ tree' = [p \in Paths |-> IF tree[p] # commit.tree[p] THEN tree[p] ELSE commit.work[p]]
    /\ commit' = NoCommit
    /\ UNCHANGED <<log, due, sha, spent, hist, flight, left>>

CommitApplies ==
    /\ commit.pc = "apply"
    /\ sha' = commit.prev
    /\ base' = commit.work
    /\ tree' = [p \in Paths |-> IF tree[p] # commit.tree[p] THEN tree[p] ELSE commit.work[p]]
    /\ commit' = NoCommit
    /\ UNCHANGED <<log, due, spent, hist, flight, left>>

\* The push failed, or conflicts past the last attempt: what it froze stays pending
\* and nothing but a new trigger tries again (recoverMetadataCommitFailure).
PushFails ==
    /\ commit.pc = "publish"
    /\ \/ left.fails > 0 /\ left' = [left EXCEPT !.fails = @ - 1]
       \/ commit.prev # Tip /\ commit.tries >= MaxCommitAttempts /\ left' = left
    /\ commit' = NoCommit
    /\ UNCHANGED <<treeVars, base, sha, spent, hist, flight>>

\* Another hub commits a change of one path.
PeerCommits(p) ==
    /\ left.peers > 0 /\ Exists(hist[Tip][p])
    /\ log' = Append(log, [by |-> Peer, kind |-> "file", size |-> 1, from |-> 0, over |-> hist[Tip][p]])
    /\ hist' = Append(hist, [hist[Tip] EXCEPT ![p] = Len(log) + 1])
    /\ left' = [left EXCEPT !.peers = @ - 1]
    /\ UNCHANGED <<tree, due, base, sha, spent, commit, flight>>

-----------------------------------------------------------------------------
(* loadRepoMetadataFresh: one flight at a time, later callers join it.      *)

FlightJoined(r) ==
    flight' = IF flight.on THEN [flight EXCEPT !.for = @ \cup {r}]
              ELSE [on |-> TRUE, sha |-> Tip, tree |-> hist[Tip], for |-> {r}]

\* Mutant: the load is stored over unpushed work.
StoreAlways == tree' = flight.tree /\ base' = flight.tree /\ sha' = flight.sha
\* storeRepoMetadata: local work outranks the remote snapshot.
Store ==
    IF Dirty THEN UNCHANGED <<tree, base, sha>>
    ELSE tree' = flight.tree /\ base' = flight.tree /\ sha' = flight.sha
=============================================================================
