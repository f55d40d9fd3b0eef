--------------------------- MODULE CommitPipeline ---------------------------
(***************************************************************************)
(* Several hubs, each with a cached tree of one project, write one shared  *)
(* remote index.  A hub acknowledges a mutation as soon as it is in its    *)
(* tree, its pending stack and its crash journal; later it commits:        *)
(*                                                                         *)
(*   freeze the dirty state, publish it with a compare-and-swap on the     *)
(*   manifest, rebase the frozen operations onto upstream when the swap    *)
(*   conflicts, and apply the outcome back to a cache that may have moved. *)
(*                                                                         *)
(* A tree maps a path to the content that lives there: the timestamp of    *)
(* the mutation that wrote it, or Absent.  The pending stack is abstracted *)
(* to the newest operation per path (modules OpStack and PendingOps model  *)
(* it in full), and pm.version to the question the pipeline asks of it:    *)
(* did it move since the freeze?  Hub clocks are taken to agree.           *)
(***************************************************************************)
EXTENDS Naturals, Sequences

CONSTANTS
    Hubs, Paths,
    MaxCommitAttempts, \* one attempt and the rebases after it
    MaxEvents,     \* bound on mutations and faults together
    MaxMutations,  \* bound on mutations, over all hubs
    MaxFails,      \* bound on pushes that fail and do not land
    MaxLost,       \* bound on pushes that land and whose reply is lost
    MaxCrashes,    \* bound on hub crashes
    MidCommit,     \* may mutations arrive while a commit is in flight?
    MidLoad,       \* may mutations arrive before a load has cleared the journal?
    LargeTree,     \* is the tree past the size the admission accepts unprobed?
    FreshReads     \* do revision checks and purges reload a hydrated project?

ASSUME BoundsAssumption ==
    /\ MaxEvents \in Nat /\ MaxMutations \in Nat /\ MaxFails \in Nat
    /\ MaxLost \in Nat /\ MaxCrashes \in Nat /\ MaxCommitAttempts \in Nat \ {0}
ASSUME FlagsAssumption ==
    /\ MidCommit \in BOOLEAN /\ MidLoad \in BOOLEAN
    /\ LargeTree \in BOOLEAN /\ FreshReads \in BOOLEAN

Absent == 0

VARIABLES
    hist,      \* the revisions of the remote index, oldest first
    now,       \* the clock: the timestamp of the newest mutation
    hydrated,  \* hub -> does its cache entry reflect a load?
    meta,      \* hub -> the live tree (pm.meta)
    sha,       \* hub -> the revision it believes is current: its CAS token
    base,      \* hub -> the tree its pending operations were built on
    dirty,     \* hub -> is there anything to commit?
    pend,      \* hub -> path -> the pending operation, or NoOp
    seq,       \* hub -> the number of the newest operation
    journal,   \* hub -> path -> the journalled operation, or NoOp
    trig,      \* hub -> is a token waiting in the commit trigger?
    commit,    \* hub -> the commit in flight
    load,      \* hub -> the fresh load in flight
    probe,     \* hub -> the transaction whose candidate is being probed
    accepted,  \* history: every mutation acknowledged, by whom
    landed,    \* history: hub -> path -> its newest mutation that landed or was resolved
    fails, lost, crashes

cacheVars == <<hydrated, meta, sha, base, dirty, pend, seq, trig>>
histVars  == <<accepted, landed>>
budget    == <<fails, lost, crashes>>
vars == <<hist, now, cacheVars, journal, commit, load, probe, histVars, budget>>

-----------------------------------------------------------------------------

Trees == [Paths -> Nat]
Op    == [val : Nat, ts : Nat, seq : Nat, over : Nat]
Ops   == [Paths -> Op]

\* A commit in flight (commitSnapshot and the progress of its attempts), a fresh
\* load (loadFlight) and a probe (admitCandidateSplit's locals).
CommitState ==
    [pc : {"idle", "publish", "rebase", "apply"}, work : Trees, prev : Nat, new : Nat,
     ops : Ops, opSeq : Nat, base : Trees, kept : SUBSET Paths,
     tries : Nat, rebased : BOOLEAN, moved : BOOLEAN]
LoadState  == [pc : {"idle", "store", "rewrite"}, tree : Trees, sha : Nat, ops : Ops]
ProbeState == [pc : {"idle", "probing"}, tree : Trees, ts : Nat]
Accepted   == [hub : Hubs, path : Paths, val : Nat, ts : Nat]

Blank == [p \in Paths |-> Absent]
NoOp  == [val |-> Absent, ts |-> 0, seq |-> 0, over |-> Absent]
NoOps == [p \in Paths |-> NoOp]
IsOp(o) == o.ts # 0

Tip      == Len(hist)
Upstream == hist[Len(hist)]

\* The bound on everything that may happen to the hubs from outside.
EventsLeft == (now - 1) + fails + lost + crashes < MaxEvents

\* A tree with a batch applied: every operation is a full assertion.
Overlay(t, ops) == [p \in Paths |-> IF IsOp(ops[p]) THEN ops[p].val ELSE t[p]]

\* clearUpTo: drop the operations numbered at or below q.
ClearUpTo(ops, q) == [p \in Paths |-> IF ops[p].seq > q THEN ops[p] ELSE NoOp]

\* Is what upstream holds at a path newer than the operation on it?
NewerThan(c, o) == c # Absent /\ c > o.ts

\* Mutant: a put beats upstream whenever it was written.
LateCommitWins(c, b, o)  == c # b /\ c # Absent /\ o.val = Absent

\* The conflict policy: does upstream's c, where the base had b, outrank o?
\* A changed survivor beats a delete; a newer write beats a put.
Outranks(c, b, o) ==
    /\ c # b
    /\ c # Absent
    /\ o.val = Absent \/ NewerThan(c, o)

NotCommitting ==
    [pc |-> "idle", work |-> Blank, prev |-> 0, new |-> 0, ops |-> NoOps, opSeq |-> 0,
     base |-> Blank, kept |-> {}, tries |-> 0, rebased |-> FALSE, moved |-> FALSE]
NotLoading == [pc |-> "idle", tree |-> Blank, sha |-> 0, ops |-> NoOps]
NotProbing == [pc |-> "idle", tree |-> Blank, ts |-> 0]

Init ==
    /\ hist = <<[p \in Paths |-> 1]>>
    /\ now = 1
    /\ hydrated = [h \in Hubs |-> FALSE]
    /\ meta = [h \in Hubs |-> Blank]
    /\ sha = [h \in Hubs |-> 0]
    /\ base = [h \in Hubs |-> Blank]
    /\ dirty = [h \in Hubs |-> FALSE]
    /\ pend = [h \in Hubs |-> NoOps]
    /\ seq = [h \in Hubs |-> 0]
    /\ journal = [h \in Hubs |-> NoOps]
    /\ trig = [h \in Hubs |-> FALSE]
    /\ commit = [h \in Hubs |-> NotCommitting]
    /\ load = [h \in Hubs |-> NotLoading]
    /\ probe = [h \in Hubs |-> NotProbing]
    /\ accepted = {}
    /\ landed = [h \in Hubs |-> [p \in Paths |-> 0]]
    /\ fails = 0 /\ lost = 0 /\ crashes = 0

-----------------------------------------------------------------------------
(* Loading remote truth into the cache.  A load is single-flight.          *)

\* The head is read, then the journal if the entry is cold, and replayed over
\* it; an operation older than what the head holds at its path is dropped.
LoadRead(h) ==
    LET cold == ~hydrated[h]
        drop == {p \in Paths : NewerThan(Upstream[p], journal[h][p])}
        kept == [p \in Paths |-> IF cold /\ p \notin drop THEN journal[h][p] ELSE NoOp]
    IN  /\ load[h].pc = "idle"
        /\ cold \/ FreshReads
        /\ load' = [load EXCEPT ![h] = [pc |-> "store", tree |-> Overlay(Upstream, kept),
                                        sha |-> Tip, ops |-> kept]]
        /\ landed' = [landed EXCEPT ![h] = [p \in Paths |->
                          IF cold /\ p \in drop /\ IsOp(journal[h][p])
                          THEN journal[h][p].ts ELSE @[p]]]
        /\ UNCHANGED <<hist, now, cacheVars, journal, commit, probe, accepted, budget>>

\* What a store leaves to do: only a clean one goes on to clear the journal.
AfterStore(replayed, busy) ==
    IF replayed \/ busy THEN NotLoading ELSE [NotLoading EXCEPT !.pc = "rewrite"]

\* storeRepoMetadata, under pm.mu: replayed operations become the pending
\* stack; local work outranks the load; otherwise the load is adopted.
LoadStore(h) ==
    LET l == load[h]
        replayed == \E p \in Paths : IsOp(l.ops[p])
        busy  == dirty[h] \/ \E p \in Paths : IsOp(pend[h][p])
        adopt == replayed \/ ~busy
        Set(f, v) == [f EXCEPT ![h] = IF adopt THEN v ELSE @]
    IN  /\ l.pc = "store"
        /\ meta' = Set(meta, l.tree)
        /\ sha'  = Set(sha, l.sha)
        /\ base' = Set(base, l.tree)
        /\ pend' = Set(pend, [p \in Paths |->
                        IF IsOp(l.ops[p]) THEN [l.ops[p] EXCEPT !.seq = 1] ELSE NoOp])
        /\ seq' = [seq EXCEPT ![h] = IF replayed THEN 1 ELSE @]
        /\ dirty' = [dirty EXCEPT ![h] = @ \/ replayed]
        /\ hydrated' = [hydrated EXCEPT ![h] = TRUE]
        /\ commit' = [commit EXCEPT ![h].moved = @ \/ (adopt /\ commit[h].pc # "idle")]
        /\ load' = [load EXCEPT ![h] = AfterStore(replayed, busy)]
        /\ UNCHANGED <<hist, now, trig, journal, probe, histVars, budget>>

\* A clean store clears the journal after it has released pm.mu.
LoadClearJournal(h) ==
    /\ load[h].pc = "rewrite"
    /\ journal' = [journal EXCEPT ![h] = NoOps]
    /\ load' = [load EXCEPT ![h] = NotLoading]
    /\ UNCHANGED <<hist, now, cacheVars, commit, probe, histVars, budget>>

-----------------------------------------------------------------------------
(* Mutations.                                                              *)

CanMutate(h) ==
    /\ hydrated[h]
    /\ MidCommit \/ commit[h].pc = "idle"
    /\ MidLoad \/ load[h].pc = "idle"

\* Mutant: an entry that is dirty already needs no token.
PokeIfClean(h) == [trig EXCEPT ![h] = @ \/ ~dirty[h]]

\* A token in the one-slot trigger channel.
Poke(h) == [trig EXCEPT ![h] = TRUE]

\* publishTxLocked and appendOpLocked: the tree swap, the pending operation,
\* its journal line, the dirty mark and the trigger token.
Accept(h, tree, p, v, ts) ==
    LET op == [val |-> v, ts |-> ts, seq |-> seq[h] + 1, over |-> meta[h][p]] IN
    /\ meta' = [meta EXCEPT ![h] = [tree EXCEPT ![p] = v]]
    /\ pend' = [pend EXCEPT ![h][p] = op]
    /\ journal' = [journal EXCEPT ![h][p] = op]
    /\ seq' = [seq EXCEPT ![h] = op.seq]
    /\ dirty' = [dirty EXCEPT ![h] = TRUE]
    /\ trig' = Poke(h)
    /\ commit' = [commit EXCEPT ![h].moved = commit[h].pc # "idle"]
    /\ accepted' = accepted \cup {[hub |-> h, path |-> p, val |-> v, ts |-> ts]}
    /\ UNCHANGED <<hist, hydrated, sha, base, load, landed, budget>>

\* A transaction that keeps pm.mu throughout: a write to a tree below the
\* ceiling, one that shrinks the tree, or a delete of what is there (removals
\* and shrinks are admitted unmeasured).
Mutate(h, p) ==
    /\ CanMutate(h)
    /\ now <= MaxMutations /\ EventsLeft
    /\ now' = now + 1
    /\ \E v \in {now', Absent} :
          /\ v # Absent /\ meta[h][p] = Absent => ~LargeTree
          /\ v = Absent => meta[h][p] # Absent
          /\ Accept(h, meta[h], p, v, now')
    /\ UNCHANGED probe

\* Past the ceiling, admitCandidateSplit releases pm.mu to measure the private
\* candidate of a write, re-acquires it and lets that candidate be published.
ProbeStart(h) ==
    /\ CanMutate(h)
    /\ LargeTree
    /\ probe[h].pc = "idle"
    /\ now <= MaxMutations /\ EventsLeft
    /\ now' = now + 1
    /\ probe' = [probe EXCEPT ![h] = [pc |-> "probing", tree |-> meta[h], ts |-> now']]
    /\ UNCHANGED <<hist, cacheVars, journal, commit, load, histVars, budget>>

ProbePublish(h, p) ==
    /\ probe[h].pc = "probing"
    /\ CanMutate(h)
    /\ Accept(h, probe[h].tree, p, probe[h].ts, probe[h].ts)
    /\ probe' = [probe EXCEPT ![h] = NotProbing]
    /\ UNCHANGED now

-----------------------------------------------------------------------------
(* The commit: freeze, publish, rebase on conflict, apply back.            *)

\* freezeCommitBatch.
Freeze(h) ==
    /\ commit[h].pc = "idle"
    /\ dirty[h]
    /\ commit' = [commit EXCEPT ![h] =
          [pc |-> "publish", work |-> meta[h], prev |-> sha[h], new |-> 0,
           ops |-> pend[h], opSeq |-> seq[h], base |-> base[h], kept |-> {},
           tries |-> 1, rebased |-> FALSE, moved |-> FALSE]]
    /\ UNCHANGED <<hist, now, hydrated, meta, sha, base, dirty, pend, seq,
                   journal, load, probe, histVars, budget>>

\* The commit loop consumes a token; a token that finds a clean entry is spent.
LoopWakes(h) ==
    /\ trig[h]
    /\ trig' = [trig EXCEPT ![h] = FALSE]
    /\ \/ Freeze(h)
       \/ /\ commit[h].pc = "idle" /\ ~dirty[h]
          /\ UNCHANGED <<hist, now, hydrated, meta, sha, base, dirty, pend, seq,
                         journal, commit, load, probe, histVars, budget>>

\* FlushMetadata, a drain or Shutdown commits without a token.
Flush(h) == Freeze(h) /\ UNCHANGED trig

\* The manifest advances to the working tree; every operation of the batch has
\* now landed, or lost to upstream in the rebase that built that tree.
Advance(h) ==
    LET c == commit[h]
        done == {p \in Paths : IsOp(c.ops[p]) /\ (c.work[p] = c.ops[p].val \/ p \in c.kept)}
    IN  /\ c.pc = "publish"
        /\ c.prev = Tip
        /\ hist' = Append(hist, c.work)
        /\ landed' = [landed EXCEPT ![h] =
                          [p \in Paths |-> IF p \in done THEN c.ops[p].ts ELSE @[p]]]

\* A conflict: rebase, unless the attempts are spent; then the operations stay.
Conflicted(h) ==
    commit' = [commit EXCEPT ![h] = IF @.tries < MaxCommitAttempts
                                    THEN [@ EXCEPT !.pc = "rebase"] ELSE NotCommitting]

Publish(h) ==
    /\ Advance(h)
    /\ commit' = [commit EXCEPT ![h].pc = "apply", ![h].new = Len(hist')]
    /\ UNCHANGED <<now, cacheVars, journal, load, probe, accepted, budget>>

PublishConflict(h) ==
    /\ commit[h].pc = "publish"
    /\ commit[h].prev # Tip
    /\ Conflicted(h)
    /\ UNCHANGED <<hist, now, cacheVars, journal, load, probe, histVars, budget>>

\* The push lands and its reply is lost: the commit fails, or the retry inside
\* the client answers with a conflict against the landed manifest.
PublishLost(h) ==
    /\ lost < MaxLost /\ EventsLeft
    /\ lost' = lost + 1
    /\ Advance(h)
    /\ Conflicted(h) \/ commit' = [commit EXCEPT ![h] = NotCommitting]
    /\ UNCHANGED <<now, cacheVars, journal, load, probe, accepted, fails, crashes>>

\* Mutant: a failed commit discards its batch with the journal.
CommitFailDiscards(h) ==
    /\ fails < MaxFails /\ EventsLeft
    /\ fails' = fails + 1
    /\ commit[h].pc \in {"publish", "rebase"}
    /\ commit' = [commit EXCEPT ![h] = NotCommitting]
    /\ pend' = [pend EXCEPT ![h] = NoOps]
    /\ journal' = [journal EXCEPT ![h] = NoOps]
    /\ dirty' = [dirty EXCEPT ![h] = FALSE]
    /\ UNCHANGED <<hist, now, hydrated, meta, sha, base, seq, trig, load, probe,
                   histVars, lost, crashes>>

\* The push, or the fetch of upstream for a rebase, fails: the batch stays pending.
CommitFails(h) ==
    /\ fails < MaxFails /\ EventsLeft
    /\ fails' = fails + 1
    /\ commit[h].pc \in {"publish", "rebase"}
    /\ commit' = [commit EXCEPT ![h] = NotCommitting]
    /\ UNCHANGED <<hist, now, cacheVars, journal, load, probe, histVars, lost, crashes>>

\* Mutant: the attempt is retried on upstream's token with the tree it had.
RetriedTree(c, kept) == c.work

\* Upstream with the batch replayed, less the operations upstream outranks.
RebasedTree(c, kept) ==
    [p \in Paths |-> IF IsOp(c.ops[p]) /\ p \notin kept THEN c.ops[p].val ELSE Upstream[p]]

\* rebaseOntoUpstream: replay the batch onto upstream, retarget the token.
Rebase(h) ==
    LET c == commit[h]
        kept == {p \in Paths : IsOp(c.ops[p]) /\ Outranks(Upstream[p], c.base[p], c.ops[p])}
    IN  /\ c.pc = "rebase"
        /\ commit' = [commit EXCEPT ![h] = [c EXCEPT
              !.pc = "publish", !.prev = Tip, !.tries = @ + 1, !.rebased = TRUE, !.kept = kept,
              !.work = RebasedTree(c, kept)]]
        /\ UNCHANGED <<hist, now, cacheVars, journal, load, probe, histVars, budget>>

\* Mutant: after a rebase the live tree is kept as if nothing had come from upstream.
LiveTreeKept(c, tree, surviving) == IF c.moved THEN tree ELSE c.work

\* The three-way apply-back: nothing moved, moved and rebased, moved only.
AppliedTree(c, tree, surviving) ==
    CASE ~c.moved -> c.work
      [] c.moved /\ c.rebased -> Overlay(c.work, surviving)
      [] OTHER -> tree

\* applyCommittedTree.
Apply(h) ==
    LET c == commit[h]
        surviving == ClearUpTo(pend[h], c.opSeq)
    IN  /\ c.pc = "apply"
        /\ sha' = [sha EXCEPT ![h] = c.new]
        /\ base' = [base EXCEPT ![h] = c.work]
        /\ pend' = [pend EXCEPT ![h] = surviving]
        /\ journal' = [journal EXCEPT ![h] = surviving]
        /\ dirty' = [dirty EXCEPT ![h] = @ /\ c.moved]
        /\ meta' = [meta EXCEPT ![h] = AppliedTree(c, @, surviving)]
        /\ commit' = [commit EXCEPT ![h] = NotCommitting]
        /\ UNCHANGED <<hist, now, hydrated, seq, trig, load, probe, histVars, budget>>

-----------------------------------------------------------------------------
(* Eviction and crashes.                                                   *)

Forgotten(h) ==
    /\ hydrated' = [hydrated EXCEPT ![h] = FALSE]
    /\ meta' = [meta EXCEPT ![h] = Blank]
    /\ sha' = [sha EXCEPT ![h] = 0]
    /\ base' = [base EXCEPT ![h] = Blank]
    /\ dirty' = [dirty EXCEPT ![h] = FALSE]
    /\ pend' = [pend EXCEPT ![h] = NoOps]
    /\ seq' = [seq EXCEPT ![h] = 0]
    /\ trig' = [trig EXCEPT ![h] = FALSE]

\* evictEntryLocked: only a clean entry leaves the cache.
Evict(h) ==
    /\ hydrated[h] /\ ~dirty[h]
    /\ commit[h].pc = "idle" /\ load[h].pc = "idle" /\ probe[h].pc = "idle"
    /\ Forgotten(h)
    /\ UNCHANGED <<hist, now, journal, commit, load, probe, histVars, budget>>

\* Everything but the journal is gone.
Crash(h) ==
    /\ crashes < MaxCrashes /\ EventsLeft
    /\ crashes' = crashes + 1
    /\ Forgotten(h)
    /\ commit' = [commit EXCEPT ![h] = NotCommitting]
    /\ load' = [load EXCEPT ![h] = NotLoading]
    /\ probe' = [probe EXCEPT ![h] = NotProbing]
    /\ UNCHANGED <<hist, now, journal, histVars, fails, lost>>

Step(h) ==
    \/ LoadRead(h) \/ LoadStore(h) \/ LoadClearJournal(h)
    \/ \E p \in Paths : Mutate(h, p) \/ ProbePublish(h, p)
    \/ ProbeStart(h)
    \/ LoopWakes(h) \/ Flush(h)
    \/ Publish(h) \/ PublishConflict(h) \/ PublishLost(h) \/ CommitFails(h)
    \/ Rebase(h) \/ Apply(h)
    \/ Evict(h) \/ Crash(h)

Next == \E h \in Hubs : Step(h)

Spec == Init /\ [][Next]_vars

\* The commit loop is a goroutine parked on its trigger: once woken, a commit
\* runs to its end.  Nothing makes a flush, a failure or a new mutation happen.
CommitLoop(h) ==
    LoopWakes(h) \/ Publish(h) \/ PublishConflict(h) \/ Rebase(h) \/ Apply(h)

FairSpec == Spec /\ \A h \in Hubs : WF_vars(CommitLoop(h))

-----------------------------------------------------------------------------

TypeOK ==
    /\ hist \in Seq(Trees) /\ hist # <<>>
    /\ now \in Nat
    /\ hydrated \in [Hubs -> BOOLEAN]
    /\ meta \in [Hubs -> Trees]
    /\ sha \in [Hubs -> Nat]
    /\ base \in [Hubs -> Trees]
    /\ dirty \in [Hubs -> BOOLEAN]
    /\ pend \in [Hubs -> Ops]
    /\ seq \in [Hubs -> Nat]
    /\ journal \in [Hubs -> Ops]
    /\ trig \in [Hubs -> BOOLEAN]
    /\ commit \in [Hubs -> CommitState]
    /\ load \in [Hubs -> LoadState]
    /\ probe \in [Hubs -> ProbeState]
    /\ accepted \subseteq Accepted
    /\ landed \in [Hubs -> [Paths -> Nat]]
    /\ fails \in Nat /\ lost \in Nat /\ crashes \in Nat

\* The live tree a hub serves is the revision its token names with its pending
\* operations on top: nothing it shows can fail to be committed, and nothing it
\* has pending is hidden (applyCommittedTree, storeRepoMetadata).
Coherent ==
    \A h \in Hubs : hydrated[h] =>
        /\ sha[h] \in DOMAIN hist
        /\ meta[h] = Overlay(hist[sha[h]], pend[h])

\* Every cache is well-formed and coherent.
CachesSound == TypeOK /\ Coherent

\* What is pending is journalled: a crash at any moment can rebuild it.
JournalCovers ==
    \A h \in Hubs, p \in Paths :
        IsOp(pend[h][p]) => journal[h][p].ts = pend[h][p].ts

\* A hub's newest acknowledged mutation of a path is never just gone: it is
\* journalled, or it landed, or upstream outranked it in a rebase or a replay.
NoSilentLoss ==
    \A m \in accepted :
        \/ \E n \in accepted : n.hub = m.hub /\ n.path = m.path /\ n.ts > m.ts
        \/ m.ts <= landed[m.hub][m.path]
        \/ journal[m.hub][m.path].ts = m.ts

\* The hubs together keep the contract of the shared index.
Index == INSTANCE SharedIndex WITH index <- Upstream
IndexContract == Index!Spec

\* A push by h just moved the index.
Moves(h) == hist' # hist /\ commit[h].pc = "publish" /\ commit'[h] # commit[h]

\* Last writer wins: a landing batch replaces content only with a newer write.
LastWriterWins ==
    [][\A h \in Hubs, p \in Paths :
          Moves(h) /\ Upstream'[p] # Upstream[p] /\ Upstream[p] # Absent
          => commit[h].ops[p].ts > Upstream[p]]_vars

\* A rebase gives up a delete only when upstream holds something other than
\* what the caller deleted.
DeleteNotDropped ==
    [][\A h \in Hubs, p \in Paths :
          /\ commit[h].pc = "rebase" /\ commit'[h].pc = "publish"
          /\ p \in commit'[h].kept /\ commit[h].ops[p].val = Absent
          => Upstream[p] # commit[h].ops[p].over]_vars

\* The revision a cached project stands on only moves forward.
RevisionForward ==
    [][\A h \in Hubs : hydrated[h] /\ hydrated'[h] => sha'[h] >= sha[h]]_vars

\* Left to the next mutation, flush or shutdown: dirty, and nothing under way.
Shelved(h) == dirty[h] /\ ~trig[h] /\ commit[h].pc = "idle"

\* No wakeup is lost: the only way for acknowledged work to be left without a token is
\* a commit of that hub that fails or is out of attempts (recoverMetadataCommitFailure),
\* or a load that found it in the journal (storeRepoMetadata).
ShelvedByFailure ==
    [][\A h \in Hubs : ~Shelved(h) /\ Shelved(h)' =>
          \/ commit[h].pc \in {"publish", "rebase"} /\ commit'[h].pc = "idle"
          \/ load[h].pc = "store" /\ load'[h].pc = "idle"]_vars

\* Acknowledged work reaches the index without further help, unless the commit that
\* carries it gives up; then every later mutation starts it again (commitLoop).
EventuallyCommitted ==
    ShelvedByFailure /\ \A h \in Hubs : dirty[h] ~> (~dirty[h] \/ Shelved(h))

\* Nothing acknowledged is lost: what is pending is in the journal, and what is
\* in neither landed or was outranked (commit_publish.go, workflows.go).
NothingLost == JournalCovers /\ NoSilentLoss

\* What a rebase may decide: content yields to newer content only, and a delete
\* only to content its caller had not seen (rebase.go).
RebasePolicy == LastWriterWins /\ DeleteNotDropped

=============================================================================
