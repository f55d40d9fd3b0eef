------------------------ MODULE CommitPipeline_proofs ------------------------
(***************************************************************************)
(* Proofs about CommitPipeline, for any number of hubs and paths, any      *)
(* number of mutations, failed pushes, lost replies and crashes.           *)
(***************************************************************************)
EXTENDS CommitPipeline, TLAPS

\* What the revision history does when a tree is appended to it.
LEMMA HistoryGrows ==
    ASSUME NEW S, NEW s \in Seq(S), NEW t \in S
    PROVE  /\ Append(s, t) \in Seq(S)
           /\ Append(s, t) # <<>>
           /\ Len(s) \in Nat /\ Len(Append(s, t)) = Len(s) + 1
           /\ Append(s, t)[Len(s) + 1] = t
           /\ \A i \in DOMAIN s : i \in DOMAIN Append(s, t) /\ Append(s, t)[i] = s[i]
           /\ Len(s) + 1 \in DOMAIN Append(s, t)
    OBVIOUS

LEMMA UpstreamType ==
    ASSUME TypeOK
    PROVE  /\ Tip \in Nat /\ Tip \in DOMAIN hist
           /\ Upstream \in Trees
           /\ Upstream = hist[Tip]
    BY DEF TypeOK, Tip, Upstream

LEMMA BlankType ==
    /\ Blank \in Trees /\ NoOp \in Op /\ NoOps \in Ops
    BY DEF Blank, Trees, Absent, NoOp, Op, NoOps, Ops

LEMMA OverlayType ==
    ASSUME NEW t \in Trees, NEW ops \in Ops
    PROVE  Overlay(t, ops) \in Trees
    BY DEF Overlay, Trees, Ops, Op

LEMMA ClearType ==
    ASSUME NEW ops \in Ops, NEW q \in Nat
    PROVE  ClearUpTo(ops, q) \in Ops
    BY BlankType DEF ClearUpTo, Ops

LEMMA RestType ==
    /\ NotCommitting \in CommitState
    /\ NotLoading \in LoadState
    /\ NotProbing \in ProbeState
    BY BlankType DEF NotCommitting, NotLoading, NotProbing, CommitState, LoadState,
                     ProbeState

\* The updates the actions make to a commit in flight keep its type.
LEMMA CommitUpdates ==
    ASSUME NEW c \in CommitState
    PROVE  /\ \A v \in BOOLEAN : [c EXCEPT !.moved = v] \in CommitState
           /\ [c EXCEPT !.pc = "rebase"] \in CommitState
           /\ \A n \in Nat : [c EXCEPT !.pc = "apply", !.new = n] \in CommitState
    BY DEF CommitState

LEMMA TypeInit == Init => TypeOK
    <1> SUFFICES ASSUME Init PROVE TypeOK OBVIOUS
    <1>1. [p \in Paths |-> 1] \in Trees BY DEF Trees
    <1>2. hist \in Seq(Trees) /\ hist # <<>> BY <1>1 DEF Init
    <1> QED BY <1>2, BlankType, RestType DEF Init, TypeOK

LEMMA ForgottenType ==
    ASSUME TypeOK, NEW h \in Hubs, Forgotten(h)
    PROVE  /\ hydrated' \in [Hubs -> BOOLEAN] /\ meta' \in [Hubs -> Trees]
           /\ sha' \in [Hubs -> Nat] /\ base' \in [Hubs -> Trees]
           /\ dirty' \in [Hubs -> BOOLEAN] /\ pend' \in [Hubs -> Ops]
           /\ seq' \in [Hubs -> Nat] /\ trig' \in [Hubs -> BOOLEAN]
    BY BlankType DEF Forgotten, TypeOK

\* An accepted mutation leaves every variable it touches in its type.
LEMMA AcceptType ==
    ASSUME TypeOK, NEW h \in Hubs, NEW p \in Paths, NEW tree \in Trees, NEW v \in Nat,
           NEW ts \in Nat, Accept(h, tree, p, v, ts)
    PROVE  /\ meta' \in [Hubs -> Trees] /\ pend' \in [Hubs -> Ops]
           /\ journal' \in [Hubs -> Ops] /\ seq' \in [Hubs -> Nat]
           /\ dirty' \in [Hubs -> BOOLEAN] /\ trig' \in [Hubs -> BOOLEAN]
           /\ commit' \in [Hubs -> CommitState] /\ accepted' \subseteq Accepted
           /\ UNCHANGED <<hist, hydrated, sha, base, load, landed, budget>>
    <1> DEFINE op == [val |-> v, ts |-> ts, seq |-> seq[h] + 1, over |-> meta[h][p]]
    <1>1. op \in Op /\ [tree EXCEPT ![p] = v] \in Trees
        BY DEF TypeOK, Trees, Op
    <1>2. [pend[h] EXCEPT ![p] = op] \in Ops /\ [journal[h] EXCEPT ![p] = op] \in Ops
        BY <1>1 DEF TypeOK, Ops
    <1>3. [commit[h] EXCEPT !.moved = commit[h].pc # "idle"] \in CommitState
        <2>1. commit[h] \in CommitState BY DEF TypeOK
        <2>2. (commit[h].pc # "idle") \in BOOLEAN OBVIOUS
        <2> QED BY <2>1, <2>2 DEF CommitState
    <1>4. /\ meta' = [meta EXCEPT ![h] = [tree EXCEPT ![p] = v]]
          /\ pend' = [pend EXCEPT ![h] = [pend[h] EXCEPT ![p] = op]]
          /\ journal' = [journal EXCEPT ![h] = [journal[h] EXCEPT ![p] = op]]
          /\ commit' = [commit EXCEPT ![h] = [commit[h] EXCEPT !.moved = commit[h].pc # "idle"]]
        BY DEF Accept, Poke, TypeOK
    <1>5. accepted' \subseteq Accepted BY DEF Accept, Poke, TypeOK, Accepted
    <1> HIDE DEF op
    <1>6. meta' \in [Hubs -> Trees] /\ pend' \in [Hubs -> Ops] /\ journal' \in [Hubs -> Ops]
        BY <1>1, <1>2, <1>4 DEF TypeOK
    <1>7. commit' \in [Hubs -> CommitState] BY <1>3, <1>4 DEF TypeOK
    <1>8. seq' \in [Hubs -> Nat] BY DEF Accept, TypeOK
    <1>9. dirty' \in [Hubs -> BOOLEAN] /\ trig' \in [Hubs -> BOOLEAN] BY DEF Accept, Poke, TypeOK
    <1>10. UNCHANGED <<hist, hydrated, sha, base, load, landed, budget>> BY DEF Accept
    <1> QED BY <1>5, <1>6, <1>7, <1>8, <1>9, <1>10

LEMMA TypeLoads ==
    ASSUME TypeOK, NEW h \in Hubs, LoadRead(h) \/ LoadStore(h) \/ LoadClearJournal(h)
    PROVE  TypeOK'
    <1>1. CASE LoadRead(h)
        <2> DEFINE drop == {p \in Paths : NewerThan(Upstream[p], journal[h][p])}
                   kept == [p \in Paths |-> IF ~hydrated[h] /\ p \notin drop
                                            THEN journal[h][p] ELSE NoOp]
                   new  == [pc |-> "store", tree |-> Overlay(Upstream, kept),
                            sha |-> Tip, ops |-> kept]
        <2>1. kept \in Ops BY BlankType DEF TypeOK, Ops
        <2>2. new \in LoadState BY <2>1, OverlayType, UpstreamType DEF LoadState
        <2>3. load' \in [Hubs -> LoadState]
            <3>1. load' = [load EXCEPT ![h] = new] BY <1>1 DEF LoadRead
            <3> QED BY <2>2, <3>1 DEF TypeOK
        <2>4. landed' \in [Hubs -> [Paths -> Nat]]
            BY <1>1 DEF LoadRead, TypeOK, Ops, Op
        <2> QED BY <1>1, <2>3, <2>4 DEF LoadRead, TypeOK, cacheVars, budget
    <1>2. CASE LoadStore(h)
        <2> DEFINE l == load[h]
        <2>1. l \in LoadState BY DEF TypeOK
        <2>2. [p \in Paths |-> IF IsOp(l.ops[p]) THEN [l.ops[p] EXCEPT !.seq = 1] ELSE NoOp] \in Ops
            BY <2>1, BlankType DEF LoadState, Ops, Op
        <2>3. /\ meta' \in [Hubs -> Trees] /\ sha' \in [Hubs -> Nat]
              /\ base' \in [Hubs -> Trees] /\ pend' \in [Hubs -> Ops]
            BY <1>2, <2>1, <2>2 DEF LoadStore, AfterStore, TypeOK, LoadState
        <2>4. /\ seq' \in [Hubs -> Nat] /\ dirty' \in [Hubs -> BOOLEAN]
              /\ hydrated' \in [Hubs -> BOOLEAN]
            BY <1>2 DEF LoadStore, AfterStore, TypeOK
        <2>5. PICK v \in BOOLEAN : commit' = [commit EXCEPT ![h] = [commit[h] EXCEPT !.moved = v]]
            <3> DEFINE adopt == \/ \E p \in Paths : IsOp(l.ops[p])
                               \/ ~(dirty[h] \/ \E p \in Paths : IsOp(pend[h][p]))
                       v == commit[h].moved \/ (adopt /\ commit[h].pc # "idle")
            <3>1. commit[h].moved \in BOOLEAN BY DEF TypeOK, CommitState
            <3>2. commit' = [commit EXCEPT ![h].moved = v] BY <1>2 DEF LoadStore, AfterStore
            <3> HIDE DEF adopt
            <3>3. v \in BOOLEAN BY <3>1
            <3> QED BY <3>2, <3>3 DEF TypeOK
        <2>7. commit' \in [Hubs -> CommitState] 
            BY <2>5, CommitUpdates DEF TypeOK
        <2>6. load' \in [Hubs -> LoadState]
            BY <1>2, RestType DEF LoadStore, AfterStore, TypeOK, LoadState
        <2> QED BY <1>2, <2>3, <2>4, <2>5, <2>6, <2>7 DEF LoadStore, AfterStore, TypeOK, histVars, budget
    <1>3. CASE LoadClearJournal(h)
        BY <1>3, BlankType, RestType DEF LoadClearJournal, TypeOK, cacheVars, histVars, budget
    <1> QED BY <1>1, <1>2, <1>3

LEMMA TypeMutations ==
    ASSUME TypeOK, NEW h \in Hubs,
           (\E p \in Paths : Mutate(h, p) \/ ProbePublish(h, p)) \/ ProbeStart(h)
    PROVE  TypeOK'
    <1>1. ASSUME NEW p \in Paths, Mutate(h, p) PROVE TypeOK'
        <2>1. now' \in Nat /\ meta[h] \in Trees BY <1>1 DEF Mutate, TypeOK
        <2>2. PICK v \in {now', Absent} : Accept(h, meta[h], p, v, now') BY <1>1 DEF Mutate
        <2>3. v \in Nat BY <2>1, <2>2 DEF Absent
        <2> QED BY <1>1, <2>1, <2>2, <2>3, AcceptType DEF Mutate, TypeOK, budget
    <1>2. CASE ProbeStart(h)
        <2>1. [pc |-> "probing", tree |-> meta[h], ts |-> now'] \in ProbeState
            BY <1>2 DEF ProbeStart, TypeOK, ProbeState
        <2>2. probe' \in [Hubs -> ProbeState] BY <1>2, <2>1 DEF ProbeStart, TypeOK
        <2> QED BY <1>2, <2>2 DEF ProbeStart, TypeOK, cacheVars, histVars, budget
    <1>3. ASSUME NEW p \in Paths, ProbePublish(h, p) PROVE TypeOK'
        <2>1. probe[h] \in ProbeState BY DEF TypeOK
        <2>2. probe[h].tree \in Trees /\ probe[h].ts \in Nat BY <2>1 DEF ProbeState
        <2>3. probe' \in [Hubs -> ProbeState] BY <1>3, RestType DEF ProbePublish, TypeOK
        <2> QED BY <1>3, <2>2, <2>3, AcceptType DEF ProbePublish, TypeOK, budget
    <1> QED BY <1>1, <1>2, <1>3

LEMMA TypeCommitStarts ==
    ASSUME TypeOK, NEW h \in Hubs, LoopWakes(h) \/ Flush(h)
    PROVE  TypeOK'
    <1>1. trig' \in [Hubs -> BOOLEAN] BY DEF LoopWakes, Flush, TypeOK
    <1>2. ASSUME Freeze(h) PROVE TypeOK'
        <2> DEFINE snap == [pc |-> "publish", work |-> meta[h], prev |-> sha[h], new |-> 0,
                            ops |-> pend[h], opSeq |-> seq[h], base |-> base[h], kept |-> {},
                            tries |-> 1, rebased |-> FALSE, moved |-> FALSE]
        <2>1. snap \in CommitState BY DEF TypeOK, CommitState
        <2>2. commit' = [commit EXCEPT ![h] = snap] BY <1>2 DEF Freeze
        <2>3. commit' \in [Hubs -> CommitState] BY <2>1, <2>2 DEF TypeOK
        <2> QED BY <1>1, <1>2, <2>3 DEF Freeze, TypeOK, histVars, budget
    <1> QED BY <1>1, <1>2 DEF LoopWakes, Flush, TypeOK, histVars, budget

LEMMA TypeConflicted ==
    ASSUME TypeOK, NEW h \in Hubs, Conflicted(h) \/ commit' = [commit EXCEPT ![h] = NotCommitting]
    PROVE  commit' \in [Hubs -> CommitState]
    <1>1. commit[h] \in CommitState BY DEF TypeOK
    <1>2. [commit[h] EXCEPT !.pc = "rebase"] \in CommitState BY <1>1, CommitUpdates
    <1> QED BY <1>1, <1>2, RestType DEF Conflicted, TypeOK

LEMMA TypeAdvance ==
    ASSUME TypeOK, NEW h \in Hubs, Advance(h)
    PROVE  /\ hist' \in Seq(Trees) /\ hist' # <<>> /\ Len(hist') \in Nat
           /\ landed' \in [Hubs -> [Paths -> Nat]]
    <1>1. commit[h] \in CommitState BY DEF TypeOK
    <1>2. commit[h].work \in Trees /\ commit[h].ops \in Ops BY <1>1 DEF CommitState
    <1>3. hist' = Append(hist, commit[h].work) BY DEF Advance
    <1>4. hist' \in Seq(Trees) /\ hist' # <<>> /\ Len(hist') \in Nat
        <2>1. hist \in Seq(Trees) BY DEF TypeOK
        <2> QED BY <1>2, <1>3, <2>1, HistoryGrows
    <1>5. landed' \in [Hubs -> [Paths -> Nat]]
        BY <1>2 DEF Advance, TypeOK, Ops, Op
    <1> QED BY <1>4, <1>5

LEMMA TypeCommits ==
    ASSUME TypeOK, NEW h \in Hubs,
           \/ Publish(h) \/ PublishConflict(h) \/ PublishLost(h)
           \/ CommitFails(h) \/ Rebase(h) \/ Apply(h)
    PROVE  TypeOK'
    <1> DEFINE c == commit[h]
    <1>0. c \in CommitState BY DEF TypeOK
    <1>1. CASE Publish(h)
        <2>1. hist' \in Seq(Trees) /\ hist' # <<>> /\ Len(hist') \in Nat
              /\ landed' \in [Hubs -> [Paths -> Nat]]
            BY <1>1, TypeAdvance DEF Publish
        <2>2. [c EXCEPT !.pc = "apply", !.new = Len(hist')] \in CommitState
            BY <1>0, <2>1, CommitUpdates
        <2>3. commit' = [commit EXCEPT ![h] = [c EXCEPT !.pc = "apply", !.new = Len(hist')]]
            BY <1>1 DEF Publish, TypeOK
        <2>4. commit' \in [Hubs -> CommitState] BY <2>2, <2>3 DEF TypeOK
        <2> QED BY <1>1, <2>1, <2>4 DEF Publish, TypeOK, cacheVars, budget
    <1>2. CASE PublishConflict(h)
        <2>1. commit' \in [Hubs -> CommitState]
            BY <1>2, TypeConflicted DEF PublishConflict
        <2> QED BY <1>2, <2>1 DEF PublishConflict, TypeOK, cacheVars, histVars, budget
    <1>3. CASE PublishLost(h)
        <2>1. hist' \in Seq(Trees) /\ hist' # <<>> /\ landed' \in [Hubs -> [Paths -> Nat]]
            BY <1>3, TypeAdvance DEF PublishLost
        <2>2. commit' \in [Hubs -> CommitState]
            BY <1>3, TypeConflicted DEF PublishLost
        <2> QED BY <1>3, <2>1, <2>2 DEF PublishLost, TypeOK, cacheVars
    <1>4. CASE CommitFails(h)
        <2>1. commit' \in [Hubs -> CommitState] BY <1>4, RestType DEF CommitFails, TypeOK
        <2> QED BY <1>4, <2>1 DEF CommitFails, TypeOK, cacheVars, histVars
    <1>5. CASE Rebase(h)
        <2> DEFINE kept == {p \in Paths : /\ IsOp(c.ops[p])
                                          /\ Outranks(Upstream[p], c.base[p], c.ops[p])}
                   work == RebasedTree(c, kept)
                   new  == [c EXCEPT !.pc = "publish", !.prev = Tip, !.tries = @ + 1,
                                     !.rebased = TRUE, !.kept = kept, !.work = work]
        <2>1. work \in Trees BY <1>0, UpstreamType DEF RebasedTree, CommitState, Trees, Ops, Op
        <2>2. c.tries + 1 \in Nat
            BY <1>0 DEF CommitState
        <2>3. new \in CommitState BY <1>0, <2>1, <2>2, UpstreamType DEF CommitState
        <2>4. commit' = [commit EXCEPT ![h] = new] BY <1>5 DEF Rebase
        <2>5. commit' \in [Hubs -> CommitState] BY <2>3, <2>4 DEF TypeOK
        <2> QED BY <1>5, <2>5 DEF Rebase, TypeOK, cacheVars, histVars, budget
    <1>6. CASE Apply(h)
        <2>1. c.work \in Trees /\ c.new \in Nat /\ c.moved \in BOOLEAN /\ c.opSeq \in Nat
            BY <1>0 DEF CommitState
        <2>2. ClearUpTo(pend[h], c.opSeq) \in Ops BY <2>1, ClearType DEF TypeOK
        <2>3. Overlay(c.work, ClearUpTo(pend[h], c.opSeq)) \in Trees BY <2>1, <2>2, OverlayType
        <2>4. /\ sha' \in [Hubs -> Nat] /\ base' \in [Hubs -> Trees]
              /\ pend' \in [Hubs -> Ops] /\ journal' \in [Hubs -> Ops]
              /\ dirty' \in [Hubs -> BOOLEAN]
            BY <1>6, <2>1, <2>2 DEF Apply, AppliedTree, TypeOK
        <2>5. meta' \in [Hubs -> Trees] BY <1>6, <2>1, <2>3 DEF Apply, AppliedTree, TypeOK
        <2>6. commit' \in [Hubs -> CommitState] BY <1>6, RestType DEF Apply, AppliedTree, TypeOK
        <2> QED BY <1>6, <2>4, <2>5, <2>6 DEF Apply, AppliedTree, TypeOK, histVars, budget
    <1> QED BY <1>1, <1>2, <1>3, <1>4, <1>5, <1>6

LEMMA TypeLeaving ==
    ASSUME TypeOK, NEW h \in Hubs, Evict(h) \/ Crash(h)
    PROVE  TypeOK'
    <1>1. CASE Evict(h)
        BY <1>1, ForgottenType DEF Evict, TypeOK, histVars, budget
    <1>2. CASE Crash(h)
        <2>1. /\ commit' \in [Hubs -> CommitState] /\ load' \in [Hubs -> LoadState]
              /\ probe' \in [Hubs -> ProbeState]
            BY <1>2, RestType DEF Crash, TypeOK
        <2>2. Forgotten(h) /\ UNCHANGED <<hist, now, journal, histVars, fails, lost>> /\ crashes' = crashes + 1
            BY <1>2 DEF Crash
        <2>3. crashes' \in Nat BY <2>2 DEF TypeOK
        <2> QED BY <2>1, <2>2, <2>3, ForgottenType DEF TypeOK, histVars
    <1> QED BY <1>1, <1>2

LEMMA TypeNext == TypeOK /\ [Next]_vars => TypeOK'
    <1>1. ASSUME TypeOK, UNCHANGED vars PROVE TypeOK'
        BY <1>1 DEF TypeOK, vars, cacheVars, histVars, budget
    <1>2. ASSUME TypeOK, NEW h \in Hubs, Step(h) PROVE TypeOK'
        BY <1>2, TypeLoads, TypeMutations, TypeCommitStarts, TypeCommits, TypeLeaving DEF Step
    <1> QED BY <1>1, <1>2 DEF Next

\* Type correctness: however many hubs interleave, fail and crash, every part of
\* the pipeline's state keeps its type.
THEOREM TypeCorrect == Spec => []TypeOK
    BY TypeInit, TypeNext, PTL DEF Spec

-----------------------------------------------------------------------------
(* Coherence of the cache.                                                 *)

\* A cold entry holds nothing of its own and commits nothing.
ColdIsQuiet(h) ==
    ~hydrated[h] => ~dirty[h] /\ commit[h].pc = "idle" /\ pend[h] = NoOps

\* Every pending operation is numbered below the hub's counter.
Numbered(h) == \A p \in Paths : pend[h][p].seq <= seq[h]

\* A load about to be stored is a past revision with the replay on top, and
\* nothing was replayed unless the entry it is for is still cold.
LoadedTree(h) ==
    load[h].pc = "store" =>
        /\ hydrated[h] => load[h].ops = NoOps
        /\ load[h].sha \in DOMAIN hist
        /\ load[h].tree = Overlay(hist[load[h].sha], load[h].ops)

\* The frozen batch and the pending stack: a path still holds what was frozen,
\* or something newer than the cutoff; if nothing moved they are the same.
FrozenBatch(h) ==
    LET c == commit[h] IN
    c.pc # "idle" =>
        /\ dirty[h]
        /\ c.opSeq <= seq[h]
        /\ \A p \in Paths :
              /\ c.ops[p].seq <= c.opSeq
              /\ \/ pend[h][p] = c.ops[p]
                 \/ IsOp(pend[h][p]) /\ pend[h][p].seq > c.opSeq
        /\ ~c.moved => pend[h] = c.ops

\* What an attempt publishes, and what has landed once it did.
WorkingTree(h) ==
    LET c == commit[h] IN
    c.pc # "idle" =>
        /\ ~c.rebased => c.work = Overlay(hist[sha[h]], c.ops)
        /\ c.pc = "apply" => c.new \in DOMAIN hist /\ hist[c.new] = c.work

CoherentHub(h) ==
    hydrated[h] => sha[h] \in DOMAIN hist /\ meta[h] = Overlay(hist[sha[h]], pend[h])

HubInv(h) ==
    /\ ColdIsQuiet(h) /\ Numbered(h) /\ LoadedTree(h) /\ FrozenBatch(h)
    /\ WorkingTree(h) /\ CoherentHub(h) /\ probe[h].pc = "idle"

CacheInv == \A h \in Hubs : HubInv(h)

\* What a step of one hub leaves alone at another.
SameHub(g) ==
    /\ hydrated'[g] = hydrated[g] /\ meta'[g] = meta[g] /\ sha'[g] = sha[g]
    /\ dirty'[g] = dirty[g] /\ pend'[g] = pend[g] /\ seq'[g] = seq[g]
    /\ commit'[g] = commit[g] /\ load'[g] = load[g] /\ probe'[g] = probe[g]

HistoryKept == \A i \in DOMAIN hist : i \in DOMAIN hist' /\ hist'[i] = hist[i]

LEMMA AdvanceGrows ==
    ASSUME TypeOK, NEW h \in Hubs, Advance(h)
    PROVE  /\ HistoryKept
           /\ Len(hist') \in DOMAIN hist' /\ hist'[Len(hist')] = commit[h].work
    <1>1. hist \in Seq(Trees) /\ commit[h].work \in Trees BY DEF TypeOK, CommitState
    <1>2. hist' = Append(hist, commit[h].work) BY DEF Advance
    <1> QED BY <1>1, <1>2, HistoryGrows DEF HistoryKept

\* Every step belongs to one hub: it only appends to the history and leaves the
\* caches of the others alone.
LEMMA StepFrame ==
    ASSUME TypeOK, NEW h \in Hubs, Step(h)
    PROVE  HistoryKept /\ \A g \in Hubs \ {h} : SameHub(g)
    <1> USE DEF cacheVars, histVars, budget, SameHub
    <1>1. CASE Publish(h)
        BY <1>1, AdvanceGrows DEF Publish, TypeOK
    <1>2. CASE PublishLost(h)
        BY <1>2, AdvanceGrows DEF PublishLost, Conflicted, TypeOK
    <1>3. CASE LoadRead(h)
        BY <1>3 DEF LoadRead, TypeOK, HistoryKept
    <1>4. CASE LoadStore(h)
        BY <1>4 DEF LoadStore, AfterStore, TypeOK, HistoryKept
    <1>5. CASE LoadClearJournal(h)
        BY <1>5 DEF LoadClearJournal, TypeOK, HistoryKept
    <1>6. ASSUME NEW p \in Paths, NEW t, NEW v, NEW ts, Accept(h, t, p, v, ts)
          PROVE  /\ HistoryKept
                 /\ \A g \in Hubs \ {h} : probe'[g] = probe[g] => SameHub(g)
        BY <1>6 DEF Accept, Poke, TypeOK, HistoryKept
    <1>7. ASSUME NEW p \in Paths, Mutate(h, p) \/ ProbePublish(h, p)
          PROVE  HistoryKept /\ \A g \in Hubs \ {h} : SameHub(g)
        <2>1. \A g \in Hubs \ {h} : probe'[g] = probe[g]
            BY <1>7 DEF Mutate, ProbePublish, TypeOK
        <2> QED BY <1>6, <1>7, <2>1 DEF Mutate, ProbePublish
    <1>8. CASE ProbeStart(h)
        BY <1>8 DEF ProbeStart, TypeOK, HistoryKept
    <1>9. CASE LoopWakes(h) \/ Flush(h)
        BY <1>9 DEF LoopWakes, Flush, Freeze, TypeOK, HistoryKept
    <1>10. CASE PublishConflict(h) \/ CommitFails(h)
        BY <1>10 DEF PublishConflict, CommitFails, Conflicted, TypeOK, HistoryKept
    <1>11. CASE Rebase(h)
        BY <1>11 DEF Rebase, TypeOK, HistoryKept
    <1>12. CASE Apply(h)
        BY <1>12 DEF Apply, AppliedTree, TypeOK, HistoryKept
    <1>13. CASE Evict(h) \/ Crash(h)
        BY <1>13 DEF Evict, Crash, Forgotten, TypeOK, HistoryKept
    <1> QED BY <1>1, <1>2, <1>3, <1>4, <1>5, <1>7, <1>8, <1>9, <1>10, <1>11, <1>12, <1>13
            DEF Step

\* A hub whose cache is left alone keeps its invariant while the history grows.
LEMMA OthersKeep ==
    ASSUME TypeOK, NEW g \in Hubs, HubInv(g), HistoryKept, SameHub(g)
    PROVE  HubInv(g)'
    BY DEF HubInv, SameHub, HistoryKept, ColdIsQuiet, Numbered, LoadedTree, FrozenBatch,
           WorkingTree, CoherentHub

\* Adopting a load: the tree, the token and the stack change together.
LEMMA LoadsKeep ==
    ASSUME TypeOK, NEW h \in Hubs, HubInv(h),
           LoadRead(h) \/ LoadStore(h) \/ LoadClearJournal(h)
    PROVE  HubInv(h)'
    <1>1. CASE LoadRead(h)
        <2> DEFINE drop == {p \in Paths : NewerThan(Upstream[p], journal[h][p])}
                   kept == [p \in Paths |-> IF ~hydrated[h] /\ p \notin drop
                                            THEN journal[h][p] ELSE NoOp]
        <2>1. /\ load'[h] = [pc |-> "store", tree |-> Overlay(Upstream, kept),
                             sha |-> Tip, ops |-> kept]
              /\ hydrated[h] => kept = NoOps
            BY <1>1 DEF LoadRead, TypeOK, NoOps
        <2>2. UNCHANGED <<hist, hydrated, meta, sha, dirty, pend, seq, commit, probe>>
            BY <1>1 DEF LoadRead, cacheVars
        <2>3. LoadedTree(h)' BY <2>1, <2>2, UpstreamType DEF LoadedTree
        <2> QED BY <2>2, <2>3 DEF HubInv, ColdIsQuiet, Numbered, FrozenBatch, WorkingTree,
                                  CoherentHub
    <1>2. CASE LoadStore(h)
        <2> DEFINE l == load[h]
                   ops == [p \in Paths |-> IF IsOp(l.ops[p]) THEN [l.ops[p] EXCEPT !.seq = 1]
                                           ELSE NoOp]
                   replayed == \E p \in Paths : IsOp(l.ops[p])
                   busy == dirty[h] \/ \E p \in Paths : IsOp(pend[h][p])
        <2>0. l \in LoadState /\ l.ops \in Ops /\ commit[h] \in CommitState
            BY DEF TypeOK, LoadState
        <2>1. /\ l.sha \in DOMAIN hist /\ l.tree = Overlay(hist[l.sha], l.ops)
              /\ hydrated[h] => ~replayed
            BY <1>2 DEF HubInv, LoadedTree, LoadStore, NoOps, NoOp, IsOp
        <2>2. ~hydrated[h] => ~busy
            BY DEF HubInv, ColdIsQuiet, NoOps, NoOp, IsOp
        <2>3. hydrated'[h] /\ load'[h].pc # "store" /\ UNCHANGED <<hist, probe>>
            BY <1>2 DEF LoadStore, AfterStore, TypeOK, LoadState, NotLoading
        <2>4. CASE replayed \/ ~busy
            <3>1. ~busy /\ commit[h].pc = "idle"
                BY <2>1, <2>2, <2>4 DEF HubInv, FrozenBatch
            <3>2. /\ meta'[h] = l.tree /\ sha'[h] = l.sha /\ pend'[h] = ops
                  /\ commit'[h].pc = "idle"
                BY <1>2, <2>0, <2>4, <3>1 DEF LoadStore, AfterStore, TypeOK, CommitState
            <3>3. \A p \in Paths : pend'[h][p].seq <= seq'[h]
                <4>1. CASE replayed
                    <5>1. seq'[h] = 1 BY <1>2, <4>1 DEF LoadStore, AfterStore, TypeOK
                    <5> QED BY <2>0, <3>2, <5>1 DEF Ops, Op, NoOp
                <4>2. CASE ~replayed
                    <5>1. seq'[h] = seq[h] /\ seq[h] \in Nat BY <1>2, <4>2 DEF LoadStore, AfterStore, TypeOK
                    <5> QED BY <3>2, <4>2, <5>1 DEF NoOp
                <4> QED BY <4>1, <4>2
            <3>4. Overlay(hist[l.sha], ops) = Overlay(hist[l.sha], l.ops)
                BY <2>0 DEF Overlay, Ops, Op, IsOp, NoOp
            <3> HIDE DEF l, ops, replayed, busy
            <3> QED BY <2>1, <2>3, <3>1, <3>2, <3>3, <3>4
                    DEF HubInv, ColdIsQuiet, Numbered, LoadedTree, FrozenBatch, WorkingTree,
                        CoherentHub
        <2>5. CASE ~replayed /\ busy
            <3>1. hydrated[h] BY <2>2, <2>5
            <3>2. /\ meta'[h] = meta[h] /\ sha'[h] = sha[h] /\ pend'[h] = pend[h]
                  /\ seq'[h] = seq[h] /\ dirty'[h] = dirty[h]
                BY <1>2, <2>5 DEF LoadStore, AfterStore, TypeOK
            <3>3. commit'[h] = commit[h]
                <4>1. commit' = [commit EXCEPT ![h].moved =
                                    @ \/ ((replayed \/ ~busy) /\ commit[h].pc # "idle")]
                    BY <1>2 DEF LoadStore, AfterStore
                <4>2. commit'[h] = [commit[h] EXCEPT !.moved = commit[h].moved \/ FALSE]
                    BY <2>5, <4>1 DEF TypeOK
                <4> QED BY <2>0, <4>2 DEF CommitState
            <3> HIDE DEF l, ops, replayed, busy
            <3> QED BY <2>3, <3>1, <3>2, <3>3
                    DEF HubInv, ColdIsQuiet, Numbered, LoadedTree, FrozenBatch, WorkingTree,
                        CoherentHub
        <2> QED BY <2>4, <2>5
    <1>3. CASE LoadClearJournal(h)
        <2>1. load'[h].pc = "idle" BY <1>3 DEF LoadClearJournal, TypeOK, NotLoading
        <2>2. UNCHANGED <<hist, hydrated, meta, sha, dirty, pend, seq, commit, probe>>
            BY <1>3 DEF LoadClearJournal, cacheVars
        <2> QED BY <2>1, <2>2 DEF HubInv, ColdIsQuiet, Numbered, LoadedTree, FrozenBatch,
                                  WorkingTree, CoherentHub
    <1> QED BY <1>1, <1>2, <1>3

\* A transaction numbers its operation above every cutoff already frozen.
LEMMA MutationsKeep ==
    ASSUME ~LargeTree, TypeOK, NEW h \in Hubs, HubInv(h),
           (\E p \in Paths : Mutate(h, p) \/ ProbePublish(h, p)) \/ ProbeStart(h)
    PROVE  HubInv(h)'
    <1>1. PICK p \in Paths : Mutate(h, p)
        BY DEF ProbePublish, ProbeStart, HubInv
    <1>2. PICK v \in {now', Absent} : Accept(h, meta[h], p, v, now')
        BY <1>1 DEF Mutate
    <1>3. now' # 0 /\ now' \in Nat /\ v \in Nat BY <1>1, <1>2 DEF Mutate, TypeOK, Absent
    <1> DEFINE op == [val |-> v, ts |-> now', seq |-> seq[h] + 1, over |-> meta[h][p]]
    <1>4. /\ meta'[h] = [meta[h] EXCEPT ![p] = v]
          /\ pend'[h] = [pend[h] EXCEPT ![p] = op]
          /\ seq'[h] = seq[h] + 1 /\ dirty'[h]
          /\ commit'[h] = [commit[h] EXCEPT !.moved = (commit[h].pc # "idle")]
          /\ UNCHANGED <<hist, hydrated, sha, load, probe>>
        <2>1. /\ meta' = [meta EXCEPT ![h] = [meta[h] EXCEPT ![p] = v]]
              /\ pend' = [pend EXCEPT ![h][p] = op]
              /\ seq' = [seq EXCEPT ![h] = seq[h] + 1]
              /\ dirty' = [dirty EXCEPT ![h] = TRUE]
              /\ commit' = [commit EXCEPT ![h].moved = (commit[h].pc # "idle")]
            BY <1>2 DEF Accept, Poke
        <2>2. UNCHANGED <<hist, hydrated, sha, load, probe>>
            BY <1>1, <1>2 DEF Accept, Poke, Mutate
        <2> HIDE DEF op
        <2>3. /\ meta'[h] = [meta[h] EXCEPT ![p] = v] /\ seq'[h] = seq[h] + 1 /\ dirty'[h]
              /\ pend'[h] = [pend[h] EXCEPT ![p] = op]
            BY <2>1 DEF TypeOK
        <2>4. commit'[h] = [commit[h] EXCEPT !.moved = (commit[h].pc # "idle")]
            BY <2>1 DEF TypeOK
        <2> QED BY <2>2, <2>3, <2>4
    <1>5. hydrated[h] /\ sha[h] \in DOMAIN hist /\ meta[h] = Overlay(hist[sha[h]], pend[h])
        BY <1>1 DEF Mutate, CanMutate, HubInv, CoherentHub
    <1>6. IsOp(op) /\ op.val = v /\ op.seq = seq[h] + 1 BY <1>3 DEF IsOp
    <1>7. /\ seq[h] \in Nat /\ pend[h] \in Ops /\ commit[h] \in CommitState
          /\ commit[h].opSeq \in Nat /\ commit[h].ops \in Ops
          /\ hist[sha[h]] \in Trees
        BY <1>5 DEF TypeOK, CommitState
    <1> HIDE DEF op
    <1>8. meta'[h] = Overlay(hist[sha[h]], pend'[h])
        BY <1>4, <1>5, <1>6, <1>7 DEF Overlay, Ops
    <1>9. Numbered(h)'
        <2>1. \A q \in Paths : pend[h][q].seq <= seq[h] /\ pend[h][q].seq \in Nat
            BY <1>7 DEF HubInv, Numbered, Ops, Op
        <2> QED BY <1>4, <1>6, <1>7, <2>1 DEF Numbered, Ops
    <1>10. FrozenBatch(h)'
        <2>1. SUFFICES ASSUME commit[h].pc # "idle" PROVE FrozenBatch(h)'
            BY <1>4, <1>7 DEF FrozenBatch, CommitState
        <2>2. commit'[h].opSeq = commit[h].opSeq /\ commit'[h].ops = commit[h].ops
              /\ commit'[h].moved
            BY <1>4, <1>7, <2>1 DEF CommitState
        <2>3. /\ commit[h].opSeq <= seq[h]
              /\ \A q \in Paths :
                    /\ commit[h].ops[q].seq <= commit[h].opSeq
                    /\ \/ pend[h][q] = commit[h].ops[q]
                       \/ IsOp(pend[h][q]) /\ pend[h][q].seq > commit[h].opSeq
            BY <2>1 DEF HubInv, FrozenBatch
        <2> QED BY <1>4, <1>6, <1>7, <2>2, <2>3 DEF FrozenBatch, Ops
    <1>11. WorkingTree(h)'
        BY <1>4, <1>7 DEF HubInv, WorkingTree, CommitState
    <1> QED BY <1>4, <1>5, <1>8, <1>9, <1>10, <1>11
            DEF HubInv, ColdIsQuiet, LoadedTree, CoherentHub

\* Freezing: nothing is pending beyond the cutoff, and the working tree is the
\* coherent tree of the moment.
LEMMA CommitStartsKeep ==
    ASSUME TypeOK, NEW h \in Hubs, HubInv(h), LoopWakes(h) \/ Flush(h)
    PROVE  HubInv(h)'
    <1>1. UNCHANGED <<hist, hydrated, meta, sha, dirty, pend, seq, load, probe>>
        BY DEF LoopWakes, Flush, Freeze
    <1>2. ASSUME Freeze(h) PROVE FrozenBatch(h)' /\ WorkingTree(h)' /\ ColdIsQuiet(h)'
        <2>1. commit'[h] = [pc |-> "publish", work |-> meta[h], prev |-> sha[h], new |-> 0,
                            ops |-> pend[h], opSeq |-> seq[h], base |-> base[h], kept |-> {},
                            tries |-> 1, rebased |-> FALSE, moved |-> FALSE]
            BY <1>2 DEF Freeze, TypeOK
        <2>2. hydrated[h] BY <1>2 DEF Freeze, HubInv, ColdIsQuiet
        <2>3. seq[h] \in Nat BY DEF TypeOK
        <2>4. dirty[h] BY <1>2 DEF Freeze
        <2> QED BY <1>1, <2>1, <2>2, <2>3, <2>4
                DEF HubInv, FrozenBatch, WorkingTree, ColdIsQuiet, Numbered, CoherentHub
    <1>3. CASE UNCHANGED commit
        BY <1>1, <1>3 DEF HubInv, ColdIsQuiet, Numbered, LoadedTree, FrozenBatch, WorkingTree,
                          CoherentHub
    <1>4. CASE Freeze(h)
        BY <1>1, <1>2, <1>4 DEF HubInv, Numbered, LoadedTree, CoherentHub
    <1> QED BY <1>3, <1>4 DEF LoopWakes, Flush

\* The attempts of a commit change nothing the cache holds.
LEMMA AttemptsKeep ==
    ASSUME TypeOK, NEW h \in Hubs, HubInv(h), HistoryKept,
           \/ Publish(h) \/ PublishConflict(h) \/ PublishLost(h)
           \/ CommitFails(h) \/ Rebase(h)
    PROVE  HubInv(h)'
    <1> DEFINE c == commit[h]
    <1>1. /\ UNCHANGED <<hydrated, meta, sha, dirty, pend, seq, load, probe>>
          /\ c \in CommitState /\ c.pc # "idle"
        BY DEF Publish, PublishConflict, PublishLost, CommitFails, Rebase, Advance, TypeOK,
               cacheVars
    <1>2. ColdIsQuiet(h)' /\ Numbered(h)' /\ LoadedTree(h)' /\ CoherentHub(h)' /\ hydrated[h]
        <2>1. hydrated[h] BY <1>1 DEF HubInv, ColdIsQuiet
        <2> QED BY <1>1, <2>1 DEF HubInv, ColdIsQuiet, Numbered, LoadedTree, CoherentHub,
                                  HistoryKept
    <1>3. sha[h] \in DOMAIN hist /\ hist'[sha[h]] = hist[sha[h]]
        BY <1>2 DEF HubInv, CoherentHub, HistoryKept
    <1>4. CASE commit'[h].pc = "idle"
        BY <1>1, <1>2, <1>4 DEF HubInv, FrozenBatch, WorkingTree
    <1>5. CASE /\ commit'[h].ops = c.ops /\ commit'[h].opSeq = c.opSeq
               /\ commit'[h].moved = c.moved /\ commit'[h].pc # "apply"
               /\ \/ commit'[h].rebased
                  \/ commit'[h].work = c.work /\ commit'[h].rebased = c.rebased
        <2>1. FrozenBatch(h)' BY <1>1, <1>5 DEF HubInv, FrozenBatch
        <2>2. WorkingTree(h)' BY <1>1, <1>3, <1>5 DEF HubInv, WorkingTree
        <2> QED BY <1>1, <1>2, <2>1, <2>2 DEF HubInv
    <1>6. CASE Publish(h)
        <2>1. commit'[h] = [c EXCEPT !.pc = "apply", !.new = Len(hist')]
            BY <1>6 DEF Publish, TypeOK
        <2>2. Len(hist') \in DOMAIN hist' /\ hist'[Len(hist')] = c.work
            BY <1>6, AdvanceGrows DEF Publish
        <2>3. FrozenBatch(h)' BY <1>1, <2>1 DEF HubInv, FrozenBatch, CommitState
        <2>4. WorkingTree(h)' BY <1>1, <1>3, <2>1, <2>2 DEF HubInv, WorkingTree, CommitState
        <2> QED BY <1>1, <1>2, <2>3, <2>4 DEF HubInv
    <1>7. CASE Conflicted(h) \/ commit' = [commit EXCEPT ![h] = NotCommitting]
        <2>1. \/ commit'[h] = [c EXCEPT !.pc = "rebase"]
              \/ commit'[h].pc = "idle"
            <3>1. commit'[h] \in {[c EXCEPT !.pc = "rebase"], NotCommitting}
                BY <1>7 DEF Conflicted, TypeOK
            <3> QED BY <3>1 DEF NotCommitting
        <2> QED BY <1>1, <1>4, <1>5, <2>1 DEF CommitState
    <1>8. CASE Rebase(h)
        <2>1. /\ commit'[h].ops = c.ops /\ commit'[h].opSeq = c.opSeq
              /\ commit'[h].moved = c.moved /\ commit'[h].pc = "publish" /\ commit'[h].rebased
            BY <1>1, <1>8 DEF Rebase, TypeOK, CommitState
        <2> QED BY <1>5, <2>1
    <1> QED BY <1>6, <1>7, <1>8 DEF PublishConflict, PublishLost, CommitFails

\* Applying back, in its three cases: the token, the tree and the surviving
\* operations move to the landed revision together.
LEMMA ApplyKeeps ==
    ASSUME TypeOK, NEW h \in Hubs, HubInv(h), Apply(h)
    PROVE  HubInv(h)'
    <1> DEFINE c == commit[h]
               surviving == ClearUpTo(pend[h], c.opSeq)
    <1>1. /\ c \in CommitState /\ c.pc = "apply" /\ c.opSeq \in Nat /\ c.work \in Trees
          /\ c.ops \in Ops /\ pend[h] \in Ops /\ c.moved \in BOOLEAN /\ c.rebased \in BOOLEAN
        BY DEF Apply, AppliedTree, TypeOK, CommitState
    <1>2. /\ sha'[h] = c.new /\ pend'[h] = surviving
          /\ commit'[h].pc = "idle"
          /\ UNCHANGED <<hist, hydrated, seq, load, probe>>
        BY DEF Apply, AppliedTree, TypeOK, NotCommitting
    <1>3. /\ ~c.moved => meta'[h] = c.work
          /\ c.moved /\ c.rebased => meta'[h] = Overlay(c.work, surviving)
          /\ c.moved /\ ~c.rebased => meta'[h] = meta[h]
        BY <1>1 DEF Apply, AppliedTree, TypeOK
    <1>4. hydrated[h] /\ sha[h] \in DOMAIN hist /\ meta[h] = Overlay(hist[sha[h]], pend[h])
        BY <1>1 DEF HubInv, ColdIsQuiet, CoherentHub
    <1>5. c.new \in DOMAIN hist /\ hist[c.new] = c.work
        BY <1>1 DEF HubInv, WorkingTree
    <1>6. /\ \A p \in Paths :
                /\ c.ops[p].seq <= c.opSeq
                /\ \/ pend[h][p] = c.ops[p]
                   \/ IsOp(pend[h][p]) /\ pend[h][p].seq > c.opSeq
          /\ ~c.moved => pend[h] = c.ops
          /\ c.opSeq <= seq[h]
        BY <1>1 DEF HubInv, FrozenBatch
    <1>7. meta'[h] = Overlay(c.work, surviving)
        <2>1. CASE ~c.moved
            <3>1. \A p \in Paths : ~IsOp(surviving[p])
                <4>1. \A p \in Paths : ~(pend[h][p].seq > c.opSeq)
                    BY <1>1, <1>6, <2>1 DEF Ops, Op, HubInv, FrozenBatch
                <4> QED BY <4>1 DEF ClearUpTo, IsOp, NoOp
            <3>2. Overlay(c.work, surviving) = c.work
                BY <1>1, <3>1 DEF Overlay, Trees
            <3> QED BY <1>3, <2>1, <3>2
        <2>2. CASE c.moved /\ c.rebased
            BY <1>3, <2>2
        <2>3. CASE c.moved /\ ~c.rebased
            <3>1. c.work = Overlay(hist[sha[h]], c.ops)
                BY <1>1, <2>3 DEF HubInv, WorkingTree
            <3>2. ASSUME NEW p \in Paths
                  PROVE  meta[h][p] = Overlay(c.work, surviving)[p]
                <4>1. CASE pend[h][p] = c.ops[p] /\ ~(pend[h][p].seq > c.opSeq)
                    BY <1>4, <3>1, <4>1 DEF Overlay, ClearUpTo, IsOp, NoOp
                <4>2. CASE IsOp(pend[h][p]) /\ pend[h][p].seq > c.opSeq
                    BY <1>4, <4>2 DEF Overlay, ClearUpTo
                <4> QED BY <1>1, <1>6, <4>1, <4>2 DEF Ops, Op
            <3>3. meta[h] \in [Paths -> Nat] BY DEF TypeOK, Trees
            <3> QED BY <1>3, <1>4, <2>3, <3>2, <3>3 DEF Overlay
        <2> QED BY <1>1, <2>1, <2>2, <2>3
    <1>8. Numbered(h)'
        <2>1. \A p \in Paths : surviving[p] \in {pend[h][p], NoOp} BY DEF ClearUpTo
        <2>2. seq[h] \in Nat BY DEF TypeOK
        <2>3. \A p \in Paths : pend[h][p].seq <= seq[h] BY DEF HubInv, Numbered
        <2> HIDE DEF surviving
        <2> QED BY <1>2, <2>1, <2>2, <2>3 DEF Numbered, NoOp
    <1> HIDE DEF surviving, c
    <1> QED BY <1>2, <1>4, <1>5, <1>7, <1>8
            DEF HubInv, ColdIsQuiet, LoadedTree, FrozenBatch, WorkingTree, CoherentHub

LEMMA LeavingKeeps ==
    ASSUME TypeOK, NEW h \in Hubs, HubInv(h), Evict(h) \/ Crash(h)
    PROVE  HubInv(h)'
    <1>1. /\ ~hydrated'[h] /\ ~dirty'[h] /\ pend'[h] = NoOps /\ seq'[h] = 0
          /\ commit'[h].pc = "idle" /\ load'[h].pc = "idle" /\ probe'[h].pc = "idle"
        BY DEF Evict, Crash, Forgotten, TypeOK, NotCommitting, NotLoading, NotProbing
    <1> QED BY <1>1 DEF HubInv, ColdIsQuiet, Numbered, LoadedTree, FrozenBatch, WorkingTree,
                        CoherentHub, NoOps, NoOp

LEMMA CacheInit == Init => CacheInv
    <1> SUFFICES ASSUME Init, NEW h \in Hubs PROVE HubInv(h) BY DEF CacheInv
    <1>1. /\ ~hydrated[h] /\ ~dirty[h] /\ pend[h] = NoOps /\ seq[h] = 0
          /\ commit[h].pc = "idle" /\ load[h].pc = "idle" /\ probe[h].pc = "idle"
        BY DEF Init, NotCommitting, NotLoading, NotProbing
    <1> QED BY <1>1 DEF HubInv, ColdIsQuiet, Numbered, LoadedTree, FrozenBatch, WorkingTree,
                        CoherentHub, NoOps, NoOp

LEMMA CacheNext ==
    ASSUME ~LargeTree
    PROVE  TypeOK /\ CacheInv /\ [Next]_vars => CacheInv'
    <1>1. ASSUME TypeOK, CacheInv, UNCHANGED vars PROVE CacheInv'
        BY <1>1 DEF vars, cacheVars, CacheInv, HubInv, ColdIsQuiet, Numbered, LoadedTree,
                    FrozenBatch, WorkingTree, CoherentHub
    <1>2. ASSUME TypeOK, CacheInv, NEW h \in Hubs, Step(h) PROVE CacheInv'
        <2>1. HubInv(h) BY <1>2 DEF CacheInv
        <2>2. HistoryKept /\ \A g \in Hubs \ {h} : SameHub(g) BY <1>2, StepFrame
        <2>3. HubInv(h)'
            BY <1>2, <2>1, <2>2, LoadsKeep, MutationsKeep, CommitStartsKeep, AttemptsKeep,
               ApplyKeeps, LeavingKeeps DEF Step
        <2>4. \A g \in Hubs \ {h} : HubInv(g)'
            BY <1>2, <2>2, OthersKeep DEF CacheInv
        <2> QED BY <2>3, <2>4 DEF CacheInv
    <1> QED BY <1>1, <1>2 DEF Next

\* Whatever mutations, commits, conflicts, rebases, lost replies, failures,
\* evictions and crashes do, in any interleaving of any number of hubs: the tree
\* a hub serves is the revision its token names with its pending operations on
\* top (applyCommittedTree's three cases, storeRepoMetadata), provided only that no
\* transaction publishes a candidate built before it released the lock.
THEOREM CacheCoherent ==
    ASSUME ~LargeTree
    PROVE  Spec => []CachesSound
    <1>1. TypeOK /\ CacheInv => CachesSound
        BY DEF CacheInv, HubInv, CoherentHub, Coherent, CachesSound
    <1> QED BY TypeInit, TypeNext, CacheInit, CacheNext, <1>1, PTL DEF Spec


-----------------------------------------------------------------------------
(* Nothing acknowledged is lost, and the contract of the shared index.     *)

\* An operation that is recorded of a path is one the hub acknowledged ...
Known(h, p, o) ==
    \E m \in accepted : m.hub = h /\ m.path = p /\ m.val = o.val /\ m.ts = o.ts
\* ... and the last one.
Newest(h, p, o) ==
    /\ Known(h, p, o)
    /\ \A m \in accepted : m.hub = h /\ m.path = p => m.ts <= o.ts

\* Acknowledged mutations carry a timestamp the clock has reached.
Clocked == \A m \in accepted : 0 < m.ts /\ m.ts <= now

\* A recorded operation is the newest of its path, and what is settled was
\* acknowledged.
Recorded(h) ==
    \A p \in Paths :
        /\ IsOp(pend[h][p]) => Newest(h, p, pend[h][p])
        /\ IsOp(journal[h][p]) => Newest(h, p, journal[h][p])
        /\ landed[h][p] # 0 =>
              \E m \in accepted : m.hub = h /\ m.path = p /\ m.ts = landed[h][p]

\* A cold load brings what the journal holds, or has settled it.
Replayed(h) ==
    load[h].pc = "store" /\ ~hydrated[h] =>
        \A p \in Paths :
            \/ load[h].ops[p] = journal[h][p]
            \/ load[h].ops[p] = NoOp /\ journal[h][p].ts <= landed[h][p]

\* A frozen batch is made of operations that were acknowledged and not settled before;
\* once it has landed all of them are.
Batch(h) ==
    LET c == commit[h] IN
    c.pc # "idle" =>
        \A p \in Paths : IsOp(c.ops[p]) =>
            /\ Known(h, p, c.ops[p])
            /\ landed[h][p] <= c.ops[p].ts
            /\ c.pc = "apply" => landed[h][p] = c.ops[p].ts

\* An attempt publishes the revision its token names with the batch on top, less the
\* operations that upstream outranked.
Attempt(h) ==
    LET c == commit[h] IN
    c.pc = "publish" =>
        /\ c.prev \in DOMAIN hist
        /\ \A p \in Paths :
              c.work[p] = IF IsOp(c.ops[p]) /\ p \notin c.kept THEN c.ops[p].val ELSE hist[c.prev][p]

ContractHub(h) == Recorded(h) /\ Replayed(h) /\ Batch(h) /\ Attempt(h)
ContractInv == Clocked /\ \A h \in Hubs : ContractHub(h)

\* What the journal holds is pending or settled; what is pending is in the journal;
\* while a load is clearing the journal nothing is pending.
Journalled(h) ==
    /\ \A p \in Paths : IsOp(pend[h][p]) => journal[h][p].ts = pend[h][p].ts
    /\ hydrated[h] =>
          \A p \in Paths : IsOp(pend[h][p]) \/ journal[h][p].ts <= landed[h][p]
    /\ load[h].pc = "rewrite" => ~dirty[h] /\ pend[h] = NoOps /\ hydrated[h]

Accounted(h) ==
    \A m \in accepted : m.hub = h =>
        \/ \E n \in accepted : n.hub = h /\ n.path = m.path /\ n.ts > m.ts
        \/ m.ts <= landed[h][m.path]
        \/ journal[h][m.path].ts = m.ts

SafeInv == \A h \in Hubs : Journalled(h) /\ Accounted(h)
-----------------------------------------------------------------------------

\* What a step of one hub leaves alone of the records of another.
SameRecord(g) ==
    /\ journal'[g] = journal[g] /\ landed'[g] = landed[g]
    /\ \A m : m.hub = g => (m \in accepted' <=> m \in accepted)

LEMMA RecordFrame ==
    ASSUME TypeOK, NEW h \in Hubs, Step(h)
    PROVE  \A g \in Hubs \ {h} : SameRecord(g)
    <1> SUFFICES ASSUME NEW g \in Hubs \ {h} PROVE SameRecord(g) OBVIOUS
    <1> USE DEF SameRecord, histVars
    <1>1. CASE LoadRead(h) \/ LoadStore(h) \/ LoadClearJournal(h)
        BY <1>1 DEF LoadRead, LoadStore, LoadClearJournal, TypeOK
    <1>2. ASSUME NEW p \in Paths, NEW t, NEW v, NEW ts, Accept(h, t, p, v, ts)
          PROVE  SameRecord(g)
        BY <1>2 DEF Accept, TypeOK
    <1>3. CASE (\E p \in Paths : Mutate(h, p) \/ ProbePublish(h, p)) \/ ProbeStart(h)
        BY <1>2, <1>3 DEF Mutate, ProbePublish, ProbeStart, TypeOK
    <1>4. CASE LoopWakes(h) \/ Flush(h)
        BY <1>4 DEF LoopWakes, Flush, Freeze
    <1>5. CASE Publish(h) \/ PublishLost(h)
        BY <1>5 DEF Publish, PublishLost, Advance, TypeOK
    <1>6. CASE PublishConflict(h) \/ CommitFails(h) \/ Rebase(h) \/ Apply(h)
        BY <1>6 DEF PublishConflict, CommitFails, Rebase, Apply, TypeOK
    <1>7. CASE Evict(h) \/ Crash(h)
        BY <1>7 DEF Evict, Crash
    <1> QED BY <1>1, <1>3, <1>4, <1>5, <1>6, <1>7 DEF Step

LEMMA OthersRecorded ==
    ASSUME TypeOK, NEW g \in Hubs, SameHub(g), SameRecord(g), HistoryKept
    PROVE  /\ ContractHub(g) => ContractHub(g)'
           /\ Journalled(g) => Journalled(g)'
           /\ Accounted(g) => Accounted(g)'
    <1>1. Recorded(g) => Recorded(g)'
        BY DEF SameHub, SameRecord, Recorded, Newest, Known
    <1>2. Replayed(g) => Replayed(g)' BY DEF SameHub, SameRecord, Replayed
    <1>3. Batch(g) => Batch(g)' BY DEF SameHub, SameRecord, Batch, Known
    <1>4. Attempt(g) => Attempt(g)' BY DEF SameHub, HistoryKept, Attempt
    <1>5. Journalled(g) => Journalled(g)' BY DEF SameHub, SameRecord, Journalled
    <1>6. Accounted(g) => Accounted(g)' BY DEF SameRecord, Accounted
    <1> QED BY <1>1, <1>2, <1>3, <1>4, <1>5, <1>6 DEF ContractHub

\* A step that records nothing new.
LEMMA ClockKeeps ==
    ASSUME TypeOK, Clocked, accepted' = accepted, now' = now \/ now' = now + 1
    PROVE  Clocked'
    BY DEF TypeOK, Accepted, Clocked

LEMMA LoadReadRecorded ==
    ASSUME TypeOK, NEW h \in Hubs, HubInv(h), ContractHub(h), LoadRead(h)
    PROVE  /\ ContractHub(h)' /\ accepted' = accepted /\ now' = now /\ hist' = hist
           /\ \A p \in Paths :
                 \/ landed'[h][p] = landed[h][p]
                 \/ /\ landed[h][p] <= landed'[h][p]
                    /\ \E m \in accepted : m.hub = h /\ m.path = p /\ m.ts = landed'[h][p]
           /\ Journalled(h) => Journalled(h)'
           /\ Accounted(h) => Accounted(h)'
    <1> DEFINE drop == {p \in Paths : NewerThan(Upstream[p], journal[h][p])}
               kept == [p \in Paths |-> IF ~hydrated[h] /\ p \notin drop THEN journal[h][p] ELSE NoOp]
    <1>1. /\ load'[h].pc = "store" /\ load'[h].ops = kept
          /\ UNCHANGED <<hist, now, hydrated, dirty, pend, journal, commit, accepted>>
        BY DEF LoadRead, cacheVars, TypeOK
    <1>2. \A p \in Paths : landed'[h][p] = IF ~hydrated[h] /\ p \in drop /\ IsOp(journal[h][p])
                                         THEN journal[h][p].ts ELSE landed[h][p]
        BY DEF LoadRead, TypeOK
    <1>3. \A p \in Paths : landed[h][p] \in Nat /\ journal[h][p].ts \in Nat
        BY DEF TypeOK, Ops, Op
    <1> HIDE DEF drop, kept
    <1>4. \A p \in Paths : landed[h][p] <= landed'[h][p]
        BY <1>2, <1>3 DEF ContractHub, Recorded, Newest
    <1>5. \A p \in Paths :
             \/ landed'[h][p] = landed[h][p]
             \/ ~hydrated[h] /\ IsOp(journal[h][p]) /\ landed'[h][p] = journal[h][p].ts
        <2>1. ASSUME NEW p \in Paths
              PROVE  \/ landed'[h][p] = landed[h][p]
                     \/ ~hydrated[h] /\ IsOp(journal[h][p]) /\ landed'[h][p] = journal[h][p].ts
            <3>1. CASE ~hydrated[h] /\ p \in drop /\ IsOp(journal[h][p]) BY <1>2, <3>1
            <3>2. CASE ~(~hydrated[h] /\ p \in drop /\ IsOp(journal[h][p])) BY <1>2, <3>2
            <3> QED BY <3>1, <3>2
        <2> QED BY <2>1
    <1>6. Recorded(h)'
        BY <1>1, <1>5 DEF ContractHub, Recorded, Newest, Known
    <1>7. Replayed(h)'
        BY <1>1, <1>2, <1>3 DEF Replayed, kept, IsOp
    <1>8. Batch(h)' /\ Attempt(h)'
        BY <1>1, <1>5 DEF HubInv, ColdIsQuiet, ContractHub, Batch, Attempt, Known
    <1>9. Journalled(h) => Journalled(h)'
        <2>1. \A p \in Paths : journal[h][p].ts <= landed[h][p] => journal[h][p].ts <= landed'[h][p]
            BY <1>3, <1>5
        <2> QED BY <1>1, <2>1 DEF Journalled
    <1>10. Accounted(h) => Accounted(h)'
        <2>1. \A m \in accepted : m.path \in Paths /\ m.ts \in Nat BY DEF TypeOK, Accepted
        <2>2. \A m \in accepted : m.ts <= landed[h][m.path] => m.ts <= landed'[h][m.path]
            BY <1>3, <1>4, <1>5, <2>1
        <2> QED BY <1>1, <2>1, <2>2 DEF Accounted
    <1>11. \A p \in Paths : IsOp(journal[h][p]) =>
              \E m \in accepted : m.hub = h /\ m.path = p /\ m.ts = journal[h][p].ts
        BY DEF ContractHub, Recorded, Newest, Known
    <1>12. \A p \in Paths :
              \/ landed'[h][p] = landed[h][p]
              \/ /\ landed[h][p] <= landed'[h][p]
                 /\ \E m \in accepted : m.hub = h /\ m.path = p /\ m.ts = landed'[h][p]
        BY <1>4, <1>5, <1>11
    <1> QED BY <1>1, <1>6, <1>7, <1>8, <1>9, <1>10, <1>12 DEF ContractHub

LEMMA LoadStoreRecorded ==
    ASSUME TypeOK, NEW h \in Hubs, HubInv(h), ContractHub(h), LoadStore(h)
    PROVE  /\ ContractHub(h)' /\ accepted' = accepted /\ now' = now
           /\ Journalled(h) => Journalled(h)'
           /\ Accounted(h) => Accounted(h)'
    <1> DEFINE l == load[h]
               ops == [p \in Paths |-> IF IsOp(l.ops[p]) THEN [l.ops[p] EXCEPT !.seq = 1] ELSE NoOp]
               replayed == \E p \in Paths : IsOp(l.ops[p])
               busy == dirty[h] \/ \E p \in Paths : IsOp(pend[h][p])
    <1>1. l \in LoadState /\ l.ops \in Ops /\ l.pc = "store" /\ commit[h] \in CommitState
        BY DEF TypeOK, LoadState, LoadStore
    <1>2. ~hydrated[h] => ~busy /\ commit[h].pc = "idle"
        BY DEF HubInv, ColdIsQuiet, NoOps, NoOp, IsOp
    <1>3. hydrated[h] => ~replayed
        BY <1>1 DEF HubInv, LoadedTree, NoOps, NoOp, IsOp
    <1>4. UNCHANGED <<hist, now, journal, accepted, landed>> /\ hydrated'[h] /\ load'[h].pc # "store"
          /\ (load'[h].pc = "rewrite" => ~replayed /\ ~busy)
        BY DEF LoadStore, AfterStore, NotLoading, histVars, TypeOK
    <1>5. /\ pend'[h] = IF replayed \/ ~busy THEN ops ELSE pend[h]
          /\ dirty'[h] = (dirty[h] \/ replayed)
        BY DEF LoadStore, TypeOK
    <1>6. commit'[h].pc = commit[h].pc /\ \A f \in {"work", "prev", "ops", "kept"} : commit'[h][f] = commit[h][f]
        <2>1. commit' = [commit EXCEPT ![h].moved = @ \/ ((replayed \/ ~busy) /\ commit[h].pc # "idle")]
            BY DEF LoadStore
        <2>2. commit'[h] = [commit[h] EXCEPT !.moved = @ \/ ((replayed \/ ~busy) /\ commit[h].pc # "idle")]
            BY <2>1 DEF TypeOK
        <2> HIDE DEF replayed, busy
        <2> QED BY <1>1, <2>2 DEF CommitState
    <1>7. \A p \in Paths : IsOp(ops[p]) <=> IsOp(l.ops[p])
        BY <1>1 DEF Ops, Op, IsOp, NoOp
    <1>8. \A p \in Paths : IsOp(ops[p]) => ops[p].val = l.ops[p].val /\ ops[p].ts = l.ops[p].ts
        BY <1>1 DEF Ops, Op, IsOp, NoOp
    <1>9. \A p \in Paths : IsOp(l.ops[p]) => ~hydrated[h] /\ l.ops[p] = journal[h][p]
        BY <1>1, <1>3 DEF ContractHub, Replayed, IsOp, NoOp
    <1>10. CASE replayed \/ ~busy
        <2>1. pend'[h] = ops BY <1>5, <1>10
        <2>2. ~busy BY <1>2, <1>3, <1>10
        <2>3. ~IsOp(NoOp) BY DEF NoOp, IsOp
        <2> HIDE DEF l, ops
        <2>4. \A p \in Paths : IsOp(pend'[h][p]) =>
                 IsOp(journal[h][p]) /\ pend'[h][p].val = journal[h][p].val /\ pend'[h][p].ts = journal[h][p].ts
            BY <1>7, <1>8, <1>9, <2>1
        <2>5. Recorded(h)' BY <1>4, <2>4 DEF ContractHub, Recorded, Newest, Known
        <2>6. \A p \in Paths : ~IsOp(pend'[h][p]) =>
                 \/ ~hydrated[h] /\ (~IsOp(journal[h][p]) \/ journal[h][p].ts <= landed[h][p])
                 \/ hydrated[h]
            BY <1>1, <1>7, <2>1 DEF ContractHub, Replayed, l
        <2>7. \A p \in Paths : landed[h][p] \in Nat /\ (~IsOp(journal[h][p]) => journal[h][p].ts = 0)
            BY DEF TypeOK, IsOp
        <2>8. Journalled(h) => Journalled(h)'
            <3>1. \A p \in Paths : ~IsOp(pend[h][p]) BY <2>2
            <3>2. ~replayed => pend'[h] = NoOps
                BY <2>1 DEF ops, NoOps, l
            <3>3. Journalled(h) => \A p \in Paths : IsOp(pend'[h][p]) \/ journal[h][p].ts <= landed[h][p]
                BY <2>6, <2>7, <3>1 DEF Journalled
            <3> QED BY <1>4, <1>5, <2>2, <2>4, <3>2, <3>3 DEF Journalled
        <2> QED BY <1>4, <1>6, <2>5, <2>8
                DEF ContractHub, Replayed, Batch, Attempt, Known, Accounted
    <1>11. CASE ~replayed /\ busy
        <2>1. pend'[h] = pend[h] BY <1>5, <1>11
        <2> HIDE DEF l, ops
        <2> QED BY <1>2, <1>4, <1>5, <1>6, <1>11, <2>1
                DEF ContractHub, Recorded, Newest, Known, Replayed, Batch, Attempt, Journalled, Accounted
    <1> QED BY <1>10, <1>11

LEMMA ClearRecorded ==
    ASSUME TypeOK, NEW h \in Hubs, HubInv(h), ContractHub(h), LoadClearJournal(h)
    PROVE  /\ ContractHub(h)' /\ accepted' = accepted /\ now' = now
           /\ Journalled(h) => Journalled(h)'
           /\ Journalled(h) /\ Accounted(h) => Accounted(h)'
    <1>1. /\ load[h].pc = "rewrite" /\ journal'[h] = NoOps /\ load'[h].pc = "idle"
          /\ UNCHANGED <<hist, now, hydrated, dirty, pend, commit, accepted, landed>>
        BY DEF LoadClearJournal, cacheVars, histVars, NotLoading, TypeOK
    <1>2. \A p \in Paths : ~IsOp(NoOps[p]) /\ NoOps[p].ts = 0 /\ landed[h][p] \in Nat
        BY DEF NoOps, NoOp, IsOp, TypeOK
    <1>3. ContractHub(h)'
        BY <1>1, <1>2 DEF ContractHub, Recorded, Newest, Known, Replayed, Batch, Attempt
    <1>4. Journalled(h) => Journalled(h)'
        BY <1>1, <1>2 DEF Journalled
    <1>5. Journalled(h) /\ Accounted(h) => Accounted(h)'
        <2>1. \A m \in accepted : m.path \in Paths BY DEF TypeOK, Accepted
        <2>2. Journalled(h) => \A p \in Paths : journal[h][p].ts <= landed[h][p]
            BY <1>1, <1>2 DEF Journalled
        <2> QED BY <1>1, <2>1, <2>2 DEF Accounted
    <1> QED BY <1>1, <1>3, <1>4, <1>5

\* A transaction's operation is newer than everything recorded before it.
LEMMA MutationRecorded ==
    ASSUME ~LargeTree, TypeOK, Clocked, NEW h \in Hubs, HubInv(h), ContractHub(h),
           (\E p \in Paths : Mutate(h, p) \/ ProbePublish(h, p)) \/ ProbeStart(h)
    PROVE  /\ ContractHub(h)' /\ Clocked' /\ hist' = hist /\ landed' = landed
           /\ \E m \in Accepted : accepted' = accepted \cup {m}
           /\ ~MidLoad /\ Journalled(h) => Journalled(h)'
           /\ Accounted(h) => Accounted(h)'
    <1>1. PICK p \in Paths : Mutate(h, p)
        BY DEF ProbePublish, ProbeStart, HubInv
    <1>2. PICK v \in {now', Absent} : Accept(h, meta[h], p, v, now')
        BY <1>1 DEF Mutate
    <1>3. now' = now + 1 /\ now \in Nat /\ now' \in Nat /\ now' # 0 /\ v \in Nat
        BY <1>1, <1>2 DEF Mutate, TypeOK, Absent
    <1> DEFINE op == [val |-> v, ts |-> now', seq |-> seq[h] + 1, over |-> meta[h][p]]
               m0 == [hub |-> h, path |-> p, val |-> v, ts |-> now']
    <1>4. /\ pend'[h] = [pend[h] EXCEPT ![p] = op] /\ journal'[h] = [journal[h] EXCEPT ![p] = op]
          /\ accepted' = accepted \cup {m0}
          /\ UNCHANGED <<hist, hydrated, load, landed>>
        <2>1. /\ pend' = [pend EXCEPT ![h][p] = op] /\ journal' = [journal EXCEPT ![h][p] = op]
              /\ accepted' = accepted \cup {m0}
              /\ UNCHANGED <<hist, hydrated, load, landed>>
            BY <1>2 DEF Accept
        <2> HIDE DEF op, m0
        <2> QED BY <2>1 DEF TypeOK
    <1>5. /\ commit'[h].pc = commit[h].pc
          /\ \A f \in {"work", "prev", "ops", "kept"} : commit'[h][f] = commit[h][f]
        <2>1. commit' = [commit EXCEPT ![h].moved = (commit[h].pc # "idle")] BY <1>2 DEF Accept
        <2>2. commit'[h] = [commit[h] EXCEPT !.moved = (commit[h].pc # "idle")] /\ commit[h] \in CommitState
            BY <2>1 DEF TypeOK
        <2> QED BY <2>2 DEF CommitState
    <1>6. hydrated[h] /\ (~MidLoad => load[h].pc = "idle")
        BY <1>1 DEF Mutate, CanMutate
    <1>7. m0 \in Accepted BY <1>3 DEF Accepted
    <1>8. IsOp(op) /\ op.val = v /\ op.ts = now' BY <1>3 DEF IsOp
    <1>9. m0.hub = h /\ m0.path = p /\ m0.val = v /\ m0.ts = now' OBVIOUS
    <1> HIDE DEF op, m0
    <1>10. \A m \in accepted : m.ts \in Nat /\ 0 < m.ts /\ m.ts < now' BY <1>3 DEF Clocked, TypeOK, Accepted
    <1>11. Clocked' BY <1>3, <1>4, <1>9, <1>10 DEF Clocked
    <1>12. /\ \E m \in accepted' : m.hub = h /\ m.path = p /\ m.val = v /\ m.ts = now'
           /\ \A m \in accepted' : m.ts <= now'
        BY <1>3, <1>4, <1>9, <1>10
    <1>13. \A q \in Paths : /\ pend'[h][q] = IF q = p THEN op ELSE pend[h][q]
                            /\ journal'[h][q] = IF q = p THEN op ELSE journal[h][q]
        BY <1>4 DEF TypeOK, Ops
    <1>14. \A q \in Paths \ {p} :
              \A m \in accepted' : m.hub = h /\ m.path = q => m \in accepted
        BY <1>4, <1>9
    <1>15. Recorded(h)'
        <2>1. ASSUME NEW q \in Paths
              PROVE  /\ IsOp(pend'[h][q]) => Newest(h, q, pend[h][q])'
                     /\ IsOp(journal'[h][q]) => Newest(h, q, journal[h][q])'
            <3>1. CASE q = p
                <4>1. pend'[h][q] = op /\ journal'[h][q] = op BY <1>13, <3>1
                <4> QED BY <1>8, <1>12, <3>1, <4>1 DEF Newest, Known
            <3>2. CASE q # p
                BY <1>4, <1>13, <1>14, <3>2 DEF ContractHub, Recorded, Newest, Known
            <3> QED BY <3>1, <3>2
        <2>2. \A q \in Paths : landed'[h][q] # 0 =>
                 \E m \in accepted' : m.hub = h /\ m.path = q /\ m.ts = landed'[h][q]
            BY <1>4 DEF ContractHub, Recorded
        <2> QED BY <2>1, <2>2 DEF Recorded
    <1>16. Replayed(h)' /\ Batch(h)' /\ Attempt(h)'
        BY <1>4, <1>5, <1>6 DEF ContractHub, Replayed, Batch, Attempt, Known
    <1>17. ~MidLoad /\ Journalled(h) => Journalled(h)'
        BY <1>4, <1>6, <1>8, <1>13 DEF Journalled
    <1>18. Accounted(h) => Accounted(h)'
        <2> SUFFICES ASSUME Accounted(h), NEW m \in accepted', m.hub = h
                     PROVE  \/ \E n \in accepted' : n.hub = h /\ n.path = m.path /\ n.ts > m.ts
                            \/ m.ts <= landed'[h][m.path]
                            \/ journal'[h][m.path].ts = m.ts
            BY DEF Accounted
        <2>1. CASE m = m0 BY <1>8, <1>9, <1>13, <2>1
        <2>2. CASE m # m0 /\ m.path = p
            <3>1. m \in accepted BY <1>4, <2>2
            <3> QED BY <1>3, <1>4, <1>9, <1>10, <2>2, <3>1
        <2>3. CASE m # m0 /\ m.path # p
            <3>1. m \in accepted /\ m.path \in Paths BY <1>4, <2>3 DEF TypeOK, Accepted
            <3> QED BY <1>4, <1>13, <2>3, <3>1 DEF Accounted
        <2> QED BY <2>1, <2>2, <2>3
    <1> QED BY <1>4, <1>7, <1>11, <1>15, <1>16, <1>17, <1>18 DEF ContractHub

\* A batch is frozen from operations that are the newest of their paths, on the
\* revision the token names.
LEMMA FreezeRecorded ==
    ASSUME TypeOK, NEW h \in Hubs, HubInv(h), ContractHub(h), LoopWakes(h) \/ Flush(h)
    PROVE  /\ ContractHub(h)' /\ accepted' = accepted /\ now' = now /\ landed' = landed /\ hist' = hist
           /\ Journalled(h) => Journalled(h)'
           /\ Accounted(h) => Accounted(h)'
    <1>1. UNCHANGED <<hist, now, hydrated, dirty, pend, journal, load, accepted, landed>>
        BY DEF LoopWakes, Flush, Freeze, histVars
    <1>2. Recorded(h)' /\ Replayed(h)' /\ (Journalled(h) => Journalled(h)') /\ (Accounted(h) => Accounted(h)')
        BY <1>1 DEF ContractHub, Recorded, Newest, Known, Replayed, Journalled, Accounted
    <1>3. CASE UNCHANGED commit
        BY <1>1, <1>2, <1>3 DEF ContractHub, Batch, Attempt, Known
    <1>4. CASE Freeze(h)
        <2>1. /\ commit'[h].pc = "publish" /\ commit'[h].work = meta[h] /\ commit'[h].prev = sha[h]
              /\ commit'[h].ops = pend[h] /\ commit'[h].kept = {}
            BY <1>4 DEF Freeze, TypeOK
        <2>2. sha[h] \in DOMAIN hist /\ meta[h] = Overlay(hist[sha[h]], pend[h])
            BY <1>4 DEF Freeze, HubInv, ColdIsQuiet, CoherentHub
        <2>3. Attempt(h)' BY <1>1, <2>1, <2>2 DEF Attempt, Overlay
        <2>4. \A p \in Paths : IsOp(pend[h][p]) => landed[h][p] <= pend[h][p].ts
            <3>1. \A p \in Paths : landed[h][p] \in Nat /\ pend[h][p].ts \in Nat
                BY DEF TypeOK, Ops, Op
            <3> QED BY <3>1 DEF ContractHub, Recorded, Newest
        <2>5. Batch(h)' BY <1>1, <2>1, <2>4 DEF Batch, ContractHub, Recorded, Newest, Known
        <2> QED BY <1>1, <1>2, <2>3, <2>5 DEF ContractHub
    <1> QED BY <1>1, <1>2, <1>3, <1>4 DEF LoopWakes, Flush

\* The index moves by the batch, less what upstream outranked: every path that changes
\* takes a mutation of this hub that is not older than what the hub settled before.
LEMMA AdvanceSettles ==
    ASSUME TypeOK, NEW h \in Hubs, ContractHub(h), Advance(h)
    PROVE  LET c == commit[h] IN
           /\ c.pc = "publish"
           /\ \A p \in Paths : landed'[h][p] = IF IsOp(c.ops[p]) THEN c.ops[p].ts ELSE landed[h][p]
           /\ \A p \in Paths : IsOp(c.ops[p]) => Known(h, p, c.ops[p]) /\ landed[h][p] <= c.ops[p].ts
           /\ Upstream' = c.work
           /\ \A p \in Paths : c.work[p] = IF IsOp(c.ops[p]) /\ p \notin c.kept
                                          THEN c.ops[p].val ELSE Upstream[p]
    <1> DEFINE c == commit[h]
               done == {p \in Paths : IsOp(c.ops[p]) /\ (c.work[p] = c.ops[p].val \/ p \in c.kept)}
    <1>1. /\ c.pc = "publish" /\ c.prev = Tip /\ hist' = Append(hist, c.work)
          /\ landed' = [landed EXCEPT ![h] = [p \in Paths |-> IF p \in done THEN c.ops[p].ts ELSE landed[h][p]]]
        BY DEF Advance
    <1>2. \A p \in Paths : c.work[p] = IF IsOp(c.ops[p]) /\ p \notin c.kept
                                     THEN c.ops[p].val ELSE Upstream[p]
        BY <1>1, UpstreamType DEF ContractHub, Attempt
    <1>3. \A p \in Paths : p \in done <=> IsOp(c.ops[p])
        BY <1>2
    <1>4. Upstream' = c.work
        <2>1. hist \in Seq(Trees) /\ c.work \in Trees BY DEF TypeOK, CommitState
        <2> QED BY <1>1, <2>1, HistoryGrows DEF Upstream
    <1> HIDE DEF done
    <1>5. \A p \in Paths : landed'[h][p] = IF IsOp(c.ops[p]) THEN c.ops[p].ts ELSE landed[h][p]
        BY <1>1, <1>3 DEF TypeOK
    <1>6. \A p \in Paths : IsOp(c.ops[p]) => Known(h, p, c.ops[p]) /\ landed[h][p] <= c.ops[p].ts
        BY <1>1 DEF ContractHub, Batch
    <1> QED BY <1>1, <1>2, <1>4, <1>5, <1>6

LEMMA LandingRecorded ==
    ASSUME TypeOK, NEW h \in Hubs, HubInv(h), ContractHub(h), Publish(h) \/ PublishLost(h)
    PROVE  /\ ContractHub(h)' /\ accepted' = accepted /\ now' = now
           /\ Journalled(h) => Journalled(h)'
           /\ Accounted(h) => Accounted(h)'
    <1> DEFINE c == commit[h]
    <1>1. Advance(h) /\ UNCHANGED <<now, hydrated, dirty, pend, journal, load, accepted>>
        BY DEF Publish, PublishLost, cacheVars
    <1>2. /\ \A p \in Paths : landed'[h][p] = IF IsOp(c.ops[p]) THEN c.ops[p].ts ELSE landed[h][p]
          /\ \A p \in Paths : IsOp(c.ops[p]) => Known(h, p, c.ops[p]) /\ landed[h][p] <= c.ops[p].ts
          /\ c.pc = "publish"
        BY <1>1, AdvanceSettles
    <1>3. \A p \in Paths : landed[h][p] \in Nat /\ c.ops[p].ts \in Nat /\ journal[h][p].ts \in Nat
        <2>1. c.ops \in Ops /\ journal[h] \in Ops /\ landed[h] \in [Paths -> Nat]
            BY DEF TypeOK, CommitState
        <2> QED BY <2>1 DEF Ops, Op
    <1>4. \A p \in Paths : landed[h][p] <= landed'[h][p] /\ landed'[h][p] \in Nat
        BY <1>2, <1>3
    <1>5. \/ commit'[h] = [c EXCEPT !.pc = "apply", !.new = Len(hist')]
          \/ commit'[h] = [c EXCEPT !.pc = "rebase"]
          \/ commit'[h].pc = "idle"
        <2>1. CASE Publish(h)
            BY <2>1 DEF Publish, TypeOK
        <2>2. CASE PublishLost(h)
            <3>1. commit'[h] \in {[c EXCEPT !.pc = "rebase"], NotCommitting}
                BY <2>2 DEF PublishLost, Conflicted, TypeOK
            <3> QED BY <3>1 DEF NotCommitting
        <2> QED BY <2>1, <2>2
    <1>6. c \in CommitState BY DEF TypeOK
    <1>7. hydrated[h] BY <1>2 DEF HubInv, ColdIsQuiet
    <1>8. commit'[h].pc # "publish" /\ (commit'[h].pc # "idle" => commit'[h].ops = c.ops)
        BY <1>5, <1>6 DEF CommitState
    <1> HIDE DEF c
    <1>9. Recorded(h)'
        BY <1>1, <1>2, <1>3 DEF ContractHub, Recorded, Newest, Known, IsOp
    <1>10. Batch(h)'
        BY <1>1, <1>2, <1>3, <1>8 DEF Batch, Known
    <1>11. Replayed(h)' /\ Attempt(h)'
        BY <1>1, <1>7, <1>8 DEF Replayed, Attempt
    <1>12. Journalled(h) => Journalled(h)'
        <2>1. \A p \in Paths : journal[h][p].ts <= landed[h][p] => journal[h][p].ts <= landed'[h][p]
            BY <1>3, <1>4
        <2> QED BY <1>1, <2>1 DEF Journalled
    <1>13. Accounted(h) => Accounted(h)'
        <2>1. \A m \in accepted : m.path \in Paths /\ m.ts \in Nat BY DEF TypeOK, Accepted
        <2>2. \A m \in accepted : m.ts <= landed[h][m.path] => m.ts <= landed'[h][m.path]
            BY <1>3, <1>4, <2>1
        <2> QED BY <1>1, <2>1, <2>2 DEF Accounted
    <1> QED BY <1>1, <1>9, <1>10, <1>11, <1>12, <1>13 DEF ContractHub

LEMMA RetriesRecorded ==
    ASSUME TypeOK, NEW h \in Hubs, HubInv(h), ContractHub(h),
           PublishConflict(h) \/ CommitFails(h) \/ Rebase(h)
    PROVE  /\ ContractHub(h)' /\ accepted' = accepted /\ now' = now /\ landed' = landed /\ hist' = hist
           /\ Journalled(h) => Journalled(h)'
           /\ Accounted(h) => Accounted(h)'
    <1> DEFINE c == commit[h]
    <1>1. UNCHANGED <<hist, now, hydrated, dirty, pend, journal, load, accepted, landed>>
        BY DEF PublishConflict, CommitFails, Rebase, cacheVars, histVars
    <1>2. Recorded(h)' /\ Replayed(h)' /\ (Journalled(h) => Journalled(h)') /\ (Accounted(h) => Accounted(h)')
        BY <1>1 DEF ContractHub, Recorded, Newest, Known, Replayed, Journalled, Accounted
    <1>3. c \in CommitState BY DEF TypeOK
    <1>4. CASE PublishConflict(h) \/ CommitFails(h)
        <2>1. commit'[h] = [c EXCEPT !.pc = "rebase"] \/ commit'[h].pc = "idle"
            <3>1. commit'[h] \in {[c EXCEPT !.pc = "rebase"], NotCommitting}
                BY <1>4 DEF PublishConflict, CommitFails, Conflicted, TypeOK
            <3> QED BY <3>1 DEF NotCommitting
        <2>2. commit'[h].pc \in {"rebase", "idle"} /\ (commit'[h].pc = "rebase" => commit'[h].ops = c.ops)
            BY <1>3, <2>1 DEF CommitState
        <2>3. c.pc # "idle" BY <1>4 DEF PublishConflict, CommitFails
        <2> HIDE DEF c
        <2>4. Batch(h)' BY <1>1, <2>2, <2>3 DEF ContractHub, Batch, Known, c
        <2> QED BY <1>1, <1>2, <2>2, <2>4 DEF ContractHub, Attempt
    <1>5. CASE Rebase(h)
        <2> DEFINE kept == {p \in Paths : IsOp(c.ops[p]) /\ Outranks(Upstream[p], c.base[p], c.ops[p])}
        <2>1. commit'[h] = [c EXCEPT !.pc = "publish", !.prev = Tip, !.tries = @ + 1, !.rebased = TRUE,
                                     !.kept = kept, !.work = RebasedTree(c, kept)] /\ c.pc = "rebase"
            BY <1>5 DEF Rebase, TypeOK
        <2> HIDE DEF kept
        <2>2. /\ commit'[h].pc = "publish" /\ commit'[h].prev = Tip /\ commit'[h].kept = kept
              /\ commit'[h].work = RebasedTree(c, kept) /\ commit'[h].ops = c.ops
            BY <1>3, <2>1 DEF CommitState
        <2>3. Attempt(h)'
            BY <1>1, <2>2, UpstreamType DEF Attempt, RebasedTree
        <2>4. Batch(h)' BY <1>1, <2>1, <2>2 DEF ContractHub, Batch, Known
        <2> QED BY <1>1, <1>2, <2>3, <2>4 DEF ContractHub
    <1> QED BY <1>1, <1>2, <1>4, <1>5

\* What the apply-back drops from the stack and the journal has landed.
LEMMA ApplyRecorded ==
    ASSUME TypeOK, NEW h \in Hubs, HubInv(h), ContractHub(h), Apply(h)
    PROVE  /\ ContractHub(h)' /\ accepted' = accepted /\ now' = now /\ landed' = landed /\ hist' = hist
           /\ Journalled(h) => Journalled(h)'
           /\ Journalled(h) /\ Accounted(h) => Accounted(h)'
    <1> DEFINE c == commit[h]
               surviving == ClearUpTo(pend[h], c.opSeq)
    <1>1. /\ pend'[h] = surviving /\ journal'[h] = surviving /\ commit'[h].pc = "idle"
          /\ dirty'[h] = (dirty[h] /\ c.moved)
          /\ UNCHANGED <<hist, now, hydrated, load, accepted, landed>>
        BY DEF Apply, TypeOK, NotCommitting, histVars
    <1>2. c.pc = "apply" /\ c \in CommitState BY DEF Apply, TypeOK
    <1>3. \A p \in Paths : surviving[p] = pend[h][p] \/ ~IsOp(surviving[p])
        BY DEF ClearUpTo, NoOp, IsOp
    <1>4. \A p \in Paths : surviving[p] # pend[h][p] => pend[h][p] = c.ops[p]
        BY <1>2 DEF ClearUpTo, HubInv, FrozenBatch
    <1>5. hydrated[h] /\ dirty[h] BY <1>2 DEF HubInv, ColdIsQuiet, FrozenBatch
    <1> HIDE DEF surviving
    <1>6. Recorded(h)'
        BY <1>1, <1>3 DEF ContractHub, Recorded, Newest, Known
    <1>7. ContractHub(h)'
        BY <1>1, <1>5, <1>6 DEF ContractHub, Replayed, Batch, Attempt
    <1>8. \A p \in Paths : IsOp(c.ops[p]) => landed[h][p] = c.ops[p].ts
        BY <1>2 DEF ContractHub, Batch
    <1>9. \A p \in Paths : landed[h][p] \in Nat BY DEF TypeOK
    <1>10. Journalled(h) => Journalled(h)'
        <2>1. \A p \in Paths : IsOp(surviving[p]) \/ surviving[p].ts <= landed[h][p]
            BY <1>9 DEF IsOp
        <2> QED BY <1>1, <1>5, <2>1 DEF Journalled
    <1>11. Journalled(h) /\ Accounted(h) => Accounted(h)'
        <2> SUFFICES ASSUME Journalled(h), Accounted(h), NEW m \in accepted, m.hub = h,
                            ~ \E n \in accepted : n.hub = h /\ n.path = m.path /\ n.ts > m.ts,
                            ~(m.ts <= landed[h][m.path])
                     PROVE  surviving[m.path].ts = m.ts
            BY <1>1 DEF Accounted
        <2>1. m.path \in Paths /\ m.ts \in Nat BY DEF TypeOK, Accepted
        <2>2. journal[h][m.path].ts = m.ts BY DEF Accounted
        <2>3. IsOp(pend[h][m.path]) /\ pend[h][m.path].ts = m.ts
            BY <1>5, <2>1, <2>2 DEF Journalled
        <2>4. pend[h][m.path] # c.ops[m.path]
            BY <1>8, <1>9, <2>1, <2>3
        <2> QED BY <1>4, <2>1, <2>3, <2>4
    <1> QED BY <1>1, <1>7, <1>10, <1>11

LEMMA LeavingRecorded ==
    ASSUME TypeOK, NEW h \in Hubs, HubInv(h), ContractHub(h), Evict(h) \/ Crash(h)
    PROVE  /\ ContractHub(h)' /\ accepted' = accepted /\ now' = now /\ landed' = landed /\ hist' = hist
           /\ Journalled(h) => Journalled(h)'
           /\ Accounted(h) => Accounted(h)'
    <1>1. /\ ~hydrated'[h] /\ pend'[h] = NoOps
          /\ commit'[h].pc = "idle" /\ load'[h].pc = "idle"
          /\ UNCHANGED <<hist, now, journal, accepted, landed>>
        BY DEF Evict, Crash, Forgotten, TypeOK, NotCommitting, NotLoading, histVars
    <1>2. \A p \in Paths : ~IsOp(NoOps[p]) BY DEF NoOps, NoOp, IsOp
    <1> QED BY <1>1, <1>2 DEF ContractHub, Recorded, Newest, Known, Replayed, Batch, Attempt,
                             Journalled, Accounted


LEMMA ContractInit == Init => ContractInv /\ SafeInv
    <1>0. Init => Clocked BY DEF Init, Clocked
    <1> SUFFICES ASSUME Init, NEW h \in Hubs
                 PROVE  ContractHub(h) /\ Journalled(h) /\ Accounted(h)
        BY <1>0 DEF ContractInv, SafeInv
    <1>1. /\ accepted = {} /\ pend[h] = NoOps /\ journal[h] = NoOps /\ ~hydrated[h]
          /\ commit[h].pc = "idle" /\ load[h].pc = "idle" /\ \A p \in Paths : landed[h][p] = 0
        BY DEF Init, NotCommitting, NotLoading
    <1>2. \A p \in Paths : ~IsOp(NoOps[p]) BY DEF NoOps, NoOp, IsOp
    <1> QED BY <1>1, <1>2 DEF Clocked, ContractHub, Recorded, Replayed, Batch, Attempt,
                              Journalled, Accounted

\* One step of a hub, for that hub.
LEMMA StepRecorded ==
    ASSUME ~LargeTree, TypeOK, NEW h \in Hubs, HubInv(h), ContractHub(h), Clocked, Step(h)
    PROVE  /\ ContractHub(h)' /\ Clocked'
           /\ ~MidLoad /\ Journalled(h) => Journalled(h)'
           /\ Journalled(h) /\ Accounted(h) => Accounted(h)'
    <1>1. CASE (\E p \in Paths : Mutate(h, p) \/ ProbePublish(h, p)) \/ ProbeStart(h)
        BY <1>1, MutationRecorded
    <1>2. CASE ~((\E p \in Paths : Mutate(h, p) \/ ProbePublish(h, p)) \/ ProbeStart(h))
        <2>1. /\ ContractHub(h)' /\ accepted' = accepted /\ now' = now
              /\ Journalled(h) => Journalled(h)'
              /\ Journalled(h) /\ Accounted(h) => Accounted(h)'
            BY <1>2, LoadReadRecorded, LoadStoreRecorded, ClearRecorded, FreezeRecorded,
               LandingRecorded, RetriesRecorded, ApplyRecorded, LeavingRecorded DEF Step
        <2> QED BY <2>1, ClockKeeps
    <1> QED BY <1>1, <1>2

LEMMA ContractNext ==
    ASSUME ~LargeTree
    PROVE  TypeOK /\ CacheInv /\ ContractInv /\ [Next]_vars => ContractInv'
    <1>1. ASSUME TypeOK, ContractInv, UNCHANGED vars PROVE ContractInv'
        BY <1>1 DEF vars, cacheVars, histVars, ContractInv, Clocked, ContractHub, Recorded,
                    Newest, Known, Replayed, Batch, Attempt
    <1>2. ASSUME TypeOK, CacheInv, ContractInv, NEW h \in Hubs, Step(h) PROVE ContractInv'
        <2>1. HubInv(h) /\ ContractHub(h) /\ Clocked BY <1>2 DEF CacheInv, ContractInv
        <2>2. ContractHub(h)' /\ Clocked' BY <1>2, <2>1, StepRecorded
        <2>3. HistoryKept /\ \A g \in Hubs \ {h} : SameHub(g) /\ SameRecord(g)
            BY <1>2, StepFrame, RecordFrame
        <2>4. \A g \in Hubs \ {h} : ContractHub(g)'
            BY <1>2, <2>3, OthersRecorded DEF ContractInv
        <2> QED BY <2>2, <2>4 DEF ContractInv
    <1> QED BY <1>1, <1>2 DEF Next

LEMMA SafeNext ==
    ASSUME ~LargeTree, ~MidLoad
    PROVE  TypeOK /\ CacheInv /\ ContractInv /\ SafeInv /\ [Next]_vars => SafeInv'
    <1>1. ASSUME TypeOK, SafeInv, UNCHANGED vars PROVE SafeInv'
        BY <1>1 DEF vars, cacheVars, histVars, SafeInv, Journalled, Accounted
    <1>2. ASSUME TypeOK, CacheInv, ContractInv, SafeInv, NEW h \in Hubs, Step(h) PROVE SafeInv'
        <2>1. HubInv(h) /\ ContractHub(h) /\ Clocked /\ Journalled(h) /\ Accounted(h)
            BY <1>2 DEF CacheInv, ContractInv, SafeInv
        <2>2. Journalled(h)' /\ Accounted(h)' BY <1>2, <2>1, StepRecorded
        <2>3. HistoryKept /\ \A g \in Hubs \ {h} : SameHub(g) /\ SameRecord(g)
            BY <1>2, StepFrame, RecordFrame
        <2>4. \A g \in Hubs \ {h} : Journalled(g)' /\ Accounted(g)'
            BY <1>2, <2>3, OthersRecorded DEF SafeInv
        <2> QED BY <2>2, <2>4 DEF SafeInv
    <1> QED BY <1>1, <1>2 DEF Next

\* Nothing acknowledged is lost: what is pending is journalled, and a hub's newest
\* mutation of a path is in its journal, or landed, or was outranked, across failed
\* commits, lost replies, rebases, evictions and crashes (finishCommit, rewriteJournal).
THEOREM NothingLostAlways ==
    ASSUME ~LargeTree, ~MidLoad
    PROVE  Spec => []NothingLost
    <1>1. TypeOK /\ SafeInv => NothingLost
        <2> SUFFICES ASSUME TypeOK, SafeInv PROVE JournalCovers /\ NoSilentLoss
            BY DEF NothingLost
        <2>1. JournalCovers BY DEF SafeInv, Journalled, JournalCovers
        <2>2. \A m \in accepted : m.hub \in Hubs BY DEF TypeOK, Accepted
        <2>3. NoSilentLoss BY <2>2 DEF SafeInv, Accounted, NoSilentLoss
        <2> QED BY <2>1, <2>3
    <1> QED BY TypeInit, TypeNext, CacheInit, CacheNext, ContractInit, ContractNext, SafeNext,
               <1>1, PTL DEF Spec


-----------------------------------------------------------------------------

\* A push that lands is one Land of the abstract index; so is a cold load that settles
\* journalled operations upstream has outrun; a mutation is an Accept; nothing else
\* moves the index, the mutations or the marks.
LEMMA IndexStep ==
    ASSUME ~LargeTree, TypeOK, ContractInv, NEW h \in Hubs, HubInv(h), Step(h)
    PROVE  Index!Next \/ UNCHANGED <<Upstream, accepted, landed>>
    <1>1. ContractHub(h) /\ Clocked BY DEF ContractInv
    <1>2. \A g \in Hubs \ {h} : landed'[g] = landed[g] BY RecordFrame DEF SameRecord
    <1>3. hist' = hist => Upstream' = Upstream BY DEF Upstream
    <1>4. CASE (\E p \in Paths : Mutate(h, p) \/ ProbePublish(h, p)) \/ ProbeStart(h)
        <2>1. PICK m \in Accepted : accepted' = accepted \cup {m}
            BY <1>1, <1>4, MutationRecorded
        <2>2. hist' = hist /\ landed' = landed BY <1>1, <1>4, MutationRecorded
        <2>3. Index!Accept
            BY <1>3, <2>1, <2>2 DEF Index!Accept, Index!Mutation, Accepted
        <2> QED BY <2>3 DEF Index!Next
    <1>5. CASE LoadRead(h)
        <2>1. /\ hist' = hist /\ accepted' = accepted
              /\ \A p \in Paths :
                    \/ landed'[h][p] = landed[h][p]
                    \/ /\ landed[h][p] <= landed'[h][p]
                       /\ \E m \in accepted : m.hub = h /\ m.path = p /\ m.ts = landed'[h][p]
            BY <1>1, <1>5, LoadReadRecorded
        <2>2. \A p \in Paths : landed[h][p] \in Nat BY DEF TypeOK
        <2>3. landed' \in [Hubs -> [Paths -> Nat]] BY TypeLoads, <1>5 DEF TypeOK
        <2>4. Index!Settle(h)
            BY <1>2, <2>1, <2>2, <2>3 DEF Index!Settle, Index!By
        <2>5. Index!Land(h) BY <1>3, <2>1, <2>4 DEF Index!Land
        <2> QED BY <2>5 DEF Index!Next
    <1>6. CASE Publish(h) \/ PublishLost(h)
        <2> DEFINE c == commit[h]
        <2>1. Advance(h) /\ accepted' = accepted BY <1>6 DEF Publish, PublishLost
        <2>2. /\ \A p \in Paths : landed'[h][p] = IF IsOp(c.ops[p]) THEN c.ops[p].ts ELSE landed[h][p]
              /\ \A p \in Paths : IsOp(c.ops[p]) => Known(h, p, c.ops[p]) /\ landed[h][p] <= c.ops[p].ts
              /\ Upstream' = c.work
              /\ \A p \in Paths : c.work[p] = IF IsOp(c.ops[p]) /\ p \notin c.kept
                                              THEN c.ops[p].val ELSE Upstream[p]
            BY <1>1, <2>1, AdvanceSettles
        <2>3. \A p \in Paths : landed[h][p] \in Nat /\ c.ops[p].ts \in Nat
            <3>1. c.ops \in Ops /\ landed[h] \in [Paths -> Nat] BY DEF TypeOK, CommitState
            <3> QED BY <3>1 DEF Ops, Op
        <2> HIDE DEF c
        <2>4. \A p \in Paths : IsOp(c.ops[p]) =>
                 /\ landed'[h][p] = c.ops[p].ts /\ landed'[h][p] >= landed[h][p]
                 /\ \E m \in Index!By(h, p) : m.val = c.ops[p].val /\ m.ts = landed'[h][p] /\ m.ts >= landed[h][p]
            BY <2>2, <2>3 DEF Known, Index!By
        <2>5. Index!Settle(h)
            BY <1>2, <2>2, <2>4 DEF Index!Settle
        <2>6. \A p \in Paths :
                 \/ Upstream'[p] = Upstream[p]
                 \/ \E m \in Index!By(h, p) : /\ m.val = Upstream'[p]
                                              /\ m.ts >= landed[h][p] /\ landed'[h][p] = m.ts
            BY <2>2, <2>4
        <2>7. Index!Land(h) BY <2>1, <2>5, <2>6 DEF Index!Land
        <2> QED BY <2>7 DEF Index!Next
    <1>7. CASE LoadStore(h) \/ LoadClearJournal(h)
        BY <1>3, <1>7 DEF LoadStore, LoadClearJournal, histVars
    <1>8. CASE LoopWakes(h) \/ Flush(h)
        BY <1>1, <1>3, <1>8, FreezeRecorded
    <1>9. CASE PublishConflict(h) \/ CommitFails(h) \/ Rebase(h)
        BY <1>1, <1>3, <1>9, RetriesRecorded
    <1>10. CASE Apply(h) \/ Evict(h) \/ Crash(h)
        BY <1>1, <1>3, <1>10, ApplyRecorded, LeavingRecorded
    <1> QED BY <1>4, <1>5, <1>6, <1>7, <1>8, <1>9, <1>10 DEF Step

\* The commit pipeline implements the contract of the shared index: no value is published
\* that no hub wrote, no hub undoes work on a path it has no mutation for, and none lands
\* its own mutations of a path out of order, even when mutations arrive before a load has
\* cleared the journal.
THEOREM ImplementsSharedIndex ==
    ASSUME ~LargeTree
    PROVE  Spec => IndexContract
    <1>1. Init => Index!Init
        <2> SUFFICES ASSUME Init PROVE Index!Init OBVIOUS
        <2>1. Upstream \in [Paths -> Nat] BY TypeInit, UpstreamType DEF Trees
        <2> QED BY <2>1 DEF Init, Index!Init
    <1>2. TypeOK /\ CacheInv /\ ContractInv /\ [Next]_vars
          => [Index!Next]_<<Upstream, accepted, landed>>
        <2> SUFFICES ASSUME TypeOK, CacheInv, ContractInv, [Next]_vars
                     PROVE  Index!Next \/ UNCHANGED <<Upstream, accepted, landed>>
            OBVIOUS
        <2>1. CASE UNCHANGED vars BY <2>1 DEF vars, histVars, Upstream
        <2>2. ASSUME NEW h \in Hubs, Step(h)
              PROVE  Index!Next \/ UNCHANGED <<Upstream, accepted, landed>>
            BY <2>2, IndexStep DEF CacheInv
        <2> QED BY <2>1, <2>2 DEF Next
    <1> QED BY TypeInit, TypeNext, CacheInit, CacheNext, ContractInit, ContractNext, <1>1, <1>2,
               PTL DEF Spec, IndexContract, Index!Spec

-----------------------------------------------------------------------------
(* The conflict policy.                                                    *)

\* Timestamps are the clock's, one per mutation; what a mutation writes is its own.
Dated ==
    /\ now >= 1
    /\ \A m \in accepted :
          /\ 1 < m.ts /\ m.ts <= now
          /\ m.val = Absent \/ m.val = m.ts
          /\ \A n \in accepted : n.ts = m.ts => n = m

\* Content was there from the start, or a mutation of the path wrote it.
Sourced(p, v) == v \in {Absent, 1} \/ \E m \in accepted : m.path = p /\ m.val = v
HistorySourced == \A i \in DOMAIN hist, p \in Paths : Sourced(p, hist[i][p])

\* A pending operation is not older than the content it is to replace, be that
\* of the revision the hub stands on or of the base of a rebase.
Ahead(h) ==
    hydrated[h] => \A p \in Paths : IsOp(pend[h][p]) =>
        base[h][p] <= pend[h][p].ts /\ hist[sha[h]][p] <= pend[h][p].ts

\* Nor is one a load is about to replay.
LoadAhead(h) ==
    load[h].pc = "store" => \A p \in Paths : IsOp(load[h].ops[p]) =>
        hist[load[h].sha][p] <= load[h].ops[p].ts

\* The base is made of content that exists.
BaseDated(h) == \A p \in Paths : base[h][p] <= now

\* Without mutations the cache stands still while it is being committed.
Still(h) == commit[h].pc # "idle" => ~commit[h].moved /\ commit[h].base = base[h]

\* What an attempt lands is not older than what it replaces.
Chosen(h) ==
    LET c == commit[h] IN
    c.pc = "publish" => \A p \in Paths : IsOp(c.ops[p]) /\ p \notin c.kept =>
        hist[c.prev][p] <= c.ops[p].ts

RankHub(h) == Ahead(h) /\ LoadAhead(h) /\ BaseDated(h) /\ Still(h) /\ Chosen(h)
RankInv == Dated /\ HistorySourced /\ \A h \in Hubs : RankHub(h)

\* No revision holds v at p.
Nowhere(p, v) == \A i \in DOMAIN hist : hist[i][p] # v

\* Only pending work is journalled, and a clean entry has none.
OnlyPending(h) ==
    /\ \A p \in Paths : IsOp(journal[h][p]) => IsOp(pend[h][p])
    /\ ~dirty[h] => \A p \in Paths : ~IsOp(pend[h][p])

\* The base is the revision the hub stands on.
Grounded(h) == hydrated[h] => base[h] = hist[sha[h]]

\* What is pending has not landed: no revision holds what it writes.
Unlanded(h) ==
    commit[h].pc # "apply" =>
        \A p \in Paths : IsOp(pend[h][p]) => Nowhere(p, pend[h][p].ts)

\* A pending delete took away what the base holds, or work of this hub that never
\* landed.
DeletesSeen(h) ==
    commit[h].pc # "apply" =>
        \A p \in Paths : IsOp(pend[h][p]) /\ pend[h][p].val = Absent =>
            \/ pend[h][p].over = base[h][p]
            \/ /\ \E m \in accepted : m.hub = h /\ m.path = p /\ m.ts = pend[h][p].over
               /\ Nowhere(p, pend[h][p].over)

SeenHub(h) == OnlyPending(h) /\ Grounded(h) /\ Unlanded(h) /\ DeletesSeen(h)
SeenInv == \A h \in Hubs : SeenHub(h)

\* The transaction that keeps the lock, seen from its hub.
Mutated(h, p, v) ==
    /\ now' = now + 1 /\ hydrated[h] /\ commit[h].pc = "idle" /\ commit'[h].pc = "idle"
    /\ v = Absent => meta[h][p] # Absent
    /\ LET op == [val |-> v, ts |-> now + 1, seq |-> seq[h] + 1, over |-> meta[h][p]] IN
       /\ pend'[h] = [pend[h] EXCEPT ![p] = op]
       /\ journal'[h] = [journal[h] EXCEPT ![p] = op]
    /\ accepted' = accepted \cup {[hub |-> h, path |-> p, val |-> v, ts |-> now + 1]}
    /\ dirty'[h]
    /\ UNCHANGED <<hist, hydrated, sha, base, load>>

LEMMA MutationDoes ==
    ASSUME ~LargeTree, ~MidCommit, TypeOK, NEW h \in Hubs, HubInv(h),
           (\E p \in Paths : Mutate(h, p) \/ ProbePublish(h, p)) \/ ProbeStart(h)
    PROVE  \E p \in Paths : \E v \in {now + 1, Absent} : Mutated(h, p, v)
    <1>1. PICK p \in Paths : Mutate(h, p)
        BY DEF ProbePublish, ProbeStart, HubInv
    <1>2. PICK v \in {now + 1, Absent} :
              (v = Absent => meta[h][p] # Absent) /\ Accept(h, meta[h], p, v, now + 1)
        BY <1>1 DEF Mutate
    <1>3. now' = now + 1 /\ hydrated[h] /\ commit[h].pc = "idle" BY <1>1 DEF Mutate, CanMutate
    <1> DEFINE op == [val |-> v, ts |-> now + 1, seq |-> seq[h] + 1, over |-> meta[h][p]]
    <1>4. /\ pend' = [pend EXCEPT ![h] = [pend[h] EXCEPT ![p] = op]]
          /\ journal' = [journal EXCEPT ![h] = [journal[h] EXCEPT ![p] = op]]
          /\ commit' = [commit EXCEPT ![h] = [commit[h] EXCEPT !.moved = FALSE]]
          /\ accepted' = accepted \cup {[hub |-> h, path |-> p, val |-> v, ts |-> now + 1]}
          /\ dirty' = [dirty EXCEPT ![h] = TRUE]
          /\ UNCHANGED <<hist, hydrated, sha, base, load>>
        BY <1>2, <1>3 DEF Accept, TypeOK
    <1> HIDE DEF op
    <1>5. pend'[h] = [pend[h] EXCEPT ![p] = op] /\ journal'[h] = [journal[h] EXCEPT ![p] = op]
          /\ dirty'[h] /\ commit'[h] = [commit[h] EXCEPT !.moved = FALSE]
        BY <1>4 DEF TypeOK
    <1>6. commit'[h].pc = "idle"
        BY <1>3, <1>5 DEF TypeOK, CommitState
    <1>7. Mutated(h, p, v) BY <1>2, <1>3, <1>4, <1>5, <1>6 DEF Mutated, op
    <1> QED BY <1>7

\* The base of a hub is its own, and only a push moves the index.
LEMMA BaseFrame ==
    ASSUME TypeOK, NEW h \in Hubs, Step(h)
    PROVE  /\ \A g \in Hubs \ {h} : base'[g] = base[g]
           /\ hist' = hist \/ Publish(h) \/ PublishLost(h)
    <1> USE DEF cacheVars
    <1>1. CASE LoadRead(h) \/ LoadStore(h) \/ LoadClearJournal(h)
        BY <1>1 DEF LoadRead, LoadStore, LoadClearJournal, TypeOK
    <1>2. CASE (\E p \in Paths : Mutate(h, p) \/ ProbePublish(h, p)) \/ ProbeStart(h)
        BY <1>2 DEF Mutate, ProbePublish, ProbeStart, Accept, TypeOK
    <1>3. CASE LoopWakes(h) \/ Flush(h)
        BY <1>3 DEF LoopWakes, Flush, Freeze
    <1>4. CASE Publish(h) \/ PublishLost(h)
        BY <1>4 DEF Publish, PublishLost
    <1>5. CASE PublishConflict(h) \/ CommitFails(h) \/ Rebase(h) \/ Apply(h)
        BY <1>5 DEF PublishConflict, CommitFails, Rebase, Apply, TypeOK
    <1>6. CASE Evict(h) \/ Crash(h)
        BY <1>6 DEF Evict, Crash, Forgotten, TypeOK
    <1> QED BY <1>1, <1>2, <1>3, <1>4, <1>5, <1>6 DEF Step

\* Only a transaction acknowledges anything or moves the clock.
LEMMA RecordStands ==
    ASSUME TypeOK, NEW h \in Hubs, HubInv(h), ContractHub(h), Step(h),
           ~((\E p \in Paths : Mutate(h, p) \/ ProbePublish(h, p)) \/ ProbeStart(h))
    PROVE  accepted' = accepted /\ now' = now
    BY LoadReadRecorded, LoadStoreRecorded, ClearRecorded, FreezeRecorded, LandingRecorded,
       RetriesRecorded, ApplyRecorded, LeavingRecorded DEF Step

LEMMA SourcedDated ==
    ASSUME TypeOK, Dated, NEW p, NEW v, Sourced(p, v)
    PROVE  v <= now
    <1>1. now \in Nat /\ now >= 1 BY DEF TypeOK, Dated
    <1>2. CASE v \in {Absent, 1} BY <1>1, <1>2 DEF Absent
    <1>3. ASSUME NEW m \in accepted, m.val = v PROVE v <= now
        <2>1. m.ts <= now /\ (m.val = 0 \/ m.val = m.ts) BY DEF Dated, Absent
        <2> QED BY <1>1, <1>3, <2>1
    <1> QED BY <1>2, <1>3 DEF Sourced

LEMMA HistoryDated ==
    ASSUME TypeOK, Dated, HistorySourced, NEW i \in DOMAIN hist, NEW p \in Paths
    PROVE  hist[i][p] \in Nat /\ hist[i][p] <= now
    BY SourcedDated DEF HistorySourced, TypeOK, Trees

\* A mutation is dated by the clock and writes nothing but its own content.
LEMMA DatedKeeps ==
    ASSUME ~LargeTree, ~MidCommit, TypeOK, NEW h \in Hubs, HubInv(h), ContractHub(h), Dated, HistorySourced,
           Step(h)
    PROVE  Dated' /\ HistorySourced' /\ accepted \subseteq accepted' /\ now <= now'
    <1>0. \A i \in DOMAIN hist, p \in Paths : Sourced(p, hist[i][p]) BY DEF HistorySourced
    <1>1. CASE (\E p \in Paths : Mutate(h, p) \/ ProbePublish(h, p)) \/ ProbeStart(h)
        <2>1. PICK p \in Paths : \E v \in {now + 1, Absent} : Mutated(h, p, v)
            BY <1>1, MutationDoes
        <2>2. PICK v \in {now + 1, Absent} : Mutated(h, p, v) BY <2>1
        <2> DEFINE m0 == [hub |-> h, path |-> p, val |-> v, ts |-> now + 1]
        <2>3. now' = now + 1 /\ now \in Nat /\ hist' = hist /\ accepted' = accepted \cup {m0}
            BY <2>2 DEF Mutated, TypeOK
        <2>4. m0.ts = now + 1 /\ m0.val = v OBVIOUS
        <2> HIDE DEF m0
        <2>5. \A m \in accepted : m.ts \in Nat BY DEF TypeOK, Accepted
        <2>6. Dated' BY <2>2, <2>3, <2>4, <2>5 DEF Dated
        <2>7. HistorySourced' BY <1>0, <2>3 DEF HistorySourced, Sourced
        <2> QED BY <2>3, <2>6, <2>7
    <1>2. CASE ~((\E p \in Paths : Mutate(h, p) \/ ProbePublish(h, p)) \/ ProbeStart(h))
        <2>1. accepted' = accepted /\ now' = now BY <1>2, RecordStands
        <2>2. now \in Nat BY DEF TypeOK
        <2>3. CASE hist' = hist
            BY <1>0, <2>1, <2>2, <2>3 DEF HistorySourced, Sourced, Dated
        <2>4. CASE Publish(h) \/ PublishLost(h)
            <3>1. Advance(h) BY <2>4 DEF Publish, PublishLost
            <3> DEFINE c == commit[h]
            <3>2. /\ \A p \in Paths : IsOp(c.ops[p]) => Known(h, p, c.ops[p])
                  /\ \A p \in Paths : c.work[p] = IF IsOp(c.ops[p]) /\ p \notin c.kept
                                                 THEN c.ops[p].val ELSE Upstream[p]
                BY <3>1, AdvanceSettles
            <3>3. \A p \in Paths : Sourced(p, c.work[p])
                BY <1>0, <3>2, UpstreamType DEF Known, Sourced
            <3> HIDE DEF c
            <3>4. hist' = Append(hist, c.work) /\ hist \in Seq(Trees) /\ c.work \in Trees
                BY <3>1 DEF Advance, TypeOK, CommitState, c
            <3>5. \A i \in DOMAIN hist' : hist'[i] = c.work \/ (i \in DOMAIN hist /\ hist'[i] = hist[i])
                BY <3>4
            <3> QED BY <1>0, <2>1, <2>2, <3>3, <3>5 DEF HistorySourced, Sourced, Dated
        <2> QED BY <2>3, <2>4, BaseFrame
    <1> QED BY <1>1, <1>2

LEMMA RankOthers ==
    ASSUME TypeOK, NEW g \in Hubs, HubInv(g), ContractHub(g), RankHub(g),
           SameHub(g), base'[g] = base[g], HistoryKept, now' \in Nat, now <= now'
    PROVE  RankHub(g)'
    <1>1. Ahead(g)' BY DEF RankHub, Ahead, SameHub, HistoryKept, HubInv, CoherentHub
    <1>2. LoadAhead(g)' BY DEF RankHub, LoadAhead, SameHub, HistoryKept, HubInv, LoadedTree
    <1>3. BaseDated(g)'
        <2>1. now \in Nat /\ \A p \in Paths : base[g][p] \in Nat BY DEF TypeOK, Trees
        <2> QED BY <2>1 DEF RankHub, BaseDated
    <1>4. Still(g)' BY DEF RankHub, Still, SameHub
    <1>5. Chosen(g)' BY DEF RankHub, Chosen, SameHub, HistoryKept, ContractHub, Attempt
    <1> QED BY <1>1, <1>2, <1>3, <1>4, <1>5 DEF RankHub

\* A load replays nothing older than what upstream holds.
LEMMA RankLoads ==
    ASSUME TypeOK, NEW h \in Hubs, HubInv(h), ContractHub(h), Dated, HistorySourced, RankHub(h),
           LoadRead(h) \/ LoadStore(h) \/ LoadClearJournal(h)
    PROVE  RankHub(h)'
    <1>1. CASE LoadRead(h)
        <2> DEFINE drop == {p \in Paths : NewerThan(Upstream[p], journal[h][p])}
                   kept == [p \in Paths |-> IF ~hydrated[h] /\ p \notin drop
                                            THEN journal[h][p] ELSE NoOp]
        <2>1. /\ load'[h].pc = "store" /\ load'[h].ops = kept /\ load'[h].sha = Tip
              /\ UNCHANGED <<hist, now, hydrated, sha, base, pend, commit>>
            BY <1>1 DEF LoadRead, TypeOK, cacheVars
        <2>2. \A p \in Paths : IsOp(kept[p]) => Upstream[p] <= kept[p].ts
            <3>1. \A p \in Paths : Upstream[p] \in Nat /\ journal[h][p].ts \in Nat
                BY UpstreamType DEF TypeOK, Ops, Op, Trees
            <3> QED BY <3>1 DEF NewerThan, IsOp, NoOp, Absent
        <2> HIDE DEF kept
        <2>3. LoadAhead(h)' BY <2>1, <2>2, UpstreamType DEF LoadAhead
        <2> QED BY <2>1, <2>3 DEF RankHub, Ahead, BaseDated, Still, Chosen
    <1>2. CASE LoadStore(h)
        <2> DEFINE l == load[h]
                   ops == [p \in Paths |-> IF IsOp(l.ops[p]) THEN [l.ops[p] EXCEPT !.seq = 1]
                                           ELSE NoOp]
                   replayed == \E p \in Paths : IsOp(l.ops[p])
                   busy == dirty[h] \/ \E p \in Paths : IsOp(pend[h][p])
        <2>1. l \in LoadState /\ l.ops \in Ops /\ l.pc = "store" /\ commit[h] \in CommitState
            BY <1>2 DEF TypeOK, LoadState, LoadStore
        <2>2. /\ l.sha \in DOMAIN hist /\ l.tree = Overlay(hist[l.sha], l.ops)
              /\ hydrated[h] => ~replayed
              /\ ~hydrated[h] => ~busy /\ commit[h].pc = "idle"
              /\ busy \/ commit[h].pc = "idle"
            BY <2>1 DEF HubInv, LoadedTree, ColdIsQuiet, FrozenBatch, NoOps, NoOp, IsOp
        <2>3. /\ UNCHANGED <<hist, now, accepted>> /\ hydrated'[h] /\ load'[h].pc # "store"
            BY <1>2 DEF LoadStore, AfterStore, NotLoading, TypeOK, histVars
        <2>4. commit'[h] = [commit[h] EXCEPT !.moved = @ \/ ((replayed \/ ~busy) /\ commit[h].pc # "idle")]
            <3>1. commit' = [commit EXCEPT ![h].moved = @ \/ ((replayed \/ ~busy) /\ commit[h].pc # "idle")]
                BY <1>2 DEF LoadStore
            <3> HIDE DEF replayed, busy
            <3> QED BY <3>1 DEF TypeOK
        <2>5. (replayed \/ ~busy) /\ commit[h].pc # "idle" <=> FALSE BY <2>2
        <2>6. /\ commit'[h].pc = commit[h].pc /\ commit'[h].moved = commit[h].moved
              /\ commit'[h].base = commit[h].base /\ commit'[h].ops = commit[h].ops
              /\ commit'[h].kept = commit[h].kept /\ commit'[h].prev = commit[h].prev
            <3> HIDE DEF replayed, busy
            <3>1. commit'[h] = [commit[h] EXCEPT !.moved = commit[h].moved \/ FALSE]
                BY <2>4, <2>5
            <3> QED BY <2>1, <3>1 DEF CommitState
        <2>7. Chosen(h)' BY <2>3, <2>6 DEF RankHub, Chosen
        <2>8. CASE replayed \/ ~busy
            <3>1. base'[h] = l.tree /\ pend'[h] = ops /\ sha'[h] = l.sha
                BY <1>2, <2>8 DEF LoadStore, TypeOK
            <3>2. \A p \in Paths : IsOp(l.ops[p]) => Known(h, p, l.ops[p])
                <4>1. \A p \in Paths : IsOp(l.ops[p]) => l.ops[p] = journal[h][p]
                    BY <2>1, <2>2 DEF ContractHub, Replayed, IsOp, NoOp
                <4> QED BY <4>1 DEF ContractHub, Recorded, Newest
            <3>3. \A p \in Paths : IsOp(l.ops[p]) => l.ops[p].val <= l.ops[p].ts /\ l.ops[p].ts <= now
                <4>1. ASSUME NEW p \in Paths, IsOp(l.ops[p])
                      PROVE  l.ops[p].val <= l.ops[p].ts /\ l.ops[p].ts <= now
                    <5>1. PICK m \in accepted : m.val = l.ops[p].val /\ m.ts = l.ops[p].ts
                        BY <3>2, <4>1 DEF Known
                    <5>2. m.ts \in Nat /\ m.ts <= now /\ (m.val = 0 \/ m.val = m.ts)
                        BY DEF Dated, Absent, TypeOK, Accepted
                    <5> QED BY <5>1, <5>2
                <4> QED BY <4>1
            <3>4. \A p \in Paths : hist[l.sha][p] \in Nat /\ hist[l.sha][p] <= now
                BY <2>2, HistoryDated
            <3>5. \A p \in Paths :
                     /\ l.ops[p].val \in Nat /\ l.ops[p].ts \in Nat
                     /\ IsOp(ops[p]) <=> IsOp(l.ops[p])
                     /\ IsOp(ops[p]) => ops[p].ts = l.ops[p].ts
                BY <2>1 DEF Ops, Op, IsOp, NoOp
            <3>6. \A p \in Paths : l.tree[p] = IF IsOp(l.ops[p]) THEN l.ops[p].val ELSE hist[l.sha][p]
                BY <2>2 DEF Overlay
            <3>7. now \in Nat BY DEF TypeOK
            <3>8. \A p \in Paths : IsOp(l.ops[p]) => hist[l.sha][p] <= l.ops[p].ts
                BY <2>1 DEF RankHub, LoadAhead
            <3> HIDE DEF l, ops
            <3>9. BaseDated(h)'
                <4>1. \A p \in Paths : l.tree[p] <= now BY <3>3, <3>4, <3>5, <3>6, <3>7
                <4> QED BY <2>3, <3>1, <4>1 DEF BaseDated
            <3>10. Ahead(h)'
                <4>1. \A p \in Paths : IsOp(ops[p]) =>
                         l.tree[p] <= ops[p].ts /\ hist[l.sha][p] <= ops[p].ts
                    BY <3>3, <3>5, <3>6, <3>8
                <4> QED BY <2>3, <3>1, <4>1 DEF Ahead
            <3>11. commit[h].pc = "idle" BY <2>2, <2>8
            <3> QED BY <2>3, <2>6, <2>7, <3>9, <3>10, <3>11 DEF RankHub, LoadAhead, Still
        <2>9. CASE ~replayed /\ busy
            <3>1. base'[h] = base[h] /\ pend'[h] = pend[h] /\ sha'[h] = sha[h]
                BY <1>2, <2>9 DEF LoadStore, TypeOK
            <3>2. hydrated[h] BY <2>2, <2>9
            <3> HIDE DEF l, ops, replayed, busy
            <3> QED BY <2>3, <2>6, <2>7, <3>1, <3>2 DEF RankHub, Ahead, LoadAhead, BaseDated, Still
        <2> QED BY <2>8, <2>9
    <1>3. CASE LoadClearJournal(h)
        <2>1. /\ load'[h].pc = "idle"
              /\ UNCHANGED <<hist, now, hydrated, sha, base, pend, commit>>
            BY <1>3 DEF LoadClearJournal, TypeOK, cacheVars, NotLoading
        <2> QED BY <2>1 DEF RankHub, Ahead, LoadAhead, BaseDated, Still, Chosen
    <1> QED BY <1>1, <1>2, <1>3

\* The clock has passed everything a new operation may replace.
LEMMA RankMutations ==
    ASSUME ~LargeTree, ~MidCommit, TypeOK, NEW h \in Hubs, HubInv(h), Dated, HistorySourced, RankHub(h),
           (\E p \in Paths : Mutate(h, p) \/ ProbePublish(h, p)) \/ ProbeStart(h)
    PROVE  RankHub(h)'
    <1>1. PICK p \in Paths : \E v \in {now + 1, Absent} : Mutated(h, p, v)
        BY MutationDoes
    <1>2. PICK v \in {now + 1, Absent} : Mutated(h, p, v) BY <1>1
    <1> DEFINE op == [val |-> v, ts |-> now + 1, seq |-> seq[h] + 1, over |-> meta[h][p]]
    <1>3. /\ pend'[h] = [pend[h] EXCEPT ![p] = op] /\ op.ts = now + 1
          /\ now' = now + 1 /\ now \in Nat /\ hydrated[h] /\ commit'[h].pc = "idle"
          /\ UNCHANGED <<hist, hydrated, sha, base, load>>
        BY <1>2 DEF Mutated, TypeOK
    <1> HIDE DEF op
    <1>4. sha[h] \in DOMAIN hist BY <1>3 DEF HubInv, CoherentHub
    <1>5. \A q \in Paths : /\ base[h][q] \in Nat /\ base[h][q] <= now
                           /\ hist[sha[h]][q] \in Nat /\ hist[sha[h]][q] <= now
        BY <1>4, HistoryDated DEF RankHub, BaseDated, TypeOK, Trees
    <1>6. \A q \in Paths : pend'[h][q] = IF q = p THEN op ELSE pend[h][q]
        BY <1>3 DEF TypeOK, Ops
    <1>7. Ahead(h)'
        <2>1. ASSUME NEW q \in Paths, IsOp(pend'[h][q])
              PROVE  base[h][q] <= pend'[h][q].ts /\ hist[sha[h]][q] <= pend'[h][q].ts
            <3>1. CASE q = p BY <1>3, <1>5, <1>6, <3>1
            <3>2. CASE q # p BY <1>3, <1>6, <2>1, <3>2 DEF RankHub, Ahead
            <3> QED BY <3>1, <3>2
        <2> QED BY <1>3, <2>1 DEF Ahead
    <1>8. BaseDated(h)' BY <1>3, <1>5 DEF BaseDated
    <1> QED BY <1>3, <1>7, <1>8 DEF RankHub, LoadAhead, Still, Chosen

LEMMA RankFreeze ==
    ASSUME TypeOK, NEW h \in Hubs, HubInv(h), RankHub(h), LoopWakes(h) \/ Flush(h)
    PROVE  RankHub(h)'
    <1>1. UNCHANGED <<hist, now, hydrated, sha, base, pend, load>>
        BY DEF LoopWakes, Flush, Freeze
    <1>2. CASE UNCHANGED commit
        BY <1>1, <1>2 DEF RankHub, Ahead, LoadAhead, BaseDated, Still, Chosen
    <1>3. CASE Freeze(h)
        <2>1. /\ commit'[h].pc = "publish" /\ commit'[h].prev = sha[h] /\ commit'[h].ops = pend[h]
              /\ ~commit'[h].moved /\ commit'[h].base = base[h]
            BY <1>3 DEF Freeze, TypeOK
        <2>2. hydrated[h] BY <1>3 DEF Freeze, HubInv, ColdIsQuiet
        <2> QED BY <1>1, <2>1, <2>2 DEF RankHub, Ahead, LoadAhead, BaseDated, Still, Chosen
    <1> QED BY <1>2, <1>3 DEF LoopWakes, Flush

\* A rebase leaves out what upstream outranks: the rest is newer, or replaces
\* what the operations were made on.
LEMMA RankAttempts ==
    ASSUME TypeOK, NEW h \in Hubs, HubInv(h), ContractHub(h), RankHub(h), HistoryKept,
           \/ Publish(h) \/ PublishConflict(h) \/ PublishLost(h)
           \/ CommitFails(h) \/ Rebase(h)
    PROVE  RankHub(h)'
    <1> DEFINE c == commit[h]
    <1>1. /\ UNCHANGED <<now, hydrated, sha, base, pend, load>>
          /\ c \in CommitState /\ c.pc # "idle"
        BY DEF Publish, PublishConflict, PublishLost, CommitFails, Rebase, Advance, TypeOK,
               cacheVars
    <1>2. hydrated[h] /\ sha[h] \in DOMAIN hist
        BY <1>1 DEF HubInv, ColdIsQuiet, CoherentHub
    <1>3. Ahead(h)' /\ LoadAhead(h)' /\ BaseDated(h)'
        BY <1>1, <1>2 DEF RankHub, Ahead, LoadAhead, BaseDated, HistoryKept, HubInv, LoadedTree
    <1>4. CASE commit'[h].pc \in {"idle", "rebase", "apply"}
               /\ (commit'[h].pc # "idle" => commit'[h].moved = c.moved /\ commit'[h].base = c.base)
        BY <1>1, <1>3, <1>4 DEF RankHub, Still, Chosen
    <1>5. CASE Publish(h)
        <2>1. commit'[h] = [c EXCEPT !.pc = "apply", !.new = Len(hist')]
            BY <1>5 DEF Publish, TypeOK
        <2> QED BY <1>1, <1>4, <2>1 DEF CommitState
    <1>6. CASE Conflicted(h) \/ commit' = [commit EXCEPT ![h] = NotCommitting]
        <2>1. commit'[h] \in {[c EXCEPT !.pc = "rebase"], NotCommitting}
            BY <1>6 DEF Conflicted, TypeOK
        <2> QED BY <1>1, <1>4, <2>1 DEF CommitState, NotCommitting
    <1>7. CASE Rebase(h)
        <2> DEFINE kept == {p \in Paths : IsOp(c.ops[p]) /\ Outranks(Upstream[p], c.base[p], c.ops[p])}
        <2>1. commit'[h] = [c EXCEPT !.pc = "publish", !.prev = Tip, !.tries = @ + 1, !.rebased = TRUE,
                                     !.kept = kept, !.work = RebasedTree(c, kept)]
              /\ hist' = hist
            BY <1>7 DEF Rebase, TypeOK
        <2>2. \A p \in Paths : IsOp(c.ops[p]) /\ p \notin kept => ~Outranks(Upstream[p], c.base[p], c.ops[p])
            OBVIOUS
        <2> HIDE DEF kept
        <2>3. /\ commit'[h].prev = Tip /\ commit'[h].kept = kept /\ commit'[h].ops = c.ops
              /\ commit'[h].moved = c.moved /\ commit'[h].base = c.base
            BY <1>1, <2>1 DEF CommitState
        <2>4. ~c.moved /\ c.base = base[h] /\ c.ops = pend[h]
            BY <1>1 DEF RankHub, Still, HubInv, FrozenBatch
        <2>5. \A p \in Paths : Upstream[p] \in Nat /\ c.ops[p].ts \in Nat
            <3>1. c.ops \in Ops BY <1>1 DEF CommitState
            <3> QED BY <3>1, UpstreamType DEF Ops, Op, Trees
        <2>6. \A p \in Paths : IsOp(c.ops[p]) => c.base[p] <= c.ops[p].ts
            BY <1>2, <2>4 DEF RankHub, Ahead
        <2> HIDE DEF c
        <2>7. \A p \in Paths : IsOp(c.ops[p]) /\ p \notin kept => Upstream[p] <= c.ops[p].ts
            BY <2>2, <2>5, <2>6 DEF Outranks, NewerThan, Absent
        <2>8. Chosen(h)' BY <2>1, <2>3, <2>7, UpstreamType DEF Chosen
        <2>9. Still(h)' BY <1>1, <2>3, <2>4 DEF Still
        <2> QED BY <1>3, <2>8, <2>9 DEF RankHub
    <1> QED BY <1>5, <1>6, <1>7 DEF PublishConflict, PublishLost, CommitFails

\* Nothing outlives the commit that lands it.
LEMMA ApplyClears ==
    ASSUME TypeOK, NEW h \in Hubs, HubInv(h), Still(h), Apply(h)
    PROVE  /\ \A p \in Paths : ~IsOp(pend'[h][p]) /\ ~IsOp(journal'[h][p])
           /\ base'[h] = commit[h].work /\ sha'[h] = commit[h].new /\ commit'[h].pc = "idle"
           /\ ~dirty'[h]
           /\ commit[h].new \in DOMAIN hist /\ hist[commit[h].new] = commit[h].work
           /\ UNCHANGED <<hist, now, hydrated, load>>
    <1> DEFINE c == commit[h]
               surviving == ClearUpTo(pend[h], c.opSeq)
    <1>1. c.pc = "apply" /\ ~c.moved /\ c \in CommitState BY DEF Apply, Still, TypeOK
    <1>2. /\ pend'[h] = surviving /\ journal'[h] = surviving /\ commit'[h].pc = "idle"
          /\ base'[h] = c.work /\ sha'[h] = c.new /\ dirty'[h] = (dirty[h] /\ c.moved)
          /\ UNCHANGED <<hist, now, hydrated, load>>
        BY DEF Apply, TypeOK, NotCommitting
    <1>3. \A p \in Paths : ~(pend[h][p].seq > c.opSeq)
        <2>1. pend[h] = c.ops /\ \A p \in Paths : c.ops[p].seq <= c.opSeq
            BY <1>1 DEF HubInv, FrozenBatch
        <2>2. c.opSeq \in Nat /\ \A p \in Paths : c.ops[p].seq \in Nat
            BY <1>1 DEF CommitState, Ops, Op
        <2> QED BY <2>1, <2>2
    <1>4. \A p \in Paths : ~IsOp(surviving[p]) BY <1>3 DEF ClearUpTo, IsOp, NoOp
    <1>5. c.new \in DOMAIN hist /\ hist[c.new] = c.work BY <1>1 DEF HubInv, WorkingTree
    <1> HIDE DEF surviving
    <1> QED BY <1>1, <1>2, <1>4, <1>5

LEMMA RankApply ==
    ASSUME TypeOK, NEW h \in Hubs, HubInv(h), Dated, HistorySourced, RankHub(h), Apply(h)
    PROVE  RankHub(h)'
    <1>1. /\ \A p \in Paths : ~IsOp(pend'[h][p])
          /\ base'[h] = hist[commit[h].new] /\ commit[h].new \in DOMAIN hist
          /\ commit'[h].pc = "idle" /\ UNCHANGED <<hist, now, hydrated, load>>
        BY ApplyClears DEF RankHub
    <1>2. \A p \in Paths : base'[h][p] <= now BY <1>1, HistoryDated
    <1> QED BY <1>1, <1>2 DEF RankHub, Ahead, LoadAhead, BaseDated, Still, Chosen

LEMMA RankLeaves ==
    ASSUME TypeOK, NEW h \in Hubs, RankHub(h), Evict(h) \/ Crash(h)
    PROVE  RankHub(h)'
    <1>1. /\ ~hydrated'[h] /\ base'[h] = Blank /\ commit'[h].pc = "idle" /\ load'[h].pc = "idle"
          /\ UNCHANGED <<hist, now>>
        BY DEF Evict, Crash, Forgotten, TypeOK, NotCommitting, NotLoading
    <1>2. \A p \in Paths : base'[h][p] <= now BY <1>1 DEF Blank, Absent, TypeOK
    <1> QED BY <1>1, <1>2 DEF RankHub, Ahead, LoadAhead, BaseDated, Still, Chosen

LEMMA RankInit == Init => RankInv
    <1> SUFFICES ASSUME Init PROVE RankInv OBVIOUS
    <1>1. Dated BY DEF Init, Dated
    <1>2. HistorySourced BY DEF Init, HistorySourced, Sourced
    <1>3. ASSUME NEW h \in Hubs PROVE RankHub(h)
        <2>1. /\ ~hydrated[h] /\ base[h] = Blank /\ now = 1
              /\ commit[h].pc = "idle" /\ load[h].pc = "idle"
            BY DEF Init, NotCommitting, NotLoading
        <2> QED BY <2>1 DEF RankHub, Ahead, LoadAhead, BaseDated, Still, Chosen, Blank, Absent
    <1> QED BY <1>1, <1>2, <1>3 DEF RankInv

LEMMA RankNext ==
    ASSUME ~LargeTree, ~MidCommit
    PROVE  TypeOK /\ CacheInv /\ ContractInv /\ RankInv /\ [Next]_vars => RankInv'
    <1>1. ASSUME TypeOK, RankInv, UNCHANGED vars PROVE RankInv'
        BY <1>1 DEF vars, cacheVars, histVars, RankInv, Dated, HistorySourced, Sourced, RankHub,
                    Ahead, LoadAhead, BaseDated, Still, Chosen
    <1>2. ASSUME TypeOK, CacheInv, ContractInv, RankInv, NEW h \in Hubs, Step(h) PROVE RankInv'
        <2>1. HubInv(h) /\ ContractHub(h) /\ RankHub(h) /\ Dated /\ HistorySourced
            BY <1>2 DEF CacheInv, ContractInv, RankInv
        <2>2. /\ HistoryKept /\ \A g \in Hubs \ {h} : SameHub(g) /\ base'[g] = base[g]
            BY <1>2, StepFrame, BaseFrame
        <2>3. Dated' /\ HistorySourced' /\ now <= now' BY <1>2, <2>1, DatedKeeps
        <2>4. RankHub(h)'
            BY <1>2, <2>1, <2>2, RankLoads, RankMutations, RankFreeze, RankAttempts, RankApply,
               RankLeaves DEF Step
        <2>5. now' \in Nat
            <3>1. TypeOK /\ [Next]_vars BY <1>2 DEF Next
            <3>2. TypeOK' BY <3>1, TypeNext
            <3> QED BY <3>2 DEF TypeOK
        <2>6. \A g \in Hubs \ {h} : RankHub(g)'
            BY <1>2, <2>2, <2>3, <2>5, RankOthers DEF CacheInv, ContractInv, RankInv
        <2> QED BY <2>3, <2>4, <2>6 DEF RankInv
    <1> QED BY <1>1, <1>2 DEF Next

\* What a push changes, and what the batch holds there.
LEMMA PushOutranks ==
    ASSUME ~LargeTree, ~MidCommit, TypeOK, CacheInv, ContractInv, RankInv, [Next]_vars,
           NEW h \in Hubs, NEW p \in Paths,
           Moves(h), Upstream'[p] # Upstream[p], Upstream[p] # Absent
    PROVE  commit[h].ops[p].ts > Upstream[p]
    <1> DEFINE c == commit[h]
    <1>1. PICK g \in Hubs : Step(g) BY DEF Moves, Next, vars
    <1>2. g = h BY <1>1, StepFrame DEF SameHub, Moves
    <1>3. Advance(h) BY <1>1, <1>2, BaseFrame DEF Moves, Publish, PublishLost
    <1>4. ContractHub(h) /\ RankHub(h) /\ Dated /\ HistorySourced BY DEF ContractInv, RankInv
    <1>5. /\ c.pc = "publish" /\ c.prev = Tip
          /\ IsOp(c.ops[p]) => Known(h, p, c.ops[p])
          /\ Upstream'[p] = IF IsOp(c.ops[p]) /\ p \notin c.kept THEN c.ops[p].val ELSE Upstream[p]
        <2>1. c.prev = Tip BY <1>3 DEF Advance
        <2>2. /\ c.pc = "publish" /\ Upstream' = c.work
              /\ \A q \in Paths : IsOp(c.ops[q]) => Known(h, q, c.ops[q])
              /\ \A q \in Paths : c.work[q] = IF IsOp(c.ops[q]) /\ q \notin c.kept
                                             THEN c.ops[q].val ELSE Upstream[q]
            BY <1>3, <1>4, AdvanceSettles
        <2> HIDE DEF c
        <2> QED BY <2>1, <2>2
    <1>6. IsOp(c.ops[p]) /\ p \notin c.kept /\ c.ops[p].val # Upstream[p] BY <1>5
    <1>7. Upstream[p] <= c.ops[p].ts BY <1>4, <1>5, <1>6, UpstreamType DEF RankHub, Chosen
    <1>8. PICK m \in accepted : m.val = c.ops[p].val /\ m.ts = c.ops[p].ts
        BY <1>5, <1>6 DEF Known
    <1>9. Upstream[p] # m.ts
        <2> SUFFICES ASSUME Upstream[p] = m.ts PROVE FALSE OBVIOUS
        <2>1. m.ts > 1 /\ m.ts \in Nat BY <1>4 DEF Dated, TypeOK, Accepted
        <2>2. Sourced(p, Upstream[p]) BY <1>4, UpstreamType DEF HistorySourced
        <2>3. PICK n \in accepted : n.val = Upstream[p] BY <2>1, <2>2 DEF Sourced, Absent
        <2>4. n.ts = m.ts BY <1>4, <2>3 DEF Dated
        <2>5. n = m BY <1>4, <2>4 DEF Dated
        <2> QED BY <1>6, <1>8, <2>3, <2>5
    <1>10. Upstream[p] \in Nat /\ m.ts \in Nat BY UpstreamType DEF Trees, TypeOK, Accepted
    <1> QED BY <1>7, <1>8, <1>9, <1>10

\* Last writer wins: whatever fails, is lost or crashes, a push replaces content only
\* with a mutation made later (rebase.go, commit_publish.go), provided that no
\* mutation arrives while a commit is in flight.
THEOREM LastWriterAlwaysWins ==
    ASSUME ~LargeTree, ~MidCommit
    PROVE  Spec => LastWriterWins
    <1>1. TypeOK /\ CacheInv /\ ContractInv /\ RankInv /\ [Next]_vars =>
             [\A h \in Hubs, p \in Paths :
                 Moves(h) /\ Upstream'[p] # Upstream[p] /\ Upstream[p] # Absent
                 => commit[h].ops[p].ts > Upstream[p]]_vars
        BY PushOutranks
    <1> QED BY TypeInit, TypeNext, CacheInit, CacheNext, ContractInit, ContractNext, RankInit, RankNext,
               <1>1, PTL DEF Spec, LastWriterWins

-----------------------------------------------------------------------------

LEMMA DatesPositive ==
    ASSUME Dated, NEW m \in accepted
    PROVE  m.ts # Absent
    BY DEF Dated, Absent

\* A value nowhere in the index stays so until somebody pushes it.
LEMMA NowhereKeeps ==
    ASSUME TypeOK, NEW g \in Hubs, ContractHub(g), Step(g), NEW p \in Paths, NEW v, Nowhere(p, v),
           \/ hist' = hist
           \/ ~IsOp(commit[g].ops[p]) \/ commit[g].ops[p].val # v
    PROVE  Nowhere(p, v)'
    <1>1. CASE hist' = hist BY <1>1 DEF Nowhere
    <1>2. CASE hist' # hist
        <2> DEFINE c == commit[g]
        <2>1. Advance(g) BY <1>2, BaseFrame DEF Publish, PublishLost
        <2>2. \A q \in Paths : c.work[q] = IF IsOp(c.ops[q]) /\ q \notin c.kept
                                          THEN c.ops[q].val ELSE Upstream[q]
            BY <2>1, AdvanceSettles
        <2>3. c.work[p] # v BY <1>2, <2>2, UpstreamType DEF Nowhere
        <2>4. hist' = Append(hist, c.work) /\ hist \in Seq(Trees) /\ c.work \in Trees
            BY <2>1 DEF Advance, TypeOK, CommitState
        <2> HIDE DEF c
        <2>5. \A i \in DOMAIN hist' : hist'[i] = c.work \/ (i \in DOMAIN hist /\ hist'[i] = hist[i])
            BY <2>4
        <2> QED BY <2>3, <2>5 DEF Nowhere
    <1> QED BY <1>1, <1>2

\* A pending delete, and the operation it is one of.
SeenAt(h, p) ==
    IsOp(pend[h][p]) =>
        /\ Nowhere(p, pend[h][p].ts)
        /\ pend[h][p].val = Absent =>
              \/ pend[h][p].over = base[h][p]
              \/ /\ \E m \in accepted : m.hub = h /\ m.path = p /\ m.ts = pend[h][p].over
                 /\ Nowhere(p, pend[h][p].over)

LEMMA SeenSplit ==
    ASSUME NEW h \in Hubs
    PROVE  SeenHub(h) <=> /\ OnlyPending(h) /\ Grounded(h)
                          /\ commit[h].pc # "apply" => \A p \in Paths : SeenAt(h, p)
    BY DEF SeenHub, Unlanded, DeletesSeen, SeenAt

\* Another hub pushes what it wrote, never what is pending here.
LEMMA SeenOthers ==
    ASSUME TypeOK, TypeOK', Dated, NEW g \in Hubs, NEW h \in Hubs, g # h, Step(h), HubInv(g), ContractHub(g),
           ContractHub(h), SeenHub(g), SameHub(g), base'[g] = base[g], SameRecord(g), HistoryKept
    PROVE  SeenHub(g)'
    <1>1. /\ commit'[g] = commit[g] /\ pend'[g] = pend[g] /\ journal'[g] = journal[g]
          /\ hydrated'[g] = hydrated[g] /\ sha'[g] = sha[g] /\ dirty'[g] = dirty[g] /\ base'[g] = base[g]
        BY DEF SameHub, SameRecord
    <1>2. OnlyPending(g)' BY <1>1 DEF SeenHub, OnlyPending
    <1>3. Grounded(g)'
        BY <1>1 DEF SeenHub, Grounded, HistoryKept, HubInv, CoherentHub
    <1>4. ASSUME NEW p \in Paths, NEW m \in accepted, m.hub = g, Nowhere(p, m.ts)
          PROVE  Nowhere(p, m.ts)'
        <2>0. m.ts' = m.ts OBVIOUS
        <2>1. CASE hist' = hist BY <1>4, <2>0, <2>1 DEF Nowhere
        <2>2. CASE hist' # hist
            <3>1. Advance(h) BY <2>2, BaseFrame DEF Publish, PublishLost
            <3>2. IsOp(commit[h].ops[p]) => Known(h, p, commit[h].ops[p])
                BY <3>1, AdvanceSettles
            <3>3. m.ts # Absent BY DatesPositive
            <3>4. ~IsOp(commit[h].ops[p]) \/ commit[h].ops[p].val # m.ts
                <4> SUFFICES ASSUME IsOp(commit[h].ops[p]) PROVE commit[h].ops[p].val # m.ts
                    OBVIOUS
                <4>1. PICK n \in accepted : n.hub = h /\ n.val = commit[h].ops[p].val
                    BY <3>2 DEF Known
                <4>2. n # m BY <1>4, <4>1
                <4>3. n.ts # m.ts /\ (n.val = Absent \/ n.val = n.ts) BY <4>2 DEF Dated
                <4> QED BY <3>3, <4>1, <4>3
            <3>5. ASSUME NEW v, Nowhere(p, v), ~IsOp(commit[h].ops[p]) \/ commit[h].ops[p].val # v
                  PROVE  Nowhere(p, v)'
                BY <3>5, NowhereKeeps
            <3> QED BY <1>4, <3>4, <3>5
        <2> QED BY <2>1, <2>2
    <1>5. \A m \in accepted : m.hub = g => m \in accepted' BY DEF SameRecord
    <1>6. ASSUME NEW p \in Paths, commit[g].pc # "apply" PROVE SeenAt(g, p)'
        <2> SUFFICES ASSUME IsOp(pend[g][p]) PROVE SeenAt(g, p)'
            BY <1>1 DEF SeenAt
        <2>1. SeenAt(g, p) BY <1>6, SeenSplit
        <2>2. PICK m \in accepted : m.hub = g /\ m.ts = pend[g][p].ts
            BY DEF ContractHub, Recorded, Newest, Known
        <2>3. Nowhere(p, pend[g][p].ts)' 
            <3>1. Nowhere(p, m.ts)' BY <1>4, <2>1, <2>2 DEF SeenAt
            <3> QED BY <1>1, <2>2, <3>1 DEF Nowhere
        <2>4. CASE pend[g][p].over = base[g][p] \/ pend[g][p].val # Absent
            BY <1>1, <2>3, <2>4 DEF SeenAt
        <2>5. ASSUME NEW n \in accepted, n.hub = g, n.path = p, n.ts = pend[g][p].over,
                     Nowhere(p, pend[g][p].over)
              PROVE  SeenAt(g, p)'
            <3>1. Nowhere(p, n.ts)' BY <1>4, <2>5
            <3>2. Nowhere(p, pend[g][p].over)' BY <1>1, <2>5, <3>1 DEF Nowhere
            <3>3. n \in accepted' BY <1>5, <2>5
            <3> QED BY <1>1, <2>3, <2>5, <3>2, <3>3 DEF SeenAt
        <2> QED BY <2>1, <2>4, <2>5 DEF SeenAt
    <1> QED BY <1>1, <1>2, <1>3, <1>6 DEF SeenHub, Unlanded, DeletesSeen, SeenAt

LEMMA SeenLoads ==
    ASSUME TypeOK, NEW h \in Hubs, HubInv(h), ContractHub(h), SeenHub(h),
           LoadRead(h) \/ LoadStore(h) \/ LoadClearJournal(h)
    PROVE  SeenHub(h)'
    <1>1. CASE LoadRead(h)
        BY <1>1 DEF LoadRead, cacheVars, SeenHub, OnlyPending, Grounded, Unlanded, DeletesSeen, Nowhere
    <1>2. CASE LoadStore(h)
        <2> DEFINE l == load[h]
                   ops == [p \in Paths |-> IF IsOp(l.ops[p]) THEN [l.ops[p] EXCEPT !.seq = 1]
                                           ELSE NoOp]
                   replayed == \E p \in Paths : IsOp(l.ops[p])
                   busy == dirty[h] \/ \E p \in Paths : IsOp(pend[h][p])
        <2>1. l \in LoadState /\ l.ops \in Ops /\ l.pc = "store" /\ commit[h] \in CommitState
            BY <1>2 DEF TypeOK, LoadState, LoadStore
        <2>2. ~replayed
            <3>1. CASE hydrated[h]
                BY <2>1, <3>1 DEF HubInv, LoadedTree, NoOps, NoOp, IsOp
            <3>2. CASE ~hydrated[h]
                <4>1. \A p \in Paths : ~IsOp(pend[h][p])
                    BY <3>2 DEF HubInv, ColdIsQuiet, NoOps, NoOp, IsOp
                <4>2. \A p \in Paths : ~IsOp(journal[h][p]) BY <4>1 DEF SeenHub, OnlyPending
                <4> QED BY <2>1, <3>2, <4>2 DEF ContractHub, Replayed, NoOp, IsOp
            <3> QED BY <3>1, <3>2
        <2>3. l.sha \in DOMAIN hist /\ l.tree = hist[l.sha]
            <3>1. l.sha \in DOMAIN hist /\ l.tree = Overlay(hist[l.sha], l.ops)
                BY <2>1 DEF HubInv, LoadedTree
            <3>2. hist[l.sha] \in Trees BY <3>1 DEF TypeOK
            <3> QED BY <2>2, <3>1, <3>2 DEF Overlay, Trees
        <2>4. \/ /\ ~busy /\ base'[h] = l.tree /\ sha'[h] = l.sha /\ pend'[h] = ops
              \/ /\ busy /\ base'[h] = base[h] /\ sha'[h] = sha[h] /\ pend'[h] = pend[h]
            BY <1>2, <2>2 DEF LoadStore, TypeOK
        <2>5. /\ hist' = hist /\ accepted' = accepted /\ journal' = journal
              /\ commit'[h].pc = commit[h].pc
            <3>1. hist' = hist /\ accepted' = accepted /\ journal' = journal
                BY <1>2 DEF LoadStore, histVars
            <3>2. commit'[h] = [commit[h] EXCEPT !.moved = @ \/ ((replayed \/ ~busy) /\ commit[h].pc # "idle")]
                <4>1. commit' = [commit EXCEPT ![h].moved = @ \/ ((replayed \/ ~busy) /\ commit[h].pc # "idle")]
                    BY <1>2 DEF LoadStore
                <4> HIDE DEF replayed, busy
                <4> QED BY <4>1 DEF TypeOK
            <3> HIDE DEF replayed, busy
            <3>3. commit'[h].pc = commit[h].pc BY <2>1, <3>2 DEF CommitState
            <3> QED BY <3>1, <3>3
        <2>6. dirty'[h] = dirty[h]
            <3>1. dirty'[h] = (dirty[h] \/ replayed) BY <1>2 DEF LoadStore, TypeOK
            <3> QED BY <2>2, <3>1 DEF TypeOK
        <2>7. CASE ~busy
            <3>1. \A p \in Paths : ~IsOp(ops[p]) BY <2>2 DEF NoOp, IsOp
            <3>2. \A p \in Paths : ~IsOp(journal[h][p]) BY <2>7 DEF SeenHub, OnlyPending
            <3>3. base'[h] = l.tree /\ sha'[h] = l.sha /\ pend'[h] = ops BY <2>4, <2>7
            <3> HIDE DEF l, ops, busy
            <3> QED BY <2>3, <2>5, <3>1, <3>2, <3>3
                    DEF SeenHub, OnlyPending, Grounded, Unlanded, DeletesSeen
        <2>8. CASE busy
            <3>1. hydrated[h] BY <2>8 DEF HubInv, ColdIsQuiet, NoOps, NoOp, IsOp
            <3>2. base'[h] = base[h] /\ sha'[h] = sha[h] /\ pend'[h] = pend[h] BY <2>4, <2>8
            <3> HIDE DEF l, ops, busy
            <3> QED BY <2>5, <2>6, <3>1, <3>2
                    DEF SeenHub, OnlyPending, Grounded, Unlanded, DeletesSeen, Nowhere
        <2> QED BY <2>7, <2>8
    <1>3. CASE LoadClearJournal(h)
        <2>1. journal'[h] = NoOps /\ UNCHANGED <<hist, hydrated, sha, base, dirty, pend, commit, accepted>>
            BY <1>3 DEF LoadClearJournal, TypeOK, cacheVars, histVars
        <2>2. \A p \in Paths : ~IsOp(NoOps[p]) BY DEF NoOps, NoOp, IsOp
        <2> QED BY <2>1, <2>2 DEF SeenHub, OnlyPending, Grounded, Unlanded, DeletesSeen, Nowhere
    <1> QED BY <1>1, <1>2, <1>3

\* What a caller deletes it has seen: in the revision the hub stands on, or as
\* pending work of the same hub.
LEMMA SeenMutations ==
    ASSUME ~LargeTree, ~MidCommit, TypeOK, NEW h \in Hubs, HubInv(h), ContractHub(h), Dated,
           HistorySourced, SeenHub(h),
           (\E p \in Paths : Mutate(h, p) \/ ProbePublish(h, p)) \/ ProbeStart(h)
    PROVE  SeenHub(h)'
    <1>1. PICK p \in Paths : \E v \in {now + 1, Absent} : Mutated(h, p, v)
        BY MutationDoes
    <1>2. PICK v \in {now + 1, Absent} : Mutated(h, p, v) BY <1>1
    <1> DEFINE op == [val |-> v, ts |-> now + 1, seq |-> seq[h] + 1, over |-> meta[h][p]]
    <1>3. /\ pend'[h] = [pend[h] EXCEPT ![p] = op] /\ journal'[h] = [journal[h] EXCEPT ![p] = op]
          /\ op.ts = now + 1 /\ op.val = v /\ op.over = meta[h][p]
          /\ v = Absent => meta[h][p] # Absent
          /\ now \in Nat /\ hydrated[h] /\ commit[h].pc = "idle" /\ commit'[h].pc = "idle" /\ dirty'[h]
          /\ UNCHANGED <<hist, hydrated, sha, base>> /\ accepted \subseteq accepted'
        BY <1>2 DEF Mutated, TypeOK
    <1> HIDE DEF op
    <1>4. \A q \in Paths : /\ pend'[h][q] = IF q = p THEN op ELSE pend[h][q]
                           /\ journal'[h][q] = IF q = p THEN op ELSE journal[h][q]
        BY <1>3 DEF TypeOK, Ops
    <1>5. IsOp(op) BY <1>3 DEF IsOp
    <1>6. OnlyPending(h)' BY <1>3, <1>4, <1>5 DEF SeenHub, OnlyPending
    <1>7. Grounded(h)' BY <1>3 DEF SeenHub, Grounded
    <1>8. \A q \in Paths : SeenAt(h, q) BY <1>3, SeenSplit
    <1>9. Nowhere(p, now + 1)
        <2>1. \A i \in DOMAIN hist : hist[i][p] \in Nat /\ hist[i][p] <= now BY HistoryDated
        <2> QED BY <1>3, <2>1 DEF Nowhere
    <1>10. ASSUME v = Absent
           PROVE  \/ meta[h][p] = base[h][p]
                  \/ /\ \E m \in accepted : m.hub = h /\ m.path = p /\ m.ts = meta[h][p]
                     /\ Nowhere(p, meta[h][p])
        <2>1. sha[h] \in DOMAIN hist /\ meta[h][p] = IF IsOp(pend[h][p]) THEN pend[h][p].val ELSE hist[sha[h]][p]
            BY <1>3 DEF HubInv, CoherentHub, Overlay
        <2>2. CASE ~IsOp(pend[h][p]) BY <1>3, <2>1, <2>2 DEF SeenHub, Grounded
        <2>3. CASE IsOp(pend[h][p])
            <3>1. PICK m \in accepted : m.hub = h /\ m.path = p /\ m.val = pend[h][p].val /\ m.ts = pend[h][p].ts
                BY <2>3 DEF ContractHub, Recorded, Newest, Known
            <3>2. m.val = m.ts BY <1>3, <1>10, <2>1, <2>3, <3>1 DEF Dated
            <3> QED BY <1>8, <2>1, <2>3, <3>1, <3>2 DEF SeenAt
        <2> QED BY <2>2, <2>3
    <1>11. ASSUME NEW q \in Paths PROVE SeenAt(h, q)'
        <2>1. CASE q = p
            <3>1. pend'[h][p] = op BY <1>4
            <3> QED BY <1>3, <1>9, <1>10, <2>1, <3>1 DEF SeenAt, Nowhere
        <2>2. CASE q # p
            <3>1. pend'[h][q] = pend[h][q] BY <1>4, <2>2
            <3> QED BY <1>3, <1>8, <3>1 DEF SeenAt, Nowhere
        <2> QED BY <2>1, <2>2
    <1> QED BY <1>6, <1>7, <1>11 DEF SeenHub, Unlanded, DeletesSeen, SeenAt

\* An attempt that does not land leaves what is pending where it was.
LEMMA SeenCommits ==
    ASSUME MaxLost = 0, TypeOK, NEW h \in Hubs, HubInv(h), SeenHub(h), HistoryKept,
           \/ LoopWakes(h) \/ Flush(h)
           \/ Publish(h) \/ PublishConflict(h) \/ PublishLost(h) \/ CommitFails(h) \/ Rebase(h)
    PROVE  SeenHub(h)'
    <1>1. UNCHANGED <<hydrated, sha, base, dirty, pend, journal, accepted>>
        BY DEF LoopWakes, Flush, Freeze, Publish, PublishConflict, PublishLost, CommitFails, Rebase,
               cacheVars, histVars
    <1>2. OnlyPending(h)' BY <1>1 DEF SeenHub, OnlyPending
    <1>3. Grounded(h)' BY <1>1 DEF SeenHub, Grounded, HistoryKept, HubInv, CoherentHub
    <1>4. ~PublishLost(h) BY DEF PublishLost, TypeOK
    <1>5. CASE Publish(h)
        <2>1. commit'[h] = [commit[h] EXCEPT !.pc = "apply", !.new = Len(hist')] /\ commit[h] \in CommitState
            BY <1>5 DEF Publish, TypeOK
        <2>2. commit'[h].pc = "apply" BY <2>1 DEF CommitState
        <2> QED BY <1>2, <1>3, <2>2 DEF SeenHub, Unlanded, DeletesSeen
    <1>6. CASE ~Publish(h)
        <2>1. hist' = hist
            BY <1>4, <1>6 DEF LoopWakes, Flush, Freeze, PublishConflict, CommitFails, Rebase
        <2>2. commit[h].pc # "apply"
            BY <1>4, <1>6 DEF LoopWakes, Flush, Freeze, PublishConflict, CommitFails, Rebase
        <2> QED BY <1>1, <1>2, <1>3, <2>1, <2>2 DEF SeenHub, Unlanded, DeletesSeen, Nowhere
    <1> QED BY <1>5, <1>6

LEMMA SeenLeaves ==
    ASSUME MaxCrashes = 0, TypeOK, NEW h \in Hubs, HubInv(h), Still(h), SeenHub(h),
           Apply(h) \/ Evict(h) \/ Crash(h)
    PROVE  SeenHub(h)'
    <1>1. ~Crash(h) BY DEF Crash, TypeOK
    <1>2. CASE Apply(h)
        <2>1. /\ \A p \in Paths : ~IsOp(pend'[h][p]) /\ ~IsOp(journal'[h][p])
              /\ base'[h] = hist[commit[h].new] /\ sha'[h] = commit[h].new /\ hist' = hist
            BY <1>2, ApplyClears
        <2> QED BY <2>1 DEF SeenHub, OnlyPending, Grounded, Unlanded, DeletesSeen
    <1>3. CASE Evict(h)
        <2>1. ~hydrated'[h] /\ pend'[h] = NoOps /\ journal' = journal /\ ~dirty[h]
            BY <1>3 DEF Evict, Forgotten, TypeOK
        <2>2. \A p \in Paths : ~IsOp(NoOps[p]) BY DEF NoOps, NoOp, IsOp
        <2>3. \A p \in Paths : ~IsOp(journal[h][p]) BY <2>1 DEF SeenHub, OnlyPending
        <2> QED BY <2>1, <2>2, <2>3 DEF SeenHub, OnlyPending, Grounded, Unlanded, DeletesSeen
    <1> QED BY <1>1, <1>2, <1>3

LEMMA SeenInit == Init => SeenInv
    <1> SUFFICES ASSUME Init, NEW h \in Hubs PROVE SeenHub(h) BY DEF SeenInv
    <1>1. pend[h] = NoOps /\ journal[h] = NoOps /\ ~hydrated[h] BY DEF Init
    <1>2. \A p \in Paths : ~IsOp(NoOps[p]) BY DEF NoOps, NoOp, IsOp
    <1> QED BY <1>1, <1>2 DEF SeenHub, OnlyPending, Grounded, Unlanded, DeletesSeen

LEMMA SeenNext ==
    ASSUME ~LargeTree, ~MidCommit, MaxLost = 0, MaxCrashes = 0
    PROVE  TypeOK /\ CacheInv /\ ContractInv /\ RankInv /\ SeenInv /\ [Next]_vars => SeenInv'
    <1>1. ASSUME SeenInv, UNCHANGED vars PROVE SeenInv'
        BY <1>1 DEF vars, cacheVars, histVars, SeenInv, SeenHub, OnlyPending, Grounded, Unlanded,
                    DeletesSeen, Nowhere
    <1>2. ASSUME TypeOK, CacheInv, ContractInv, RankInv, SeenInv, NEW h \in Hubs, Step(h)
          PROVE  SeenInv'
        <2>1. /\ HubInv(h) /\ ContractHub(h) /\ RankHub(h) /\ Still(h) /\ Dated /\ HistorySourced
              /\ SeenHub(h)
            BY <1>2 DEF CacheInv, ContractInv, RankInv, RankHub, SeenInv
        <2>2. HistoryKept /\ \A g \in Hubs \ {h} : SameHub(g) /\ base'[g] = base[g] /\ SameRecord(g)
            BY <1>2, StepFrame, BaseFrame, RecordFrame
        <2>3. TypeOK'
            <3>1. [Next]_vars BY <1>2 DEF Next
            <3> QED BY <1>2, <3>1, TypeNext
        <2>4. SeenHub(h)'
            BY <1>2, <2>1, <2>2, SeenLoads, SeenMutations, SeenCommits, SeenLeaves DEF Step
        <2>5. ASSUME NEW g \in Hubs \ {h} PROVE SeenHub(g)'
            <3>1. HubInv(g) /\ ContractHub(g) /\ SeenHub(g)
                BY <1>2 DEF CacheInv, ContractInv, SeenInv
            <3> QED BY <1>2, <2>1, <2>2, <2>3, <3>1, SeenOthers
        <2> QED BY <2>4, <2>5 DEF SeenInv
    <1> QED BY <1>1, <1>2 DEF Next

\* What upstream holds where a delete is given up is not what was deleted.
LEMMA GivenUp ==
    ASSUME TypeOK, CacheInv, RankInv, SeenInv, [Next]_vars,
           NEW h \in Hubs, NEW p \in Paths,
           commit[h].pc = "rebase", commit'[h].pc = "publish", p \in commit'[h].kept,
           commit[h].ops[p].val = Absent
    PROVE  Upstream[p] # commit[h].ops[p].over
    <1> DEFINE c == commit[h]
    <1>1. PICK g \in Hubs : Step(g) BY DEF Next, vars
    <1>2. g = h BY <1>1, StepFrame DEF SameHub
    <1>3. c \in CommitState BY DEF TypeOK
    <1>4. Rebase(h)
        <2>1. CASE LoadRead(h) \/ LoadClearJournal(h) \/ ProbeStart(h)
            BY <2>1 DEF LoadRead, LoadClearJournal, ProbeStart
        <2>2. CASE LoadStore(h)
            <3>1. PICK b : commit' = [commit EXCEPT ![h] = [c EXCEPT !.moved = b]]
                BY <2>2 DEF LoadStore
            <3> QED BY <1>3, <3>1 DEF TypeOK, CommitState
        <2>3. ASSUME NEW q \in Paths, Mutate(h, q) \/ ProbePublish(h, q) PROVE FALSE
            <3>1. PICK b : commit' = [commit EXCEPT ![h] = [c EXCEPT !.moved = b]]
                BY <2>3 DEF Mutate, ProbePublish, Accept
            <3> QED BY <1>3, <3>1 DEF TypeOK, CommitState
        <2>4. CASE \/ LoopWakes(h) \/ Flush(h) \/ Publish(h) \/ PublishConflict(h) \/ PublishLost(h)
                   \/ Apply(h) \/ Evict(h)
            BY <2>4 DEF LoopWakes, Flush, Freeze, Publish, PublishConflict, PublishLost, Advance,
                        Apply, Evict
        <2>5. CASE CommitFails(h) \/ Crash(h)
            <3>1. commit'[h] = NotCommitting BY <2>5 DEF CommitFails, Crash, TypeOK
            <3> QED BY <3>1 DEF NotCommitting
        <2> QED BY <1>1, <1>2, <2>1, <2>2, <2>3, <2>4, <2>5 DEF Step
    <1>5. IsOp(c.ops[p]) /\ Outranks(Upstream[p], c.base[p], c.ops[p])
        <2> DEFINE kept == {q \in Paths : IsOp(c.ops[q]) /\ Outranks(Upstream[q], c.base[q], c.ops[q])}
        <2>1. commit'[h] = [c EXCEPT !.pc = "publish", !.prev = Tip, !.tries = @ + 1, !.rebased = TRUE,
                                     !.kept = kept, !.work = RebasedTree(c, kept)]
            BY <1>4 DEF Rebase, TypeOK
        <2>2. p \in kept
            <3> HIDE DEF kept
            <3> QED BY <1>3, <2>1 DEF CommitState
        <2> QED BY <2>2
    <1>6. HubInv(h) /\ Still(h) /\ SeenHub(h) BY DEF CacheInv, RankInv, RankHub, SeenInv
    <1>7. c.base = base[h] /\ c.ops = pend[h] BY <1>6 DEF Still, HubInv, FrozenBatch
    <1>8. SeenAt(h, p) BY <1>6, SeenSplit
    <1> QED BY <1>5, <1>7, <1>8, UpstreamType DEF SeenAt, Outranks, Nowhere

\* The conflict policy: content yields to newer content only, and a delete is given
\* up only to content its caller had not seen (rebase.go), provided that no mutation
\* arrives while a commit is in flight, no reply is lost and no hub crashes.
THEOREM RebasePolicyAlways ==
    ASSUME ~LargeTree, ~MidCommit, MaxLost = 0, MaxCrashes = 0
    PROVE  Spec => RebasePolicy
    <1>1. TypeOK /\ CacheInv /\ RankInv /\ SeenInv /\ [Next]_vars =>
             [\A h \in Hubs, p \in Paths :
                 /\ commit[h].pc = "rebase" /\ commit'[h].pc = "publish"
                 /\ p \in commit'[h].kept /\ commit[h].ops[p].val = Absent
                 => Upstream[p] # commit[h].ops[p].over]_vars
        BY GivenUp
    <1>2. Spec => LastWriterWins BY LastWriterAlwaysWins
    <1> QED BY TypeInit, TypeNext, CacheInit, CacheNext, ContractInit, ContractNext, RankInit, RankNext,
               SeenInit, SeenNext, <1>1, <1>2, PTL DEF Spec, DeleteNotDropped, RebasePolicy

=============================================================================
