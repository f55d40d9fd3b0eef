---------------------------- MODULE Prune_proofs ----------------------------
(***************************************************************************)
(* Proof that a prune works alone and takes no object of a retained         *)
(* revision, by an inductive invariant in six parts: the branch, the        *)
(* project's pending work, the shelves of the pool, the calls, who holds    *)
(* the fence, and the index.                                               *)
(*                                                                         *)
(* Nothing is assumed of the other steps but that the windows of Shut stay  *)
(* closed; the run Prune_admitted shows what happens in one of them.        *)
(***************************************************************************)
EXTENDS Prune, FiniteSetTheorems, TLAPS

IsSeq(s) == \E S : s \in Seq(S)

Fenced == {"load", "list", "check", "version", "delete", "refs", "objects",
           "head", "remove", "revisions", "squash"}

\* The fields of a record, whatever they hold.
PrunerRecord(r) ==
    DOMAIN r = {"pc", "held", "todo", "kept", "base", "tasks", "cut", "refs", "orphans", "head", "ok"}
WriterRecord(u) == DOMAIN u = {"pc", "tag", "recs", "rot", "leaky", "prev", "answer"}
CommitRecord(c) == DOMAIN c = {"pc", "by", "work", "need", "prev", "ver", "ops", "moved"}

-----------------------------------------------------------------------------
(* The invariant.                                                          *)

Branch ==
    /\ IsSeq(heads) /\ kept \in 1..Len(heads) /\ tip \in Nat /\ seen \in 1..tip
    /\ DOMAIN known = Hubs /\ (~Git => kept = 1)

\* The commit in flight froze a prefix of what is pending, all of it if the tree has
\* not moved since.
Frozen(c, v, n) ==
    c.pc # "idle" =>
        /\ c.pc \in {"write", "push", "apply"}
        /\ c.ops \in Nat /\ c.ver \in Nat /\ c.ops <= n /\ c.ver <= v
        /\ c.ver = v => c.ops = n
Work ==
    /\ dirty \in BOOLEAN /\ version \in Nat /\ IsSeq(pend)
    /\ dirty \/ pend = <<>>
    /\ answer \in [Owners -> {"none", "ok", "fail"}]
    /\ CommitRecord(commit) /\ commit.by \in Owners
    /\ commit.pc # "idle" => dirty
    /\ Frozen(commit, version, Len(pend))

Shelves == \A r \in DOMAIN pool : IsFiniteSet(pool[r]) /\ Cardinality(pool[r]) <= Cap

Calls ==
    /\ scene \in Cases /\ fence \in Pruners \cup {"free"}
    /\ DOMAIN pr = Pruners /\ \A q \in Pruners : PrunerRecord(pr[q])
    /\ DOMAIN up = Writers /\ \A w \in Writers : WriterRecord(up[w])

\* What is left to do of the scopes asked for.
Queue(r) ==
    /\ r.pc \in {"revisions", "squash"} => r.todo \in {<<"history">>, <<"history", "objects", "assets">>}
    /\ r.pc \in {"refs", "objects", "head", "remove"} => r.todo \in {<<"objects">>, <<"objects", "assets">>}
Alone ==
    /\ PruneAlone
    /\ \A q \in Pruners : Queue(pr[q]) /\ (pr[q].held => fence = q)

\* What a prune is about to remove is no object of a revision.  With git it may have
\* become one, if the branch is no longer at the commit the prune compares.
Clear(r, git, ref, t) ==
    /\ r.pc = "objects" => ref \subseteq r.refs
    /\ r.pc = "head" \/ (r.pc = "remove" /\ ~git) => r.orphans \cap ref = {}
    /\ r.pc \in {"head", "remove"} => r.orphans # {}
    /\ r.pc = "remove" /\ git => r.head \in Nat /\ r.head <= t /\ (r.head = t => r.orphans \cap ref = {})
    /\ r.pc \in {"head", "squash"} => git

\* The first revision is still there for the rollback whose head has not moved.
Rolled(u, git, t, k) ==
    u.pc \in {"validate", "roll"} /\ git => u.prev \in Nat /\ u.prev <= t /\ (u.prev = t => k = 1)

\* What a commit publishes is in the repository, in the cache or in its own list.
Built(c, git, us) ==
    /\ c.pc \in {"write", "push"} => Objects(c.work) \subseteq c.need \cup us
    /\ c.pc = "push" /\ ~git => Objects(c.work) \cup c.need \subseteq us

Index ==
    /\ IndexReadable /\ known.us \subseteq objs
    /\ Built(commit, Git, known.us)
    /\ \A q \in Pruners : Clear(pr[q], Git, Referenced, tip)
    /\ \A w \in Writers : Rolled(up[w], Git, tip, kept)

Inv == Branch /\ Work /\ Shelves /\ Calls /\ Alone /\ Index

\* The windows in which the code does otherwise are shut.
Shut == Races \cap {"admitted", "lateList", "lateHead", "foreign", "foreignCache", "lost"} = {}

-----------------------------------------------------------------------------
(* Sequences and revisions.                                                *)

LEMMA Appended ==
    ASSUME NEW s, IsSeq(s), NEW x
    PROVE  /\ IsSeq(Append(s, x)) /\ Len(Append(s, x)) = Len(s) + 1 /\ Len(s) \in Nat
           /\ Append(s, x)[Len(s) + 1] = x
           /\ \A i \in 1..Len(s) : Append(s, x)[i] = s[i]
    <1>1. PICK S : s \in Seq(S) BY DEF IsSeq
    <1>2. s \in Seq(S \cup {x}) /\ x \in S \cup {x} BY <1>1
    <1>3. Append(s, x) \in Seq(S \cup {x}) BY <1>2
    <1> QED BY <1>2, <1>3 DEF IsSeq

LEMMA Segment ==
    ASSUME NEW s, IsSeq(s), NEW m \in Nat, m <= Len(s)
    PROVE  /\ IsSeq(SubSeq(s, m + 1, Len(s)))
           /\ m = Len(s) => SubSeq(s, m + 1, Len(s)) = <<>>
           /\ Len(SubSeq(s, m + 1, Len(s))) = Len(s) - m
    <1>1. PICK S : s \in Seq(S) BY DEF IsSeq
    <1>2. Len(s) \in Nat BY <1>1
    <1>3. SubSeq(s, m + 1, Len(s)) \in Seq(S) /\ Len(SubSeq(s, m + 1, Len(s))) = Len(s) - m BY <1>1, <1>2
    <1>4. m = Len(s) => SubSeq(s, m + 1, Len(s)) = <<>> BY <1>2, <1>3
    <1> QED BY <1>3, <1>4 DEF IsSeq

LEMMA HeadRetained ==
    ASSUME Branch
    PROVE  /\ HeadTree \in Retained /\ Objects(HeadTree) \subseteq Referenced
           /\ kept = 1 => heads[1] \in Retained /\ Objects(heads[1]) \subseteq Referenced
    <1>1. PICK S : heads \in Seq(S) BY DEF Branch, IsSeq
    <1>2. Len(heads) \in Nat /\ kept \in 1..Len(heads) BY <1>1 DEF Branch
    <1>3. HeadTree \in Retained BY <1>1, <1>2 DEF HeadTree, Last, Retained
    <1>4. kept = 1 => heads[1] \in Retained BY <1>2 DEF Retained
    <1> QED BY <1>3, <1>4 DEF Referenced

LEMMA RevisionAdded ==
    ASSUME Branch, NEW t, heads' = Append(heads, t), kept' = kept
    PROVE  /\ Retained' = Retained \cup {t} /\ Referenced' = Referenced \cup Objects(t)
           /\ IsSeq(heads') /\ kept' \in 1..Len(heads')
    <1> DEFINE n == Len(heads)
    <1>1. /\ IsSeq(heads') /\ Len(heads') = n + 1 /\ n \in Nat /\ heads'[n + 1] = t
          /\ \A i \in 1..n : heads'[i] = heads[i]
        BY Appended DEF Branch
    <1>2. kept \in 1..n BY DEF Branch
    <1>3. kept..(n + 1) = (kept..n) \cup {n + 1} /\ kept..n \subseteq 1..n BY <1>1, <1>2
    <1>4. Retained' = {heads'[i] : i \in kept..(n + 1)} BY <1>1 DEF Retained
    <1>5. Retained' = Retained \cup {t}
        <2>1. \A i \in kept..n : heads'[i] = heads[i] BY <1>1, <1>3
        <2> HIDE DEF n
        <2>2. Retained = {heads[i] : i \in kept..n} BY DEF Retained, n
        <2> QED BY <1>1, <1>3, <1>4, <2>1, <2>2
    <1>6. Referenced' = Referenced \cup Objects(t) BY <1>5 DEF Referenced, Objects
    <1> QED BY <1>1, <1>2, <1>5, <1>6

LEMMA StillReferenced ==
    ASSUME heads' = heads, kept' = kept
    PROVE  Retained' = Retained /\ Referenced' = Referenced /\ HeadTree' = HeadTree
    BY DEF Retained, Referenced, HeadTree, Objects

-----------------------------------------------------------------------------
(* The first state, and what the invariant says.                           *)

LEMMA InitInv == Init => Inv
    <1> SUFFICES ASSUME Init PROVE Inv
        OBVIOUS
    <1>1. Branch
        <2>1. heads = <<First, Second>> /\ heads \in Seq({First, Second}) /\ Len(heads) = 2
            BY DEF Init
        <2>2. DOMAIN known = Hubs BY DEF Init, Hubs
        <2>3. IsSeq(heads) BY <2>1 DEF IsSeq
        <2>4. kept = 1 /\ tip = 2 /\ seen = 2 BY DEF Init
        <2> QED BY <2>1, <2>2, <2>3, <2>4 DEF Branch
    <1>2. Work
        <2>1. IsSeq(pend) /\ pend = <<>> BY DEF Init, IsSeq
        <2>2. CommitRecord(commit) /\ commit.pc = "idle" /\ commit.by \in Owners
            BY StoreAssumption DEF Init, NoCommit, CommitRecord
        <2> QED BY <2>1, <2>2 DEF Work, Frozen, Init
    <1>3. Shelves
        <2>1. IsFiniteSet({Old(1), Old(2)}) /\ Cardinality({Old(1), Old(2)}) <= 2
            <3>1. IsFiniteSet({Old(2)}) /\ Cardinality({Old(2)}) = 1 BY FS_Singleton
            <3>2. {Old(1), Old(2)} = {Old(2)} \cup {Old(1)} OBVIOUS
            <3> QED BY <3>1, <3>2, FS_AddElement
        <2>2. IsFiniteSet({Old(3)}) /\ Cardinality({Old(3)}) = 1 BY FS_Singleton
        <2>3. DOMAIN pool = {1, 2} /\ pool[1] = {Old(1), Old(2)} /\ pool[2] = {Old(3)}
            BY DEF Init
        <2>4. Cardinality({Old(1), Old(2)}) \in Nat BY <2>1, FS_CardinalityType
        <2> QED BY <2>1, <2>2, <2>3, <2>4, PoolAssumption DEF Shelves
    <1>4. Calls BY DEF Init, Calls, PrunerRecord, WriterRecord, Waiting, Fresh
    <1>5. Alone BY DEF Init, Alone, PruneAlone, Queue, Waiting
    <1>6. Index
        <2>1. Len(heads) = 2 /\ kept = 1 /\ heads[1] = First /\ heads[2] = Second BY DEF Init
        <2>2. Retained = {First, Second}
            <3>1. kept..Len(heads) = {1, 2} BY <2>1
            <3> QED BY <2>1, <3>1 DEF Retained
        <2>3. Referenced = Objects(First) \cup Objects(Second) BY <2>2 DEF Referenced
        <2>4. IndexReadable /\ known.us \subseteq objs BY <2>3 DEF Init, IndexReadable
        <2>5. Built(commit, Git, known.us) BY DEF Init, NoCommit, Built
        <2>6. \A q \in Pruners : Clear(pr[q], Git, Referenced, tip) BY DEF Init, Waiting, Clear
        <2>7. \A w \in Writers : Rolled(up[w], Git, tip, kept) BY DEF Init, Fresh, Rolled
        <2> QED BY <2>4, <2>5, <2>6, <2>7 DEF Index
    <1> QED BY <1>1, <1>2, <1>3, <1>4, <1>5, <1>6 DEF Inv

LEMMA InvSafe == Inv => PruneSafe
    BY DEF Inv, Branch, Work, Shelves, Calls, Alone, Index, PruneSafe, TypeOK

-----------------------------------------------------------------------------
(* What steps have in common.                                              *)

LEMMA ClearKept ==
    ASSUME NEW r, NEW git, NEW ref, NEW ref2, NEW t \in Nat, NEW t2 \in Nat, Clear(r, git, ref, t),
           \/ ref2 \subseteq ref /\ t2 >= t
           \/ r.pc \notin {"objects", "head", "remove"}
           \/ git /\ r.pc \notin {"objects", "head"} /\ t2 > t
    PROVE  Clear(r, git, ref2, t2)
    BY DEF Clear

LEMMA RolledKept ==
    ASSUME NEW u, NEW git, NEW t \in Nat, NEW t2 \in Nat, NEW k, NEW k2, Rolled(u, git, t, k),
           \/ t2 >= t /\ k2 = k
           \/ t2 > t
    PROVE  Rolled(u, git, t2, k2)
    BY DEF Rolled

\* A step that leaves the index, the project and the prunes alone: one of a writer.
Apart(w) == DOMAIN up' = Writers /\ \A v \in Writers \ {w} : up'[v] = up[v]
Verbs == {"pick", "create", "put", "edit"}

LEMMA WriterFrame ==
    ASSUME Inv, NEW w \in Writers, Apart(w),
           UNCHANGED <<scene, remote, known, project, seen, commit, answer, pr, fence>>,
           WriterRecord(up'[w]), Shelves',
           up'[w].pc \in Verbs => up[w].pc \in Verbs \/ fence = "free",
           Rolled(up'[w], Git, tip, kept)
    PROVE  Inv'
    <1>1. Branch' /\ Work' BY DEF Inv, Branch, Work, remote, project, Git
    <1>2. Calls' BY DEF Inv, Calls, Apart
    <1>3. Alone'
        <2>1. ASSUME InFlight' PROVE InFlight \/ fence = "free"
            BY <2>1 DEF InFlight, Between, Apart, Verbs
        <2>2. ASSUME NEW q \in Pruners, pr[q].pc \in Fenced PROVE ~InFlight'
            BY <2>1, <2>2, PruneAssumption DEF Inv, Alone, PruneAlone, Fenced
        <2> QED BY <2>2 DEF Inv, Alone, PruneAlone, Fenced, project
    <1>4. Index'
        <2>1. \A v \in Writers : Rolled(up'[v], Git, tip, kept) BY DEF Inv, Index, Apart
        <2>2. UNCHANGED <<heads, kept, tip, objs, known>> BY DEF remote
        <2>3. Referenced' = Referenced BY <2>2, StillReferenced
        <2> QED BY <2>1, <2>2, <2>3 DEF Inv, Index, IndexReadable, Git
    <1> QED BY <1>1, <1>2, <1>3, <1>4 DEF Inv

-----------------------------------------------------------------------------
(* The steps of the verbs.                                                 *)

\* A new record for writer w, at pc.
Steps(f, w, pc, prev) ==
    /\ WriterRecord(f[w]) /\ f[w].pc = pc /\ f[w].prev = prev
    /\ DOMAIN f = Writers /\ \A v \in Writers \ {w} : f[v] = up[v]

LEMMA Advanced ==
    ASSUME Calls, NEW w \in Writers, NEW x, NEW y
    PROVE  /\ Steps([up EXCEPT ![w].pc = x], w, x, up[w].prev)
           /\ Steps([up EXCEPT ![w].pc = x, ![w].tag = y], w, x, up[w].prev)
           /\ Steps([up EXCEPT ![w].pc = x, ![w].rot = y], w, x, up[w].prev)
           /\ Steps([up EXCEPT ![w].pc = x, ![w].leaky = y], w, x, up[w].prev)
           /\ Steps([up EXCEPT ![w].pc = x, ![w].prev = y], w, x, y)
           /\ Steps([up EXCEPT ![w].recs = x], w, up[w].pc, up[w].prev)
    <1>1. WriterRecord(up[w]) /\ DOMAIN up = Writers BY DEF Calls
    <1>2. Steps([up EXCEPT ![w].pc = x], w, x, up[w].prev) BY <1>1 DEF Steps, WriterRecord
    <1>3. Steps([up EXCEPT ![w].pc = x, ![w].tag = y], w, x, up[w].prev) BY <1>1 DEF Steps, WriterRecord
    <1>4. Steps([up EXCEPT ![w].pc = x, ![w].rot = y], w, x, up[w].prev) BY <1>1 DEF Steps, WriterRecord
    <1>5. Steps([up EXCEPT ![w].pc = x, ![w].leaky = y], w, x, up[w].prev) BY <1>1 DEF Steps, WriterRecord
    <1>6. Steps([up EXCEPT ![w].pc = x, ![w].prev = y], w, x, y) BY <1>1 DEF Steps, WriterRecord
    <1>7. Steps([up EXCEPT ![w].recs = x], w, up[w].pc, up[w].prev) BY <1>1 DEF Steps, WriterRecord
    <1> QED BY <1>2, <1>3, <1>4, <1>5, <1>6, <1>7

LEMMA ShelfFilled ==
    ASSUME Shelves, NEW r \in DOMAIN pool, Cardinality(pool[r]) < Cap, NEW a
    PROVE  LET f == [pool EXCEPT ![r] = @ \cup {a}] IN
           \A x \in DOMAIN f : IsFiniteSet(f[x]) /\ Cardinality(f[x]) <= Cap
    <1>1. IsFiniteSet(pool[r]) /\ Cardinality(pool[r]) \in Nat BY FS_CardinalityType DEF Shelves
    <1>2. IsFiniteSet(pool[r] \cup {a}) /\ Cardinality(pool[r] \cup {a}) <= Cap
        BY <1>1, FS_AddElement, PoolAssumption
    <1> QED BY <1>2 DEF Shelves

LEMMA ShelfEmptied ==
    ASSUME Shelves, NEW r \in DOMAIN pool, NEW S
    PROVE  IsFiniteSet(pool[r] \ S) /\ Cardinality(pool[r] \ S) <= Cap
    <1>1. IsFiniteSet(pool[r]) /\ pool[r] \ S \subseteq pool[r] BY DEF Shelves
    <1>2. /\ IsFiniteSet(pool[r] \ S) /\ Cardinality(pool[r] \ S) <= Cardinality(pool[r])
          /\ Cardinality(pool[r] \ S) \in Nat /\ Cardinality(pool[r]) \in Nat
        BY <1>1, FS_Subset, FS_CardinalityType
    <1> QED BY <1>2, PoolAssumption DEF Shelves

LEMMA WriterQuiet ==
    ASSUME Inv, NEW w \in Writers,
           \/ Admit(w) \/ Pick(w) \/ CreateRelease(w) \/ PutChunk(w) \/ Rotate(w) \/ PutFails(w) \/ Undo(w)
           \/ RollbackStarts(w) \/ RollbackValidates(w) \/ RollbackVerifies(w),
           UNCHANGED pr
    PROVE  Inv'
    <1> DEFINE Frame == /\ Apart(w) /\ WriterRecord(up'[w]) /\ Shelves'
                        /\ UNCHANGED <<scene, remote, known, project, seen, commit, answer, fence>>
                        /\ up'[w].pc \in Verbs => up[w].pc \in Verbs \/ fence = "free"
                        /\ Rolled(up'[w], Git, tip, kept)
    <1>a. Calls /\ Shelves /\ Rolled(up[w], Git, tip, kept) /\ (Shelves /\ UNCHANGED pool => Shelves')
        BY DEF Inv, Index, Shelves
    <1>b. ASSUME NEW pc, NEW prev, Steps(up', w, pc, prev), Shelves',
                 UNCHANGED <<scene, remote, known, project, seen, commit, answer, fence>>,
                 pc \in Verbs => up[w].pc \in Verbs \/ fence = "free",
                 \/ pc \notin {"validate", "roll"}
                 \/ up[w].pc \in {"validate", "roll"} /\ prev = up[w].prev
          PROVE  Frame
        BY <1>a, <1>b DEF Steps, Apart, Rolled
    <1>1. ASSUME Admit(w) PROVE Frame
        <2>1. UNCHANGED <<scene, remote, known, project, seen, commit, answer, fence, pool>> BY <1>1 DEF Admit, storeVars
        <2>2. PICK pc : Goes(w, pc) /\ (pc \in {"pick", "edit"} \/ pc = "refused") /\ (pc # "refused" => fence = "free")
            BY <1>1 DEF Admit, Admission
        <2> QED BY <1>a, <2>1, <2>2, <1>b, Advanced DEF Goes, Verbs
    <1>2. ASSUME Pick(w) PROVE Frame
        <2>1. UNCHANGED <<scene, remote, known, project, seen, commit, answer, fence, pool>> /\ up[w].pc = "pick"
            BY <1>2 DEF Pick, storeVars, At
        <2>2. PICK pc, tag : up' = [up EXCEPT ![w].pc = pc, ![w].tag = tag] /\ pc \in {"create", "put"}
            BY <1>2 DEF Pick
        <2> QED BY <1>a, <2>1, <2>2, <1>b, Advanced DEF Verbs
    <1>3. ASSUME CreateRelease(w) PROVE Frame
        <2>1. UNCHANGED <<scene, remote, known, project, seen, commit, answer, fence>> /\ up[w].pc = "create"
              /\ Goes(w, "put")
            BY <1>3 DEF CreateRelease, storeVars, At
        <2>2. pool' = Over(pool, [r \in {up[w].tag} \ DOMAIN pool |-> {}]) BY <1>3 DEF CreateRelease
        <2>3. Shelves'
            <3> DEFINE g == [r \in {up[w].tag} \ DOMAIN pool |-> {}]
            <3>1. \A r \in DOMAIN pool' : (r \in DOMAIN pool /\ pool'[r] = pool[r]) \/ pool'[r] = {}
                <4>1. pool' = [x \in DOMAIN pool \cup DOMAIN g |-> IF x \in DOMAIN g THEN g[x] ELSE pool[x]]
                    BY <2>2 DEF Over
                <4>2. \A x \in DOMAIN g : g[x] = {} OBVIOUS
                <4> HIDE DEF g
                <4> QED BY <4>1, <4>2
            <3>2. IsFiniteSet({}) /\ Cardinality({}) = 0 BY FS_EmptySet
            <3> QED BY <1>a, <3>1, <3>2, PoolAssumption DEF Shelves
        <2> QED BY <1>a, <2>1, <2>3, <1>b, Advanced DEF Goes, Verbs
    <1>4. ASSUME PutChunk(w) PROVE Frame
        <2>1. UNCHANGED <<scene, remote, known, project, seen, commit, answer, fence>> /\ up[w].pc = "put"
            BY <1>4 DEF PutChunk, storeVars, At
        <2>2. \E r \in DOMAIN pool : \E a : Cardinality(pool[r]) < Cap /\ pool' = [pool EXCEPT ![r] = @ \cup {a}]
            BY <1>4 DEF PutChunk
        <2>3. Shelves' BY <1>a, <2>2, ShelfFilled DEF Shelves
        <2>4. PICK recs : up' = [up EXCEPT ![w].recs = recs] BY <1>4 DEF PutChunk
        <2> QED BY <1>a, <2>1, <2>3, <2>4, <1>b, Advanced DEF Verbs
    <1>5. ASSUME Rotate(w) PROVE Frame
        <2>1. UNCHANGED <<scene, remote, known, project, seen, commit, answer, fence, pool>> /\ up[w].pc = "put"
            BY <1>5 DEF Rotate, storeVars, At
        <2>2. \/ \E rot : up' = [up EXCEPT ![w].pc = "pick", ![w].rot = rot]
              \/ Goes(w, "undo")
            BY <1>5 DEF Rotate
        <2>3. PICK pc \in {"pick", "undo"} : Steps(up', w, pc, up[w].prev)
            <3>1. ASSUME NEW y, up' = [up EXCEPT ![w].pc = "pick", ![w].rot = y]
                  PROVE  Steps(up', w, "pick", up[w].prev)
                BY <1>a, <3>1, Advanced
            <3>2. ASSUME Goes(w, "undo") PROVE Steps(up', w, "undo", up[w].prev)
                BY <1>a, <3>2, Advanced DEF Goes
            <3> QED BY <2>2, <3>1, <3>2
        <2> QED BY <1>a, <1>b, <2>1, <2>3 DEF Verbs
    <1>6. ASSUME PutFails(w) PROVE Frame
        <2>1. UNCHANGED <<scene, remote, known, project, seen, commit, answer, fence>>
            BY <1>6 DEF PutFails
        <2>2. \/ UNCHANGED pool
              \/ \E r \in DOMAIN pool : \E a : Cardinality(pool[r]) < Cap /\ pool' = [pool EXCEPT ![r] = @ \cup {a}]
            BY <1>6 DEF PutFails
        <2>3. Shelves' BY <1>a, <2>2, ShelfFilled DEF Shelves
        <2>4. Goes(w, "undo") \/ \E leaky : up' = [up EXCEPT ![w].pc = "undo", ![w].leaky = leaky]
            BY <1>6 DEF PutFails
        <2>5. PICK pc \in {"undo"} : Steps(up', w, pc, up[w].prev)
            <3>1. ASSUME NEW y, up' = [up EXCEPT ![w].pc = "undo", ![w].leaky = y]
                  PROVE  Steps(up', w, "undo", up[w].prev)
                BY <1>a, <3>1, Advanced
            <3>2. ASSUME Goes(w, "undo") PROVE Steps(up', w, "undo", up[w].prev)
                BY <1>a, <3>2, Advanced DEF Goes
            <3> QED BY <2>4, <3>1, <3>2
        <2> QED BY <1>b, <2>3, <2>1, <2>5 DEF Verbs
    <1>7. ASSUME Undo(w) PROVE Frame
        <2>1. UNCHANGED <<scene, remote, known, project, seen, commit, answer, fence>>
            BY <1>7 DEF Undo
        <2>2. PICK gone : pool' = [r \in DOMAIN pool |-> pool[r] \ gone] BY <1>7 DEF Undo
        <2>3. Shelves' BY <1>a, <2>2, ShelfEmptied DEF Shelves
        <2>4. \E leaky : up' = [up EXCEPT ![w].pc = "failed", ![w].leaky = leaky] BY <1>7 DEF Undo
        <2>5. PICK pc \in {"failed"} : Steps(up', w, pc, up[w].prev)
            <3>1. ASSUME NEW y, up' = [up EXCEPT ![w].pc = "failed", ![w].leaky = y]
                  PROVE  Steps(up', w, "failed", up[w].prev)
                BY <1>a, <3>1, Advanced
            <3> QED BY <2>4, <3>1
        <2> QED BY <1>b, <2>3, <2>1, <2>5 DEF Verbs
    <1>8. ASSUME RollbackStarts(w) PROVE Frame
        <2>1. UNCHANGED <<scene, remote, known, project, seen, commit, answer, fence, pool>>
            BY <1>8 DEF RollbackStarts, storeVars
        <2>2. Goes(w, "failed") \/ Goes(w, "flush") BY <1>8 DEF RollbackStarts
        <2>3. PICK pc \in {"failed", "flush"} : Steps(up', w, pc, up[w].prev) BY <1>a, <2>2, Advanced DEF Goes
        <2> QED BY <1>a, <1>b, <2>1, <2>3 DEF Verbs
    <1>9. ASSUME RollbackValidates(w) PROVE Frame
        <2>1. UNCHANGED <<scene, remote, known, project, seen, commit, answer, fence, pool>> /\ up[w].pc = "validate"
            BY <1>9 DEF RollbackValidates, storeVars, At
        <2>2. Goes(w, "failed") \/ Goes(w, "roll") BY <1>9 DEF RollbackValidates
        <2>3. PICK pc \in {"failed", "roll"} : Steps(up', w, pc, up[w].prev) BY <1>a, <2>2, Advanced DEF Goes
        <2> QED BY <1>a, <1>b, <2>1, <2>3 DEF Verbs
    <1>10. ASSUME RollbackVerifies(w) PROVE Frame
        <2>1. UNCHANGED <<scene, remote, known, project, seen, commit, answer, fence, pool>>
            BY <1>10 DEF RollbackVerifies, storeVars
        <2>2. Goes(w, "done") \/ Goes(w, "loud") BY <1>10 DEF RollbackVerifies
        <2>3. PICK pc \in {"done", "loud"} : Steps(up', w, pc, up[w].prev) BY <1>a, <2>2, Advanced DEF Goes
        <2> QED BY <1>a, <1>b, <2>1, <2>3 DEF Verbs
    <1> QED BY WriterFrame, <1>1, <1>2, <1>3, <1>4, <1>5, <1>6, <1>7, <1>8, <1>9, <1>10

-----------------------------------------------------------------------------
(* The steps of the project: edits, loads and commits.                     *)

LEMMA ProjectFrame ==
    ASSUME Inv, UNCHANGED <<scene, heads, kept, tip, pr, fence>>,
           objs \subseteq objs', known'.us \subseteq objs', DOMAIN known' = Hubs, seen' \in 1..tip,
           Work', Built(commit', Git, known'.us), Shelves', Calls',
           (\E q \in Pruners : pr[q].pc \in Fenced) => ~dirty' /\ ~InFlight',
           \A w \in Writers : Rolled(up'[w], Git, tip, kept)
    PROVE  Inv'
    <1>1. Branch' BY DEF Inv, Branch, Git
    <1>2. Alone' BY DEF Inv, Alone, PruneAlone, Fenced
    <1>3. Referenced' = Referenced BY StillReferenced
    <1>4. Index' BY <1>3 DEF Inv, Index, IndexReadable, Git
    <1> QED BY <1>1, <1>2, <1>4 DEF Inv

LEMMA AdvanceFrame ==
    ASSUME Inv, NEW t, heads' = Append(heads, t), kept' = kept, tip' = tip + 1,
           UNCHANGED <<scene, pr, fence>>,
           Objects(t) \subseteq objs', objs \subseteq objs', known'.us \subseteq objs', DOMAIN known' = Hubs,
           seen' \in 1..(tip + 1), Work', Built(commit', Git, known'.us), Shelves', Calls',
           (\E q \in Pruners : pr[q].pc \in Fenced) => ~dirty' /\ ~InFlight',
           \A q \in Pruners : \/ Objects(t) \subseteq Referenced
                              \/ pr[q].pc \notin {"objects", "head"} /\ (Git \/ pr[q].pc # "remove"),
           \A w \in Writers : Rolled(up'[w], Git, tip + 1, kept)
    PROVE  Inv'
    <1>1. tip \in Nat /\ tip + 1 \in Nat BY DEF Inv, Branch
    <1>2. Referenced' = Referenced \cup Objects(t) /\ IsSeq(heads') /\ kept' \in 1..Len(heads')
        BY RevisionAdded DEF Inv
    <1>3. Branch' BY <1>1, <1>2 DEF Inv, Branch, Git
    <1>4. Alone' BY DEF Inv, Alone, PruneAlone, Fenced
    <1>5. IndexReadable' BY <1>2 DEF Inv, Index, IndexReadable
    <1>6. ASSUME NEW q \in Pruners PROVE Clear(pr[q], Git, Referenced', tip + 1)
        <2>1. Clear(pr[q], Git, Referenced, tip) BY DEF Inv, Index
        <2>2. Objects(t) \subseteq Referenced => Referenced' \subseteq Referenced BY <1>2
        <2>3. tip + 1 >= tip /\ tip + 1 > tip BY <1>1
        <2> QED BY <1>1, <2>1, <2>2, <2>3, ClearKept
    <1>7. Index' BY <1>5, <1>6 DEF Index, Git
    <1> QED BY <1>3, <1>4, <1>7 DEF Inv

LEMMA PublishedWork ==
    ASSUME Work, NEW t, NEW op, Publish(t, op), UNCHANGED <<commit, answer>>
    PROVE  Work' /\ dirty'
    <1>1. IsSeq(pend') /\ Len(pend') = Len(pend) + 1 /\ Len(pend) \in Nat BY Appended DEF Work, Publish
    <1>2. version' = version + 1 /\ dirty' = TRUE /\ version \in Nat BY DEF Work, Publish
    <1>3. Frozen(commit, version', Len(pend')) BY <1>1, <1>2 DEF Work, Frozen
    <1> QED BY <1>1, <1>2, <1>3 DEF Work

LEMMA CallsKept ==
    ASSUME Inv, NEW w \in Writers, NEW pc, NEW prev, Steps(up', w, pc, prev), UNCHANGED <<scene, pr, fence>>
    PROVE  /\ Calls'
           /\ pc \notin Verbs /\ ~InFlight => ~InFlight'
           /\ pc \notin {"validate", "roll"} => \A v \in Writers : Rolled(up'[v], Git, tip, kept)
    <1>1. Calls' BY DEF Inv, Calls, Steps
    <1>2. ASSUME pc \notin Verbs, ~InFlight PROVE ~InFlight'
        BY <1>2 DEF InFlight, Between, Steps, Verbs
    <1>3. ASSUME pc \notin {"validate", "roll"}, NEW v \in Writers PROVE Rolled(up'[v], Git, tip, kept)
        <2>1. CASE v = w BY <1>3, <2>1 DEF Steps, Rolled
        <2>2. CASE v # w BY <2>2 DEF Inv, Index, Steps
        <2> QED BY <2>1, <2>2
    <1> QED BY <1>1, <1>2, <1>3

LEMMA WriterEdits ==
    ASSUME Inv, NEW w \in Writers, Publishes(w) \/ Edits(w), UNCHANGED pr
    PROVE  Inv'
    <1>1. UNCHANGED <<scene, remote, known, seen, commit, answer, pool, fence>> /\ up[w].pc \in Verbs
        BY DEF Publishes, Edits, At, Verbs
    <1>2. \E pc \in {"done", "undo", "failed"} : Goes(w, pc) BY DEF Publishes, Edits
    <1>3. PICK pc \in {"done", "undo", "failed"} : Steps(up', w, pc, up[w].prev)
        BY <1>2, Advanced DEF Goes, Inv
    <1>4. UNCHANGED project \/ \E t, op : Publish(t, op) BY DEF Publishes, Edits
    <1>5. Work' BY <1>1, <1>4, PublishedWork DEF Inv, Work, project
    <1>6. \A q \in Pruners : pr[q].pc \notin Fenced
        BY <1>1 DEF Inv, Alone, PruneAlone, Fenced, InFlight, Verbs
    <1>7. Shelves' BY <1>1 DEF Inv, Shelves
    <1>8. Calls' /\ \A v \in Writers : Rolled(up'[v], Git, tip, kept) BY <1>1, <1>3, CallsKept
    <1>9. UNCHANGED <<heads, kept, tip, objs>> BY <1>1 DEF remote
    <1> QED BY <1>1, <1>5, <1>6, <1>7, <1>8, <1>9, ProjectFrame DEF Inv, Index, Branch

LEMMA BuiltGrows ==
    ASSUME NEW c, NEW git, NEW us, NEW us2, Built(c, git, us), us \subseteq us2
    PROVE  Built(c, git, us2)
    BY DEF Built

\* What a hub's cache learns.
LEMMA Learnt ==
    ASSUME Branch, NEW S, known' = [known EXCEPT !.us = @ \cup S]
    PROVE  DOMAIN known' = Hubs /\ known'.us = known.us \cup S
    BY DEF Branch, Hubs

LEMMA FreezeKept ==
    ASSUME Inv, NEW o \in Owners, CommitFreeze(o)
    PROVE  /\ UNCHANGED <<scene, heads, kept, tip, objs, known, seen, dirty>>
           /\ dirty /\ Work' /\ Built(commit', Git, known'.us)
    <1>1. UNCHANGED <<scene, heads, kept, tip, objs, known, seen, project, answer>> /\ dirty
        BY DEF CommitFreeze, remote
    <1>2. PICK pc \in {"push", "write"} : (pc = "push" => Git) /\
            commit' = [pc |-> pc, by |-> o, work |-> tree, need |-> Needs(tree), prev |-> sha,
                       ver |-> version, ops |-> Len(pend), moved |-> FALSE]
        BY DEF CommitFreeze
    <1>3. Len(pend) \in Nat BY Appended DEF Inv, Work
    <1>4. CommitRecord(commit') /\ Frozen(commit', version, Len(pend)) /\ commit'.by = o /\ commit'.pc # "idle"
        BY <1>2, <1>3 DEF CommitRecord, Frozen, Inv, Work
    <1>5. Work' BY <1>1, <1>4 DEF Inv, Work, project
    <1>6. Built(commit', Git, known.us) BY <1>2 DEF Built, Needs
    <1> QED BY <1>1, <1>5, <1>6 DEF project

LEMMA LoadKept ==
    ASSUME Inv, FreshLoad, UNCHANGED <<heads, kept, tip, objs, commit, answer>>
    PROVE  /\ dirty' = dirty /\ Work' /\ Built(commit', Git, known'.us)
           /\ known.us \subseteq known'.us /\ known'.us \subseteq objs /\ DOMAIN known' = Hubs /\ seen' \in 1..tip
    <1>1. known' = [known EXCEPT !.us = @ \cup Objects(HeadTree)] /\ seen' = tip BY DEF FreshLoad
    <1>2. DOMAIN known' = Hubs /\ known'.us = known.us \cup Objects(HeadTree) BY <1>1, Learnt DEF Inv
    <1>3. Objects(HeadTree) \subseteq objs BY HeadRetained DEF Inv, Index, IndexReadable
    <1>4. seen' \in 1..tip BY <1>1 DEF Inv, Branch
    <1>5. /\ dirty' = dirty /\ pend' = pend
          /\ \/ version' = version
             \/ version' = version + 1 /\ ~dirty
        BY DEF FreshLoad, project
    <1>6. Work' BY <1>5 DEF Inv, Work, Frozen
    <1>7. Built(commit', Git, known'.us) BY <1>2, BuiltGrows DEF Inv, Index
    <1> QED BY <1>2, <1>3, <1>4, <1>5, <1>6, <1>7 DEF Inv, Index

LEMMA OwnersAre == Writers \subseteq Owners /\ Pruners \subseteq Owners /\ "loop" \in Owners
    BY StoreAssumption, PoolAssumption, PruneAssumption

\* The steps that leave the callers alone.
LEMMA CallersStill ==
    ASSUME Inv, UNCHANGED <<poolVars, pr, scene>>
    PROVE  Calls' /\ Shelves' /\ UNCHANGED fence /\ InFlight' = InFlight /\ up' = up
    <1>1. up' = up /\ fence' = fence /\ pool' = pool BY DEF poolVars
    <1> QED BY <1>1 DEF Inv, Calls, Shelves, InFlight, Between

LEMMA EndsKept ==
    ASSUME Work, NEW ok \in BOOLEAN, CommitEnds(ok)
    PROVE  /\ CommitRecord(commit') /\ commit'.pc = "idle" /\ commit'.by \in Owners
           /\ answer' \in [Owners -> {"none", "ok", "fail"}]
    <1>1. CommitRecord(commit') /\ commit'.pc = "idle" /\ commit'.by \in Owners
        BY StoreAssumption DEF CommitEnds, NoCommit, CommitRecord
    <1>2. answer' \in [Owners -> {"none", "ok", "fail"}] BY DEF CommitEnds, Work
    <1> QED BY <1>1, <1>2

LEMMA CommitQuiet ==
    ASSUME Inv, UNCHANGED <<poolVars, pr>>,
           CommitFreeze("loop") \/ CommitWrite \/ CommitRebase \/ CommitApply \/ CommitFails(TRUE)
    PROVE  Inv'
    <1>1. UNCHANGED <<scene, heads, kept, tip>>
        BY DEF CommitFreeze, CommitWrite, CommitRebase, CommitApply, CommitFails, remote
    <1>2. Calls' /\ Shelves' /\ UNCHANGED fence /\ InFlight' = InFlight /\ up' = up
        BY <1>1, CallersStill
    <1>3. commit.pc # "idle" => \A q \in Pruners : pr[q].pc \notin Fenced
        BY DEF Inv, Work, Alone, PruneAlone, Fenced
    <1> DEFINE Kept == /\ objs \subseteq objs' /\ known'.us \subseteq objs' /\ DOMAIN known' = Hubs
                       /\ seen' \in 1..tip /\ Work' /\ Built(commit', Git, known'.us)
                       /\ \A q \in Pruners : pr[q].pc \notin Fenced
    <1>a. known.us \subseteq objs /\ DOMAIN known = Hubs /\ seen \in 1..tip BY DEF Inv, Index, Branch
    <1>4. ASSUME CommitFreeze("loop") PROVE Kept
        <2>1. \A q \in Pruners : pr[q].pc \notin Fenced
            BY <1>4, FreezeKept, OwnersAre DEF Inv, Alone, PruneAlone, Fenced
        <2> QED BY <1>4, <1>a, <2>1, FreezeKept, OwnersAre
    <1>5. ASSUME CommitWrite PROVE Kept
        <2> DEFINE fresh == commit.need \ known.us
        <2>1. objs' = objs \cup fresh /\ known'.us = known.us \cup fresh /\ DOMAIN known' = Hubs
            BY <1>5, Learnt DEF CommitWrite, Inv
        <2>2. commit' = [commit EXCEPT !.pc = "push"] /\ commit.pc = "write" BY <1>5 DEF CommitWrite
        <2>3. UNCHANGED <<project, seen, answer>> BY <1>5 DEF CommitWrite
        <2>4. /\ CommitRecord(commit') /\ commit'.pc = "push" /\ commit'.by = commit.by
              /\ commit'.work = commit.work /\ commit'.need = commit.need /\ commit'.ops = commit.ops
              /\ commit'.ver = commit.ver
            BY <2>2 DEF CommitRecord, Inv, Work
        <2>5. Work' BY <2>2, <2>3, <2>4 DEF Inv, Work, Frozen, project
        <2>6. Built(commit', Git, known'.us) BY <2>1, <2>2, <2>4 DEF Inv, Index, Built
        <2> QED BY <1>3, <1>a, <2>1, <2>2, <2>3, <2>5, <2>6
    <1>6. ASSUME CommitRebase PROVE Kept
        <2>1. UNCHANGED <<project, objs, answer>> /\ commit.pc = "push" /\ seen' = tip
            BY <1>6 DEF CommitRebase, remote
        <2>2. known'.us = known.us \cup Objects(HeadTree) /\ DOMAIN known' = Hubs
            BY <1>6, Learnt DEF CommitRebase, Inv
        <2>3. known'.us \subseteq objs BY <1>a, <2>2, HeadRetained DEF Inv, Index, IndexReadable
        <2> DEFINE onto == ReplayAll(HeadTree, SubSeq(pend, 1, commit.ops))
                   pc == IF Git THEN "push" ELSE "write"
        <2>4. commit' = [commit EXCEPT !.pc = pc, !.prev = Token, !.work = onto, !.need = Needs(onto), !.moved = TRUE]
              /\ pc \in {"push", "write"} /\ (pc = "push" => Git)
            BY <1>6 DEF CommitRebase
        <2> HIDE DEF onto, pc
        <2>5. /\ CommitRecord(commit') /\ commit'.pc = pc /\ commit'.by = commit.by
              /\ commit'.work = onto /\ commit'.need = Needs(onto) /\ commit'.ops = commit.ops
              /\ commit'.ver = commit.ver
            BY <2>4 DEF CommitRecord, Inv, Work
        <2>6. Work' BY <2>1, <2>4, <2>5 DEF Inv, Work, Frozen, project
        <2>7. Built(commit', Git, known'.us) BY <2>2, <2>4, <2>5 DEF Built, Needs
        <2>8. seen' \in 1..tip BY <2>1 DEF Inv, Branch
        <2> QED BY <1>3, <2>1, <2>2, <2>3, <2>6, <2>7, <2>8
    <1>7. ASSUME CommitApply PROVE Kept
        <2>1. UNCHANGED <<objs, known, seen>> /\ commit.pc = "apply" /\ CommitEnds(TRUE)
            BY <1>7 DEF CommitApply, remote
        <2>2. /\ pend' = SubSeq(pend, commit.ops + 1, Len(pend))
              /\ dirty' = (version # commit.ver)
              /\ version' \in {version, version + 1}
            BY <1>7 DEF CommitApply
        <2>3. /\ commit.ops \in Nat /\ commit.ops <= Len(pend)
              /\ version = commit.ver => commit.ops = Len(pend)
            BY <2>1 DEF Inv, Work, Frozen
        <2>4. IsSeq(pend') /\ (version = commit.ver => pend' = <<>>) BY <2>2, <2>3, Segment DEF Inv, Work
        <2>5. Work'
            <3>1. dirty' \in BOOLEAN /\ version' \in Nat BY <2>2 DEF Inv, Work
            <3>2. dirty' \/ pend' = <<>> BY <2>2, <2>4
            <3>3. Work BY DEF Inv
            <3> QED BY <2>1, <2>4, <3>1, <3>2, <3>3, EndsKept DEF Work, Frozen
        <2>6. Built(commit', Git, known'.us) BY <2>1, EndsKept DEF Built, Inv
        <2> QED BY <1>3, <1>a, <2>1, <2>5, <2>6
    <1>8. ASSUME CommitFails(TRUE) PROVE Kept
        <2>1. UNCHANGED <<objs, known, seen, project>> /\ commit.pc \in {"write", "push"} /\ CommitEnds(FALSE)
            BY <1>8 DEF CommitFails, remote
        <2>2. Work' BY <2>1, EndsKept DEF Inv, Work, Frozen, project
        <2>3. Built(commit', Git, known'.us) BY <2>1, EndsKept DEF Built, Inv
        <2> QED BY <1>3, <1>a, <2>1, <2>2, <2>3
    <1>9. Kept BY <1>4, <1>5, <1>6, <1>7, <1>8
    <1>10. \A w \in Writers : Rolled(up'[w], Git, tip, kept) BY <1>2 DEF Inv, Index
    <1> QED BY <1>1, <1>2, <1>9, <1>10, ProjectFrame

LEMMA CommitPushes ==
    ASSUME Inv, CommitPush, UNCHANGED <<poolVars, pr>>
    PROVE  Inv'
    <1>1. /\ commit.pc = "push" /\ heads' = Append(heads, commit.work) /\ tip' = tip + 1 /\ kept' = kept
          /\ objs' = IF Git THEN objs \cup commit.need ELSE objs
          /\ seen' = tip + 1 /\ UNCHANGED <<scene, project, answer>>
          /\ known' = [known EXCEPT !.us = @ \cup commit.need]
          /\ commit' = [commit EXCEPT !.pc = "apply"]
        BY DEF CommitPush, Advance
    <1>2. DOMAIN known' = Hubs /\ known'.us = known.us \cup commit.need BY <1>1, Learnt DEF Inv
    <1>3. known.us \subseteq objs /\ Built(commit, Git, known.us) /\ tip \in Nat BY DEF Inv, Index, Branch
    <1>4. Objects(commit.work) \subseteq objs' /\ objs \subseteq objs' BY <1>1, <1>3 DEF Built
    <1>5. known'.us \subseteq objs' BY <1>1, <1>2, <1>3 DEF Built
    <1>6. \A q \in Pruners : pr[q].pc \notin Fenced
        BY <1>1 DEF Inv, Work, Alone, PruneAlone, Fenced
    <1>7. Calls' /\ Shelves' /\ UNCHANGED <<pr, fence>> /\ up' = up BY <1>1, CallersStill
    <1>8. /\ CommitRecord(commit') /\ commit'.pc = "apply" /\ commit'.by = commit.by
          /\ commit'.ops = commit.ops /\ commit'.ver = commit.ver
        BY <1>1 DEF CommitRecord, Inv, Work
    <1>9. Work' BY <1>1, <1>8 DEF Inv, Work, Frozen, project
    <1>10. Built(commit', Git, known'.us) BY <1>8 DEF Built
    <1>11. \A w \in Writers : Rolled(up'[w], Git, tip + 1, kept)
        <2> TAKE w \in Writers
        <2>1. Rolled(up[w], Git, tip, kept) /\ tip + 1 >= tip /\ tip + 1 \in Nat BY <1>3 DEF Inv, Index
        <2> QED BY <1>3, <1>7, <2>1, RolledKept
    <1>12. tip + 1 \in 1..(tip + 1) BY <1>3
    <1> QED
        BY <1>1, <1>2, <1>4, <1>5, <1>6, <1>7, <1>9, <1>10, <1>11, <1>12, AdvanceFrame DEF Fenced

LEMMA ForeignCommits ==
    ASSUME Inv, Shut, ForeignCommit(ForeignMay), UNCHANGED <<poolVars, pr>>
    PROVE  Inv'
    <1> DEFINE need == Objects(Foreign) \ IF Open("foreignCache") THEN known.them ELSE objs
    <1>1. /\ heads' = Append(heads, Foreign) /\ tip' = tip + 1 /\ kept' = kept
          /\ objs' = objs \cup need /\ known' = [known EXCEPT !.them = @ \cup Objects(HeadTree) \cup need]
          /\ UNCHANGED <<scene, project, seen, commit, answer>> /\ ForeignMay
        BY DEF ForeignCommit
    <1>2. ~Open("foreignCache") /\ ~Open("lateList") /\ ~Open("lateHead") /\ ~Open("foreign") BY DEF Shut, Open
    <1>3. Objects(Foreign) \subseteq objs' /\ objs \subseteq objs' BY <1>1, <1>2
    <1>4. DOMAIN known' = Hubs /\ known'.us = known.us BY <1>1 DEF Inv, Branch, Hubs
    <1>5. known'.us \subseteq objs' BY <1>3, <1>4 DEF Inv, Index
    <1>6. ASSUME NEW q \in Pruners PROVE pr[q].pc \notin {"objects", "head"} /\ (Git \/ pr[q].pc # "remove")
        <2>1. CASE Git
            <3>1. ~Between({"objects"}) /\ ~Between({"head"}) BY <1>1, <1>2, <2>1 DEF ForeignMay
            <3> QED BY <2>1, <3>1 DEF Between
        <2>2. CASE ~Git
            <3>1. ~Between({"objects", "remove"}) BY <1>1, <1>2, <2>2 DEF ForeignMay
            <3>2. pr[q].pc # "head" BY <2>2 DEF Inv, Index, Clear
            <3> QED BY <3>1, <3>2 DEF Between
        <2> QED BY <2>1, <2>2
    <1>7. Calls' /\ Shelves' /\ UNCHANGED <<pr, fence>> /\ up' = up /\ InFlight' = InFlight
        BY <1>1, CallersStill
    <1>8. Work' BY <1>1 DEF Inv, Work, Frozen, project
    <1>9. Built(commit', Git, known'.us) BY <1>1, <1>4 DEF Inv, Index
    <1>10. tip \in Nat /\ seen \in 1..tip BY DEF Inv, Branch
    <1>11. \A w \in Writers : Rolled(up'[w], Git, tip + 1, kept)
        <2> TAKE w \in Writers
        <2>1. Rolled(up[w], Git, tip, kept) /\ tip + 1 >= tip /\ tip + 1 \in Nat BY <1>10 DEF Inv, Index
        <2> QED BY <1>7, <1>10, <2>1, RolledKept
    <1>12. seen' \in 1..(tip + 1) BY <1>1, <1>10
    <1>13. ASSUME NEW q \in Pruners, pr[q].pc \in Fenced PROVE ~dirty' /\ ~InFlight'
        BY <1>1, <1>7, <1>13 DEF Inv, Alone, PruneAlone, Fenced, project
    <1> HIDE DEF need
    <1> QED BY <1>1, <1>3, <1>4, <1>5, <1>6, <1>7, <1>8, <1>9, <1>11, <1>12, <1>13, AdvanceFrame

-----------------------------------------------------------------------------
(* The steps of a rollback that touch the index or the project.            *)

LEMMA RollbackQuiet ==
    ASSUME Inv, NEW w \in Writers, RollbackFlushes(w) \/ RollbackFlushed(w) \/ RollbackPins(w), UNCHANGED pr
    PROVE  Inv'
    <1> DEFINE Kept == /\ objs' = objs /\ known'.us \subseteq objs' /\ DOMAIN known' = Hubs
                       /\ seen' \in 1..tip /\ Work' /\ Built(commit', Git, known'.us) /\ dirty' = dirty
                       /\ UNCHANGED <<scene, heads, kept, tip, pool, fence>>
                       /\ \E pc, prev : /\ Steps(up', w, pc, prev) /\ pc \notin Verbs
                                        /\ pc \notin {"validate", "roll"} \/ (Git => prev = tip /\ kept = 1)
    <1>a. /\ known.us \subseteq objs /\ DOMAIN known = Hubs /\ seen \in 1..tip /\ Calls
          /\ Built(commit, Git, known.us) /\ Work /\ tip \in Nat /\ kept \in Nat /\ kept >= 1
        BY DEF Inv, Index, Branch
    <1>1. ASSUME RollbackFlushes(w) PROVE Kept
        <2>1. UNCHANGED <<pool, fence>> BY <1>1 DEF RollbackFlushes
        <2>2. CASE dirty
            <3>1. CommitFreeze(w) /\ Steps(up', w, "flushing", up[w].prev)
                BY <1>a, <1>1, <2>2, Advanced DEF RollbackFlushes, Goes
            <3> QED BY <1>a, <2>1, <3>1, FreezeKept, OwnersAre DEF Verbs
        <2>3. CASE ~dirty
            <3>1. UNCHANGED <<scene, storeVars>> /\ Steps(up', w, "pin", up[w].prev)
                BY <1>a, <1>1, <2>3, Advanced DEF RollbackFlushes, Goes
            <3>2. Work' BY <1>a, <3>1 DEF Work, Frozen, storeVars, project
            <3> QED BY <1>a, <2>1, <3>1, <3>2 DEF Verbs, storeVars, remote, project
        <2> QED BY <2>2, <2>3
    <1>2. ASSUME RollbackFlushed(w) PROVE Kept
        <2>1. UNCHANGED <<scene, remote, known, project, seen, commit, pool, fence>>
              /\ answer' = [answer EXCEPT ![w] = "none"]
            BY <1>2 DEF RollbackFlushed
        <2>2. Goes(w, "pin") \/ Goes(w, "failed") BY <1>2 DEF RollbackFlushed
        <2>3. PICK pc \in {"pin", "failed"} : Steps(up', w, pc, up[w].prev) BY <1>a, <2>2, Advanced DEF Goes
        <2>4. answer' \in [Owners -> {"none", "ok", "fail"}] BY <1>a, <2>1 DEF Work
        <2>5. Work' BY <1>a, <2>1, <2>4 DEF Work, Frozen, project
        <2> QED BY <1>a, <2>1, <2>3, <2>5 DEF Verbs, remote, project
    <1>3. ASSUME RollbackPins(w) PROVE Kept
        <2>1. UNCHANGED <<scene, remote, commit, answer, pool, fence>>
              /\ (FreshLoad \/ UNCHANGED <<project, known, seen>>)
            BY <1>3 DEF RollbackPins
        <2>2. up' = [up EXCEPT ![w].pc = IF kept > 1 THEN "failed" ELSE "validate",
                               ![w].prev = IF Git THEN Token ELSE sha]
            BY <1>3 DEF RollbackPins
        <2>3. Steps(up', w, IF kept > 1 THEN "failed" ELSE "validate", IF Git THEN Token ELSE sha)
            BY <1>a, <2>2, Advanced
        <2>4. \E pc, prev : /\ Steps(up', w, pc, prev) /\ pc \notin Verbs
                            /\ pc \notin {"validate", "roll"} \/ (Git => prev = tip /\ kept = 1)
            BY <1>a, <2>3 DEF Verbs, Token
        <2>5. CASE FreshLoad BY <2>1, <2>4, <2>5, LoadKept DEF remote
        <2>6. CASE UNCHANGED <<project, known, seen>>
            <3>1. Work' BY <1>a, <2>1, <2>6 DEF Work, Frozen, project
            <3> QED BY <1>a, <2>1, <2>4, <2>6, <3>1 DEF remote, project
        <2> QED BY <2>1, <2>5, <2>6
    <1>4. Kept BY <1>1, <1>2, <1>3
    <1>5. PICK pc, prev : /\ Steps(up', w, pc, prev) /\ pc \notin Verbs
                          /\ pc \notin {"validate", "roll"} \/ (Git => prev = tip /\ kept = 1)
        BY <1>4
    <1>6. UNCHANGED <<scene, pr, fence>> BY <1>4
    <1>7. Calls' /\ (~InFlight => ~InFlight') BY <1>5, <1>6, CallsKept
    <1>8. Shelves' BY <1>4 DEF Inv, Shelves
    <1>9. ASSUME NEW v \in Writers PROVE Rolled(up'[v], Git, tip, kept)
        <2>1. CASE v = w BY <1>5, <1>a, <2>1 DEF Steps, Rolled
        <2>2. CASE v # w BY <1>5, <2>2 DEF Inv, Index, Steps
        <2> QED BY <2>1, <2>2
    <1>10. (\E q \in Pruners : pr[q].pc \in Fenced) => ~dirty' /\ ~InFlight'
        BY <1>4, <1>7 DEF Inv, Alone, PruneAlone, Fenced
    <1> QED BY <1>4, <1>6, <1>7, <1>8, <1>9, <1>10, ProjectFrame

LEMMA RollbackPublishes ==
    ASSUME Inv, NEW w \in Writers, RollbackPushes(w), UNCHANGED pr
    PROVE  Inv'
    <1>1. UNCHANGED <<scene, commit, answer, pool, fence>> /\ up[w].pc = "roll" BY DEF RollbackPushes, At
    <1>2. /\ Calls /\ Work /\ tip \in Nat /\ seen \in 1..tip /\ (~Git => kept = 1)
          /\ known.us \subseteq objs /\ DOMAIN known = Hubs /\ Built(commit, Git, known.us)
          /\ Rolled(up[w], Git, tip, kept)
        BY DEF Inv, Index, Branch
    <1>3. Shelves' BY <1>1 DEF Inv, Shelves
    <1>4. CASE up[w].prev = Token
        <2>1. /\ heads' = Append(heads, Target) /\ tip' = tip + 1 /\ kept' = kept
              /\ objs' = IF Git THEN objs \cup Needs(Target) ELSE objs
              /\ seen' = tip + 1 /\ known' = [known EXCEPT !.us = @ \cup Objects(Target)]
            BY <1>4 DEF RollbackPushes, Advance
        <2>2. kept = 1 BY <1>1, <1>2, <1>4 DEF Rolled, Token
        <2>3. Objects(Target) \subseteq Referenced /\ Objects(Target) \subseteq objs
            BY <2>2, HeadRetained DEF Inv, Index, IndexReadable, Target
        <2>4. DOMAIN known' = Hubs /\ known'.us = known.us \cup Objects(Target)
            BY <2>1, Learnt DEF Inv
        <2>5. objs \subseteq objs' /\ Objects(Target) \subseteq objs' /\ known'.us \subseteq objs'
            BY <1>2, <2>1, <2>3, <2>4
        <2>6. /\ pend' = pend /\ dirty' = dirty
              /\ version' = version \/ (version' = version + 1 /\ ~dirty)
            BY <1>4 DEF RollbackPushes, project
        <2>7. Work' BY <1>1, <1>2, <2>6 DEF Work, Frozen
        <2>8. Built(commit', Git, known'.us) BY <1>1, <1>2, <2>4, BuiltGrows
        <2>9. Goes(w, "verify") BY <1>4 DEF RollbackPushes
        <2>10. Steps(up', w, "verify", up[w].prev) BY <1>2, <2>9, Advanced DEF Goes
        <2>11. UNCHANGED <<scene, pr, fence>> BY <1>1
        <2>12. Calls' /\ (~InFlight => ~InFlight') /\ \A v \in Writers : Rolled(up'[v], Git, tip, kept)
            BY <2>10, <2>11, CallsKept DEF Verbs
        <2>13. \A v \in Writers : Rolled(up'[v], Git, tip + 1, kept)
            <3> TAKE v \in Writers
            <3>1. tip + 1 >= tip /\ tip + 1 \in Nat BY <1>2
            <3> QED BY <1>2, <2>12, <3>1, RolledKept
        <2>14. tip + 1 \in 1..(tip + 1) BY <1>2
        <2>15. (\E q \in Pruners : pr[q].pc \in Fenced) => ~dirty' /\ ~InFlight'
            BY <2>6, <2>12 DEF Inv, Alone, PruneAlone, Fenced
        <2> QED BY <2>1, <2>3, <2>4, <2>5, <2>7, <2>8, <1>3, <2>11, <2>12, <2>13, <2>14, <2>15, AdvanceFrame
    <1>5. CASE up[w].prev # Token
        <2>1. Goes(w, "failed") /\ UNCHANGED <<scene, remote, known, seen, project>> BY <1>5 DEF RollbackPushes
        <2>2. Steps(up', w, "failed", up[w].prev) BY <1>2, <2>1, Advanced DEF Goes
        <2>3. Apart(w) /\ WriterRecord(up'[w]) /\ up'[w].pc \notin Verbs /\ Rolled(up'[w], Git, tip, kept)
            BY <2>2 DEF Steps, Apart, Verbs, Rolled
        <2> QED BY <1>1, <1>3, <2>1, <2>3, WriterFrame
    <1> QED BY <1>4, <1>5

LEMMA WriterKeeps ==
    ASSUME Inv, NEW w \in Writers, WriterStep(w), UNCHANGED pr
    PROVE  Inv'
    BY WriterQuiet, WriterEdits, RollbackQuiet, RollbackPublishes DEF WriterStep

-----------------------------------------------------------------------------
(* The steps of the prunes.                                                *)

\* A new record r for pruner q, whose fence is held or let go.
Turns(q, r) ==
    /\ PrunerRecord(r) /\ Queue(r)
    /\ pr'[q] = r /\ DOMAIN pr' = Pruners /\ \A p \in Pruners \ {q} : pr'[p] = pr[p]
    /\ fence' \in Pruners \cup {"free"}
    /\ r.held => fence' = q
    /\ fence \in Pruners \ {q} => fence' = fence
    /\ r.pc \in Fenced => fence' = q /\ (pr[q].pc \in Fenced \/ (~InFlight /\ ~dirty))
    /\ r.pc = "txn" => pr[q].pc = "txn" \/ fence = "free"

LEMMA TurnAlone ==
    ASSUME Inv, NEW q \in Pruners, NEW r, Turns(q, r), up' = up,
           dirty' = dirty \/ \A p \in Pruners : pr'[p].pc \notin Fenced
    PROVE  Alone'
    <1>1. ASSUME NEW p \in Pruners PROVE Queue(pr'[p]) /\ (pr'[p].held => fence' = p)
        <2>1. CASE p = q BY <2>1 DEF Turns
        <2>2. CASE p # q
            <3>1. pr'[p] = pr[p] /\ Queue(pr[p]) /\ (pr[p].held => fence = p) BY <2>2 DEF Turns, Inv, Alone
            <3> QED BY <2>2, <3>1 DEF Turns
        <2> QED BY <2>1, <2>2
    <1>2. ASSUME NEW p \in Pruners, pr'[p].pc \in Fenced PROVE fence' = p /\ ~InFlight' /\ ~dirty'
        <2>1. dirty' = dirty BY <1>2
        <2>2. fence' = p /\ ~InFlight /\ ~dirty
            <3>1. CASE p = q BY <1>2, <3>1 DEF Turns, Inv, Alone, PruneAlone, Fenced
            <3>2. CASE p # q
                <4>1. pr[p].pc \in Fenced BY <1>2, <3>2 DEF Turns
                <4> QED BY <3>2, <4>1 DEF Turns, Inv, Alone, PruneAlone, Fenced
            <3> QED BY <3>1, <3>2
        <2>3. ~InFlight'
            <3>1. \A w \in Writers : up'[w].pc \notin Verbs BY <2>2 DEF InFlight, Verbs
            <3>2. ASSUME NEW o \in Pruners, pr'[o].pc = "txn" PROVE FALSE
                <4>1. CASE o # q BY <2>2, <3>2, <4>1 DEF Turns, InFlight, Between
                <4>2. CASE o = q
                    <5>1. pr[q].pc # "txn" BY <2>2 DEF InFlight, Between
                    <5>2. fence = "free" /\ r.pc = "txn" BY <3>2, <4>2, <5>1 DEF Turns
                    <5>3. p # q BY <1>2, <4>2, <3>2 DEF Fenced
                    <5>4. pr[p].pc \in Fenced BY <1>2, <5>3 DEF Turns
                    <5> QED BY <5>2, <5>4, PruneAssumption DEF Inv, Alone, PruneAlone, Fenced
                <4> QED BY <4>1, <4>2
            <3> QED BY <3>1, <3>2 DEF InFlight, Between, Verbs
        <2> QED BY <2>1, <2>2, <2>3
    <1> QED BY <1>1, <1>2 DEF Alone, PruneAlone, Fenced

LEMMA PrunerFrame ==
    ASSUME Inv, NEW q \in Pruners, NEW r, Turns(q, r), up' = up, Shelves',
           dirty' = dirty \/ \A p \in Pruners : pr'[p].pc \notin Fenced,
           UNCHANGED <<scene, heads, kept, tip, objs>>,
           known'.us \subseteq objs, DOMAIN known' = Hubs, seen' \in 1..tip,
           Work', Built(commit', Git, known'.us), Clear(r, Git, Referenced, tip)
    PROVE  Inv'
    <1>1. Alone' BY TurnAlone
    <1>2. Branch' BY DEF Inv, Branch, Git
    <1>3. Calls' BY DEF Inv, Calls, Turns
    <1>4. Referenced' = Referenced BY StillReferenced
    <1>5. \A p \in Pruners : Clear(pr'[p], Git, Referenced, tip) BY DEF Inv, Index, Turns
    <1>6. \A w \in Writers : Rolled(up[w], Git, tip, kept) BY DEF Inv, Index
    <1>7. Index' BY <1>4, <1>5, <1>6 DEF Inv, Index, IndexReadable, Git
    <1> QED BY <1>1, <1>2, <1>3, <1>7 DEF Inv

LEMMA PrunerQuietFrame ==
    ASSUME Inv, NEW q \in Pruners, NEW r, Turns(q, r), Shelves', Clear(r, Git, Referenced, tip),
           UNCHANGED <<scene, remote, known, project, seen, commit, answer, up>>
    PROVE  Inv'
    <1>1. UNCHANGED <<heads, kept, tip, objs, dirty>> BY DEF remote, project
    <1>2. Work' BY DEF Inv, Work, Frozen, project
    <1> QED BY <1>1, <1>2, PrunerFrame DEF Inv, Index, Branch

\* The points at which nothing is about to be removed.
Harmless == {"load", "list", "check", "version", "delete", "refs", "revisions", "tail", "probe", "rehold",
             "release", "scan", "pending", "txn", "flush", "flushing", "done", "failed", "refused"}

LEMMA HarmlessClear ==
    ASSUME NEW r, r.pc \in Harmless, NEW git, NEW ref, NEW t
    PROVE  Clear(r, git, ref, t)
    BY DEF Clear, Harmless

LEMMA QuitTurns ==
    ASSUME Inv, NEW q \in Pruners, NEW ok, Quits(q, ok)
    PROVE  \E r : Turns(q, r) /\ r.pc \in Harmless
    <1> DEFINE r == [Waiting EXCEPT !.pc = IF ok THEN "done" ELSE "failed", !.ok = ok, !.cut = pr[q].cut]
    <1>1. pr' = [pr EXCEPT ![q] = r] /\ fence' = Released(q) BY DEF Quits, Now
    <1>2. PrunerRecord(r) /\ r.pc \in {"done", "failed"} /\ ~r.held
        <2> DEFINE pc == IF ok THEN "done" ELSE "failed"
        <2>1. pc \in {"done", "failed"} BY Zenon
        <2> HIDE DEF pc
        <2>2. ASSUME NEW o, NEW c
              PROVE  LET s == [Waiting EXCEPT !.pc = pc, !.ok = o, !.cut = c] IN
                     PrunerRecord(s) /\ s.pc = pc /\ s.held = FALSE
            BY DEF Waiting, PrunerRecord
        <2>3. r = [Waiting EXCEPT !.pc = pc, !.ok = ok, !.cut = pr[q].cut] BY DEF pc
        <2> HIDE DEF r
        <2> QED BY <2>1, <2>2, <2>3
    <1> HIDE DEF r
    <1>3. Queue(r) /\ r.pc \in Harmless /\ r.pc \notin Fenced /\ r.pc # "txn" BY <1>2 DEF Queue, Harmless, Fenced
    <1>4. /\ fence' \in Pruners \cup {"free"}
          /\ fence \in Pruners \ {q} => fence' = fence
        BY <1>1 DEF Released, Inv, Calls, Alone
    <1>5. Turns(q, r) BY <1>1, <1>2, <1>3, <1>4 DEF Turns, Inv, Calls
    <1> QED BY <1>3, <1>5

LEMMA StageTurns ==
    ASSUME Inv, NEW q \in Pruners, StageEnds(q),
           pr[q].pc \in {"revisions", "squash", "refs", "objects", "head", "remove"}
    PROVE  \E r : Turns(q, r) /\ r.pc \in Harmless
    <1>1. CASE Len(pr[q].todo) = 1 BY <1>1, QuitTurns DEF StageEnds
    <1>2. CASE Len(pr[q].todo) # 1
        <2> DEFINE todo == pr[q].todo
                   pc == FirstStep[todo[2]]
                   r == [pr[q] EXCEPT !.todo = Tail(@), !.pc = pc]
        <2>1. pr' = [pr EXCEPT ![q] = r] /\ fence' = fence BY <1>2 DEF StageEnds, Now
        <2>2. \/ todo = <<"history", "objects", "assets">> /\ Tail(todo) = <<"objects", "assets">> /\ todo[2] = "objects"
              \/ todo = <<"objects", "assets">> /\ todo[2] = "assets"
            <3>1. todo \in {<<"history">>, <<"history", "objects", "assets">>, <<"objects">>, <<"objects", "assets">>}
                BY DEF Inv, Alone, Queue
            <3>2. Len(<<"history">>) = 1 /\ Len(<<"objects">>) = 1 OBVIOUS
            <3>3. todo = <<"history", "objects", "assets">> \/ todo = <<"objects", "assets">> BY <1>2, <3>1, <3>2
            <3> HIDE DEF todo
            <3>4. todo = <<"history", "objects", "assets">> => Tail(todo) = <<"objects", "assets">> /\ todo[2] = "objects"
                OBVIOUS
            <3>5. todo = <<"objects", "assets">> => todo[2] = "assets" OBVIOUS
            <3> QED BY <3>3, <3>4, <3>5
        <2>3. PrunerRecord(r) /\ r.pc = pc /\ r.todo = Tail(todo) /\ r.held = pr[q].held
            <3>1. PrunerRecord(pr[q]) BY DEF Inv, Calls
            <3> HIDE DEF pc
            <3> QED BY <3>1 DEF PrunerRecord
        <2>4. \/ r.pc = "refs" /\ r.todo = <<"objects", "assets">>
              \/ r.pc = "load"
            BY <2>2, <2>3 DEF FirstStep
        <2> HIDE DEF r
        <2>5. Queue(r) /\ r.pc \in Harmless /\ r.pc # "txn" BY <2>4 DEF Queue, Harmless
        <2>6. pr[q].pc \in Fenced /\ fence = q BY DEF Fenced, Inv, Alone, PruneAlone
        <2>7. pr'[q] = r /\ DOMAIN pr' = Pruners /\ \A p \in Pruners \ {q} : pr'[p] = pr[p]
            BY <2>1 DEF Inv, Calls
        <2>8. fence' = q BY <2>1, <2>6
        <2> HIDE DEF todo, pc
        <2>9. Turns(q, r)
            <3>1. fence' \in Pruners \cup {"free"} BY <2>8
            <3>2. r.held => fence' = q BY <2>8
            <3>3. fence \in Pruners \ {q} => fence' = fence BY <2>6
            <3>4. r.pc \in Fenced => fence' = q /\ (pr[q].pc \in Fenced \/ (~InFlight /\ ~dirty)) BY <2>6, <2>8
            <3> QED BY <2>3, <2>5, <2>7, <3>1, <3>2, <3>3, <3>4 DEF Turns
        <2> QED BY <2>5, <2>9
    <1> QED BY <1>1, <1>2

\* A step that keeps the fence as it is.
LEMMA MoveTurns ==
    ASSUME Inv, NEW q \in Pruners, NEW r, Now(q, r), fence' = fence, PrunerRecord(r), Queue(r),
           r.held = pr[q].held, r.pc \in Fenced => pr[q].pc \in Fenced,
           r.pc = "txn" => fence = "free"
    PROVE  Turns(q, r)
    <1>1. pr'[q] = r /\ DOMAIN pr' = Pruners /\ \A p \in Pruners \ {q} : pr'[p] = pr[p]
        BY DEF Now, Inv, Calls
    <1>2. r.held => fence = q BY DEF Inv, Alone
    <1>3. pr[q].pc \in Fenced => fence = q BY DEF Inv, Alone, PruneAlone, Fenced
    <1>4. fence \in Pruners \cup {"free"} BY DEF Inv, Calls
    <1> QED BY <1>1, <1>2, <1>3, <1>4 DEF Turns

LEMMA StartTurns ==
    ASSUME Inv, Shut, NEW q \in Pruners, Arrives(q)
    PROVE  \E r : Turns(q, r) /\ r.pc \in Harmless
    <1>1. scene.scopes[q] \in {"all", "history", "objects", "assets", "chunks"}
        <2>1. scene.scopes \in [Pruners -> {"none", "all", "history", "objects", "assets", "chunks"}]
            BY PruneAssumption DEF Inv, Calls
        <2> QED BY <2>1 DEF Arrives, Start
    <1>2. ~InFlight BY DEF Arrives, StartMay, Shut, Open
    <1>3. CASE fence = "free" /\ CleanEnough(q)
        <2> DEFINE stages == Scopes(scene.scopes[q])
                   pc == FirstStep[stages[1]]
                   r == [Waiting EXCEPT !.pc = pc, !.held = TRUE, !.todo = stages]
        <2>1. Now(q, r) /\ fence' = q BY <1>3 DEF Arrives, Start
        <2>2. \/ scene.scopes[q] = "all" /\ stages = <<"history", "objects", "assets">> /\ pc = "revisions"
              \/ scene.scopes[q] = "history" /\ stages = <<"history">> /\ pc = "revisions"
              \/ scene.scopes[q] = "objects" /\ stages = <<"objects">> /\ pc = "refs"
              \/ scene.scopes[q] = "assets" /\ pc = "load"
              \/ scene.scopes[q] = "chunks" /\ pc = "scan"
            BY <1>1 DEF Scopes, FirstStep
        <2> HIDE DEF stages, pc
        <2>3. PrunerRecord(r) /\ r.pc = pc /\ r.todo = stages BY DEF PrunerRecord, Waiting
        <2> HIDE DEF r
        <2>4. Queue(r) BY <2>2, <2>3 DEF Queue
        <2>5. r.pc \in Harmless /\ r.pc # "txn" BY <2>2, <2>3 DEF Harmless
        <2>6. r.pc \in Fenced => ~dirty BY <1>3, <2>2, <2>3 DEF CleanEnough, Fenced
        <2>7. pr'[q] = r /\ DOMAIN pr' = Pruners /\ \A p \in Pruners \ {q} : pr'[p] = pr[p]
            BY <2>1 DEF Now, Inv, Calls
        <2>8. fence \notin Pruners BY <1>3, PruneAssumption
        <2>9. Turns(q, r) BY <1>2, <2>1, <2>3, <2>4, <2>5, <2>6, <2>7, <2>8 DEF Turns
        <2> QED BY <2>5, <2>9
    <1>4. CASE ~(fence = "free" /\ CleanEnough(q))
        <2> DEFINE r == [pr[q] EXCEPT !.pc = "refused"]
        <2>1. Now(q, r) /\ fence' = fence BY <1>4 DEF Arrives, Start, Move
        <2>2. PrunerRecord(r) /\ r.pc = "refused" /\ r.held = pr[q].held BY DEF Inv, Calls, PrunerRecord
        <2> HIDE DEF r
        <2>3. Queue(r) /\ r.pc \in Harmless /\ r.pc \notin Fenced BY <2>2 DEF Queue, Harmless, Fenced
        <2>4. Turns(q, r) BY <2>1, <2>2, <2>3, MoveTurns
        <2> QED BY <2>3, <2>4
    <1> QED BY <1>3, <1>4

LEMMA PoolLess ==
    ASSUME Shelves, NEW task, pool' = PoolWithout(task)
    PROVE  Shelves'
    <1>1. CASE task[1] = "release" BY <1>1 DEF PoolWithout, Without, Shelves
    <1>2. CASE task[1] # "release"
        <2>1. pool' = [r \in DOMAIN pool |-> pool[r] \ {task[2]}] BY <1>2 DEF PoolWithout
        <2>2. \A r \in DOMAIN pool : IsFiniteSet(pool[r] \ {task[2]}) /\ Cardinality(pool[r] \ {task[2]}) <= Cap
            BY ShelfEmptied
        <2> QED BY <2>1, <2>2 DEF Shelves
    <1> QED BY <1>1, <1>2

LEMMA LetGo ==
    ASSUME Inv, NEW q \in Pruners, NEW pc \in {"tail", "probe", "rehold", "pending"},
           Now(q, [pr[q] EXCEPT !.held = FALSE, !.pc = pc]), fence' = Released(q)
    PROVE  \E r : Turns(q, r) /\ Clear(r, Git, Referenced, tip)
    <1> DEFINE r == [pr[q] EXCEPT !.held = FALSE, !.pc = pc]
    <1>1. PrunerRecord(r) /\ r.pc = pc /\ ~r.held BY DEF Inv, Calls, PrunerRecord
    <1>2. pr'[q] = r /\ DOMAIN pr' = Pruners /\ \A p \in Pruners \ {q} : pr'[p] = pr[p]
        BY DEF Now, Inv, Calls
    <1> HIDE DEF r
    <1>3. Queue(r) /\ r.pc \in Harmless /\ r.pc \notin Fenced /\ r.pc # "txn" BY <1>1 DEF Queue, Harmless, Fenced
    <1>4. /\ fence' \in Pruners \cup {"free"}
          /\ fence \in Pruners \ {q} => fence' = fence
        BY DEF Released, Inv, Calls, Alone
    <1>5. Turns(q, r) BY <1>1, <1>2, <1>3, <1>4 DEF Turns
    <1> QED BY <1>3, <1>5, HarmlessClear

LEMMA PrunerQuiet ==
    ASSUME Inv, Shut, NEW q \in Pruners,
           \/ Arrives(q) \/ AssetsList(q) \/ ReadVersion(q) \/ Delete(q) \/ DeleteFails(q)
           \/ DropFence(q) \/ Scan(q) \/ Pending(q) \/ TailAdmitted(q) \/ Rehold(q) \/ Release(q) \/ ReadHead(q)
    PROVE  Inv'
    <1> DEFINE Frame == /\ UNCHANGED <<scene, remote, known, project, seen, commit, answer, up>> /\ Shelves'
                        /\ \E r : Turns(q, r) /\ Clear(r, Git, Referenced, tip)
    <1>a. /\ Calls /\ Shelves /\ Clear(pr[q], Git, Referenced, tip) /\ PrunerRecord(pr[q])
          /\ UNCHANGED pool => Shelves'
        BY DEF Inv, Index, Shelves, Calls
    <1>b. ASSUME NEW r, Now(q, r), fence' = fence, PrunerRecord(r), r.held = pr[q].held,
                 r.pc \in Harmless \ {"refs", "revisions"}, r.pc \in Fenced => pr[q].pc \in Fenced,
                 r.pc = "txn" => fence = "free"
          PROVE  Turns(q, r) /\ Clear(r, Git, Referenced, tip)
        <2>1. Queue(r) BY <1>b DEF Queue, Harmless
        <2> QED BY <1>b, <2>1, MoveTurns, HarmlessClear
    <1>c. ASSUME NEW ok, Quits(q, ok) PROVE \E r : Turns(q, r) /\ Clear(r, Git, Referenced, tip)
        BY <1>c, QuitTurns, HarmlessClear
    <1>1. ASSUME Arrives(q) PROVE Frame
        <2>1. UNCHANGED <<scene, storeVars, pool, up>> BY <1>1 DEF Arrives, Start
        <2>2. \E r : Turns(q, r) /\ Clear(r, Git, Referenced, tip) BY <1>1, StartTurns, HarmlessClear
        <2> QED BY <1>a, <2>1, <2>2 DEF storeVars
    <1>2. ASSUME AssetsList(q) PROVE Frame
        <2> DEFINE r == [pr[q] EXCEPT !.pc = "check", !.tasks = Untracked(pr[q].kept),
                                      !.cut = Untracked(pr[q].kept) # {}, !.base = 0]
        <2>1. UNCHANGED <<scene, storeVars, pool, up, fence>> /\ Now(q, r) /\ pr[q].pc = "list"
            BY <1>2 DEF AssetsList, In
        <2>2. PrunerRecord(r) /\ r.pc = "check" /\ r.held = pr[q].held BY <1>a DEF PrunerRecord
        <2> HIDE DEF r
        <2>3. Turns(q, r) /\ Clear(r, Git, Referenced, tip) BY <2>1, <2>2, <1>b DEF Harmless, Fenced
        <2> QED BY <1>a, <2>1, <2>3 DEF storeVars
    <1>3. ASSUME ReadVersion(q) PROVE Frame
        <2> DEFINE r == Judged(q, version)
        <2>1. UNCHANGED <<scene, storeVars, pool, up, fence>> /\ Now(q, r) /\ pr[q].pc = "version"
            BY <1>3 DEF ReadVersion, In, poolVars
        <2>2. PrunerRecord(r) /\ r.pc \in {"check", "delete"} /\ r.held = pr[q].held
            BY <1>a DEF PrunerRecord, Judged
        <2> HIDE DEF r
        <2>3. Turns(q, r) /\ Clear(r, Git, Referenced, tip) BY <2>1, <2>2, <1>b DEF Harmless, Fenced
        <2> QED BY <1>a, <2>1, <2>3 DEF storeVars
    <1>4. ASSUME Delete(q) PROVE Frame
        <2>1. UNCHANGED <<scene, storeVars, up>> /\ pr[q].pc = "delete" BY <1>4 DEF Delete, In
        <2>2. CASE Held(NextTask(q))
            <3> DEFINE r == [pr[q] EXCEPT !.pc = "check", !.tasks = @ \ {NextTask(q)}]
            <3>1. pool' = PoolWithout(NextTask(q)) /\ Now(q, r) /\ fence' = fence BY <1>4, <2>2 DEF Delete
            <3>2. PrunerRecord(r) /\ r.pc = "check" /\ r.held = pr[q].held BY <1>a DEF PrunerRecord
            <3> HIDE DEF r
            <3>3. Turns(q, r) /\ Clear(r, Git, Referenced, tip) BY <2>1, <3>1, <3>2, <1>b DEF Harmless, Fenced
            <3> QED BY <2>1, <3>1, <3>3, PoolLess DEF storeVars, Inv
        <2>3. CASE ~Held(NextTask(q))
            <3>1. Quits(q, FALSE) /\ UNCHANGED pool BY <1>4, <2>3 DEF Delete
            <3> QED BY <1>a, <1>c, <2>1, <3>1 DEF storeVars
        <2> QED BY <2>2, <2>3
    <1>5. ASSUME DeleteFails(q) PROVE Frame
        <2>1. UNCHANGED <<scene, remote, known, project, seen, commit, answer, up>> BY <1>5 DEF DeleteFails
        <2>2. Quits(q, FALSE) /\ (pool' = pool \/ pool' = PoolWithout(NextTask(q))) BY <1>5 DEF DeleteFails
        <2>3. Shelves' BY <1>a, <2>2, PoolLess DEF Inv
        <2> QED BY <1>c, <2>1, <2>2, <2>3
    <1>6. ASSUME DropFence(q) PROVE Frame
        <2>1. UNCHANGED <<scene, storeVars, up, pool>> /\ fence' = Released(q) BY <1>6 DEF DropFence
        <2>2. PICK pc \in {"tail", "probe"} : Now(q, [pr[q] EXCEPT !.held = FALSE, !.pc = pc]) BY <1>6 DEF DropFence
        <2>3. \E r : Turns(q, r) /\ Clear(r, Git, Referenced, tip) BY <2>1, <2>2, LetGo
        <2> QED BY <1>a, <2>1, <2>3 DEF storeVars
    <1>7. ASSUME Scan(q) PROVE Frame
        <2>1. UNCHANGED <<scene, storeVars, up, pool>> /\ fence' = Released(q) BY <1>7 DEF Scan
        <2>2. PICK pc \in {"rehold", "pending"} : Now(q, [pr[q] EXCEPT !.held = FALSE, !.pc = pc]) BY <1>7 DEF Scan
        <2>3. \E r : Turns(q, r) /\ Clear(r, Git, Referenced, tip) BY <2>1, <2>2, LetGo
        <2> QED BY <1>a, <2>1, <2>3 DEF storeVars
    <1>8. ASSUME Pending(q) PROVE Frame
        <2> DEFINE r == [pr[q] EXCEPT !.pc = "tail", !.refs = PendingChunks]
        <2>1. UNCHANGED <<scene, storeVars, pool, up, fence>> /\ Now(q, r) BY <1>8 DEF Pending, poolVars
        <2>2. PrunerRecord(r) /\ r.pc = "tail" /\ r.held = pr[q].held BY <1>a DEF PrunerRecord
        <2> HIDE DEF r
        <2>3. Turns(q, r) /\ Clear(r, Git, Referenced, tip) BY <2>1, <2>2, <1>b DEF Harmless, Fenced
        <2> QED BY <1>a, <2>1, <2>3 DEF storeVars
    <1>9. ASSUME TailAdmitted(q) PROVE Frame
        <2>1. UNCHANGED <<scene, storeVars, pool, up, fence>> BY <1>9 DEF TailAdmitted
        <2>2. PICK pc \in {"txn", "rehold"} : Now(q, [pr[q] EXCEPT !.pc = pc]) /\ (pc = "txn" => fence = "free")
            BY <1>9 DEF TailAdmitted, Move, Admission
        <2> DEFINE r == [pr[q] EXCEPT !.pc = pc]
        <2>3. PrunerRecord(r) /\ r.pc = pc /\ r.held = pr[q].held BY <1>a DEF PrunerRecord
        <2>4. Now(q, r) BY <2>2
        <2> HIDE DEF r
        <2>5. Turns(q, r) /\ Clear(r, Git, Referenced, tip) BY <2>1, <2>2, <2>3, <2>4, <1>b DEF Harmless, Fenced
        <2> QED BY <1>a, <2>1, <2>5 DEF storeVars
    <1>10. ASSUME Rehold(q) PROVE Frame
        <2> DEFINE r == [pr[q] EXCEPT !.pc = "release", !.held = fence = "free"]
        <2>1. UNCHANGED <<scene, storeVars, pool, up>> /\ Now(q, r) /\ fence' = IF fence = "free" THEN q ELSE fence
            BY <1>10 DEF Rehold
        <2>2. PrunerRecord(r) /\ r.pc = "release" /\ (r.held => fence = "free") BY <1>a DEF PrunerRecord
        <2> HIDE DEF r
        <2>3. Queue(r) /\ r.pc \in Harmless /\ r.pc \notin Fenced /\ r.pc # "txn" BY <2>2 DEF Queue, Harmless, Fenced
        <2>4. pr'[q] = r /\ DOMAIN pr' = Pruners /\ \A p \in Pruners \ {q} : pr'[p] = pr[p]
            BY <1>a, <2>1 DEF Now, Calls
        <2>5. Turns(q, r) BY <1>a, <2>1, <2>2, <2>3, <2>4, PruneAssumption DEF Turns, Calls
        <2> QED BY <1>a, <2>1, <2>3, <2>5, HarmlessClear DEF storeVars
    <1>11. ASSUME Release(q) PROVE Frame
        <2>1. UNCHANGED <<scene, storeVars, pool, up>> /\ Quits(q, pr[q].ok) BY <1>11 DEF Release
        <2> QED BY <1>a, <1>c, <2>1 DEF storeVars
    <1>12. ASSUME ReadHead(q) PROVE Frame
        <2> DEFINE r == [pr[q] EXCEPT !.pc = "remove", !.head = seen]
        <2>1. UNCHANGED <<scene, storeVars, pool, up, fence>> /\ Now(q, r) /\ pr[q].pc = "head"
            BY <1>12 DEF ReadHead, In, poolVars
        <2>2. /\ PrunerRecord(r) /\ r.pc = "remove" /\ r.held = pr[q].held /\ r.todo = pr[q].todo
              /\ r.orphans = pr[q].orphans /\ r.head = seen
            BY <1>a DEF PrunerRecord
        <2> HIDE DEF r
        <2>3. Queue(r) BY <2>1, <2>2 DEF Inv, Alone, Queue
        <2>4. Turns(q, r) BY <2>1, <2>2, <2>3, MoveTurns DEF Fenced
        <2>5. seen \in Nat /\ seen <= tip BY DEF Inv, Branch
        <2>6. Clear(r, Git, Referenced, tip) BY <1>a, <2>1, <2>2, <2>5 DEF Clear
        <2> QED BY <1>a, <2>1, <2>4, <2>6 DEF storeVars
    <1>13. Frame BY <1>1, <1>2, <1>3, <1>4, <1>5, <1>6, <1>7, <1>8, <1>9, <1>10, <1>11, <1>12
    <1> QED BY <1>13, PrunerQuietFrame

\* A move to a point at which nothing is about to be removed.
LEMMA MoveHarmless ==
    ASSUME Inv, NEW q \in Pruners, NEW r, Now(q, r), fence' = fence, PrunerRecord(r), r.held = pr[q].held,
           r.pc \in Harmless \ {"refs", "revisions", "txn"}, r.pc \in Fenced => pr[q].pc \in Fenced
    PROVE  Turns(q, r) /\ Clear(r, Git, Referenced, tip)
    <1>1. Queue(r) /\ r.pc # "txn" BY DEF Queue, Harmless
    <1> QED BY <1>1, MoveTurns, HarmlessClear

LEMMA PrunerLoads ==
    ASSUME Inv, NEW q \in Pruners, AssetsLoad(q) \/ Check(q) \/ Probe(q)
    PROVE  Inv'
    <1> DEFINE Turned == \E r : Turns(q, r) /\ Clear(r, Git, Referenced, tip)
    <1>1. UNCHANGED <<scene, remote, commit, answer, pool, up>> BY DEF AssetsLoad, Check, Probe, poolVars
    <1>2. PrunerRecord(pr[q]) BY DEF Inv, Calls
    <1>3. FreshLoad \/ UNCHANGED <<project, known, seen>> BY DEF AssetsLoad, Check, Probe
    <1>4. ASSUME AssetsLoad(q) PROVE Turned
        <2>1. CASE dirty
            <3>1. Quits(q, FALSE) BY <1>4, <2>1 DEF AssetsLoad
            <3> QED BY <3>1, QuitTurns, HarmlessClear
        <2>2. CASE ~dirty
            <3> DEFINE r == [pr[q] EXCEPT !.pc = "list", !.kept = Tracked(HeadTree)]
            <3>1. Now(q, r) /\ fence' = fence /\ pr[q].pc = "load" BY <1>4, <2>2 DEF AssetsLoad, In
            <3>2. PrunerRecord(r) /\ r.pc = "list" /\ r.held = pr[q].held BY <1>2 DEF PrunerRecord
            <3> HIDE DEF r
            <3>3. Turns(q, r) /\ Clear(r, Git, Referenced, tip)
                BY <3>1, <3>2, MoveHarmless DEF Harmless, Fenced
            <3> QED BY <3>3
        <2> QED BY <2>1, <2>2
    <1>5. ASSUME Check(q) PROVE Turned
        <2>1. CASE UpToDate(q)
            <3> DEFINE r == Judged(q, pr[q].base)
            <3>1. Now(q, r) /\ fence' = fence /\ pr[q].pc = "check" BY <1>5, <2>1 DEF Check, In, poolVars
            <3>2. PrunerRecord(r) /\ r.pc \in {"check", "delete"} /\ r.held = pr[q].held
                BY <1>2 DEF PrunerRecord, Judged
            <3> HIDE DEF r
            <3>3. Turns(q, r) /\ Clear(r, Git, Referenced, tip)
                BY <3>1, <3>2, MoveHarmless DEF Harmless, Fenced
            <3> QED BY <3>3
        <2>2. CASE ~UpToDate(q)
            <3> DEFINE r == [pr[q] EXCEPT !.pc = "version", !.kept = Tracked(HeadTree)]
            <3>1. Now(q, r) /\ fence' = fence /\ pr[q].pc = "check" BY <1>5, <2>2 DEF Check, In, poolVars
            <3>2. PrunerRecord(r) /\ r.pc = "version" /\ r.held = pr[q].held BY <1>2 DEF PrunerRecord
            <3> HIDE DEF r
            <3>3. Turns(q, r) /\ Clear(r, Git, Referenced, tip)
                BY <3>1, <3>2, MoveHarmless DEF Harmless, Fenced
            <3> QED BY <3>3
        <2> QED BY <2>1, <2>2
    <1>6. ASSUME Probe(q) PROVE Turned
        <2> DEFINE ok == DOMAIN HeadTree.chunks \subseteq Live(HeadTree)
                   pc == IF ok THEN "rehold" ELSE "tail"
        <2>1. pc \in {"rehold", "tail"} /\ Now(q, [pr[q] EXCEPT !.pc = pc, !.ok = ok]) BY <1>6 DEF Probe
        <2> HIDE DEF ok, pc
        <2> DEFINE r == [pr[q] EXCEPT !.pc = pc, !.ok = ok]
        <2>2. Now(q, r) /\ fence' = fence BY <1>6, <2>1 DEF Probe, poolVars
        <2>3. PrunerRecord(r) /\ r.pc = pc /\ r.held = pr[q].held BY <1>2 DEF PrunerRecord
        <2> HIDE DEF r
        <2>4. Turns(q, r) /\ Clear(r, Git, Referenced, tip)
            BY <2>1, <2>2, <2>3, MoveHarmless DEF Harmless, Fenced
        <2> QED BY <2>4
    <1>7. Turned BY <1>4, <1>5, <1>6
    <1>8. UNCHANGED <<heads, kept, tip, objs>> BY <1>1 DEF remote
    <1>9. Shelves' BY <1>1 DEF Inv, Shelves
    <1>10. CASE FreshLoad BY <1>1, <1>7, <1>8, <1>9, <1>10, LoadKept, PrunerFrame
    <1>11. CASE UNCHANGED <<project, known, seen>> BY <1>1, <1>7, <1>9, <1>11, PrunerQuietFrame
    <1> QED BY <1>3, <1>10, <1>11

LEMMA PrunerCommits ==
    ASSUME Inv, NEW q \in Pruners, Transact(q) \/ Flush(q) \/ Flushed(q)
    PROVE  Inv'
    <1> DEFINE Turned == \E r : Turns(q, r) /\ Clear(r, Git, Referenced, tip)
               Kept == /\ Work' /\ Built(commit', Git, known'.us)
                       /\ UNCHANGED <<scene, heads, kept, tip, objs, known, seen>>
                       /\ dirty' = dirty \/ \A p \in Pruners : pr'[p].pc \notin Fenced
    <1>1. UNCHANGED <<pool, up, fence>> BY DEF Transact, Flush, Flushed, poolVars
    <1>2. PrunerRecord(pr[q]) /\ Work /\ Built(commit, Git, known.us) /\ known.us \subseteq objs
          /\ DOMAIN known = Hubs /\ seen \in 1..tip /\ DOMAIN pr = Pruners
        BY DEF Inv, Calls, Index, Branch
    <1>3. ASSUME NEW pc \in {"rehold", "flush", "flushing"}, NEW ok,
                 \/ Now(q, [pr[q] EXCEPT !.pc = pc, !.ok = ok])
                 \/ Now(q, [pr[q] EXCEPT !.pc = pc])
          PROVE  Turned /\ pr'[q].pc \notin Fenced /\ \A p \in Pruners \ {q} : pr'[p] = pr[p]
        <2> DEFINE r1 == [pr[q] EXCEPT !.pc = pc, !.ok = ok]
                   r2 == [pr[q] EXCEPT !.pc = pc]
        <2>1. /\ PrunerRecord(r1) /\ r1.pc = pc /\ r1.held = pr[q].held
              /\ PrunerRecord(r2) /\ r2.pc = pc /\ r2.held = pr[q].held
            BY <1>2 DEF PrunerRecord
        <2>2. Now(q, r1) \/ Now(q, r2) BY <1>3
        <2> HIDE DEF r1, r2
        <2>3. PICK r \in {r1, r2} : Now(q, r) BY <2>2
        <2>4. r.pc \in {"rehold", "flush", "flushing"} BY <2>1
        <2>5. Turns(q, r) /\ Clear(r, Git, Referenced, tip)
            BY <1>1, <2>1, <2>3, MoveHarmless DEF Harmless, Fenced
        <2>6. pr'[q] = r BY <2>5 DEF Turns
        <2> QED BY <2>4, <2>5, <2>6 DEF Turns, Fenced
    <1>4. ASSUME Transact(q) PROVE Turned /\ Kept
        <2>1. UNCHANGED <<scene, remote, known, seen, commit, answer>> /\ pr[q].pc = "txn" BY <1>4 DEF Transact, In
        <2> DEFINE pc == IF Chunks(q) THEN "rehold" ELSE "flush"
        <2>2. pc \in {"rehold", "flush"} /\ Now(q, [pr[q] EXCEPT !.pc = pc, !.ok = Chunks(q)])
            BY <1>4 DEF Transact
        <2> HIDE DEF pc
        <2>3. Turned /\ pr'[q].pc \notin Fenced /\ \A p \in Pruners \ {q} : pr'[p] = pr[p] BY <1>3, <2>2
        <2>4. \A p \in Pruners : pr'[p].pc \notin Fenced
            <3>1. InFlight BY <2>1 DEF InFlight, Between
            <3>2. \A p \in Pruners : pr[p].pc \notin Fenced BY <3>1 DEF Inv, Alone, PruneAlone, Fenced
            <3> QED BY <2>3, <3>2
        <2>5. \/ UNCHANGED project
              \/ dirty' = TRUE /\ version' = version + 1 /\ UNCHANGED <<tree, pend, sha>>
              \/ \E t, op : Publish(t, op)
            BY <1>4 DEF Transact
        <2>6. Work'
            <3>1. CASE UNCHANGED project BY <1>2, <2>1, <3>1 DEF Work, Frozen, project
            <3>2. CASE dirty' = TRUE /\ version' = version + 1 /\ UNCHANGED <<tree, pend, sha>>
                BY <1>2, <2>1, <3>2 DEF Work, Frozen
            <3>3. CASE \E t, op : Publish(t, op) BY <1>2, <2>1, <3>3, PublishedWork
            <3> QED BY <2>5, <3>1, <3>2, <3>3
        <2> QED BY <1>2, <2>1, <2>3, <2>4, <2>6 DEF remote
    <1>5. ASSUME Flush(q) PROVE Turned /\ Kept
        <2>1. CASE dirty
            <3>1. CommitFreeze(q) /\ Now(q, [pr[q] EXCEPT !.pc = "flushing"]) BY <1>5, <2>1 DEF Flush, Move
            <3> QED BY <1>2, <1>3, <2>1, <3>1, FreezeKept, OwnersAre
        <2>2. CASE ~dirty
            <3>1. UNCHANGED <<scene, storeVars>> /\ Now(q, [pr[q] EXCEPT !.pc = "rehold", !.ok = TRUE])
                BY <1>5, <2>2 DEF Flush
            <3>2. Work' BY <1>2, <3>1 DEF Work, Frozen, storeVars, project
            <3> QED BY <1>2, <1>3, <3>1, <3>2 DEF storeVars, remote, project
        <2> QED BY <2>1, <2>2
    <1>6. ASSUME Flushed(q) PROVE Turned /\ Kept
        <2>1. UNCHANGED <<scene, remote, known, project, seen, commit>> /\ answer' = [answer EXCEPT ![q] = "none"]
              /\ Now(q, [pr[q] EXCEPT !.pc = "rehold", !.ok = answer[q] = "ok"])
            BY <1>6 DEF Flushed
        <2>2. answer' \in [Owners -> {"none", "ok", "fail"}] BY <1>2, <2>1 DEF Work
        <2>3. Work' BY <1>2, <2>1, <2>2 DEF Work, Frozen, project
        <2> QED BY <1>2, <1>3, <2>1, <2>3 DEF remote, project
    <1>7. Turned /\ Kept BY <1>4, <1>5, <1>6
    <1>8. Shelves' BY <1>1 DEF Inv, Shelves
    <1> QED BY <1>1, <1>2, <1>7, <1>8, PrunerFrame

-----------------------------------------------------------------------------
(* The steps of the objects and history scopes.                            *)

LEMMA ObjectsLists ==
    ASSUME Inv, NEW q \in Pruners, ObjectsRefs(q) \/ ObjectsList(q) \/ Revisions(q)
    PROVE  Inv'
    <1> DEFINE Turned == \E r : Turns(q, r) /\ Clear(r, Git, Referenced, tip)
               Kept == known'.us \subseteq objs /\ DOMAIN known' = Hubs /\ known.us \subseteq known'.us /\ seen' \in 1..tip
    <1>1. UNCHANGED <<scene, remote, project, commit, answer, pool, up>>
        BY DEF ObjectsRefs, ObjectsList, Revisions, poolVars
    <1>2. /\ PrunerRecord(pr[q]) /\ known.us \subseteq objs /\ DOMAIN known = Hubs /\ seen \in 1..tip /\ tip \in 1..tip
          /\ Built(commit, Git, known.us) /\ Work
        BY DEF Inv, Calls, Index, Branch
    <1>3. ASSUME StageEnds(q), pr[q].pc \in {"revisions", "objects"} PROVE Turned
        BY <1>3, StageTurns, HarmlessClear
    <1>4. ASSUME ObjectsRefs(q) PROVE Turned /\ Kept
        <2> DEFINE r == [pr[q] EXCEPT !.pc = "objects", !.refs = Referenced]
                   S == {<<"tree", t.files>> : t \in Retained}
        <2>1. Now(q, r) /\ fence' = fence /\ pr[q].pc = "refs" /\ seen' = tip
              /\ known' = [known EXCEPT !.us = @ \cup S]
            BY <1>4 DEF ObjectsRefs, In, poolVars
        <2>2. S \subseteq objs
            <3>1. \A t \in Retained : <<"tree", t.files>> \in Referenced BY DEF Referenced, Objects
            <3> QED BY <3>1 DEF Inv, Index, IndexReadable
        <2> HIDE DEF S
        <2>3. DOMAIN known' = Hubs /\ known'.us = known.us \cup S BY <2>1, Learnt DEF Inv
        <2>4. /\ PrunerRecord(r) /\ r.pc = "objects" /\ r.held = pr[q].held /\ r.refs = Referenced
              /\ r.todo = pr[q].todo
            BY <1>2 DEF PrunerRecord
        <2> HIDE DEF r
        <2>5. Queue(r) BY <2>1, <2>4 DEF Queue, Inv, Alone
        <2>6. Turns(q, r) BY <2>1, <2>4, <2>5, MoveTurns DEF Fenced
        <2>7. Clear(r, Git, Referenced, tip) BY <2>4 DEF Clear
        <2> QED BY <1>2, <2>1, <2>2, <2>3, <2>6, <2>7
    <1>5. ASSUME ObjectsList(q) PROVE Turned /\ Kept
        <2>1. pr[q].pc = "objects" /\ seen' = tip /\ known' = known BY <1>5 DEF ObjectsList, In
        <2>2. CASE objs \subseteq pr[q].refs
            <3>1. StageEnds(q) BY <1>5, <2>2 DEF ObjectsList
            <3> QED BY <1>2, <1>3, <2>1, <3>1
        <2>3. CASE ~(objs \subseteq pr[q].refs)
            <3> DEFINE pc == IF Git THEN "head" ELSE "remove"
            <3>1. /\ pc \in {"head", "remove"} /\ (pc = "head" <=> Git)
                  /\ Now(q, [pr[q] EXCEPT !.orphans = objs \ pr[q].refs, !.pc = pc])
                BY <1>5, <2>3 DEF ObjectsList
            <3> HIDE DEF pc
            <3> DEFINE r == [pr[q] EXCEPT !.orphans = objs \ pr[q].refs, !.pc = pc]
            <3>2. Now(q, r) /\ fence' = fence BY <1>5, <2>3, <3>1 DEF ObjectsList
            <3>3. /\ PrunerRecord(r) /\ r.pc = pc /\ r.held = pr[q].held /\ r.todo = pr[q].todo
                  /\ r.orphans = objs \ pr[q].refs
                BY <1>2 DEF PrunerRecord
            <3> HIDE DEF r
            <3>4. Queue(r) BY <2>1, <3>1, <3>3 DEF Queue, Inv, Alone
            <3>5. Turns(q, r) BY <2>1, <3>1, <3>2, <3>3, <3>4, MoveTurns DEF Fenced
            <3>6. Referenced \subseteq pr[q].refs BY <2>1 DEF Inv, Index, Clear
            <3>7. r.orphans \cap Referenced = {} /\ r.orphans # {} BY <2>3, <3>3, <3>6
            <3>8. Clear(r, Git, Referenced, tip) BY <3>1, <3>3, <3>7 DEF Clear
            <3> QED BY <1>2, <2>1, <3>5, <3>8
        <2> QED BY <2>2, <2>3
    <1>6. ASSUME Revisions(q) PROVE Turned /\ Kept
        <2>1. pr[q].pc = "revisions" /\ seen' \in {seen, tip} /\ known' = known BY <1>6 DEF Revisions, In
        <2>2. CASE StageEnds(q) BY <1>2, <1>3, <2>1, <2>2
        <2>3. CASE Git /\ Now(q, [pr[q] EXCEPT !.pc = "squash", !.head = tip]) /\ UNCHANGED fence
            <3> DEFINE r == [pr[q] EXCEPT !.pc = "squash", !.head = tip]
            <3>1. PrunerRecord(r) /\ r.pc = "squash" /\ r.held = pr[q].held /\ r.todo = pr[q].todo
                BY <1>2 DEF PrunerRecord
            <3>2. Now(q, r) /\ fence' = fence BY <2>3
            <3> HIDE DEF r
            <3>3. Queue(r) BY <2>1, <3>1 DEF Queue, Inv, Alone
            <3>4. Turns(q, r) BY <2>1, <3>1, <3>2, <3>3, MoveTurns DEF Fenced
            <3>5. Clear(r, Git, Referenced, tip) BY <2>3, <3>1 DEF Clear
            <3> QED BY <1>2, <2>1, <3>4, <3>5
        <2> QED BY <1>6, <2>2, <2>3 DEF Revisions
    <1>7. Turned /\ Kept BY <1>4, <1>5, <1>6
    <1>8. UNCHANGED <<heads, kept, tip, objs, dirty>> BY <1>1 DEF remote, project
    <1>9. Shelves' /\ Work' BY <1>1 DEF Inv, Shelves, Work, Frozen, project
    <1>10. Built(commit', Git, known'.us) BY <1>1, <1>2, <1>7, BuiltGrows
    <1> QED BY <1>1, <1>7, <1>8, <1>9, <1>10, PrunerFrame

\* A prune removes with the project clean: no commit is in flight, and no other prune
\* is past its admission.
LEMMA RemovalFrame ==
    ASSUME Inv, NEW q \in Pruners, pr[q].pc \in Fenced, NEW r, Turns(q, r),
           UNCHANGED <<scene, heads, project, commit, answer, up, pool>>,
           kept' \in 1..Len(heads), ~Git => kept' = 1,
           tip' \in Nat, (kept' = kept /\ tip' >= tip) \/ tip' > tip, seen' \in 1..tip',
           Referenced' \subseteq objs', known'.us \subseteq objs', DOMAIN known' = Hubs,
           Clear(r, Git, Referenced', tip')
    PROVE  Inv'
    <1>1. Alone' BY TurnAlone DEF project
    <1>2. Branch' BY DEF Inv, Branch, Git
    <1>3. Calls' BY DEF Inv, Calls, Turns
    <1>4. Work' /\ Shelves' BY DEF Inv, Work, Frozen, Shelves, project
    <1>5. fence = q /\ ~dirty BY DEF Inv, Alone, PruneAlone, Fenced
    <1>6. Built(commit', Git, known'.us)
        <2>1. commit.pc = "idle" BY <1>5 DEF Inv, Work
        <2> QED BY <2>1 DEF Built
    <1>7. ASSUME NEW p \in Pruners PROVE Clear(pr'[p], Git, Referenced', tip')
        <2>1. CASE p = q BY <2>1 DEF Turns
        <2>2. CASE p # q
            <3>1. pr'[p] = pr[p] /\ pr[p].pc \notin Fenced
                BY <1>5, <2>2 DEF Turns, Inv, Alone, PruneAlone, Fenced
            <3> QED BY <3>1 DEF Clear, Fenced
        <2> QED BY <2>1, <2>2
    <1>8. ASSUME NEW w \in Writers PROVE Rolled(up[w], Git, tip', kept')
        <2>1. Rolled(up[w], Git, tip, kept) /\ tip \in Nat BY DEF Inv, Index, Branch
        <2> QED BY <2>1, RolledKept
    <1>9. Index' BY <1>6, <1>7, <1>8 DEF Index, IndexReadable, Git
    <1> QED BY <1>1, <1>2, <1>3, <1>4, <1>9 DEF Inv

LEMMA Forgotten ==
    ASSUME Branch, NEW S, Forgets(S)
    PROVE  DOMAIN known' = Hubs /\ known'.us = known.us \ S
    BY DEF Branch, Hubs, Forgets

LEMMA ObjectsRemoved ==
    ASSUME Inv, NEW q \in Pruners, RemoveByCommit(q) \/ RemoveByObject(q)
    PROVE  Inv'
    <1>1. UNCHANGED <<scene, heads, kept, project, commit, answer, up, pool>> /\ pr[q].pc = "remove"
        BY DEF RemoveByCommit, RemoveByObject, In
    <1>2. /\ PrunerRecord(pr[q]) /\ known.us \subseteq objs /\ seen \in 1..tip /\ tip \in Nat /\ Referenced \subseteq objs
          /\ kept \in 1..Len(heads) /\ (~Git => kept = 1) /\ Clear(pr[q], Git, Referenced, tip) /\ Branch
          /\ DOMAIN known = Hubs
        BY DEF Inv, Calls, Index, IndexReadable, Branch
    <1>3. pr[q].pc \in Fenced BY <1>1 DEF Fenced
    <1>4. Referenced' = Referenced BY <1>1, StillReferenced
    <1>5. CASE RemoveByCommit(q) /\ HeadStands(q)
        <2>1. /\ objs' = objs \ pr[q].orphans /\ tip' = tip + 1 /\ seen' = tip + 1
              /\ Forgets(pr[q].orphans) /\ StageEnds(q) /\ Git
            BY <1>5 DEF RemoveByCommit
        <2>2. pr[q].orphans \cap Referenced = {} BY <1>1, <1>2, <1>5, <2>1 DEF Clear, HeadStands
        <2>3. Referenced' \subseteq objs' BY <1>2, <1>4, <2>1, <2>2
        <2>4. known'.us \subseteq objs' /\ DOMAIN known' = Hubs BY <1>2, <2>1, Forgotten
        <2>5. PICK r : Turns(q, r) /\ r.pc \in Harmless BY <1>1, <2>1, StageTurns
        <2>6. Clear(r, Git, Referenced', tip') BY <2>5, HarmlessClear
        <2>7. tip' \in Nat /\ tip' > tip /\ seen' \in 1..tip' /\ tip' >= tip BY <1>2, <2>1
        <2> QED BY <1>1, <1>2, <1>3, <2>3, <2>4, <2>5, <2>6, <2>7, RemovalFrame
    <1>6. CASE RemoveByCommit(q) /\ ~HeadStands(q)
        <2>1. Quits(q, FALSE) /\ UNCHANGED <<objs, tip, seen, known>> BY <1>6 DEF RemoveByCommit
        <2>2. PICK r : Turns(q, r) /\ r.pc \in Harmless BY <2>1, QuitTurns
        <2>3. Clear(r, Git, Referenced', tip') BY <2>2, HarmlessClear
        <2>4. kept' = kept /\ tip' >= tip BY <1>1, <1>2, <2>1
        <2> QED BY <1>1, <1>2, <1>3, <1>4, <2>1, <2>2, <2>3, <2>4, RemovalFrame
    <1>7. CASE RemoveByObject(q)
        <2> DEFINE o == CHOOSE x \in pr[q].orphans : TRUE
        <2>1. objs' = objs \ {o} /\ Forgets({o}) /\ UNCHANGED <<tip, seen>> /\ ~Git BY <1>7 DEF RemoveByObject
        <2>2. o \in pr[q].orphans /\ pr[q].orphans \cap Referenced = {}
            BY <1>1, <1>2, <2>1 DEF Clear
        <2>3. \/ pr[q].orphans = {o} /\ StageEnds(q)
              \/ pr[q].orphans # {o} /\ Now(q, [pr[q] EXCEPT !.orphans = @ \ {o}]) /\ fence' = fence
            BY <1>7 DEF RemoveByObject
        <2> HIDE DEF o
        <2>4. Referenced' \subseteq objs' BY <1>2, <1>4, <2>1, <2>2
        <2>5. known'.us \subseteq objs' /\ DOMAIN known' = Hubs BY <1>2, <2>1, Forgotten
        <2>6. \E r : Turns(q, r) /\ Clear(r, Git, Referenced', tip')
            <3>1. CASE StageEnds(q) BY <1>1, <3>1, StageTurns, HarmlessClear
            <3>2. CASE pr[q].orphans # {o} /\ Now(q, [pr[q] EXCEPT !.orphans = @ \ {o}]) /\ fence' = fence
                <4> DEFINE r == [pr[q] EXCEPT !.orphans = @ \ {o}]
                <4>1. /\ PrunerRecord(r) /\ r.pc = "remove" /\ r.held = pr[q].held /\ r.todo = pr[q].todo
                      /\ r.orphans = pr[q].orphans \ {o}
                    BY <1>1, <1>2 DEF PrunerRecord
                <4>2. Now(q, r) /\ fence' = fence BY <3>2
                <4> HIDE DEF r
                <4>3. Queue(r) BY <1>1, <4>1 DEF Queue, Inv, Alone
                <4>4. Turns(q, r) BY <1>3, <4>1, <4>2, <4>3, MoveTurns
                <4>5. r.orphans # {} /\ r.orphans \cap Referenced' = {} BY <1>4, <2>2, <3>2, <4>1
                <4>6. Clear(r, Git, Referenced', tip') BY <2>1, <4>1, <4>5 DEF Clear
                <4> QED BY <4>4, <4>6
            <3> QED BY <2>3, <3>1, <3>2
        <2>7. kept' = kept /\ tip' >= tip /\ tip' \in Nat /\ seen' \in 1..tip' BY <1>1, <1>2, <2>1
        <2> QED BY <1>1, <1>2, <1>3, <2>4, <2>5, <2>6, <2>7, RemovalFrame
    <1> QED BY <1>5, <1>6, <1>7

LEMMA RemovalFails ==
    ASSUME Inv, Shut, NEW q \in Pruners, RemoveFails(q)
    PROVE  Inv'
    <1>1. UNCHANGED <<scene, heads, kept, objs, tip, known, project, seen, commit, answer, pool, up>>
        BY DEF RemoveFails, Shut, Open
    <1>2. Quits(q, FALSE) BY DEF RemoveFails
    <1>3. \E r : Turns(q, r) /\ Clear(r, Git, Referenced, tip) BY <1>2, QuitTurns, HarmlessClear
    <1>4. Shelves' /\ UNCHANGED remote BY <1>1 DEF Inv, Shelves, remote
    <1> QED BY <1>1, <1>3, <1>4, PrunerQuietFrame

LEMMA HistorySquashed ==
    ASSUME Inv, NEW q \in Pruners, Squash(q)
    PROVE  Inv'
    <1>1. UNCHANGED <<scene, heads, objs, known, project, commit, answer, up, pool>> /\ pr[q].pc = "squash"
        BY DEF Squash, In
    <1>2. /\ known.us \subseteq objs /\ seen \in 1..tip /\ tip \in Nat /\ Referenced \subseteq objs /\ DOMAIN known = Hubs
          /\ kept \in 1..Len(heads) /\ Git /\ Len(heads) \in Nat
        BY <1>1, Appended DEF Inv, Index, IndexReadable, Branch, Clear
    <1>3. pr[q].pc \in Fenced BY <1>1 DEF Fenced
    <1>4. CASE HeadStands(q)
        <2>1. kept' = Len(heads) /\ tip' = tip + 1 /\ seen' = tip + 1 /\ StageEnds(q) BY <1>4 DEF Squash
        <2>2. Retained' \subseteq Retained
            <3>1. kept'..Len(heads) \subseteq kept..Len(heads) BY <1>2, <2>1
            <3> QED BY <1>1, <3>1 DEF Retained
        <2>3. Referenced' \subseteq Referenced BY <2>2 DEF Referenced, Objects
        <2>4. PICK r : Turns(q, r) /\ r.pc \in Harmless BY <1>1, <2>1, StageTurns
        <2>5. Clear(r, Git, Referenced', tip') BY <2>4, HarmlessClear
        <2>6. kept' \in 1..Len(heads) /\ tip' \in Nat /\ tip' > tip /\ seen' \in 1..tip' BY <1>2, <2>1
        <2> QED BY <1>1, <1>2, <1>3, <2>3, <2>4, <2>5, <2>6, RemovalFrame
    <1>5. CASE ~HeadStands(q)
        <2>1. Quits(q, FALSE) /\ UNCHANGED <<kept, tip, seen>> BY <1>5 DEF Squash
        <2>2. PICK r : Turns(q, r) /\ r.pc \in Harmless BY <2>1, QuitTurns
        <2>3. Clear(r, Git, Referenced', tip') BY <2>2, HarmlessClear
        <2>4. Referenced' = Referenced BY <1>1, <2>1, StillReferenced
        <2>5. kept' = kept /\ tip' >= tip BY <1>2, <2>1
        <2> QED BY <1>1, <1>2, <1>3, <2>1, <2>2, <2>3, <2>4, <2>5, RemovalFrame
    <1> QED BY <1>4, <1>5

LEMMA PrunerKeeps ==
    ASSUME Inv, Shut, NEW q \in Pruners, Arrives(q) \/ PrunerStep(q)
    PROVE  Inv'
    BY PrunerQuiet, PrunerLoads, PrunerCommits, ObjectsLists, ObjectsRemoved, HistorySquashed DEF PrunerStep

LEMMA ReEnabled ==
    ASSUME Inv, ReEnable, UNCHANGED pr
    PROVE  Inv'
    <1>1. UNCHANGED <<scene, remote, known, project, seen, commit, answer, pool, fence, up, pr>> BY DEF ReEnable
    <1>2. UNCHANGED <<heads, kept, tip, objs>> BY <1>1 DEF remote
    <1>3. Calls' /\ Shelves' /\ Work' /\ InFlight' = InFlight
        BY <1>1 DEF Inv, Calls, Shelves, Work, Frozen, project, InFlight, Between
    <1>4. (\E q \in Pruners : pr[q].pc \in Fenced) => ~dirty' /\ ~InFlight'
        BY <1>1, <1>3 DEF Inv, Alone, PruneAlone, Fenced, project
    <1> QED BY <1>1, <1>2, <1>3, <1>4, ProjectFrame DEF Inv, Index, Branch

-----------------------------------------------------------------------------
(* The invariant is inductive, and what follows.                           *)

LEMMA NextInv ==
    ASSUME Shut, Inv, [Next]_vars
    PROVE  Inv'
    <1>1. CASE CommitStep BY <1>1, CommitQuiet, CommitPushes DEF CommitStep
    <1>2. CASE Faults
        <2>1. CASE CommitFails(TRUE) /\ UNCHANGED <<poolVars, pr>> BY <2>1, CommitQuiet
        <2>2. CASE ForeignCommit(ForeignMay) /\ UNCHANGED <<poolVars, pr>> BY <2>2, ForeignCommits
        <2>3. CASE ReEnable /\ UNCHANGED pr BY <2>3, ReEnabled
        <2>4. CASE \E q \in Pruners : DeleteFails(q) \/ RemoveFails(q) BY <2>4, PrunerQuiet, RemovalFails
        <2> QED BY <1>2, <2>1, <2>2, <2>3, <2>4 DEF Faults
    <1>3. CASE \E w \in Writers : Writes(w) BY <1>3, WriterKeeps DEF Writes
    <1>4. CASE \E q \in Pruners : Arrives(q) \/ PrunerStep(q) BY <1>4, PrunerKeeps
    <1>5. CASE UNCHANGED vars
        <2>1. UNCHANGED <<scene, remote, known, project, seen, commit, answer, pool, fence, up, pr>>
            BY <1>5 DEF vars, storeVars, poolVars
        <2>2. UNCHANGED <<heads, kept, tip, objs>> BY <2>1 DEF remote
        <2>3. Calls' /\ Shelves' /\ Work' /\ InFlight' = InFlight
            BY <2>1 DEF Inv, Calls, Shelves, Work, Frozen, project, InFlight, Between
        <2>4. (\E q \in Pruners : pr[q].pc \in Fenced) => ~dirty' /\ ~InFlight'
            BY <2>1, <2>3 DEF Inv, Alone, PruneAlone, Fenced, project
        <2> QED BY <2>1, <2>2, <2>3, <2>4, ProjectFrame DEF Inv, Index, Branch
    <1> QED BY <1>1, <1>2, <1>3, <1>4, <1>5 DEF Next

\* A prune never takes an object that a retained revision reaches, and from its first
\* look to its last deletion it has the project to itself (pruneObjects, pruneFence,
\* runPruneAssets): whatever the plans of the verbs, prunes and other hub, as long as no
\* verb is under way when a prune begins, the other hub keeps out of what an objects
\* prune compares, its cache is not trusted for what was deleted, and no reply to a
\* removal is lost.  The index may change between an asset's check and its deletion.
THEOREM PruneAlwaysSafe ==
    ASSUME Shut
    PROVE  Spec => []PruneSafe
    <1>1. Init => Inv BY InitInv
    <1>2. Inv /\ [Next]_vars => Inv' BY NextInv
    <1>3. Inv => PruneSafe BY InvSafe
    <1> QED BY <1>1, <1>2, <1>3, PTL DEF Spec
=============================================================================
