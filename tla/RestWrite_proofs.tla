-------------------------- MODULE RestWrite_proofs --------------------------
(***************************************************************************)
(* Proofs about RestWrite, for any number of requests, paths, commits by   *)
(* other hubs and failures: what a revision is worth, what stays once      *)
(* it is committed, what a request leaves behind and what it has seen.     *)
(***************************************************************************)
EXTENDS RestWrite, TLAPS

(* The invariant.  Structure is about the tree, the remote and what is in   *)
(* flight between them; Used about the gate; Verified about the verbs that  *)
(* a fresh load let through.                                               *)

IsSeq(s) == \E S : s \in Seq(S)

USE DEF treeVars

\* A token spent on nothing changes nothing else.
still == <<log, tree, base, sha, spent, hist, commit, flight, left, clientVars, pc, handlerVars>>
Works ==
    \/ FlightLands \/ Applied \/ Failed
    \/ (CommitBegins(Loop) \/ CommitPublishes \/ CommitRebases) /\ UNCHANGED <<clientVars, pc, handlerVars>>

LEMMA NextCases ==
    ASSUME [Next]_vars
    PROVE  UNCHANGED still \/ (\E r \in Requests : Handle(r)) \/ Works \/ Peers
    BY DEF Next, Background, LoopWakes, AllDone, Works, still, vars, gateVars

Tree == [Paths -> Nat]
Logged(t) == \A p \in Paths : t[p] <= Len(log)

Shapes ==
    /\ IsSeq(log)
    /\ tree \in Tree /\ base \in Tree
    /\ hist \in Seq(Tree)
    /\ sha \in Nat
    /\ commit \in [pc : {"idle", "publish", "apply"}, tree : Tree \cup {<<>>},
                   work : Tree \cup {<<>>}, prev : Nat,
                   by : Requests \cup {Nobody, Peer, Loop}, tries : Nat]
    /\ flight \in [on : BOOLEAN, sha : Nat, tree : Tree \cup {<<>>}, for : SUBSET Requests]
    /\ \A r \in Requests : Path(r) \in Paths /\ req[r].to \in Paths

\* Every tree is made of versions that were published.
Versions ==
    /\ Logged(tree) /\ Logged(base)
    /\ \A h \in 1..Len(hist) : Logged(hist[h])
    /\ commit.pc # "idle" =>
          /\ commit.tree \in Tree /\ Logged(commit.tree)
          /\ commit.work \in Tree /\ Logged(commit.work)
    /\ flight.on => flight.tree \in Tree /\ Logged(flight.tree)

\* A commit takes the revision forward, no load is stored while one runs; with
\* "staleload" shut a load will not take the revision back.
Forward ==
    /\ 1 <= sha /\ sha <= Len(hist)
    /\ commit.pc # "idle" => Dirty
    /\ commit.pc = "apply" => sha < commit.prev /\ commit.prev <= Len(hist)
    /\ flight.on =>
          /\ 1 <= flight.sha /\ flight.sha <= Len(hist)
          /\ "staleload" \notin Races =>
                sha <= flight.sha /\ (commit.pc = "apply" => commit.prev <= flight.sha)

Structure == Shapes /\ Versions /\ Forward

\* The revision that was used last is the latest one that was used at all, and no
\* load on its way is older: a load that started before it would have been joined
\* by the request that used it.
Used ==
    /\ spent \in Nat /\ spent <= sha
    /\ flight.on => spent <= flight.sha
    /\ admitted \subseteq Requests \X Nat
    /\ \A a \in admitted : a[2] <= spent
    /\ OneWinner

Stages == {"read", "header", "sent", "place", "replace-link", "verb", "flying", "load", "apply",
           "cleanup", "drain", "round", "respond", "done"}

\* A verb past its fresh load declares nothing that a later load has not seen.
Verified ==
    /\ gate \in [Requests -> Nat] /\ pc \in [Requests -> Stages]
    /\ \A r \in Requests : gate[r] <= Len(hist)
    /\ flight.on => \A r \in Requests : pc[r] \in {"load", "apply"} => gate[r] <= flight.sha

-----------------------------------------------------------------------------
(* The log grows.                                                           *)

LEMMA Extended ==
    ASSUME NEW s, IsSeq(s), NEW t, IsSeq(t)
    PROVE  IsSeq(s \o t) /\ Len(s \o t) = Len(s) + Len(t) /\ Len(s) \in Nat /\ Len(t) \in Nat
    <1>1. PICK S : s \in Seq(S) BY DEF IsSeq
    <1>2. PICK T : t \in Seq(T) BY DEF IsSeq
    <1>3. s \in Seq(S \cup T) /\ t \in Seq(S \cup T) BY <1>1, <1>2
    <1>4. s \o t \in Seq(S \cup T) BY <1>3
    <1> QED BY <1>3, <1>4 DEF IsSeq

LEMMA Appended ==
    ASSUME NEW s, IsSeq(s), NEW e
    PROVE  IsSeq(Append(s, e)) /\ Len(Append(s, e)) = Len(s) + 1 /\ Len(s) \in Nat
    <1>1. PICK S : s \in Seq(S) BY DEF IsSeq
    <1>2. s \in Seq(S \cup {e}) BY <1>1
    <1>3. Append(s, e) \in Seq(S \cup {e}) BY <1>2
    <1> QED BY <1>2, <1>3 DEF IsSeq

\* A transaction puts versions into the tree that no other tree holds.
Puts ==
    /\ IsSeq(log') /\ Len(log) \in Nat /\ Len(log') \in Nat /\ Len(log) <= Len(log')
    /\ tree' \in Tree /\ (\A p \in Paths : tree'[p] <= Len(log')) /\ tree' # base

LEMMA PublishPuts ==
    ASSUME Structure, NEW r, NEW p \in Paths, NEW kind, NEW size, NEW from,
           Publish(r, p, kind, size, from)
    PROVE  Puts
    <1> DEFINE e == [by |-> r, kind |-> kind, size |-> size, from |-> from, over |-> tree[p]]
    <1>1. log' = Append(log, e) /\ tree' = [tree EXCEPT ![p] = Len(log) + 1]
        BY DEF Publish
    <1>2. IsSeq(log') /\ Len(log') = Len(log) + 1 /\ Len(log) \in Nat
        BY <1>1, Appended DEF Structure, Shapes
    <1>3. tree \in Tree /\ base \in Tree /\ \A q \in Paths : tree[q] <= Len(log) /\ base[q] <= Len(log)
        BY DEF Structure, Shapes, Versions, Logged
    <1>4. tree' \in Tree /\ \A q \in Paths : tree'[q] <= Len(log')
        BY <1>1, <1>2, <1>3 DEF Tree
    <1>5. tree'[p] # base[p] BY <1>1, <1>2, <1>3 DEF Tree
    <1> QED BY <1>2, <1>4, <1>5 DEF Puts

LEMMA RenamePuts ==
    ASSUME Structure, NEW r \in Requests, Rename(r)
    PROVE  Puts
    <1> DEFINE one == [by |-> r, kind |-> "gone", size |-> 0, from |-> 0, over |-> Here(r)]
               two == [by |-> r, kind |-> log[Here(r)].kind, size |-> Size(Here(r)),
                       from |-> 0, over |-> tree[req[r].to]]
               p == Path(r)
               q == req[r].to
    <1>1. log' = log \o <<one, two>>
          /\ tree' = [tree EXCEPT ![p] = Len(log) + 1, ![q] = Len(log) + 2]
        BY DEF Rename
    <1>2. p \in Paths /\ q \in Paths BY DEF Structure, Shapes
    <1> HIDE DEF one, two, p, q
    <1>3. IsSeq(<<one, two>>) /\ Len(<<one, two>>) = 2
        <2>1. <<one, two>> \in Seq({one, two}) OBVIOUS
        <2> QED BY <2>1 DEF IsSeq
    <1>4. IsSeq(log') /\ Len(log') = Len(log) + 2 /\ Len(log) \in Nat
        BY <1>1, <1>3, Extended DEF Structure, Shapes
    <1>5. tree \in Tree /\ base \in Tree /\ \A x \in Paths : tree[x] <= Len(log) /\ base[x] <= Len(log)
        BY DEF Structure, Shapes, Versions, Logged
    <1>6. tree' = [x \in Paths |-> IF x = q THEN Len(log) + 2
                                   ELSE IF x = p THEN Len(log) + 1 ELSE tree[x]]
        BY <1>1, <1>2, <1>5 DEF Tree
    <1>7. tree' \in Tree BY <1>4, <1>5, <1>6 DEF Tree
    <1>8. \A x \in Paths : tree'[x] <= Len(log') BY <1>4, <1>5, <1>6 DEF Tree
    <1>9. tree'[q] # base[q] BY <1>2, <1>4, <1>5, <1>6 DEF Tree
    <1> QED BY <1>4, <1>7, <1>8, <1>9 DEF Puts

LEMMA EffectPuts ==
    ASSUME Structure, NEW r \in Requests, Effect(r)
    PROVE  Puts
    <1>1. Path(r) \in Paths /\ req[r].to \in Paths BY DEF Structure, Shapes
    <1>2. CASE Rename(r) BY <1>2, RenamePuts
    <1>3. CASE ZeroExtend(r) BY <1>1, <1>3, PublishPuts DEF ZeroExtend
    <1>4. CASE WriteAt(r) BY <1>1, <1>4, PublishPuts DEF WriteAt
    <1>5. CASE AppendFile(r) BY <1>1, <1>5, PublishPuts DEF AppendFile
    <1>6. CASE ReplaceFile(r) BY <1>1, <1>6, PublishPuts DEF ReplaceFile
    <1>7. CASE CreateFile(r) BY <1>1, <1>7, PublishPuts DEF CreateFile
    <1>8. CASE Chmod(r) BY <1>1, <1>8, PublishPuts DEF Chmod
    <1>9. CASE Copy(r) BY <1>1, <1>9, PublishPuts DEF Copy
    <1>10. CASE DeleteFile(r) BY <1>1, <1>10, PublishPuts DEF DeleteFile
    <1> QED BY <1>2, <1>3, <1>4, <1>5, <1>6, <1>7, <1>8, <1>9, <1>10 DEF Effect

-----------------------------------------------------------------------------
(* Structure, action by action.                                             *)

projectVars == <<log, tree, base, sha, hist, commit, flight, req>>

LEMMA StillKeeps ==
    ASSUME Structure, UNCHANGED projectVars
    PROVE  Structure'
    BY DEF Structure, Shapes, Versions, Forward, Logged, Dirty, Path, projectVars

LEMMA PutsKeep ==
    ASSUME Structure, Puts, UNCHANGED <<base, sha, hist, commit, flight, req>>
    PROVE  Structure' /\ Dirty'
    <1>1. Shapes' BY DEF Structure, Shapes, Puts, Path
    <1>2. \A t \in Tree : Logged(t) => Logged(t)'
        BY DEF Puts, Logged, Tree
    <1>3. Logged(tree)' BY DEF Puts, Logged
    <1>4. Versions'
        <2>1. Logged(base)' BY <1>2 DEF Structure, Shapes, Versions, Logged
        <2>2. \A h \in 1..Len(hist) : Logged(hist[h])'
            <3>1. \A h \in 1..Len(hist) : hist[h] \in Tree /\ Logged(hist[h])
                BY DEF Structure, Shapes, Versions
            <3> QED BY <1>2, <3>1 DEF Logged
        <2>3. commit.pc # "idle" =>
                 /\ commit.tree \in Tree /\ Logged(commit.tree)'
                 /\ commit.work \in Tree /\ Logged(commit.work)'
            BY <1>2 DEF Structure, Versions, Logged
        <2>4. flight.on => flight.tree \in Tree /\ Logged(flight.tree)'
            BY <1>2 DEF Structure, Versions, Logged
        <2> QED BY <1>3, <2>1, <2>2, <2>3, <2>4 DEF Versions, Logged
    <1>5. Dirty' BY DEF Puts, Dirty
    <1> QED BY <1>1, <1>4, <1>5 DEF Structure, Forward

\* A load reads the head, or is joined on its way.
LEMMA EnforceKeeps ==
    ASSUME Structure, NEW r \in Requests, Enforce(r)
    PROVE  Structure'
    <1>1. UNCHANGED <<log, tree, base, sha, hist, commit, req>> /\ FlightJoined(r)
        BY DEF Enforce, clientVars
    <1>2. Len(hist) \in Nat /\ hist[Len(hist)] \in Tree /\ Logged(hist[Len(hist)])
        BY DEF Structure, Shapes, Versions, Forward
    <1>3. CASE flight.on
        <2>1. flight' = [flight EXCEPT !.for = @ \cup {r}] BY <1>1, <1>3 DEF FlightJoined
        <2>2. flight' \in [on : BOOLEAN, sha : Nat, tree : Tree \cup {<<>>}, for : SUBSET Requests]
              /\ flight'.on = flight.on /\ flight'.sha = flight.sha /\ flight'.tree = flight.tree
            BY <2>1 DEF Structure, Shapes
        <2> QED BY <1>1, <2>2 DEF Structure, Shapes, Versions, Forward, Logged, Dirty, Path
    <1>4. CASE ~flight.on
        <2>1. flight' = [on |-> TRUE, sha |-> Len(hist), tree |-> hist[Len(hist)], for |-> {r}]
            BY <1>1, <1>4 DEF FlightJoined, Tip
        <2>2. flight' \in [on : BOOLEAN, sha : Nat, tree : Tree \cup {<<>>}, for : SUBSET Requests]
            BY <1>2, <2>1
        <2> QED BY <1>1, <1>2, <2>1, <2>2 DEF Structure, Shapes, Versions, Forward, Logged, Dirty, Path
    <1> QED BY <1>3, <1>4

\* A load lands over a clean tree only, while no commit is on its way.
LEMMA LandsKeep ==
    ASSUME Structure, FlightLands
    PROVE  Structure' /\ ~flight'.on /\ (IF Dirty THEN UNCHANGED <<tree, base, sha>> ELSE sha' = flight.sha)
    <1>1. flight.on /\ Store /\ flight' = NoFlight /\ UNCHANGED <<log, hist, commit, req>>
        BY DEF FlightLands, clientVars
    <1>2. flight' \in [on : BOOLEAN, sha : Nat, tree : Tree \cup {<<>>}, for : SUBSET Requests]
          /\ ~flight'.on
        BY <1>1 DEF NoFlight
    <1>3. CASE Dirty
        BY <1>1, <1>2, <1>3 DEF Store, Structure, Shapes, Versions, Forward, Logged, Dirty, Path
    <1>4. CASE ~Dirty
        <2>1. tree' = flight.tree /\ base' = flight.tree /\ sha' = flight.sha
            BY <1>1, <1>4 DEF Store
        <2>2. commit.pc = "idle" BY <1>4 DEF Structure, Forward
        <2> QED BY <1>1, <1>2, <1>4, <2>1, <2>2
                DEF Structure, Shapes, Versions, Forward, Logged, Dirty, Path
    <1> QED BY <1>3, <1>4

CommitShape ==
    [pc : {"idle", "publish", "apply"}, tree : Tree \cup {<<>>}, work : Tree \cup {<<>>},
     prev : Nat, by : Requests \cup {Nobody, Peer, Loop}, tries : Nat]

LEMMA BeginsKeep ==
    ASSUME Structure, NEW who \in Requests \cup {Loop}, CommitBegins(who), UNCHANGED req
    PROVE  Structure' /\ UNCHANGED <<tree, base, sha>>
    <1>1. commit' = [pc |-> "publish", tree |-> tree, work |-> tree, prev |-> sha, by |-> who, tries |-> 1]
          /\ Dirty /\ UNCHANGED <<log, tree, base, sha, hist, flight>>
        BY DEF CommitBegins
    <1>2. commit' \in CommitShape BY <1>1 DEF CommitShape, Structure, Shapes
    <1> QED BY <1>1, <1>2 DEF CommitShape, Structure, Shapes, Versions, Forward, Logged, Dirty, Path

\* With "staleload" shut no load is on its way when a revision is published.
LEMMA PublishesKeep ==
    ASSUME Structure, CommitPublishes, UNCHANGED req
    PROVE  Structure' /\ UNCHANGED <<tree, base, sha>>
    <1>1. /\ commit.pc = "publish" /\ ("staleload" \in Races \/ ~flight.on)
          /\ hist' = Append(hist, commit.work)
          /\ commit' = [commit EXCEPT !.pc = "apply", !.prev = Len(hist) + 1]
          /\ UNCHANGED <<log, tree, base, sha, flight>>
        BY DEF CommitPublishes, Tip
    <1>2. hist \in Seq(Tree) /\ commit.work \in Tree /\ Len(hist) \in Nat
        BY <1>1 DEF Structure, Shapes, Versions
    <1>3. hist' \in Seq(Tree) /\ Len(hist') = Len(hist) + 1
          /\ \A h \in 1..Len(hist') : hist'[h] = IF h <= Len(hist) THEN hist[h] ELSE commit.work
        BY <1>1, <1>2
    <1>4. \A h \in 1..Len(hist') : Logged(hist'[h])
        BY <1>1, <1>2, <1>3 DEF Structure, Versions
    <1>5. /\ commit' \in CommitShape /\ commit'.pc = "apply" /\ commit'.prev = Len(hist) + 1
          /\ commit'.tree = commit.tree /\ commit'.work = commit.work
        <2>1. commit \in CommitShape BY DEF CommitShape, Structure, Shapes
        <2>2. commit' = [pc |-> "apply", tree |-> commit.tree, work |-> commit.work,
                         prev |-> Len(hist) + 1, by |-> commit.by,
                         tries |-> commit.tries]
            BY <1>1, <2>1 DEF CommitShape
        <2>3. Len(hist) + 1 \in Nat BY <1>2
        <2> QED BY <2>1, <2>2, <2>3 DEF CommitShape
    <1>6. Shapes' BY <1>1, <1>3, <1>5 DEF CommitShape, Structure, Shapes, Path
    <1>7. Versions' BY <1>1, <1>4, <1>5 DEF Structure, Versions, Logged
    <1>8. Forward' BY <1>1, <1>2, <1>3, <1>5 DEF Structure, Shapes, Forward, Dirty
    <1> QED BY <1>1, <1>6, <1>7, <1>8 DEF Structure

LEMMA RebasesKeep ==
    ASSUME Structure, CommitRebases, UNCHANGED req
    PROVE  Structure' /\ UNCHANGED <<tree, base, sha>>
    <1> DEFINE work == [p \in Paths |->
                   IF commit.tree[p] # base[p] /\ ~(hist[Tip][p] # base[p] /\ Exists(hist[Tip][p])
                                                    /\ hist[Tip][p] > commit.tree[p])
                   THEN commit.tree[p] ELSE hist[Tip][p]]
    <1>1. /\ commit.pc = "publish" /\ commit' = [commit EXCEPT !.prev = Tip, !.tries = @ + 1, !.work = work]
          /\ UNCHANGED <<log, tree, base, sha, hist, flight>>
        BY DEF CommitRebases
    <1>2. Tip \in 1..Len(hist) /\ hist[Tip] \in Tree /\ Logged(hist[Tip])
        BY DEF Tip, Structure, Shapes, Versions, Forward
    <1>3. commit.tree \in Tree /\ Logged(commit.tree) BY <1>1 DEF Structure, Versions
    <1>4. work \in Tree /\ Logged(work) BY <1>2, <1>3 DEF Tree, Logged
    <1> HIDE DEF work
    <1>5. /\ commit' \in CommitShape /\ commit'.pc = "publish" /\ commit'.prev = Tip
          /\ commit'.tree = commit.tree /\ commit'.work = work
        <2>1. commit \in CommitShape BY DEF CommitShape, Structure, Shapes
        <2>2. commit' = [pc |-> "publish", tree |-> commit.tree, work |-> work,
                         prev |-> Tip, by |-> commit.by,
                         tries |-> commit.tries + 1]
            BY <1>1, <2>1 DEF CommitShape
        <2>3. Tip \in Nat BY <1>2
        <2> QED BY <1>4, <2>1, <2>2, <2>3 DEF CommitShape
    <1>6. Shapes' BY <1>1, <1>5 DEF CommitShape, Structure, Shapes, Path
    <1>7. Versions' BY <1>1, <1>3, <1>4, <1>5 DEF Structure, Versions, Logged
    <1>8. Forward' BY <1>1, <1>5 DEF Structure, Forward, Dirty
    <1> QED BY <1>1, <1>6, <1>7, <1>8 DEF Structure
\* A commit is applied: the revision goes forward, the tree keeps what was put into
\* it since the freeze.
LEMMA AppliesKeep ==
    ASSUME Structure, CommitApplies, UNCHANGED req
    PROVE  Structure' /\ sha < sha'
    <1> DEFINE kept == [p \in Paths |-> IF tree[p] # commit.tree[p] THEN tree[p] ELSE commit.work[p]]
    <1>1. /\ commit.pc = "apply" /\ sha' = commit.prev /\ base' = commit.work /\ tree' = kept
          /\ commit' = NoCommit /\ UNCHANGED <<log, hist, flight>>
        BY DEF CommitApplies
    <1>2. /\ tree \in Tree /\ Logged(tree) /\ commit.work \in Tree /\ Logged(commit.work)
          /\ commit.prev \in Nat /\ sha \in Nat
        BY <1>1 DEF Structure, Shapes, Versions
    <1>3. kept \in Tree /\ Logged(kept) BY <1>2 DEF Tree, Logged
    <1> HIDE DEF kept
    <1>4. commit' \in CommitShape /\ commit'.pc = "idle" BY <1>1 DEF NoCommit, CommitShape
    <1>5. Shapes' BY <1>1, <1>2, <1>3, <1>4 DEF CommitShape, Structure, Shapes, Path
    <1>6. Versions' BY <1>1, <1>2, <1>3, <1>4 DEF Structure, Versions, Logged
    <1>7. Forward' /\ sha < sha' BY <1>1, <1>2, <1>4 DEF Structure, Forward
    <1> QED BY <1>5, <1>6, <1>7 DEF Structure

LEMMA FailsKeep ==
    ASSUME Structure, PushFails, UNCHANGED req
    PROVE  Structure' /\ UNCHANGED <<tree, base, sha>>
    <1>1. commit' = NoCommit /\ UNCHANGED <<log, tree, base, sha, hist, flight>>
        BY DEF PushFails
    <1>2. commit' \in CommitShape /\ commit'.pc = "idle" BY <1>1 DEF NoCommit, CommitShape
    <1> QED BY <1>1, <1>2 DEF CommitShape, Structure, Shapes, Versions, Forward, Logged, Dirty, Path

\* Another hub commits: the tree and the revision cached here stay.
LEMMA PeersKeep ==
    ASSUME Structure, NEW p \in Paths, PeerCommits(p), UNCHANGED req
    PROVE  Structure' /\ UNCHANGED <<tree, base, sha>>
    <1> DEFINE v == [by |-> Peer, kind |-> "file", size |-> 1, from |-> 0, over |-> hist[Tip][p]]
               new == [hist[Tip] EXCEPT ![p] = Len(log) + 1]
    <1>1. /\ log' = Append(log, v) /\ hist' = Append(hist, new)
          /\ UNCHANGED <<tree, base, sha, commit, flight>>
        BY DEF PeerCommits
    <1> HIDE DEF v
    <1>2. IsSeq(log') /\ Len(log') = Len(log) + 1 /\ Len(log) \in Nat
        BY <1>1, Appended DEF Structure, Shapes
    <1>3. Tip \in 1..Len(hist) /\ hist[Tip] \in Tree /\ Logged(hist[Tip])
        BY DEF Tip, Structure, Shapes, Versions, Forward
    <1>4. new \in Tree /\ \A q \in Paths : new[q] <= Len(log')
        BY <1>1, <1>2, <1>3 DEF Tree, Logged
    <1> HIDE DEF new
    <1>5. \A t \in Tree : Logged(t) => \A q \in Paths : t[q] <= Len(log')
        BY <1>2 DEF Logged, Tree
    <1>6. hist \in Seq(Tree) /\ Len(hist) \in Nat BY DEF Structure, Shapes
    <1>7. hist' \in Seq(Tree) /\ Len(hist') = Len(hist) + 1
          /\ \A h \in 1..Len(hist') : hist'[h] = IF h <= Len(hist) THEN hist[h] ELSE new
        BY <1>1, <1>4, <1>6
    <1>8. \A h \in 1..Len(hist') : \A q \in Paths : hist'[h][q] <= Len(log')
        <2> SUFFICES ASSUME NEW h \in 1..Len(hist') PROVE \A q \in Paths : hist'[h][q] <= Len(log')
            OBVIOUS
        <2>1. CASE h <= Len(hist)
            <3>1. h \in 1..Len(hist) BY <1>6, <1>7, <2>1
            <3>2. hist[h] \in Tree /\ Logged(hist[h]) BY <1>6, <3>1 DEF Structure, Versions
            <3> QED BY <1>5, <1>7, <2>1, <3>2
        <2>2. CASE ~(h <= Len(hist)) BY <1>4, <1>7, <2>2
        <2> QED BY <2>1, <2>2
    <1>9. Shapes' BY <1>1, <1>2, <1>7 DEF Structure, Shapes, Path
    <1>10. Versions'
        <2>1. (Logged(tree) /\ Logged(base))' BY <1>1, <1>5 DEF Structure, Shapes, Versions, Logged
        <2>2. \A h \in 1..Len(hist') : Logged(hist[h])' BY <1>8 DEF Logged
        <2>3. commit.pc # "idle" =>
                 /\ commit.tree \in Tree /\ \A q \in Paths : commit.tree[q] <= Len(log')
                 /\ commit.work \in Tree /\ \A q \in Paths : commit.work[q] <= Len(log')
            BY <1>5 DEF Structure, Versions
        <2>4. flight.on => flight.tree \in Tree /\ \A q \in Paths : flight.tree[q] <= Len(log')
            BY <1>5 DEF Structure, Versions
        <2> QED BY <1>1, <2>1, <2>2, <2>3, <2>4 DEF Versions, Logged
    <1>11. Forward' BY <1>1, <1>6, <1>7 DEF Structure, Shapes, Forward, Dirty
    <1> QED BY <1>1, <1>9, <1>10, <1>11 DEF Structure

-----------------------------------------------------------------------------
(* The gate.                                                                *)

\* A step that does not use the gate.
LEMMA UsedKeeps ==
    ASSUME Used, UNCHANGED <<spent, admitted>>, spent <= sha', flight'.on => spent <= flight'.sha
    PROVE  Used'
    BY DEF Used, OneWinner

\* A request that is let through is the only one at its revision: what was used
\* before is older.
LEMMA AdmissionKeeps ==
    ASSUME Used, Verified, sha \in Nat, 1 <= sha, UNCHANGED <<sha, flight>>,
           NEW r \in Requests, pc[r] = "apply", GatePasses(gate[r]), Arm(gate[r]),
           admitted' = admitted \cup ({<<r, gate[r]>>} \ {<<r, 0>>})
    PROVE  Used'
    <1>1. CASE gate[r] = 0
        <2>1. admitted' = admitted /\ spent' = spent BY <1>1 DEF Arm
        <2> QED BY <2>1, UsedKeeps DEF Used
    <1>2. CASE gate[r] # 0
        <2>1. gate[r] = sha /\ spent # sha /\ spent' = sha /\ admitted' = admitted \cup {<<r, sha>>}
            BY <1>2 DEF GatePasses, Arm
        <2>2. \A a \in admitted : a[2] \in Nat /\ a[2] < sha BY <2>1 DEF Used
        <2>3. flight.on => sha <= flight.sha BY <2>1 DEF Verified
        <2>4. OneWinner' BY <2>1, <2>2 DEF Used, OneWinner
        <2>5. \A a \in admitted' : a[2] <= sha BY <2>1, <2>2
        <2>6. admitted' \subseteq Requests \X Nat BY <2>1 DEF Used
        <2> QED BY <2>1, <2>3, <2>4, <2>5, <2>6 DEF Used
    <1> QED BY <1>1, <1>2

\* What a step leaves behind.
Shut == "staleload" \notin Races /\ "spent" \notin Races
Kept == Structure' /\ Used' /\ (Shut /\ GateMeansPending => GateMeansPending')

\* A step that does not touch the tree and the revision; a load may begin, at the
\* head.
LEMMA IdleKept ==
    ASSUME Structure', Used, Structure, UNCHANGED <<tree, base, sha, spent, admitted>>,
           flight'.on => flight'.sha = Len(hist) \/ (flight.on /\ flight'.sha = flight.sha)
    PROVE  Kept
    <1>1. spent <= sha' /\ (flight'.on => spent <= flight'.sha)
        BY DEF Structure, Shapes, Forward, Used
    <1> QED BY <1>1, UsedKeeps DEF Kept, GateMeansPending, Dirty

\* A step that publishes without using the gate.
LEMMA PutsKept ==
    ASSUME Structure, Used, Puts,
           UNCHANGED <<base, sha, hist, commit, flight, req, spent, admitted>>
    PROVE  Kept
    BY UsedKeeps, PutsKeep DEF Kept, GateMeansPending, Used

LEMMA VerbKept ==
    ASSUME Structure, Used, Verified, NEW r \in Requests, Applies(r)
    PROVE  Kept
    <1>1. UNCHANGED <<base, sha, hist, commit, flight, req>> /\ pc[r] = "apply"
        BY DEF Applies, At, clientVars
    <1>2. sha \in Nat /\ 1 <= sha BY DEF Structure, Shapes, Forward
    <1>3. CASE UNCHANGED <<log, tree, spent, admitted>>
        BY <1>1, <1>3, StillKeeps, IdleKept DEF projectVars
    <1>4. CASE /\ GatePasses(gate[r]) /\ Arm(gate[r])
               /\ admitted' = admitted \cup ({<<r, gate[r]>>} \ {<<r, 0>>})
        <2>1. Used' BY <1>1, <1>2, <1>4, AdmissionKeeps
        <2>2. CASE UNCHANGED <<log, tree>> /\ (gate[r] = 0 \/ "spent" \in Races)
            <3>1. Structure' BY <1>1, <2>2, StillKeeps DEF projectVars
            <3>2. Shut => spent' = spent BY <1>4, <2>2 DEF Arm, Shut
            <3> QED BY <1>1, <2>1, <2>2, <3>1, <3>2 DEF Kept, GateMeansPending, Dirty
        <2>3. CASE Effect(r)
            <3>1. Structure' /\ Dirty' BY <1>1, <2>3, EffectPuts, PutsKeep
            <3> QED BY <2>1, <3>1 DEF Kept, GateMeansPending
        <2>4. \/ UNCHANGED <<log, tree>> /\ (gate[r] = 0 \/ "spent" \in Races)
              \/ Effect(r)
              \/ UNCHANGED <<log, tree, spent, admitted>>
            BY DEF Applies, Racing
        <2> QED BY <1>3, <2>2, <2>3, <2>4
    <1>5. \/ UNCHANGED <<log, tree, spent, admitted>>
          \/ /\ GatePasses(gate[r]) /\ Arm(gate[r])
             /\ admitted' = admitted \cup ({<<r, gate[r]>>} \ {<<r, 0>>})
        BY DEF Applies
    <1> QED BY <1>3, <1>4, <1>5

LEMMA PlaceKept ==
    ASSUME Structure, Used, NEW r \in Requests, Place(r) \/ PlaceOverLink(r) \/ Cleanup(r)
    PROVE  Kept
    <1>1. UNCHANGED <<base, sha, hist, commit, flight, req, spent, admitted>>
        BY DEF Place, PlaceOverLink, Cleanup, clientVars, handlerVars
    <1>2. Path(r) \in Paths BY DEF Structure, Shapes
    <1>3. CASE UNCHANGED <<log, tree>>
        BY <1>1, <1>3, StillKeeps, IdleKept DEF projectVars
    <1>4. CASE Publish(r, Path(r), "file", 0, 0) \/ Publish(r, Path(r), "gone", 0, 0)
        <2>1. Puts BY <1>2, <1>4, PublishPuts
        <2> QED BY <1>1, <2>1, PutsKept
    <1>5. \/ UNCHANGED <<log, tree>>
          \/ Publish(r, Path(r), "file", 0, 0) \/ Publish(r, Path(r), "gone", 0, 0)
        BY DEF Place, PlaceOverLink, PlaceEmpty, Cleanup
    <1> QED BY <1>3, <1>4, <1>5

LEMMA HandleKept ==
    ASSUME Structure, Used, Verified, NEW r \in Requests, Handle(r)
    PROVE  Kept
    <1>1. CASE UNCHANGED <<log, tree, base, sha, hist, commit, flight, req, spent, admitted>>
        BY <1>1, StillKeeps, IdleKept DEF projectVars
    <1>2. CASE ClientReads(r) \/ RevisionHeader(r) \/ ReadAgain(r) \/ Precondition(r)
               \/ Loads(r) \/ CleanupSkipped(r) \/ FailsUnspent(r) \/ DrainEnds(r) \/ Responds(r)
        BY <1>1, <1>2 DEF ClientReads, RevisionHeader, ReadAgain, Precondition, Loads, CleanupSkipped,
                     FailsUnspent, DrainEnds, Responds, gateVars, clientVars, handlerVars
    <1>3. CASE UploadFails(r)
        BY <1>1, <1>3 DEF UploadFails, clientVars
    <1>4. CASE Enforce(r)
        <2>1. UNCHANGED <<tree, base, sha, spent, admitted>> /\ FlightJoined(r)
            BY <1>4 DEF Enforce, clientVars, handlerVars
        <2>2. flight'.on => flight'.sha = Len(hist) \/ (flight.on /\ flight'.sha = flight.sha)
            BY <2>1 DEF FlightJoined, Tip, Structure, Shapes
        <2> QED BY <1>4, <2>1, <2>2, EnforceKeeps, IdleKept
    <1>5. CASE Drain(r)
        <2>1. CommitBegins(r) /\ UNCHANGED <<spent, admitted, req, flight>>
            BY <1>5 DEF Drain, CommitBegins, clientVars, handlerVars
        <2> QED BY <2>1, BeginsKeep, IdleKept
    <1>6. CASE Applies(r) BY <1>6, VerbKept
    <1>7. CASE Place(r) \/ PlaceOverLink(r) \/ Cleanup(r) BY <1>7, PlaceKept
    <1> QED BY <1>2, <1>3, <1>4, <1>5, <1>6, <1>7 DEF Handle

LEMMA BackgroundKept ==
    ASSUME Structure, Used, Works \/ Peers
    PROVE  Kept
    <1>1. CASE FlightLands
        <2>1. UNCHANGED <<spent, admitted>> /\ flight.on BY <1>1 DEF FlightLands
        <2>2. Structure' /\ ~flight'.on /\ (IF Dirty THEN UNCHANGED <<tree, base, sha>> ELSE sha' = flight.sha)
            BY <1>1, LandsKeep
        <2>3. sha \in Nat /\ sha' \in Nat BY <2>2 DEF Structure, Shapes
        <2>4. Used' BY <2>1, <2>2, <2>3, UsedKeeps DEF Used
        <2>5. Shut /\ GateMeansPending => GateMeansPending'
            <3>1. CASE Dirty BY <2>1, <2>2, <3>1 DEF GateMeansPending, Dirty
            <3>2. CASE ~Dirty
                <4> SUFFICES ASSUME Shut, GateMeansPending PROVE spent' # sha'
                    BY DEF GateMeansPending
                <4>1. sha <= flight.sha BY <2>1 DEF Shut, Structure, Forward
                <4> QED BY <2>1, <2>2, <2>3, <3>2, <4>1 DEF GateMeansPending, Used
            <3> QED BY <3>1, <3>2
        <2> QED BY <2>2, <2>4, <2>5 DEF Kept
    <1>2. CASE Applied
        <2>1. CommitApplies /\ UNCHANGED <<spent, admitted, req, flight>>
            BY <1>2 DEF Applied, CommitApplies, clientVars, handlerVars
        <2>2. Structure' /\ sha < sha' BY <2>1, AppliesKeep
        <2>3. sha \in Nat /\ sha' \in Nat BY <2>2 DEF Structure, Shapes
        <2>4. Used' BY <2>1, <2>2, <2>3, UsedKeeps DEF Used
        <2> QED BY <2>1, <2>2, <2>3, <2>4 DEF Kept, GateMeansPending, Used
    <1>3. CASE Failed
        <2>1. PushFails /\ UNCHANGED <<spent, admitted, req, flight>>
            BY <1>3 DEF Failed, PushFails, clientVars
        <2> QED BY <2>1, FailsKeep, IdleKept
    <1>4. CASE (CommitBegins(Loop) \/ CommitPublishes \/ CommitRebases)
               /\ UNCHANGED <<clientVars, pc, handlerVars>>
        <2>1. UNCHANGED <<spent, admitted, req, flight>>
            BY <1>4 DEF CommitBegins, CommitPublishes, CommitRebases, clientVars, handlerVars
        <2> QED BY <1>4, <2>1, BeginsKeep, PublishesKeep, RebasesKeep, IdleKept
    <1>5. CASE Peers
        <2>1. PICK p \in Paths : PeerCommits(p) /\ UNCHANGED <<spent, admitted, req, flight>>
            BY <1>5 DEF Peers, PeerCommits, clientVars, handlerVars
        <2> QED BY <2>1, PeersKeep, IdleKept
    <1> QED BY <1>1, <1>2, <1>3, <1>4, <1>5 DEF Works

LEMMA GateKept ==
    ASSUME Structure, Used, Verified, [Next]_vars
    PROVE  Kept
    <1>1. CASE UNCHANGED still
        BY <1>1, StillKeeps, IdleKept DEF still, clientVars, handlerVars, projectVars
    <1> QED BY <1>1, HandleKept, BackgroundKept, NextCases

-----------------------------------------------------------------------------
(* The verbs past their load.                                               *)

Past(c) == c \in {"load", "apply"}

LEMMA VerifiedKeeps ==
    ASSUME Verified, UNCHANGED <<gate, flight>>, Len(hist) \in Nat, Len(hist') \in Nat,
           Len(hist) <= Len(hist'), pc' \in [Requests -> Stages],
           \A r \in Requests : Past(pc'[r]) => Past(pc[r]) \/ gate[r] = 0,
           flight \in [on : BOOLEAN, sha : Nat, tree : Tree \cup {<<>>}, for : SUBSET Requests]
    PROVE  Verified'
    BY DEF Verified, Past

LEMMA HandleVerified ==
    ASSUME Structure, Structure', Verified, NEW r \in Requests, Handle(r)
    PROVE  Verified'
    <1>1. /\ Len(hist) \in Nat /\ Len(hist') \in Nat
          /\ flight \in [on : BOOLEAN, sha : Nat, tree : Tree \cup {<<>>}, for : SUBSET Requests]
          /\ pc \in [Requests -> Stages] /\ gate \in [Requests -> Nat]
        BY DEF Structure, Shapes, Verified
    <1>2. ASSUME NEW c \in Stages, pc' = [pc EXCEPT ![r] = c], UNCHANGED <<gate, flight, hist>>,
                 Past(c) => Past(pc[r]) \/ gate[r] = 0
          PROVE  Verified'
        BY <1>1, <1>2, VerifiedKeeps
    <1>3. CASE ClientReads(r) \/ RevisionHeader(r) \/ ReadAgain(r) \/ Cleanup(r) \/ CleanupSkipped(r)
               \/ Drain(r) \/ DrainEnds(r) \/ Responds(r) \/ UploadFails(r) \/ FailsUnspent(r)
        <2>1. UNCHANGED <<gate, flight, hist>>
            BY <1>3 DEF ClientReads, RevisionHeader, ReadAgain, Cleanup, CleanupSkipped, Drain,
                   CommitBegins, DrainEnds, Responds, UploadFails, FailsUnspent, gateVars, handlerVars
        <2>2. \E c \in {"header", "sent", "done", "read", "round", "respond", "cleanup"} :
                 pc' = [pc EXCEPT ![r] = c]
            BY <1>3 DEF ClientReads, RevisionHeader, ReadAgain, Cleanup, CleanupSkipped, Drain,
                   DrainEnds, Responds, UploadFails, FailsUnspent, To, Answers, Fails
        <2> QED BY <1>2, <2>1, <2>2 DEF Past, Stages
    <1>4. CASE Loads(r) \/ Applies(r)
        <2>1. UNCHANGED <<gate, flight, hist>> /\ Past(pc[r])
            BY <1>4 DEF Loads, Applies, At, Past, gateVars
        <2>2. \E c \in {"load", "apply", "done", "drain", "respond", "cleanup"} :
                 pc' = [pc EXCEPT ![r] = c]
            BY <1>4 DEF Loads, Applies, To, Fails
        <2> QED BY <1>2, <2>1, <2>2 DEF Stages
    <1>5. CASE Place(r) \/ PlaceOverLink(r)
        <2>1. UNCHANGED <<gate, flight, hist>> BY <1>5 DEF Place, PlaceOverLink
        <2>2. \E c \in {Entry(gate[r]), "done", "replace-link"} : pc' = [pc EXCEPT ![r] = c]
            BY <1>5 DEF Place, PlaceOverLink, PlaceEmpty, To, Answers
        <2> QED BY <1>2, <2>1, <2>2 DEF Entry, Past, Stages
    <1>6. CASE Precondition(r)
        <2>1. UNCHANGED <<flight, hist>> BY <1>6 DEF Precondition, gateVars
        <2>2. CASE Refused(r)
            <3>1. pc' = [pc EXCEPT ![r] = "done"] /\ gate' = gate
                BY <1>6, <2>2 DEF Precondition, Answers, To
            <3> QED BY <1>2, <2>1, <3>1 DEF Past, Stages
        <2>3. CASE ~Refused(r)
            <3> DEFINE g == IF RevisionMatches(r) /\ req[r].verb # "create" THEN tok[r] ELSE 0
                       c == IF req[r].verb = "replace" THEN "place" ELSE Entry(g)
            <3>1. g \in {0, sha} /\ gate' = [gate EXCEPT ![r] = g] /\ pc' = [pc EXCEPT ![r] = c]
                BY <1>1, <1>6, <2>3 DEF Precondition, To, RevisionMatches
            <3>2. g \in Nat /\ g <= Len(hist) BY <3>1 DEF Structure, Shapes, Forward
            <3>3. c \in Stages /\ (Past(c) => g = 0) BY DEF Entry, Past, Stages
            <3> HIDE DEF g, c
            <3> QED BY <1>1, <2>1, <3>1, <3>2, <3>3 DEF Verified, Past
        <2> QED BY <2>2, <2>3
    <1>7. CASE Enforce(r)
        <2>1. gate' = gate /\ hist' = hist /\ pc' = [pc EXCEPT ![r] = "flying"] /\ FlightJoined(r)
            BY <1>7 DEF Enforce, handlerVars, To
        <2>2. flight'.sha = Len(hist) \/ (flight.on /\ flight'.sha = flight.sha)
            BY <1>1, <2>1 DEF FlightJoined, Tip
        <2> QED BY <1>1, <2>1, <2>2 DEF Verified, Stages
    <1> QED BY <1>3, <1>4, <1>5, <1>6, <1>7 DEF Handle

LEMMA BackgroundVerified ==
    ASSUME Structure, Structure', Verified, Works \/ Peers
    PROVE  Verified'
    <1>1. /\ Len(hist) \in Nat /\ Len(hist') \in Nat
          /\ flight \in [on : BOOLEAN, sha : Nat, tree : Tree \cup {<<>>}, for : SUBSET Requests]
          /\ pc \in [Requests -> Stages] /\ gate \in [Requests -> Nat]
        BY DEF Structure, Shapes, Verified
    <1>2. CASE FlightLands
        <2>1. UNCHANGED <<gate, hist>> /\ ~flight'.on BY <1>2 DEF FlightLands, NoFlight
        <2>2. pc' \in [Requests -> Stages] BY <1>1, <1>2 DEF FlightLands, Stages
        <2> QED BY <2>1, <2>2 DEF Verified
    <1>3. CASE Applied \/ Failed
        <2>1. UNCHANGED <<gate, hist, flight>>
            BY <1>3 DEF Applied, Failed, CommitApplies, PushFails, handlerVars
        <2>2. \/ pc' = pc
              \/ \E q \in Requests, c \in {"respond", "done"} : pc' = [pc EXCEPT ![q] = c]
            BY <1>3 DEF Applied, Failed, Answers, To
        <2> QED BY <1>1, <2>1, <2>2, VerifiedKeeps DEF Past, Stages
    <1>4. CASE /\ UNCHANGED <<gate, flight, pc>>
               /\ Len(hist) <= Len(hist')
        BY <1>1, <1>4, VerifiedKeeps
    <1>5. CASE (CommitBegins(Loop) \/ CommitPublishes \/ CommitRebases)
               /\ UNCHANGED <<clientVars, pc, handlerVars>>
        <2>1. hist' = hist \/ hist' = Append(hist, commit.work)
            BY <1>5 DEF CommitBegins, CommitPublishes, CommitRebases
        <2>2. commit.pc # "idle" => commit.work \in Tree BY DEF Structure, Versions
        <2>3. Len(hist) <= Len(hist')
            BY <1>1, <1>5, <2>1, <2>2 DEF CommitBegins, CommitPublishes, CommitRebases, Structure, Shapes
        <2> QED BY <1>4, <1>5, <2>3 DEF CommitBegins, CommitPublishes, CommitRebases, handlerVars
    <1>6. CASE Peers
        <2>1. PICK p \in Paths : PeerCommits(p) /\ UNCHANGED <<gate, flight, pc>>
            BY <1>6 DEF Peers, PeerCommits, handlerVars
        <2> DEFINE new == [hist[Tip] EXCEPT ![p] = Len(log) + 1]
        <2>2. hist' = Append(hist, new) BY <2>1 DEF PeerCommits
        <2>3. \E S : hist \in Seq(S) BY DEF Structure, Shapes
        <2> HIDE DEF new
        <2>4. Len(hist') = Len(hist) + 1 BY <2>2, <2>3, Appended DEF IsSeq
        <2> QED BY <1>1, <1>4, <2>1, <2>4
    <1> QED BY <1>2, <1>3, <1>5, <1>6 DEF Works

LEMMA StepVerified ==
    ASSUME Structure, Structure', Verified, [Next]_vars
    PROVE  Verified'
    <1>1. CASE UNCHANGED still
        BY <1>1 DEF still, handlerVars, Verified
    <1> QED BY <1>1, HandleVerified, BackgroundVerified, NextCases

LEMMA GateStarts == Init => Structure /\ Used /\ Verified /\ GateMeansPending
    <1> SUFFICES ASSUME Init PROVE Structure /\ Used /\ Verified /\ GateMeansPending OBVIOUS
    <1>1. PICK c \in Cases : GateInit(c.tree, c.left) /\ req = c.req BY DEF Init
    <1>2. c.tree \in [Paths -> 1..3]
          /\ \A r \in Requests : req[r].path \in Paths /\ req[r].to \in Paths
        BY <1>1, CasesAssumption
    <1>3. /\ tree = c.tree /\ base = c.tree /\ hist = <<c.tree>> /\ sha = 1 /\ spent = 0
          /\ commit = NoCommit /\ flight = NoFlight /\ admitted = {}
        BY <1>1 DEF GateInit, Init
    <1>4. IsSeq(log) /\ Len(log) = 3
        <2> DEFINE v(k, n) == [by |-> Nobody, kind |-> k, size |-> n, from |-> 0, over |-> 0]
        <2>1. log = <<v("gone", 0), v("file", 1), v("link", 1)>> BY <1>1 DEF GateInit
        <2> HIDE DEF v
        <2>2. log \in Seq({v("gone", 0), v("file", 1), v("link", 1)}) /\ Len(log) = 3 BY <2>1
        <2> QED BY <2>2 DEF IsSeq
    <1>5. c.tree \in Tree /\ \A p \in Paths : c.tree[p] <= Len(log) BY <1>2, <1>4 DEF Tree
    <1>6. hist \in Seq(Tree) /\ Len(hist) = 1 /\ hist[1] = c.tree BY <1>3, <1>5
    <1>7. commit \in CommitShape /\ commit.pc = "idle" BY <1>3 DEF NoCommit, CommitShape
    <1>8. flight \in [on : BOOLEAN, sha : Nat, tree : Tree \cup {<<>>}, for : SUBSET Requests]
          /\ ~flight.on
        BY <1>3 DEF NoFlight
    <1>9. Shapes BY <1>2, <1>3, <1>4, <1>5, <1>6, <1>7, <1>8 DEF Shapes, CommitShape, Path
    <1>10. Versions BY <1>3, <1>5, <1>6, <1>7, <1>8 DEF Versions, Logged
    <1>11. Forward BY <1>3, <1>6, <1>7, <1>8 DEF Forward
    <1>12. Verified
        <2>1. /\ gate = [r \in Requests |-> 0]
              /\ pc = [r \in Requests |-> IF Conditional(r) THEN "read" ELSE "sent"]
            BY DEF Init
        <2> QED BY <1>6, <1>8, <2>1 DEF Verified, Stages
    <1> QED BY <1>3, <1>8, <1>9, <1>10, <1>11, <1>12 DEF Structure, Used, OneWinner, GateMeansPending

-----------------------------------------------------------------------------

\* However many requests declare the same revision, whatever commits, failures,
\* fresh loads and other hubs do meanwhile, in any of the windows: at most one of them
\* gets past the check (checkRevisionGateLocked, pm.casArmed).
THEOREM OneWinnerAlways == Spec => []OneWinner
    <1> DEFINE Inv == Structure /\ Used /\ Verified
    <1>1. Init => Inv BY GateStarts
    <1>2. Inv /\ [Next]_vars => Inv' BY GateKept, StepVerified DEF Kept
    <1>3. Inv => OneWinner BY DEF Used
    <1> QED BY <1>1, <1>2, <1>3, PTL DEF Spec

\* ... and one that was used up stands for work that is still to be committed, which
\* will give the clients a new revision (checkRevisionGateLocked 107), provided that
\* no verb fails after the check and no commit lands while a load is on its way.
THEOREM GateAlwaysSound ==
    ASSUME "staleload" \notin Races, "spent" \notin Races
    PROVE  Spec => []GateSound
    <1> DEFINE Inv == Structure /\ Used /\ Verified /\ GateMeansPending
    <1>1. Init => Inv BY GateStarts
    <1>2. Inv /\ [Next]_vars => Inv' BY GateKept, StepVerified DEF Kept, Shut
    <1>3. Inv => GateSound BY DEF Used, GateSound
    <1> QED BY <1>1, <1>2, <1>3, PTL DEF Spec

-----------------------------------------------------------------------------
(* What is committed stays so.                                              *)

\* Where a request publishes.
Places(r) == {Path(r), req[r].to}

\* From the revision the cache stands on, the remote only goes forward; a commit takes
\* the tree it froze forward, and so does everything put into the tree since.
Top == IF commit.pc = "apply" THEN commit.prev ELSE sha
Beyond ==
    /\ base = hist[sha]
    /\ \A i, j \in Top..Len(hist) : i <= j => \A p \in Paths : hist[i][p] <= hist[j][p]
    /\ commit.pc # "idle" =>
          \A p \in Paths : commit.tree[p] <= commit.work[p] /\ commit.tree[p] <= tree[p]
    /\ commit.pc = "apply" => commit.work = hist[commit.prev]
    /\ flight.on => flight.tree = hist[flight.sha]

\* What a request published is in the tree, then in the tree its drain froze, then in
\* a revision.
Holds(t, r) == \A v \in Published(r) : \E p \in Places(r) : t[p] >= v
Landed(r) ==
    \A v \in Published(r) : \E h \in DOMAIN hist : \E p \in Places(r) : hist[h][p] >= v
Durable(r) ==
    /\ Holds(tree, r)
    /\ commit.pc # "idle" /\ commit.by = r => pc[r] = "round" /\ Holds(commit.tree, r)
    /\ req[r].sync /\ pc[r] = "respond" => Landed(r)
    /\ answer[r] = 200 => pc[r] = "done" /\ (req[r].sync => Landed(r))
    /\ r \in flight.for => pc[r] = "flying"

\* A step that publishes: the log grows by versions of the request, which the tree now
\* holds; nothing older comes into the tree.
Adds(r) ==
    /\ Len(log) \in Nat /\ Len(log') \in Nat /\ Len(log) <= Len(log')
    /\ \A v \in 1..Len(log) : log'[v] = log[v]
    /\ \A v \in 1..Len(log') : v \notin 1..Len(log) =>
          log'[v].by = r /\ \E p \in Places(r) : tree'[p] >= v
    /\ \A p \in Paths : tree'[p] = tree[p] \/ tree'[p] > Len(log)

LEMMA SeqDomain ==
    ASSUME NEW s, IsSeq(s)
    PROVE  Len(s) \in Nat /\ DOMAIN s = 1..Len(s)
    BY DEF IsSeq

LEMMA AppendedAt ==
    ASSUME NEW s, IsSeq(s), NEW e
    PROVE  /\ \A v \in 1..Len(s) : Append(s, e)[v] = s[v]
           /\ Append(s, e)[Len(s) + 1] = e
    <1>1. PICK S : s \in Seq(S) BY DEF IsSeq
    <1>2. s \in Seq(S \cup {e}) BY <1>1
    <1> QED BY <1>2

LEMMA ExtendedAt ==
    ASSUME NEW s, IsSeq(s), NEW a, NEW b
    PROVE  /\ \A v \in 1..Len(s) : (s \o <<a, b>>)[v] = s[v]
           /\ (s \o <<a, b>>)[Len(s) + 1] = a
           /\ (s \o <<a, b>>)[Len(s) + 2] = b
    <1>1. PICK S : s \in Seq(S) BY DEF IsSeq
    <1>2. s \in Seq(S \cup {a, b}) /\ <<a, b>> \in Seq(S \cup {a, b}) BY <1>1
    <1> QED BY <1>2

LEMMA PublishAdds ==
    ASSUME Structure, NEW r \in Requests, NEW p \in Places(r), NEW kind, NEW size, NEW from,
           Publish(r, p, kind, size, from)
    PROVE  Adds(r)
    <1> DEFINE e == [by |-> r, kind |-> kind, size |-> size, from |-> from, over |-> tree[p]]
    <1>1. log' = Append(log, e) /\ tree' = [tree EXCEPT ![p] = Len(log) + 1]
        BY DEF Publish
    <1>2. e.by = r OBVIOUS
    <1> HIDE DEF e
    <1>3. IsSeq(log) /\ tree \in Tree /\ p \in Paths BY DEF Structure, Shapes, Places
    <1>4. Len(log') = Len(log) + 1 /\ Len(log) \in Nat BY <1>1, <1>3, Appended
    <1>5. (\A v \in 1..Len(log) : log'[v] = log[v]) /\ log'[Len(log) + 1] = e
        BY <1>1, <1>3, AppendedAt
    <1>6. tree'[p] = Len(log) + 1 /\ \A x \in Paths : x # p => tree'[x] = tree[x]
        BY <1>1, <1>3 DEF Tree
    <1> QED BY <1>2, <1>4, <1>5, <1>6 DEF Adds

LEMMA RenameAdds ==
    ASSUME Structure, NEW r \in Requests, Rename(r)
    PROVE  Adds(r)
    <1> DEFINE one == [by |-> r, kind |-> "gone", size |-> 0, from |-> 0, over |-> Here(r)]
               two == [by |-> r, kind |-> log[Here(r)].kind, size |-> Size(Here(r)),
                       from |-> 0, over |-> tree[req[r].to]]
               p == Path(r)
               q == req[r].to
    <1>1. log' = log \o <<one, two>>
          /\ tree' = [tree EXCEPT ![p] = Len(log) + 1, ![q] = Len(log) + 2]
        BY DEF Rename
    <1>2. p \in Paths /\ q \in Paths /\ q \in Places(r) BY DEF Structure, Shapes, Places
    <1>3. one.by = r /\ two.by = r OBVIOUS
    <1> HIDE DEF one, two, p, q
    <1>4. IsSeq(log) /\ tree \in Tree BY DEF Structure, Shapes
    <1>5. IsSeq(<<one, two>>) /\ Len(<<one, two>>) = 2
        <2>1. <<one, two>> \in Seq({one, two}) OBVIOUS
        <2> QED BY <2>1 DEF IsSeq
    <1>6. Len(log') = Len(log) + 2 /\ Len(log) \in Nat BY <1>1, <1>4, <1>5, Extended
    <1>7. /\ \A v \in 1..Len(log) : log'[v] = log[v]
          /\ log'[Len(log) + 1] = one /\ log'[Len(log) + 2] = two
        BY <1>1, <1>4, ExtendedAt
    <1>8. \A x \in Paths : tree'[x] = IF x = q THEN Len(log) + 2
                                      ELSE IF x = p THEN Len(log) + 1 ELSE tree[x]
        BY <1>1, <1>2, <1>4 DEF Tree
    <1>9. \A v \in 1..Len(log') : v \notin 1..Len(log) => v = Len(log) + 1 \/ v = Len(log) + 2
        BY <1>6
    <1> QED BY <1>2, <1>3, <1>6, <1>7, <1>8, <1>9 DEF Adds

LEMMA EffectAdds ==
    ASSUME Structure, NEW r \in Requests, Effect(r)
    PROVE  Adds(r)
    <1>1. Path(r) \in Places(r) /\ req[r].to \in Places(r) BY DEF Places
    <1>2. CASE Rename(r) BY <1>2, RenameAdds
    <1>3. CASE ZeroExtend(r) BY <1>1, <1>3, PublishAdds DEF ZeroExtend
    <1>4. CASE WriteAt(r) BY <1>1, <1>4, PublishAdds DEF WriteAt
    <1>5. CASE AppendFile(r) BY <1>1, <1>5, PublishAdds DEF AppendFile
    <1>6. CASE ReplaceFile(r) BY <1>1, <1>6, PublishAdds DEF ReplaceFile
    <1>7. CASE CreateFile(r) BY <1>1, <1>7, PublishAdds DEF CreateFile
    <1>8. CASE Chmod(r) BY <1>1, <1>8, PublishAdds DEF Chmod
    <1>9. CASE Copy(r) BY <1>1, <1>9, PublishAdds DEF Copy
    <1>10. CASE DeleteFile(r) BY <1>1, <1>10, PublishAdds DEF DeleteFile
    <1> QED BY <1>2, <1>3, <1>4, <1>5, <1>6, <1>7, <1>8, <1>9, <1>10 DEF Effect

\* The steps of a handler that publish, and what the others leave alone.
LEMMA HandleWrites ==
    ASSUME Structure, NEW r \in Requests, Handle(r)
    PROVE  /\ Adds(r) \/ UNCHANGED <<log, tree>>
           /\ UNCHANGED <<base, sha, hist, req>>
           /\ \/ UNCHANGED <<commit, flight>>
              \/ Enforce(r) /\ FlightJoined(r) /\ commit' = commit
              \/ Drain(r) /\ CommitBegins(r) /\ flight' = flight
    <1>1. CASE ClientReads(r) \/ RevisionHeader(r) \/ ReadAgain(r) \/ Precondition(r)
               \/ Loads(r) \/ CleanupSkipped(r) \/ FailsUnspent(r) \/ DrainEnds(r) \/ Responds(r)
        BY <1>1 DEF ClientReads, RevisionHeader, ReadAgain, Precondition, Loads, CleanupSkipped,
                     FailsUnspent, DrainEnds, Responds, gateVars, clientVars, handlerVars
    <1>2. CASE UploadFails(r) \/ Enforce(r) \/ Drain(r)
        BY <1>2 DEF UploadFails, Enforce, Drain, CommitBegins, clientVars, handlerVars
    <1>3. CASE Place(r) \/ PlaceOverLink(r) \/ Cleanup(r)
        <2>1. \/ UNCHANGED <<log, tree>>
              \/ Publish(r, Path(r), "file", 0, 0) \/ Publish(r, Path(r), "gone", 0, 0)
            BY <1>3 DEF Place, PlaceOverLink, PlaceEmpty, Cleanup
        <2>2. Path(r) \in Places(r) BY DEF Places
        <2>3. UNCHANGED <<base, sha, hist, req, commit, flight>>
            BY <1>3 DEF Place, PlaceOverLink, Cleanup, clientVars
        <2> QED BY <2>1, <2>2, <2>3, PublishAdds
    <1>4. CASE Applies(r)
        <2>1. Effect(r) \/ UNCHANGED <<log, tree>> BY <1>4 DEF Applies
        <2>2. UNCHANGED <<base, sha, hist, req, commit, flight>> BY <1>4 DEF Applies, clientVars
        <2> QED BY <2>1, <2>2, EffectAdds
    <1> QED BY <1>1, <1>2, <1>3, <1>4 DEF Handle

\* Numbers where the arithmetic needs them.
LEMMA Numbers ==
    ASSUME Structure
    PROVE  /\ Len(log) \in Nat /\ Len(hist) \in Nat /\ sha \in 1..Len(hist)
           /\ DOMAIN log = 1..Len(log) /\ DOMAIN hist = 1..Len(hist)
           /\ Top \in 1..Len(hist) /\ sha <= Top
           /\ \A p \in Paths : tree[p] \in Nat /\ base[p] \in Nat /\ tree[p] <= Len(log)
           /\ \A h \in 1..Len(hist), p \in Paths : hist[h][p] \in Nat /\ hist[h][p] <= Len(log)
           /\ commit.pc # "idle" =>
                 \A p \in Paths : commit.tree[p] \in Nat /\ commit.work[p] \in Nat
           /\ \A r \in Requests : Places(r) \subseteq Paths
    <1>1. Len(log) \in Nat /\ DOMAIN log = 1..Len(log) BY SeqDomain DEF Structure, Shapes
    <1>2. Len(hist) \in Nat /\ DOMAIN hist = 1..Len(hist) /\ sha \in 1..Len(hist)
        BY DEF Structure, Shapes, Forward
    <1>3. Top \in 1..Len(hist) /\ sha <= Top
        <2>1. commit.prev \in Nat BY DEF Structure, Shapes
        <2> QED BY <1>2, <2>1 DEF Structure, Forward, Top
    <1>4. \A h \in 1..Len(hist) : hist[h] \in Tree /\ Logged(hist[h])
        BY DEF Structure, Shapes, Versions
    <1> QED BY <1>1, <1>2, <1>3, <1>4 DEF Structure, Shapes, Versions, Logged, Tree, Places

Grows == \A p \in Paths : tree'[p] >= tree[p]

LEMMA HandleBeyond ==
    ASSUME Structure, Structure', Beyond, NEW r \in Requests, Handle(r)
    PROVE  Grows /\ Beyond'
    <1>1. /\ Adds(r) \/ UNCHANGED <<log, tree>>
          /\ UNCHANGED <<base, sha, hist>>
          /\ \/ UNCHANGED <<commit, flight>>
             \/ FlightJoined(r) /\ commit' = commit
             \/ CommitBegins(r) /\ flight' = flight /\ tree' = tree
        BY HandleWrites DEF CommitBegins
    <1>2. \A p \in Paths : tree[p] \in Nat /\ tree'[p] \in Nat
        <2>1. tree \in Tree /\ tree' \in Tree BY DEF Structure, Shapes
        <2> QED BY <2>1 DEF Tree
    <1>3. Grows BY <1>1, <1>2, Numbers DEF Adds, Grows
    <1>4. CASE UNCHANGED <<commit, flight>>
        <2>1. commit.pc # "idle" => \A p \in Paths : commit.tree[p] <= tree'[p]
            BY <1>2, <1>3, Numbers DEF Beyond, Grows
        <2> QED BY <1>1, <1>3, <1>4, <2>1 DEF Beyond, Top
    <1>5. CASE FlightJoined(r) /\ commit' = commit
        <2>1. commit.pc # "idle" => \A p \in Paths : commit.tree[p] <= tree'[p]
            BY <1>2, <1>3, Numbers DEF Beyond, Grows
        <2>2. flight'.on => flight'.tree = hist[flight'.sha]
            <3>1. CASE flight.on
                <4>1. flight \in [on : BOOLEAN, sha : Nat, tree : Tree \cup {<<>>}, for : SUBSET Requests]
                    BY DEF Structure, Shapes
                <4>2. flight' = [flight EXCEPT !.for = @ \cup {r}] BY <1>5, <3>1 DEF FlightJoined
                <4> QED BY <3>1, <4>1, <4>2 DEF Beyond
            <3>2. CASE ~flight.on BY <1>5, <3>2 DEF FlightJoined, Tip
            <3> QED BY <3>1, <3>2
        <2> QED BY <1>1, <1>3, <1>5, <2>1, <2>2 DEF Beyond, Top
    <1>6. CASE CommitBegins(r) /\ flight' = flight /\ tree' = tree
        <2>1. commit'.pc = "publish" /\ commit.pc = "idle" /\ commit'.tree = tree /\ commit'.work = tree
            BY <1>6 DEF CommitBegins
        <2> QED BY <1>1, <1>2, <1>3, <1>6, <2>1 DEF Beyond, Top
    <1> QED BY <1>1, <1>4, <1>5, <1>6

\* The commit and the load never take a path back: an upstream version is taken over a
\* frozen one only when it is newer, and a load that lands is not behind.
LEMMA CommitBeyond ==
    ASSUME Structure, Structure', Beyond,
           CommitBegins(Loop) \/ CommitPublishes \/ CommitRebases \/ CommitApplies \/ PushFails
    PROVE  Grows /\ Beyond'
    <1>1. \A p \in Paths : tree[p] \in Nat /\ base[p] \in Nat
        BY Numbers
    <1>2. CASE CommitBegins(Loop)
        BY <1>1, <1>2 DEF CommitBegins, Beyond, Top, Grows
    <1>3. CASE PushFails
        BY <1>1, <1>3 DEF PushFails, Beyond, Top, Grows, NoCommit
    <1>4. CASE CommitPublishes
        <2>1. /\ commit.pc = "publish" /\ hist' = Append(hist, commit.work)
              /\ commit' = [commit EXCEPT !.pc = "apply", !.prev = Len(hist) + 1]
              /\ UNCHANGED <<tree, base, sha, flight>>
            BY <1>4 DEF CommitPublishes, Tip
        <2>2. /\ commit'.pc = "apply" /\ commit'.prev = Len(hist) + 1
              /\ commit'.tree = commit.tree /\ commit'.work = commit.work
            <3>1. commit \in CommitShape BY DEF Structure, Shapes, CommitShape
            <3> QED BY <2>1, <3>1 DEF CommitShape
        <2>3. /\ Len(hist) \in Nat /\ Len(hist') = Len(hist) + 1 /\ hist'[Len(hist) + 1] = commit.work
              /\ \A h \in 1..Len(hist) : hist'[h] = hist[h]
            <3>1. hist \in Seq(Tree) /\ commit.work \in Tree
                BY <2>1 DEF Structure, Shapes, Versions
            <3> QED BY <2>1, <3>1
        <2>4. base' = hist'[sha'] /\ (flight'.on => flight'.tree = hist'[flight'.sha])
            BY <2>1, <2>3, Numbers DEF Beyond, Structure, Forward, Shapes
        <2>5. \A p \in Paths : commit.work[p] \in Nat BY <2>1, Numbers
        <2>6. Top' = Len(hist) + 1 BY <2>2 DEF Top
        <2>7. \A i, j \in Top'..Len(hist') : i <= j =>
                 \A p \in Paths : hist'[i][p] <= hist'[j][p]
            <3>1. \A i \in Top'..Len(hist') : i = Len(hist) + 1 BY <2>3, <2>6
            <3> QED BY <2>3, <2>5, <3>1
        <2>8. \A p \in Paths : commit'.tree[p] <= commit'.work[p] /\ commit'.tree[p] <= tree'[p]
            BY <2>1, <2>2 DEF Beyond
        <2>9. Grows BY <1>1, <2>1 DEF Grows
        <2> QED BY <2>2, <2>3, <2>4, <2>7, <2>8, <2>9 DEF Beyond
    <1>5. CASE CommitRebases
        <2> DEFINE work == [p \in Paths |->
                   IF commit.tree[p] # base[p] /\ ~(hist[Tip][p] # base[p] /\ Exists(hist[Tip][p])
                                                    /\ hist[Tip][p] > commit.tree[p])
                   THEN commit.tree[p] ELSE hist[Tip][p]]
        <2>1. /\ commit.pc = "publish" /\ commit' = [commit EXCEPT !.prev = Tip, !.tries = @ + 1, !.work = work]
              /\ UNCHANGED <<tree, base, sha, hist, flight>>
            BY <1>5 DEF CommitRebases
        <2>2. \A p \in Paths : base[p] <= hist[Tip][p]
            BY <2>1, Numbers DEF Beyond, Top, Tip
        <2>3. \A p \in Paths : commit.tree[p] <= work[p]
            BY <1>1, <2>1, <2>2, Numbers DEF Tip
        <2> HIDE DEF work
        <2>4. commit'.pc = "publish" /\ commit'.tree = commit.tree /\ commit'.work = work
            <3>1. commit \in CommitShape BY DEF Structure, Shapes, CommitShape
            <3> QED BY <2>1, <3>1 DEF CommitShape
        <2> QED BY <1>1, <2>1, <2>3, <2>4 DEF Beyond, Top, Grows
    <1>6. CASE CommitApplies
        <2>1. /\ commit.pc = "apply" /\ sha' = commit.prev /\ base' = commit.work
              /\ tree' = [p \in Paths |-> IF tree[p] # commit.tree[p] THEN tree[p] ELSE commit.work[p]]
              /\ commit'.pc = "idle" /\ UNCHANGED <<hist, flight>>
            BY <1>6 DEF CommitApplies, NoCommit
        <2>2. Grows BY <1>1, <2>1 DEF Beyond, Grows
        <2> QED BY <2>1, <2>2 DEF Beyond, Top
    <1> QED BY <1>2, <1>3, <1>4, <1>5, <1>6

LEMMA OutsideBeyond ==
    ASSUME Structure, Structure', Beyond, "staleload" \notin Races,
           FlightLands \/ \E p \in Paths : PeerCommits(p)
    PROVE  Grows /\ Beyond'
    <1>1. \A p \in Paths : tree[p] \in Nat /\ base[p] \in Nat
        BY Numbers
    <1>2. CASE FlightLands
        <2>1. flight.on /\ Store /\ ~flight'.on /\ UNCHANGED <<hist, commit>>
            BY <1>2 DEF FlightLands, NoFlight
        <2>2. CASE Dirty
            BY <1>1, <2>1, <2>2 DEF Store, Beyond, Top, Grows
        <2>3. CASE ~Dirty
            <3>1. commit.pc = "idle" /\ tree = base /\ Top = sha
                BY <2>3 DEF Dirty, Structure, Forward, Top
            <3>2. tree' = flight.tree /\ base' = flight.tree /\ sha' = flight.sha
                BY <2>1, <2>3 DEF Store
            <3>3. flight.tree = hist[flight.sha] /\ sha <= flight.sha /\ flight.sha \in sha..Len(hist)
                BY <2>1, Numbers DEF Beyond, Structure, Forward, Shapes
            <3>4. Grows BY <3>1, <3>2, <3>3, Numbers DEF Beyond, Grows
            <3>5. \A i, j \in sha'..Len(hist) : i \in sha..Len(hist) /\ j \in sha..Len(hist)
                BY <3>2, <3>3, Numbers
            <3> QED BY <2>1, <3>1, <3>2, <3>3, <3>4, <3>5 DEF Beyond, Top
        <2> QED BY <2>2, <2>3
    <1>3. ASSUME NEW p \in Paths, PeerCommits(p) PROVE Grows /\ Beyond'
        <2> DEFINE new == [hist[Tip] EXCEPT ![p] = Len(log) + 1]
        <2>1. hist' = Append(hist, new) /\ UNCHANGED <<tree, base, sha, commit, flight>>
            BY <1>3 DEF PeerCommits
        <2>2. hist[Tip] \in Tree /\ Tip = Len(hist) /\ Tip \in 1..Len(hist) /\ Len(log) \in Nat
            BY Numbers DEF Tip, Structure, Shapes
        <2>3. new \in Tree BY <2>2 DEF Tree
        <2>4. \A q \in Paths : hist[Tip][q] <= new[q]
            BY <2>2, Numbers DEF Tree
        <2> HIDE DEF new
        <2>5. /\ Len(hist') = Len(hist) + 1 /\ hist'[Len(hist) + 1] = new
              /\ \A h \in 1..Len(hist) : hist'[h] = hist[h]
            <3>1. hist \in Seq(Tree) BY DEF Structure, Shapes
            <3> QED BY <2>1, <2>3, <3>1
        <2>6. \A i, j \in Top..Len(hist') : i <= j => \A q \in Paths : hist'[i][q] <= hist'[j][q]
            <3> SUFFICES ASSUME NEW i \in Top..Len(hist'), NEW j \in Top..Len(hist'), i <= j, NEW q \in Paths
                         PROVE  hist'[i][q] <= hist'[j][q]
                OBVIOUS
            <3>1. new[q] \in Nat BY <2>3 DEF Tree
            <3>2. CASE j \in 1..Len(hist)
                BY <2>5, <3>2, Numbers DEF Beyond
            <3>3. CASE i \in 1..Len(hist) /\ j = Len(hist) + 1
                <4>1. i \in Top..Len(hist) /\ Tip \in Top..Len(hist) /\ i <= Tip BY <2>2, <3>3, Numbers
                <4>2. hist[i][q] <= hist[Tip][q] BY <4>1 DEF Beyond
                <4>3. hist[i][q] \in Nat /\ hist[Tip][q] \in Nat BY <2>2, <3>3, Numbers
                <4> QED BY <2>4, <2>5, <3>1, <3>3, <4>2, <4>3
            <3>4. CASE i = Len(hist) + 1 /\ j = Len(hist) + 1
                BY <2>5, <3>1, <3>4
            <3> QED BY <2>5, <3>2, <3>3, <3>4, Numbers
        <2>7. base' = hist'[sha'] /\ (flight'.on => flight'.tree = hist'[flight'.sha])
            BY <2>1, <2>5, Numbers DEF Beyond, Structure, Forward, Shapes
        <2>8. commit.pc = "apply" => hist'[commit.prev] = hist[commit.prev]
            BY <2>5, Numbers DEF Top
        <2>9. Top' = Top BY <2>1 DEF Top
        <2>10. Grows BY <1>1, <2>1 DEF Grows
        <2> QED BY <2>1, <2>6, <2>7, <2>8, <2>9, <2>10 DEF Beyond
    <1> QED BY <1>2, <1>3

LEMMA WorkBeyond ==
    ASSUME Structure, Structure', Beyond, "staleload" \notin Races, Works \/ Peers
    PROVE  Grows /\ Beyond'
    <1>1. CASE Works
        BY <1>1, CommitBeyond, OutsideBeyond DEF Works, Applied, Failed
    <1>2. CASE Peers
        BY <1>2, OutsideBeyond DEF Peers
    <1> QED BY <1>1, <1>2

LEMMA StepBeyond ==
    ASSUME Structure, Structure', Beyond, "staleload" \notin Races, [Next]_vars
    PROVE  Grows /\ Beyond'
    <1>1. CASE UNCHANGED still
        BY <1>1, Numbers DEF still, Beyond, Top, Grows
    <1> QED BY <1>1, WorkBeyond, HandleBeyond, NextCases


\* What a step adds to what was published and to the history.
HistKept == \A h \in DOMAIN hist : h \in DOMAIN hist' /\ hist'[h] = hist[h]

LEMMA AddsPublished ==
    ASSUME Structure, Structure', NEW r \in Requests, Adds(r)
    PROVE  /\ \A q \in Requests \ {r} : Published(q)' = Published(q)
           /\ Published(r) \subseteq Published(r)'
           /\ \A v \in Published(r)' : v \notin Published(r) => \E p \in Places(r) : tree'[p] >= v
    <1>1. DOMAIN log = 1..Len(log) /\ DOMAIN log' = 1..Len(log')
        BY SeqDomain DEF Structure, Shapes
    <1> QED BY <1>1 DEF Adds, Published

LEMMA HoldsGrows ==
    ASSUME Structure, Structure', Grows, NEW q \in Requests, Published(q)' = Published(q), req' = req
    PROVE  /\ Holds(tree, q) => Holds(tree', q)
           /\ Places(q)' = Places(q)
    <1>1. \A p \in Places(q) : tree[p] \in Nat /\ tree'[p] \in Nat
        <2>1. tree \in Tree /\ tree' \in Tree /\ Places(q) \subseteq Paths
            BY DEF Structure, Shapes, Places
        <2> QED BY <2>1 DEF Tree
    <1>2. \A v \in Published(q) : v \in Nat BY Numbers DEF Published
    <1>3. \A p \in Places(q) : tree'[p] >= tree[p] BY Numbers DEF Grows
    <1> QED BY <1>1, <1>2, <1>3 DEF Holds, Places, Path

\* What leaves a request and the commit alone keeps it durable.
LEMMA DurableStays ==
    ASSUME Structure, Structure', Grows, HistKept, req' = req, NEW q \in Requests, Durable(q),
           Published(q)' = Published(q), pc'[q] = pc[q], answer'[q] = answer[q],
           commit'.pc # "idle" /\ commit'.by = q =>
               commit.pc # "idle" /\ commit.by = q /\ commit'.tree = commit.tree,
           q \in flight'.for => q \in flight.for
    PROVE  Durable(q)'
    <1>1. Holds(tree, q)' /\ Places(q)' = Places(q) BY HoldsGrows DEF Durable, Holds
    <1>2. Landed(q) => Landed(q)' BY <1>1 DEF Landed, HistKept
    <1>3. Holds(commit.tree, q) /\ commit'.tree = commit.tree => Holds(commit.tree, q)'
        BY <1>1 DEF Holds
    <1> QED BY <1>1, <1>2, <1>3 DEF Durable

\* Where a handler goes.
LEMMA HandleMoves ==
    ASSUME Verified, answer \in [Requests -> Statuses], NEW r \in Requests, Handle(r)
    PROVE  /\ \A q \in Requests \ {r} : pc'[q] = pc[q] /\ answer'[q] = answer[q]
           /\ \/ Drain(r) /\ pc[r] = "drain" /\ pc'[r] = "round" /\ answer' = answer
              \/ DrainEnds(r) /\ pc[r] = "drain" /\ pc'[r] = "respond" /\ answer' = answer
              \/ Responds(r) /\ pc[r] = "respond" /\ pc'[r] = "done"
              \/ /\ pc[r] \notin {"drain", "round", "respond", "done"}
                 /\ pc'[r] = "respond" => ~req[r].sync
                 /\ answer'[r] = answer[r] \/ answer'[r] # 200
                 /\ ~Drain(r) /\ (pc'[r] = "flying" \/ ~Enforce(r))
    <1>1. pc \in [Requests -> Stages] BY DEF Verified
    <1>2. CASE ClientReads(r) \/ RevisionHeader(r) \/ ReadAgain(r) \/ Cleanup(r) \/ CleanupSkipped(r)
               \/ UploadFails(r) \/ FailsUnspent(r)
        <2>1. \E c \in {"header", "sent", "done", "read", "cleanup"}, a \in Statuses :
                 /\ pc' = [pc EXCEPT ![r] = c]
                 /\ answer' = answer \/ (a # 200 /\ answer' = [answer EXCEPT ![r] = a])
            BY <1>2 DEF ClientReads, RevisionHeader, ReadAgain, Cleanup, CleanupSkipped, UploadFails,
                   FailsUnspent, To, Answers, Fails, FailsInside, PatchFails, RenameFails, CreateFails,
                   MissingFails, Statuses, handlerVars
        <2>2. pc[r] \in {"read", "header", "cleanup", "apply"}
            BY <1>2 DEF ClientReads, RevisionHeader, ReadAgain, Cleanup, CleanupSkipped, UploadFails,
                   FailsUnspent, At
        <2> QED BY <1>1, <1>2, <2>1, <2>2 DEF Drain, Enforce, At
    <1>3. CASE Precondition(r) \/ Place(r) \/ PlaceOverLink(r)
        <2>1. \E c \in {"place", "load", "verb", "replace-link", "done"}, a \in Statuses :
                 /\ pc' = [pc EXCEPT ![r] = c]
                 /\ answer' = answer \/ (a # 200 /\ answer' = [answer EXCEPT ![r] = a])
            BY <1>3 DEF Precondition, Place, PlaceOverLink, PlaceEmpty, Entry, To, Answers, Statuses
        <2>2. pc[r] \in {"sent", "place", "replace-link"}
            BY <1>3 DEF Precondition, Place, PlaceOverLink, At
        <2> QED BY <1>1, <2>1, <2>2 DEF Drain, Enforce, At
    <1>4. CASE Enforce(r)
        BY <1>1, <1>4 DEF Enforce, Drain, To, At, handlerVars
    <1>5. CASE Loads(r) \/ Applies(r)
        <2>1. \E c \in {"apply", "done", "cleanup", "load", "drain", "respond"}, a \in Statuses :
                 /\ pc' = [pc EXCEPT ![r] = c] /\ (c = "respond" => ~req[r].sync)
                 /\ answer' = answer \/ (a # 200 /\ answer' = [answer EXCEPT ![r] = a])
            BY <1>5 DEF Loads, Applies, To, Fails, FailsInside, PatchFails, RenameFails, CreateFails,
                   MissingFails, Statuses
        <2>2. pc[r] \in {"load", "apply"} BY <1>5 DEF Loads, Applies, At
        <2> QED BY <1>1, <2>1, <2>2 DEF Drain, Enforce, At
    <1>6. CASE Drain(r) \/ DrainEnds(r)
        BY <1>1, <1>6 DEF Drain, DrainEnds, To, At, handlerVars
    <1>7. CASE Responds(r)
        BY <1>1, <1>7 DEF Responds, Answers, To, At
    <1> QED BY <1>2, <1>3, <1>4, <1>5, <1>6, <1>7 DEF Handle


Answered == answer \in [Requests -> Statuses]

LEMMA HandleDurable ==
    ASSUME Structure, Structure', Verified, Answered, Beyond, NEW r \in Requests, Handle(r),
           \A q \in Requests : Durable(q)
    PROVE  \A q \in Requests : Durable(q)'
    <1>1. /\ Adds(r) \/ UNCHANGED <<log, tree>>
          /\ UNCHANGED <<base, sha, hist, req>>
          /\ \/ UNCHANGED <<commit, flight>>
             \/ Enforce(r) /\ FlightJoined(r) /\ commit' = commit
             \/ Drain(r) /\ CommitBegins(r) /\ flight' = flight
        BY HandleWrites
    <1>2. Grows /\ HistKept BY <1>1, HandleBeyond DEF HistKept
    <1>3. /\ \A q \in Requests \ {r} : pc'[q] = pc[q] /\ answer'[q] = answer[q]
          /\ \/ Drain(r) /\ pc[r] = "drain" /\ pc'[r] = "round" /\ answer' = answer
             \/ DrainEnds(r) /\ pc[r] = "drain" /\ pc'[r] = "respond" /\ answer' = answer
             \/ Responds(r) /\ pc[r] = "respond" /\ pc'[r] = "done"
             \/ /\ pc[r] \notin {"drain", "round", "respond", "done"}
                /\ pc'[r] = "respond" => ~req[r].sync
                /\ answer'[r] = answer[r] \/ answer'[r] # 200
                /\ ~Drain(r) /\ (pc'[r] = "flying" \/ ~Enforce(r))
        BY HandleMoves DEF Answered
    <1>4. \A q \in Requests \ {r} : Published(q)' = Published(q)
        BY <1>1, AddsPublished DEF Published
    <1>5. \A q \in Requests : q # r => (q \in flight'.for => q \in flight.for)
        <2>1. flight.for \subseteq Requests BY DEF Structure, Shapes
        <2>2. FlightJoined(r) => flight'.for \in {flight.for \cup {r}, {r}}
            BY DEF FlightJoined, Structure, Shapes
        <2> QED BY <1>1, <2>2
    <1>6. commit'.pc # "idle" => commit' = commit \/ (Drain(r) /\ commit'.by = r)
        BY <1>1 DEF CommitBegins
    <1>7. ASSUME NEW q \in Requests \ {r} PROVE Durable(q)'
        BY <1>1, <1>2, <1>3, <1>4, <1>5, <1>6, DurableStays
    <1>8. Durable(r)'
        <2>1. Holds(tree, r)'
            <3>1. CASE UNCHANGED <<log, tree>>
                BY <1>1, <3>1 DEF Durable, Holds, Published, Places, Path
            <3>2. CASE Adds(r)
                <4>1. \A v \in Published(r) : \E p \in Places(r) : tree'[p] >= v
                    <5>1. \A p \in Places(r) : tree[p] \in Nat /\ tree'[p] \in Nat /\ tree'[p] >= tree[p]
                        <6>1. tree \in Tree /\ tree' \in Tree /\ Places(r) \subseteq Paths
                            BY DEF Structure, Shapes, Places
                        <6> QED BY <1>2, <6>1 DEF Tree, Grows
                    <5>2. \A v \in Published(r) : v \in Nat BY Numbers DEF Published
                    <5> QED BY <5>1, <5>2 DEF Durable, Holds
                <4>2. \A v \in Published(r)' : \E p \in Places(r) : tree'[p] >= v
                    BY <3>2, <4>1, AddsPublished
                <4> QED BY <1>1, <4>2 DEF Holds, Places, Path
            <3> QED BY <1>1, <3>1, <3>2
        <2>2. CASE Drain(r) /\ pc[r] = "drain" /\ pc'[r] = "round" /\ answer' = answer
            <3>1. CommitBegins(r) /\ UNCHANGED <<log, flight>> BY <2>2 DEF Drain, CommitBegins
            <3>2. commit'.tree = tree /\ tree' = tree BY <3>1 DEF CommitBegins
            <3> QED BY <2>1, <2>2, <3>1, <3>2 DEF Durable, Holds
        <2>3. CASE DrainEnds(r) /\ pc[r] = "drain" /\ pc'[r] = "respond" /\ answer' = answer
            <3>1. UNCHANGED gateVars /\ ~Dirty /\ commit.pc = "idle" BY <2>3 DEF DrainEnds
            <3>2. tree = hist[sha] /\ sha \in DOMAIN hist BY <3>1, Numbers DEF Dirty, Beyond
            <3>3. Landed(r)' BY <1>1, <2>1, <3>1, <3>2 DEF Landed, Holds, gateVars
            <3> QED BY <2>1, <2>3, <3>1, <3>3 DEF Durable, gateVars
        <2>4. CASE Responds(r) /\ pc[r] = "respond" /\ pc'[r] = "done"
            <3>1. UNCHANGED gateVars /\ UNCHANGED req BY <2>4 DEF Responds, clientVars
            <3>2. Landed(r) => Landed(r)' BY <3>1 DEF Landed, Published, Places, Path, gateVars
            <3> QED BY <2>1, <2>4, <3>1, <3>2 DEF Durable, gateVars
        <2>5. CASE /\ pc[r] \notin {"drain", "round", "respond", "done"}
                   /\ pc'[r] = "respond" => ~req[r].sync
                   /\ answer'[r] = answer[r] \/ answer'[r] # 200
                   /\ ~Drain(r) /\ (pc'[r] = "flying" \/ ~Enforce(r))
            <3>1. commit' = commit BY <1>1, <2>5
            <3>2. r \in flight'.for => pc'[r] = "flying"
                <4>1. CASE Enforce(r) BY <2>5, <4>1
                <4>2. CASE ~Enforce(r)
                    <5>1. flight' = flight BY <1>1, <4>2
                    <5>2. r \in flight.for => pc[r] = "flying" BY DEF Durable
                    <5>3. pc[r] # "flying"
                        BY DEF Handle, ClientReads, RevisionHeader, ReadAgain, Precondition, Place, PlaceOverLink,
                               Enforce, Loads, UploadFails, Cleanup, CleanupSkipped, Applies, FailsUnspent,
                               Drain, DrainEnds, Responds, At
                    <5> QED BY <5>1, <5>2, <5>3
                <4> QED BY <4>1, <4>2
            <3> QED BY <1>1, <2>1, <2>5, <3>1, <3>2 DEF Durable
        <2> QED BY <1>3, <2>2, <2>3, <2>4, <2>5
    <1> QED BY <1>7, <1>8

LEMMA BackgroundDurable ==
    ASSUME Structure, Structure', Verified, Answered, Beyond, "staleload" \notin Races,
           Works \/ Peers, \A q \in Requests : Durable(q)
    PROVE  \A q \in Requests : Durable(q)'
    <1>1. Grows BY WorkBeyond
    <1>2. req' = req
        BY DEF Works, Peers, FlightLands, Applied, Failed, clientVars
    <1>3. pc \in [Requests -> Stages] /\ answer \in [Requests -> Statuses] BY DEF Verified, Answered
    <1>4. CASE FlightLands
        <2>1. UNCHANGED <<log, hist, commit>> /\ flight'.for = {} BY <1>4 DEF FlightLands, NoFlight
        <2>2. \A q \in Requests : q \notin flight.for => pc'[q] = pc[q] /\ answer'[q] = answer[q]
            BY <1>3, <1>4 DEF FlightLands
        <2>3. \A q \in Requests : q \in flight.for =>
                 pc'[q] \in {"load", "cleanup", "done"} /\ (answer'[q] = 412 \/ answer'[q] = answer[q])
            BY <1>3, <1>4 DEF FlightLands
        <2> SUFFICES ASSUME NEW q \in Requests PROVE Durable(q)' OBVIOUS
        <2>4. Published(q)' = Published(q) /\ HistKept BY <2>1 DEF Published, HistKept
        <2>5. CASE q \notin flight.for BY <1>1, <1>2, <2>1, <2>2, <2>4, <2>5, DurableStays
        <2>6. CASE q \in flight.for
            <3>1. pc[q] = "flying" /\ answer[q] # 200 /\ ~(commit.pc # "idle" /\ commit.by = q)
                BY <2>6 DEF Durable
            <3>2. Holds(tree, q)' BY <1>1, <1>2, <2>4, HoldsGrows DEF Durable, Holds
            <3> QED BY <1>2, <2>1, <2>3, <2>6, <3>1, <3>2 DEF Durable
        <2> QED BY <2>5, <2>6
    <1>5. CASE Applied \/ Failed
        <2>1. UNCHANGED <<log, hist, flight>> /\ commit'.pc = "idle"
            BY <1>5 DEF Applied, Failed, CommitApplies, PushFails, NoCommit
        <2>2. \A q \in Requests : Published(q)' = Published(q) BY <2>1 DEF Published
        <2>3. HistKept BY <2>1 DEF HistKept
        <2>4. \A q \in Requests : q # commit.by => pc'[q] = pc[q] /\ answer'[q] = answer[q]
            BY <1>3, <1>5 DEF Applied, Failed, Answers, To, handlerVars
        <2> SUFFICES ASSUME NEW q \in Requests PROVE Durable(q)' OBVIOUS
        <2>5. CASE q # commit.by BY <1>1, <1>2, <2>1, <2>2, <2>3, <2>4, <2>5, DurableStays
        <2>6. CASE q = commit.by
            <3>1. commit.pc # "idle" BY <1>5 DEF Applied, Failed, CommitApplies, PushFails
            <3>2. pc[q] = "round" /\ Holds(commit.tree, q) /\ answer[q] # 200 /\ q \notin flight.for
                BY <2>6, <3>1 DEF Durable
            <3>3. Holds(tree, q)' BY <1>1, <1>2, <2>2, HoldsGrows DEF Durable, Holds
            <3>4. CASE Applied
                <4>1. pc'[q] = "respond" /\ answer' = answer /\ commit.pc = "apply"
                    BY <1>3, <2>6, <3>4 DEF Applied, CommitApplies, handlerVars
                <4>2. commit.prev \in DOMAIN hist /\ commit.work = hist[commit.prev]
                    BY <4>1, Numbers DEF Beyond, Top
                <4>3. Landed(q)
                    <5>1. \A p \in Places(q) : /\ commit.tree[p] \in Nat /\ commit.work[p] \in Nat
                                               /\ commit.tree[p] <= commit.work[p]
                        BY <3>1, Numbers DEF Beyond
                    <5>2. \A v \in Published(q) : v \in Nat BY Numbers DEF Published
                    <5> QED BY <3>2, <4>2, <5>1, <5>2 DEF Landed, Holds
                <4>4. Landed(q)' BY <1>2, <2>1, <2>2, <4>3 DEF Landed, Places, Path
                <4> QED BY <2>1, <3>2, <3>3, <4>1, <4>4 DEF Durable
            <3>5. CASE Failed
                <4>1. pc'[q] = "done" /\ answer'[q] = 500
                    BY <1>3, <2>6, <3>5 DEF Failed, Answers, To
                <4> QED BY <2>1, <3>2, <3>3, <4>1 DEF Durable
            <3> QED BY <1>5, <3>4, <3>5
        <2> QED BY <2>5, <2>6
    <1>6. CASE (CommitBegins(Loop) \/ CommitPublishes \/ CommitRebases)
               /\ UNCHANGED <<clientVars, pc, handlerVars>>
        <2>1. UNCHANGED <<log, flight, pc, answer>> BY <1>6 DEF CommitBegins, CommitPublishes, CommitRebases, handlerVars
        <2>2. commit'.by = Loop \/ (commit'.by = commit.by /\ commit'.tree = commit.tree /\ commit.pc # "idle")
            <3>1. commit \in CommitShape BY DEF Structure, Shapes, CommitShape
            <3>2. CASE CommitBegins(Loop) BY <3>2 DEF CommitBegins
            <3>3. CASE CommitPublishes \/ CommitRebases
                <4>1. /\ commit.pc = "publish"
                      /\ \/ commit' = [commit EXCEPT !.pc = "apply", !.prev = Tip + 1]
                         \/ \E w : commit' = [commit EXCEPT !.prev = Tip, !.tries = @ + 1, !.work = w]
                    BY <3>3 DEF CommitPublishes, CommitRebases
                <4> QED BY <3>1, <4>1 DEF CommitShape
            <3> QED BY <1>6, <3>2, <3>3
        <2>3. Loop \notin Requests BY WritersAssumption
        <2>4. HistKept
            <3>1. hist' = hist \/ hist' = Append(hist, commit.work)
                BY <1>6 DEF CommitBegins, CommitPublishes, CommitRebases
            <3>2. CommitPublishes => commit.work \in Tree
                BY DEF CommitPublishes, Structure, Versions
            <3>3. hist \in Seq(Tree) BY DEF Structure, Shapes
            <3>4. CASE CommitPublishes
                BY <3>2, <3>3, <3>4 DEF HistKept, CommitPublishes
            <3>5. CASE CommitBegins(Loop) \/ CommitRebases
                BY <3>5 DEF HistKept, CommitBegins, CommitRebases
            <3> QED BY <1>6, <3>4, <3>5
        <2> QED BY <1>1, <1>2, <2>1, <2>2, <2>3, <2>4, DurableStays DEF Published
    <1>7. CASE Peers
        <2>1. PICK p \in Paths : PeerCommits(p) /\ UNCHANGED <<pc, answer, flight, commit>>
            BY <1>7 DEF Peers, PeerCommits, handlerVars
        <2>2. HistKept
            <3> DEFINE new == [hist[Tip] EXCEPT ![p] = Len(log) + 1]
            <3>1. hist' = Append(hist, new) BY <2>1 DEF PeerCommits
            <3>2. hist \in Seq(Tree \cup {new}) BY DEF Structure, Shapes
            <3> HIDE DEF new
            <3> QED BY <3>1, <3>2 DEF HistKept
        <2>3. \A q \in Requests : Published(q)' = Published(q)
            <3> DEFINE e == [by |-> Peer, kind |-> "file", size |-> 1, from |-> 0, over |-> hist[Tip][p]]
            <3>1. log' = Append(log, e) BY <2>1 DEF PeerCommits
            <3>2. e.by = Peer /\ Peer \notin Requests BY WritersAssumption
            <3> HIDE DEF e
            <3>3. IsSeq(log) /\ DOMAIN log = 1..Len(log) /\ DOMAIN log' = 1..Len(log') /\ Len(log) \in Nat
                BY SeqDomain DEF Structure, Shapes
            <3>4. Len(log') = Len(log) + 1 BY <3>1, <3>3, Appended
            <3>5. (\A v \in 1..Len(log) : log'[v] = log[v]) /\ log'[Len(log) + 1] = e
                BY <3>1, <3>3, AppendedAt
            <3>6. \A v \in DOMAIN log' : v \in DOMAIN log \/ v = Len(log) + 1
                BY <3>3, <3>4
            <3>7. DOMAIN log \subseteq DOMAIN log' BY <3>3, <3>4
            <3>8. \A v \in DOMAIN log : log'[v].by = log[v].by BY <3>3, <3>5
            <3> QED BY <3>2, <3>5, <3>6, <3>7, <3>8 DEF Published
        <2> QED BY <1>1, <1>2, <2>1, <2>2, <2>3, DurableStays
    <1> QED BY <1>4, <1>5, <1>6, <1>7 DEF Works

LEMMA AnsweredKeeps ==
    ASSUME Answered, [Next]_vars
    PROVE  Answered'
    <1>1. ASSUME NEW r \in Requests, Handle(r) PROVE Answered'
        <2>1. \E a \in Statuses : answer' = answer \/ answer' = [answer EXCEPT ![r] = a]
            BY <1>1 DEF Handle, ClientReads, RevisionHeader, ReadAgain, Precondition, Place, PlaceOverLink, PlaceEmpty,
                   Enforce, Loads, UploadFails, Cleanup, CleanupSkipped, Applies, FailsUnspent,
                   Drain, DrainEnds, Responds, Fails, Answers, handlerVars, Statuses,
                   FailsInside, PatchFails, RenameFails, CreateFails, MissingFails
        <2> QED BY <2>1 DEF Answered
    <1>2. CASE Works \/ Peers
        BY <1>2 DEF Works, Peers, FlightLands, Applied, Failed, Answers, Answered, Statuses, handlerVars
    <1>3. CASE UNCHANGED still BY <1>3 DEF still, handlerVars, Answered
    <1> QED BY <1>1, <1>2, <1>3, NextCases

LEMMA StepDurable ==
    ASSUME Structure, Structure', Verified, Answered, Beyond, "staleload" \notin Races,
           [Next]_vars, \A q \in Requests : Durable(q)
    PROVE  \A q \in Requests : Durable(q)'
    <1>1. CASE UNCHANGED still
        BY <1>1 DEF still, clientVars, handlerVars, Durable, Holds, Landed, Published, Places, Path
    <1> QED BY <1>1, HandleDurable, BackgroundDurable, NextCases

LEMMA DurableStarts == Init => Beyond /\ Answered /\ \A q \in Requests : Durable(q)
    <1> SUFFICES ASSUME Init PROVE Beyond /\ Answered /\ \A q \in Requests : Durable(q) OBVIOUS
    <1>1. PICK c \in Cases : GateInit(c.tree, c.left) /\ req = c.req BY DEF Init
    <1>2. /\ tree = c.tree /\ base = c.tree /\ hist = <<c.tree>> /\ sha = 1
          /\ commit.pc = "idle" /\ ~flight.on /\ flight.for = {}
        BY <1>1 DEF GateInit, NoCommit, NoFlight
    <1>3. answer = [r \in Requests |-> 0] /\ \A r \in Requests : pc[r] \in {"read", "sent"} BY DEF Init
    <1>4. Structure BY GateStarts
    <1>5. Beyond
        <2>1. Len(hist) = 1 /\ \A p \in Paths : hist[1][p] \in Nat BY <1>2, <1>4, Numbers
        <2> QED BY <1>2, <2>1 DEF Beyond, Top
    <1>6. \A r \in Requests : Published(r) = {}
        <2> DEFINE v(k, n) == [by |-> Nobody, kind |-> k, size |-> n, from |-> 0, over |-> 0]
        <2>1. log = <<v("gone", 0), v("file", 1), v("link", 1)>> BY <1>1 DEF GateInit
        <2>2. \A k, n : v(k, n).by = Nobody OBVIOUS
        <2> HIDE DEF v
        <2>3. \A i \in DOMAIN log : log[i].by = Nobody BY <2>1, <2>2
        <2> QED BY <2>3, WritersAssumption DEF Published
    <1> QED BY <1>2, <1>3, <1>5, <1>6 DEF Durable, Holds, Answered, Statuses

\* A mutation answered with ?sync=1 is committed, and no load takes the cached tree back
\* behind a revision it stood on, for any number of requests, commits and other hubs,
\* provided that no commit lands while a load is on its way (maybeDrain,
\* storeRepoMetadata).
THEOREM CommitsAlwaysKept ==
    ASSUME "staleload" \notin Races
    PROVE  Spec => CommitsKept
    <1> DEFINE Inv == /\ Structure /\ Used /\ Verified /\ Answered /\ Beyond
                      /\ \A q \in Requests : Durable(q)
    <1>1. Init => Inv BY GateStarts, DurableStarts
    <1>2. Inv /\ [Next]_vars => Inv'
        <2> SUFFICES ASSUME Inv, [Next]_vars PROVE Inv' OBVIOUS
        <2>1. Structure' /\ Used' /\ Verified' BY GateKept, StepVerified DEF Kept
        <2> QED BY <2>1, AnsweredKeeps, StepBeyond, StepDurable
    <1>3. Inv => SyncDurable BY DEF Durable, Landed, Places, SyncDurable
    <1>4. Inv /\ Inv' /\ [Next]_vars =>
             [flight.on /\ flight' = NoFlight => sha' >= sha /\ \A p \in Paths : tree'[p] >= tree[p]]_vars
        <2> SUFFICES ASSUME Inv, Inv', [Next]_vars, flight.on, flight' = NoFlight
                     PROVE  sha' >= sha /\ \A p \in Paths : tree'[p] >= tree[p]
            OBVIOUS
        <2>1. Grows BY StepBeyond
        <2>2. sha \in Nat /\ sha' \in Nat BY DEF Structure, Shapes
        <2>3. sha' >= sha
            <3>1. CASE FlightLands
                BY <2>2, <3>1 DEF FlightLands, Store, Structure, Forward
            <3>2. CASE ~FlightLands
                <4>1. ~flight'.on BY DEF NoFlight
                <4>2. \A r \in Requests : FlightJoined(r) => flight'.on
                    BY DEF FlightJoined, Structure, Shapes
                <4>3. \A r \in Requests : Handle(r) => sha' = sha BY HandleWrites
                <4>4. CASE Works
                    BY <2>2, <3>2, <4>4, AppliesKeep DEF Works, Applied, Failed, CommitBegins, CommitPublishes,
                       CommitRebases, CommitApplies, PushFails, Structure, Forward
                <4>5. CASE Peers \/ UNCHANGED still
                    <5>1. sha' = sha BY <4>5 DEF Peers, PeerCommits, still
                    <5> QED BY <2>2, <5>1
                <4> QED BY <2>2, <4>3, <4>4, <4>5, NextCases
            <3> QED BY <3>1, <3>2
        <2> QED BY <2>1, <2>3 DEF Grows
    <1>5. Spec => []Inv
        BY <1>1, <1>2, PTL DEF Spec
    <1> QED BY <1>3, <1>4, <1>5, PTL DEF Spec, CommitsKept, NoRegress

-----------------------------------------------------------------------------
(* What a request has seen, and what it leaves behind.                      *)

Early == {"read", "header", "sent"}

\* Every path has a version; where a request is conditional there are no links.
Asked == \E r \in Requests : Conditional(r)
Plain(t) == \A p \in Paths : 1 <= t[p] /\ (Asked => t[p] # 3)
Kinds == {"gone", "file", "link"}
Rooted ==
    /\ 3 <= Len(log)
    /\ Plain(tree) /\ Plain(base) /\ \A h \in 1..Len(hist) : Plain(hist[h])
    /\ commit.pc # "idle" => Plain(commit.tree) /\ Plain(commit.work)
    /\ flight.on => Plain(flight.tree)
    /\ \A v \in 1..Len(log) : log[v].kind \in Kinds
    /\ Asked => \A v \in 1..Len(log) : log[v].kind = "link" => v = 3

\* What is known of a request is a version or a revision there is.
Registers ==
    /\ tok \in [Requests -> Nat] /\ saw \in [Requests -> Nat] /\ met \in [Requests -> Nat]
    /\ snap \in [Requests -> Nat] /\ made \in [Requests -> Nat] /\ done \subseteq Requests
Ranged ==
    /\ Registers
    /\ \A r \in Requests : /\ tok[r] <= sha /\ saw[r] <= Len(log) /\ met[r] <= Len(log)
                           /\ snap[r] <= Len(log) /\ made[r] <= Len(log)
    /\ commit.prev <= Len(hist) /\ flight.sha <= Len(hist)

\* What a version is, and what it is put over: what stands at the path of the request,
\* or what stands where a copy or a rename lands.
NewEntries(r) ==
    \A v \in 1..Len(log') : v \notin 1..Len(log) =>
        /\ log'[v].kind \in {"gone", "file"} \/ \E p \in Paths : log'[v].kind = log[tree[p]].kind
        /\ \E p \in Paths : log'[v].over = tree[p]
        /\ \/ log'[v].over = tree[Path(r)]
           \/ req[r].verb = "copy"
           \/ req[r].verb = "rename" /\ ~Exists(log'[v].over)

LEMMA PublishEntries ==
    ASSUME Structure, NEW r \in Requests, NEW p \in Paths, NEW kind, NEW size, NEW from,
           Publish(r, p, kind, size, from),
           kind \in {"gone", "file"} \/ \E q \in Paths : kind = log[tree[q]].kind,
           p = Path(r) \/ req[r].verb = "copy"
    PROVE  NewEntries(r)
    <1> DEFINE e == [by |-> r, kind |-> kind, size |-> size, from |-> from, over |-> tree[p]]
    <1>1. log' = Append(log, e) BY DEF Publish
    <1>2. e.kind = kind /\ e.over = tree[p] OBVIOUS
    <1> HIDE DEF e
    <1>3. IsSeq(log) BY DEF Structure, Shapes
    <1>4. Len(log') = Len(log) + 1 /\ Len(log) \in Nat BY <1>1, <1>3, Appended
    <1>5. log'[Len(log) + 1] = e BY <1>1, <1>3, AppendedAt
    <1>6. \A v \in 1..Len(log') : v \notin 1..Len(log) => v = Len(log) + 1 BY <1>4
    <1>7. \A v \in 1..Len(log') : v \notin 1..Len(log) =>
             log'[v].kind = kind /\ log'[v].over = tree[p]
        BY <1>2, <1>5, <1>6
    <1> QED BY <1>7 DEF NewEntries

LEMMA RenameEntries ==
    ASSUME Structure, NEW r \in Requests, Rename(r), req[r].verb = "rename", ~Exists(tree[req[r].to])
    PROVE  NewEntries(r)
    <1> DEFINE one == [by |-> r, kind |-> "gone", size |-> 0, from |-> 0, over |-> Here(r)]
               two == [by |-> r, kind |-> log[Here(r)].kind, size |-> Size(Here(r)),
                       from |-> 0, over |-> tree[req[r].to]]
    <1>1. log' = log \o <<one, two>> BY DEF Rename
    <1>2. /\ one.kind = "gone" /\ one.over = Here(r)
          /\ two.kind = log[Here(r)].kind /\ two.over = tree[req[r].to]
        OBVIOUS
    <1> HIDE DEF one, two
    <1>3. IsSeq(log) /\ Path(r) \in Paths /\ req[r].to \in Paths BY DEF Structure, Shapes
    <1>4. IsSeq(<<one, two>>) /\ Len(<<one, two>>) = 2
        <2>1. <<one, two>> \in Seq({one, two}) OBVIOUS
        <2> QED BY <2>1 DEF IsSeq
    <1>5. Len(log') = Len(log) + 2 /\ Len(log) \in Nat BY <1>1, <1>3, <1>4, Extended
    <1>6. log'[Len(log) + 1] = one /\ log'[Len(log) + 2] = two BY <1>1, <1>3, ExtendedAt
    <1>7. \A v \in 1..Len(log') : v \notin 1..Len(log) => v = Len(log) + 1 \/ v = Len(log) + 2
        BY <1>5
    <1> QED BY <1>2, <1>3, <1>6, <1>7 DEF NewEntries, Here

LEMMA EffectEntries ==
    ASSUME Structure, NEW r \in Requests, Effect(r), FailsInside(r) = 0
    PROVE  NewEntries(r)
    <1>1. Path(r) \in Paths /\ req[r].to \in Paths BY DEF Structure, Shapes
    <1>2. CASE req[r].verb = "rename" /\ Rename(r)
        <2>1. FailsInside(r) = RenameFails(r) BY <1>2 DEF FailsInside, Patches
        <2>2. ~Exists(tree[req[r].to]) BY <2>1 DEF RenameFails
        <2> QED BY <1>2, <2>2, RenameEntries
    <1>3. CASE ReplaceFile(r) BY <1>1, <1>3, PublishEntries DEF ReplaceFile
    <1>4. CASE CreateFile(r) BY <1>1, <1>4, PublishEntries DEF CreateFile
    <1>5. CASE Chmod(r) BY <1>1, <1>5, PublishEntries DEF Chmod, Here
    <1>6. CASE req[r].verb = "copy" /\ Copy(r) BY <1>1, <1>6, PublishEntries DEF Copy
    <1>7. CASE DeleteFile(r) BY <1>1, <1>7, PublishEntries DEF DeleteFile
    <1>8. CASE ZeroExtend(r) BY <1>1, <1>8, PublishEntries DEF ZeroExtend
    <1>9. CASE WriteAt(r) BY <1>1, <1>9, PublishEntries DEF WriteAt
    <1>10. CASE AppendFile(r) BY <1>1, <1>10, PublishEntries DEF AppendFile
    <1> QED BY <1>2, <1>3, <1>4, <1>5, <1>6, <1>7, <1>8, <1>9, <1>10 DEF Effect

\* Every version a handler publishes.
LEMMA HandleEntries ==
    ASSUME Structure, NEW r \in Requests, Handle(r)
    PROVE  (Adds(r) /\ NewEntries(r)) \/ UNCHANGED <<log, tree>>
    <1>1. CASE Place(r) \/ PlaceOverLink(r) \/ Cleanup(r)
        <2>1. \/ UNCHANGED <<log, tree>>
              \/ Publish(r, Path(r), "file", 0, 0) \/ Publish(r, Path(r), "gone", 0, 0)
            BY <1>1 DEF Place, PlaceOverLink, PlaceEmpty, Cleanup
        <2>2. Path(r) \in Places(r) /\ Path(r) \in Paths BY DEF Places, Structure, Shapes
        <2> QED BY <2>1, <2>2, PublishAdds, PublishEntries
    <1>2. CASE Applies(r)
        <2>1. (Effect(r) /\ FailsInside(r) = 0) \/ UNCHANGED <<log, tree>> BY <1>2 DEF Applies
        <2> QED BY <2>1, EffectAdds, EffectEntries
    <1>3. CASE ~(Place(r) \/ PlaceOverLink(r) \/ Cleanup(r) \/ Applies(r))
        BY <1>3 DEF Handle, ClientReads, RevisionHeader, ReadAgain, Precondition, Loads, CleanupSkipped,
                     FailsUnspent, DrainEnds, Responds, UploadFails, Enforce, Drain, CommitBegins,
                     gateVars
    <1> QED BY <1>1, <1>2, <1>3

LEMMA HandleRooted ==
    ASSUME Structure, Structure', Rooted, NEW r \in Requests, Handle(r)
    PROVE  Rooted'
    <1>1. (Adds(r) /\ NewEntries(r)) \/ UNCHANGED <<log, tree>> BY HandleEntries
    <1>2. /\ UNCHANGED <<base, sha, hist, req>>
          /\ \/ UNCHANGED <<commit, flight>>
             \/ FlightJoined(r) /\ commit' = commit
             \/ CommitBegins(r) /\ flight' = flight /\ tree' = tree
        BY HandleWrites DEF CommitBegins
    <1>3. Asked' <=> Asked BY <1>2 DEF Asked, Conditional
    <1>4. Len(log) \in Nat /\ Len(log') \in Nat /\ \A p \in Paths : tree[p] \in 1..Len(log) /\ tree'[p] \in Nat
        <2>1. \A p \in Paths : tree'[p] \in Nat BY DEF Structure, Shapes, Tree
        <2>2. Len(log') \in Nat BY SeqDomain DEF Structure, Shapes
        <2>3. \A p \in Paths : 1 <= tree[p] BY DEF Rooted, Plain
        <2> QED BY <2>1, <2>2, <2>3, Numbers
    <1>5. 3 <= Len(log') BY <1>1, <1>4 DEF Rooted, Adds
    <1>6. Plain(tree)'
        <2>1. \A p \in Paths : tree'[p] = tree[p] \/ tree'[p] > Len(log) BY <1>1 DEF Adds
        <2> QED BY <1>3, <1>4, <2>1 DEF Rooted, Plain
    <1>7. /\ \A v \in 1..Len(log') : log'[v].kind \in Kinds
          /\ Asked => \A v \in 1..Len(log') : log'[v].kind = "link" => v = 3
        <2>1. CASE UNCHANGED log BY <2>1 DEF Rooted
        <2>2. CASE Adds(r) /\ NewEntries(r)
            <3>1. \A p \in Paths : /\ log[tree[p]].kind \in Kinds
                                   /\ Asked => log[tree[p]].kind # "link"
                BY <1>4 DEF Rooted, Plain
            <3> QED BY <2>2, <3>1 DEF Rooted, Adds, NewEntries, Kinds
        <2> QED BY <1>1, <2>1, <2>2
    <1>8. Plain(base)' /\ \A h \in 1..Len(hist') : Plain(hist[h])'
        BY <1>2, <1>3 DEF Rooted, Plain
    <1>9. flight'.on => Plain(flight.tree)'
        <2>1. CASE flight' = flight BY <1>3, <2>1 DEF Rooted, Plain
        <2>2. CASE FlightJoined(r)
            <3>1. flight \in [on : BOOLEAN, sha : Nat, tree : Tree \cup {<<>>}, for : SUBSET Requests]
                BY DEF Structure, Shapes
            <3>2. \/ flight.on /\ flight'.tree = flight.tree
                  \/ flight'.tree = hist[Len(hist)]
                BY <2>2, <3>1 DEF FlightJoined, Tip
            <3>3. Len(hist) \in 1..Len(hist) BY Numbers
            <3> QED BY <1>3, <3>2, <3>3 DEF Rooted, Plain
        <2> QED BY <1>2, <2>1, <2>2
    <1>10. commit'.pc # "idle" => Plain(commit.tree)' /\ Plain(commit.work)'
        BY <1>2, <1>3, <1>6 DEF Rooted, Plain, CommitBegins
    <1> QED BY <1>3, <1>5, <1>6, <1>7, <1>8, <1>9, <1>10 DEF Rooted

LEMMA BackgroundRooted ==
    ASSUME Structure, Structure', Rooted, Works \/ Peers
    PROVE  Rooted'
    <1>1. req' = req BY DEF Works, Peers, FlightLands, Applied, Failed, clientVars
    <1>2. Asked' <=> Asked BY <1>1 DEF Asked, Conditional
    <1>3. CASE FlightLands
        BY <1>2, <1>3 DEF FlightLands, Store, NoFlight, Rooted, Plain
    <1>4. CASE Applied \/ Failed
        <2>1. commit'.pc = "idle" /\ UNCHANGED <<log, hist, flight>>
            BY <1>4 DEF Applied, Failed, CommitApplies, PushFails, NoCommit
        <2>2. Plain(tree)' /\ Plain(base)'
            BY <1>2, <1>4 DEF Applied, Failed, CommitApplies, PushFails, Rooted, Plain
        <2> QED BY <1>2, <2>1, <2>2 DEF Rooted, Plain
    <1>5. CASE CommitBegins(Loop)
        BY <1>2, <1>5 DEF CommitBegins, Rooted, Plain
    <1>6. CASE CommitPublishes
        <2>1. /\ commit.pc = "publish" /\ hist' = Append(hist, commit.work)
              /\ commit' = [commit EXCEPT !.pc = "apply", !.prev = Len(hist) + 1]
              /\ UNCHANGED <<log, tree, base, flight>>
            BY <1>6 DEF CommitPublishes, Tip
        <2>2. commit'.tree = commit.tree /\ commit'.work = commit.work
            <3>1. commit \in CommitShape BY DEF Structure, Shapes, CommitShape
            <3> QED BY <2>1, <3>1 DEF CommitShape
        <2>3. \A h \in 1..Len(hist') : (hist'[h] = hist[h] /\ h \in 1..Len(hist)) \/ hist'[h] = commit.work
            <3>1. hist \in Seq(Tree) /\ commit.work \in Tree
                BY <2>1 DEF Structure, Shapes, Versions
            <3> QED BY <2>1, <3>1
        <2> QED BY <1>2, <2>1, <2>2, <2>3 DEF Rooted, Plain
    <1>7. CASE CommitRebases
        <2> DEFINE work == [p \in Paths |->
                   IF commit.tree[p] # base[p] /\ ~(hist[Tip][p] # base[p] /\ Exists(hist[Tip][p])
                                                    /\ hist[Tip][p] > commit.tree[p])
                   THEN commit.tree[p] ELSE hist[Tip][p]]
        <2>1. /\ commit.pc = "publish" /\ commit' = [commit EXCEPT !.prev = Tip, !.tries = @ + 1, !.work = work]
              /\ UNCHANGED <<log, tree, base, sha, hist, flight>>
            BY <1>7 DEF CommitRebases
        <2>2. \A p \in Paths : work[p] \in {commit.tree[p], hist[Tip][p]} OBVIOUS
        <2> HIDE DEF work
        <2>3. commit'.tree = commit.tree /\ commit'.work = work
            <3>1. commit \in CommitShape BY DEF Structure, Shapes, CommitShape
            <3> QED BY <2>1, <3>1 DEF CommitShape
        <2>4. Tip \in 1..Len(hist) BY Numbers DEF Tip
        <2>5. Plain(work) BY <2>1, <2>2, <2>4 DEF Rooted, Plain
        <2> QED BY <1>2, <2>1, <2>3, <2>5 DEF Rooted, Plain
    <1>8. CASE Peers
        <2>1. PICK p \in Paths : PeerCommits(p) BY <1>8 DEF Peers
        <2> DEFINE e == [by |-> Peer, kind |-> "file", size |-> 1, from |-> 0, over |-> hist[Tip][p]]
                   new == [hist[Tip] EXCEPT ![p] = Len(log) + 1]
        <2>2. log' = Append(log, e) /\ hist' = Append(hist, new) /\ UNCHANGED <<tree, base, commit, flight>>
            BY <2>1 DEF PeerCommits
        <2>3. e.kind = "file" OBVIOUS
        <2> HIDE DEF e
        <2>4. hist[Tip] \in Tree /\ Tip \in 1..Len(hist) /\ Len(log) \in Nat
            BY Numbers DEF Tip, Structure, Shapes
        <2>5. \A q \in Paths : new[q] = hist[Tip][q] \/ new[q] = Len(log) + 1
            BY <2>4 DEF Tree
        <2>6. Plain(new) BY <2>4, <2>5 DEF Rooted, Plain
        <2> HIDE DEF new
        <2>7. \A h \in 1..Len(hist') : (hist'[h] = hist[h] /\ h \in 1..Len(hist)) \/ hist'[h] = new
            <3>1. hist \in Seq(Tree \cup {new}) BY DEF Structure, Shapes
            <3> QED BY <2>2, <3>1
        <2>8. IsSeq(log) BY DEF Structure, Shapes
        <2>9. Len(log') = Len(log) + 1 /\ \A v \in 1..Len(log) : log'[v] = log[v]
            BY <2>2, <2>8, Appended, AppendedAt
        <2>10. log'[Len(log) + 1] = e BY <2>2, <2>8, AppendedAt
        <2>11. \A v \in 1..Len(log') : v \in 1..Len(log) \/ v = Len(log) + 1 BY <2>4, <2>9
        <2>12. /\ \A v \in 1..Len(log') : log'[v].kind \in Kinds
               /\ Asked => \A v \in 1..Len(log') : log'[v].kind = "link" => v = 3
            BY <2>3, <2>9, <2>10, <2>11 DEF Rooted, Kinds
        <2>13. 3 <= Len(log') BY <2>4, <2>9 DEF Rooted
        <2>14. \A h \in 1..Len(hist') : Plain(hist[h])' BY <1>2, <2>6, <2>7 DEF Rooted, Plain
        <2>15. /\ Plain(tree)' /\ Plain(base)'
               /\ commit'.pc # "idle" => Plain(commit.tree)' /\ Plain(commit.work)'
               /\ flight'.on => Plain(flight.tree)'
            BY <1>2, <2>2 DEF Rooted, Plain
        <2> QED BY <1>2, <2>12, <2>13, <2>14, <2>15 DEF Rooted
    <1> QED BY <1>3, <1>4, <1>5, <1>6, <1>7, <1>8 DEF Works

-----------------------------------------------------------------------------
(* What a step of a handler may say of a request.                           *)

\* Only what is its own, and only what there is.
Own(r) ==
    /\ \A q \in Requests \ {r} :
          /\ tok'[q] = tok[q] /\ saw'[q] = saw[q] /\ gate'[q] = gate[q] /\ met'[q] = met[q]
          /\ snap'[q] = snap[q] /\ made'[q] = made[q] /\ (q \in done' <=> q \in done)
    /\ tok'[r] \in {tok[r], sha}
    /\ saw'[r] \in {saw[r], Here(r)} /\ met'[r] \in {met[r], Here(r)} /\ snap'[r] \in {snap[r], Here(r)}
    /\ made'[r] = made[r] \/ (made'[r] = Len(log) + 1 /\ Len(log') = Len(log) + 1)

LEMMA PublishLength ==
    ASSUME Structure, NEW r, NEW p, NEW kind, NEW size, NEW from, Publish(r, p, kind, size, from)
    PROVE  Len(log') = Len(log) + 1
    <1> DEFINE e == [by |-> r, kind |-> kind, size |-> size, from |-> from, over |-> tree[p]]
    <1>1. log' = Append(log, e) BY DEF Publish
    <1> HIDE DEF e
    <1> QED BY <1>1, Appended DEF Structure, Shapes

LEMMA HandleFrame ==
    ASSUME Structure, Registers, Verified, NEW r \in Requests, Handle(r)
    PROVE  Registers' /\ Own(r)
    <1>1. Here(r) \in Nat /\ sha \in Nat /\ Len(log) + 1 \in Nat /\ gate \in [Requests -> Nat]
        BY Numbers DEF Structure, Shapes, Here, Verified
    <1>2. CASE ReadAgain(r) \/ Enforce(r) \/ UploadFails(r) \/ Cleanup(r) \/ CleanupSkipped(r)
               \/ FailsUnspent(r) \/ Drain(r) \/ DrainEnds(r) \/ Responds(r)
        <2>1. UNCHANGED <<tok, saw, gate, met, snap, made, done>>
            BY <1>2 DEF ReadAgain, Enforce, UploadFails, Cleanup, CleanupSkipped, FailsUnspent, Drain,
                        DrainEnds, Responds, clientVars, handlerVars
        <2> QED BY <2>1 DEF Registers, Own
    <1>3. CASE ClientReads(r)
        <2>1. saw' = saw \/ saw' = [saw EXCEPT ![r] = Here(r)] BY <1>3 DEF ClientReads
        <2>2. UNCHANGED <<tok, gate, met, snap, made, done>> BY <1>3 DEF ClientReads, handlerVars
        <2> QED BY <1>1, <2>1, <2>2 DEF Registers, Own
    <1>4. CASE RevisionHeader(r)
        <2>1. tok' = [tok EXCEPT ![r] = sha] /\ UNCHANGED <<saw, gate, met, snap, made, done>>
            BY <1>4 DEF RevisionHeader, handlerVars
        <2> QED BY <1>1, <2>1 DEF Registers, Own
    <1>5. CASE Precondition(r)
        <2>1. /\ met' = met \/ met' = [met EXCEPT ![r] = Here(r)]
              /\ gate' = gate \/ \E g : gate' = [gate EXCEPT ![r] = g]
              /\ UNCHANGED <<tok, saw, snap, made, done>>
            BY <1>5 DEF Precondition, clientVars
        <2> QED BY <1>1, <2>1 DEF Registers, Own
    <1>6. CASE Place(r) \/ PlaceOverLink(r)
        <2>1. UNCHANGED <<tok, saw, gate, met, snap, done>>
            BY <1>6 DEF Place, PlaceOverLink, clientVars
        <2>2. \/ made' = made
              \/ made' = [made EXCEPT ![r] = Len(log) + 1] /\ Publish(r, Path(r), "file", 0, 0)
            BY <1>6 DEF Place, PlaceOverLink, PlaceEmpty
        <2> QED BY <1>1, <2>1, <2>2, PublishLength DEF Registers, Own
    <1>7. CASE Loads(r)
        <2>1. snap' = snap \/ snap' = [snap EXCEPT ![r] = Here(r)] BY <1>7 DEF Loads
        <2>2. UNCHANGED <<tok, saw, gate, met, made, done>> BY <1>7 DEF Loads, clientVars
        <2> QED BY <1>1, <2>1, <2>2 DEF Registers, Own
    <1>8. CASE Applies(r)
        <2>1. done' = done \/ done' = done \cup {r} BY <1>8 DEF Applies
        <2>2. UNCHANGED <<tok, saw, gate, met, snap, made>> BY <1>8 DEF Applies, clientVars
        <2> QED BY <2>1, <2>2 DEF Registers, Own
    <1> QED BY <1>2, <1>3, <1>4, <1>5, <1>6, <1>7, <1>8 DEF Handle

\* The log keeps what it holds, and the history too.
Keeps ==
    /\ Len(log) \in Nat /\ Len(log') \in Nat /\ Len(log) <= Len(log')
    /\ Len(hist) \in Nat /\ Len(hist') \in Nat /\ Len(hist) <= Len(hist')
    /\ \A v \in 1..Len(log) : log'[v] = log[v]
    /\ \A h \in 1..Len(hist) : hist'[h] = hist[h]

LEMMA HandleKeeps ==
    ASSUME Structure, Structure', NEW r \in Requests, Handle(r)
    PROVE  Keeps
    <1>1. Adds(r) \/ UNCHANGED <<log, tree>> BY HandleWrites
    <1>2. hist' = hist BY HandleWrites
    <1> QED BY <1>1, <1>2, Numbers DEF Adds, Keeps

\* What the commits, the loads and the other hubs leave alone.
LEMMA BackgroundFrame ==
    ASSUME Structure, Structure', Works \/ Peers
    PROVE  /\ Keeps
           /\ UNCHANGED <<req, tok, saw, gate, met, snap, made, done>>
           /\ \A q \in Requests : Published(q)' = Published(q)
    <1>1. UNCHANGED <<req, tok, saw, gate, met, snap, made, done>>
        BY DEF Works, Peers, FlightLands, Applied, Failed, clientVars, handlerVars
    <1>2. CASE FlightLands \/ Applied \/ Failed
        <2>1. UNCHANGED <<log, hist>>
            BY <1>2 DEF FlightLands, Applied, Failed, CommitApplies, PushFails
        <2> QED BY <1>1, <2>1, Numbers DEF Keeps, Published
    <1>3. CASE CommitBegins(Loop) \/ CommitPublishes \/ CommitRebases
        <2>1. log' = log /\ (hist' = hist \/ (hist' = Append(hist, commit.work) /\ commit.pc = "publish"))
            BY <1>3 DEF CommitBegins, CommitPublishes, CommitRebases
        <2>2. hist \in Seq(Tree) /\ (commit.pc = "publish" => commit.work \in Tree)
            BY DEF Structure, Shapes, Versions
        <2>3. Keeps BY <2>1, <2>2, Numbers DEF Keeps
        <2> QED BY <1>1, <2>1, <2>3 DEF Published
    <1>4. CASE Peers
        <2>1. PICK p \in Paths : PeerCommits(p) BY <1>4 DEF Peers
        <2> DEFINE e == [by |-> Peer, kind |-> "file", size |-> 1, from |-> 0, over |-> hist[Tip][p]]
                   new == [hist[Tip] EXCEPT ![p] = Len(log) + 1]
        <2>2. log' = Append(log, e) /\ hist' = Append(hist, new) BY <2>1 DEF PeerCommits
        <2>3. e.by = Peer /\ Peer \notin Requests BY WritersAssumption
        <2> HIDE DEF e, new
        <2>4. IsSeq(log) /\ IsSeq(hist) BY DEF Structure, Shapes, IsSeq
        <2>5. Keeps BY <2>2, <2>4, Appended, AppendedAt DEF Keeps
        <2>6. DOMAIN log = 1..Len(log) /\ DOMAIN log' = 1..Len(log')
            BY SeqDomain DEF Structure, Shapes
        <2>7. log'[Len(log) + 1].by \notin Requests /\ Len(log') = Len(log) + 1
            BY <2>2, <2>3, <2>4, Appended, AppendedAt
        <2>8. \A v \in 1..Len(log') : v \in 1..Len(log) \/ v = Len(log) + 1 BY <2>5, <2>7 DEF Keeps
        <2>9. 1..Len(log) \subseteq 1..Len(log') BY <2>5 DEF Keeps
        <2>10. \A q \in Requests : Published(q)' = Published(q)
            BY <2>5, <2>6, <2>7, <2>8, <2>9 DEF Keeps, Published
        <2> QED BY <1>1, <2>5, <2>10
    <1> QED BY <1>2, <1>3, <1>4 DEF Works

\* The revision cached here never goes back.
LEMMA StepForward ==
    ASSUME Structure, Structure', "staleload" \notin Races, [Next]_vars
    PROVE  sha \in Nat /\ sha' \in Nat /\ sha <= sha'
    <1>1. sha \in Nat /\ sha' \in Nat BY DEF Structure, Shapes
    <1>2. CASE FlightLands
        BY <1>1, <1>2 DEF FlightLands, Store, Structure, Forward
    <1>3. CASE Applied
        <2>1. CommitApplies /\ req' = req BY <1>3 DEF Applied, clientVars
        <2> QED BY <1>1, <2>1, AppliesKeep
    <1>4. CASE sha' = sha BY <1>1, <1>4
    <1>5. \A r \in Requests : Handle(r) => sha' = sha BY HandleWrites
    <1>6. \/ FlightLands \/ Applied \/ sha' = sha
        BY <1>5, NextCases DEF Works, Failed, PushFails, CommitBegins, CommitPublishes, CommitRebases,
                    Peers, PeerCommits, still
    <1> QED BY <1>2, <1>3, <1>4, <1>6

LEMMA StepRanged ==
    ASSUME Structure, Structure', Verified, Ranged, "staleload" \notin Races, [Next]_vars
    PROVE  Ranged'
    <1>1. sha \in Nat /\ sha' \in Nat /\ sha <= sha' BY StepForward
    <1>2. \A r \in Requests : Here(r) \in Nat /\ Here(r) <= Len(log) BY Numbers DEF Here, Structure, Shapes
    <1>3. commit.prev \in Nat /\ flight.sha \in Nat BY DEF Structure, Shapes
    <1>4. CASE UNCHANGED still
        BY <1>4 DEF still, clientVars, handlerVars, Ranged, Registers
    <1>5. ASSUME NEW r \in Requests, Handle(r) PROVE Ranged'
        <2>1. Registers' /\ Own(r) BY <1>5, HandleFrame DEF Ranged
        <2>2. Keeps BY <1>5, HandleKeeps
        <2>3. \A q \in Requests : /\ tok'[q] <= sha' /\ saw'[q] <= Len(log') /\ met'[q] <= Len(log')
                                  /\ snap'[q] <= Len(log') /\ made'[q] <= Len(log')
            <3> SUFFICES ASSUME NEW q \in Requests
                         PROVE  /\ tok'[q] <= sha' /\ saw'[q] <= Len(log') /\ met'[q] <= Len(log')
                                /\ snap'[q] <= Len(log') /\ made'[q] <= Len(log')
                OBVIOUS
            <3>1. /\ tok[q] <= sha /\ saw[q] <= Len(log) /\ met[q] <= Len(log)
                  /\ snap[q] <= Len(log) /\ made[q] <= Len(log)
                  /\ tok[q] \in Nat /\ saw[q] \in Nat /\ met[q] \in Nat /\ snap[q] \in Nat /\ made[q] \in Nat
                BY DEF Ranged, Registers
            <3>2. \/ tok'[q] = tok[q] /\ saw'[q] = saw[q] /\ met'[q] = met[q] /\ snap'[q] = snap[q] /\ made'[q] = made[q]
                  \/ q = r
                BY <2>1 DEF Own
            <3>3. CASE q # r BY SMTT(30), <1>1, <2>2, <3>1, <3>2, <3>3 DEF Keeps
            <3>4. CASE q = r
                <4>1. /\ tok'[q] \in {tok[q], sha}
                      /\ saw'[q] \in {saw[q], Here(q)} /\ met'[q] \in {met[q], Here(q)} /\ snap'[q] \in {snap[q], Here(q)}
                      /\ made'[q] = made[q] \/ (made'[q] = Len(log) + 1 /\ Len(log') = Len(log) + 1)
                    BY <2>1, <3>4 DEF Own
                <4>2. Here(q) \in Nat /\ Here(q) <= Len(log) BY <1>2
                <4>3. Len(log) \in Nat /\ Len(log') \in Nat /\ Len(log) <= Len(log') BY <2>2 DEF Keeps
                <4>4. tok'[q] <= sha' BY <1>1, <3>1, <4>1
                <4> QED BY <3>1, <4>1, <4>2, <4>3, <4>4
            <3> QED BY <3>3, <3>4
        <2>4. commit'.prev <= Len(hist') /\ flight'.sha <= Len(hist')
            <3>1. hist' = hist /\ (UNCHANGED <<commit, flight>> \/ (FlightJoined(r) /\ commit' = commit) \/ (CommitBegins(r) /\ flight' = flight))
                BY <1>5, HandleWrites
            <3>2. FlightJoined(r) => flight'.sha \in {flight.sha, Len(hist)}
                BY DEF FlightJoined, Tip, Structure, Shapes
            <3>3. CommitBegins(r) => commit'.prev = sha BY DEF CommitBegins
            <3> QED BY <1>3, <2>2, <3>1, <3>2, <3>3, Numbers DEF Ranged, Keeps
        <2> QED BY <2>1, <2>3, <2>4 DEF Ranged
    <1>6. CASE Works \/ Peers
        <2>1. Keeps /\ UNCHANGED <<tok, saw, gate, met, snap, made, done>> BY <1>6, BackgroundFrame
        <2>2. \A q \in Requests : /\ tok[q] <= sha' /\ saw[q] <= Len(log') /\ met[q] <= Len(log')
                                  /\ snap[q] <= Len(log') /\ made[q] <= Len(log')
            BY <1>1, <2>1 DEF Ranged, Registers, Keeps
        <2>3. commit'.prev <= Len(hist') /\ flight'.sha <= Len(hist')
            <3>1. commit \in CommitShape BY DEF Structure, Shapes, CommitShape
            <3>2. commit'.prev \in {0, sha, commit.prev, Len(hist)} \/ (commit'.prev = Len(hist) + 1 /\ CommitPublishes)
                <4>1. CASE CommitPublishes \/ CommitRebases
                    BY <3>1, <4>1 DEF CommitPublishes, CommitRebases, Tip, CommitShape
                <4>2. CASE Applied \/ Failed \/ CommitBegins(Loop)
                    BY <4>2 DEF Applied, Failed, CommitApplies, PushFails, CommitBegins, NoCommit
                <4>3. CASE FlightLands \/ Peers BY <4>3 DEF FlightLands, Peers, PeerCommits
                <4> QED BY <1>6, <4>1, <4>2, <4>3 DEF Works
            <3>3. CommitPublishes => Len(hist') = Len(hist) + 1
                <4>1. CommitPublishes => hist' = Append(hist, commit.work) BY DEF CommitPublishes
                <4>2. IsSeq(hist) BY DEF Structure, Shapes, IsSeq
                <4> QED BY <4>1, <4>2, Appended
            <3>4. flight'.sha \in {0, flight.sha}
                <4>1. CASE FlightLands BY <4>1 DEF FlightLands, NoFlight
                <4>2. CASE ~FlightLands
                    BY <1>6, <4>2 DEF Works, Peers, Applied, Failed, CommitApplies, PushFails,
                             CommitBegins, CommitPublishes, CommitRebases, PeerCommits
                <4> QED BY <4>1, <4>2
            <3>5. commit.prev <= Len(hist) /\ flight.sha <= Len(hist) BY DEF Ranged
            <3> QED BY <1>3, <2>1, <3>2, <3>3, <3>4, <3>5, Numbers DEF Keeps
        <2> QED BY <2>1, <2>2, <2>3 DEF Ranged, Registers
    <1> QED BY <1>4, <1>5, <1>6, NextCases

LEMMA StepRooted ==
    ASSUME Structure, Structure', Rooted, [Next]_vars
    PROVE  Rooted'
    <1>1. CASE UNCHANGED still
        BY <1>1 DEF still, clientVars, Rooted, Plain, Asked, Conditional
    <1> QED BY <1>1, HandleRooted, BackgroundRooted, NextCases

-----------------------------------------------------------------------------
(* What a request leaves behind.                                            *)

\* Before its verb succeeded, and after.
Trying == Early \cup {"place", "replace-link", "verb", "flying", "load", "apply", "cleanup"}
Going == {"drain", "round", "respond"}

\* A request that declares a revision declares the one it was given; it has no
\* placeholder, and nothing published before its verb succeeds.
Declared(r) ==
    /\ gate[r] = tok[r] /\ made[r] = 0 /\ req[r].verb \notin {"extend", "copy"}
    /\ req[r].verb = "replace" => met[r] # 0 /\ log[met[r]].kind = "file"
    /\ r \notin done => Published(r) = {}
Untouched(r) ==
    /\ pc[r] \in Early => gate[r] = 0 /\ met[r] = 0
    /\ pc[r] \in {"read", "header"} => tok[r] = 0
    /\ pc[r] \in Early \cup {"place"} => Published(r) = {} /\ made[r] = 0
    /\ pc[r] \in {"place", "replace-link"} => req[r].verb = "replace" /\ met[r] # 0 /\ made[r] = 0
    /\ pc[r] = "replace-link" => log[met[r]].kind = "link"
    /\ pc[r] \in {"verb", "flying"} => gate[r] # 0
    /\ pc[r] = "cleanup" => made[r] # 0
    /\ pc[r] \in Trying => r \notin done
    /\ pc[r] \in Going => r \in done
    /\ gate[r] # 0 => Declared(r)
    /\ answer[r] = 412 => pc[r] = "done" /\ Published(r) = {}

\* "hole" is shut.
Holeless == \A r \in Requests : req[r].verb = "extend" => ~Conditional(r)

LEMMA UntouchedStays ==
    ASSUME Keeps, Ranged, NEW q \in Requests, Untouched(q), req' = req, Published(q)' = Published(q),
           UNCHANGED <<tok[q], gate[q], met[q], made[q], pc[q], answer[q]>>, q \in done' <=> q \in done
    PROVE  Untouched(q)'
    <1>1. met[q] # 0 => log'[met[q]] = log[met[q]]
        <2>1. met[q] \in Nat /\ met[q] <= Len(log) BY DEF Ranged, Registers
        <2> QED BY <2>1 DEF Keeps
    <1> QED BY <1>1 DEF Untouched, Declared

LEMMA ReadsUntouched ==
    ASSUME Verified, Registers, NEW r \in Requests, Untouched(r),
           ClientReads(r) \/ RevisionHeader(r) \/ ReadAgain(r)
    PROVE  Untouched(r)'
    <1>1. /\ pc[r] \in {"read", "header"} /\ UNCHANGED <<req, gate, met, made, answer, done, log>>
          /\ pc'[r] \in {"read", "header", "sent", "done"}
          /\ pc'[r] \in {"read", "header"} => tok'[r] = tok[r]
        BY DEF ClientReads, RevisionHeader, ReadAgain, At, To, Verified, gateVars, clientVars, handlerVars
    <1>2. Published(r)' = Published(r) BY <1>1 DEF Published
    <1> QED BY <1>1, <1>2 DEF Untouched, Early, Trying, Going

LEMMA PreconditionUntouched ==
    ASSUME Structure, Rooted, Holeless, Verified, Answered, Registers, NEW r \in Requests, Untouched(r), Precondition(r)
    PROVE  Untouched(r)'
    <1>1. /\ pc[r] = "sent" /\ UNCHANGED <<log, tree, sha, req, tok, made, done>>
        BY DEF Precondition, At, gateVars, clientVars
    <1>2. Published(r)' = Published(r) BY <1>1 DEF Published
    <1>3. CASE Refused(r)
        <2>1. pc'[r] = "done" /\ UNCHANGED <<gate, met>> /\ answer'[r] = 412
            BY <1>3 DEF Precondition, Answers, To, Verified, Answered
        <2> QED BY <1>1, <1>2, <2>1 DEF Untouched, Early, Trying, Going
    <1>4. CASE ~Refused(r)
        <2> DEFINE g == IF RevisionMatches(r) /\ req[r].verb # "create" THEN tok[r] ELSE 0
                   c == IF req[r].verb = "replace" THEN "place" ELSE Entry(g)
        <2>1. gate'[r] = g /\ pc'[r] = c /\ met'[r] = Here(r) /\ answer' = answer
            BY <1>4 DEF Precondition, To, Verified, Registers
        <2>2. \/ c = "place" /\ req[r].verb = "replace"
              \/ c = "load" /\ g = 0
              \/ c = "verb" /\ g # 0
            BY DEF Entry
        <2>3. g # 0 => /\ g = tok[r] /\ req[r].verb \notin {"extend", "copy"}
                       /\ req[r].verb = "replace" => log[Here(r)].kind = "file"
            <3> SUFFICES ASSUME g # 0
                         PROVE  /\ g = tok[r] /\ req[r].verb \notin {"extend", "copy"}
                                /\ req[r].verb = "replace" => log[Here(r)].kind = "file"
                OBVIOUS
            <3>1. RevisionMatches(r) /\ Conditional(r) BY DEF RevisionMatches, Conditional
            <3>2. ASSUME req[r].verb = "replace" PROVE log[Here(r)].kind = "file"
                <4>1. Exists(Here(r)) BY <1>4, <3>1, <3>2 DEF Refused, Creates
                <4>2. Here(r) \in 1..Len(log) /\ Here(r) # 3
                    BY <3>1, Numbers DEF Rooted, Plain, Asked, Here, Structure, Shapes
                <4> QED BY <3>1, <4>1, <4>2 DEF Rooted, Asked, Exists, Kinds
            <3>3. req[r].verb # "copy" BY <1>4, <3>1 DEF Refused, NoRevisions
            <3>4. g = tok[r] OBVIOUS
            <3> QED BY <3>1, <3>2, <3>3, <3>4 DEF Holeless
        <2>4. Here(r) # 0 /\ Here(r) \in Nat
            BY Numbers DEF Rooted, Plain, Here, Structure, Shapes
        <2> HIDE DEF g, c
        <2> QED BY <1>1, <1>2, <2>1, <2>2, <2>3, <2>4 DEF Untouched, Early, Trying, Going, Declared
    <1> QED BY <1>3, <1>4

\* What one publication adds.
LEMMA PublishOne ==
    ASSUME Structure, Structure', NEW r \in Requests, NEW p \in Paths, NEW kind, NEW size, NEW from,
           Publish(r, p, kind, size, from)
    PROVE  LET v == Len(log) + 1
           IN  /\ Len(log') = v /\ Published(r)' = Published(r) \cup {v}
               /\ log'[v].by = r /\ log'[v].kind = kind /\ log'[v].from = from /\ log'[v].over = tree[p]
               /\ tree'[p] = v /\ \A x \in Paths : x # p => tree'[x] = tree[x]
    <1> DEFINE e == [by |-> r, kind |-> kind, size |-> size, from |-> from, over |-> tree[p]]
               v == Len(log) + 1
    <1>1. log' = Append(log, e) /\ tree' = [tree EXCEPT ![p] = v] BY DEF Publish
    <1>2. e.by = r /\ e.kind = kind /\ e.from = from /\ e.over = tree[p] OBVIOUS
    <1> HIDE DEF e
    <1>3. IsSeq(log) /\ tree \in Tree /\ DOMAIN log = 1..Len(log) /\ DOMAIN log' = 1..Len(log')
        BY SeqDomain DEF Structure, Shapes
    <1>4. Len(log') = v /\ Len(log) \in Nat /\ log'[v] = e /\ \A i \in 1..Len(log) : log'[i] = log[i]
        BY <1>1, <1>3, Appended, AppendedAt
    <1>5. \A i \in 1..Len(log') : i \in 1..Len(log) \/ i = v BY <1>4
    <1>6. v \in 1..Len(log') /\ 1..Len(log) \subseteq 1..Len(log') BY <1>4
    <1>7. Published(r)' = Published(r) \cup {v} BY <1>2, <1>3, <1>4, <1>5, <1>6 DEF Published
    <1>8. tree'[p] = v /\ \A x \in Paths : x # p => tree'[x] = tree[x] BY <1>1, <1>3 DEF Tree
    <1> QED BY <1>2, <1>4, <1>7, <1>8

LEMMA PlaceUntouched ==
    ASSUME Structure, Structure', Verified, Answered, Ranged, NEW r \in Requests, Untouched(r), Handle(r),
           Place(r) \/ PlaceOverLink(r)
    PROVE  Untouched(r)'
    <1>1. /\ pc[r] \in {"place", "replace-link"} /\ UNCHANGED <<req, tok, gate, met, done>>
          /\ pc'[r] \in {Entry(gate[r]), "done", "replace-link"}
          /\ pc'[r] = "replace-link" => log[met[r]].kind = "link"
          /\ answer'[r] = answer[r] \/ answer'[r] # 412
        <2>1. pc[r] \in {"place", "replace-link"} /\ UNCHANGED <<req, tok, gate, met, done>>
            BY DEF Place, PlaceOverLink, At, clientVars
        <2>2. \/ To(r, Entry(gate[r])) /\ answer' = answer
              \/ \E a \in {404, 409} : Answers(r, a)
              \/ To(r, "replace-link") /\ answer' = answer /\ log[met[r]].kind = "link"
            BY DEF Place, PlaceOverLink, PlaceEmpty
        <2>3. Entry(gate[r]) # "replace-link" BY DEF Entry
        <2> QED BY <2>1, <2>2, <2>3 DEF To, Answers, Verified, Answered
    <1>2. Keeps BY HandleKeeps
    <1>3. met[r] # 0 => log'[met[r]] = log[met[r]]
        <2>1. met[r] \in Nat /\ met[r] <= Len(log) BY DEF Ranged, Registers
        <2> QED BY <1>2, <2>1 DEF Keeps
    <1>4. \/ log' = log /\ made' = made
          \/ /\ log[met[r]].kind # "file"
             /\ Publish(r, Path(r), "gone", 0, 0) /\ made' = made
          \/ /\ log[met[r]].kind # "file"
             /\ Publish(r, Path(r), "file", 0, 0) /\ pc'[r] = Entry(gate[r])
        BY DEF Place, PlaceOverLink, PlaceEmpty, At, To, Untouched, Verified
    <1>5. gate[r] = 0 \/ (log' = log /\ made' = made)
        <2>1. gate[r] # 0 => log[met[r]].kind = "file" BY <1>1 DEF Untouched, Declared
        <2> QED BY <1>4, <2>1
    <1>6. r \notin done /\ answer[r] # 412 BY <1>1 DEF Untouched, Trying
    <1>7. log' = log => Published(r)' = Published(r) BY DEF Published
    <1>8. Entry(gate[r]) \in {"load", "verb"} /\ (Entry(gate[r]) = "verb" => gate[r] # 0) BY DEF Entry
    <1>9. made[r] = 0 /\ (made'[r] = 0 \/ pc'[r] = Entry(gate[r])) BY <1>1, <1>4 DEF Untouched
    <1> QED BY <1>1, <1>3, <1>5, <1>6, <1>7, <1>8, <1>9 DEF Untouched, Declared, Early, Trying, Going

LEMMA MovesUntouched ==
    ASSUME Structure, Verified, Answered, Registers, NEW r \in Requests, Untouched(r),
           \/ Enforce(r) \/ Loads(r) \/ UploadFails(r) \/ CleanupSkipped(r) \/ FailsUnspent(r)
           \/ Drain(r) \/ DrainEnds(r) \/ Responds(r)
    PROVE  Untouched(r)'
    <1>1. UNCHANGED <<log, req, tok, gate, met, made, done>>
        BY DEF Enforce, Loads, UploadFails, CleanupSkipped, FailsUnspent, Drain, DrainEnds, Responds,
               CommitBegins, gateVars, clientVars, handlerVars
    <1>2. Published(r)' = Published(r) BY <1>1 DEF Published
    <1>3. CASE Enforce(r) \/ Loads(r) \/ UploadFails(r) \/ CleanupSkipped(r) \/ FailsUnspent(r)
        <2>1. /\ pc[r] \in {"verb", "load", "apply", "cleanup"}
              /\ \/ pc[r] = "verb" /\ pc'[r] = "flying"
                 \/ pc'[r] = "apply"
                 \/ pc'[r] = "cleanup" /\ made[r] # 0
                 \/ pc'[r] = "done"
              /\ answer'[r] = answer[r] \/ answer'[r] # 412
            BY <1>3 DEF Enforce, Loads, UploadFails, CleanupSkipped, FailsUnspent, At, To, Fails, FailsInside,
                   PatchFails, RenameFails, CreateFails, MissingFails, Verified, Answered, handlerVars
        <2> QED BY <1>1, <1>2, <2>1 DEF Untouched, Declared, Early, Trying, Going
    <1>4. CASE Drain(r) \/ DrainEnds(r) \/ Responds(r)
        <2>1. /\ pc[r] \in Going /\ pc'[r] \in {"round", "respond", "done"}
              /\ answer'[r] = answer[r] \/ answer'[r] # 412
            BY <1>4 DEF Drain, DrainEnds, Responds, At, To, Answers, Verified, Answered, handlerVars, Going
        <2> QED BY <1>1, <1>2, <2>1 DEF Untouched, Declared, Early, Trying, Going
    <1> QED BY <1>3, <1>4

LEMMA CleanupUntouched ==
    ASSUME Structure, Structure', Verified, Answered, Ranged, NEW r \in Requests, Untouched(r), Handle(r), Cleanup(r)
    PROVE  Untouched(r)'
    <1>1. /\ pc[r] = "cleanup" /\ pc'[r] = "done" /\ UNCHANGED <<req, tok, gate, met, made, done, answer>>
        BY DEF Cleanup, At, To, Verified, clientVars, handlerVars
    <1>2. gate[r] = 0 /\ answer[r] # 412 BY <1>1 DEF Untouched, Declared
    <1> QED BY <1>1, <1>2 DEF Untouched, Early, Trying, Going

LEMMA AppliesUntouched ==
    ASSUME Structure, Structure', Verified, Answered, Ranged, NEW r \in Requests, Untouched(r), Handle(r), Applies(r)
    PROVE  Untouched(r)'
    <1>1. /\ pc[r] = "apply" /\ UNCHANGED <<req, tok, gate, met, made>>
        BY DEF Applies, At, clientVars
    <1>2. Keeps BY HandleKeeps
    <1>3. met[r] # 0 => log'[met[r]] = log[met[r]]
        <2>1. met[r] \in Nat /\ met[r] <= Len(log) BY DEF Ranged, Registers
        <2> QED BY <1>2, <2>1 DEF Keeps
    <1>4. r \notin done /\ answer[r] # 412 BY <1>1 DEF Untouched, Trying
    <1>5. CASE UNCHANGED <<log, done>> /\ (\E a \in Statuses \ {412} : Fails(r, a))
        <2>1. Published(r)' = Published(r) BY <1>5 DEF Published
        <2>2. \/ pc'[r] = "cleanup" /\ made[r] # 0
              \/ pc'[r] = "done"
            BY <1>5 DEF Fails, To, Verified
        <2>3. answer'[r] # 412 BY <1>5 DEF Fails, Answered
        <2> QED BY <1>1, <1>4, <1>5, <2>1, <2>2, <2>3 DEF Untouched, Declared, Early, Trying, Going
    <1>6. CASE UNCHANGED <<log, done>> /\ Fails(r, 412) /\ gate[r] # 0
        <2>1. Published(r)' = Published(r) /\ Published(r) = {} /\ made[r] = 0
            BY <1>4, <1>6 DEF Published, Untouched, Declared
        <2>2. pc'[r] = "done" BY <1>6, <2>1 DEF Fails, To, Verified
        <2> QED BY <1>1, <1>4, <1>6, <2>1, <2>2 DEF Untouched, Declared, Early, Trying, Going
    <1>7. CASE /\ answer' = answer
               /\ \/ To(r, "load") /\ done' = done /\ req[r].verb = "extend"
                  \/ done' = done \cup {r} /\ To(r, IF req[r].sync THEN "drain" ELSE "respond")
        <2>1. \/ pc'[r] = "load" /\ done' = done /\ req[r].verb = "extend"
              \/ r \in done' /\ pc'[r] \in {"drain", "respond"}
            BY <1>7 DEF To, Verified
        <2> QED BY <1>1, <1>3, <1>4, <1>7, <2>1 DEF Untouched, Declared, Early, Trying, Going
    <1>8. FailsInside(r) # 0 => FailsInside(r) \in Statuses \ {412}
        BY DEF FailsInside, PatchFails, RenameFails, CreateFails, MissingFails, Statuses
    <1>9. 404 \in Statuses \ {412} BY DEF Statuses
    <1>10. ~GatePasses(gate[r]) => gate[r] # 0 BY DEF GatePasses
    <1> QED BY <1>5, <1>6, <1>7, <1>8, <1>9, <1>10 DEF Applies, MoreToWrite

\* What a step leaves to the other requests.
LEMMA HandleOthers ==
    ASSUME Structure, Structure', Verified, Answered, Ranged, NEW r \in Requests, Handle(r),
           NEW q \in Requests, q # r
    PROVE  /\ UNCHANGED <<req, tok[q], saw[q], gate[q], met[q], snap[q], made[q], pc[q], answer[q]>>
           /\ q \in done' <=> q \in done
           /\ Published(q)' = Published(q)
    <1>1. Own(r) BY HandleFrame DEF Ranged
    <1>2. pc'[q] = pc[q] /\ answer'[q] = answer[q] BY HandleMoves DEF Answered
    <1>3. Adds(r) \/ UNCHANGED <<log, tree>> BY HandleWrites
    <1>4. Published(q)' = Published(q) BY <1>3, AddsPublished DEF Published
    <1>5. req' = req BY HandleWrites
    <1> QED BY <1>1, <1>2, <1>4, <1>5 DEF Own

LEMMA HandleUntouched ==
    ASSUME Structure, Structure', Rooted, Holeless, Verified, Answered, Ranged, NEW r \in Requests, Handle(r),
           \A q \in Requests : Untouched(q)
    PROVE  \A q \in Requests : Untouched(q)'
    <1>1. Untouched(r)'
        BY ReadsUntouched, PreconditionUntouched, PlaceUntouched, MovesUntouched, CleanupUntouched,
           AppliesUntouched DEF Handle, Ranged
    <1>2. ASSUME NEW q \in Requests, q # r PROVE Untouched(q)'
        BY <1>2, HandleOthers, HandleKeeps, UntouchedStays
    <1> QED BY <1>1, <1>2

LEMMA BackgroundUntouched ==
    ASSUME Structure, Structure', Verified, Answered, Ranged, Works \/ Peers,
           \A q \in Requests : Untouched(q) /\ Durable(q)
    PROVE  \A q \in Requests : Untouched(q)'
    <1> SUFFICES ASSUME NEW q \in Requests PROVE Untouched(q)' OBVIOUS
    <1>1. /\ Keeps /\ UNCHANGED <<req, tok, saw, gate, met, snap, made, done>>
          /\ Published(q)' = Published(q)
        BY BackgroundFrame
    <1>2. CASE UNCHANGED <<pc[q], answer[q]>> BY <1>1, <1>2, UntouchedStays
    <1>3. met[q] # 0 => log'[met[q]] = log[met[q]]
        <2>1. met[q] \in Nat /\ met[q] <= Len(log) BY DEF Ranged, Registers
        <2> QED BY <1>1, <2>1 DEF Keeps
    <1>4. CASE FlightLands /\ q \in flight.for
        <2>1. pc[q] = "flying" BY <1>4 DEF Durable
        <2>2. gate[q] # 0 /\ made[q] = 0 /\ q \notin done /\ Published(q) = {}
            BY <2>1 DEF Untouched, Declared, Trying
        <2>3. pc'[q] = "done" \/ (pc'[q] = "load" /\ answer'[q] = answer[q])
            BY <1>4, <2>2 DEF FlightLands
        <2> QED BY <1>1, <1>3, <2>1, <2>2, <2>3 DEF Untouched, Declared, Early, Trying, Going
    <1>5. CASE (Applied \/ Failed) /\ commit.by = q
        <2>1. pc[q] = "round"
            BY <1>5 DEF Durable, Applied, Failed, CommitApplies, PushFails
        <2>2. pc'[q] \in {"respond", "done"} /\ (answer'[q] = answer[q] \/ answer'[q] = 500)
            BY <1>5 DEF Applied, Failed, Answers, To, Verified, Answered, handlerVars
        <2> QED BY <1>1, <1>3, <2>1, <2>2 DEF Untouched, Declared, Early, Trying, Going
    <1>6. UNCHANGED <<pc[q], answer[q]>> \/ (FlightLands /\ q \in flight.for)
          \/ ((Applied \/ Failed) /\ commit.by = q)
        <2>1. CASE FlightLands BY <2>1 DEF FlightLands, Verified, Answered
        <2>2. CASE Applied \/ Failed
            BY <2>2 DEF Applied, Failed, Answers, To, Verified, Answered, handlerVars
        <2>3. CASE Peers \/ CommitBegins(Loop) \/ CommitPublishes \/ CommitRebases
            <3>1. CASE FlightLands \/ Applied \/ Failed BY <2>1, <2>2, <3>1
            <3>2. CASE ~(FlightLands \/ Applied \/ Failed)
                BY <3>2 DEF Works, Peers, handlerVars
            <3> QED BY <3>1, <3>2
        <2> QED BY <2>1, <2>2, <2>3 DEF Works
    <1> QED BY <1>2, <1>4, <1>5, <1>6

LEMMA StepUntouched ==
    ASSUME Structure, Structure', Rooted, Holeless, Verified, Answered, Ranged, [Next]_vars,
           \A q \in Requests : Untouched(q) /\ Durable(q)
    PROVE  Holeless' /\ \A q \in Requests : Untouched(q)'
    <1>1. CASE UNCHANGED still
        BY <1>1 DEF still, clientVars, handlerVars, Untouched, Declared, Published, Holeless, Conditional
    <1>2. req' = req
        <2>1. CASE \E r \in Requests : Handle(r) BY <2>1, HandleWrites
        <2>2. CASE Works \/ Peers BY <2>2, BackgroundFrame
        <2> QED BY <2>1, <2>2, NextCases DEF still, clientVars
    <1> QED BY <1>1, <1>2, HandleUntouched, BackgroundUntouched, NextCases DEF Holeless, Conditional

-----------------------------------------------------------------------------
(* A request that fails is harmless.                                        *)

\* A placeholder is a file at its request's path until something is put over it; what
\* the request publishes before its verb succeeds is the placeholder and its removal.
Harmless(r) ==
    /\ made[r] # 0 => log[made[r]].kind = "file" /\ made[r] <= tree[Path(r)]
    /\ made[r] # 0 /\ pc[r] = "done" /\ r \notin done => made[r] < tree[Path(r)]
    /\ r \notin done /\ req[r].verb # "extend" /\ (met[r] # 0 => log[met[r]].kind # "link") =>
          \A v \in Published(r) : v = made[r] \/ (made[r] # 0 /\ log[v].over = made[r])

\* What a step that does not publish for a request needs to leave it harmless.
LEMMA HarmlessStays ==
    ASSUME Structure, Structure', Keeps, Grows, Ranged, NEW q \in Requests, Harmless(q), req' = req,
           Published(q)' = Published(q), UNCHANGED <<met[q], made[q]>>, q \in done => q \in done',
           made[q] # 0 /\ pc'[q] = "done" /\ q \notin done' => made[q] < tree'[Path(q)]
    PROVE  Harmless(q)'
    <1>1. /\ met[q] # 0 => log'[met[q]] = log[met[q]]
          /\ made[q] # 0 => log'[made[q]] = log[made[q]]
        <2>1. met[q] \in Nat /\ met[q] <= Len(log) /\ made[q] \in Nat /\ made[q] <= Len(log)
            BY DEF Ranged, Registers
        <2> QED BY <2>1 DEF Keeps
    <1>2. \A v \in Published(q) : log'[v] = log[v] BY Numbers DEF Keeps, Published
    <1>3. made[q] <= tree[Path(q)] => made[q] <= tree'[Path(q)]
        <2>1. /\ Path(q) \in Paths /\ made[q] \in Nat
              /\ \A p \in Paths : tree[p] \in Nat /\ tree'[p] \in Nat /\ tree[p] <= tree'[p]
            BY DEF Structure, Shapes, Tree, Ranged, Registers, Grows
        <2> QED BY <2>1
    <1> QED BY <1>1, <1>2, <1>3 DEF Harmless, Path

\* ... and one that published nothing and has no placeholder.
LEMMA HarmlessEmpty ==
    ASSUME NEW r, Published(r) = {}, made[r] = 0
    PROVE  Harmless(r)
    BY DEF Harmless

LEMMA QuietHarmless ==
    ASSUME Structure, Structure', Keeps, Grows, Verified, Ranged, NEW r \in Requests, Untouched(r), Harmless(r),
           \/ ClientReads(r) \/ RevisionHeader(r) \/ ReadAgain(r) \/ Precondition(r) \/ Enforce(r) \/ Loads(r)
           \/ UploadFails(r) \/ CleanupSkipped(r) \/ FailsUnspent(r) \/ Drain(r) \/ DrainEnds(r) \/ Responds(r)
    PROVE  Harmless(r)'
    <1>1. UNCHANGED <<log, tree, req, made, done>>
        BY DEF ClientReads, RevisionHeader, ReadAgain, Precondition, Enforce, Loads, UploadFails, CleanupSkipped,
               FailsUnspent, Drain, DrainEnds, Responds, CommitBegins, gateVars, clientVars, handlerVars
    <1>2. Published(r)' = Published(r) BY <1>1 DEF Published
    <1>3. CASE ClientReads(r) \/ RevisionHeader(r) \/ ReadAgain(r) \/ Precondition(r)
        <2>1. pc[r] \in Early BY <1>3 DEF ClientReads, RevisionHeader, ReadAgain, Precondition, At, Early
        <2>2. Published(r)' = {} /\ made'[r] = 0 BY <1>1, <1>2, <2>1 DEF Untouched
        <2> QED BY <2>2 DEF Harmless
    <1>4. CASE Enforce(r) \/ Loads(r) \/ UploadFails(r) \/ FailsUnspent(r)
        <2>1. met' = met /\ (pc'[r] # "done" \/ made[r] = 0)
            BY <1>4 DEF Enforce, Loads, UploadFails, FailsUnspent, To, Fails, Verified, handlerVars
        <2> QED BY <1>1, <1>2, <2>1, HarmlessStays
    <1>5. CASE CleanupSkipped(r)
        <2>1. met' = met /\ Here(r) # made[r] /\ pc[r] = "cleanup"
            BY <1>5 DEF CleanupSkipped, At, handlerVars
        <2>2. made[r] # 0 /\ made[r] <= Here(r) BY <2>1 DEF Untouched, Harmless, Here
        <2>3. made[r] \in Nat /\ Here(r) \in Nat
            BY Numbers DEF Ranged, Registers, Here, Structure, Shapes
        <2>4. made[r] < tree'[Path(r)] BY <1>1, <2>1, <2>2, <2>3 DEF Here
        <2> QED BY <1>1, <1>2, <2>1, <2>4, HarmlessStays
    <1>6. CASE Drain(r) \/ DrainEnds(r) \/ Responds(r)
        <2>1. met' = met /\ r \in done
            BY <1>6 DEF Drain, DrainEnds, Responds, At, handlerVars, Untouched, Going
        <2> QED BY <1>1, <1>2, <2>1, HarmlessStays
    <1> QED BY <1>3, <1>4, <1>5, <1>6

\* The placeholder is put where nothing is, and taken away when it still stands there.
LEMMA PlaceHarmless ==
    ASSUME Structure, Structure', Keeps, Grows, Verified, Ranged, NEW r \in Requests, Untouched(r), Harmless(r),
           Place(r) \/ PlaceOverLink(r)
    PROVE  Harmless(r)'
    <1>1. /\ UNCHANGED <<req, met, done>> /\ made[r] = 0 /\ pc[r] \in {"place", "replace-link"}
          /\ pc[r] = "replace-link" => log[met[r]].kind = "link"
          /\ pc[r] = "place" => Published(r) = {}
          /\ met[r] # 0
        BY DEF Place, PlaceOverLink, At, clientVars, Untouched
    <1>2. CASE log' = log /\ made' = made
        <2>1. Published(r)' = Published(r) BY <1>2 DEF Published
        <2> QED BY <1>1, <1>2, <2>1, HarmlessStays
    <1>3. met[r] \in 1..Len(log) /\ log'[met[r]] = log[met[r]]
        <2>1. met[r] \in Nat /\ met[r] <= Len(log) BY DEF Ranged, Registers
        <2> QED BY <1>1, <2>1, Numbers DEF Keeps
    <1>4. Path(r) \in Paths BY DEF Structure, Shapes
    <1>5. CASE Publish(r, Path(r), "gone", 0, 0) /\ made' = made /\ log[met[r]].kind = "link"
        BY <1>1, <1>3, <1>5 DEF Harmless
    <1>6. CASE /\ Publish(r, Path(r), "file", 0, 0) /\ made' = [made EXCEPT ![r] = Len(log) + 1]
               /\ pc'[r] # "done"
        <2>1. /\ Published(r)' = Published(r) \cup {Len(log) + 1} /\ log'[Len(log) + 1].kind = "file"
              /\ tree'[Path(r)] = Len(log) + 1
            BY <1>4, <1>6, PublishOne
        <2>2. made'[r] = Len(log) + 1 BY <1>6 DEF Ranged, Registers
        <2>3. Len(log) \in Nat BY DEF Keeps
        <2> QED BY <1>1, <1>3, <1>6, <2>1, <2>2, <2>3 DEF Harmless, Path
    <1>7. Entry(gate[r]) # "done" BY DEF Entry
    <1>8. \/ log' = log /\ made' = made
          \/ Publish(r, Path(r), "gone", 0, 0) /\ made' = made /\ log[met[r]].kind = "link"
          \/ Publish(r, Path(r), "file", 0, 0) /\ made' = [made EXCEPT ![r] = Len(log) + 1] /\ pc'[r] # "done"
        BY <1>7 DEF Place, PlaceOverLink, PlaceEmpty, To, Verified
    <1> QED BY <1>2, <1>5, <1>6, <1>8

LEMMA CleanupHarmless ==
    ASSUME Structure, Structure', Keeps, Grows, Verified, Ranged, "cleanup" \notin Races,
           NEW r \in Requests, Untouched(r), Harmless(r), Cleanup(r)
    PROVE  Harmless(r)'
    <1>1. /\ UNCHANGED <<req, met, made, done>> /\ pc[r] = "cleanup" /\ Here(r) = made[r]
          /\ IF Exists(Here(r)) THEN Publish(r, Path(r), "gone", 0, 0) ELSE UNCHANGED <<log, tree>>
        BY DEF Cleanup, At, clientVars, handlerVars, Racing
    <1>2. made[r] # 0 /\ log[made[r]].kind = "file" BY <1>1 DEF Untouched, Harmless
    <1>3. Publish(r, Path(r), "gone", 0, 0) BY <1>1, <1>2 DEF Exists
    <1>4. Path(r) \in Paths BY DEF Structure, Shapes
    <1>5. /\ Published(r)' = Published(r) \cup {Len(log) + 1} /\ log'[Len(log) + 1].over = made[r]
          /\ tree'[Path(r)] = Len(log) + 1
        BY <1>1, <1>3, <1>4, PublishOne DEF Here
    <1>6. made[r] \in 1..Len(log) /\ met[r] \in 0..Len(log) /\ Len(log) \in Nat
        BY <1>2 DEF Ranged, Registers, Keeps
    <1>7. log'[made[r]] = log[made[r]] /\ (met[r] # 0 => log'[met[r]] = log[met[r]]) BY <1>6 DEF Keeps
    <1>8. \A v \in Published(r) : log'[v] = log[v] BY Numbers DEF Keeps, Published
    <1>9. made[r] < tree'[Path(r)] BY <1>5, <1>6
    <1> QED BY <1>1, <1>2, <1>5, <1>6, <1>7, <1>8, <1>9 DEF Harmless, Path

LEMMA AppliesHarmless ==
    ASSUME Structure, Structure', Keeps, Grows, Verified, Ranged, NEW r \in Requests, Untouched(r), Harmless(r),
           Applies(r)
    PROVE  Harmless(r)'
    <1>1. UNCHANGED <<req, met, made>> BY DEF Applies, clientVars
    <1>2. CASE UNCHANGED <<log, done>> /\ (pc'[r] # "done" \/ made[r] = 0)
        <2>1. Published(r)' = Published(r) BY <1>2 DEF Published
        <2> QED BY <1>1, <1>2, <2>1, HarmlessStays
    <1>3. CASE \/ r \in done'
               \/ pc'[r] = "load" /\ req[r].verb = "extend"
        <2>1. made[r] # 0 => log'[made[r]] = log[made[r]]
            <3>1. made[r] \in Nat /\ made[r] <= Len(log) BY DEF Ranged, Registers
            <3> QED BY <3>1 DEF Keeps
        <2>2. made[r] <= tree[Path(r)] => made[r] <= tree'[Path(r)]
            <3>1. /\ Path(r) \in Paths /\ made[r] \in Nat
                  /\ \A p \in Paths : tree[p] \in Nat /\ tree'[p] \in Nat /\ tree[p] <= tree'[p]
                BY DEF Structure, Shapes, Tree, Ranged, Registers, Grows
            <3> QED BY <3>1
        <2> QED BY <1>1, <1>3, <2>1, <2>2 DEF Harmless, Path
    <1>4. \/ UNCHANGED <<log, done>> /\ \E a : Fails(r, a)
          \/ done' = done \cup {r}
          \/ To(r, "load") /\ MoreToWrite(r)
        BY DEF Applies
    <1>5. \A a : Fails(r, a) => pc'[r] # "done" \/ made[r] = 0 BY DEF Fails, To, Verified
    <1>6. To(r, "load") => pc'[r] = "load" BY DEF To, Verified
    <1> QED BY <1>2, <1>3, <1>4, <1>5, <1>6 DEF MoreToWrite

LEMMA StepHarmless ==
    ASSUME Structure, Structure', Verified, Answered, Ranged, Grows, "cleanup" \notin Races, [Next]_vars,
           \A q \in Requests : Untouched(q) /\ Harmless(q) /\ Durable(q)
    PROVE  \A q \in Requests : Harmless(q)'
    <1> SUFFICES ASSUME NEW q \in Requests PROVE Harmless(q)' OBVIOUS
    <1>1. CASE UNCHANGED still
        BY <1>1 DEF still, clientVars, handlerVars, Harmless, Published, Path
    <1>2. ASSUME NEW r \in Requests, Handle(r) PROVE Harmless(q)'
        <2>1. Keeps BY <1>2, HandleKeeps
        <2>2. CASE q = r
            BY <1>2, <2>1, <2>2, QuietHarmless, PlaceHarmless, CleanupHarmless, AppliesHarmless DEF Handle
        <2>3. CASE q # r
            <3>1. /\ UNCHANGED <<req, met[q], made[q], pc[q]>> /\ (q \in done' <=> q \in done)
                  /\ Published(q)' = Published(q)
                BY <1>2, <2>3, HandleOthers
            <3>2. made[q] # 0 /\ pc'[q] = "done" /\ q \notin done' => made[q] < tree'[Path(q)]
                <4>1. /\ Path(q) \in Paths /\ made[q] \in Nat
                      /\ \A p \in Paths : tree[p] \in Nat /\ tree'[p] \in Nat /\ tree[p] <= tree'[p]
                    BY DEF Structure, Shapes, Tree, Ranged, Registers, Grows
                <4>2. tree[Path(q)] \in Nat /\ tree'[Path(q)] \in Nat /\ tree[Path(q)] <= tree'[Path(q)]
                    BY <4>1
                <4>3. made[q] # 0 /\ pc[q] = "done" /\ q \notin done => made[q] < tree[Path(q)]
                    BY DEF Harmless
                <4> QED BY <3>1, <4>1, <4>2, <4>3
            <3> QED BY <2>1, <3>1, <3>2, HarmlessStays
        <2> QED BY <2>2, <2>3
    <1>3. CASE Works \/ Peers
        <2>1. /\ Keeps /\ UNCHANGED <<req, met, made, done>> /\ Published(q)' = Published(q)
            BY <1>3, BackgroundFrame
        <2>2. made[q] # 0 /\ pc'[q] = "done" /\ q \notin done => made[q] < tree'[Path(q)]
            <3> SUFFICES ASSUME made[q] # 0, pc'[q] = "done", q \notin done PROVE made[q] < tree'[Path(q)] OBVIOUS
            <3>1. pc[q] = "done"
                <4>1. pc[q] # "flying" /\ pc[q] # "round" BY DEF Untouched, Declared, Going
                <4>2. q \notin flight.for /\ ~(commit.pc # "idle" /\ commit.by = q) BY <4>1 DEF Durable
                <4> QED BY <1>3, <4>2 DEF Works, Peers, FlightLands, Applied, Failed, Answers, To,
                             CommitApplies, PushFails, Verified, handlerVars
            <3>2. /\ Path(q) \in Paths /\ made[q] \in Nat
                  /\ \A p \in Paths : tree[p] \in Nat /\ tree'[p] \in Nat /\ tree[p] <= tree'[p]
                BY DEF Structure, Shapes, Tree, Ranged, Registers, Grows
            <3> QED BY <3>1, <3>2 DEF Harmless
        <2> QED BY <2>1, <2>2, HarmlessStays
    <1> QED BY <1>1, <1>2, <1>3, NextCases


\* The start: nothing is published, every path has a version.
LEMMA RequestsStart ==
    ASSUME Init, "symlink" \notin Races, "hole" \notin Races
    PROVE  Rooted /\ Ranged /\ Holeless /\ \A r \in Requests : Untouched(r) /\ Harmless(r)
    <1>1. PICK c \in Cases :
             /\ GateInit(c.tree, c.left) /\ req = c.req
             /\ \A r \in Requests :
                   /\ (req[r].verb = "extend" /\ Conditional(r)) => Racing("hole")
                   /\ ((\E p \in Paths : c.tree[p] = 3) /\ Conditional(r)) => Racing("symlink")
        BY DEF Init
    <1>2. /\ tree = c.tree /\ base = c.tree /\ hist = <<c.tree>> /\ sha = 1
          /\ commit = NoCommit /\ flight = NoFlight
        BY <1>1 DEF GateInit
    <1>3. /\ tok = [r \in Requests |-> 0] /\ saw = tok /\ gate = tok /\ met = tok
          /\ snap = tok /\ made = tok /\ answer = tok /\ done = {}
          /\ \A r \in Requests : pc[r] \in {"read", "sent"}
        BY DEF Init
    <1> DEFINE v(k, n) == [by |-> Nobody, kind |-> k, size |-> n, from |-> 0, over |-> 0]
    <1>4. \A k, n : v(k, n).by = Nobody /\ v(k, n).kind = k OBVIOUS
    <1>5. log = <<v("gone", 0), v("file", 1), v("link", 1)>> BY <1>1 DEF GateInit
    <1> HIDE DEF v
    <1>6. /\ Len(log) = 3 /\ DOMAIN log = 1..3
          /\ log[1].kind = "gone" /\ log[2].kind = "file" /\ log[3].kind = "link"
          /\ \A i \in 1..3 : log[i].by = Nobody
        BY <1>4, <1>5
    <1>7. Rooted
        <2>1. c.tree \in [Paths -> 1..3] BY CasesAssumption
        <2>2. Asked => \A p \in Paths : c.tree[p] # 3 BY <1>1 DEF Asked, Racing
        <2>3. Plain(c.tree) BY <2>1, <2>2 DEF Plain
        <2>4. Len(hist) = 1 /\ hist[1] = c.tree BY <1>2
        <2>5. commit.pc = "idle" /\ ~flight.on BY <1>2 DEF NoCommit, NoFlight
        <2>6. \A i \in 1..Len(log) : log[i].kind \in Kinds /\ (log[i].kind = "link" => i = 3)
            <3>1. \A i \in 1..Len(log) : i = 1 \/ i = 2 \/ i = 3 BY <1>6
            <3> QED BY <1>6, <3>1 DEF Kinds
        <2> QED BY <1>2, <1>6, <2>3, <2>4, <2>5, <2>6 DEF Rooted
    <1>8. Ranged
        <2>1. Len(hist) = 1 /\ commit.prev = 0 /\ flight.sha = 0 BY <1>2 DEF NoCommit, NoFlight
        <2> QED BY <1>2, <1>3, <1>6, <2>1 DEF Ranged, Registers
    <1>9. Holeless BY <1>1 DEF Holeless, Racing
    <1>10. \A r \in Requests : Published(r) = {} BY <1>6, WritersAssumption DEF Published
    <1>11. \A r \in Requests : Harmless(r) BY <1>3, <1>10 DEF Harmless
    <1>12. \A r \in Requests : Untouched(r) BY <1>3, <1>10 DEF Untouched, Declared, Early, Trying, Going
    <1> QED BY <1>7, <1>8, <1>9, <1>11, <1>12

\* A request that is refused changes nothing, and one that fails leaves nothing of its
\* own but the removal of its placeholder, for any number of requests, paths, failures
\* and other hubs, outside the windows in which the code breaks the promise: a
\* conditional write past the end, a conditional upload over a symbolic link, a
\* stranger at the name of a failed upload, a commit during a fresh load
\* (storage/mutate.go 91, handleContentReplace).
THEOREM RequestsAlwaysSound ==
    ASSUME {"hole", "symlink", "cleanup", "staleload"} \cap Races = {}
    PROVE  Spec => []RequestsSound
    <1> DEFINE Inv == /\ Structure /\ Used /\ Verified /\ Answered /\ Beyond
                      /\ Rooted /\ Ranged /\ Holeless
                      /\ \A q \in Requests : Durable(q) /\ Untouched(q) /\ Harmless(q)
    <1>1. Init => Inv BY GateStarts, DurableStarts, RequestsStart
    <1>2. Inv /\ [Next]_vars => Inv'
        <2> SUFFICES ASSUME Inv, [Next]_vars PROVE Inv' OBVIOUS
        <2>1. Structure' /\ Used' /\ Verified' BY GateKept, StepVerified DEF Kept
        <2>2. Answered' /\ Grows /\ Beyond' BY <2>1, AnsweredKeeps, StepBeyond
        <2>3. \A q \in Requests : Durable(q)' BY <2>1, StepDurable
        <2>4. Rooted' /\ Ranged' BY <2>1, StepRooted, StepRanged
        <2>5. Holeless' /\ \A q \in Requests : Untouched(q)' BY <2>1, StepUntouched
        <2>6. \A q \in Requests : Harmless(q)' BY <2>1, <2>2, StepHarmless
        <2> QED BY <2>1, <2>2, <2>3, <2>4, <2>5, <2>6
    <1>3. Inv => RequestsSound
        <2> SUFFICES ASSUME Inv PROVE RequestsSound OBVIOUS
        <2>1. TypeOK
            <3>1. \A t \in Tree : Plain(t) /\ Logged(t) => t \in [Paths -> DOMAIN log]
                BY Numbers DEF Tree, Plain, Logged
            <3>2. tree \in [Paths -> DOMAIN log] /\ base \in [Paths -> DOMAIN log]
                BY <3>1 DEF Rooted, Structure, Shapes, Versions
            <3>3. \A h \in DOMAIN hist : hist[h] \in [Paths -> DOMAIN log]
                <4>1. \A h \in 1..Len(hist) : hist[h] \in Tree /\ Logged(hist[h]) /\ Plain(hist[h])
                    BY DEF Rooted, Structure, Shapes, Versions
                <4> QED BY <3>1, <4>1, Numbers
            <3>4. sha \in 1..Tip /\ spent \in 0..Tip BY Numbers DEF Used, Tip
            <3>5. commit.prev \in 0..Tip /\ flight.sha \in 0..Tip /\ flight.for \subseteq Requests
                BY Numbers DEF Ranged, Structure, Shapes, Tip
            <3>6. tok \in [Requests -> 0..Tip] /\ gate \in [Requests -> 0..Tip]
                BY Numbers DEF Ranged, Registers, Verified, Tip
            <3>7. \A r \in Requests : {saw[r], met[r], snap[r], made[r]} \subseteq 0..Len(log)
                BY Numbers DEF Ranged, Registers
            <3> QED BY <3>2, <3>3, <3>4, <3>5, <3>6, <3>7 DEF TypeOK, Answered, Ranged, Registers
        <2>2. RejectedUntouched BY DEF RejectedUntouched, Untouched
        <2>3. FailureHarmless
            <3> SUFFICES ASSUME NEW r \in Requests, At(r, "done"), answer[r] # 0, ~Wins(r), req[r].verb # "extend",
                                met[r] # 0 => log[met[r]].kind # "link"
                         PROVE  /\ made[r] # 0 => tree[Path(r)] # made[r]
                                /\ \A v \in Published(r) : v = made[r] \/ (made[r] # 0 /\ log[v].over = made[r])
                BY DEF FailureHarmless
            <3>1. made[r] \in Nat /\ tree[Path(r)] \in Nat
                BY Numbers DEF Ranged, Registers, Structure, Shapes
            <3> QED BY <3>1 DEF Harmless, At, Wins
        <2> QED BY <2>1, <2>2, <2>3 DEF RequestsSound
    <1> QED BY <1>1, <1>2, <1>3, PTL DEF Spec

-----------------------------------------------------------------------------
(* Seen before it is written over.                                          *)

\* What a request publishes is put over a version there is.
Overs == \A v \in 1..Len(log) : log[v].by \in Requests => log[v].over \in 1..Len(log)

\* A version by a request that declares nothing, and not yet in a revision.
Loose(r, v, limit) ==
    /\ log[v].by \in Requests /\ gate[log[v].by] = 0
    /\ \A h \in 1..limit : hist[h][Path(r)] # v

Loosely(r, v, limit) ==
    /\ log'[v].by \in Requests /\ gate'[log'[v].by] = 0
    /\ \A h \in 1..limit : hist'[h][req'[r].path] # v

\* A client at the current revision has seen what it will be put over, unless the
\* revision is used up or writes that declared nothing came between.
Stands(r) ==
    tok[r] # 0 /\ tok[r] = sha =>
        tree[Path(r)] = saw[r] \/ spent = sha \/ Loose(r, tree[Path(r)], sha)
SawIt ==
    \A v \in 1..Len(log) : \A r \in Requests :
        log[v].by = r /\ gate[r] # 0 =>
            \/ log[v].over = saw[r] \/ Loose(r, log[v].over, tok[r])
            \/ req[r].verb = "rename" /\ ~Exists(log[v].over)

\* A request that published something has read, and declares what it declares.
LEMMA HandleSettled ==
    ASSUME Structure, Structure', Verified, Answered, Ranged, NEW r \in Requests, Handle(r),
           NEW q \in Requests, Untouched(q), Published(q) # {}
    PROVE  UNCHANGED <<tok[q], saw[q], gate[q]>>
    <1>1. CASE q # r BY <1>1, HandleOthers
    <1>2. CASE q = r
        <2>1. pc[r] \notin Early BY <1>2 DEF Untouched
        <2>2. ~(ClientReads(r) \/ RevisionHeader(r) \/ ReadAgain(r) \/ Precondition(r))
            BY <2>1 DEF ClientReads, RevisionHeader, ReadAgain, Precondition, At, Early
        <2>3. UNCHANGED <<tok, saw, gate>>
            BY <2>2 DEF Handle, Place, PlaceOverLink, Enforce, Loads, UploadFails, Cleanup, CleanupSkipped,
                   Applies, FailsUnspent, Drain, DrainEnds, Responds, clientVars, handlerVars
        <2> QED BY <1>2, <2>3
    <1> QED BY <1>1, <1>2

\* What a handler publishes under a revision uses it up, and is what its verb publishes.
LEMMA HandleArms ==
    ASSUME Structure, Structure', Verified, NEW r \in Requests, Untouched(r), Handle(r)
    PROVE  /\ spent' = spent \/ spent' = sha
           /\ \/ UNCHANGED <<log, tree>>
              \/ gate'[r] = gate[r] /\ (gate[r] = 0 \/ spent' = sha)
           /\ gate'[r] # 0 => log' = log \/ (Applies(r) /\ GatePasses(gate[r]))
    <1>1. CASE Place(r) \/ PlaceOverLink(r) \/ Cleanup(r)
        <2>1. spent' = spent /\ gate' = gate
            BY <1>1 DEF Place, PlaceOverLink, Cleanup, handlerVars
        <2>2. \/ UNCHANGED <<log, tree>>
              \/ gate[r] = 0 /\ (Publish(r, Path(r), "gone", 0, 0) \/ Publish(r, Path(r), "file", 0, 0))
            <3>1. pc[r] = "cleanup" => gate[r] = 0 BY DEF Untouched, Declared
            <3>2. pc[r] \in {"place", "replace-link"} => gate[r] = 0 \/ log[met[r]].kind = "file"
                BY DEF Untouched, Declared
            <3>3. pc[r] = "replace-link" => log[met[r]].kind = "link" BY DEF Untouched
            <3> QED BY <1>1, <3>1, <3>2, <3>3 DEF Place, PlaceOverLink, PlaceEmpty, Cleanup, At
        <2> QED BY <2>1, <2>2
    <1>2. CASE Applies(r)
        <2>1. gate' = gate BY <1>2 DEF Applies
        <2>2. \/ UNCHANGED <<log, tree, spent>>
              \/ GatePasses(gate[r]) /\ Arm(gate[r])
            BY <1>2 DEF Applies
        <2> QED BY <1>2, <2>1, <2>2 DEF GatePasses, Arm
    <1>3. CASE ~(Place(r) \/ PlaceOverLink(r) \/ Cleanup(r) \/ Applies(r))
        <2>1. UNCHANGED <<log, tree, spent>>
            BY <1>3 DEF Handle, ClientReads, RevisionHeader, ReadAgain, Precondition, Loads, CleanupSkipped,
                     FailsUnspent, DrainEnds, Responds, UploadFails, Enforce, Drain, CommitBegins,
                     gateVars
        <2> QED BY <2>1
    <1> QED BY <1>1, <1>2, <1>3

LEMMA HandleOvers ==
    ASSUME Structure, Structure', Rooted, Overs, NEW r \in Requests, Handle(r)
    PROVE  Overs'
    <1>1. (Adds(r) /\ NewEntries(r)) \/ UNCHANGED <<log, tree>> BY HandleEntries
    <1>2. CASE UNCHANGED log BY <1>2 DEF Overs
    <1>3. CASE Adds(r) /\ NewEntries(r)
        <2>1. \A p \in Paths : tree[p] \in 1..Len(log)
            BY Numbers DEF Structure, Shapes, Rooted, Plain
        <2>2. 1..Len(log) \subseteq 1..Len(log') BY <1>3 DEF Adds
        <2> QED BY <1>3, <2>1, <2>2 DEF Adds, NewEntries, Overs
    <1> QED BY <1>1, <1>2, <1>3

LEMMA LooseStays ==
    ASSUME Structure, Keeps, req' = req, NEW q \in Requests, NEW v \in 1..Len(log), NEW n \in 0..Len(hist),
           Loose(q, v, n), gate'[log[v].by] = gate[log[v].by]
    PROVE  Loosely(q, v, n)
    <1>1. log'[v] = log[v] BY DEF Keeps
    <1>2. \A h \in 1..n : hist'[h] = hist[h] BY DEF Keeps
    <1> QED BY <1>1, <1>2 DEF Loose, Loosely, Path

LEMMA HandleSawIt ==
    ASSUME Structure, Structure', Rooted, Verified, Answered, Ranged, Overs, SawIt,
           NEW r \in Requests, Handle(r), \A q \in Requests : Untouched(q) /\ Stands(q)
    PROVE  SawIt'
    <1>1. Keeps /\ hist' = hist /\ req' = req BY HandleKeeps, HandleWrites
    <1>2. (Adds(r) /\ NewEntries(r)) \/ UNCHANGED <<log, tree>> BY HandleEntries
    <1>3. DOMAIN log = 1..Len(log) BY Numbers
    \* A loose version stays loose.
    <1>4. ASSUME NEW q \in Requests, NEW v \in 1..Len(log), NEW n \in 0..Len(hist), Loose(q, v, n)
          PROVE  Loosely(q, v, n)
        <2>1. v \in Published(log[v].by) BY <1>3 DEF Published
        <2>2. gate'[log[v].by] = gate[log[v].by] BY <1>4, <2>1, HandleSettled DEF Loose
        <2> QED BY <1>1, <1>4, <2>2, LooseStays
    <1> SUFFICES ASSUME NEW v \in 1..Len(log'), NEW q \in Requests, NEW o, NEW s, NEW n,
                        log'[v].by = q, gate'[q] # 0,
                        o = log'[v].over, s = saw'[q], n = tok'[q]
                 PROVE  o = s \/ Loosely(q, o, n) \/ (req[q].verb = "rename" /\ log'[o].kind = "gone")
        BY <1>1 DEF SawIt, Loose, Loosely, Path, Exists
    <1>5. \A x \in Requests : tok[x] \in 0..Len(hist)
        <2>1. sha \in 1..Len(hist) /\ Len(hist) \in Nat BY Numbers
        <2>2. \A x \in Requests : tok[x] \in Nat /\ tok[x] <= sha BY DEF Ranged, Registers
        <2> QED BY <2>1, <2>2
    <1>6. CASE v \in 1..Len(log)
        <2>1. log'[v] = log[v] BY <1>1, <1>6 DEF Keeps
        <2>2. v \in Published(q) BY <1>3, <1>6, <2>1 DEF Published
        <2>3. UNCHANGED <<tok[q], saw[q], gate[q]>> BY <2>2, HandleSettled
        <2>4. o = s \/ Loose(q, o, n) \/ (req[q].verb = "rename" /\ log[o].kind = "gone")
            BY <1>6, <2>1, <2>3 DEF SawIt, Exists
        <2>5. o \in 1..Len(log) /\ n \in 0..Len(hist) BY <1>5, <1>6, <2>1, <2>3 DEF Overs
        <2>6. log'[o] = log[o] BY <1>1, <2>5 DEF Keeps
        <2> QED BY <1>4, <2>4, <2>5, <2>6
    <1>7. CASE v \notin 1..Len(log)
        <2>1. /\ q = r
              /\ \E p \in Paths : o = tree[p]
              /\ o = tree[Path(r)] \/ req[r].verb = "copy" \/ (req[r].verb = "rename" /\ ~Exists(o))
            BY <1>2, <1>7 DEF Adds, NewEntries
        <2>2. Applies(r) /\ GatePasses(gate[r]) BY <1>7, <2>1, HandleArms
        <2>3. UNCHANGED <<tok, saw, gate>> BY <2>2 DEF Applies, clientVars
        <2>4. gate[r] # 0 /\ gate[r] = tok[r] /\ tok[r] = sha /\ spent # sha /\ req[r].verb # "copy"
            BY <2>1, <2>2, <2>3 DEF GatePasses, Untouched, Declared
        <2>5. o \in 1..Len(log)
            BY <2>1, Numbers DEF Structure, Shapes, Rooted, Plain
        <2>6. CASE o = tree[Path(r)]
            <3>1. o = s \/ Loose(q, o, n) BY <2>1, <2>3, <2>4, <2>6 DEF Stands
            <3>2. n \in 0..Len(hist) BY <1>5, <2>3
            <3> QED BY <1>4, <2>5, <3>1, <3>2
        <2>7. CASE req[r].verb = "rename" /\ ~Exists(o)
            <3>1. log'[o] = log[o] BY <1>1, <2>5 DEF Keeps
            <3> QED BY <2>1, <2>7, <3>1 DEF Exists
        <2> QED BY <2>1, <2>4, <2>6, <2>7
    <1> QED BY <1>6, <1>7

LEMMA HandleStands ==
    ASSUME Structure, Structure', Rooted, Verified, Answered, Ranged, "header" \notin Races,
           NEW r \in Requests, Handle(r), \A q \in Requests : Untouched(q) /\ Stands(q),
           NEW q \in Requests
    PROVE  Stands(q)'
    <1>1. Keeps /\ hist' = hist /\ req' = req /\ sha' = sha BY HandleKeeps, HandleWrites
    <1>2. (Adds(r) /\ NewEntries(r)) \/ UNCHANGED <<log, tree>> BY HandleEntries
    <1>3. DOMAIN log = 1..Len(log) /\ Path(q) \in Paths /\ tree[Path(q)] \in 1..Len(log) /\ sha \in 0..Len(hist)
        BY Numbers DEF Structure, Shapes, Rooted, Plain
    <1>4. /\ spent' = spent \/ spent' = sha
          /\ \/ UNCHANGED <<log, tree>>
             \/ gate'[r] = gate[r] /\ (gate[r] = 0 \/ spent' = sha)
        BY HandleArms
    <1>5. \A v \in 1..Len(log) : Loose(q, v, sha) => Loosely(q, v, sha)
        <2> SUFFICES ASSUME NEW v \in 1..Len(log), Loose(q, v, sha) PROVE Loosely(q, v, sha) OBVIOUS
        <2>1. v \in Published(log[v].by) BY <1>3 DEF Published
        <2>2. gate'[log[v].by] = gate[log[v].by] BY <2>1, HandleSettled DEF Loose
        <2> QED BY <1>1, <1>3, <2>2, LooseStays
    <1> SUFFICES ASSUME tok'[q] # 0, tok'[q] = sha, NEW v, v = tree'[Path(q)], v # saw'[q], spent' # sha
                 PROVE  Loosely(q, v, sha)
        BY <1>1 DEF Stands, Loose, Loosely, Path
    <1>6. CASE UNCHANGED <<tok[q], saw[q]>>
        <2>1. CASE v = tree[Path(q)]
            BY <1>3, <1>4, <1>5, <1>6, <2>1 DEF Stands
        <2>2. CASE v # tree[Path(q)]
            <3>1. Adds(r) /\ gate'[r] = 0 BY <1>2, <1>4, <2>2
            <3>2. v > Len(log) BY <1>3, <2>2, <3>1 DEF Adds
            <3>3. v \in 1..Len(log')
                <4>1. v \in Nat /\ v <= Len(log') BY <1>3 DEF Structure, Shapes, Versions, Logged, Tree
                <4> QED BY <3>2, <4>1, Numbers
            <3>4. log'[v].by = r BY <3>1, <3>2, <3>3, Numbers DEF Adds
            <3>5. \A h \in 1..sha : hist[h][Path(q)] # v
                BY <1>3, <3>2, Numbers
            <3> QED BY <1>1, <3>1, <3>4, <3>5 DEF Loosely, Path
        <2> QED BY <2>1, <2>2
    <1>7. CASE ~UNCHANGED <<tok[q], saw[q]>>
        <2>1. q = r BY <1>7, HandleOthers
        <2>2. ClientReads(r) \/ RevisionHeader(r)
            BY <1>7, <2>1 DEF Handle, ReadAgain, Precondition, Place, PlaceOverLink, Enforce, Loads, UploadFails,
                   Cleanup, CleanupSkipped, Applies, FailsUnspent, Drain, DrainEnds, Responds, clientVars, handlerVars
        <2>3. CASE ClientReads(r)
            BY <2>1, <2>3 DEF ClientReads, At, Untouched
        <2>4. CASE RevisionHeader(r)
            BY <1>1, <2>1, <2>4 DEF RevisionHeader, Racing, Here, gateVars
        <2> QED BY <2>2, <2>3, <2>4
    <1> QED BY <1>6, <1>7


\* The other hubs publish for no request, a commit keeps the cached tree where the
\* revision stays, and a load of the same revision finds the tree it was.
LEMMA BackgroundOvers ==
    ASSUME Structure, Structure', Overs, Works \/ Peers
    PROVE  Overs' /\ \A v \in 1..Len(log') : v \notin 1..Len(log) => log'[v].by \notin Requests
    <1>1. CASE log' = log BY <1>1 DEF Overs
    <1>2. CASE Peers
        <2>1. PICK p \in Paths : PeerCommits(p) BY <1>2 DEF Peers
        <2> DEFINE e == [by |-> Peer, kind |-> "file", size |-> 1, from |-> 0, over |-> hist[Tip][p]]
        <2>2. log' = Append(log, e) BY <2>1 DEF PeerCommits
        <2>3. e.by = Peer OBVIOUS
        <2> HIDE DEF e
        <2>4. IsSeq(log) BY DEF Structure, Shapes
        <2>5. /\ Len(log') = Len(log) + 1 /\ Len(log) \in Nat /\ log'[Len(log) + 1] = e
              /\ \A v \in 1..Len(log) : log'[v] = log[v]
            BY <2>2, <2>4, Appended, AppendedAt
        <2>6. \A v \in 1..Len(log') : v \in 1..Len(log) \/ v = Len(log) + 1 BY <2>5
        <2>7. 1..Len(log) \subseteq 1..Len(log') BY <2>5
        <2> QED BY <2>3, <2>5, <2>6, <2>7, WritersAssumption DEF Overs
    <1>3. log' = log \/ Peers
        BY DEF Works, FlightLands, Applied, Failed, CommitApplies, PushFails, CommitBegins,
               CommitPublishes, CommitRebases
    <1> QED BY <1>1, <1>2, <1>3

LEMMA BackgroundSawIt ==
    ASSUME Structure, Structure', Ranged, Overs, SawIt, Works \/ Peers
    PROVE  SawIt'
    <1>1. Keeps /\ UNCHANGED <<req, tok, saw, gate>> BY BackgroundFrame
    <1>2. \A v \in 1..Len(log') : v \notin 1..Len(log) => log'[v].by \notin Requests BY BackgroundOvers
    <1> SUFFICES ASSUME NEW v \in 1..Len(log'), NEW q \in Requests, NEW o, NEW s, NEW n,
                        log'[v].by = q, gate'[q] # 0,
                        o = log'[v].over, s = saw'[q], n = tok'[q]
                 PROVE  o = s \/ Loosely(q, o, n) \/ (req[q].verb = "rename" /\ log'[o].kind = "gone")
        BY <1>1 DEF SawIt, Loose, Loosely, Path, Exists
    <1>3. v \in 1..Len(log) /\ log'[v] = log[v] BY <1>1, <1>2 DEF Keeps
    <1>4. o = s \/ Loose(q, o, n) \/ (req[q].verb = "rename" /\ log[o].kind = "gone")
        BY <1>1, <1>3 DEF SawIt, Exists
    <1>5. o \in 1..Len(log) BY <1>3 DEF Overs
    <1>6. n \in 0..Len(hist)
        <2>1. sha \in 1..Len(hist) /\ Len(hist) \in Nat BY Numbers
        <2>2. tok[q] \in Nat /\ tok[q] <= sha BY DEF Ranged, Registers
        <2> QED BY <1>1, <2>1, <2>2
    <1>7. log'[o] = log[o] BY <1>1, <1>5 DEF Keeps
    <1> QED BY <1>1, <1>4, <1>5, <1>6, <1>7, LooseStays DEF Loose

LEMMA BackgroundStands ==
    ASSUME Structure, Structure', Rooted, Beyond, Ranged, "staleload" \notin Races, Works \/ Peers,
           [Next]_vars, NEW q \in Requests, Stands(q)
    PROVE  Stands(q)'
    <1>1. Keeps /\ UNCHANGED <<req, tok, saw, gate>> BY BackgroundFrame
    <1>2. sha \in Nat /\ sha' \in Nat /\ sha <= sha' BY StepForward
    <1>3. CASE sha' # sha
        <2>1. tok[q] \in Nat /\ tok[q] <= sha BY DEF Ranged, Registers
        <2>2. tok'[q] # sha' BY <1>1, <1>2, <1>3, <2>1
        <2> QED BY <2>2 DEF Stands
    <1>4. CASE sha' = sha
        <2>1. tree' = tree /\ spent' = spent
            <3>1. CASE FlightLands
                <4>1. spent' = spent /\ Store /\ flight.on BY <3>1 DEF FlightLands
                <4>2. ~Dirty => /\ tree' = hist[flight.sha] /\ flight.sha = sha
                                /\ tree = base /\ base = hist[sha]
                    BY <1>4, <4>1 DEF Store, Beyond, Dirty
                <4> QED BY <4>1, <4>2 DEF Store
            <3>2. CASE Applied
                <4>1. CommitApplies /\ req' = req BY <3>2 DEF Applied, clientVars
                <4>2. sha < sha' BY <4>1, AppliesKeep
                <4> QED BY <1>2, <1>4, <4>2
            <3>3. CASE ~(FlightLands \/ Applied)
                BY <3>3 DEF Works, Peers, PeerCommits, Failed, PushFails, CommitBegins, CommitPublishes, CommitRebases
            <3> QED BY <3>1, <3>2, <3>3
        <2>2. tree[Path(q)] \in 1..Len(log) /\ sha \in 0..Len(hist)
            BY Numbers DEF Structure, Shapes, Rooted, Plain
        <2>3. Loose(q, tree[Path(q)], sha) => Loosely(q, tree[Path(q)], sha)
            BY <1>1, <2>2, LooseStays
        <2> QED BY <1>1, <1>4, <2>1, <2>3 DEF Stands, Loose, Loosely, Path
    <1> QED BY <1>3, <1>4

\* Nothing is put over what a client that declares a revision has not seen, whatever the
\* verb and for any number of requests, paths, commits and other hubs, outside the
\* windows in which the code breaks the promise: the tree moves between a read and its
\* revision header, a conditional write past the end, a conditional upload over a
\* symbolic link, a commit during a fresh load (setRevisionHeader,
\* checkRevisionGateLocked).
THEOREM SeenAlwaysFirst ==
    ASSUME {"header", "hole", "symlink", "staleload"} \cap Races = {}
    PROVE  Spec => []SeenBeforeWritten
    <1> DEFINE Inv == /\ Structure /\ Used /\ Verified /\ Answered /\ Beyond
                      /\ Rooted /\ Ranged /\ Holeless /\ Overs /\ SawIt
                      /\ \A q \in Requests : Durable(q) /\ Untouched(q) /\ Stands(q)
    <1>1. Init => Inv
        <2> SUFFICES ASSUME Init PROVE Inv OBVIOUS
        <2>1. \A v \in 1..Len(log) : log[v].by \notin Requests
            <3> DEFINE v(k, n) == [by |-> Nobody, kind |-> k, size |-> n, from |-> 0, over |-> 0]
            <3>1. log = <<v("gone", 0), v("file", 1), v("link", 1)>> BY DEF Init, GateInit
            <3>2. \A k, n : v(k, n).by = Nobody OBVIOUS
            <3> HIDE DEF v
            <3> QED BY <3>1, <3>2, WritersAssumption
        <2>2. Overs /\ SawIt BY <2>1 DEF Overs, SawIt
        <2>3. \A q \in Requests : Stands(q) BY DEF Init, Stands
        <2> QED BY <2>2, <2>3, GateStarts, DurableStarts, RequestsStart
    <1>2. Inv /\ [Next]_vars => Inv'
        <2> SUFFICES ASSUME Inv, [Next]_vars PROVE Inv' OBVIOUS
        <2>1. Structure' /\ Used' /\ Verified' BY GateKept, StepVerified DEF Kept
        <2>2. Answered' /\ Grows /\ Beyond' BY <2>1, AnsweredKeeps, StepBeyond
        <2>3. \A q \in Requests : Durable(q)' BY <2>1, StepDurable
        <2>4. Rooted' /\ Ranged' BY <2>1, StepRooted, StepRanged
        <2>5. Holeless' /\ \A q \in Requests : Untouched(q)' BY <2>1, StepUntouched
        <2>6. Overs' /\ SawIt' /\ \A q \in Requests : Stands(q)'
            <3>1. CASE UNCHANGED still
                BY <3>1 DEF still, clientVars, handlerVars, Overs, SawIt, Stands, Loose, Path, Exists
            <3>2. ASSUME NEW r \in Requests, Handle(r)
                  PROVE  Overs' /\ SawIt' /\ \A q \in Requests : Stands(q)'
                BY <2>1, <3>2, HandleOvers, HandleSawIt, HandleStands
            <3>3. CASE Works \/ Peers
                BY <2>1, <3>3, BackgroundOvers, BackgroundSawIt, BackgroundStands
            <3> QED BY <3>1, <3>2, <3>3, NextCases
        <2> QED BY <2>1, <2>2, <2>3, <2>4, <2>5, <2>6
    <1>3. Inv => SeenBeforeWritten
        <2> SUFFICES ASSUME Inv PROVE SeenBeforeWritten OBVIOUS
        <2>1. DOMAIN log = 1..Len(log) BY Numbers
        <2> QED BY <2>1 DEF SawIt, Loose, SeenBeforeWritten
    <1> QED BY <1>1, <1>2, <1>3, PTL DEF Spec

=============================================================================
