------------------------------ MODULE MCPrune ------------------------------
EXTENDS Prune

\* What the calls of a scene do.
Upload(n, k) == [verb |-> "upload", name |-> n, size |-> k]
Replace(n, k) == [verb |-> "replace", name |-> n, size |-> k]
Unlink == [verb |-> "delete", name |-> "f"]
Drop == [verb |-> "drop", tag |-> 1]
Back == [verb |-> "rollback"]
None == [verb |-> "none"]

Scene(b, w1, w2, p, q) ==
    [backend |-> b, plans |-> ("w1" :> w1 @@ "w2" :> w2), scopes |-> ("p" :> p @@ "q" :> q),
     orphans |-> {}, session |-> FALSE, commits |-> 0, foreign |-> 0, roll |-> FALSE, faults |-> 0]

\* Two uploads contend for the room of two releases; one call may fail.
Contention == {[Scene("rest", Upload("g", 2), Upload("h", 2), "none", "none") EXCEPT !.faults = 1]}
\* A file is rolled back to the asset a prune is about to delete.
Rollbacks == {Scene(b, Back, v, "assets", "none") : b \in {"git", "rest"}, v \in {None, Unlink}}
    \cup {[Scene("rest", Back, Unlink, "none", "none") EXCEPT !.commits = 1]}
\* A release is dropped from the catalog while files live in it.
Drops == {[Scene("rest", Drop, Upload("g", 1), "assets", "none") EXCEPT !.commits = 1]}
\* Records are collected on uncommitted state, and the other hub rolls back.
Records == {[Scene(b, v, None, "chunks", "none") EXCEPT !.foreign = 1, !.roll = r, !.session = s] :
               b \in {"git", "rest"}, v \in {Replace("f", 1), Unlink}, r \in BOOLEAN, s \in BOOLEAN}
\* Everything is pruned while the other hub commits or a rollback is tried.
Everything == {[Scene("git", Unlink, None, s, "none") EXCEPT !.foreign = 2, !.faults = 1] :
                  s \in {"all", "history", "objects"}}
    \cup {[Scene("git", None, Back, "all", "none") EXCEPT !.foreign = 2]}
\* Over REST an orphaned object is what the next commit needs again.
Orphans == {[Scene("rest", Unlink, None, s, "none")
               EXCEPT !.orphans = {<<"tree", <<>>>>, <<"chunks", <<>>>>}, !.foreign = 1, !.faults = 1] :
               s \in {"objects", "all"}}
\* Two prunes at a time, with an upload.
Pairs == {Scene("rest", Upload("g", 1), None, s, "assets") : s \in {"chunks", "objects", "assets"}}

\* An upload, and a prune of assets that begins while it runs.
Overtaken == {Scene("rest", Upload("g", 1), None, "assets", "none")}

AllCases == Contention \cup Rollbacks \cup Drops \cup Records \cup Everything \cup Orphans \cup Pairs
=============================================================================
