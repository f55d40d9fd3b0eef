---------------------------- MODULE MCPendingOps ----------------------------
(* Instances of PendingOps for TLC: the initial trees and the name spaces.  *)
EXTENDS PendingOps

A  == <<"a">>
B  == <<"b">>
D  == <<"d">>
E  == <<"e">>
DF == <<"d", "f">>
EF == <<"e", "f">>

Entry(n) == [id |-> n, mode |-> n, at |-> 0]
Root     == <<>> :> Entry(-1)

\* Two names at the root: one committed file, and a chunk already orphaned.
FlatTree  == [files |-> A :> Entry(-2), dirs |-> Root,
              chunks |-> {-2, -3}, tags |-> {}]
FlatFiles == {A, B}
NoPaths   == {}
OneTag    == {<<"v1">>}

\* Two directories, one of them committed with a file in it.
NestedTree  == [files |-> DF :> Entry(-2), dirs |-> Root @@ (D :> Entry(-4)),
                chunks |-> {-2}, tags |-> {}]
NestedFiles == {DF, EF}
NestedDirs  == {D, E}

\* No directory yet.
BareTree == [NestedTree EXCEPT !.files = <<>>, !.dirs = Root]

\* Directory renames one way, both ways, none.
OneWay  == {<<D, E>>}
BothWays == {<<D, E>>, <<E, D>>}

FlatVerbs   == {"create", "upload", "chmod", "unlink", "renameFile"}
ChunkVerbs  == {"upload", "chmod", "unlink", "prune", "release"}
MoveVerbs   == {"upload", "chmod", "unlink", "renameDir"}
ShapeVerbs  == {"upload", "chmod", "unlink", "mkdir", "rmdir"}
DirVerbs    == {"upload", "unlink", "mkdir", "rmdir", "renameDir"}
LeanVerbs   == {"unlink", "renameFile"}
ModeVerbs   == {"chmod", "mkdir", "renameDir"}

Unlimited == 99

FlatScope ==
    [files |-> FlatFiles, dirs |-> NoPaths, tags |-> NoPaths, moves |-> {},
     tree |-> FlatTree, verbs |-> FlatVerbs, clock |-> 6, commits |-> 0, crashes |-> 0,
     lines |-> Unlimited, late |-> FALSE]
NestedScope ==
    [FlatScope EXCEPT !.files = NestedFiles, !.dirs = NestedDirs, !.tree = NestedTree,
                      !.moves = OneWay, !.verbs = DirVerbs]

\* Renames among files; of a directory over its files, with a crash.
Renames == [FlatScope EXCEPT !.verbs = @ \ {"chmod"}, !.commits = 1]
Moves   == [NestedScope EXCEPT !.verbs = MoveVerbs, !.clock = 5, !.commits = 2,
                               !.crashes = 1, !.lines = 6]

\* Journal compaction, commits and a crash: over uploads, chunk GC and
\* releases; the same with a second commit after a failed or landed one; over
\* directories.
Chunks == [FlatScope EXCEPT !.tags = OneTag, !.verbs = ChunkVerbs, !.clock = 5,
                            !.commits = 1, !.crashes = 1, !.lines = 5, !.late = TRUE]
Retries == [Chunks EXCEPT !.clock = 4, !.commits = 2]
Shape  == [NestedScope EXCEPT !.moves = {}, !.verbs = ShapeVerbs, !.clock = 5,
                              !.commits = 1, !.crashes = 1, !.lines = 5, !.late = TRUE]

LiveScopes  == {Renames, Moves}
CrashScopes == {Chunks, Retries, Shape}
AllScopes   == LiveScopes \cup CrashScopes

\* The scopes in which recovery and the acknowledged tree part ways.
Fresh      == {FlatScope}
Landed     == {[FlatScope EXCEPT !.commits = 1]}
Compacted  == {[FlatScope EXCEPT !.lines = 9]}
Rehydrated == {[FlatScope EXCEPT !.verbs = LeanVerbs, !.commits = 1, !.crashes = 1, !.late = TRUE]}
Nested     == {NestedScope}
ThereBack  == {[NestedScope EXCEPT !.moves = BothWays]}
Bare       == {[NestedScope EXCEPT !.tree = BareTree]}
Remoded    == {[NestedScope EXCEPT !.verbs = ModeVerbs]}
=============================================================================
