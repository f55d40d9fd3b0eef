--------------------------- MODULE MCCommitPipeline ---------------------------
(* Small instances of CommitPipeline. *)
EXTENDS CommitPipeline, TLC

CONSTANTS h1, h2, p1, p2

TwoHubs  == {h1, h2}
OneHub   == {h1}
TwoPaths == {p1, p2}
OnePath  == {p1}

\* A third mutation only where nothing fails: two mutations and two faults, or
\* three mutations, at any point of each other's commits.
FewEvents == now <= 3 \/ fails + lost + crashes = 0

\* Nothing compares hubs or paths: both may be permuted.
Symmetric == Permutations(TwoHubs) \cup Permutations(TwoPaths)
===============================================================================
