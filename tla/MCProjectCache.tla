---------------------------- MODULE MCProjectCache ----------------------------
(* Small instances of ProjectCache. *)
EXTENDS ProjectCache, TLC

CONSTANTS m1, m2, m3

Two   == {m1, m2}
Three == {m1, m2, m3}

\* Nothing compares mutators.
Symmetric == Permutations(Three)
===============================================================================
