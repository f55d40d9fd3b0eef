----------------------------- MODULE MCSessions -----------------------------
(* Small instances of Sessions for TLC.  Callers are interchangeable.      *)
EXTENDS Sessions, TLC
CallerSymmetry == Permutations(Callers)
=============================================================================
