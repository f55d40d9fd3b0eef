----------------------------- MODULE SharedIndex -----------------------------
(***************************************************************************)
(* What the shared index of a project promises to the hubs that write it.  *)
(* A hub accepts mutations; from time to time the index moves, in one      *)
(* step, by a batch of mutations that one hub had accepted, at most one    *)
(* per path, and every other path keeps what it had.  No hub can publish   *)
(* a value nobody wrote, undo another hub's landed work on a path it has   *)
(* itself no mutation for, or land its own mutations of a path out of      *)
(* order.  A mutation may also be settled without landing.                 *)
(*                                                                         *)
(* This is the contract the optimistic protocol of the commit pipeline     *)
(* (base tree, compare-and-swap on the manifest, rebase on conflict) has   *)
(* to keep; CommitPipeline is shown to implement it.                       *)
(***************************************************************************)
EXTENDS Naturals

CONSTANTS Hubs, Paths

VARIABLES
    index,     \* path -> content
    accepted,  \* the mutations acknowledged so far
    landed     \* hub -> path -> its newest mutation that is settled

Mutation == [hub : Hubs, path : Paths, val : Nat, ts : Nat]

By(h, p) == {m \in accepted : m.hub = h /\ m.path = p}

Init ==
    /\ index \in [Paths -> Nat]
    /\ accepted = {}
    /\ landed = [h \in Hubs |-> [p \in Paths |-> 0]]

Accept ==
    /\ accepted \subseteq accepted'
    /\ \E m \in accepted' : m \in Mutation /\ accepted' = accepted \cup {m}
    /\ UNCHANGED <<index, landed>>

\* What settling may do to a hub's own marks: none goes back.
Settle(h) ==
    \A g \in Hubs, p \in Paths :
        \/ landed'[g][p] = landed[g][p]
        \/ g = h /\ landed'[g][p] >= landed[g][p] /\ \E m \in By(h, p) : landed'[g][p] = m.ts

Land(h) ==
    /\ \A p \in Paths :
          \/ index'[p] = index[p]
          \/ \E m \in By(h, p) : /\ m.val = index'[p]
                                 /\ m.ts >= landed[h][p] /\ landed'[h][p] = m.ts
    /\ Settle(h)
    /\ UNCHANGED accepted

Next == Accept \/ \E h \in Hubs : Land(h)

Spec == Init /\ [][Next]_<<index, accepted, landed>>
=============================================================================
