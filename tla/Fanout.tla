------------------------------- MODULE Fanout -------------------------------
(***************************************************************************)
(* The publish fan-out of a project (storage/workflows_publish.go): a ring *)
(* of the paths of the last publishes, read by subscribers from a cursor.  *)
(*                                                                         *)
(* `log` is a history variable: what every publish changed.                *)
(***************************************************************************)
EXTENDS Naturals, Sequences

CONSTANTS
    Paths,      \* the paths of the project
    RingSize    \* maxRecentPaths

ASSUME FanoutAssumption == RingSize \in Nat \ {0}

VARIABLES
    fanoutSeq,  \* the number of publishes recorded
    recent,     \* the ring: Seq of [seq, known, paths]; nil paths is ~known
    log         \* ghost: Seq of SUBSET Paths

fanoutVars == <<fanoutSeq, recent, log>>

FanoutInit == fanoutSeq = 0 /\ recent = <<>> /\ log = <<>>

RingEntry(seq, known, paths) == [seq |-> seq, known |-> known, paths |-> IF known THEN paths ELSE {}]
(* mutant: the ring forgets its newest entry instead of its oldest *)
TrimmedNewest(ring) == IF Len(ring) > RingSize THEN SubSeq(ring, 1, RingSize) ELSE ring
Trimmed(ring) == IF Len(ring) > RingSize THEN SubSeq(ring, Len(ring) - RingSize + 1, Len(ring)) ELSE ring

(* notePublishedPathsLocked: recorded together with the tree it describes. *)
NotePublished(known, paths) ==
    /\ fanoutSeq' = fanoutSeq + 1
    /\ recent' = Trimmed(Append(recent, RingEntry(fanoutSeq + 1, known, paths)))
    /\ log' = Append(log, paths)

(* A cursor the ring no longer reaches.                                    *)
Lost(since) == recent # <<>> /\ since + 1 < recent[1].seq

After(since) == {i \in DOMAIN recent : recent[i].seq > since}
(* PublishedPathsSince on a cached project.                                *)
UnknownSince(since) == Lost(since) \/ \E i \in After(since) : ~recent[i].known
PathsSince(since) == UNION {recent[i].paths : i \in After(since)}

-----------------------------------------------------------------------------
(* ScopeComplete: a subscriber at any cursor is either told that its scope *)
(* is unknown or given every path published since, however far the ring    *)
(* has moved past it.                                                      *)
ScopeComplete ==
    \A since \in 0..fanoutSeq :
        UnknownSince(since) \/ PathsSince(since) = UNION {log[i] : i \in since + 1 .. fanoutSeq}

=============================================================================
