---------------------------- MODULE ProjectCache ----------------------------
(***************************************************************************)
(* The cache slot of one project and everything that holds a pointer into  *)
(* it.  An entry (projectMetadata) has a commit loop, a goroutine parked   *)
(* on the channels of the entry.  Eviction takes a clean entry out of the  *)
(* slot and asks its loop to stop, while mutators may still hold the       *)
(* entry: a mutation through such a pointer is acknowledged, so it has to  *)
(* revive the entry with fresh channels and a new loop.  Shutdown stops    *)
(* every loop, waits for them and commits what is left dirty.              *)
(*                                                                         *)
(* What a commit publishes is module CommitPipeline's; here it takes the   *)
(* pending operations or fails.  The channels stopCh, stoppedCh and        *)
(* triggerCh of an entry are always replaced together: one number names    *)
(* the three.  The loop started for them has the same number.              *)
(***************************************************************************)
EXTENDS Naturals, FiniteSets

CONSTANTS
    Mutators,       \* goroutines, each with one mutation to make
    MaxEntries,     \* bound on the entries ever created
    MaxChans,       \* bound on the sets of channels ever made
    MaxEvictions, MaxFails, MaxTimeouts, MaxShutdowns,
    LateEvictions,  \* may an entry go between its revival and its dirty mark?
    LateTimeouts    \* may a revival time out once a newer entry is in the slot, or
                    \* wait for a loop that Shutdown kept from starting?

ASSUME CacheAssumption ==
    /\ {MaxEntries, MaxChans, MaxEvictions, MaxFails, MaxTimeouts, MaxShutdowns} \subseteq Nat
    /\ {LateEvictions, LateTimeouts} \subseteq BOOLEAN

VARIABLES
    slot,      \* the entry in metaCache, or 0
    entry,     \* the entries ever created
    chan,      \* channels -> their entry, stopCh closed?, token in triggerCh?
    loop,      \* channels -> the loop started for them
    flight,    \* entry -> the commit that holds commitMu, if any
    mut,       \* mutator -> where it is, the entry and channels it captured
    shut,      \* Shutdown's progress
    drainee,   \* the entry the shutdown drain commits
    covered,   \* history: mutations acknowledged before the last Shutdown call
    settled,   \* history: mutations that landed, or whose loss was logged
    evictions, fails, timeouts, shutdowns

cacheVars == <<slot, entry, chan>>
shutVars  == <<shut, drainee, covered, shutdowns>>
vars == <<cacheVars, loop, flight, mut, shutVars, settled, evictions, fails, timeouts>>

Entries == 1 .. MaxEntries
Chans   == 1 .. MaxChans
Drain   == MaxChans + 1   \* the shutdown drain, among the committers

Entry  == [made : BOOLEAN, dirty : BOOLEAN, stopped : BOOLEAN, reviving : BOOLEAN,
           ops : SUBSET Mutators, ch : {0} \cup Chans]
Chan   == [of : {0} \cup Entries, stop : BOOLEAN, trig : BOOLEAN]
Loop   == [pc : {"none", "parked", "woken", "commit", "exited"}, on : {0} \cup Chans]
Flight == [by : {0, Drain} \cup Chans, batch : SUBSET Mutators, moved : BOOLEAN]
Mut    == [pc : {"idle", "has", "wait", "start", "clear", "mark", "poke", "acked"},
           pm : {0} \cup Entries, ch : {0} \cup Chans]

NoCommit == [by |-> 0, batch |-> {}, moved |-> FALSE]

Init ==
    /\ slot = 0
    /\ entry = [e \in Entries |-> [made |-> FALSE, dirty |-> FALSE, stopped |-> FALSE,
                                   reviving |-> FALSE, ops |-> {}, ch |-> 0]]
    /\ chan = [c \in Chans |-> [of |-> 0, stop |-> FALSE, trig |-> FALSE]]
    /\ loop = [c \in Chans |-> [pc |-> "none", on |-> 0]]
    /\ flight = [e \in Entries |-> NoCommit]
    /\ mut = [m \in Mutators |-> [pc |-> "idle", pm |-> 0, ch |-> 0]]
    /\ shut = "up" /\ drainee = 0 /\ covered = {} /\ shutdowns = 0
    /\ settled = {}
    /\ evictions = 0 /\ fails = 0 /\ timeouts = 0

Acked == {m \in Mutators : mut[m].pc = "acked"}

\* A new set of channels, for an entry.
Fresh(c) == chan[c].of = 0 /\ \A b \in 1 .. c - 1 : chan[b].of # 0
NewChan(e, c) == chan' = [chan EXCEPT ![c].of = e]

\* Mutant: the flag is not consulted.
StartAlways(c) == loop' = [loop EXCEPT ![c] = [pc |-> "parked", on |-> c]]

\* startCommitLoopLocked: not once Shutdown has begun.
Start(c) ==
    loop' = [loop EXCEPT ![c] = IF shut = "up" THEN [pc |-> "parked", on |-> c] ELSE @]

-----------------------------------------------------------------------------
(* Lookup and eviction, under metaMu.                                      *)

\* lookupOrInsert with nothing in the slot: newProjectMetaLocked.
Insert(e, c) ==
    /\ slot = 0
    /\ ~entry[e].made /\ \A d \in 1 .. e - 1 : entry[d].made
    /\ Fresh(c)
    /\ slot' = e
    /\ entry' = [entry EXCEPT ![e].made = TRUE, ![e].ch = c]
    /\ NewChan(e, c)
    /\ Start(c)

\* A reader, or a load on behalf of a mutator, misses and inserts.
ReadMiss ==
    /\ \E e \in Entries, c \in Chans : Insert(e, c)
    /\ UNCHANGED <<flight, mut, shutVars, settled, evictions, fails, timeouts>>

\* A mutator takes the pointer it will work on.
Lookup(m) ==
    /\ mut[m].pc = "idle"
    /\ slot # 0
    /\ mut' = [mut EXCEPT ![m].pc = "has", ![m].pm = slot]
    /\ UNCHANGED <<cacheVars, loop, flight, shutVars, settled, evictions, fails, timeouts>>

\* Mutant: a dirty entry may go.
EvictableDirty(e) == ~entry[e].reviving /\ ~entry[e].stopped

Evictable(e) == ~entry[e].dirty /\ ~entry[e].reviving /\ ~entry[e].stopped

\* evictEntryLocked, for capacity or because the entry has been idle.
Evict ==
    /\ slot # 0
    /\ evictions < MaxEvictions
    /\ Evictable(slot)
    /\ LateEvictions \/ \A m \in Mutators : mut[m].pc = "mark" => mut[m].pm # slot
    /\ LateTimeouts \/ loop[entry[slot].ch].pc # "none"
                    \/ \A m \in Mutators : mut[m].pc = "has" => mut[m].pm # slot
    /\ evictions' = evictions + 1
    /\ entry' = [entry EXCEPT ![slot].stopped = TRUE]
    /\ chan' = [chan EXCEPT ![entry[slot].ch].stop = TRUE]
    /\ slot' = 0
    /\ UNCHANGED <<loop, flight, mut, shutVars, settled, fails, timeouts>>

-----------------------------------------------------------------------------
(* A mutation.                                                             *)

Go(m, pc) == mut' = [mut EXCEPT ![m].pc = pc]

\* The entry a mutator holds.
Held(m) == entry[mut[m].pm]

\* The version moves, which a commit in flight will notice.
Moved(e) ==
    flight' = IF flight[e].by = 0 THEN flight ELSE [flight EXCEPT ![e].moved = TRUE]

\* publishTxLocked, then the fast path of markProjectDirtyLiveLocked, in one hold
\* of pm.mu.
Publish(m) ==
    /\ mut[m].pc = "has"
    /\ ~Held(m).stopped
    /\ entry' = [entry EXCEPT ![mut[m].pm].ops = @ \cup {m}, ![mut[m].pm].dirty = TRUE]
    /\ mut' = [mut EXCEPT ![m].pc = "poke", ![m].ch = Held(m).ch]
    /\ Moved(mut[m].pm)
    /\ UNCHANGED <<slot, chan, loop, shutVars, settled, evictions, fails, timeouts>>

\* The entry was evicted: the mutator captures stoppedCh and goes to wait for it.
PublishEvicted(m) ==
    /\ mut[m].pc = "has"
    /\ Held(m).stopped
    /\ entry' = [entry EXCEPT ![mut[m].pm].ops = @ \cup {m}]
    /\ mut' = [mut EXCEPT ![m].pc = "wait", ![m].ch = Held(m).ch]
    /\ UNCHANGED <<slot, chan, loop, flight, shutVars, settled, evictions, fails, timeouts>>

\* tryReviveLocked, under metaMu and pm.mu, once the loop whose stoppedCh was
\* captured has exited: a fresher entry wins and the loss is logged; an entry that
\* is live again, or in somebody's revival, is only marked; after Shutdown began it
\* goes back for the drain; otherwise it gets fresh channels.  The stoppedCh of a
\* loop that was never started stays open, and only the timeout ends that wait.
Diverged(m)  == slot \notin {0, mut[m].pm}
LiveAgain(m) == \/ slot = mut[m].pm /\ ~Held(m).stopped
                \/ Held(m).reviving
Waited(m) == mut[m].pc = "wait" /\ loop[mut[m].ch].pc = "exited"

ReviveDiverged(m) ==
    /\ Waited(m) /\ Diverged(m)
    /\ settled' = settled \cup {m}
    /\ Go(m, "poke")
    /\ UNCHANGED <<cacheVars, loop, flight, shutVars, evictions, fails, timeouts>>

ReviveLive(m) ==
    /\ Waited(m) /\ ~Diverged(m) /\ LiveAgain(m)
    /\ Go(m, "mark")
    /\ UNCHANGED <<cacheVars, loop, flight, shutVars, settled, evictions, fails, timeouts>>

ReviveForDrain(m) ==
    /\ Waited(m) /\ ~Diverged(m) /\ ~LiveAgain(m)
    /\ shut # "up"
    /\ slot' = mut[m].pm
    /\ Go(m, "mark")
    /\ UNCHANGED <<entry, chan, loop, flight, shutVars, settled, evictions, fails, timeouts>>

Revive(m, c) ==
    /\ Waited(m) /\ ~Diverged(m) /\ ~LiveAgain(m)
    /\ shut = "up"
    /\ Fresh(c)
    /\ slot' = mut[m].pm
    /\ NewChan(mut[m].pm, c)
    /\ entry' = [entry EXCEPT ![mut[m].pm].reviving = TRUE,
                              ![mut[m].pm].stopped = FALSE, ![mut[m].pm].ch = c]
    /\ Go(m, "start")
    /\ UNCHANGED <<loop, flight, shutVars, settled, evictions, fails, timeouts>>

\* The tail of reviveEvictedProject: start the loop, then lower the guard, then
\* mark, each under its own locks.
ReviveStart(m) ==
    /\ mut[m].pc = "start"
    /\ Start(Held(m).ch)
    /\ Go(m, "clear")
    /\ UNCHANGED <<cacheVars, flight, shutVars, settled, evictions, fails, timeouts>>

ReviveClear(m) ==
    /\ mut[m].pc = "clear"
    /\ entry' = [entry EXCEPT ![mut[m].pm].reviving = FALSE]
    /\ Go(m, "mark")
    /\ UNCHANGED <<slot, chan, loop, flight, shutVars, settled, evictions, fails, timeouts>>

\* The wait for the old loop timed out: no swap, but back into the slot if it is
\* free.
WaitTimeout(m) ==
    /\ mut[m].pc = "wait"
    /\ timeouts < MaxTimeouts
    /\ LateTimeouts \/ ~Diverged(m)
    /\ timeouts' = timeouts + 1
    /\ slot' = IF slot = 0 THEN mut[m].pm ELSE slot
    /\ Go(m, "mark")
    /\ UNCHANGED <<entry, chan, loop, flight, shutVars, settled, evictions, fails>>

\* Mutant: the token goes to the trigger captured before the revival.
MarkStale(m) ==
    /\ mut[m].pc = "mark"
    /\ entry' = [entry EXCEPT ![mut[m].pm].dirty = TRUE]
    /\ Go(m, "poke")
    /\ Moved(mut[m].pm)
    /\ UNCHANGED <<slot, chan, loop, shutVars, settled, evictions, fails, timeouts>>

\* markProjectDirtyLocked at the end of a revival; the trigger is read with it.
Mark(m) ==
    /\ mut[m].pc = "mark"
    /\ entry' = [entry EXCEPT ![mut[m].pm].dirty = TRUE]
    /\ mut' = [mut EXCEPT ![m].pc = "poke", ![m].ch = Held(m).ch]
    /\ Moved(mut[m].pm)
    /\ UNCHANGED <<slot, chan, loop, shutVars, settled, evictions, fails, timeouts>>

\* The token, after pm.mu is released; the caller has its acknowledgement.
Poke(m) ==
    /\ mut[m].pc = "poke"
    /\ chan' = [chan EXCEPT ![mut[m].ch].trig = TRUE]
    /\ Go(m, "acked")
    /\ UNCHANGED <<slot, entry, loop, flight, shutVars, settled, evictions, fails, timeouts>>

-----------------------------------------------------------------------------
(* Commit loops.                                                           *)

Owner(c) == chan[c].of

\* The channels a loop goes back to are read from the entry, unlocked.
Repark(c) == [pc |-> "parked", on |-> entry[Owner(c)].ch]

LoopWakes(c) ==
    /\ loop[c].pc = "parked"
    /\ chan[loop[c].on].trig
    /\ chan' = [chan EXCEPT ![loop[c].on].trig = FALSE]
    /\ loop' = [loop EXCEPT ![c].pc = "woken"]
    /\ UNCHANGED <<slot, entry, flight, mut, shutVars, settled, evictions, fails, timeouts>>

\* Evicted, or shutting down.
LoopExits(c) ==
    /\ loop[c].pc = "parked"
    /\ chan[loop[c].on].stop \/ shut # "up"
    /\ loop' = [loop EXCEPT ![c] = [pc |-> "exited", on |-> 0]]
    /\ UNCHANGED <<cacheVars, flight, mut, shutVars, settled, evictions, fails, timeouts>>

\* commitProjectMetadata: commitMu, freeze.
Freeze(e, who) ==
    /\ flight[e].by = 0
    /\ entry[e].dirty
    /\ flight' = [flight EXCEPT ![e] = [by |-> who, batch |-> entry[e].ops, moved |-> FALSE]]

CommitStart(c) ==
    /\ loop[c].pc = "woken"
    /\ Freeze(Owner(c), c)
    /\ loop' = [loop EXCEPT ![c].pc = "commit"]
    /\ UNCHANGED <<cacheVars, mut, shutVars, settled, evictions, fails, timeouts>>

CommitNothing(c) ==
    /\ loop[c].pc = "woken"
    /\ flight[Owner(c)].by = 0 /\ ~entry[Owner(c)].dirty
    /\ loop' = [loop EXCEPT ![c] = Repark(c)]
    /\ UNCHANGED <<cacheVars, flight, mut, shutVars, settled, evictions, fails, timeouts>>

\* Mutant: clean, whatever moved.
LandedClean(e) ==
    /\ entry' = [entry EXCEPT ![e].ops = @ \ flight[e].batch, ![e].dirty = FALSE]
    /\ settled' = settled \cup flight[e].batch
    /\ flight' = [flight EXCEPT ![e] = NoCommit]

\* applyCommittedTree: clean, unless the entry moved since the freeze.
Landed(e) ==
    /\ entry' = IF flight[e].moved
                 THEN [entry EXCEPT ![e].ops = @ \ flight[e].batch]
                 ELSE [entry EXCEPT ![e].ops = @ \ flight[e].batch, ![e].dirty = FALSE]
    /\ settled' = settled \cup flight[e].batch
    /\ flight' = [flight EXCEPT ![e] = NoCommit]

CommitLands(c) ==
    /\ loop[c].pc = "commit"
    /\ Landed(Owner(c))
    /\ loop' = [loop EXCEPT ![c] = Repark(c)]
    /\ UNCHANGED <<slot, chan, mut, shutVars, evictions, fails, timeouts>>

\* A push fails, or Shutdown cancels it: the batch stays pending.
CommitFails(c) ==
    /\ loop[c].pc = "commit"
    /\ shut # "up" \/ fails < MaxFails
    /\ fails' = IF shut = "up" THEN fails + 1 ELSE fails
    /\ flight' = [flight EXCEPT ![Owner(c)] = NoCommit]
    /\ loop' = [loop EXCEPT ![c] = Repark(c)]
    /\ UNCHANGED <<cacheVars, mut, shutVars, settled, evictions, timeouts>>

-----------------------------------------------------------------------------
(* Shutdown.                                                               *)

Running(c) == loop[c].pc \notin {"none", "exited"}

\* The flag, the broadcast, and the wait; a later call only waits and drains.
ShutdownCall ==
    /\ shut \in {"up", "done"}
    /\ shutdowns < MaxShutdowns
    /\ shutdowns' = shutdowns + 1
    /\ shut' = "wait"
    /\ covered' = Acked
    /\ UNCHANGED <<cacheVars, loop, flight, mut, drainee, settled, evictions, fails, timeouts>>

\* Every loop is gone: drainDirtyMetadata takes what is cached.
ShutdownDrains ==
    /\ shut = "wait"
    /\ \A c \in Chans : ~Running(c)
    /\ shut' = "drain"
    /\ drainee' = slot
    /\ UNCHANGED <<cacheVars, loop, flight, mut, covered, shutdowns, settled, evictions,
                   fails, timeouts>>

DrainStart ==
    /\ shut = "drain" /\ drainee # 0
    /\ Freeze(drainee, Drain)
    /\ UNCHANGED <<cacheVars, loop, mut, shutVars, settled, evictions, fails, timeouts>>

DrainLands ==
    /\ shut = "drain" /\ drainee # 0 /\ flight[drainee].by = Drain
    /\ Landed(drainee)
    /\ shut' = "done" /\ drainee' = 0
    /\ UNCHANGED <<slot, chan, loop, mut, covered, shutdowns, evictions, fails, timeouts>>

DrainNothing ==
    /\ shut = "drain"
    /\ drainee # 0 => flight[drainee].by = 0 /\ ~entry[drainee].dirty
    /\ shut' = "done" /\ drainee' = 0
    /\ UNCHANGED <<cacheVars, loop, flight, mut, covered, shutdowns, settled, evictions,
                   fails, timeouts>>

\* The drain's push fails: Shutdown reports the error, and another call may follow.
DrainFails ==
    /\ shut = "drain" /\ drainee # 0 /\ flight[drainee].by = Drain
    /\ fails < MaxFails
    /\ fails' = fails + 1
    /\ flight' = [flight EXCEPT ![drainee] = NoCommit]
    /\ shut' = "done" /\ drainee' = 0 /\ covered' = {}
    /\ UNCHANGED <<cacheVars, loop, mut, shutdowns, settled, evictions, timeouts>>

Mutation(m) ==
    \/ Publish(m) \/ PublishEvicted(m)
    \/ ReviveDiverged(m) \/ ReviveLive(m) \/ ReviveForDrain(m)
    \/ \E c \in Chans : Revive(m, c)
    \/ ReviveStart(m) \/ ReviveClear(m) \/ Mark(m) \/ Poke(m)

LoopStep(c) ==
    LoopWakes(c) \/ LoopExits(c) \/ CommitStart(c) \/ CommitNothing(c) \/ CommitLands(c)

Shutdown == ShutdownDrains \/ DrainStart \/ DrainLands \/ DrainNothing

Next ==
    \/ ReadMiss \/ Evict
    \/ \E m \in Mutators : Lookup(m) \/ Mutation(m) \/ WaitTimeout(m)
    \/ \E c \in Chans : LoopStep(c) \/ CommitFails(c)
    \/ ShutdownCall \/ Shutdown \/ DrainFails

Spec == Init /\ [][Next]_vars

\* Goroutines run: a mutation goes on once it holds an entry, a loop takes its
\* tokens and ends its commits, a Shutdown call ends.
FairSpec ==
    /\ Spec
    /\ \A m \in Mutators : WF_vars(Mutation(m))
    /\ \A c \in Chans : WF_vars(LoopStep(c))
    /\ WF_vars(Shutdown)

-----------------------------------------------------------------------------

TypeOK ==
    /\ slot \in {0} \cup Entries
    /\ entry \in [Entries -> Entry]
    /\ chan \in [Chans -> Chan]
    /\ loop \in [Chans -> Loop]
    /\ flight \in [Entries -> Flight]
    /\ mut \in [Mutators -> Mut]
    /\ \A m \in Mutators : mut[m].pc # "idle" => mut[m].pm # 0
    /\ shut \in {"up", "wait", "drain", "done"}
    /\ drainee \in {0} \cup Entries
    /\ covered \subseteq Mutators /\ settled \subseteq Mutators
    /\ {evictions, fails, timeouts, shutdowns} \subseteq Nat

\* An acknowledged mutation has landed, or its loss was logged, or it is pending
\* on the entry in the slot and that entry is dirty, so a commit, a drain or a
\* flush will find it; it never strands on an entry nobody can reach
\* (commit.go reviveEvictedProject).
NeverStranded ==
    \A m \in Acked \ settled :
        /\ slot = mut[m].pm
        /\ entry[slot].dirty
        /\ m \in entry[slot].ops

\* No two commit loops ever serve one entry: they would both read its channels
\* while a revival replaces them (caches.go, the reviving guard).
OneLoop ==
    \A b, c \in Chans : Running(b) /\ Running(c) /\ Owner(b) = Owner(c) => b = c

\* Once Shutdown stopped waiting no loop runs, and none is ever started: the
\* counter it waited for can never be raised again (client.go Shutdown).
NoLoopAfterWait == shut \in {"drain", "done"} => \A c \in Chans : ~Running(c)

\* Loops are counted and stopped as Shutdown relies on, in a well-formed cache.
LoopsSound == TypeOK /\ NoLoopAfterWait

\* When Shutdown returns without an error, every mutation acknowledged before it
\* was called is settled, although loops were cancelled in the middle of commits
\* and entries evicted and revived (client.go Shutdown, drainDirtyMetadata).
ShutdownConverges == shut = "done" => covered \subseteq settled

\* An acknowledged mutation is committed without further help, whatever was
\* evicted and revived, unless Shutdown, a failed push or a revival that timed out
\* intervenes: those leave the work to the next mutation, a flush or the drain
\* (commit.go commitLoop, reviveEvictedProject).
EventuallySettled ==
    \A m \in Mutators :
        m \in Acked ~> (m \in settled \/ shut # "up" \/ fails > 0 \/ timeouts > 0)
=============================================================================
