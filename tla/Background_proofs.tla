------------------------- MODULE Background_proofs -------------------------
(***************************************************************************)
(* Proofs about what runs beside the calls: the commit loops of a cached   *)
(* project (ProjectCache), and the callbacks and notifications of a mount  *)
(* (FuseNotify, Fanout).  They share no variable; each theorem is about    *)
(* one of the two specifications, Spec and NotifySpec.                     *)
(*                                                                         *)
(* ProjectCache, for any number of mutators, entries, evictions, failed    *)
(* pushes, timed-out revivals and Shutdown calls: who owns which channels  *)
(* (Structure), that work is in the slot (Reachable), what a Shutdown has  *)
(* still to wait for (Drained).                                            *)
(*                                                                         *)
(* FuseNotify: a subscriber is told every path or that it cannot be told,  *)
(* the slots are never exceeded, and the kernel is current whenever        *)
(* nothing is under way.  Sound is about the mount by itself: types, the   *)
(* ring (Ring), what the mark of a queued notification stands for (Asked), *)
(* the slots, and that a publish the cursor has not reached has a callback *)
(* coming (Poked).  Watched follows each value the kernel has, or is about *)
(* to be given, until it is told that the name changed.                    *)
(***************************************************************************)
EXTENDS ProjectCache, FuseNotify, FiniteSetTheorems, SequenceTheorems, TLAPS

-----------------------------------------------------------------------------
(* ProjectCache.                                                           *)

(* The invariant, in three parts.  Structure is about pointers: who owns     *)
(* which channels, who holds commitMu, who revives which entry.              *)

Channels ==
    \A e \in Entries : entry[e].made => entry[e].ch # 0 /\ chan[entry[e].ch].of = e

Holders ==
    /\ slot # 0 => entry[slot].made
    /\ \A m \in Mutators : mut[m].pc # "idle" => entry[mut[m].pm].made

LoopsOwned == \A c \in Chans : loop[c].pc # "none" => chan[c].of # 0

\* A commit is in flight exactly when the loop that made it says so, or the drain.
Flights ==
    /\ \A c \in Chans : loop[c].pc = "commit" => flight[Owner(c)].by = c
    /\ \A e \in Entries :
        /\ flight[e].by \in Chans =>
              loop[flight[e].by].pc = "commit" /\ Owner(flight[e].by) = e
        /\ flight[e].by = Drain => shut = "drain" /\ drainee = e

AtRevival(m) == mut[m].pc \in {"start", "clear"}

Revivals ==
    /\ \A m \in Mutators : AtRevival(m) => entry[mut[m].pm].reviving
    /\ \A m, n \in Mutators :
          AtRevival(m) /\ AtRevival(n) /\ mut[m].pm = mut[n].pm => m = n
    /\ \A e \in Entries : entry[e].reviving => entry[e].made /\ ~entry[e].stopped

\* The loop of a revival is not there before the revival starts it.
Unstarted ==
    \A m \in Mutators : mut[m].pc = "start" => loop[Held(m).ch].pc = "none"

Structure ==
    TypeOK /\ Channels /\ Holders /\ LoopsOwned /\ Flights /\ Revivals /\ Unstarted

(* Reachable says why acknowledged work can be found: an entry that is not   *)
(* stopped is in the slot, and what a commit in flight does not carry has    *)
(* moved the entry's version.                                                *)

LiveInSlot == \A e \in Entries : entry[e].made /\ ~entry[e].stopped => slot = e

Marking == \A m \in Mutators : mut[m].pc = "mark" => slot = mut[m].pm

Pending ==
    \A m \in Mutators \ settled :
        mut[m].pc \notin {"idle", "has"} => m \in entry[mut[m].pm].ops

Marked(m) == mut[m].pc \in {"poke", "acked"}

Safe ==
    \A m \in Mutators \ settled :
        Marked(m) => slot = mut[m].pm /\ entry[mut[m].pm].dirty

InBatch ==
    \A m \in Mutators \ settled :
        Marked(m) /\ flight[mut[m].pm].by # 0 /\ ~flight[mut[m].pm].moved
            => m \in flight[mut[m].pm].batch

Reachable == LiveInSlot /\ Marking /\ Pending /\ Safe /\ InBatch

(* Drained is about the last sweep: it commits the entry that holds what was *)
(* acknowledged before Shutdown was called, and the batch carries it.        *)

Draining ==
    /\ covered \subseteq Acked
    /\ shut = "drain" =>
          \A m \in covered \ settled :
              /\ drainee = mut[m].pm
              /\ flight[drainee].by = Drain => m \in flight[drainee].batch

Drained == Draining /\ ShutdownConverges

-----------------------------------------------------------------------------

LEMMA Sentinels ==
    /\ 0 \notin Entries /\ 0 \notin Chans
    /\ Drain # 0 /\ Drain \notin Chans
    BY CacheAssumption DEF Entries, Chans, Drain

\* What Structure says of the variables, with the records still folded.
LEMMA Facts ==
    ASSUME Structure
    PROVE  /\ 0 \notin Entries /\ 0 \notin Chans /\ Drain # 0 /\ Drain \notin Chans
           /\ slot \in {0} \cup Entries /\ entry \in [Entries -> Entry]
           /\ chan \in [Chans -> Chan] /\ loop \in [Chans -> Loop]
           /\ flight \in [Entries -> Flight] /\ mut \in [Mutators -> Mut]
           /\ shut \in {"up", "wait", "drain", "done"} /\ drainee \in {0} \cup Entries
           /\ covered \subseteq Mutators /\ settled \subseteq Mutators
           /\ evictions \in Nat /\ fails \in Nat /\ timeouts \in Nat /\ shutdowns \in Nat
           /\ \A m \in Mutators : mut[m].pc # "idle" => mut[m].pm \in Entries
           /\ \A c \in Chans : loop[c].pc # "none" => chan[c].of \in Entries
           /\ \A e \in Entries : entry[e].made => entry[e].ch \in Chans
           /\ \A e \in Entries : entry[e].ch \in {0} \cup Chans
           /\ \A m \in Mutators : mut[m].ch \in {0} \cup Chans
           /\ \A e \in Entries : flight[e].batch \subseteq Mutators
    BY Sentinels DEF Structure, TypeOK, Channels, LoopsOwned, Entry, Chan, Loop, Flight, Mut

\* The updates the actions make to records keep their types.
LEMMA Updates ==
    /\ \A r \in Entry :
        /\ [r EXCEPT !.stopped = TRUE] \in Entry
        /\ [r EXCEPT !.reviving = FALSE] \in Entry
        /\ [r EXCEPT !.dirty = TRUE] \in Entry
        /\ \A c \in Chans :
            /\ [r EXCEPT !.made = TRUE, !.ch = c] \in Entry
            /\ [r EXCEPT !.reviving = TRUE, !.stopped = FALSE, !.ch = c] \in Entry
    /\ \A r \in Chan :
        /\ [r EXCEPT !.stop = TRUE] \in Chan
        /\ [r EXCEPT !.trig = TRUE] \in Chan
        /\ [r EXCEPT !.trig = FALSE] \in Chan
        /\ \A e \in Entries : [r EXCEPT !.of = e] \in Chan
    /\ \A r \in Flight, b \in BOOLEAN : [r EXCEPT !.moved = b] \in Flight
    /\ \A r \in Mut, c \in {0} \cup Chans :
        /\ [r EXCEPT !.pc = "wait", !.ch = c] \in Mut
        /\ [r EXCEPT !.pc = "poke", !.ch = c] \in Mut
    BY DEF Entry, Chan, Flight, Mut

\* What a revival does to the two functions it updates.
LEMMA NewChannels ==
    ASSUME Structure, NEW e \in Entries, NEW c \in Chans, NewChan(e, c)
    PROVE  /\ chan' \in [Chans -> Chan]
           /\ chan'[c].of = e
           /\ \A b \in Chans \ {c} : chan'[b].of = chan[b].of
    <1>1. chan' \in [Chans -> Chan] BY Facts, Updates DEF NewChan
    <1> QED BY <1>1, Facts DEF NewChan, Chan

LEMMA RevivedEntry ==
    ASSUME Structure, NEW e \in Entries, NEW c \in Chans,
           entry' = [entry EXCEPT ![e].reviving = TRUE, ![e].stopped = FALSE, ![e].ch = c]
    PROVE  /\ entry' \in [Entries -> Entry]
           /\ entry'[e].made = entry[e].made /\ entry'[e].ch = c
           /\ entry'[e].reviving /\ ~entry'[e].stopped
           /\ entry'[e].ops = entry[e].ops /\ entry'[e].dirty = entry[e].dirty
           /\ \A d \in Entries \ {e} : entry'[d] = entry[d]
    <1>1. entry' \in [Entries -> Entry] BY Facts, Updates
    <1> QED BY <1>1, Facts DEF Entry

\* A mutator's step changes where it is.
LEMMA Goes ==
    ASSUME Structure, NEW m \in Mutators, mut[m].pc # "idle",
           NEW pc \in {"start", "clear", "mark", "poke", "acked"}, Go(m, pc)
    PROVE  /\ mut' \in [Mutators -> Mut]
           /\ mut'[m].pc = pc
           /\ \A n \in Mutators : mut'[n].pm = mut[n].pm
           /\ \A n \in Mutators \ {m} : mut'[n] = mut[n]
    BY Facts DEF Go, Mut

\* A landed commit takes operations away, and the dirty flag, nothing else.
LEMMA LandedEntry ==
    ASSUME Structure, NEW e \in Entries, Landed(e)
    PROVE  /\ entry' \in [Entries -> Entry]
           /\ \A d \in Entries :
                /\ entry'[d].made = entry[d].made /\ entry'[d].stopped = entry[d].stopped
                /\ entry'[d].reviving = entry[d].reviving /\ entry'[d].ch = entry[d].ch
    <1>1. entry' \in [Entries -> Entry]
        <2>1. /\ [entry[e] EXCEPT !.ops = @ \ flight[e].batch] \in Entry
              /\ [entry[e] EXCEPT !.ops = @ \ flight[e].batch, !.dirty = FALSE] \in Entry
            <3>1. entry[e] \in Entry BY Facts
            <3> QED BY <3>1 DEF Entry
        <2>2. CASE flight[e].moved BY <2>1, <2>2, Facts DEF Landed
        <2>3. CASE ~flight[e].moved BY <2>1, <2>3, Facts DEF Landed
        <2> QED BY <2>2, <2>3
    <1>2. \A d \in Entries :
              /\ entry'[d].made = entry[d].made /\ entry'[d].stopped = entry[d].stopped
              /\ entry'[d].reviving = entry[d].reviving /\ entry'[d].ch = entry[d].ch
        BY Facts DEF Landed, Entry
    <1> QED BY <1>1, <1>2

LEMMA LookupsStructure ==
    ASSUME Structure, NoLoopAfterWait,
           ReadMiss \/ Evict
    PROVE  Structure' /\ NoLoopAfterWait'
    <1>1. ASSUME ReadMiss PROVE Structure' /\ NoLoopAfterWait'
        <2> PICK e \in Entries, c \in Chans : Insert(e, c) BY <1>1 DEF ReadMiss
        <2>a. /\ ~entry[e].made /\ chan[c].of = 0 /\ UNCHANGED mut
              /\ \A d \in Entries \ {e} : entry'[d] = entry[d]
              /\ \A b \in Chans \ {c} : loop'[b] = loop[b]
            BY <1>1, Facts DEF ReadMiss, Insert, Fresh, Start
        <2>1. slot' \in {0} \cup Entries BY <1>1, Facts, Updates DEF ReadMiss, Insert
        <2>2. entry' \in [Entries -> Entry]
            BY <1>1, Facts, Updates DEF Insert
        <2>3. chan' \in [Chans -> Chan]
            BY <1>1, Facts, Updates DEF ReadMiss, Insert, NewChan, Start
        <2>4. loop' \in [Chans -> Loop]
            BY <1>1, Facts DEF ReadMiss, Insert, NewChan, Start, Loop
        <2>5. TypeOK'
            BY <1>1, <2>1, <2>2, <2>3, <2>4, Facts DEF TypeOK, ReadMiss, Insert, cacheVars,
               shutVars
        <2>6. Channels'
            BY <1>1, Facts DEF Structure, ReadMiss, Insert, Fresh, NewChan, Start, Channels,
               Chan, Entry
        <2>7. Holders' BY <1>1, Facts DEF Structure, ReadMiss, Insert, Holders, Entry
        <2>8. LoopsOwned'
            BY <1>1, Facts DEF Structure, ReadMiss, Insert, NewChan, Start, LoopsOwned,
               Chan, Entry, Loop
        <2>9. Flights'
            BY <1>1, Facts DEF Structure, ReadMiss, Insert, Fresh, NewChan, Start,
               cacheVars, shutVars, Flights, Chan, Loop, Owner
        <2>10. Revivals'
            BY <1>1, Facts DEF Structure, ReadMiss, Insert, Revivals, AtRevival, Entry
        <2>11. Unstarted'
            BY <2>a, Facts DEF Structure, Unstarted, Held, Holders, Channels
        <2>12. NoLoopAfterWait'
            BY <1>1, Facts DEF Structure, ReadMiss, Insert, NewChan, Start, cacheVars,
               shutVars, NoLoopAfterWait, Running, Loop
        <2> QED BY <2>5, <2>6, <2>7, <2>8, <2>9, <2>10, <2>11, <2>12 DEF Structure
    <1>2. CASE Evict
        <2>1. evictions' \in Nat BY <1>2, Facts DEF Evict
        <2>2. entry' \in [Entries -> Entry] BY <1>2, Facts, Updates DEF Evict
        <2>3. chan' \in [Chans -> Chan] BY <1>2, Facts, Updates DEF Evict
        <2>4. slot' \in {0} \cup Entries BY <1>2, Facts, Updates DEF Evict
        <2>5. TypeOK'
            BY <1>2, <2>1, <2>2, <2>3, <2>4, Facts DEF TypeOK, Evict, cacheVars, shutVars
        <2>6. NoLoopAfterWait'
            BY <1>2 DEF Structure, Evict, cacheVars, shutVars, NoLoopAfterWait, Running
        <2>7. Channels' BY <1>2, Facts DEF Structure, Evict, Channels, Chan, Entry
        <2>8. Holders' BY <1>2, Facts DEF Structure, Evict, Holders, Entry
        <2>9. LoopsOwned' BY <1>2, Facts DEF Structure, Evict, LoopsOwned, Chan, Entry
        <2>10. Flights'
            BY <1>2, Facts DEF Structure, Evict, cacheVars, shutVars, Flights, Chan, Owner
        <2>11. Revivals'
            BY <1>2, Facts DEF Structure, Evict, Evictable, Revivals, AtRevival, Entry
        <2>12. Unstarted' BY <1>2, Facts DEF Structure, Evict, Unstarted, Held, Entry
        <2> QED BY <2>5, <2>6, <2>7, <2>8, <2>9, <2>10, <2>11, <2>12 DEF Structure
    <1> QED BY <1>1, <1>2

LEMMA PublicationsStructure ==
    ASSUME Structure, NoLoopAfterWait, NEW m \in Mutators,
           Lookup(m) \/ Publish(m) \/ PublishEvicted(m) \/ Mark(m) \/ Poke(m)
    PROVE  Structure' /\ NoLoopAfterWait'
    <1>1. CASE Lookup(m)
        <2>1. mut' \in [Mutators -> Mut] BY ZenonT(60), <1>1, Facts DEF Lookup, Mut
        <2>2. TypeOK' BY <1>1, <2>1, Facts DEF TypeOK, Lookup, cacheVars, shutVars
        <2>3. Channels' /\ LoopsOwned' /\ Flights' /\ NoLoopAfterWait'
            BY <1>1 DEF Structure, Lookup, cacheVars, shutVars, Channels, LoopsOwned,
               Flights, NoLoopAfterWait, Running, Owner
        <2>4. Holders'
            BY <1>1, Facts DEF Structure, Lookup, cacheVars, shutVars, Holders, Mut
        <2>5. Revivals'
            BY <1>1, Facts DEF Structure, Lookup, cacheVars, shutVars, Revivals, AtRevival,
               Mut
        <2>6. Unstarted'
            BY <1>1, Facts DEF Structure, Lookup, cacheVars, shutVars, Unstarted, Held, Mut
        <2> QED BY <2>2, <2>3, <2>4, <2>5, <2>6 DEF Structure
    <1>2. CASE Publish(m)
        <2>a. /\ mut[m].pc = "has" /\ mut[m].pm \in Entries
              /\ \A n \in Mutators : mut'[n].pm = mut[n].pm
              /\ mut'[m].pc = "poke" /\ \A n \in Mutators \ {m} : mut'[n] = mut[n]
            BY <1>2, Facts DEF Publish, Mut
        <2>b. \A e \in Entries :
                  /\ entry'[e].made = entry[e].made /\ entry'[e].ch = entry[e].ch
                  /\ entry'[e].reviving = entry[e].reviving /\ entry'[e].stopped = entry[e].stopped
            BY <1>2, <2>a, Facts DEF Publish, Entry
        <2>c. /\ \A e \in Entries : flight'[e].by = flight[e].by
              /\ UNCHANGED <<slot, chan, loop, shut, drainee>>
            BY <1>2, <2>a, Facts DEF Publish, Moved, Flight, shutVars
        <2>1. entry' \in [Entries -> Entry] BY SMTT(30), <1>2, Facts DEF Publish, Held, Moved, Entry
        <2>2. mut' \in [Mutators -> Mut] BY <1>2, Facts, Updates DEF Publish, Held, Moved
        <2>3. flight' \in [Entries -> Flight]
            BY <1>2, Facts, Updates DEF Publish, Held, Moved
        <2>4. TypeOK'
            BY <1>2, <2>1, <2>2, <2>3, Facts DEF TypeOK, Publish, cacheVars, shutVars
        <2>5. NoLoopAfterWait'
            BY <1>2 DEF Structure, Publish, cacheVars, shutVars, NoLoopAfterWait, Running
        <2>6. Channels'
            BY <2>b, <2>c, Facts DEF Structure, Channels
        <2>7. Holders'
            BY <2>a, <2>b, <2>c, Facts DEF Structure, Holders
        <2>8. LoopsOwned' BY <1>2, Facts DEF Structure, Publish, LoopsOwned, Entry
        <2>9. Flights'
            BY <2>c, Facts DEF Structure, Flights, Owner
        <2>10. Revivals'
            BY SMTT(30), <2>a, <2>b, Facts DEF Structure, Revivals, AtRevival
        <2>11. Unstarted'
            BY <2>a, <2>b, <2>c, Facts DEF Structure, Unstarted, Held
        <2> QED BY <2>4, <2>5, <2>6, <2>7, <2>8, <2>9, <2>10, <2>11 DEF Structure
    <1>3. CASE PublishEvicted(m)
        <2>1. entry' \in [Entries -> Entry] BY <1>3, Facts DEF PublishEvicted, Held, Entry
        <2>2. mut' \in [Mutators -> Mut] BY <1>3, Facts, Updates DEF PublishEvicted, Held
        <2>3. TypeOK'
            BY <1>3, <2>1, <2>2, Facts DEF TypeOK, PublishEvicted, cacheVars, shutVars
        <2>4. Flights' /\ NoLoopAfterWait'
            BY <1>3 DEF Structure, PublishEvicted, cacheVars, shutVars, Flights,
               NoLoopAfterWait, Running, Owner
        <2>5. Channels' BY <1>3, Facts DEF Structure, PublishEvicted, Channels, Entry
        <2>6. Holders' BY <1>3, Facts DEF Structure, PublishEvicted, Holders, Entry, Mut
        <2>7. LoopsOwned' BY <1>3, Facts DEF Structure, PublishEvicted, LoopsOwned, Entry
        <2>8. Revivals'
            BY <1>3, Facts DEF Structure, PublishEvicted, Revivals, AtRevival, Entry, Mut
        <2>9. Unstarted'
            BY <1>3, Facts DEF Structure, PublishEvicted, Held, Unstarted, Entry, Mut
        <2> QED BY <2>3, <2>4, <2>5, <2>6, <2>7, <2>8, <2>9 DEF Structure
    <1>4. CASE Mark(m)
        <2>1. entry' \in [Entries -> Entry] BY <1>4, Facts, Updates DEF Mark
        <2>2. mut' \in [Mutators -> Mut] BY <1>4, Facts, Updates DEF Mark, Held, Moved
        <2>3. flight' \in [Entries -> Flight] BY <1>4, Facts, Updates DEF Mark, Held, Moved
        <2>4. TypeOK' BY <1>4, <2>1, <2>2, <2>3, Facts DEF TypeOK, Mark, cacheVars, shutVars
        <2>5. NoLoopAfterWait'
            BY <1>4 DEF Structure, Mark, cacheVars, shutVars, NoLoopAfterWait, Running
        <2>6. Channels' BY <1>4, Facts DEF Structure, Mark, Channels, Entry
        <2>7. Holders' BY <1>4, Facts DEF Structure, Mark, Holders, Entry, Mut
        <2>8. LoopsOwned' BY <1>4, Facts DEF Structure, Mark, LoopsOwned, Entry
        <2>9. Flights'
            BY <1>4, Facts DEF Structure, Flights, Mark, Moved, cacheVars, shutVars, Flight, Owner
        <2>10. Revivals' BY <1>4, Facts DEF Structure, Mark, Revivals, AtRevival, Entry, Mut
        <2>11. Unstarted'
            BY <1>4, Facts DEF Structure, Mark, Held, Moved, Unstarted, Entry, Mut
        <2> QED BY <2>4, <2>5, <2>6, <2>7, <2>8, <2>9, <2>10, <2>11 DEF Structure
    <1>5. CASE Poke(m)
        <2>1. chan' \in [Chans -> Chan]
            BY <1>5, Facts, Updates DEF Poke
        <2>2. mut' \in [Mutators -> Mut] BY <1>5, Facts DEF Poke, Go, Mut
        <2>3. TypeOK' BY <1>5, <2>1, <2>2, Facts DEF TypeOK, Poke, Go, cacheVars, shutVars
        <2>4. NoLoopAfterWait'
            BY <1>5 DEF Structure, Poke, cacheVars, shutVars, NoLoopAfterWait, Running
        <2>5. Channels' BY <1>5, Facts DEF Structure, Poke, Channels, Chan
        <2>6. Holders' BY <1>5, Facts DEF Structure, Poke, Go, Holders, Mut
        <2>7. LoopsOwned' BY <1>5, Facts DEF Structure, Poke, LoopsOwned, Chan
        <2>8. Flights'
            BY <1>5, Facts DEF Structure, Poke, cacheVars, shutVars, Flights, Chan, Owner
        <2>9. Revivals' BY <1>5, Facts DEF Structure, Poke, Go, Revivals, AtRevival, Mut
        <2>10. Unstarted' BY <1>5, Facts DEF Structure, Poke, Go, Unstarted, Held, Mut
        <2> QED BY <2>3, <2>4, <2>5, <2>6, <2>7, <2>8, <2>9, <2>10 DEF Structure
    <1> QED BY <1>1, <1>2, <1>3, <1>4, <1>5

LEMMA RevivalsStructure ==
    ASSUME Structure, NoLoopAfterWait, NEW m \in Mutators,
           ReviveDiverged(m) \/ ReviveLive(m) \/ ReviveForDrain(m) \/ (\E c \in
             Chans : Revive(m, c)) \/ ReviveStart(m) \/ ReviveClear(m) \/
             WaitTimeout(m)
    PROVE  Structure' /\ NoLoopAfterWait'
    <1>1. CASE ReviveDiverged(m)
        <2>1. settled' \subseteq Mutators BY <1>1, Facts, Updates DEF ReviveDiverged
        <2>2. mut' \in [Mutators -> Mut] BY <1>1, Facts DEF ReviveDiverged, Go, Mut
        <2>3. TypeOK'
            BY <1>1, <2>1, <2>2, Facts DEF TypeOK, ReviveDiverged, Waited, Diverged, Go,
               cacheVars, shutVars
        <2>4. Channels' /\ LoopsOwned' /\ Flights' /\ NoLoopAfterWait'
            BY <1>1 DEF Structure, ReviveDiverged, cacheVars, shutVars, Channels,
               LoopsOwned, Flights, NoLoopAfterWait, Running, Owner
        <2>5. Holders'
            BY <1>1, Facts DEF Structure, ReviveDiverged, Waited, Diverged, Go, cacheVars,
               shutVars, Holders, Mut
        <2>6. Revivals'
            BY <1>1, Facts DEF Structure, ReviveDiverged, Go, cacheVars, shutVars, Revivals,
               AtRevival, Mut
        <2>7. Unstarted'
            BY <1>1, Facts DEF Structure, ReviveDiverged, Go, cacheVars, shutVars,
               Unstarted, Held, Mut
        <2> QED BY <2>3, <2>4, <2>5, <2>6, <2>7 DEF Structure
    <1>2. CASE ReviveLive(m)
        <2>1. mut' \in [Mutators -> Mut] BY <1>2, Facts DEF ReviveLive, Held, Go, Mut
        <2>2. TypeOK'
            BY <1>2, <2>1, Facts DEF TypeOK, ReviveLive, Waited, Diverged, LiveAgain, Held,
               Go, cacheVars, shutVars
        <2>3. Channels' /\ LoopsOwned' /\ Flights' /\ NoLoopAfterWait'
            BY <1>2 DEF Structure, ReviveLive, cacheVars, shutVars, Channels, LoopsOwned,
               Flights, NoLoopAfterWait, Running, Owner
        <2>4. Holders'
            BY <1>2, Facts DEF Structure, ReviveLive, Waited, Diverged, LiveAgain, Held, Go,
               cacheVars, shutVars, Holders, Mut
        <2>5. Revivals'
            BY <1>2, Facts DEF Structure, ReviveLive, Held, Go, cacheVars, shutVars,
               Revivals, AtRevival, Mut
        <2>6. Unstarted'
            BY <1>2, Facts DEF Structure, ReviveLive, Held, Go, cacheVars, shutVars,
               Unstarted, Mut
        <2> QED BY <2>2, <2>3, <2>4, <2>5, <2>6 DEF Structure
    <1>3. CASE ReviveForDrain(m)
        <2>1. slot' \in {0} \cup Entries
            BY <1>3, Facts, Updates DEF ReviveForDrain, Waited, Diverged, LiveAgain
        <2>2. mut' \in [Mutators -> Mut] BY <1>3, Facts DEF ReviveForDrain, Held, Go, Mut
        <2>3. TypeOK'
            BY <1>3, <2>1, <2>2, Facts DEF TypeOK, ReviveForDrain, Waited, Diverged,
               LiveAgain, Held, Go, cacheVars, shutVars
        <2>4. Channels' /\ LoopsOwned' /\ Flights' /\ NoLoopAfterWait'
            BY <1>3 DEF Structure, ReviveForDrain, cacheVars, shutVars, Channels,
               LoopsOwned, Flights, NoLoopAfterWait, Running, Owner
        <2>5. Holders'
            BY <1>3, Facts DEF Structure, ReviveForDrain, Waited, Diverged, LiveAgain, Held,
               Go, Holders, Mut
        <2>6. Revivals'
            BY <1>3, Facts DEF Structure, ReviveForDrain, Held, Go, Revivals, AtRevival, Mut
        <2>7. Unstarted'
            BY <1>3, Facts DEF Structure, ReviveForDrain, Held, Go, Unstarted, Mut
        <2> QED BY <2>3, <2>4, <2>5, <2>6, <2>7 DEF Structure
    <1>4. ASSUME NEW c \in Chans, Revive(m, c) PROVE Structure' /\ NoLoopAfterWait'
        <2>0. /\ mut[m].pc = "wait" /\ mut[m].pm \in Entries /\ Held(m).made /\ ~Held(m).reviving
              /\ slot \in {0, mut[m].pm} /\ shut = "up" /\ chan[c].of = 0
            BY <1>4, Facts DEF Revive, Waited, Diverged, LiveAgain, Fresh, Held, Structure, Holders
        <2>a. /\ chan' \in [Chans -> Chan] /\ chan'[c].of = mut[m].pm
              /\ \A b \in Chans \ {c} : chan'[b].of = chan[b].of
            BY <1>4, <2>0, NewChannels DEF Revive
        <2>b. /\ entry' \in [Entries -> Entry]
              /\ entry'[mut[m].pm].made /\ entry'[mut[m].pm].ch = c
              /\ entry'[mut[m].pm].reviving /\ ~entry'[mut[m].pm].stopped
              /\ \A d \in Entries \ {mut[m].pm} : entry'[d] = entry[d]
            BY ZenonT(60), <1>4, <2>0, RevivedEntry, Goes DEF Revive, Held
        <2>c. /\ mut' \in [Mutators -> Mut] /\ mut'[m].pc = "start"
              /\ \A n \in Mutators : mut'[n].pm = mut[n].pm
              /\ \A n \in Mutators \ {m} : mut'[n] = mut[n]
            BY <1>4, <2>0, Goes DEF Revive
        <2>d. slot' = mut[m].pm /\ UNCHANGED <<loop, flight, settled, shut, drainee>>
            BY <1>4 DEF Revive, shutVars
        <2>1. slot' \in {0} \cup Entries
            BY <1>4, <2>0, Facts DEF Revive
        <2>2. chan' \in [Chans -> Chan]
            BY <2>a
        <2>3. entry' \in [Entries -> Entry]
            BY <2>b
        <2>4. mut' \in [Mutators -> Mut]
            BY <2>c
        <2>5. TypeOK'
            BY SMTT(30), <1>4, <2>1, <2>2, <2>3, <2>4, Facts DEF TypeOK, Revive, Held, Go, NewChan,
               cacheVars, shutVars
        <2>6. NoLoopAfterWait'
            BY <1>4 DEF Structure, Revive, cacheVars, shutVars, NoLoopAfterWait, Running
        <2>7. Channels'
            BY <1>4, <2>0, <2>a, <2>b, Facts DEF Structure, Channels
        <2>8. Holders'
            BY SMTT(30), <1>4, <2>0, <2>b, <2>c, <2>d, Facts DEF Structure, Holders
        <2>9. LoopsOwned'
            BY <1>4, <2>0, <2>a, Facts DEF Structure, LoopsOwned, Revive
        <2>10. Flights'
            BY <1>4, <2>0, <2>a, <2>d, Facts DEF Structure, Flights, LoopsOwned, Owner
        <2>11. Revivals'
            <3>1. ~entry[mut[m].pm].reviving BY <2>0 DEF Held
            <3>2. \A n \in Mutators \ {m} : AtRevival(n) => mut[n].pm # mut[m].pm
                BY <3>1 DEF Structure, Revivals
            <3>3. \A n \in Mutators \ {m} : AtRevival(n)' => AtRevival(n)
                BY <2>c DEF AtRevival
            <3>4. \A n \in Mutators : AtRevival(n)' => entry'[mut'[n].pm].reviving
                <4>1. ASSUME NEW n \in Mutators \ {m}, AtRevival(n)'
                      PROVE  entry'[mut'[n].pm].reviving
                    BY <2>b, <2>c, <3>2, <3>3, <4>1, Facts DEF Structure, Revivals, AtRevival
                <4> QED BY <4>1, <2>b, <2>c
            <3>5. \A n, o \in Mutators :
                      AtRevival(n)' /\ AtRevival(o)' /\ mut'[n].pm = mut'[o].pm => n = o
                BY <2>c, <3>2, <3>3 DEF Structure, Revivals
            <3>6. \A e \in Entries : entry'[e].reviving => entry'[e].made /\ ~entry'[e].stopped
                BY <2>b DEF Structure, Revivals
            <3> QED BY <3>4, <3>5, <3>6 DEF Revivals
        <2>12. Unstarted'
            BY <1>4, <2>0, <2>b, <2>c, <2>d, Facts
               DEF Structure, Unstarted, Revivals, AtRevival, LoopsOwned, Held
        <2> QED BY <2>5, <2>6, <2>7, <2>8, <2>9, <2>10, <2>11, <2>12 DEF Structure
    <1>5. CASE ReviveStart(m)
        <2>0. /\ mut[m].pm \in Entries /\ Held(m).ch \in Chans /\ Owner(Held(m).ch) = mut[m].pm
              /\ loop[Held(m).ch].pc = "none"
            BY <1>5, Facts DEF ReviveStart, Held, Owner, Structure, Channels, Holders, Unstarted
        <2>a. /\ \A b \in Chans : loop'[b].pc = "commit" <=> loop[b].pc = "commit"
              /\ UNCHANGED <<chan, flight, shut, drainee>>
            BY <1>5, <2>0, Facts DEF ReviveStart, Start, Loop, cacheVars, shutVars
        <2>1. loop' \in [Chans -> Loop]
            BY <1>5, Facts DEF ReviveStart, Start, Held, Go, Loop
        <2>2. mut' \in [Mutators -> Mut]
            BY <1>5, Facts DEF ReviveStart, Start, Held, Go, Mut
        <2>3. TypeOK'
            BY <1>5, <2>1, <2>2, Facts DEF TypeOK, ReviveStart, Start, Held, Go, cacheVars,
               shutVars
        <2>4. Channels'
            BY <1>5 DEF Structure, ReviveStart, cacheVars, shutVars, Channels, Owner
        <2>5. Holders'
            BY <1>5, Facts DEF Structure, ReviveStart, Start, Held, Go, cacheVars, shutVars,
               Holders, Mut
        <2>6. LoopsOwned'
            BY <1>5, Facts DEF Structure, ReviveStart, Start, Held, Go, cacheVars, shutVars,
               LoopsOwned, Loop, Channels, Holders
        <2>7. Flights'
            BY <2>a, Facts DEF Structure, Flights, Owner
        <2>8. Revivals'
            BY <1>5, Facts DEF Structure, ReviveStart, Start, Held, Go, cacheVars, shutVars,
               Revivals, AtRevival, Mut
        <2>9. Unstarted'
            <3>1. ASSUME NEW n \in Mutators, mut'[n].pc = "start"
                  PROVE  loop'[Held(n)'.ch].pc = "none"
                <4>1. n # m /\ mut[n].pc = "start" /\ mut'[n].pm = mut[n].pm
                    BY <1>5, <3>1, Facts DEF ReviveStart, Go, Mut
                <4>2. mut[n].pm # mut[m].pm
                    BY <1>5, <4>1 DEF ReviveStart, Structure, Revivals, AtRevival
                <4>3. Held(n).ch \in Chans /\ Owner(Held(n).ch) = mut[n].pm
                        /\ loop[Held(n).ch].pc = "none"
                    BY <4>1, Facts DEF Held, Owner, Structure, Channels, Holders, Unstarted
                <4>4. Held(n)' = Held(n) BY <1>5, <4>1 DEF ReviveStart, Held, cacheVars
                <4>5. loop'[Held(n).ch] = loop[Held(n).ch]
                    BY <1>5, <2>0, <4>2, <4>3, Facts DEF ReviveStart, Start
                <4> QED BY <4>3, <4>4, <4>5
            <3> QED BY <3>1 DEF Unstarted
        <2>10. NoLoopAfterWait'
            BY <1>5, Facts DEF Structure, ReviveStart, Start, Held, Go, cacheVars, shutVars,
               NoLoopAfterWait, Running, Loop
        <2> QED BY <2>3, <2>4, <2>5, <2>6, <2>7, <2>8, <2>9, <2>10 DEF Structure
    <1>6. CASE ReviveClear(m)
        <2>1. entry' \in [Entries -> Entry] BY <1>6, Facts, Updates DEF ReviveClear
        <2>2. mut' \in [Mutators -> Mut] BY <1>6, Facts DEF ReviveClear, Go, Mut
        <2>3. TypeOK'
            BY <1>6, <2>1, <2>2, Facts DEF TypeOK, ReviveClear, Go, cacheVars, shutVars
        <2>4. Flights' /\ NoLoopAfterWait'
            BY <1>6 DEF Structure, ReviveClear, cacheVars, shutVars, Flights,
               NoLoopAfterWait, Running, Owner
        <2>5. Channels' BY <1>6, Facts DEF Structure, ReviveClear, Channels, Entry
        <2>6. Holders' BY <1>6, Facts DEF Structure, ReviveClear, Go, Holders, Entry, Mut
        <2>7. LoopsOwned' BY <1>6, Facts DEF Structure, ReviveClear, LoopsOwned, Entry
        <2>8. Revivals'
            BY <1>6, Facts DEF Structure, ReviveClear, Go, Revivals, AtRevival, Entry, Mut
        <2>9. Unstarted'
            BY <1>6, Facts DEF Structure, ReviveClear, Go, Unstarted, Held, Entry, Mut
        <2> QED BY <2>3, <2>4, <2>5, <2>6, <2>7, <2>8, <2>9 DEF Structure
    <1>7. CASE WaitTimeout(m)
        <2>1. timeouts' \in Nat BY <1>7, Facts DEF WaitTimeout
        <2>2. slot' \in {0} \cup Entries BY <1>7, Facts, Updates DEF WaitTimeout
        <2>3. mut' \in [Mutators -> Mut] BY <1>7, Facts DEF WaitTimeout, Go, Mut
        <2>4. TypeOK'
            BY <1>7, <2>1, <2>2, <2>3, Facts DEF TypeOK, WaitTimeout, Go, cacheVars,
               shutVars
        <2>5. Channels' /\ LoopsOwned' /\ Flights' /\ NoLoopAfterWait'
            BY <1>7 DEF Structure, WaitTimeout, cacheVars, shutVars, Channels, LoopsOwned,
               Flights, NoLoopAfterWait, Running, Owner
        <2>6. Holders' BY <1>7, Facts DEF Structure, WaitTimeout, Go, Holders, Mut
        <2>7. Revivals'
            BY <1>7, Facts DEF Structure, WaitTimeout, Go, Revivals, AtRevival, Mut
        <2>8. Unstarted' BY <1>7, Facts DEF Structure, WaitTimeout, Go, Unstarted, Held, Mut
        <2> QED BY <2>4, <2>5, <2>6, <2>7, <2>8 DEF Structure
    <1> QED BY <1>1, <1>2, <1>3, <1>4, <1>5, <1>6, <1>7

LEMMA LoopsStructure ==
    ASSUME Structure, NoLoopAfterWait, NEW c \in Chans,
           LoopWakes(c) \/ LoopExits(c) \/ CommitStart(c) \/ CommitNothing(c) \/
             CommitLands(c) \/ CommitFails(c)
    PROVE  Structure' /\ NoLoopAfterWait'
    <1>1. CASE LoopWakes(c)
        <2>1. chan' \in [Chans -> Chan] BY <1>1, Facts, Updates DEF LoopWakes, Owner
        <2>2. loop' \in [Chans -> Loop] BY <1>1, Facts DEF LoopWakes, Owner, Loop
        <2>3. TypeOK' BY <1>1, <2>1, <2>2, Facts DEF TypeOK, LoopWakes, cacheVars, shutVars
        <2>4. Holders' /\ Revivals'
            BY <1>1 DEF Structure, LoopWakes, Holders, Revivals, AtRevival
        <2>5. Channels' BY <1>1, Facts DEF Structure, LoopWakes, Owner, Channels, Chan
        <2>6. LoopsOwned'
            BY <1>1, Facts DEF Structure, LoopWakes, Owner, LoopsOwned, Chan, Loop
        <2>7. Flights'
            BY <1>1, Facts DEF Structure, LoopWakes, cacheVars, shutVars, Owner, Flights,
               Chan, Loop
        <2>8. Unstarted'
            BY <1>1, Facts DEF Structure, LoopWakes, Owner, Unstarted, Held, Loop
        <2>9. NoLoopAfterWait'
            BY <1>1, Facts DEF Structure, LoopWakes, cacheVars, shutVars, Owner,
               NoLoopAfterWait, Running, Loop
        <2> QED BY <2>3, <2>4, <2>5, <2>6, <2>7, <2>8, <2>9 DEF Structure
    <1>2. CASE LoopExits(c)
        <2>1. loop' \in [Chans -> Loop] BY <1>2, Facts DEF LoopExits, Owner, Loop
        <2>2. TypeOK' BY <1>2, <2>1, Facts DEF TypeOK, LoopExits, cacheVars, shutVars
        <2>3. Channels' /\ Holders' /\ Revivals'
            BY <1>2 DEF Structure, LoopExits, cacheVars, shutVars, Channels, Holders,
               Revivals, AtRevival, Owner
        <2>4. LoopsOwned'
            BY <1>2, Facts DEF Structure, LoopExits, cacheVars, shutVars, Owner, LoopsOwned,
               Loop
        <2>5. Flights'
            BY <1>2, Facts DEF Structure, LoopExits, cacheVars, shutVars, Owner, Flights,
               Loop
        <2>6. Unstarted'
            BY <1>2, Facts DEF Structure, LoopExits, cacheVars, shutVars, Owner, Unstarted,
               Held, Loop
        <2>7. NoLoopAfterWait'
            BY <1>2, Facts DEF Structure, LoopExits, cacheVars, shutVars, Owner,
               NoLoopAfterWait, Running, Loop
        <2> QED BY <2>2, <2>3, <2>4, <2>5, <2>6, <2>7 DEF Structure
    <1>3. CASE CommitStart(c)
        <2>1. flight' \in [Entries -> Flight]
            <3>1. [by |-> c, batch |-> entry[Owner(c)].ops, moved |-> FALSE] \in Flight
                BY <1>3, Facts DEF CommitStart, Owner, Flight, Entry
            <3> QED BY <1>3, <3>1, Facts DEF CommitStart, Freeze
        <2>2. loop' \in [Chans -> Loop] BY <1>3, Facts DEF CommitStart, Owner, Loop
        <2>3. TypeOK'
            BY <1>3, <2>1, <2>2, Facts DEF TypeOK, CommitStart, cacheVars, shutVars
        <2>4. Channels' /\ Holders' /\ Revivals'
            BY <1>3 DEF Structure, CommitStart, cacheVars, shutVars, Channels, Holders,
               Revivals, AtRevival, Owner
        <2>5. LoopsOwned'
            BY <1>3, Facts DEF Structure, CommitStart, cacheVars, shutVars, Owner,
               LoopsOwned, Loop
        <2>6. Flights'
            BY <1>3, Facts DEF Structure, CommitStart, Freeze, cacheVars, shutVars, Owner,
               Flights, Flight, Loop
        <2>7. Unstarted'
            BY <1>3, Facts DEF Structure, CommitStart, cacheVars, shutVars, Owner,
               Unstarted, Held, Loop
        <2>8. NoLoopAfterWait'
            BY <1>3, Facts DEF Structure, CommitStart, cacheVars, shutVars, Owner,
               NoLoopAfterWait, Running, Loop
        <2> QED BY <2>3, <2>4, <2>5, <2>6, <2>7, <2>8 DEF Structure
    <1>4. CASE CommitNothing(c)
        <2>1. loop' \in [Chans -> Loop]
            BY <1>4, Facts DEF CommitNothing, Repark, Owner, Loop
        <2>2. TypeOK' BY <1>4, <2>1, Facts DEF TypeOK, CommitNothing, cacheVars, shutVars
        <2>3. Channels' /\ Holders' /\ Revivals'
            BY <1>4 DEF Structure, CommitNothing, cacheVars, shutVars, Channels, Holders,
               Revivals, AtRevival, Owner
        <2>4. LoopsOwned'
            BY <1>4, Facts DEF Structure, CommitNothing, cacheVars, shutVars, Owner,
               LoopsOwned, Loop
        <2>5. Flights'
            BY <1>4, Facts DEF Structure, CommitNothing, Repark, cacheVars, shutVars, Owner,
               Flights, Loop
        <2>6. Unstarted'
            BY <1>4, Facts DEF Structure, CommitNothing, cacheVars, shutVars, Owner,
               Unstarted, Held, Loop
        <2>7. NoLoopAfterWait'
            BY <1>4, Facts DEF Structure, CommitNothing, cacheVars, shutVars, Owner,
               NoLoopAfterWait, Running, Loop
        <2> QED BY <2>2, <2>3, <2>4, <2>5, <2>6, <2>7 DEF Structure
    <1>5. CASE CommitLands(c)
        <2>a. Owner(c) \in Entries /\ Landed(Owner(c)) BY <1>5, Facts DEF CommitLands, Owner
        <2>b. \A e \in Entries :
                  /\ entry'[e].made = entry[e].made /\ entry'[e].stopped = entry[e].stopped
                  /\ entry'[e].reviving = entry[e].reviving /\ entry'[e].ch = entry[e].ch
            BY <2>a, LandedEntry
        <2>c. /\ \A b \in Chans : loop'[b].pc = "none" <=> loop[b].pc = "none"
              /\ UNCHANGED <<slot, chan, mut>>
            BY <1>5, Facts DEF CommitLands, Repark, Loop
        <2>1. entry' \in [Entries -> Entry]
            BY <2>a, LandedEntry
        <2>2. settled' \subseteq Mutators
            BY <1>5, Facts, Updates DEF CommitLands, Landed, Repark, NoCommit, Owner
        <2>3. flight' \in [Entries -> Flight]
            BY <1>5, Facts DEF CommitLands, Landed, Repark, NoCommit, Owner, Flight
        <2>4. loop' \in [Chans -> Loop]
            BY <1>5, Facts DEF CommitLands, Landed, Repark, NoCommit, Owner, Loop
        <2>5. TypeOK'
            BY <1>5, <2>1, <2>2, <2>3, <2>4, Facts DEF TypeOK, CommitLands, cacheVars,
               shutVars
        <2>6. Channels'
            BY <2>b, <2>c, Facts DEF Structure, Channels
        <2>7. Holders'
            BY SMTT(30), <1>5, Facts DEF Structure, CommitLands, Landed, Repark, NoCommit, Owner,
               Holders, Entry
        <2>8. LoopsOwned'
            BY <1>5, Facts DEF Structure, CommitLands, Owner, LoopsOwned, Entry, Loop
        <2>9. Flights'
            BY <1>5, Facts DEF Structure, CommitLands, Landed, Repark, NoCommit, cacheVars,
               shutVars, Owner, Flights, Flight, Loop
        <2>10. Revivals'
            BY <2>b, <2>c, Facts DEF Structure, Revivals, AtRevival
        <2>11. Unstarted'
            BY <2>b, <2>c, Facts DEF Structure, Unstarted, Held, Holders
        <2>12. NoLoopAfterWait'
            BY <1>5, Facts DEF Structure, CommitLands, cacheVars, shutVars, Owner,
               NoLoopAfterWait, Running, Loop
        <2> QED BY <2>5, <2>6, <2>7, <2>8, <2>9, <2>10, <2>11, <2>12 DEF Structure
    <1>6. CASE CommitFails(c)
        <2>1. fails' \in Nat BY <1>6, Facts DEF CommitFails, Owner
        <2>2. flight' \in [Entries -> Flight]
            BY <1>6, Facts DEF CommitFails, Repark, NoCommit, Owner, Flight
        <2>3. loop' \in [Chans -> Loop]
            BY <1>6, Facts DEF CommitFails, Repark, NoCommit, Owner, Loop
        <2>4. TypeOK'
            BY <1>6, <2>1, <2>2, <2>3, Facts DEF TypeOK, CommitFails, cacheVars, shutVars
        <2>5. Channels' /\ Holders' /\ Revivals'
            BY <1>6 DEF Structure, CommitFails, cacheVars, shutVars, Channels, Holders,
               Revivals, AtRevival, Owner
        <2>6. LoopsOwned'
            BY <1>6, Facts DEF Structure, CommitFails, cacheVars, shutVars, Owner,
               LoopsOwned, Loop
        <2>7. Flights'
            BY <1>6, Facts DEF Structure, CommitFails, Repark, NoCommit, cacheVars,
               shutVars, Owner, Flights, Flight, Loop
        <2>8. Unstarted'
            BY <1>6, Facts DEF Structure, CommitFails, cacheVars, shutVars, Owner,
               Unstarted, Held, Loop
        <2>9. NoLoopAfterWait'
            BY <1>6, Facts DEF Structure, CommitFails, cacheVars, shutVars, Owner,
               NoLoopAfterWait, Running, Loop
        <2> QED BY <2>4, <2>5, <2>6, <2>7, <2>8, <2>9 DEF Structure
    <1> QED BY <1>1, <1>2, <1>3, <1>4, <1>5, <1>6

LEMMA ShutdownStructure ==
    ASSUME Structure, NoLoopAfterWait,
           ShutdownCall \/ ShutdownDrains \/ DrainStart \/ DrainLands \/
             DrainNothing \/ DrainFails
    PROVE  Structure' /\ NoLoopAfterWait'
    <1>1. CASE ShutdownCall
        <2>1. shutdowns' \in Nat BY <1>1, Facts DEF ShutdownCall
        <2>2. shut' \in {"up", "wait", "drain", "done"}
            BY <1>1, Facts, Updates DEF ShutdownCall
        <2>3. covered' \subseteq Mutators BY <1>1, Facts, Updates DEF ShutdownCall, Acked
        <2>4. TypeOK'
            BY <1>1, <2>1, <2>2, <2>3, Facts DEF TypeOK, ShutdownCall, cacheVars, shutVars
        <2>5. Channels' /\ Holders' /\ LoopsOwned' /\ Revivals' /\ Unstarted'
            BY <1>1 DEF Structure, ShutdownCall, cacheVars, shutVars, Channels, Holders,
               LoopsOwned, Revivals, AtRevival, Unstarted, Held, Owner
        <2>6. Flights'
            BY <1>1, Facts DEF Structure, ShutdownCall, cacheVars, shutVars, Flights, Owner
        <2>7. NoLoopAfterWait'
            BY <1>1, Facts DEF Structure, ShutdownCall, NoLoopAfterWait, Running
        <2> QED BY <2>4, <2>5, <2>6, <2>7 DEF Structure
    <1>2. CASE ShutdownDrains
        <2>1. shut' \in {"up", "wait", "drain", "done"}
            BY <1>2, Facts, Updates DEF ShutdownDrains
        <2>2. drainee' \in {0} \cup Entries BY <1>2, Facts, Updates DEF ShutdownDrains
        <2>3. TypeOK'
            BY <1>2, <2>1, <2>2, Facts DEF TypeOK, ShutdownDrains, cacheVars, shutVars
        <2>4. Channels' /\ Holders' /\ LoopsOwned' /\ Revivals' /\ Unstarted'
            BY <1>2 DEF Structure, ShutdownDrains, cacheVars, shutVars, Channels, Holders,
               LoopsOwned, Revivals, AtRevival, Unstarted, Held, Owner
        <2>5. Flights'
            BY <1>2, Facts DEF Structure, ShutdownDrains, cacheVars, shutVars, Flights,
               Owner
        <2>6. NoLoopAfterWait'
            BY <1>2, Facts DEF Structure, ShutdownDrains, NoLoopAfterWait, Running
        <2> QED BY <2>3, <2>4, <2>5, <2>6 DEF Structure
    <1>3. CASE DrainStart
        <2>1. flight' \in [Entries -> Flight]
            <3>1. [by |-> Drain, batch |-> entry[drainee].ops, moved |-> FALSE] \in Flight
                BY <1>3, Facts DEF DrainStart, Flight, Entry
            <3> QED BY <1>3, <3>1, Facts DEF DrainStart, Freeze
        <2>2. TypeOK' BY <1>3, <2>1, Facts DEF TypeOK, DrainStart, cacheVars, shutVars
        <2>3. Channels' /\ Holders' /\ LoopsOwned' /\ Revivals' /\ Unstarted' /\ NoLoopAfterWait'
            BY <1>3 DEF Structure, DrainStart, cacheVars, shutVars, Channels, Holders,
               LoopsOwned, Revivals, AtRevival, Unstarted, Held, NoLoopAfterWait, Running,
               Owner
        <2>4. Flights'
            BY <1>3, Facts DEF Structure, DrainStart, Freeze, cacheVars, shutVars, Flights,
               Flight, Owner
        <2> QED BY <2>2, <2>3, <2>4 DEF Structure
    <1>4. CASE DrainLands
        <2>1. entry' \in [Entries -> Entry]
            <3>1. drainee \in Entries /\ Landed(drainee) BY <1>4, Facts DEF DrainLands
            <3> QED BY <3>1, LandedEntry
        <2>2. settled' \subseteq Mutators
            BY <1>4, Facts, Updates DEF DrainLands, Landed, NoCommit
        <2>3. flight' \in [Entries -> Flight]
            BY <1>4, Facts DEF DrainLands, Landed, NoCommit, Flight
        <2>4. shut' \in {"up", "wait", "drain", "done"}
            BY <1>4, Facts, Updates DEF DrainLands
        <2>5. drainee' \in {0} \cup Entries BY <1>4, Facts, Updates DEF DrainLands
        <2>6. TypeOK' BY <1>4, <2>1, <2>2, <2>3, <2>4, <2>5, Facts DEF TypeOK, DrainLands
        <2>7. Channels'
            BY <1>4, Facts DEF Structure, DrainLands, Landed, NoCommit, Channels, Entry
        <2>8. Holders'
            BY <1>4, Facts DEF Structure, DrainLands, Landed, NoCommit, Holders, Entry
        <2>9. LoopsOwned' BY <1>4, Facts DEF Structure, DrainLands, LoopsOwned, Entry
        <2>10. Flights'
            BY <1>4, Facts DEF Structure, DrainLands, Landed, NoCommit, Flights, Flight,
               Owner
        <2>11. Revivals'
            BY <1>4, Facts DEF Structure, DrainLands, Landed, NoCommit, Revivals, AtRevival,
               Entry
        <2>12. Unstarted'
            BY <1>4, Facts DEF Structure, DrainLands, Landed, NoCommit, Unstarted, Held,
               Entry
        <2>13. NoLoopAfterWait'
            BY <1>4, Facts DEF Structure, DrainLands, NoLoopAfterWait, Running
        <2> QED BY <2>6, <2>7, <2>8, <2>9, <2>10, <2>11, <2>12, <2>13 DEF Structure
    <1>5. CASE DrainNothing
        <2>1. shut' \in {"up", "wait", "drain", "done"}
            BY <1>5, Facts, Updates DEF DrainNothing
        <2>2. drainee' \in {0} \cup Entries BY <1>5, Facts, Updates DEF DrainNothing
        <2>3. TypeOK'
            BY <1>5, <2>1, <2>2, Facts DEF TypeOK, DrainNothing, cacheVars, shutVars
        <2>4. Channels' /\ Holders' /\ LoopsOwned' /\ Revivals' /\ Unstarted'
            BY <1>5 DEF Structure, DrainNothing, cacheVars, shutVars, Channels, Holders,
               LoopsOwned, Revivals, AtRevival, Unstarted, Held, Owner
        <2>5. Flights'
            BY <1>5, Facts DEF Structure, DrainNothing, cacheVars, shutVars, Flights, Owner
        <2>6. NoLoopAfterWait'
            BY <1>5, Facts DEF Structure, DrainNothing, NoLoopAfterWait, Running
        <2> QED BY <2>3, <2>4, <2>5, <2>6 DEF Structure
    <1>6. CASE DrainFails
        <2>1. fails' \in Nat BY <1>6, Facts DEF DrainFails
        <2>2. flight' \in [Entries -> Flight]
            BY <1>6, Facts DEF DrainFails, NoCommit, Flight
        <2>3. shut' \in {"up", "wait", "drain", "done"}
            BY <1>6, Facts, Updates DEF DrainFails
        <2>4. drainee' \in {0} \cup Entries BY <1>6, Facts, Updates DEF DrainFails
        <2>5. covered' \subseteq Mutators BY <1>6, Facts, Updates DEF DrainFails, Acked
        <2>6. TypeOK'
            BY <1>6, <2>1, <2>2, <2>3, <2>4, <2>5, Facts DEF TypeOK, DrainFails, cacheVars,
               shutVars
        <2>7. Channels' /\ Holders' /\ LoopsOwned' /\ Revivals' /\ Unstarted'
            BY <1>6 DEF Structure, DrainFails, cacheVars, shutVars, Channels, Holders,
               LoopsOwned, Revivals, AtRevival, Unstarted, Held, Owner
        <2>8. Flights'
            BY <1>6, Facts DEF Structure, DrainFails, NoCommit, cacheVars, shutVars,
               Flights, Flight, Owner
        <2>9. NoLoopAfterWait'
            BY <1>6, Facts DEF Structure, DrainFails, NoLoopAfterWait, Running
        <2> QED BY <2>6, <2>7, <2>8, <2>9 DEF Structure
    <1> QED BY <1>1, <1>2, <1>3, <1>4, <1>5, <1>6

LEMMA LookupsReach ==
    ASSUME ~LateEvictions, Structure, Reachable,
           ReadMiss \/ Evict
    PROVE  Reachable'
    <1>1. ASSUME ReadMiss PROVE Reachable'
        <2> PICK e \in Entries, c \in Chans : Insert(e, c) BY <1>1 DEF ReadMiss
        <2>1. InBatch' BY <1>1 DEF Reachable, ReadMiss, Insert, InBatch, Marked
        <2>2. LiveInSlot'
            BY <1>1, Facts DEF Structure, Reachable, ReadMiss, Insert, LiveInSlot, Entry
        <2>3. Marking' BY <1>1, Facts DEF Structure, Reachable, ReadMiss, Insert, Marking
        <2>4. Pending'
            BY <1>1, Facts DEF Structure, Reachable, ReadMiss, Insert, Pending, Entry
        <2>5. Safe'
            BY <1>1, Facts DEF Structure, Reachable, ReadMiss, Insert, Safe, Marked, Entry
        <2> QED BY <2>1, <2>2, <2>3, <2>4, <2>5 DEF Reachable
    <1>2. CASE Evict
        <2>1. InBatch' BY <1>2 DEF Reachable, Evict, InBatch, Marked
        <2>2. LiveInSlot' BY <1>2, Facts DEF Structure, Reachable, Evict, LiveInSlot, Entry
        <2>3. Marking' BY <1>2, Facts DEF Structure, Reachable, Evict, Marking
        <2>4. Pending' BY <1>2, Facts DEF Structure, Reachable, Evict, Pending, Entry
        <2>5. Safe'
            BY <1>2, Facts DEF Structure, Reachable, Evict, Evictable, Safe, Marked, Entry
        <2> QED BY <2>1, <2>2, <2>3, <2>4, <2>5 DEF Reachable
    <1> QED BY <1>1, <1>2

LEMMA PublicationsReach ==
    ASSUME Structure, Reachable, NEW m \in Mutators,
           Lookup(m) \/ Publish(m) \/ PublishEvicted(m) \/ Mark(m) \/ Poke(m)
    PROVE  Reachable'
    <1>1. CASE Lookup(m)
        <2>1. LiveInSlot' BY <1>1 DEF Reachable, Lookup, cacheVars, shutVars, LiveInSlot
        <2>2. Marking'
            BY <1>1, Facts DEF Structure, Reachable, Lookup, cacheVars, shutVars, Marking,
               Mut
        <2>3. Pending'
            BY <1>1, Facts DEF Structure, Reachable, Lookup, cacheVars, shutVars, Pending,
               Mut
        <2>4. Safe'
            BY <1>1, Facts DEF Structure, Reachable, Lookup, cacheVars, shutVars, Safe,
               Marked, Mut
        <2>5. InBatch' BY <1>1, Facts DEF Structure, Reachable, Lookup, InBatch, Marked, Mut
        <2> QED BY <2>1, <2>2, <2>3, <2>4, <2>5 DEF Reachable
    <1>2. CASE Publish(m)
        <2>1. LiveInSlot'
            BY <1>2, Facts DEF Structure, Reachable, Publish, LiveInSlot, Entry
        <2>2. Marking' BY <1>2, Facts DEF Structure, Reachable, Publish, Marking, Mut
        <2>3. Pending' BY <1>2, Facts DEF Structure, Reachable, Publish, Pending, Entry, Mut
        <2>4. Safe'
            BY SMTT(30), <1>2, Facts DEF Structure, Reachable, Publish, Held, Moved, Safe, Marked,
               Entry, Mut, Marking, LiveInSlot, Pending, InBatch, Holders
        <2>5. InBatch'
            BY <1>2, Facts DEF Structure, Reachable, Publish, Held, Moved, InBatch, Marked,
               Flight, Mut
        <2> QED BY <2>1, <2>2, <2>3, <2>4, <2>5 DEF Reachable
    <1>3. CASE PublishEvicted(m)
        <2>1. LiveInSlot'
            BY <1>3, Facts DEF Structure, Reachable, PublishEvicted, LiveInSlot, Entry
        <2>2. Marking' BY <1>3, Facts DEF Structure, Reachable, PublishEvicted, Marking, Mut
        <2>3. Pending'
            BY <1>3, Facts DEF Structure, Reachable, PublishEvicted, Pending, Entry, Mut
        <2>4. Safe'
            BY <1>3, Facts DEF Structure, Reachable, PublishEvicted, Safe, Marked, Entry,
               Mut
        <2>5. InBatch'
            BY <1>3, Facts DEF Structure, Reachable, PublishEvicted, InBatch, Marked, Mut
        <2> QED BY <2>1, <2>2, <2>3, <2>4, <2>5 DEF Reachable
    <1>4. CASE Mark(m)
        <2>1. LiveInSlot' BY <1>4, Facts DEF Structure, Reachable, Mark, LiveInSlot, Entry
        <2>2. Marking' BY <1>4, Facts DEF Structure, Reachable, Mark, Marking, Mut
        <2>3. Pending' BY <1>4, Facts DEF Structure, Reachable, Mark, Pending, Entry, Mut
        <2>4. Safe'
            BY <1>4, Facts DEF Structure, Reachable, Mark, Safe, Marked, Entry, Mut,
               Marking, LiveInSlot, Pending, InBatch, Holders
        <2>5. InBatch'
            BY <1>4, Facts DEF Structure, Reachable, Mark, Held, Moved, InBatch, Marked,
               Flight, Mut
        <2> QED BY <2>1, <2>2, <2>3, <2>4, <2>5 DEF Reachable
    <1>5. CASE Poke(m)
        <2>1. LiveInSlot' BY <1>5 DEF Reachable, Poke, LiveInSlot
        <2>2. Marking' BY <1>5, Facts DEF Structure, Reachable, Poke, Go, Marking, Mut
        <2>3. Pending' BY <1>5, Facts DEF Structure, Reachable, Poke, Go, Pending, Mut
        <2>4. Safe' BY <1>5, Facts DEF Structure, Reachable, Poke, Go, Safe, Marked, Mut
        <2>5. InBatch'
            BY <1>5, Facts DEF Structure, Reachable, Poke, Go, InBatch, Marked, Mut
        <2> QED BY <2>1, <2>2, <2>3, <2>4, <2>5 DEF Reachable
    <1> QED BY <1>1, <1>2, <1>3, <1>4, <1>5

LEMMA RevivalsReach ==
    ASSUME ~LateTimeouts, Structure, Reachable, NEW m \in Mutators,
           ReviveDiverged(m) \/ ReviveLive(m) \/ ReviveForDrain(m) \/ (\E c \in
             Chans : Revive(m, c)) \/ ReviveStart(m) \/ ReviveClear(m) \/
             WaitTimeout(m)
    PROVE  Reachable'
    <1>1. CASE ReviveDiverged(m)
        <2>1. LiveInSlot'
            BY <1>1 DEF Reachable, ReviveDiverged, cacheVars, shutVars, LiveInSlot
        <2>2. Marking'
            BY <1>1, Facts DEF Structure, Reachable, ReviveDiverged, Go, cacheVars,
               shutVars, Marking, Mut
        <2>3. Pending'
            BY <1>1, Facts DEF Structure, Reachable, ReviveDiverged, Go, cacheVars,
               shutVars, Pending, Mut
        <2>4. Safe'
            BY <1>1, Facts DEF Structure, Reachable, ReviveDiverged, Go, cacheVars,
               shutVars, Safe, Marked, Mut
        <2>5. InBatch'
            BY <1>1, Facts DEF Structure, Reachable, ReviveDiverged, Go, InBatch, Marked,
               Mut
        <2> QED BY <2>1, <2>2, <2>3, <2>4, <2>5 DEF Reachable
    <1>2. CASE ReviveLive(m)
        <2>1. LiveInSlot' BY <1>2 DEF Reachable, ReviveLive, cacheVars, shutVars, LiveInSlot
        <2>2. Marking'
            BY <1>2, Facts DEF Structure, Reachable, ReviveLive, Waited, Diverged,
               LiveAgain, Held, Go, cacheVars, shutVars, Marking, Mut, AtRevival, Revivals,
               LiveInSlot, Holders
        <2>3. Pending'
            BY <1>2, Facts DEF Structure, Reachable, ReviveLive, Waited, Diverged,
               LiveAgain, Held, Go, cacheVars, shutVars, Pending, Mut
        <2>4. Safe'
            BY <1>2, Facts DEF Structure, Reachable, ReviveLive, Held, Go, cacheVars,
               shutVars, Safe, Marked, Mut
        <2>5. InBatch'
            BY <1>2, Facts DEF Structure, Reachable, ReviveLive, Held, Go, InBatch, Marked,
               Mut
        <2> QED BY <2>1, <2>2, <2>3, <2>4, <2>5 DEF Reachable
    <1>3. CASE ReviveForDrain(m)
        <2>1. LiveInSlot'
            BY <1>3, Facts DEF Structure, Reachable, ReviveForDrain, Waited, Diverged,
               LiveAgain, LiveInSlot
        <2>2. Marking'
            BY <1>3, Facts DEF Structure, Reachable, ReviveForDrain, Waited, Diverged,
               LiveAgain, Held, Go, Marking, Mut
        <2>3. Pending'
            BY <1>3, Facts DEF Structure, Reachable, ReviveForDrain, Waited, Diverged,
               LiveAgain, Held, Go, Pending, Mut
        <2>4. Safe'
            BY <1>3, Facts DEF Structure, Reachable, ReviveForDrain, Waited, Diverged,
               LiveAgain, Held, Go, Safe, Marked, Mut
        <2>5. InBatch'
            BY <1>3, Facts DEF Structure, Reachable, ReviveForDrain, Held, Go, InBatch,
               Marked, Mut
        <2> QED BY <2>1, <2>2, <2>3, <2>4, <2>5 DEF Reachable
    <1>4. ASSUME NEW c \in Chans, Revive(m, c) PROVE Reachable'
        <2>0. /\ mut[m].pc = "wait" /\ mut[m].pm \in Entries /\ Held(m).made /\ ~Held(m).reviving
              /\ slot \in {0, mut[m].pm} /\ shut = "up" /\ chan[c].of = 0
            BY <1>4, Facts DEF Revive, Waited, Diverged, LiveAgain, Fresh, Held, Structure, Holders
        <2>a. /\ chan' \in [Chans -> Chan] /\ chan'[c].of = mut[m].pm
              /\ \A b \in Chans \ {c} : chan'[b].of = chan[b].of
            BY <1>4, <2>0, NewChannels DEF Revive
        <2>b. /\ entry' \in [Entries -> Entry]
              /\ entry'[mut[m].pm].made /\ entry'[mut[m].pm].ch = c
              /\ entry'[mut[m].pm].reviving /\ ~entry'[mut[m].pm].stopped
              /\ \A d \in Entries \ {mut[m].pm} : entry'[d] = entry[d]
            BY <1>4, <2>0, RevivedEntry, Goes DEF Revive, Held
        <2>c. /\ mut' \in [Mutators -> Mut] /\ mut'[m].pc = "start"
              /\ \A n \in Mutators : mut'[n].pm = mut[n].pm
              /\ \A n \in Mutators \ {m} : mut'[n] = mut[n]
            BY <1>4, <2>0, Goes DEF Revive
        <2>d. slot' = mut[m].pm /\ UNCHANGED <<loop, flight, settled, shut, drainee>>
            BY <1>4 DEF Revive, shutVars
        <2>1. LiveInSlot'
            BY <1>4, Facts DEF Structure, Reachable, Revive, Waited, Diverged, LiveAgain,
               Fresh, LiveInSlot, Entry
        <2>2. Marking'
            BY <1>4, Facts DEF Structure, Reachable, Revive, Waited, Diverged, LiveAgain,
               Held, Go, Fresh, NewChan, Marking, Mut
        <2>e. \A d \in Entries : entry'[d].ops = entry[d].ops /\ entry'[d].dirty = entry[d].dirty
            BY <1>4, <2>0, Facts DEF Revive, Entry
        <2>f. \A n \in Mutators : mut'[n].pm = mut[n].pm /\ mut[n].pm \in {0} \cup Entries
            BY <2>c, Facts DEF Mut
        <2>3. Pending'
            BY <2>0, <2>c, <2>d, <2>e, <2>f, Facts DEF Structure, Reachable, Holders, Pending
        <2>4. Safe'
            BY <1>4, <2>0, <2>c, <2>d, <2>e, <2>f, Facts DEF Structure, Reachable, Holders, Safe, Marked, Waited, Diverged, LiveAgain
        <2>5. InBatch'
            BY <1>4, Facts DEF Structure, Reachable, Revive, Held, Go, NewChan, InBatch,
               Marked, Mut
        <2> QED BY <2>1, <2>2, <2>3, <2>4, <2>5 DEF Reachable
    <1>5. CASE ReviveStart(m)
        <2>1. LiveInSlot'
            BY <1>5 DEF Reachable, ReviveStart, cacheVars, shutVars, LiveInSlot
        <2>2. Marking'
            BY <1>5, Facts DEF Structure, Reachable, ReviveStart, Start, Held, Go,
               cacheVars, shutVars, Marking, Mut
        <2>3. Pending'
            BY <1>5, Facts DEF Structure, Reachable, ReviveStart, Start, Held, Go,
               cacheVars, shutVars, Pending, Mut
        <2>4. Safe'
            BY <1>5, Facts DEF Structure, Reachable, ReviveStart, Start, Held, Go,
               cacheVars, shutVars, Safe, Marked, Mut
        <2>5. InBatch'
            BY <1>5, Facts DEF Structure, Reachable, ReviveStart, Start, Held, Go, InBatch,
               Marked, Mut
        <2> QED BY <2>1, <2>2, <2>3, <2>4, <2>5 DEF Reachable
    <1>6. CASE ReviveClear(m)
        <2>1. LiveInSlot'
            BY <1>6, Facts DEF Structure, Reachable, ReviveClear, LiveInSlot, Entry
        <2>2. Marking'
            BY <1>6, Facts DEF Structure, Reachable, ReviveClear, Go, Marking, Mut,
               AtRevival, Revivals, LiveInSlot, Holders
        <2>3. Pending'
            BY <1>6, Facts DEF Structure, Reachable, ReviveClear, Go, Pending, Entry, Mut
        <2>4. Safe'
            BY <1>6, Facts DEF Structure, Reachable, ReviveClear, Go, Safe, Marked, Entry,
               Mut
        <2>5. InBatch'
            BY <1>6, Facts DEF Structure, Reachable, ReviveClear, Go, InBatch, Marked, Mut
        <2> QED BY <2>1, <2>2, <2>3, <2>4, <2>5 DEF Reachable
    <1>7. CASE WaitTimeout(m)
        <2>1. LiveInSlot' BY <1>7, Facts DEF Structure, Reachable, WaitTimeout, LiveInSlot
        <2>2. Marking'
            BY <1>7, Facts DEF Structure, Reachable, WaitTimeout, Diverged, Go, Marking, Mut
        <2>3. Pending'
            BY <1>7, Facts DEF Structure, Reachable, WaitTimeout, Go, Pending, Mut
        <2>4. Safe'
            BY <1>7, Facts DEF Structure, Reachable, WaitTimeout, Go, Safe, Marked, Mut
        <2>5. InBatch'
            BY <1>7, Facts DEF Structure, Reachable, WaitTimeout, Go, InBatch, Marked, Mut
        <2> QED BY <2>1, <2>2, <2>3, <2>4, <2>5 DEF Reachable
    <1> QED BY <1>1, <1>2, <1>3, <1>4, <1>5, <1>6, <1>7

LEMMA LoopsReach ==
    ASSUME Structure, Reachable, NEW c \in Chans,
           LoopWakes(c) \/ LoopExits(c) \/ CommitStart(c) \/ CommitNothing(c) \/
             CommitLands(c) \/ CommitFails(c)
    PROVE  Reachable'
    <1>1. CASE LoopWakes(c)
        <2>1. LiveInSlot' /\ Marking' /\ Pending' /\ Safe' /\ InBatch'
            BY <1>1 DEF Reachable, LoopWakes, LiveInSlot, Marking, Pending, Safe, Marked,
               InBatch
        <2> QED BY <2>1 DEF Reachable
    <1>2. CASE LoopExits(c)
        <2>1. LiveInSlot' /\ Marking' /\ Pending' /\ Safe' /\ InBatch'
            BY <1>2 DEF Reachable, LoopExits, cacheVars, shutVars, LiveInSlot, Marking,
               Pending, Safe, Marked, InBatch
        <2> QED BY <2>1 DEF Reachable
    <1>3. CASE CommitStart(c)
        <2>1. LiveInSlot' /\ Marking' /\ Pending' /\ Safe'
            BY <1>3 DEF Reachable, CommitStart, cacheVars, shutVars, LiveInSlot, Marking,
               Pending, Safe, Marked
        <2>2. InBatch'
            BY <1>3, Facts DEF Structure, Reachable, CommitStart, Freeze, Owner, InBatch,
               Marked, Flight, Pending, Holders
        <2> QED BY <2>1, <2>2 DEF Reachable
    <1>4. CASE CommitNothing(c)
        <2>1. LiveInSlot' /\ Marking' /\ Pending' /\ Safe' /\ InBatch'
            BY <1>4 DEF Reachable, CommitNothing, cacheVars, shutVars, LiveInSlot, Marking,
               Pending, Safe, Marked, InBatch
        <2> QED BY <2>1 DEF Reachable
    <1>5. CASE CommitLands(c)
        <2>1. Marking' BY <1>5 DEF Reachable, CommitLands, Marking
        <2>2. LiveInSlot'
            BY <1>5, Facts DEF Structure, Reachable, CommitLands, Landed, Repark, NoCommit,
               Owner, LiveInSlot, Entry
        <2>3. Pending'
            BY <1>5, Facts DEF Structure, Reachable, CommitLands, Landed, Repark, NoCommit,
               Owner, Pending, Entry
        <2>4. Safe'
            <3>1. Owner(c) \in Entries /\ flight[Owner(c)].by = c
                BY <1>5, Facts DEF CommitLands, Owner, Structure, Flights
            <3>2. ASSUME NEW m \in Mutators \ settled', Marked(m)'
                  PROVE  slot' = mut'[m].pm /\ entry'[mut'[m].pm].dirty
                <4>1. m \notin settled /\ Marked(m) /\ UNCHANGED <<slot, mut>>
                        /\ mut[m].pm \in Entries
                    BY <1>5, <3>2, Facts DEF CommitLands, Landed, Marked
                <4>2. slot = mut[m].pm /\ entry[mut[m].pm].dirty BY <4>1 DEF Reachable, Safe
                <4>3. CASE mut[m].pm # Owner(c)
                    BY <1>5, <3>1, <4>1, <4>2, <4>3, Facts DEF CommitLands, Landed, Entry
                <4>4. CASE mut[m].pm = Owner(c)
                    <5>1. m \notin flight[Owner(c)].batch BY <1>5, <3>2 DEF CommitLands, Landed
                    <5>2. flight[Owner(c)].moved
                        BY <3>1, <4>1, <4>4, <5>1, Facts DEF Reachable, InBatch
                    <5> QED BY <1>5, <3>1, <4>1, <4>2, <4>4, <5>2, Facts
                       DEF CommitLands, Landed, Entry
                <4> QED BY <4>3, <4>4
            <3> QED BY <3>2 DEF Safe
        <2>5. InBatch'
            BY <1>5, Facts DEF Structure, Reachable, CommitLands, Landed, Repark, NoCommit,
               Owner, InBatch, Marked, Flight
        <2> QED BY <2>1, <2>2, <2>3, <2>4, <2>5 DEF Reachable
    <1>6. CASE CommitFails(c)
        <2>1. LiveInSlot' /\ Marking' /\ Pending' /\ Safe'
            BY <1>6 DEF Reachable, CommitFails, cacheVars, shutVars, LiveInSlot, Marking,
               Pending, Safe, Marked
        <2>2. InBatch'
            BY <1>6, Facts DEF Structure, Reachable, CommitFails, Repark, NoCommit, Owner,
               InBatch, Marked, Flight
        <2> QED BY <2>1, <2>2 DEF Reachable
    <1> QED BY <1>1, <1>2, <1>3, <1>4, <1>5, <1>6

LEMMA ShutdownReach ==
    ASSUME Structure, Reachable,
           ShutdownCall \/ ShutdownDrains \/ DrainStart \/ DrainLands \/
             DrainNothing \/ DrainFails
    PROVE  Reachable'
    <1>1. CASE ShutdownCall
        <2>1. LiveInSlot' /\ Marking' /\ Pending' /\ Safe' /\ InBatch'
            BY <1>1 DEF Reachable, ShutdownCall, cacheVars, shutVars, LiveInSlot, Marking,
               Pending, Safe, Marked, InBatch
        <2> QED BY <2>1 DEF Reachable
    <1>2. CASE ShutdownDrains
        <2>1. LiveInSlot' /\ Marking' /\ Pending' /\ Safe' /\ InBatch'
            BY <1>2 DEF Reachable, ShutdownDrains, cacheVars, shutVars, LiveInSlot, Marking,
               Pending, Safe, Marked, InBatch
        <2> QED BY <2>1 DEF Reachable
    <1>3. CASE DrainStart
        <2>1. LiveInSlot' /\ Marking' /\ Pending' /\ Safe'
            BY <1>3 DEF Reachable, DrainStart, cacheVars, shutVars, LiveInSlot, Marking,
               Pending, Safe, Marked
        <2>2. InBatch'
            BY <1>3, Facts DEF Structure, Reachable, DrainStart, Freeze, InBatch, Marked,
               Flight, Pending, Holders
        <2> QED BY <2>1, <2>2 DEF Reachable
    <1>4. CASE DrainLands
        <2>1. Marking' BY <1>4 DEF Reachable, DrainLands, Marking
        <2>2. LiveInSlot'
            BY <1>4, Facts DEF Structure, Reachable, DrainLands, Landed, NoCommit,
               LiveInSlot, Entry
        <2>3. Pending'
            BY <1>4, Facts DEF Structure, Reachable, DrainLands, Landed, NoCommit, Pending,
               Entry
        <2>4. Safe'
            BY <1>4, Facts DEF Structure, Reachable, DrainLands, Landed, NoCommit, Safe,
               Marked, Entry
        <2>5. InBatch'
            BY <1>4, Facts DEF Structure, Reachable, DrainLands, Landed, NoCommit, InBatch,
               Marked, Flight
        <2> QED BY <2>1, <2>2, <2>3, <2>4, <2>5 DEF Reachable
    <1>5. CASE DrainNothing
        <2>1. LiveInSlot' /\ Marking' /\ Pending' /\ Safe' /\ InBatch'
            BY <1>5 DEF Reachable, DrainNothing, cacheVars, shutVars, LiveInSlot, Marking,
               Pending, Safe, Marked, InBatch
        <2> QED BY <2>1 DEF Reachable
    <1>6. CASE DrainFails
        <2>1. LiveInSlot' /\ Marking' /\ Pending' /\ Safe'
            BY <1>6 DEF Reachable, DrainFails, cacheVars, shutVars, LiveInSlot, Marking,
               Pending, Safe, Marked
        <2>2. InBatch'
            BY <1>6, Facts DEF Structure, Reachable, DrainFails, NoCommit, InBatch, Marked,
               Flight
        <2> QED BY <2>1, <2>2 DEF Reachable
    <1> QED BY <1>1, <1>2, <1>3, <1>4, <1>5, <1>6

LEMMA LookupsDrain ==
    ASSUME Structure, NoLoopAfterWait, Reachable, Drained,
           ReadMiss \/ Evict
    PROVE  Drained'
    <1>1. ASSUME ReadMiss PROVE Drained'
        <2> PICK e \in Entries, c \in Chans : Insert(e, c) BY <1>1 DEF ReadMiss
        <2>1. Draining' /\ ShutdownConverges'
            BY <1>1 DEF Drained, ReadMiss, Insert, cacheVars, shutVars, Draining, Acked,
               ShutdownConverges
        <2> QED BY <2>1 DEF Drained
    <1>2. CASE Evict
        <2>1. Draining' /\ ShutdownConverges'
            BY <1>2 DEF Drained, Evict, cacheVars, shutVars, Draining, Acked,
               ShutdownConverges
        <2> QED BY <2>1 DEF Drained
    <1> QED BY <1>1, <1>2

LEMMA PublicationsDrain ==
    ASSUME Structure, NoLoopAfterWait, Reachable, Drained, NEW m \in Mutators,
           Lookup(m) \/ Publish(m) \/ PublishEvicted(m) \/ Mark(m) \/ Poke(m)
    PROVE  Drained'
    <1>1. CASE Lookup(m)
        <2>1. ShutdownConverges'
            BY <1>1 DEF Drained, Lookup, cacheVars, shutVars, ShutdownConverges
        <2>2. Draining'
            BY <1>1, Facts DEF Structure, Reachable, Drained, Lookup, cacheVars, shutVars,
               Draining, Acked, Mut
        <2> QED BY <2>1, <2>2 DEF Drained
    <1>2. CASE Publish(m)
        <2>1. ShutdownConverges'
            BY <1>2 DEF Drained, Publish, cacheVars, shutVars, ShutdownConverges
        <2>2. Draining'
            BY <1>2, Facts DEF Structure, Reachable, Drained, Publish, Held, Moved,
               cacheVars, shutVars, Draining, Acked, Flight, Mut
        <2> QED BY <2>1, <2>2 DEF Drained
    <1>3. CASE PublishEvicted(m)
        <2>1. ShutdownConverges'
            BY <1>3 DEF Drained, PublishEvicted, cacheVars, shutVars, ShutdownConverges
        <2>2. Draining'
            BY <1>3, Facts DEF Structure, Reachable, Drained, PublishEvicted, cacheVars,
               shutVars, Draining, Acked, Mut
        <2> QED BY <2>1, <2>2 DEF Drained
    <1>4. CASE Mark(m)
        <2>1. ShutdownConverges'
            BY <1>4 DEF Drained, Mark, cacheVars, shutVars, ShutdownConverges
        <2>2. Draining'
            BY <1>4, Facts DEF Structure, Reachable, Drained, Mark, Held, Moved, cacheVars,
               shutVars, Draining, Acked, Flight, Mut
        <2> QED BY <2>1, <2>2 DEF Drained
    <1>5. CASE Poke(m)
        <2>1. ShutdownConverges'
            BY <1>5 DEF Drained, Poke, cacheVars, shutVars, ShutdownConverges
        <2>2. Draining'
            BY <1>5, Facts DEF Structure, Reachable, Drained, Poke, Go, cacheVars, shutVars,
               Draining, Acked, Mut
        <2> QED BY <2>1, <2>2 DEF Drained
    <1> QED BY <1>1, <1>2, <1>3, <1>4, <1>5

LEMMA RevivalsDrain ==
    ASSUME Structure, NoLoopAfterWait, Reachable, Drained, NEW m \in Mutators,
           ReviveDiverged(m) \/ ReviveLive(m) \/ ReviveForDrain(m) \/ (\E c \in
             Chans : Revive(m, c)) \/ ReviveStart(m) \/ ReviveClear(m) \/
             WaitTimeout(m)
    PROVE  Drained'
    <1>1. CASE ReviveDiverged(m)
        <2>1. Draining'
            BY <1>1, Facts DEF Structure, Reachable, Drained, ReviveDiverged, Waited,
               Diverged, Go, cacheVars, shutVars, Draining, Acked, Mut
        <2>2. ShutdownConverges'
            BY <1>1, Facts DEF Structure, Reachable, Drained, ReviveDiverged, cacheVars,
               shutVars, ShutdownConverges
        <2> QED BY <2>1, <2>2 DEF Drained
    <1>2. CASE ReviveLive(m)
        <2>1. ShutdownConverges'
            BY <1>2 DEF Drained, ReviveLive, cacheVars, shutVars, ShutdownConverges
        <2>2. Draining'
            BY <1>2, Facts DEF Structure, Reachable, Drained, ReviveLive, Waited, Diverged,
               LiveAgain, Held, Go, cacheVars, shutVars, Draining, Acked, Mut
        <2> QED BY <2>1, <2>2 DEF Drained
    <1>3. CASE ReviveForDrain(m)
        <2>1. ShutdownConverges'
            BY <1>3 DEF Drained, ReviveForDrain, cacheVars, shutVars, ShutdownConverges
        <2>2. Draining'
            BY <1>3, Facts DEF Structure, Reachable, Drained, ReviveForDrain, Waited,
               Diverged, LiveAgain, Held, Go, cacheVars, shutVars, Draining, Acked, Mut
        <2> QED BY <2>1, <2>2 DEF Drained
    <1>4. ASSUME NEW c \in Chans, Revive(m, c) PROVE Drained'
        <2>1. ShutdownConverges'
            BY <1>4 DEF Drained, Revive, cacheVars, shutVars, ShutdownConverges
        <2>2. Draining'
            BY <1>4, Facts DEF Structure, Reachable, Drained, Revive, Waited, Diverged,
               LiveAgain, Held, Go, Fresh, NewChan, cacheVars, shutVars, Draining, Acked,
               Mut
        <2> QED BY <2>1, <2>2 DEF Drained
    <1>5. CASE ReviveStart(m)
        <2>1. ShutdownConverges'
            BY <1>5 DEF Drained, ReviveStart, cacheVars, shutVars, ShutdownConverges
        <2>2. Draining'
            BY <1>5, Facts DEF Structure, Reachable, Drained, ReviveStart, Start, Held, Go,
               cacheVars, shutVars, Draining, Acked, Mut
        <2> QED BY <2>1, <2>2 DEF Drained
    <1>6. CASE ReviveClear(m)
        <2>1. ShutdownConverges'
            BY <1>6 DEF Drained, ReviveClear, cacheVars, shutVars, ShutdownConverges
        <2>2. Draining'
            BY <1>6, Facts DEF Structure, Reachable, Drained, ReviveClear, Go, cacheVars,
               shutVars, Draining, Acked, Mut
        <2> QED BY <2>1, <2>2 DEF Drained
    <1>7. CASE WaitTimeout(m)
        <2>1. ShutdownConverges'
            BY <1>7 DEF Drained, WaitTimeout, cacheVars, shutVars, ShutdownConverges
        <2>2. Draining'
            BY <1>7, Facts DEF Structure, Reachable, Drained, WaitTimeout, Go, cacheVars,
               shutVars, Draining, Acked, Mut
        <2> QED BY <2>1, <2>2 DEF Drained
    <1> QED BY <1>1, <1>2, <1>3, <1>4, <1>5, <1>6, <1>7

LEMMA LoopsDrain ==
    ASSUME Structure, NoLoopAfterWait, Reachable, Drained, NEW c \in Chans,
           LoopWakes(c) \/ LoopExits(c) \/ CommitStart(c) \/ CommitNothing(c) \/
             CommitLands(c) \/ CommitFails(c)
    PROVE  Drained'
    <1>1. CASE LoopWakes(c)
        <2>1. Draining' /\ ShutdownConverges'
            BY <1>1 DEF Drained, LoopWakes, cacheVars, shutVars, Draining, Acked,
               ShutdownConverges
        <2> QED BY <2>1 DEF Drained
    <1>2. CASE LoopExits(c)
        <2>1. Draining' /\ ShutdownConverges'
            BY <1>2 DEF Drained, LoopExits, cacheVars, shutVars, Draining, Acked,
               ShutdownConverges
        <2> QED BY <2>1 DEF Drained
    <1>3. CASE CommitStart(c)
        <2>1. ShutdownConverges'
            BY <1>3 DEF Drained, CommitStart, cacheVars, shutVars, ShutdownConverges
        <2>2. Draining'
            BY <1>3, Facts DEF Structure, Reachable, Drained, CommitStart, Freeze,
               cacheVars, shutVars, Owner, Draining, Acked, Flight
        <2> QED BY <2>1, <2>2 DEF Drained
    <1>4. CASE CommitNothing(c)
        <2>1. Draining' /\ ShutdownConverges'
            BY <1>4 DEF Drained, CommitNothing, cacheVars, shutVars, Draining, Acked,
               ShutdownConverges
        <2> QED BY <2>1 DEF Drained
    <1>5. CASE CommitLands(c)
        <2>1. Draining'
            BY <1>5, Facts DEF Structure, Reachable, Drained, CommitLands, Landed, Repark,
               NoCommit, cacheVars, shutVars, Owner, Draining, Acked, Flight
        <2>2. ShutdownConverges'
            BY <1>5, Facts DEF Structure, Reachable, Drained, CommitLands, Landed, Repark,
               NoCommit, cacheVars, shutVars, Owner, ShutdownConverges
        <2> QED BY <2>1, <2>2 DEF Drained
    <1>6. CASE CommitFails(c)
        <2>1. ShutdownConverges'
            BY <1>6 DEF Drained, CommitFails, cacheVars, shutVars, ShutdownConverges
        <2>2. Draining'
            BY <1>6, Facts DEF Structure, Reachable, Drained, CommitFails, Repark, NoCommit,
               cacheVars, shutVars, Owner, Draining, Acked, Flight
        <2> QED BY <2>1, <2>2 DEF Drained
    <1> QED BY <1>1, <1>2, <1>3, <1>4, <1>5, <1>6

LEMMA ShutdownDrain ==
    ASSUME Structure, NoLoopAfterWait, Reachable, Drained,
           ShutdownCall \/ ShutdownDrains \/ DrainStart \/ DrainLands \/
             DrainNothing \/ DrainFails
    PROVE  Drained'
    <1>1. CASE ShutdownCall
        <2>1. Draining'
            BY <1>1, Facts DEF Structure, Reachable, Drained, ShutdownCall, Draining, Acked
        <2>2. ShutdownConverges'
            BY <1>1, Facts DEF Structure, Reachable, Drained, ShutdownCall,
               ShutdownConverges
        <2> QED BY <2>1, <2>2 DEF Drained
    <1>2. CASE ShutdownDrains
        <2>1. Draining'
            BY <1>2, Facts DEF Structure, Reachable, Drained, ShutdownDrains, Draining,
               Acked, Safe, Marked, Pending, Flights, NoLoopAfterWait, Running
        <2>2. ShutdownConverges'
            BY <1>2, Facts DEF Structure, Reachable, Drained, ShutdownDrains,
               ShutdownConverges
        <2> QED BY <2>1, <2>2 DEF Drained
    <1>3. CASE DrainStart
        <2>1. ShutdownConverges'
            BY <1>3 DEF Drained, DrainStart, cacheVars, shutVars, ShutdownConverges
        <2>2. Draining'
            BY <1>3, Facts DEF Structure, Reachable, Drained, DrainStart, Freeze, cacheVars,
               shutVars, Draining, Acked, Flight, Safe, Marked, Pending, Flights,
               NoLoopAfterWait, Running
        <2> QED BY <2>1, <2>2 DEF Drained
    <1>4. CASE DrainLands
        <2>1. Draining'
            BY <1>4, Facts DEF Structure, Reachable, Drained, DrainLands, Draining, Acked,
               Flight
        <2>2. ShutdownConverges'
            BY <1>4, Facts DEF Structure, Reachable, Drained, DrainLands, Landed, NoCommit,
               ShutdownConverges, Draining, Acked, Safe, Marked, Flights, NoLoopAfterWait,
               Running
        <2> QED BY <2>1, <2>2 DEF Drained
    <1>5. CASE DrainNothing
        <2>1. Draining'
            BY <1>5, Facts DEF Structure, Reachable, Drained, DrainNothing, Draining, Acked
        <2>2. ShutdownConverges'
            BY <1>5, Facts DEF Structure, Reachable, Drained, DrainNothing,
               ShutdownConverges, Draining, Acked, Safe, Marked, Flights, NoLoopAfterWait,
               Running
        <2> QED BY <2>1, <2>2 DEF Drained
    <1>6. CASE DrainFails
        <2>1. Draining'
            BY <1>6, Facts DEF Structure, Reachable, Drained, DrainFails, Draining, Acked,
               Flight
        <2>2. ShutdownConverges'
            BY <1>6, Facts DEF Structure, Reachable, Drained, DrainFails, ShutdownConverges
        <2> QED BY <2>1, <2>2 DEF Drained
    <1> QED BY <1>1, <1>2, <1>3, <1>4, <1>5, <1>6

-----------------------------------------------------------------------------

LEMMA StructureInit == Init => Structure /\ NoLoopAfterWait
    <1> SUFFICES ASSUME Init PROVE Structure /\ NoLoopAfterWait OBVIOUS
    <1>1. TypeOK
        BY Sentinels DEF Init, TypeOK, Entry, Chan, Loop, Flight, Mut, NoCommit
    <1>2. Channels /\ Holders /\ LoopsOwned /\ Revivals /\ Unstarted /\ NoLoopAfterWait
        BY DEF Init, Channels, Holders, LoopsOwned, Revivals, AtRevival, Unstarted,
               NoLoopAfterWait
    <1>3. Flights BY Sentinels DEF Init, Flights, NoCommit
    <1> QED BY <1>1, <1>2, <1>3 DEF Structure

LEMMA StructureNext ==
    Structure /\ NoLoopAfterWait /\ [Next]_vars => Structure' /\ NoLoopAfterWait'
    <1> SUFFICES ASSUME Structure, NoLoopAfterWait, [Next]_vars
                 PROVE  Structure' /\ NoLoopAfterWait'
        OBVIOUS
    <1>1. CASE UNCHANGED vars
        BY <1>1 DEF vars, cacheVars, shutVars, Structure, TypeOK, Channels, Holders,
               LoopsOwned, Flights, Owner, Revivals, AtRevival, Unstarted, Held,
               NoLoopAfterWait, Running
    <1>2. CASE Next
        BY <1>2, LookupsStructure, PublicationsStructure, RevivalsStructure,
           LoopsStructure, ShutdownStructure DEF Next, Mutation, LoopStep, Shutdown
    <1> QED BY <1>1, <1>2

\* Shutdown never starts to drain while a commit loop runs, and no loop is ever
\* started after it: the flag under shutdownMu makes the wait final, however
\* insertions and revivals race it (client.go Shutdown, startCommitLoopLocked), and
\* every variable keeps its type, for any sets of mutators and any bounds, with
\* every window open.
THEOREM ShutdownWaitIsFinal == Spec => []LoopsSound
    <1>1. Structure => TypeOK BY DEF Structure
    <1>2. TypeOK /\ NoLoopAfterWait => LoopsSound BY DEF LoopsSound
    <1> QED BY StructureInit, StructureNext, <1>1, <1>2, PTL DEF Spec

LEMMA ReachableInit == Init => Reachable
    BY DEF Init, Reachable, LiveInSlot, Marking, Pending, Safe, InBatch, Marked, NoCommit

LEMMA ReachableNext ==
    ASSUME ~LateEvictions, ~LateTimeouts
    PROVE  Structure /\ Reachable /\ [Next]_vars => Reachable'
    <1> SUFFICES ASSUME Structure, Reachable, [Next]_vars PROVE Reachable' OBVIOUS
    <1>1. CASE UNCHANGED vars
        BY <1>1 DEF vars, cacheVars, shutVars, Reachable, LiveInSlot, Marking, Pending,
               Safe, InBatch, Marked
    <1>2. CASE Next
        BY <1>2, LookupsReach, PublicationsReach, RevivalsReach, LoopsReach,
           ShutdownReach DEF Next, Mutation, LoopStep, Shutdown
    <1> QED BY <1>1, <1>2

LEMMA ReachableIsSafe == Structure /\ Reachable => NeverStranded
    BY Facts DEF Structure, Reachable, Pending, Safe, Marked, NeverStranded, Acked

\* An acknowledged mutation that has not landed is pending on the entry in the
\* slot and that entry is dirty, in every interleaving of any number of mutators
\* with eviction, revival, commits and Shutdown, provided only that no entry is
\* evicted between its revival and its dirty mark and no revival times out once a
\* newer entry is in the slot (reviveEvictedProject, tryReviveLocked).
THEOREM WorkNeverStranded ==
    ASSUME ~LateEvictions, ~LateTimeouts
    PROVE  Spec => []NeverStranded
    <1> QED BY StructureInit, StructureNext, ReachableInit, ReachableNext,
               ReachableIsSafe, PTL DEF Spec

LEMMA DrainedInit == Init => Drained
    BY DEF Init, Drained, Draining, ShutdownConverges, Acked

LEMMA DrainedNext ==
    Structure /\ NoLoopAfterWait /\ Reachable /\ Drained /\ [Next]_vars => Drained'
    <1> SUFFICES ASSUME Structure, NoLoopAfterWait, Reachable, Drained, [Next]_vars
                 PROVE  Drained'
        OBVIOUS
    <1>1. CASE UNCHANGED vars
        BY <1>1 DEF vars, cacheVars, shutVars, Drained, Draining, ShutdownConverges, Acked
    <1>2. CASE Next
        BY <1>2, LookupsDrain, PublicationsDrain, RevivalsDrain, LoopsDrain,
           ShutdownDrain DEF Next, Mutation, LoopStep, Shutdown
    <1> QED BY <1>1, <1>2

\* A Shutdown that returns without an error has settled every mutation that was
\* acknowledged before it was called, under the same proviso (client.go Shutdown,
\* drainDirtyMetadata).
THEOREM ShutdownSettles ==
    ASSUME ~LateEvictions, ~LateTimeouts
    PROVE  Spec => []ShutdownConverges
    <1>1. Drained => ShutdownConverges BY DEF Drained
    <1> QED BY StructureInit, StructureNext, ReachableInit, ReachableNext, DrainedInit,
               DrainedNext, <1>1, PTL DEF Spec

-----------------------------------------------------------------------------
(* The ring.                                                               *)

RingEntries == [seq : Nat, known : BOOLEAN, paths : SUBSET Paths]

\* The ring holds the last publishes, each with the paths it changed.
Ring ==
    /\ fanoutSeq \in Nat /\ log \in Seq(SUBSET Paths) /\ Len(log) = fanoutSeq
    /\ recent \in Seq(RingEntries) /\ Len(recent) <= RingSize /\ Len(recent) <= fanoutSeq
    /\ Len(recent) < RingSize => Len(recent) = fanoutSeq
    /\ \A i \in 1..Len(recent) :
          /\ recent[i].seq = fanoutSeq - Len(recent) + i
          /\ recent[i].known => recent[i].paths = log[recent[i].seq]

LEMMA RingStarts == FanoutInit => Ring
    BY FanoutAssumption DEF FanoutInit, Ring

LEMMA RingFacts ==
    ASSUME Ring
    PROVE  /\ fanoutSeq \in Nat /\ RingSize \in Nat /\ RingSize > 0 /\ Len(recent) \in Nat
           /\ DOMAIN recent = 1..Len(recent) /\ DOMAIN log = 1..fanoutSeq
           /\ Len(recent) <= RingSize /\ Len(recent) <= fanoutSeq
           /\ Len(recent) = RingSize \/ Len(recent) = fanoutSeq
           /\ recent # <<>> <=> Len(recent) > 0
           /\ \A i \in 1..Len(recent) : recent[i] \in RingEntries /\ recent[i].seq = fanoutSeq - Len(recent) + i
           /\ \A i \in 1..fanoutSeq : log[i] \in SUBSET Paths
    <1>1. recent \in Seq(RingEntries) /\ log \in Seq(SUBSET Paths) BY DEF Ring
    <1>2. recent # <<>> <=> Len(recent) > 0 BY <1>1, EmptySeq
    <1> QED BY <1>1, <1>2, FanoutAssumption DEF Ring

LEMMA RingFrom ==
    ASSUME NEW k \in Nat, NEW f \in Nat, fanoutSeq' = f, log' \in Seq(SUBSET Paths), Len(log') = f,
           recent' \in Seq(RingEntries), Len(recent') = k, k <= RingSize, k <= f, k = RingSize \/ k = f,
           \A i \in 1..k : recent'[i].seq = f - k + i,
           \A i \in 1..k : recent'[i].known => recent'[i].paths = log'[recent'[i].seq]
    PROVE  Ring'
    BY FanoutAssumption DEF Ring

LEMMA RingGrows ==
    ASSUME Ring, NEW paths \in SUBSET Paths, NEW known \in BOOLEAN, NotePublished(known, paths)
    PROVE  /\ Ring' /\ fanoutSeq' = fanoutSeq + 1
           /\ log'[fanoutSeq + 1] = paths
           /\ \A i \in 1..fanoutSeq : log'[i] = log[i]
           /\ recent' # <<>> /\ recent'[Len(recent')].known = known
           /\ \A i \in 1..Len(recent') : i < Len(recent') =>
                 \E j \in 1..Len(recent) : recent'[i] = recent[j]
    <1> DEFINE e == RingEntry(fanoutSeq + 1, known, paths)
               app == Append(recent, e)
               n == Len(recent)
    <1>1. e \in RingEntries /\ e.seq = fanoutSeq + 1 /\ e.known = known /\ (known => e.paths = paths)
        BY DEF RingEntry, RingEntries, Ring
    <1>2. fanoutSeq' = fanoutSeq + 1 /\ recent' = Trimmed(app) /\ log' = Append(log, paths)
        BY DEF NotePublished
    <1> HIDE DEF e
    <1>3. /\ app \in Seq(RingEntries) /\ Len(app) = n + 1 /\ app[n + 1] = e
          /\ \A i \in 1..n : app[i] = recent[i]
        BY <1>1 DEF Ring
    <1>4. /\ log' \in Seq(SUBSET Paths) /\ Len(log') = fanoutSeq + 1 /\ log'[fanoutSeq + 1] = paths
          /\ \A i \in 1..fanoutSeq : log'[i] = log[i]
        <2>1. log \in Seq(SUBSET Paths) /\ Len(log) = fanoutSeq /\ fanoutSeq \in Nat BY DEF Ring
        <2>2. /\ Append(log, paths) \in Seq(SUBSET Paths) /\ Len(Append(log, paths)) = Len(log) + 1
              /\ \A i \in 1..Len(log) : Append(log, paths)[i] = log[i]
              /\ Append(log, paths)[Len(log) + 1] = paths
            BY <2>1, AppendProperties
        <2> QED BY <1>2, <2>1, <2>2
    <1>5. n \in Nat /\ fanoutSeq \in Nat /\ n <= RingSize /\ n <= fanoutSeq /\ RingSize \in Nat \ {0}
        BY FanoutAssumption DEF Ring
    <1> HIDE DEF app
    <1>6. CASE n < RingSize
        <2>1. recent' = app BY <1>2, <1>3, <1>5, <1>6 DEF Trimmed
        <2>2. Ring'
            <3>1. ASSUME NEW i \in 1..n + 1
                  PROVE  /\ recent'[i].seq = fanoutSeq + 1 - (n + 1) + i
                         /\ recent'[i].known => recent'[i].paths = log'[recent'[i].seq]
                <4>1. CASE i = n + 1
                    <5>1. recent'[i] = e BY <1>3, <2>1, <4>1
                    <5> QED BY <1>1, <1>4, <1>5, <4>1, <5>1
                <4>2. CASE i \in 1..n
                    <5>1. recent[i].seq = fanoutSeq - n + i BY <4>2 DEF Ring
                    <5>2. recent[i].known => recent[i].paths = log[recent[i].seq] BY <4>2 DEF Ring
                    <5>3. recent[i].seq \in 1..fanoutSeq /\ recent[i].seq = fanoutSeq + 1 - (n + 1) + i
                        BY <1>5, <4>2, <5>1
                    <5>4. recent'[i] = recent[i] BY <1>3, <2>1, <4>2
                    <5>5. log'[recent[i].seq] = log[recent[i].seq] BY <1>4, <5>3
                    <5> QED BY <5>2, <5>3, <5>4, <5>5
                <4> QED BY <1>5, <4>1, <4>2
            <3>2. recent' \in Seq(RingEntries) /\ Len(recent') = n + 1 BY <1>3, <2>1
            <3>3. /\ n + 1 \in Nat /\ fanoutSeq + 1 \in Nat
                  /\ n + 1 <= RingSize /\ n + 1 <= fanoutSeq + 1 /\ n + 1 = fanoutSeq + 1
                <4>1. n = fanoutSeq BY <1>6 DEF Ring
                <4> QED BY <1>5, <1>6, <4>1
            <3> HIDE DEF n
            <3> DEFINE k == n + 1
                       f == fanoutSeq + 1
            <3>4. \A i \in 1..k : recent'[i].seq = f - k + i BY <1>5, <3>1
            <3>5. \A i \in 1..k : recent'[i].known => recent'[i].paths = log'[recent'[i].seq] BY <3>1
            <3>6. fanoutSeq' = f /\ log' \in Seq(SUBSET Paths) /\ Len(log') = f /\ f \in Nat
                BY <1>2, <1>4, <3>3
            <3>7. recent' \in Seq(RingEntries) /\ Len(recent') = k /\ k \in Nat /\ k <= RingSize /\ k <= f /\ k = f
                BY <3>2, <3>3
            <3> HIDE DEF k, f
            <3> QED BY <3>4, <3>5, <3>6, <3>7, RingFrom
        <2>3. Len(recent') = n + 1 /\ recent'[n + 1] = e /\ \A i \in 1..n : recent'[i] = recent[i] BY <1>3, <2>1
        <2>4. recent' # <<>> BY <1>5, <2>3
        <2>5. recent'[Len(recent')].known = known BY <1>1, <2>3
        <2>6. ASSUME NEW i \in 1..Len(recent'), i < Len(recent')
              PROVE  \E j \in 1..Len(recent) : recent'[i] = recent[j]
            <3>1. i \in 1..n BY <1>5, <2>3, <2>6
            <3> QED BY <2>3, <3>1
        <2> HIDE DEF n
        <2> QED BY <1>2, <1>4, <2>2, <2>4, <2>5, <2>6
    <1>7. CASE n = RingSize
        <2>1. recent' = SubSeq(app, 2, n + 1) BY <1>2, <1>3, <1>5, <1>7 DEF Trimmed
        <2>2. \A i \in 2..n + 1 : app[i] \in RingEntries BY <1>3, <1>5
        <2>3. /\ recent' \in Seq(RingEntries) /\ Len(recent') = n
              /\ \A i \in 1..n : recent'[i] = app[i + 1]
            BY <1>5, <1>7, <2>1, <2>2, SubSeqProperties
        <2>4. ASSUME NEW i \in 1..n
              PROVE  /\ recent'[i].seq = fanoutSeq + 1 - n + i
                     /\ recent'[i].known => recent'[i].paths = log'[recent'[i].seq]
            <3>1. CASE i = n BY <1>1, <1>3, <1>4, <1>5, <2>3, <3>1
            <3>2. CASE i < n
                <4>1. recent'[i] = recent[i + 1] /\ i + 1 \in 1..n BY <1>3, <1>5, <2>3, <3>2
                <4>2. recent[i + 1].seq = fanoutSeq - n + (i + 1) BY <4>1 DEF Ring
                <4>3. recent[i + 1].known => recent[i + 1].paths = log[recent[i + 1].seq] BY <4>1 DEF Ring
                <4> QED BY <1>4, <1>5, <4>1, <4>2, <4>3
            <3> QED BY <1>5, <3>1, <3>2
        <2>5. Ring'
            <3>1. fanoutSeq + 1 \in Nat /\ n <= fanoutSeq + 1 BY <1>5
            <3>2. fanoutSeq' = fanoutSeq + 1 BY <1>2
            <3> HIDE DEF n
            <3> DEFINE f == fanoutSeq + 1
            <3>3. \A i \in 1..n : recent'[i].seq = f - n + i BY <1>5, <2>4, <3>1
            <3>4. \A i \in 1..n : recent'[i].known => recent'[i].paths = log'[recent'[i].seq] BY <2>4
            <3>5. fanoutSeq' = f /\ log' \in Seq(SUBSET Paths) /\ Len(log') = f /\ f \in Nat /\ n <= f
                BY <1>4, <3>1, <3>2
            <3>6. recent' \in Seq(RingEntries) /\ Len(recent') = n /\ n \in Nat /\ n <= RingSize /\ n = RingSize
                BY <1>5, <1>7, <2>3
            <3> HIDE DEF f
            <3> QED BY <3>3, <3>4, <3>5, <3>6, RingFrom
        <2>6. recent' # <<>> /\ recent'[n] = e BY <1>3, <1>5, <1>7, <2>3
        <2>7. \A i \in 1..n : i < n => recent'[i] = recent[i + 1] BY <1>3, <1>5, <2>3
        <2>8. recent'[Len(recent')].known = known BY <1>1, <2>3, <2>6
        <2>9. ASSUME NEW i \in 1..Len(recent'), i < Len(recent')
              PROVE  \E j \in 1..Len(recent) : recent'[i] = recent[j]
            <3>1. i \in 1..n /\ i < n /\ i + 1 \in 1..n BY <1>5, <2>3, <2>9
            <3> QED BY <2>7, <3>1
        <2> HIDE DEF n
        <2> QED BY <1>2, <1>4, <2>5, <2>6, <2>8, <2>9
    <1> QED BY <1>5, <1>6, <1>7

\* What a cursor the ring still reaches finds there.
LEMMA ScopeAt ==
    ASSUME Ring, NEW since \in 0..fanoutSeq, ~UnknownSince(since)
    PROVE  PathsSince(since) = UNION {log[i] : i \in since + 1 .. fanoutSeq}
    <1> DEFINE n == Len(recent)
    <1>1. n \in Nat /\ fanoutSeq \in Nat /\ n <= fanoutSeq /\ DOMAIN recent = 1..n BY DEF Ring
    <1>2. \A i \in 1..n : recent[i].seq = fanoutSeq - n + i BY DEF Ring
    <1>3. n < fanoutSeq => since >= fanoutSeq - n
        <2> HAVE n < fanoutSeq
        <2>1. n > 0 /\ recent # <<>> BY <1>1, RingFacts
        <2>2. recent[1].seq = fanoutSeq - n + 1
            <3>1. 1 \in 1..n BY <1>1, <2>1
            <3> QED BY <1>2, <3>1
        <2> QED BY <1>1, <2>1, <2>2 DEF UnknownSince, Lost
    <1>4. \A i \in After(since) : recent[i].paths = log[recent[i].seq]
        BY <1>1 DEF Ring, UnknownSince, After
    <1>5. {recent[i].paths : i \in After(since)} = {log[i] : i \in since + 1 .. fanoutSeq}
        <2>1. ASSUME NEW i \in After(since)
              PROVE  recent[i].seq \in since + 1 .. fanoutSeq
            BY <1>1, <1>2, <2>1 DEF After
        <2>2. ASSUME NEW k \in since + 1 .. fanoutSeq
              PROVE  \E i \in After(since) : recent[i].seq = k
            <3>1. k - (fanoutSeq - n) \in 1..n BY <1>1, <1>3, <2>2
            <3>2. recent[k - (fanoutSeq - n)].seq = k BY <1>1, <1>2, <3>1
            <3> QED BY <1>1, <2>2, <3>1, <3>2 DEF After
        <2> QED BY <1>4, <2>1, <2>2
    <1> QED BY <1>5 DEF PathsSince

\* A publish of a known scope keeps what a cursor within reach will be told.
LEMMA ScopeGrows ==
    ASSUME Ring, NEW paths \in SUBSET Paths, NotePublished(TRUE, paths),
           NEW since \in 0..fanoutSeq, ~UnknownSince(since), fanoutSeq + 1 - since <= RingSize
    PROVE  ~UnknownSince(since)'
    <1>1. /\ Ring' /\ fanoutSeq' = fanoutSeq + 1 /\ recent' # <<>> /\ recent'[Len(recent')].known
          /\ \A i \in 1..Len(recent') : i < Len(recent') => \E j \in 1..Len(recent) : recent'[i] = recent[j]
        BY RingGrows
    <1> DEFINE n == Len(recent')
    <1>2. /\ fanoutSeq \in Nat /\ RingSize \in Nat /\ DOMAIN recent = 1..Len(recent) /\ Len(recent) \in Nat
        BY RingFacts
    <1>3. /\ n \in Nat /\ n > 0 /\ DOMAIN recent' = 1..n
          /\ n = RingSize \/ n = fanoutSeq + 1
          /\ \A i \in 1..n : recent'[i].seq = fanoutSeq + 1 - n + i
        <2>1. recent' \in Seq(RingEntries) /\ Len(recent') <= RingSize /\ (Len(recent') < RingSize => Len(recent') = fanoutSeq')
            BY <1>1 DEF Ring
        <2>2. n \in Nat /\ n > 0 /\ DOMAIN recent' = 1..n BY <1>1, <2>1, EmptySeq
        <2>3. n = RingSize \/ n = fanoutSeq + 1
            <3>1. n <= RingSize /\ (n < RingSize => n = fanoutSeq + 1) BY <1>1, <2>1
            <3> HIDE DEF n
            <3> QED BY <1>2, <2>2, <3>1
        <2>4. \A i \in 1..n : recent'[i].seq = fanoutSeq + 1 - n + i BY <1>1 DEF Ring
        <2> QED BY <2>2, <2>3, <2>4
    <1> HIDE DEF n
    <1>5. ~Lost(since)'
        <2>1. recent'[1].seq = fanoutSeq + 1 - n + 1
            <3>1. 1 \in 1..n BY <1>3
            <3> QED BY <1>3, <3>1
        <2>2. recent'[1].seq <= since + 1 BY <1>2, <1>3, <2>1
        <2> QED BY <1>2, <1>3, <2>1, <2>2 DEF Lost
    <1>6. ASSUME NEW i \in 1..n, recent'[i].seq > since PROVE recent'[i].known
        <2>1. CASE i = n BY <1>1, <2>1 DEF n
        <2>2. CASE i # n
            <3>1. i < n BY <1>3, <2>2
            <3>2. PICK j \in 1..Len(recent) : recent'[i] = recent[j] BY <1>1, <3>1 DEF n
            <3> QED BY <1>2, <1>6, <3>2 DEF UnknownSince, After
        <2> QED BY <2>1, <2>2
    <1> QED BY <1>3, <1>5, <1>6 DEF UnknownSince, After

\* A cursor that has seen everything is never lost.
LEMMA ScopeReached == Ring => ~UnknownSince(fanoutSeq)
    <1> SUFFICES ASSUME Ring PROVE ~UnknownSince(fanoutSeq) OBVIOUS
    <1>1. \A i \in DOMAIN recent : recent[i].seq \in Nat /\ recent[i].seq <= fanoutSeq BY RingFacts DEF RingEntries
    <1>2. fanoutSeq \in Nat /\ (recent # <<>> => 1 \in DOMAIN recent) BY RingFacts
    <1>3. ~Lost(fanoutSeq) BY <1>1, <1>2 DEF Lost
    <1>4. After(fanoutSeq) = {} BY <1>1, <1>2 DEF After
    <1> QED BY <1>3, <1>4 DEF UnknownSince

-----------------------------------------------------------------------------
(* The mount.                                                              *)

Requests == {"idle", "hub", "attach", "notify", "slot", "reply"}
Typed ==
    /\ tree \in [Paths -> Nat] /\ subscribed \in BOOLEAN /\ pokes \in Nat /\ cursor \in Nat
    /\ poll \in [busy : BOOLEAN, todo : SUBSET Paths, next : Nat, key : Paths \cup {""}]
    /\ queued \subseteq Paths /\ granted \subseteq Paths
    /\ tracked \subseteq Paths /\ forgets \subseteq Paths
    /\ writing \in [Paths -> Nat] /\ kernel \in [Paths -> Nat \cup {NotCached}]
    /\ lookup = NoLookup \/ lookup \in [path : Paths, value : Nat, listed : BOOLEAN]
    /\ lookup # NoLookup /\ ~lookup.listed => lookup.value # 0
    /\ mutation \in [pc : Requests, path : Paths \cup {""}, value : Nat]
    /\ mutation.pc # "idle" => mutation.path \in Paths
    /\ counts \in [publishes : Nat, lookups : Nat, mutations : Nat]

\* A queued notification is one that holds a slot, or that waits for one in a
\* callback or in the handler of an operation, and only once.
Waits == IF mutation.pc = "slot" THEN {mutation.path} ELSE {}
Asked ==
    /\ queued = granted \cup ({poll.key} \ {""}) \cup Waits
    /\ poll.key \notin granted
    /\ mutation.pc = "slot" => mutation.path \notin granted /\ mutation.path # poll.key
    /\ poll.busy \/ poll = NoPoll

\* The cursor of a subscriber does not run ahead, and a publish it has not reached
\* has a callback on its way.
Poked ==
    subscribed =>
        /\ cursor <= fanoutSeq /\ NextCursor <= fanoutSeq
        /\ NextCursor < fanoutSeq => pokes > 0

Sound == Ring /\ Typed /\ Asked /\ Poked

LEMMA Outside == NoLookup.path = "" /\ NoMutation.path = "" /\ NoPoll.key = "" /\ "" \notin Paths
    BY NotifyAssumption DEF NoLookup, NoMutation, NoPoll

LEMMA PublishedKeeps ==
    ASSUME Ring, Typed, NEW paths \in SUBSET Paths, NEW version \in Nat, NEW known \in BOOLEAN,
           NEW gone \in BOOLEAN, Published(paths, version, known, gone)
    PROVE  /\ Ring' /\ fanoutSeq' = fanoutSeq + 1 /\ fanoutSeq \in Nat
           /\ log'[fanoutSeq + 1] = paths /\ \A i \in 1..fanoutSeq : log'[i] = log[i]
           /\ tree' \in [Paths -> Nat] /\ \A p \in Paths \ paths : tree'[p] = tree[p]
           /\ pokes' = pokes + (IF subscribed THEN 1 ELSE 0) /\ pokes' \in Nat
    <1>1. NotePublished(known, paths) BY DEF Published
    <1>2. Ring' /\ fanoutSeq' = fanoutSeq + 1 /\ fanoutSeq \in Nat
        BY <1>1, RingGrows DEF Ring
    <1>3. log'[fanoutSeq + 1] = paths /\ \A i \in 1..fanoutSeq : log'[i] = log[i]
        BY <1>1, RingGrows
    <1>4. tree' = [p \in Paths |-> IF p \notin paths THEN tree[p] ELSE IF gone THEN 0 ELSE version]
        BY DEF Published
    <1>5. tree' \in [Paths -> Nat] /\ \A p \in Paths \ paths : tree'[p] = tree[p]
        <2>1. \A p \in Paths : tree[p] \in Nat BY DEF Typed
        <2> QED BY <1>4, <2>1
    <1>6. pokes' = pokes + (IF subscribed THEN 1 ELSE 0) BY DEF Published
    <1>7. pokes' \in Nat
        <2>1. pokes \in Nat BY DEF Typed
        <2> QED BY <1>6, <2>1
    <1> QED BY <1>2, <1>3, <1>5, <1>6, <1>7

LEMMA SinceIn ==
    ASSUME Ring, NEW since
    PROVE  PathsSince(since) \in SUBSET Paths
    <1>1. \A i \in After(since) : recent[i].paths \in SUBSET Paths BY RingFacts DEF RingEntries, After
    <1> QED BY <1>1 DEF PathsSince

LEMMA CursorIn == Typed => cursor \in Nat /\ poll.next \in Nat /\ pokes \in Nat /\ NextCursor \in Nat
    BY DEF Typed, NextCursor

Counts == [publishes : Nat, lookups : Nat, mutations : Nat]
LEMMA CountsGrow ==
    ASSUME Typed
    PROVE  /\ counts.publishes \in Nat /\ counts.publishes + 2 \in Nat
           /\ [counts EXCEPT !.publishes = @ + 1] \in Counts
           /\ [counts EXCEPT !.lookups = @ + 1] \in Counts
           /\ [counts EXCEPT !.mutations = @ + 1, !.publishes = @ + 1] \in Counts
    <1>1. counts \in Counts BY DEF Typed, Counts
    <1>2. counts.publishes \in Nat /\ counts.lookups \in Nat /\ counts.mutations \in Nat BY <1>1 DEF Counts
    <1>3. counts.publishes + 1 \in Nat /\ counts.lookups + 1 \in Nat /\ counts.mutations + 1 \in Nat
          /\ counts.publishes + 2 \in Nat
        BY <1>2
    <1>4. [counts EXCEPT !.publishes = counts.publishes + 1] \in Counts BY <1>1, <1>3 DEF Counts
    <1>5. [counts EXCEPT !.lookups = counts.lookups + 1] \in Counts BY <1>1, <1>3 DEF Counts
    <1>6. [counts EXCEPT !.mutations = counts.mutations + 1, !.publishes = counts.publishes + 1] \in Counts
        BY <1>1, <1>3 DEF Counts
    <1> QED BY <1>2, <1>3, <1>4, <1>5, <1>6

\* Steps of the hubs.
LEMMA HubSound ==
    ASSUME Sound,
           \/ \E p \in Paths, known, gone \in BOOLEAN : PublishPaths({p}, known, gone)
           \/ EvictProject
           \/ \E gone \in BOOLEAN : MutationHub(gone)
    PROVE  Sound'
    <1>1. ASSUME NEW p \in Paths, NEW known \in BOOLEAN, NEW gone \in BOOLEAN, PublishPaths({p}, known, gone)
          PROVE  Sound'
        <2>1. Published({p}, counts.publishes + 2, known, gone) BY <1>1 DEF PublishPaths
        <2>0. counts.publishes + 2 \in Nat /\ {p} \in SUBSET Paths BY CountsGrow DEF Sound
        <2>2. /\ Ring' /\ fanoutSeq' = fanoutSeq + 1 /\ fanoutSeq \in Nat /\ tree' \in [Paths -> Nat]
              /\ pokes' = pokes + (IF subscribed THEN 1 ELSE 0) /\ pokes' \in Nat
            BY <2>0, <2>1, PublishedKeeps DEF Sound
        <2>3. /\ counts' = [counts EXCEPT !.publishes = @ + 1]
              /\ UNCHANGED <<subscribed, mountVars, kernelVars, mutation>>
            BY <1>1 DEF PublishPaths
        <2>7. counts' \in [publishes : Nat, lookups : Nat, mutations : Nat]
            BY <2>3, CountsGrow DEF Sound, Counts
        <2>4. Typed' BY <2>2, <2>3, <2>7 DEF Typed, Sound, mountVars, kernelVars
        <2>5. Asked' BY <2>3 DEF Asked, Sound, Waits, mountVars
        <2>6. Poked' BY <2>2, <2>3, CursorIn DEF Poked, Sound, NextCursor, mountVars
        <2> QED BY <2>2, <2>4, <2>5, <2>6 DEF Sound
    <1>2. CASE EvictProject
        <2>1. /\ subscribed' = FALSE /\ fanoutSeq' = 0 /\ recent' = <<>> /\ log' = <<>>
              /\ UNCHANGED <<tree, pokes, mountVars, kernelVars, mutation, counts>>
            BY <1>2 DEF EvictProject
        <2>2. Ring' BY <2>1, FanoutAssumption DEF Ring
        <2>3. Typed' BY <2>1 DEF Typed, Sound, mountVars, kernelVars
        <2>4. Asked' BY <2>1 DEF Asked, Sound, Waits, mountVars
        <2>5. Poked' BY <2>1 DEF Poked
        <2> QED BY <2>2, <2>3, <2>4, <2>5 DEF Sound
    <1>3. ASSUME NEW gone \in BOOLEAN, MutationHub(gone) PROVE Sound'
        <2> DEFINE p == mutation.path
        <2>1. /\ mutation.pc = "hub" /\ Published({p}, mutation.value, TRUE, gone)
              /\ p \in Paths /\ mutation.value \in Nat
            BY <1>3 DEF MutationHub, Sound, Typed
        <2>2. /\ Ring' /\ fanoutSeq' = fanoutSeq + 1 /\ fanoutSeq \in Nat /\ tree' \in [Paths -> Nat]
              /\ pokes' = pokes + (IF subscribed THEN 1 ELSE 0) /\ pokes' \in Nat
            BY <2>1, PublishedKeeps DEF Sound
        <2>3. /\ mutation' = [mutation EXCEPT !.pc = "attach", !.value = tree'[p]]
              /\ UNCHANGED <<subscribed, mountVars, kernelVars, counts>>
            BY <1>3 DEF MutationHub
        <2>4. mutation'.pc = "attach" /\ mutation'.path = p
            BY <2>3 DEF Sound, Typed
        <2>5. mutation' \in [pc : Requests, path : Paths \cup {""}, value : Nat]
            BY <2>1, <2>2, <2>3 DEF Sound, Typed, Requests
        <2>6. Typed' BY <2>1, <2>2, <2>3, <2>4, <2>5 DEF Typed, Sound, kernelVars, mountVars
        <2>7. Asked'
            <3>1. Waits = {} /\ Waits' = {} BY <2>1, <2>4 DEF Waits
            <3> QED BY <2>3, <2>4, <3>1 DEF Asked, Sound, mountVars
        <2>8. Poked' BY <2>2, <2>3, CursorIn DEF Poked, Sound, NextCursor, mountVars
        <2> QED BY <2>2, <2>6, <2>7, <2>8 DEF Sound
    <1> QED BY <1>1, <1>2, <1>3

\* Steps of the callback and of the notifications.
LEMMA CallbackSound ==
    ASSUME Sound, StartCallback \/ PollSlot \/ PollEnd \/ (\E p \in Paths : PollNext(p) \/ EndNotify(p) \/ Upcall(p))
    PROVE  Sound'
    <1> USE DEF Sound
    <1>1. CASE StartCallback
        <2>1. /\ pokes > 0 /\ ~poll.busy /\ pokes' = pokes - 1
              /\ poll' = [NoPoll EXCEPT !.busy = TRUE, !.next = fanoutSeq,
                             !.todo = IF UnknownSince(cursor) THEN tracked ELSE PathsSince(cursor)]
              /\ UNCHANGED <<fanoutVars, tree, subscribed, cursor, queued, granted, writing, tracked,
                             kernelVars, mutation, counts>>
            BY <1>1 DEF StartCallback
        <2>2. poll'.busy /\ poll'.next = fanoutSeq /\ poll'.key = ""
              /\ poll' \in [busy : BOOLEAN, todo : SUBSET Paths, next : Nat, key : Paths \cup {""}]
            BY <2>1, SinceIn DEF NoPoll, Typed, Ring
        <2>3. Ring' BY <2>1 DEF Ring, fanoutVars
        <2>4. Typed'
            <3>0. pokes \in Nat BY CursorIn
            <3>1. pokes' \in Nat BY <2>1, <3>0
            <3> QED BY <2>1, <2>2, <3>1 DEF Typed, kernelVars
        <2>5. Asked'
            <3>1. poll = NoPoll BY <2>1 DEF Asked
            <3>2. poll.key = "" /\ Waits' = Waits BY <2>1, <3>1 DEF NoPoll, Waits
            <3> QED BY <2>1, <2>2, <3>2 DEF Asked
        <2>6. Poked'
            <3>1. NextCursor' = fanoutSeq /\ fanoutSeq' = fanoutSeq /\ fanoutSeq \in Nat
                BY <2>1, <2>2 DEF NextCursor, fanoutVars, Ring
            <3>2. subscribed => cursor <= fanoutSeq BY DEF Poked
            <3> QED BY <2>1, <3>1, <3>2 DEF Poked
        <2> QED BY <2>3, <2>4, <2>5, <2>6
    <1>2. ASSUME NEW p \in Paths, PollNext(p) PROVE Sound'
        <2>1. /\ poll.busy /\ poll.key = "" /\ p \in poll.todo /\ queued' = queued \cup {p}
              /\ poll' = [poll EXCEPT !.todo = @ \ {p}, !.key = IF p \in queued THEN "" ELSE p]
              /\ UNCHANGED <<fanoutVars, tree, subscribed, pokes, cursor, granted, writing, tracked,
                             kernelVars, mutation, counts>>
            BY <1>2 DEF PollNext
        <2>2. /\ poll'.busy = poll.busy /\ poll'.next = poll.next /\ poll'.key = (IF p \in queued THEN "" ELSE p)
              /\ poll' \in [busy : BOOLEAN, todo : SUBSET Paths, next : Nat, key : Paths \cup {""}]
            BY <2>1 DEF Typed
        <2>3. Ring' BY <2>1 DEF Ring, fanoutVars
        <2>4. Typed' BY <2>1, <2>2 DEF Typed, kernelVars
        <2>5. Asked'
            <3>1. Waits' = Waits /\ p # "" BY <2>1, Outside DEF Waits
            <3>2. CASE p \in queued BY <2>1, <2>2, <3>1, <3>2 DEF Asked
            <3>3. CASE p \notin queued
                <4>1. p \notin granted /\ (mutation.pc = "slot" => p # mutation.path) BY <3>3 DEF Asked, Waits
                <4> QED BY <2>1, <2>2, <3>1, <3>3, <4>1 DEF Asked
            <3> QED BY <3>2, <3>3
        <2>6. Poked' BY <2>1, <2>2 DEF Poked, NextCursor, fanoutVars
        <2> QED BY <2>3, <2>4, <2>5, <2>6
    <1>3. CASE PollSlot
        <2>1. /\ poll.key # "" /\ granted' = granted \cup {poll.key} /\ poll' = [poll EXCEPT !.key = ""]
              /\ UNCHANGED <<fanoutVars, tree, subscribed, pokes, cursor, queued, writing, tracked,
                             kernelVars, mutation, counts>>
            BY <1>3 DEF PollSlot
        <2>2. /\ poll'.busy = poll.busy /\ poll'.next = poll.next /\ poll'.key = "" /\ poll.key \in Paths
              /\ poll' \in [busy : BOOLEAN, todo : SUBSET Paths, next : Nat, key : Paths \cup {""}]
            BY <2>1 DEF Typed
        <2>3. Ring' BY <2>1 DEF Ring, fanoutVars
        <2>4. Typed' BY <2>1, <2>2 DEF Typed, kernelVars
        <2>5. poll.busy BY <2>1, Outside DEF Asked
        <2>6. Asked'
            <3>1. Waits' = Waits /\ "" \notin Paths BY <2>1, NotifyAssumption DEF Waits
            <3>2. "" \notin granted' BY <2>1, <2>2, <3>1 DEF Typed
            <3>3. mutation'.pc = "slot" => mutation'.path \notin granted' /\ mutation'.path # ""
                BY <2>1, <3>1 DEF Asked, Typed
            <3> QED BY <2>1, <2>2, <2>5, <3>1, <3>2, <3>3 DEF Asked
        <2>7. Poked' BY <2>1, <2>2 DEF Poked, NextCursor, fanoutVars
        <2> QED BY <2>3, <2>4, <2>6, <2>7
    <1>4. CASE PollEnd
        <2>1. /\ poll.busy /\ poll.key = "" /\ cursor' = poll.next /\ poll' = NoPoll
              /\ UNCHANGED <<fanoutVars, tree, subscribed, pokes, queued, granted, writing, tracked,
                             kernelVars, mutation, counts>>
            BY <1>4 DEF PollEnd
        <2>2. ~NoPoll.busy /\ NoPoll \in [busy : BOOLEAN, todo : SUBSET Paths, next : Nat, key : Paths \cup {""}]
            BY DEF NoPoll
        <2>3. Ring' BY <2>1 DEF Ring, fanoutVars
        <2>4. Typed' BY <2>1, <2>2 DEF Typed, kernelVars
        <2>5. Asked'
            <3>1. Waits' = Waits /\ NoPoll.key = "" BY <2>1, Outside DEF Waits
            <3> QED BY <2>1, <3>1 DEF Asked
        <2>6. Poked' BY <2>1, <2>2 DEF Poked, NextCursor, fanoutVars
        <2> QED BY <2>3, <2>4, <2>5, <2>6
    <1>5. ASSUME NEW p \in Paths, EndNotify(p) PROVE Sound'
        <2>1. /\ p \in granted /\ granted' = granted \ {p} /\ queued' = queued \ {p}
              /\ writing' = [writing EXCEPT ![p] = @ + 1]
              /\ UNCHANGED <<fanoutVars, tree, subscribed, pokes, cursor, poll, tracked, kernelVars, mutation, counts>>
            BY <1>5 DEF EndNotify
        <2>2. Ring' BY <2>1 DEF Ring, fanoutVars
        <2>6. writing' \in [Paths -> Nat]
            <3>1. writing \in [Paths -> Nat] BY DEF Typed
            <3> QED BY <2>1, <3>1
        <2>3. Typed' BY <2>1, <2>6 DEF Typed, kernelVars
        <2>4. Asked'
            <3>1. Waits' = Waits BY <2>1 DEF Waits
            <3>2. p # poll.key /\ p \notin Waits BY <2>1 DEF Asked, Waits
            <3> QED BY <2>1, <3>1, <3>2 DEF Asked
        <2>5. Poked' BY <2>1 DEF Poked, NextCursor, fanoutVars
        <2> QED BY <2>2, <2>3, <2>4, <2>5
    <1>6. ASSUME NEW p \in Paths, Upcall(p) PROVE Sound'
        <2>1. /\ writing[p] > 0 /\ kernel' = [kernel EXCEPT ![p] = NotCached]
              /\ writing' = [writing EXCEPT ![p] = @ - 1]
              /\ UNCHANGED <<fanoutVars, tree, subscribed, pokes, cursor, poll, queued, granted, tracked,
                             lookup, forgets, mutation, counts>>
            BY <1>6 DEF Upcall
        <2>2. Ring' BY <2>1 DEF Ring, fanoutVars
        <2>6. writing' \in [Paths -> Nat]
            <3>1. writing \in [Paths -> Nat] BY DEF Typed
            <3> QED BY <2>1, <3>1
        <2>7. kernel' \in [Paths -> Nat \cup {NotCached}] BY <2>1 DEF Typed
        <2>3. Typed' BY <2>1, <2>6, <2>7 DEF Typed
        <2>4. Asked' BY <2>1 DEF Asked, Waits
        <2>5. Poked' BY <2>1 DEF Poked, NextCursor, fanoutVars
        <2> QED BY <2>2, <2>3, <2>4, <2>5
    <1> QED BY <1>1, <1>2, <1>3, <1>4, <1>5, <1>6

\* Steps of the kernel's requests.
LEMMA KernelSound ==
    ASSUME Sound,
           \/ LookupAttach \/ LookupReply
           \/ MutationAttach \/ MutationNotify \/ MutationSlot \/ MutationReply
           \/ \E p \in Paths : LookupStart(p) \/ Shrink(p) \/ OnForget(p) \/ MutationStart(p)
    PROVE  Sound'
    <1> USE DEF Sound
    <1>1. CASE LookupReply
        <2>1. /\ lookup # NoLookup /\ kernel' = [kernel EXCEPT ![lookup.path] = lookup.value] /\ lookup' = NoLookup
              /\ UNCHANGED <<fanoutVars, tree, subscribed, pokes, mountVars, forgets, mutation, counts>>
              /\ lookup.listed
            <3>1. NoLookup.listed = FALSE BY DEF NoLookup
            <3>2. lookup.listed BY <1>1 DEF LookupReply
            <3>3. lookup # NoLookup BY <3>1, <3>2
            <3> QED BY <1>1, <3>2, <3>3 DEF LookupReply
        <2>2. kernel' \in [Paths -> Nat \cup {NotCached}] BY <2>1 DEF Typed
        <2>3. Ring' BY <2>1 DEF Ring, fanoutVars
        <2>4. Typed' BY <2>1, <2>2 DEF Typed, mountVars
        <2>5. Asked' /\ Poked' BY <2>1 DEF Asked, Waits, Poked, NextCursor, mountVars, fanoutVars
        <2> QED BY <2>3, <2>4, <2>5
    <1>2. CASE MutationSlot
        <2>1. /\ mutation.pc = "slot" /\ granted' = granted \cup {mutation.path}
              /\ mutation' = [mutation EXCEPT !.pc = "reply"]
              /\ UNCHANGED <<fanoutVars, tree, subscribed, pokes, cursor, poll, queued, writing, tracked,
                             kernelVars, counts>>
            BY <1>2 DEF MutationSlot
        <2>2. /\ mutation'.pc = "reply" /\ mutation'.path = mutation.path /\ mutation.path \in Paths
              /\ mutation' \in [pc : Requests, path : Paths \cup {""}, value : Nat]
            BY <2>1 DEF Typed, Requests
        <2>3. Ring' BY <2>1 DEF Ring, fanoutVars
        <2>4. Typed' BY <2>1, <2>2 DEF Typed, kernelVars
        <2>5. Asked'
            <3>1. Waits = {mutation.path} /\ Waits' = {} BY <2>1, <2>2 DEF Waits
            <3>2. mutation.path # poll.key BY <2>1 DEF Asked
            <3> QED BY <2>1, <2>2, <3>1, <3>2 DEF Asked
        <2>6. Poked' BY <2>1 DEF Poked, NextCursor, fanoutVars
        <2> QED BY <2>3, <2>4, <2>5, <2>6
    <1>3. CASE MutationReply
        <2>1. /\ mutation.pc = "reply" /\ mutation' = NoMutation
              /\ kernel' = [kernel EXCEPT ![mutation.path] =
                                IF mutation.value = 0 THEN NotCached ELSE mutation.value]
              /\ UNCHANGED <<fanoutVars, tree, subscribed, pokes, mountVars, lookup, forgets, counts>>
            BY <1>3 DEF MutationReply
        <2>2. kernel' \in [Paths -> Nat \cup {NotCached}]
            <3>1. mutation.value \in Nat /\ kernel \in [Paths -> Nat \cup {NotCached}] BY DEF Typed
            <3> QED BY <2>1, <3>1
        <2>3. NoMutation.pc = "idle" /\ NoMutation \in [pc : Requests, path : Paths \cup {""}, value : Nat]
            BY DEF NoMutation, Requests
        <2>4. Ring' BY <2>1 DEF Ring, fanoutVars
        <2>5. Typed' BY <2>1, <2>2, <2>3 DEF Typed, mountVars
        <2>6. Asked'
            <3>1. Waits = {} /\ Waits' = {} BY <2>1, <2>3 DEF Waits
            <3> QED BY <2>1, <2>3, <3>1 DEF Asked, mountVars
        <2>7. Poked' BY <2>1 DEF Poked, NextCursor, mountVars, fanoutVars
        <2> QED BY <2>4, <2>5, <2>6, <2>7
    <1>4. ASSUME NEW p \in Paths, LookupStart(p) PROVE Sound'
        <2>1. /\ counts' = [counts EXCEPT !.lookups = @ + 1]
              /\ lookup' = [path |-> p, value |-> tree[p], listed |-> tree[p] = 0]
              /\ UNCHANGED <<fanoutVars, tree, subscribed, pokes, mountVars, kernel, forgets, mutation>>
            BY <1>4 DEF LookupStart
        <2>2. /\ lookup' \in [path : Paths, value : Nat, listed : BOOLEAN]
              /\ ~lookup'.listed => lookup'.value # 0
            <3>1. tree[p] \in Nat BY DEF Typed
            <3>2. (tree[p] = 0) \in BOOLEAN OBVIOUS
            <3> QED BY <2>1, <3>1, <3>2
        <2>3. counts' \in Counts BY <2>1, CountsGrow
        <2>4. Ring' BY <2>1 DEF Ring, fanoutVars
        <2>5. Typed' BY <2>1, <2>2, <2>3 DEF Typed, Counts, mountVars
        <2>6. Asked' /\ Poked' BY <2>1 DEF Asked, Waits, Poked, NextCursor, mountVars, fanoutVars
        <2> QED BY <2>4, <2>5, <2>6
    <1>5. ASSUME NEW p \in Paths, Shrink(p) PROVE Sound'
        <2>1. /\ kernel' = [kernel EXCEPT ![p] = NotCached]
              /\ forgets' = (IF kernel[p] = 0 THEN forgets ELSE forgets \cup {p})
              /\ UNCHANGED <<fanoutVars, tree, subscribed, pokes, mountVars, lookup, mutation, counts>>
            BY <1>5 DEF Shrink
        <2>2. kernel' \in [Paths -> Nat \cup {NotCached}] BY <2>1 DEF Typed
        <2>3. Ring' BY <2>1 DEF Ring, fanoutVars
        <2>4. Typed' BY <2>1, <2>2 DEF Typed, mountVars
        <2>5. Asked' /\ Poked' BY <2>1 DEF Asked, Waits, Poked, NextCursor, mountVars, fanoutVars
        <2> QED BY <2>3, <2>4, <2>5
    <1>6. ASSUME NEW p \in Paths, OnForget(p) PROVE Sound'
        <2>1. /\ forgets' = forgets \ {p} /\ tracked' = tracked \ {p}
              /\ UNCHANGED <<fanoutVars, tree, subscribed, pokes, cursor, poll, queued, granted, writing,
                             kernel, lookup, mutation, counts>>
            BY <1>6 DEF OnForget
        <2>2. Ring' BY <2>1 DEF Ring, fanoutVars
        <2>3. Typed' BY <2>1 DEF Typed
        <2>4. Asked' /\ Poked' BY <2>1 DEF Asked, Waits, Poked, NextCursor, fanoutVars
        <2> QED BY <2>2, <2>3, <2>4
    <1>7. ASSUME NEW p \in Paths, MutationStart(p) PROVE Sound'
        <2>1. /\ ~InDirectory /\ counts' = [counts EXCEPT !.mutations = @ + 1, !.publishes = @ + 1]
              /\ mutation' = [NoMutation EXCEPT !.pc = "hub", !.path = p, !.value = counts.publishes + 2]
              /\ UNCHANGED <<fanoutVars, tree, subscribed, pokes, mountVars, kernelVars>>
            BY <1>7 DEF MutationStart
        <2>2. /\ mutation'.pc = "hub" /\ mutation'.path = p
              /\ mutation' \in [pc : Requests, path : Paths \cup {""}, value : Nat]
            <3>1. counts.publishes + 2 \in Nat BY CountsGrow
            <3> QED BY <2>1, <3>1 DEF NoMutation, Requests
        <2>3. counts' \in Counts BY <2>1, CountsGrow
        <2>4. Ring' BY <2>1 DEF Ring, fanoutVars
        <2>5. Typed' BY <2>1, <2>2, <2>3 DEF Typed, Counts, mountVars, kernelVars
        <2>6. Asked'
            <3>1. Waits = {} /\ Waits' = {} BY <2>1, <2>2 DEF Waits, InDirectory
            <3> QED BY <2>1, <2>2, <3>1 DEF Asked, mountVars
        <2>7. Poked' BY <2>1 DEF Poked, NextCursor, mountVars, fanoutVars
        <2> QED BY <2>4, <2>5, <2>6, <2>7
    <1>8. CASE LookupAttach
        <2>1. /\ lookup # NoLookup /\ lookup' = [lookup EXCEPT !.listed = TRUE]
              /\ tracked' = tracked \cup {lookup.path}
              /\ UNCHANGED <<fanoutVars, tree, subscribed, pokes, cursor, poll, queued, granted, writing,
                             kernel, forgets, mutation, counts>>
            BY <1>8 DEF LookupAttach
        <2>2. /\ lookup' \in [path : Paths, value : Nat, listed : BOOLEAN] /\ lookup'.listed
              /\ lookup.path \in Paths
            BY <2>1 DEF Typed
        <2>3. Ring' BY <2>1 DEF Ring, fanoutVars
        <2>4. Typed' BY <2>1, <2>2 DEF Typed
        <2>5. Asked' /\ Poked' BY <2>1 DEF Asked, Waits, Poked, NextCursor, fanoutVars
        <2> QED BY <2>3, <2>4, <2>5
    <1>9. CASE MutationAttach
        <2>1. /\ mutation.pc = "attach" /\ mutation' = [mutation EXCEPT !.pc = "notify"]
              /\ tracked' = (IF mutation.value = 0 THEN tracked \ {mutation.path} ELSE tracked \cup {mutation.path})
              /\ UNCHANGED <<fanoutVars, tree, subscribed, pokes, cursor, poll, queued, granted, writing,
                             kernelVars, counts>>
            BY <1>9 DEF MutationAttach
        <2>2. /\ mutation'.pc = "notify" /\ mutation'.path = mutation.path /\ mutation.path \in Paths
              /\ mutation' \in [pc : Requests, path : Paths \cup {""}, value : Nat]
            BY <2>1 DEF Typed, Requests
        <2>3. Ring' BY <2>1 DEF Ring, fanoutVars
        <2>4. Typed' BY <2>1, <2>2 DEF Typed, kernelVars
        <2>5. Asked'
            <3>1. Waits = {} /\ Waits' = {} BY <2>1, <2>2 DEF Waits
            <3> QED BY <2>1, <2>2, <3>1 DEF Asked
        <2>6. Poked' BY <2>1 DEF Poked, NextCursor, fanoutVars
        <2> QED BY <2>3, <2>4, <2>5, <2>6
    <1>10. CASE MutationNotify
        <2> DEFINE p == mutation.path
        <2>1. /\ mutation.pc = "notify"
              /\ mutation' = [mutation EXCEPT !.pc = IF p \in queued THEN "reply" ELSE "slot"]
              /\ queued' = queued \cup {p}
              /\ UNCHANGED <<fanoutVars, tree, subscribed, pokes, cursor, poll, granted, writing, tracked,
                             kernelVars, counts>>
            BY <1>10 DEF MutationNotify
        <2>2. /\ mutation'.pc = (IF p \in queued THEN "reply" ELSE "slot") /\ mutation'.path = p /\ p \in Paths
              /\ mutation' \in [pc : Requests, path : Paths \cup {""}, value : Nat]
            BY <2>1 DEF Typed, Requests
        <2>3. Ring' BY <2>1 DEF Ring, fanoutVars
        <2>4. Typed' BY <2>1, <2>2 DEF Typed, kernelVars
        <2>5. Asked'
            <3>1. Waits = {} BY <2>1 DEF Waits
            <3>2. CASE p \in queued
                <4>1. Waits' = {} /\ mutation'.pc # "slot" BY <2>2, <3>2 DEF Waits
                <4>2. queued' = queued /\ granted' = granted /\ poll' = poll BY <2>1, <3>2
                <4> QED BY <3>1, <4>1, <4>2 DEF Asked
            <3>3. CASE p \notin queued
                <4>1. Waits' = {p} BY <2>2, <3>3 DEF Waits
                <4>2. p \notin granted /\ p # poll.key BY <2>2, <3>3, Outside DEF Asked
                <4>3. queued' = queued \cup {p} /\ granted' = granted /\ poll' = poll BY <2>1
                <4> QED BY <2>2, <3>1, <4>1, <4>2, <4>3 DEF Asked
            <3> QED BY <3>2, <3>3
        <2>6. Poked' BY <2>1 DEF Poked, NextCursor, fanoutVars
        <2> QED BY <2>3, <2>4, <2>5, <2>6
    <1> QED BY <1>1, <1>2, <1>3, <1>4, <1>5, <1>6, <1>7, <1>8, <1>9, <1>10

LEMMA InitSound == NotifyInit => Sound
    <1> SUFFICES ASSUME NotifyInit PROVE Sound OBVIOUS
    <1>1. Ring BY RingStarts DEF NotifyInit
    <1>2. Typed
        <2>1. tree \in [Paths -> Nat] BY DEF NotifyInit
        <2>2. poll \in [busy : BOOLEAN, todo : SUBSET Paths, next : Nat, key : Paths \cup {""}]
            BY DEF NotifyInit, NoPoll
        <2>3. mutation \in [pc : Requests, path : Paths \cup {""}, value : Nat] /\ mutation.pc = "idle"
            BY DEF NotifyInit, NoMutation, Requests
        <2> QED BY <2>1, <2>2, <2>3 DEF NotifyInit, Typed
    <1>3. Asked BY DEF NotifyInit, Asked, Waits, NoPoll, NoMutation
    <1>4. Poked
        <2>1. ~poll.busy /\ cursor = 0 /\ fanoutSeq = 0 BY DEF NotifyInit, FanoutInit, NoPoll
        <2> QED BY <2>1 DEF Poked, NextCursor
    <1> QED BY <1>1, <1>2, <1>3, <1>4 DEF Sound

LEMMA NextSound == Sound /\ [NotifyNext]_notifyVars => Sound'
    <1> SUFFICES ASSUME Sound, [NotifyNext]_notifyVars PROVE Sound' OBVIOUS
    <1>1. CASE NotifyNext BY <1>1, HubSound, CallbackSound, KernelSound DEF NotifyNext
    <1>2. CASE UNCHANGED notifyVars
        <2>1. Ring' /\ Typed'
            BY <1>2 DEF Sound, Ring, Typed, notifyVars, fanoutVars, mountVars, kernelVars
        <2>2. Asked' /\ Poked'
            BY <1>2 DEF Sound, Asked, Waits, Poked, NextCursor, notifyVars, fanoutVars, mountVars
        <2> QED BY <2>1, <2>2 DEF Sound
    <1> QED BY <1>1, <1>2

LEMMA SoundAlways == NotifySpec => []Sound
    BY InitSound, NextSound, PTL DEF NotifySpec

-----------------------------------------------------------------------------
(* The slots.                                                              *)

Bounded == IsFiniteSet(Slots) /\ Busy <= NotifySlots

\* What holds a slot, name by name.
LEMMA SlotsAre ==
    ASSUME NEW q, NEW k
    PROVE  <<q, k>> \in Slots <=> (q \in granted /\ k = 0) \/ (q \in Paths /\ k \in 1..writing[q])
    BY DEF Slots
LEMMA SlotsPairs == \A s \in Slots : \E q, k : s = <<q, k>>
    BY DEF Slots

LEMMA OneMore ==
    ASSUME NEW S, NEW x, IsFiniteSet(S)
    PROVE  IsFiniteSet(S \cup {x}) /\ Cardinality(S \cup {x}) <= Cardinality(S) + 1
    <1>1. Cardinality(S) \in Nat BY FS_CardinalityType
    <1>2. /\ IsFiniteSet(S \cup {x})
          /\ Cardinality(S \cup {x}) = IF x \in S THEN Cardinality(S) ELSE Cardinality(S) + 1
        BY FS_AddElement
    <1> QED BY <1>1, <1>2

LEMMA SlotTaken ==
    ASSUME Bounded, Typed, Busy < NotifySlots, NEW p \in Paths \ granted,
           granted' = granted \cup {p}, writing' = writing
    PROVE  Bounded'
    <1>1. Slots' = Slots \cup {<<p, 0>>} BY DEF Slots
    <1>2. IsFiniteSet(Slots') /\ Cardinality(Slots') <= Cardinality(Slots) + 1
        BY <1>1, OneMore DEF Bounded
    <1>3. Busy \in Nat /\ NotifySlots \in Nat BY FS_CardinalityType, NotifyAssumption DEF Bounded, Busy
    <1>4. Cardinality(Slots') \in Nat BY <1>2, FS_CardinalityType
    <1> QED BY <1>2, <1>3, <1>4 DEF Bounded, Busy

LEMMA SlotMoved ==
    ASSUME Bounded, Typed, NEW p \in granted,
           granted' = granted \ {p}, writing' = [writing EXCEPT ![p] = @ + 1]
    PROVE  Bounded'
    <1> DEFINE old == <<p, 0>>
               new == <<p, writing[p] + 1>>
    <1>1. p \in Paths /\ writing[p] \in Nat /\ writing \in [Paths -> Nat] BY DEF Typed
    <1>2. Slots' = (Slots \ {old}) \cup {new}
        <2>1. ASSUME NEW q, NEW k
              PROVE  <<q, k>> \in Slots' <=> (<<q, k>> \in Slots /\ <<q, k>> # old) \/ <<q, k>> = new
            <3>1. <<q, k>> \in Slots' <=> (q \in granted' /\ k = 0) \/ (q \in Paths /\ k \in 1..writing'[q])
                BY DEF Slots
            <3>2. <<q, k>> \in Slots <=> (q \in granted /\ k = 0) \/ (q \in Paths /\ k \in 1..writing[q])
                BY SlotsAre
            <3>3. CASE q = p
                <4>1. writing'[q] = writing[p] + 1 BY <1>1, <3>3
                <4>2. k \in 1..writing'[q] <=> (k \in 1..writing[q] \/ k = writing[p] + 1) BY <1>1, <3>3, <4>1
                <4>3. 0 \notin 1..writing[q] /\ writing[p] + 1 # 0 BY <1>1, <3>3
                <4> QED BY <1>1, <3>1, <3>2, <3>3, <4>2, <4>3
            <3>4. CASE q # p
                <4>1. q \in Paths => writing'[q] = writing[q] BY <1>1, <3>4
                <4> QED BY <3>1, <3>2, <3>4, <4>1
            <3> QED BY <3>3, <3>4
        <2>2. \A s \in Slots' : \E q, k : s = <<q, k>> BY DEF Slots
        <2> QED BY <2>1, <2>2, SlotsPairs
    <1>3. old \in Slots BY SlotsAre
    <1>4. /\ IsFiniteSet(Slots \ {old})
          /\ Cardinality(Slots \ {old}) = Busy - 1
        BY <1>3, FS_RemoveElement DEF Bounded, Busy
    <1>5. IsFiniteSet(Slots') /\ Cardinality(Slots') <= Cardinality(Slots \ {old}) + 1
        BY <1>2, <1>4, OneMore
    <1>6. Busy \in Nat /\ NotifySlots \in Nat BY FS_CardinalityType, NotifyAssumption DEF Bounded, Busy
    <1>7. Cardinality(Slots') \in Nat BY <1>5, FS_CardinalityType
    <1> QED BY <1>4, <1>5, <1>6, <1>7 DEF Bounded, Busy

LEMMA SlotGiven ==
    ASSUME Bounded, Typed, NEW p \in Paths, writing[p] > 0,
           granted' = granted, writing' = [writing EXCEPT ![p] = @ - 1]
    PROVE  Bounded'
    <1>1. writing[p] \in Nat /\ writing \in [Paths -> Nat] BY DEF Typed
    <1>2. Slots' \subseteq Slots
        <2>1. ASSUME NEW q, NEW k, <<q, k>> \in Slots' PROVE <<q, k>> \in Slots
            <3>1. (q \in granted /\ k = 0) \/ (q \in Paths /\ k \in 1..writing'[q]) BY <2>1 DEF Slots
            <3>2. q \in Paths => writing[q] \in Nat /\ writing'[q] \in Nat /\ writing'[q] <= writing[q]
                BY <1>1
            <3>3. q \in Paths => 1..writing'[q] \subseteq 1..writing[q] BY <3>2
            <3> QED BY <3>1, <3>3, SlotsAre
        <2>2. \A s \in Slots' : \E q, k : s = <<q, k>> BY DEF Slots
        <2> QED BY <2>1, <2>2
    <1>3. IsFiniteSet(Slots') /\ Cardinality(Slots') <= Cardinality(Slots)
        BY <1>2, FS_Subset DEF Bounded
    <1>4. Cardinality(Slots) \in Nat /\ Cardinality(Slots') \in Nat /\ NotifySlots \in Nat
        BY <1>3, FS_CardinalityType, NotifyAssumption DEF Bounded
    <1> QED BY <1>3, <1>4 DEF Bounded, Busy

LEMMA SlotsKept ==
    ASSUME Bounded, granted' = granted, writing' = writing PROVE Bounded'
    BY DEF Bounded, Busy, Slots

LEMMA InitBounded == NotifyInit => Bounded
    <1> SUFFICES ASSUME NotifyInit PROVE Bounded OBVIOUS
    <1>1. Slots = {}
        <2>1. \A p \in Paths : 1..writing[p] = {}
            <3>1. \A p \in Paths : writing[p] = 0 BY DEF NotifyInit
            <3>2. 1..0 = {} OBVIOUS
            <3> QED BY <3>1, <3>2
        <2>2. granted = {} BY DEF NotifyInit
        <2> QED BY <2>1, <2>2 DEF Slots
    <1>2. IsFiniteSet({}) /\ Cardinality({}) = 0 BY FS_EmptySet
    <1>3. NotifySlots \in Nat BY NotifyAssumption
    <1> QED BY <1>1, <1>2, <1>3 DEF Bounded, Busy

LEMMA NextBounded == Sound /\ Bounded /\ [NotifyNext]_notifyVars => Bounded'
    <1> SUFFICES ASSUME Sound, Bounded, [NotifyNext]_notifyVars PROVE Bounded' OBVIOUS
    <1>0. Typed /\ Asked BY DEF Sound
    <1>1. CASE PollSlot
        <2>1. poll.key # "" /\ SlotFree /\ granted' = granted \cup {poll.key} /\ writing' = writing
            BY <1>1 DEF PollSlot
        <2>2. poll.key \in Paths \ granted BY <1>0, <2>1 DEF Typed, Asked
        <2> QED BY <1>0, <2>1, <2>2, SlotTaken DEF SlotFree
    <1>2. CASE MutationSlot
        <2>1. mutation.pc = "slot" /\ SlotFree /\ granted' = granted \cup {mutation.path} /\ writing' = writing
            BY <1>2 DEF MutationSlot
        <2>2. mutation.path \in Paths \ granted BY <1>0, <2>1 DEF Typed, Asked
        <2> QED BY <1>0, <2>1, <2>2, SlotTaken DEF SlotFree
    <1>3. ASSUME NEW p \in Paths, EndNotify(p) PROVE Bounded'
        BY <1>0, <1>3, SlotMoved DEF EndNotify
    <1>4. ASSUME NEW p \in Paths, Upcall(p) PROVE Bounded'
        BY <1>0, <1>4, SlotGiven DEF Upcall
    <1>5. CASE EvictProject \/ StartCallback \/ PollEnd \/ LookupReply \/ MutationReply
        BY <1>5, SlotsKept DEF EvictProject, StartCallback, PollEnd, LookupReply, MutationReply, mountVars
    <1>10. CASE LookupAttach \/ MutationAttach \/ MutationNotify
        BY <1>10, SlotsKept DEF LookupAttach, MutationAttach, MutationNotify
    <1>6. ASSUME NEW p \in Paths,
                 PollNext(p) \/ LookupStart(p) \/ Shrink(p) \/ OnForget(p) \/ MutationStart(p)
          PROVE  Bounded'
        BY <1>6, SlotsKept DEF PollNext, LookupStart, Shrink, OnForget, MutationStart, mountVars
    <1>7. ASSUME NEW p \in Paths, NEW known \in BOOLEAN, NEW gone \in BOOLEAN, PublishPaths({p}, known, gone)
          PROVE  Bounded'
        BY <1>7, SlotsKept DEF PublishPaths, mountVars
    <1>8. ASSUME NEW gone \in BOOLEAN, MutationHub(gone) PROVE Bounded'
        BY <1>8, SlotsKept DEF MutationHub, mountVars
    <1>9. CASE UNCHANGED notifyVars BY <1>9, SlotsKept DEF notifyVars, mountVars
    <1> QED BY <1>1, <1>2, <1>3, <1>4, <1>5, <1>6, <1>7, <1>8, <1>9, <1>10 DEF NotifyNext

\* The slots of the notifications are never exceeded, a goroutine that was given a
\* slot still has its mark, the cursor never runs ahead of the publishes, and at any
\* cursor a subscriber is told every path or that it cannot be told (beginNotify and
\* acquireNotifySlot, pollInvalidationsOnce, PublishedPathsSince).
THEOREM FanoutAlwaysSound == NotifySpec => []FanoutSound
    <1>1. NotifyInit => Sound /\ Bounded BY InitSound, InitBounded
    <1>2. (Sound /\ Bounded) /\ [NotifyNext]_notifyVars => (Sound /\ Bounded)' BY NextSound, NextBounded
    <1>3. Sound /\ Bounded => FanoutSound
        <2> SUFFICES ASSUME Sound, Bounded PROVE FanoutSound OBVIOUS
        <2>1. NotifyTypeOK
            <3>1. granted \subseteq queued /\ queued \subseteq Paths /\ (poll.busy \/ poll = NoPoll)
                BY DEF Sound, Typed, Asked
            <3>2. cursor <= fanoutSeq \/ ~subscribed BY DEF Sound, Poked
            <3> QED BY <3>1, <3>2 DEF NotifyTypeOK, Bounded
        <2>2. ScopeComplete BY ScopeAt DEF ScopeComplete, Sound
        <2> QED BY <2>1, <2>2 DEF FanoutSound
    <1> QED BY <1>1, <1>2, <1>3, PTL DEF NotifySpec

-----------------------------------------------------------------------------
(* The values the kernel has.                                              *)

\* The values the kernel has of a name, or is about to be given by a lookup.
Shown(p) == ({kernel[p]} \ {NotCached}) \cup (IF lookup.path = p THEN {lookup.value} ELSE {})

\* A notification of the name is on its way, or an operation is about to mark it.
Marks(p) == mutation.path = p /\ mutation.pc \in {"attach", "notify"}
Due(p) == p \in queued \/ writing[p] > 0 \/ Marks(p)

\* The mount tracks the name, or is about to for the lookup that found it.
Known(p) == p \in tracked \/ (lookup.path = p /\ ~lookup.listed)

\* The callback will reach the name: it is on its list, or a publish that it has not
\* been told of changed it. An absent name is reached only if the scope is known.
Changed(p) == \E i \in NextCursor + 1 .. fanoutSeq : p \in log[i]
Told(p, v) ==
    \/ p \in poll.todo
    \/ subscribed /\ Changed(p) /\ (v > 0 \/ ~UnknownSince(NextCursor))

Minded(p, v) ==
    \/ Due(p)
    \/ /\ v > 0 => Known(p) /\ p \notin forgets
       /\ v # tree[p] => Told(p, v)

\* An operation leaves its name due; while it publishes, the scope of the absent names
\* outlasts its publish.
Operating ==
    /\ lookup # NoLookup => mutation.pc = "idle"
    /\ mutation.pc \in {"slot", "reply"} => Due(mutation.path)
    /\ subscribed /\ mutation.pc = "hub" /\ Negative # {} =>
          fanoutSeq + 1 - NextCursor <= RingSize /\ ~UnknownSince(NextCursor)

\* The project leaves the cache when all is published and every callback has run.
Retired == ~subscribed => pokes = 0 /\ ~poll.busy /\ counts.publishes >= MaxPublishes

Watched ==
    /\ \A p \in Paths : \A v \in Shown(p) : Minded(p, v)
    /\ Operating /\ Retired

Closed == {"deaf", "negative", "forget", "unlisted"} \cap Races = {}

LEMMA ShownIn == ASSUME Typed, NEW p \in Paths, NEW v \in Shown(p) PROVE v \in Nat /\ (v = 0 => p \in Negative)
    <1>1. kernel[p] \in Nat \cup {NotCached} BY DEF Typed
    <1>2. lookup.path = p => lookup.value \in Nat BY Outside DEF Typed
    <1>3. (v = kernel[p] /\ v # NotCached) \/ (lookup.path = p /\ v = lookup.value) BY DEF Shown
    <1> QED BY <1>1, <1>2, <1>3 DEF Negative

\* A value stays minded while its name does, and what the callback will reach stays reached.
LEMMA MindedKept ==
    ASSUME NEW p \in Paths, NEW v, Minded(p, v),
           Due(p) => Due(p)', Known(p) /\ p \notin forgets => Known(p)' /\ p \notin forgets',
           tree'[p] = tree[p], Told(p, v) => Told(p, v)'
    PROVE  Minded(p, v)'
    BY DEF Minded

LEMMA ToldKept ==
    ASSUME NEW p, NEW v, UNCHANGED <<fanoutVars, subscribed, NextCursor>>, p \in poll.todo => p \in poll'.todo
    PROVE  Told(p, v) => Told(p, v)'
    BY DEF Told, Changed, UnknownSince, Lost, After, fanoutVars

LEMMA ScopeOf ==
    ASSUME NEW c
    PROVE  /\ NextCursor = c => (UnknownSince(NextCursor) <=> UnknownSince(c))
           /\ NextCursor' = c => (UnknownSince(NextCursor)' <=> UnknownSince(c)')
    BY DEF UnknownSince, Lost, After

\* A publish of a known scope within reach of the cursor.
LEMMA StillKnown ==
    ASSUME Sound, subscribed, NEW paths \in SUBSET Paths, NotePublished(TRUE, paths), NextCursor' = NextCursor,
           fanoutSeq + 1 - NextCursor <= RingSize, ~UnknownSince(NextCursor)
    PROVE  ~UnknownSince(NextCursor)'
    <1>1. fanoutSeq \in Nat /\ NextCursor \in Nat /\ NextCursor <= fanoutSeq /\ Ring
        BY RingFacts, CursorIn DEF Sound, Poked
    <1>2. PICK c \in 0..fanoutSeq : c = NextCursor BY <1>1
    <1>3. ~UnknownSince(c) /\ fanoutSeq + 1 - c <= RingSize BY <1>2, ScopeOf
    <1>4. ~UnknownSince(c)' BY <1>1, <1>3, ScopeGrows
    <1> QED BY <1>2, <1>4, ScopeOf

\* What was changed after the cursor stays so as the log grows.
LEMMA ChangedKept ==
    ASSUME Sound, NEW q, NextCursor' = NextCursor, fanoutSeq' = fanoutSeq + 1,
           \A i \in 1..fanoutSeq : log'[i] = log[i], Changed(q)
    PROVE  Changed(q)'
    <1>1. fanoutSeq \in Nat /\ NextCursor \in Nat BY RingFacts, CursorIn DEF Sound
    <1>2. PICK i \in NextCursor + 1 .. fanoutSeq : q \in log[i] BY DEF Changed
    <1>3. i \in NextCursor' + 1 .. fanoutSeq' /\ log'[i] = log[i] BY <1>1, <1>2
    <1> QED BY <1>2, <1>3 DEF Changed

LEMMA PublishWatched ==
    ASSUME Sound, Watched, Closed, NEW p \in Paths, NEW known \in BOOLEAN, NEW gone \in BOOLEAN,
           PublishPaths({p}, known, gone)
    PROVE  Watched'
    <1>1. /\ counts.publishes < MaxPublishes /\ ScopeKept(IF mutation.pc = "hub" THEN 2 ELSE 1)
          /\ known \/ Racing("negative") \/ Negative = {}
          /\ Published({p}, counts.publishes + 2, known, gone)
          /\ UNCHANGED <<subscribed, mountVars, kernelVars, mutation>>
        BY DEF PublishPaths
    <1>2. subscribed
        <2>1. counts.publishes \in Nat /\ MaxPublishes \in Nat BY CountsGrow, NotifyAssumption DEF Sound
        <2> QED BY <1>1, <2>1 DEF Watched, Retired
    <1>3. /\ fanoutSeq' = fanoutSeq + 1 /\ fanoutSeq \in Nat /\ log'[fanoutSeq + 1] = {p}
          /\ \A i \in 1..fanoutSeq : log'[i] = log[i]
          /\ \A q \in Paths \ {p} : tree'[q] = tree[q]
        <2>1. counts.publishes + 2 \in Nat BY CountsGrow DEF Sound
        <2> QED BY <1>1, <2>1, PublishedKeeps DEF Sound
    <1>4. NextCursor' = NextCursor /\ NextCursor \in Nat /\ NextCursor <= fanoutSeq
        BY <1>1, <1>2, CursorIn DEF NextCursor, mountVars, Sound, Poked
    <1>5. ~Racing("negative") BY DEF Closed, Racing
    <1>6. ASSUME Negative # {}
          PROVE  ~UnknownSince(NextCursor)' /\ (mutation.pc = "hub" => fanoutSeq + 2 - NextCursor <= RingSize)
        <2>1. known /\ NotePublished(TRUE, {p}) BY <1>1, <1>5, <1>6 DEF Published
        <2>2. ~UnknownSince(NextCursor) /\ fanoutSeq + (IF mutation.pc = "hub" THEN 2 ELSE 1) - NextCursor <= RingSize
            BY <1>1, <1>5, <1>6 DEF ScopeKept
        <2>3. RingSize \in Nat BY FanoutAssumption
        <2>4. fanoutSeq + 1 - NextCursor <= RingSize /\ (mutation.pc = "hub" => fanoutSeq + 2 - NextCursor <= RingSize)
            BY <1>3, <1>4, <2>2, <2>3
        <2> QED BY <1>2, <1>4, <2>1, <2>2, <2>4, StillKnown
    <1>7. ASSUME NEW q \in Paths, NEW v \in Shown(q)' PROVE Minded(q, v)'
        <2>1. v \in Shown(q) BY <1>1, <1>7 DEF Shown, kernelVars
        <2>2. Minded(q, v) /\ v \in Nat /\ (v = 0 => q \in Negative) BY <2>1, ShownIn DEF Watched, Sound
        <2>3. CASE Due(q) BY <1>1, <2>3 DEF Due, Marks, Minded, mountVars
        <2>4. CASE ~Due(q)
            <3>1. v > 0 => Known(q)' /\ q \notin forgets' BY <1>1, <2>2, <2>4 DEF Minded, Known, mountVars, kernelVars
            <3>2. ASSUME v # tree'[q] PROVE Told(q, v)'
                <4>1. CASE q \in poll.todo BY <1>1, <4>1 DEF Told, mountVars
                <4>2. CASE q \notin poll.todo
                    <5>1. ASSUME q = p PROVE Changed(q)'
                        <6>1. fanoutSeq + 1 \in NextCursor' + 1 .. fanoutSeq' BY <1>3, <1>4
                        <6> QED BY <1>3, <5>1, <6>1 DEF Changed
                    <5>2. ASSUME q # p PROVE Changed(q)'
                        <6>1. tree'[q] = tree[q] BY <1>3, <5>2
                        <6>2. Changed(q) BY <2>2, <2>4, <3>2, <4>2, <6>1 DEF Minded, Told
                        <6> QED BY <1>3, <1>4, <6>2, ChangedKept
                    <5>3. Changed(q)' BY <5>1, <5>2
                    <5>4. v > 0 \/ ~UnknownSince(NextCursor)' BY <1>6, <2>2
                    <5> QED BY <1>1, <1>2, <5>3, <5>4 DEF Told
                <4> QED BY <4>1, <4>2
            <3> QED BY <3>1, <3>2 DEF Minded
        <2> QED BY <2>3, <2>4
    <1>8. Operating'
        <2>1. Operating BY DEF Watched
        <2>2. Negative' = Negative BY <1>1 DEF Negative, kernelVars
        <2>3. mutation.pc = "hub" /\ Negative # {} => fanoutSeq' + 1 - NextCursor' <= RingSize /\ ~UnknownSince(NextCursor)'
            BY <1>3, <1>4, <1>6
        <2> QED BY <1>1, <2>1, <2>2, <2>3 DEF Operating, Due, Marks, mountVars, kernelVars
    <1>9. Retired' BY <1>1, <1>2 DEF Retired
    <1> QED BY <1>7, <1>8, <1>9 DEF Watched

LEMMA EvictWatched ==
    ASSUME Sound, Watched, Closed, EvictProject PROVE Watched'
    <1>1. /\ subscribed /\ (Racing("deaf") \/ (counts.publishes = MaxPublishes /\ pokes = 0 /\ ~poll.busy))
          /\ subscribed' = FALSE
          /\ UNCHANGED <<tree, pokes, mountVars, kernelVars, mutation, counts>>
        BY DEF EvictProject
    <1>2. counts.publishes = MaxPublishes /\ pokes = 0 /\ ~poll.busy BY <1>1 DEF Closed, Racing
    <1>3. NextCursor = fanoutSeq /\ fanoutSeq \in Nat
        <2>1. NextCursor <= fanoutSeq /\ ~(NextCursor < fanoutSeq) BY <1>1, <1>2 DEF Sound, Poked
        <2>2. NextCursor \in Nat /\ fanoutSeq \in Nat BY CursorIn, RingFacts DEF Sound
        <2> QED BY <2>1, <2>2
    <1>4. ASSUME NEW q, NEW v PROVE ~Told(q, v)
        <2>1. NextCursor + 1 .. fanoutSeq = {} BY <1>3
        <2>2. poll.todo = {}
            <3>1. poll = NoPoll BY <1>2 DEF Sound, Asked
            <3> QED BY <3>1 DEF NoPoll
        <2> QED BY <2>1, <2>2 DEF Told, Changed
    <1>5. ASSUME NEW q \in Paths, NEW v \in Shown(q)' PROVE Minded(q, v)'
        <2>1. Minded(q, v) BY <1>1, <1>5 DEF Shown, kernelVars, Watched
        <2> QED BY <1>1, <1>4, <2>1 DEF Minded, Due, Marks, Known, mountVars, kernelVars
    <1>6. Operating'
        <2>1. Operating BY DEF Watched
        <2> QED BY <1>1, <2>1 DEF Operating, Due, Marks, mountVars, kernelVars
    <1>7. Retired'
        <2>1. counts.publishes \in Nat /\ MaxPublishes \in Nat BY CountsGrow, NotifyAssumption DEF Sound
        <2> QED BY <1>1, <1>2, <2>1 DEF Retired, mountVars
    <1> QED BY <1>5, <1>6, <1>7 DEF Watched

LEMMA MutationHubWatched ==
    ASSUME Sound, Watched, Closed, NEW gone \in BOOLEAN, MutationHub(gone) PROVE Watched'
    <1> DEFINE p == mutation.path
    <1>1. /\ mutation.pc = "hub" /\ Published({p}, mutation.value, TRUE, gone)
          /\ mutation' = [mutation EXCEPT !.pc = "attach", !.value = tree'[p]]
          /\ UNCHANGED <<subscribed, mountVars, kernelVars, counts>>
        BY DEF MutationHub
    <1>2. /\ p \in Paths /\ mutation.value \in Nat
          /\ mutation'.pc = "attach" /\ mutation'.path = p
        BY <1>1 DEF Sound, Typed
    <1>3. /\ fanoutSeq' = fanoutSeq + 1 /\ \A i \in 1..fanoutSeq : log'[i] = log[i]
          /\ \A q \in Paths \ {p} : tree'[q] = tree[q]
          /\ pokes' = pokes + (IF subscribed THEN 1 ELSE 0)
        <2>1. Ring /\ Typed BY DEF Sound
        <2>2. {p} \in SUBSET Paths BY <1>2
        <2>3. Published({p}, mutation.value, TRUE, gone) /\ mutation.value \in Nat BY <1>1, <1>2
        <2> HIDE DEF p
        <2> QED BY <2>1, <2>2, <2>3, PublishedKeeps
    <1>4. NextCursor' = NextCursor BY <1>1 DEF NextCursor, mountVars
    <1>5. Due(p)' BY <1>1, <1>2 DEF Due, Marks
    <1>6. ASSUME subscribed, Negative # {} PROVE ~UnknownSince(NextCursor)'
        <2>1. fanoutSeq + 1 - NextCursor <= RingSize /\ ~UnknownSince(NextCursor)
            BY <1>1, <1>6 DEF Watched, Operating
        <2>2. NotePublished(TRUE, {p}) /\ {p} \in SUBSET Paths BY <1>1, <1>2 DEF Published
        <2> HIDE DEF p
        <2> QED BY <1>4, <1>6, <2>1, <2>2, StillKnown
    <1> HIDE DEF p
    <1>7. ASSUME NEW q \in Paths, NEW v \in Shown(q)' PROVE Minded(q, v)'
        <2>1. CASE q = p
            <3>1. Marks(q)' BY <1>2, <2>1 DEF Marks
            <3> QED BY <3>1 DEF Minded, Due
        <2>2. CASE q # p
            <3>1. v \in Shown(q) BY <1>1, <1>7 DEF Shown, kernelVars
            <3>2. Minded(q, v) /\ v \in Nat /\ (v = 0 => q \in Negative) BY <3>1, ShownIn DEF Watched, Sound
            <3>3. Due(q) => Due(q)' BY <1>1, <1>2, <2>2 DEF Due, Marks, p, mountVars
            <3>4. Known(q) /\ q \notin forgets => Known(q)' /\ q \notin forgets'
                BY <1>1 DEF Known, mountVars, kernelVars
            <3>5. ASSUME Told(q, v) PROVE Told(q, v)'
                <4>1. CASE q \in poll.todo BY <1>1, <4>1 DEF Told, mountVars
                <4>2. CASE q \notin poll.todo
                    <5>1. subscribed /\ Changed(q) BY <3>5, <4>2 DEF Told
                    <5>2. Changed(q)' BY <1>3, <1>4, <5>1, ChangedKept
                    <5>3. v > 0 \/ ~UnknownSince(NextCursor)' BY <1>6, <3>2, <5>1
                    <5> QED BY <1>1, <5>1, <5>2, <5>3 DEF Told
                <4> QED BY <4>1, <4>2
            <3> QED BY <1>3, <2>2, <3>2, <3>3, <3>4, <3>5, MindedKept
        <2> QED BY <2>1, <2>2
    <1>8. Operating'
        <2>1. lookup' = NoLookup BY <1>1 DEF Watched, Operating, kernelVars
        <2> QED BY <1>2, <2>1 DEF Operating
    <1>9. Retired'
        <2>1. pokes \in Nat BY CursorIn DEF Sound
        <2> QED BY <1>1, <1>3, <2>1 DEF Retired, Watched, mountVars
    <1> QED BY <1>7, <1>8, <1>9 DEF Watched

LEMMA CallbackWatched ==
    ASSUME Sound, Watched, Closed,
           StartCallback \/ PollSlot \/ PollEnd \/ (\E p \in Paths : PollNext(p) \/ EndNotify(p) \/ Upcall(p))
    PROVE  Watched'
    <1>0. Typed /\ Asked /\ Poked /\ Operating /\ Retired BY DEF Sound, Watched
    <1>a. \A p \in Paths : \A v \in Shown(p) : Minded(p, v) BY DEF Watched
    <1>1. CASE StartCallback
        <2>1. /\ pokes > 0 /\ ~poll.busy /\ pokes' = pokes - 1
              /\ poll' = [NoPoll EXCEPT !.busy = TRUE, !.next = fanoutSeq,
                             !.todo = IF UnknownSince(cursor) THEN tracked ELSE PathsSince(cursor)]
              /\ UNCHANGED <<fanoutVars, tree, subscribed, cursor, queued, granted, writing, tracked,
                             kernelVars, mutation, counts>>
              /\ ~(Unlisted /\ UnknownSince(cursor))
            BY <1>1 DEF StartCallback, Closed, Racing
        <2>2. /\ poll'.busy /\ poll'.next = fanoutSeq
              /\ poll'.todo = IF UnknownSince(cursor) THEN tracked ELSE PathsSince(cursor)
            BY <2>1 DEF NoPoll
        <2>3. NextCursor = cursor /\ NextCursor' = fanoutSeq /\ poll.todo = {}
            <3>1. poll = NoPoll BY <1>0, <2>1 DEF Asked
            <3> QED BY <2>1, <2>2, <3>1 DEF NextCursor, NoPoll
        <2>4. subscribed
            <3>1. pokes # 0 BY <1>0, <2>1, CursorIn
            <3> QED BY <1>0, <3>1 DEF Retired
        <2>5. cursor \in 0..fanoutSeq /\ fanoutSeq \in Nat
            BY <1>0, <2>4, CursorIn, RingFacts DEF Poked, Sound
        <2>6. ASSUME NEW q \in Paths, NEW v \in Shown(q)' PROVE Minded(q, v)'
            <3>1. v \in Shown(q) BY <2>1, <2>6 DEF Shown, kernelVars
            <3>2. Minded(q, v) /\ v \in Nat BY <1>0, <1>a, <3>1, ShownIn
            <3>3. CASE Due(q) BY <2>1, <3>3 DEF Due, Marks, Minded
            <3>4. CASE ~Due(q)
                <4>1. v > 0 => Known(q) /\ q \notin forgets BY <3>2, <3>4 DEF Minded
                <4>2. ASSUME v # tree[q] PROVE q \in poll'.todo
                    <5>1. Changed(q) /\ (v > 0 \/ ~UnknownSince(cursor))
                        <6>1. Told(q, v) BY <3>2, <3>4, <4>2 DEF Minded
                        <6>2. UnknownSince(NextCursor) <=> UnknownSince(cursor) BY <2>3
                        <6> QED BY <2>3, <6>1, <6>2 DEF Told
                    <5>2. CASE UnknownSince(cursor)
                        <6>1. v > 0 /\ Known(q) /\ ~Unlisted BY <2>1, <3>2, <4>1, <5>1, <5>2
                        <6>2. q \in tracked
                            <7>1. SUFFICES ASSUME q \notin tracked PROVE FALSE OBVIOUS
                            <7>2. lookup.path = q /\ ~lookup.listed BY <6>1, <7>1 DEF Known
                            <7>3. lookup # NoLookup BY <7>2, Outside
                            <7>4. lookup.value # 0 BY <1>0, <7>2, <7>3 DEF Typed
                            <7> QED BY <6>1, <7>1, <7>2, <7>4 DEF Unlisted
                        <6> QED BY <2>2, <5>2, <6>2
                    <5>3. CASE ~UnknownSince(cursor)
                        <6>1. PICK c \in 0..fanoutSeq : c = cursor BY <2>5
                        <6>2. ~UnknownSince(c) BY <5>3, <6>1
                        <6>3. PathsSince(c) = UNION {log[i] : i \in c + 1 .. fanoutSeq}
                            BY <6>2, ScopeAt DEF Sound
                        <6>4. q \in PathsSince(c) BY <2>3, <5>1, <6>1, <6>3 DEF Changed
                        <6> QED BY <2>2, <5>3, <6>1, <6>4
                    <5> QED BY <5>2, <5>3
                <4> QED BY <2>1, <4>1, <4>2 DEF Minded, Known, Told, kernelVars
            <3> QED BY <3>3, <3>4
        <2>7. Operating'
            <3>1. ~UnknownSince(NextCursor)'
                <4>1. PICK c \in Nat : c = fanoutSeq BY <2>5
                <4>2. ~UnknownSince(c) BY <4>1, ScopeReached DEF Sound
                <4>3. ~UnknownSince(c)' BY <2>1, <4>2 DEF UnknownSince, Lost, After, fanoutVars
                <4> QED BY <2>3, <4>1, <4>3, ScopeOf
            <3>2. fanoutSeq' + 1 - NextCursor' <= RingSize BY <2>1, <2>3, <2>5, FanoutAssumption DEF fanoutVars
            <3> QED BY <1>0, <2>1, <3>1, <3>2 DEF Operating, Due, Marks, kernelVars
        <2>8. Retired' BY <2>1, <2>4 DEF Retired
        <2> QED BY <2>6, <2>7, <2>8 DEF Watched
    <1>2. ASSUME NEW p \in Paths, PollNext(p) PROVE Watched'
        <2>1. /\ poll.busy /\ p \in poll.todo /\ queued' = queued \cup {p}
              /\ poll' = [poll EXCEPT !.todo = @ \ {p}, !.key = IF p \in queued THEN "" ELSE p]
              /\ UNCHANGED <<fanoutVars, tree, subscribed, pokes, cursor, granted, writing, tracked,
                             kernelVars, mutation, counts>>
            BY <1>2 DEF PollNext
        <2>2. poll'.busy = poll.busy /\ poll'.next = poll.next /\ poll'.todo = poll.todo \ {p}
            BY <1>0, <2>1 DEF Typed
        <2>3. NextCursor' = NextCursor BY <2>1, <2>2 DEF NextCursor
        <2>4. ASSUME NEW q \in Paths, NEW v \in Shown(q)' PROVE Minded(q, v)'
            <3>1. Minded(q, v) BY <1>a, <2>1, <2>4 DEF Shown, kernelVars
            <3>2. CASE q = p BY <2>1, <3>2 DEF Minded, Due, Marks
            <3>3. CASE q # p
                <4>1. Told(q, v) => Told(q, v)' BY <2>1, <2>2, <2>3, <3>3, ToldKept
                <4>2. Due(q) => Due(q)' BY <2>1 DEF Due, Marks
                <4> QED BY <2>1, <3>1, <4>1, <4>2, MindedKept DEF Known, kernelVars
            <3> QED BY <3>2, <3>3
        <2>5. Operating'
            BY <1>0, <2>1, <2>3 DEF Operating, Due, Marks, Negative, UnknownSince, Lost, After, kernelVars, fanoutVars
        <2>6. Retired' BY <1>0, <2>1, <2>2 DEF Retired
        <2> QED BY <2>4, <2>5, <2>6 DEF Watched
    <1>3. CASE PollSlot \/ PollEnd
        <2>1. /\ UNCHANGED <<fanoutVars, tree, subscribed, pokes, queued, writing, tracked, kernelVars, mutation, counts>>
              /\ poll'.busy => poll.busy
              /\ poll'.todo = poll.todo
              /\ NextCursor' = NextCursor
            <3>1. CASE PollSlot
                <4>1. poll'.busy = poll.busy /\ poll'.next = poll.next /\ poll'.todo = poll.todo /\ cursor' = cursor
                    BY <1>0, <3>1 DEF PollSlot, Typed
                <4> QED BY <3>1, <4>1 DEF PollSlot, NextCursor
            <3>2. CASE PollEnd
                <4>1. poll.busy /\ poll.todo = {} /\ cursor' = poll.next /\ poll' = NoPoll BY <3>2 DEF PollEnd
                <4>2. poll'.busy = FALSE /\ poll'.todo = {} BY <4>1 DEF NoPoll
                <4> QED BY <3>2, <4>1, <4>2 DEF PollEnd, NextCursor
            <3> QED BY <1>3, <3>1, <3>2
        <2>2. ASSUME NEW q \in Paths, NEW v \in Shown(q)' PROVE Minded(q, v)'
            <3>1. Minded(q, v) BY <1>a, <2>1, <2>2 DEF Shown, kernelVars
            <3>2. Told(q, v) => Told(q, v)' BY <2>1, ToldKept
            <3>3. Due(q) => Due(q)' BY <2>1 DEF Due, Marks
            <3> QED BY <2>1, <3>1, <3>2, <3>3, MindedKept DEF Known, kernelVars
        <2>3. Operating'
            BY <1>0, <2>1 DEF Operating, Due, Marks, Negative, UnknownSince, Lost, After, kernelVars, fanoutVars
        <2>4. Retired' BY <1>0, <2>1 DEF Retired
        <2> QED BY <2>2, <2>3, <2>4 DEF Watched
    <1>4. ASSUME NEW p \in Paths, EndNotify(p) PROVE Watched'
        <2>1. /\ queued' = queued \ {p} /\ writing' = [writing EXCEPT ![p] = @ + 1]
              /\ UNCHANGED <<fanoutVars, tree, subscribed, pokes, cursor, poll, tracked, kernelVars, mutation, counts>>
            BY <1>4 DEF EndNotify
        <2>2. ASSUME NEW q \in Paths PROVE Due(q) => Due(q)'
            <3>1. writing \in [Paths -> Nat] /\ writing[q] \in Nat /\ writing[p] \in Nat BY <1>0 DEF Typed
            <3>2. CASE q = p BY <2>1, <3>1, <3>2 DEF Due, Marks
            <3>3. CASE q # p BY <2>1, <3>1, <3>3 DEF Due, Marks
            <3> QED BY <3>2, <3>3
        <2>3. NextCursor' = NextCursor BY <2>1 DEF NextCursor
        <2>4. ASSUME NEW q \in Paths, NEW v \in Shown(q)' PROVE Minded(q, v)'
            <3>1. Minded(q, v) BY <1>a, <2>1, <2>4 DEF Shown, kernelVars
            <3>2. Told(q, v) => Told(q, v)' BY <2>1, <2>3, ToldKept
            <3> QED BY <2>1, <2>2, <3>1, <3>2, MindedKept DEF Known, kernelVars
        <2>5. Operating'
            <3>1. mutation'.pc \in {"slot", "reply"} => Due(mutation.path)'
                <4> SUFFICES ASSUME mutation.pc \in {"slot", "reply"} PROVE Due(mutation.path)' BY <2>1
                <4>1. mutation.path \in Paths /\ Due(mutation.path) BY <1>0 DEF Operating, Typed
                <4>2. PICK q \in Paths : q = mutation.path BY <4>1
                <4>3. Due(q)' BY <2>2, <4>1, <4>2
                <4> QED BY <2>1, <4>2, <4>3 DEF Due, Marks
            <3> QED BY <1>0, <2>1, <2>3, <3>1
                DEF Operating, Negative, UnknownSince, Lost, After, kernelVars, fanoutVars
        <2>6. Retired' BY <1>0, <2>1 DEF Retired
        <2> QED BY <2>4, <2>5, <2>6 DEF Watched
    <1>5. ASSUME NEW p \in Paths, Upcall(p) PROVE Watched'
        <2>1. /\ ~InDirectory /\ kernel' = [kernel EXCEPT ![p] = NotCached]
              /\ writing' = [writing EXCEPT ![p] = @ - 1]
              /\ UNCHANGED <<fanoutVars, tree, subscribed, pokes, cursor, poll, queued, granted, tracked,
                             lookup, forgets, mutation, counts>>
            BY <1>5 DEF Upcall
        <2>2. lookup = NoLookup /\ mutation.pc = "idle" /\ NextCursor' = NextCursor
            BY <2>1 DEF InDirectory, NextCursor
        <2>3. ASSUME NEW q \in Paths, NEW v \in Shown(q)' PROVE Minded(q, v)'
            <3>1. lookup'.path # q BY <2>1, <2>2, Outside
            <3>2. v = kernel'[q] /\ v # NotCached BY <2>3, <3>1 DEF Shown
            <3>3. kernel \in [Paths -> Nat \cup {NotCached}] /\ writing \in [Paths -> Nat] BY <1>0 DEF Typed
            <3>4. q # p BY <2>1, <3>2, <3>3
            <3>5. kernel'[q] = kernel[q] /\ writing'[q] = writing[q] BY <2>1, <3>3, <3>4
            <3>6. Minded(q, v) BY <1>a, <3>2, <3>5 DEF Shown
            <3>7. Told(q, v) => Told(q, v)' BY <2>1, <2>2, ToldKept
            <3>8. Due(q) => Due(q)' BY <2>1, <3>5 DEF Due, Marks
            <3> QED BY <2>1, <3>6, <3>7, <3>8, MindedKept DEF Known
        <2>4. Operating' BY <2>1, <2>2 DEF Operating
        <2>5. Retired' BY <1>0, <2>1 DEF Retired
        <2> QED BY <2>3, <2>4, <2>5 DEF Watched
    <1> QED BY <1>1, <1>2, <1>3, <1>4, <1>5

LEMMA KernelWatched ==
    ASSUME Sound, Watched, Closed,
           \/ LookupAttach \/ LookupReply
           \/ MutationAttach \/ MutationNotify \/ MutationSlot \/ MutationReply
           \/ \E p \in Paths : LookupStart(p) \/ Shrink(p) \/ OnForget(p) \/ MutationStart(p)
    PROVE  Watched'
    <1>0. Typed /\ Asked /\ Poked /\ Operating /\ Retired BY DEF Sound, Watched
    <1>a. \A p \in Paths : \A v \in Shown(p) : Minded(p, v) BY DEF Watched
    <1>1. CASE LookupReply
        <2>1. /\ lookup # NoLookup /\ kernel' = [kernel EXCEPT ![lookup.path] = lookup.value] /\ lookup' = NoLookup
              /\ UNCHANGED <<fanoutVars, tree, subscribed, pokes, mountVars, forgets, mutation, counts>>
              /\ lookup.listed
            <3>1. NoLookup.listed = FALSE BY DEF NoLookup
            <3>2. lookup.listed BY <1>1 DEF LookupReply
            <3>3. lookup # NoLookup BY <3>1, <3>2
            <3> QED BY <1>1, <3>2, <3>3 DEF LookupReply
        <2>2. lookup.path \in Paths /\ kernel \in [Paths -> Nat \cup {NotCached}] BY <1>0, <2>1 DEF Typed
        <2>3. NextCursor' = NextCursor BY <2>1 DEF NextCursor, mountVars
        <2>4. ASSUME NEW q \in Paths, NEW v \in Shown(q)' PROVE Minded(q, v)'
            <3>1. lookup'.path # q BY <2>1, Outside
            <3>2. v = kernel'[q] /\ v # NotCached BY <2>4, <3>1 DEF Shown
            <3>3. v \in Shown(q)
                <4>1. CASE q = lookup.path BY <2>1, <2>2, <3>2, <4>1 DEF Shown
                <4>2. CASE q # lookup.path BY <2>1, <2>2, <3>2, <4>2 DEF Shown
                <4> QED BY <4>1, <4>2
            <3>4. Told(q, v) => Told(q, v)' BY <2>1, <2>3, ToldKept DEF mountVars
            <3>5. Due(q) => Due(q)' BY <2>1 DEF Due, Marks, mountVars
            <3>6. Known(q) => Known(q)' BY <2>1 DEF Known, mountVars
            <3>7. Minded(q, v) BY <1>a, <3>3
            <3> QED BY <2>1, <3>4, <3>5, <3>6, <3>7, MindedKept
        <2>5. Operating'
            <3>1. mutation.pc = "idle" BY <1>0, <2>1 DEF Operating
            <3> QED BY <2>1, <3>1 DEF Operating
        <2>6. Retired' BY <1>0, <2>1 DEF Retired, mountVars
        <2> QED BY <2>4, <2>5, <2>6 DEF Watched
    <1>2. CASE MutationSlot
        <2>1. /\ mutation.pc = "slot" /\ mutation' = [mutation EXCEPT !.pc = "reply"]
              /\ UNCHANGED <<fanoutVars, tree, subscribed, pokes, cursor, poll, queued, writing, tracked,
                             kernelVars, counts>>
            BY <1>2 DEF MutationSlot
        <2>2. mutation'.pc = "reply" /\ mutation'.path = mutation.path /\ Due(mutation.path) /\ lookup = NoLookup
            BY <1>0, <2>1 DEF Typed, Operating
        <2>3. NextCursor' = NextCursor BY <2>1 DEF NextCursor
        <2>4. ASSUME NEW q \in Paths, NEW v \in Shown(q)' PROVE Minded(q, v)'
            <3>1. Minded(q, v) BY <1>a, <2>1, <2>4 DEF Shown, kernelVars
            <3>2. Told(q, v) => Told(q, v)' BY <2>1, <2>3, ToldKept
            <3>3. Due(q) => Due(q)' BY <2>1 DEF Due, Marks
            <3> QED BY <2>1, <3>1, <3>2, <3>3, MindedKept DEF Known, kernelVars
        <2>5. Operating'
            <3>1. ~Marks(mutation.path) BY <2>1 DEF Marks
            <3>2. Due(mutation.path)' BY <2>1, <2>2, <3>1 DEF Due
            <3> QED BY <2>1, <2>2, <3>2 DEF Operating, kernelVars
        <2>6. Retired' BY <1>0, <2>1 DEF Retired
        <2> QED BY <2>4, <2>5, <2>6 DEF Watched
    <1>3. CASE MutationReply
        <2>1. /\ mutation.pc = "reply" /\ mutation' = NoMutation
              /\ kernel' = [kernel EXCEPT ![mutation.path] =
                                IF mutation.value = 0 THEN NotCached ELSE mutation.value]
              /\ UNCHANGED <<fanoutVars, tree, subscribed, pokes, mountVars, lookup, forgets, counts>>
            BY <1>3 DEF MutationReply
        <2>2. kernel \in [Paths -> Nat \cup {NotCached}] /\ lookup = NoLookup /\ Due(mutation.path)
            BY <1>0, <2>1 DEF Typed, Operating
        <2>3. NextCursor' = NextCursor BY <2>1 DEF NextCursor, mountVars
        <2>4. ASSUME NEW q \in Paths, NEW v \in Shown(q)' PROVE Minded(q, v)'
            <3>1. Due(q) => Due(q)' BY <2>1 DEF Due, Marks, mountVars
            <3>2. CASE q = mutation.path
                <4>1. Due(q) BY <2>2, <3>2
                <4> QED BY <3>1, <4>1 DEF Minded
            <3>3. CASE q # mutation.path
                <4>1. kernel'[q] = kernel[q] BY <2>1, <2>2, <3>3
                <4>2. Minded(q, v) BY <1>a, <2>1, <2>4, <4>1 DEF Shown
                <4>3. Told(q, v) => Told(q, v)' BY <2>1, <2>3, ToldKept DEF mountVars
                <4> QED BY <2>1, <3>1, <4>2, <4>3, MindedKept DEF Known, mountVars
            <3> QED BY <3>2, <3>3
        <2>5. Operating' BY <2>1, <2>2 DEF Operating, NoMutation
        <2>6. Retired' BY <1>0, <2>1 DEF Retired, mountVars
        <2> QED BY <2>4, <2>5, <2>6 DEF Watched
    <1>4. ASSUME NEW p \in Paths, LookupStart(p) PROVE Watched'
        <2>1. /\ ~InDirectory /\ kernel[p] = NotCached /\ (Racing("forget") \/ p \notin forgets)
              /\ lookup' = [path |-> p, value |-> tree[p], listed |-> tree[p] = 0]
              /\ counts' = [counts EXCEPT !.lookups = @ + 1]
              /\ UNCHANGED <<fanoutVars, tree, subscribed, pokes, cursor, poll, queued, granted, writing,
                             tracked, kernel, forgets, mutation>>
            BY <1>4 DEF LookupStart, mountVars
        <2>2. mutation.pc = "idle" /\ lookup = NoLookup /\ p \notin forgets
            BY <2>1 DEF InDirectory, Closed, Racing
        <2>3. NextCursor' = NextCursor BY <2>1 DEF NextCursor
        <2>4. ASSUME NEW q \in Paths, NEW v \in Shown(q)' PROVE Minded(q, v)'
            <3>1. lookup'.path = p /\ lookup'.value = tree[p] /\ (lookup'.listed <=> tree[p] = 0) BY <2>1
            <3>2. CASE q = p
                <4>1. v = tree[p] /\ tree[p] \in Nat
                    BY <1>0, <2>1, <2>4, <3>1, <3>2 DEF Shown, Typed
                <4>2. v > 0 => Known(q)' BY <3>1, <3>2, <4>1 DEF Known
                <4> QED BY <2>1, <2>2, <3>2, <4>1, <4>2 DEF Minded
            <3>3. CASE q # p
                <4>1. Minded(q, v) BY <1>a, <2>1, <2>4, <3>1, <3>3 DEF Shown
                <4>2. Told(q, v) => Told(q, v)' BY <2>1, <2>3, ToldKept
                <4>3. Due(q) => Due(q)' BY <2>1 DEF Due, Marks
                <4>4. Known(q) => Known(q)' BY <2>1, <2>2, <3>3, Outside DEF Known
                <4> QED BY <2>1, <4>1, <4>2, <4>3, <4>4, MindedKept
            <3> QED BY <3>2, <3>3
        <2>5. Operating' BY <2>1, <2>2 DEF Operating
        <2>6. Retired'
            <3>1. counts'.publishes = counts.publishes BY <1>0, <2>1 DEF Typed
            <3> QED BY <1>0, <2>1, <3>1 DEF Retired
        <2> QED BY <2>4, <2>5, <2>6 DEF Watched
    <1>5. ASSUME NEW p \in Paths, Shrink(p) PROVE Watched'
        <2>1. /\ ~InDirectory /\ kernel' = [kernel EXCEPT ![p] = NotCached]
              /\ forgets' = (IF kernel[p] = 0 THEN forgets ELSE forgets \cup {p})
              /\ UNCHANGED <<fanoutVars, tree, subscribed, pokes, mountVars, lookup, mutation, counts>>
            BY <1>5 DEF Shrink
        <2>2. lookup = NoLookup /\ mutation.pc = "idle" /\ NextCursor' = NextCursor
            BY <2>1 DEF InDirectory, NextCursor, mountVars
        <2>3. ASSUME NEW q \in Paths, NEW v \in Shown(q)' PROVE Minded(q, v)'
            <3>1. lookup'.path # q BY <2>1, <2>2, Outside
            <3>2. v = kernel'[q] /\ v # NotCached BY <2>3, <3>1 DEF Shown
            <3>3. kernel \in [Paths -> Nat \cup {NotCached}] BY <1>0 DEF Typed
            <3>4. q # p /\ kernel'[q] = kernel[q] BY <2>1, <3>2, <3>3
            <3>5. Minded(q, v) BY <1>a, <3>2, <3>4 DEF Shown
            <3>6. Told(q, v) => Told(q, v)' BY <2>1, <2>2, ToldKept DEF mountVars
            <3>7. Due(q) => Due(q)' BY <2>1 DEF Due, Marks, mountVars
            <3>8. Known(q) /\ q \notin forgets => Known(q)' /\ q \notin forgets'
                BY <2>1, <3>4 DEF Known, mountVars
            <3> QED BY <2>1, <3>5, <3>6, <3>7, <3>8, MindedKept
        <2>4. Operating' BY <2>1, <2>2 DEF Operating
        <2>5. Retired' BY <1>0, <2>1 DEF Retired, mountVars
        <2> QED BY <2>3, <2>4, <2>5 DEF Watched
    <1>6. ASSUME NEW p \in Paths, OnForget(p) PROVE Watched'
        <2>1. /\ p \in forgets /\ forgets' = forgets \ {p} /\ tracked' = tracked \ {p}
              /\ UNCHANGED <<fanoutVars, tree, subscribed, pokes, cursor, poll, queued, granted, writing,
                             kernel, lookup, mutation, counts>>
            BY <1>6 DEF OnForget
        <2>2. NextCursor' = NextCursor BY <2>1 DEF NextCursor
        <2>3. ASSUME NEW q \in Paths, NEW v \in Shown(q)' PROVE Minded(q, v)'
            <3>1. Minded(q, v) BY <1>a, <2>1, <2>3 DEF Shown
            <3>2. Told(q, v) => Told(q, v)' BY <2>1, <2>2, ToldKept
            <3>3. Due(q) => Due(q)' BY <2>1 DEF Due, Marks
            <3>4. Known(q) /\ q \notin forgets => Known(q)' /\ q \notin forgets' BY <2>1 DEF Known
            <3> QED BY <2>1, <3>1, <3>2, <3>3, <3>4, MindedKept
        <2>4. Operating'
            BY <1>0, <2>1, <2>2 DEF Operating, Due, Marks, Negative, UnknownSince, Lost, After, fanoutVars
        <2>5. Retired' BY <1>0, <2>1 DEF Retired
        <2> QED BY <2>3, <2>4, <2>5 DEF Watched
    <1>7. ASSUME NEW p \in Paths, MutationStart(p) PROVE Watched'
        <2>1. /\ ~InDirectory /\ counts.publishes < MaxPublishes /\ ScopeKept(1)
              /\ mutation' = [NoMutation EXCEPT !.pc = "hub", !.path = p, !.value = counts.publishes + 2]
              /\ counts' = [counts EXCEPT !.mutations = @ + 1, !.publishes = @ + 1]
              /\ UNCHANGED <<fanoutVars, tree, subscribed, pokes, mountVars, kernelVars>>
            BY <1>7 DEF MutationStart
        <2>2. lookup = NoLookup /\ mutation.pc = "idle" /\ mutation'.pc = "hub" /\ NextCursor' = NextCursor
            BY <2>1 DEF InDirectory, NextCursor, mountVars, NoMutation
        <2>3. subscribed
            <3>1. counts.publishes \in Nat /\ MaxPublishes \in Nat BY <1>0, CountsGrow, NotifyAssumption
            <3> QED BY <1>0, <2>1, <3>1 DEF Retired
        <2>4. ASSUME NEW q \in Paths, NEW v \in Shown(q)' PROVE Minded(q, v)'
            <3>1. Minded(q, v) BY <1>a, <2>1, <2>4 DEF Shown, kernelVars
            <3>2. Told(q, v) => Told(q, v)' BY <2>1, <2>2, ToldKept DEF mountVars
            <3>3. Due(q) => Due(q)' BY <2>1, <2>2 DEF Due, Marks, mountVars
            <3> QED BY <2>1, <3>1, <3>2, <3>3, MindedKept DEF Known, mountVars, kernelVars
        <2>5. Operating'
            <3>1. Negative # {} => fanoutSeq + 1 - NextCursor <= RingSize /\ ~UnknownSince(NextCursor)
                BY <2>1 DEF ScopeKept, Closed, Racing
            <3>2. Negative' = Negative /\ fanoutSeq' = fanoutSeq BY <2>1 DEF Negative, kernelVars, fanoutVars
            <3>3. UnknownSince(NextCursor)' <=> UnknownSince(NextCursor)
                BY <2>1, <2>2 DEF UnknownSince, Lost, After, fanoutVars
            <3>4. lookup' = NoLookup BY <2>1, <2>2 DEF kernelVars
            <3> QED BY <2>2, <3>1, <3>2, <3>3, <3>4 DEF Operating, NoMutation
        <2>6. Retired' BY <2>1, <2>3 DEF Retired
        <2> QED BY <2>4, <2>5, <2>6 DEF Watched
    <1>8. CASE LookupAttach
        <2>1. /\ lookup # NoLookup /\ lookup' = [lookup EXCEPT !.listed = TRUE]
              /\ tracked' = tracked \cup {lookup.path}
              /\ UNCHANGED <<fanoutVars, tree, subscribed, pokes, cursor, poll, queued, granted, writing,
                             kernel, forgets, mutation, counts>>
            BY <1>8 DEF LookupAttach
        <2>2. /\ lookup'.path = lookup.path /\ lookup'.value = lookup.value
              /\ mutation.pc = "idle" /\ NextCursor' = NextCursor
            BY <1>0, <2>1 DEF Typed, Operating, NextCursor
        <2>3. ASSUME NEW q \in Paths, NEW v \in Shown(q)' PROVE Minded(q, v)'
            <3>1. Minded(q, v) BY <1>a, <2>1, <2>2, <2>3 DEF Shown
            <3>2. Told(q, v) => Told(q, v)' BY <2>1, <2>2, ToldKept
            <3>3. Due(q) => Due(q)' BY <2>1 DEF Due, Marks
            <3>4. Known(q) => Known(q)' BY <2>1 DEF Known
            <3> QED BY <2>1, <3>1, <3>2, <3>3, <3>4, MindedKept
        <2>4. Operating' BY <2>1, <2>2 DEF Operating
        <2>5. Retired' BY <1>0, <2>1 DEF Retired
        <2> QED BY <2>3, <2>4, <2>5 DEF Watched
    <1>9. CASE MutationAttach
        <2>1. /\ mutation.pc = "attach" /\ mutation' = [mutation EXCEPT !.pc = "notify"]
              /\ tracked' = (IF mutation.value = 0 THEN tracked \ {mutation.path} ELSE tracked \cup {mutation.path})
              /\ UNCHANGED <<fanoutVars, tree, subscribed, pokes, cursor, poll, queued, granted, writing,
                             kernelVars, counts>>
            BY <1>9 DEF MutationAttach
        <2>2. mutation'.pc = "notify" /\ mutation'.path = mutation.path /\ lookup = NoLookup
            BY <1>0, <2>1 DEF Typed, Operating
        <2>3. NextCursor' = NextCursor BY <2>1 DEF NextCursor
        <2>4. ASSUME NEW q \in Paths, NEW v \in Shown(q)' PROVE Minded(q, v)'
            <3>1. CASE q = mutation.path
                <4>1. Marks(q)' BY <2>2, <3>1 DEF Marks
                <4> QED BY <4>1 DEF Minded, Due
            <3>2. CASE q # mutation.path
                <4>1. Minded(q, v) BY <1>a, <2>1, <2>4 DEF Shown, kernelVars
                <4>2. Told(q, v) => Told(q, v)' BY <2>1, <2>3, ToldKept
                <4>3. Due(q) => Due(q)' BY <2>1, <3>2 DEF Due, Marks
                <4>4. Known(q) => Known(q)' BY <2>1, <3>2 DEF Known, kernelVars
                <4> QED BY <2>1, <4>1, <4>2, <4>3, <4>4, MindedKept DEF kernelVars
            <3> QED BY <3>1, <3>2
        <2>5. Operating' BY <2>1, <2>2 DEF Operating, kernelVars
        <2>6. Retired' BY <1>0, <2>1 DEF Retired
        <2> QED BY <2>4, <2>5, <2>6 DEF Watched
    <1>10. CASE MutationNotify
        <2>1. /\ mutation.pc = "notify"
              /\ mutation' = [mutation EXCEPT !.pc = IF mutation.path \in queued THEN "reply" ELSE "slot"]
              /\ queued' = queued \cup {mutation.path}
              /\ UNCHANGED <<fanoutVars, tree, subscribed, pokes, cursor, poll, granted, writing, tracked,
                             kernelVars, counts>>
            BY <1>10 DEF MutationNotify
        <2>2. mutation'.pc \in {"reply", "slot"} /\ mutation'.path = mutation.path /\ lookup = NoLookup
            BY <1>0, <2>1 DEF Typed, Operating
        <2>3. NextCursor' = NextCursor BY <2>1 DEF NextCursor
        <2>4. ASSUME NEW q \in Paths PROVE Due(q) => Due(q)'
            <3>1. Marks(q) => q \in queued' BY <2>1 DEF Marks
            <3> QED BY <2>1, <3>1 DEF Due
        <2>5. ASSUME NEW q \in Paths, NEW v \in Shown(q)' PROVE Minded(q, v)'
            <3>1. Minded(q, v) BY <1>a, <2>1, <2>5 DEF Shown, kernelVars
            <3>2. Told(q, v) => Told(q, v)' BY <2>1, <2>3, ToldKept
            <3> QED BY <2>1, <2>4, <3>1, <3>2, MindedKept DEF Known, kernelVars
        <2>6. Operating'
            <3>1. Due(mutation.path)' BY <2>1, <2>2 DEF Due
            <3> QED BY <2>1, <2>2, <3>1 DEF Operating, kernelVars
        <2>7. Retired' BY <1>0, <2>1 DEF Retired
        <2> QED BY <2>5, <2>6, <2>7 DEF Watched
    <1> QED BY <1>1, <1>2, <1>3, <1>4, <1>5, <1>6, <1>7, <1>8, <1>9, <1>10

LEMMA InitWatched == NotifyInit => Watched
    <1> SUFFICES ASSUME NotifyInit PROVE Watched OBVIOUS
    <1>1. \A p \in Paths : Shown(p) = {} BY Outside DEF NotifyInit, Shown
    <1>2. subscribed /\ lookup = NoLookup /\ mutation.pc = "idle" BY DEF NotifyInit, NoMutation
    <1>3. Operating /\ Retired BY <1>2 DEF Operating, Retired
    <1> QED BY <1>1, <1>3 DEF Watched

LEMMA NextWatched == Closed => (Sound /\ Watched /\ [NotifyNext]_notifyVars => Watched')
    <1> SUFFICES ASSUME Closed, Sound, Watched, [NotifyNext]_notifyVars PROVE Watched' OBVIOUS
    <1>1. CASE NotifyNext BY <1>1, PublishWatched, EvictWatched, MutationHubWatched, CallbackWatched, KernelWatched DEF NotifyNext
    <1>2. CASE UNCHANGED notifyVars
        <2>1. UNCHANGED <<fanoutVars, tree, subscribed, pokes, cursor, poll, queued, granted, writing, tracked,
                          kernel, lookup, forgets, mutation, counts>>
            BY <1>2 DEF notifyVars, mountVars, kernelVars
        <2>2. NextCursor' = NextCursor BY <2>1 DEF NextCursor
        <2>3. ASSUME NEW q \in Paths, NEW v \in Shown(q)' PROVE Minded(q, v)'
            <3>1. Minded(q, v) BY <2>1, <2>3 DEF Shown, Watched
            <3>2. Told(q, v) => Told(q, v)' BY <2>1, <2>2, ToldKept
            <3>3. Due(q) => Due(q)' BY <2>1 DEF Due, Marks
            <3> QED BY <2>1, <3>1, <3>2, <3>3, MindedKept DEF Known
        <2>4. Operating /\ Retired BY DEF Watched
        <2>5. Operating'
            BY <2>1, <2>2, <2>4 DEF Operating, Due, Marks, Negative, UnknownSince, Lost, After, fanoutVars
        <2>6. Retired' BY <2>1, <2>4 DEF Retired
        <2> QED BY <2>3, <2>5, <2>6 DEF Watched
    <1> QED BY <1>1, <1>2

\* Once every callback and every notification ran and no request is in flight, no name
\* the kernel would answer by itself is older than the tree, when the four windows of
\* Closed are shut
\* (pollInvalidationsOnce, invalidatePath, notifyEntryForPath, onForget).
THEOREM NothingStaleAlways ==
    ASSUME {"deaf", "negative", "forget", "unlisted"} \cap Races = {}
    PROVE  NotifySpec => []NothingStale
    <1>0. Closed BY DEF Closed
    <1>1. NotifyInit => Sound /\ Watched BY InitSound, InitWatched
    <1>2. (Sound /\ Watched) /\ [NotifyNext]_notifyVars => (Sound /\ Watched)' BY <1>0, NextSound, NextWatched
    <1>3. Sound /\ Watched => NothingStale
        <2> SUFFICES ASSUME Sound, Watched,
                            pokes = 0 /\ ~poll.busy /\ granted = {} /\ (\A p \in Paths : writing[p] = 0) /\ ~InDirectory,
                            NEW p \in Paths
                     PROVE  UpToDate(p)
            BY DEF NothingStale
        <2>1. poll = NoPoll /\ poll.todo = {} /\ poll.key = ""
            <3>1. poll = NoPoll BY DEF Sound, Asked
            <3> QED BY <3>1 DEF NoPoll
        <2>2. ~Due(p)
            <3>1. queued = {} BY <2>1 DEF Sound, Asked, Waits, InDirectory
            <3>2. ~Marks(p) BY DEF Marks, InDirectory
            <3> QED BY <3>1, <3>2 DEF Due
        <2>3. ASSUME NEW v PROVE ~Told(p, v)
            <3>1. subscribed => ~Changed(p)
                <4> HAVE subscribed
                <4>1. NextCursor <= fanoutSeq /\ ~(NextCursor < fanoutSeq) BY DEF Sound, Poked
                <4>2. NextCursor \in Nat /\ fanoutSeq \in Nat BY CursorIn, RingFacts DEF Sound
                <4>3. NextCursor + 1 .. fanoutSeq = {} BY <4>1, <4>2
                <4> QED BY <4>3 DEF Changed
            <3> QED BY <2>1, <3>1 DEF Told
        <2>4. CASE kernel[p] = NotCached BY <2>4 DEF UpToDate
        <2>5. CASE kernel[p] # NotCached
            <3>1. kernel[p] \in Shown(p) BY <2>5 DEF Shown
            <3>2. Minded(p, kernel[p]) BY <3>1 DEF Watched
            <3> QED BY <2>2, <2>3, <3>2 DEF Minded, UpToDate
        <2> QED BY <2>4, <2>5
    <1> QED BY <1>1, <1>2, <1>3, PTL DEF NotifySpec

=============================================================================
