----------------------------- MODULE FuseLocks -----------------------------
(***************************************************************************)
(* POSIX record locks of one inode of a mount (fusefs/fuse_lock.go).       *)
(*                                                                         *)
(* The table is a slice of records, filtered in place: what a filter keeps *)
(* is written over the array it is still reading.  `granted` is a history  *)
(* variable: the locks the owners were told they hold, byte by byte.       *)
(***************************************************************************)
EXTENDS Naturals, FiniteSets, Sequences, SequencesExt

CONSTANTS
    Handles, Owners,    \* handle slots of the inode, lock owners (processes)
    LastByte,           \* bytes 0..LastByte; a range may also be open-ended
    MaxLockCalls,       \* bound on lock calls
    Races               \* the windows left open, see Racing(w)

ASSUME LocksAssumption ==
    /\ {LastByte, MaxLockCalls} \subseteq Nat
    /\ Races \subseteq STRING

VARIABLES
    lockTable,  \* Seq of [owner, typ, start, end]
    lockOwners,    \* handle -> owners it will unlock when released
    waiting,    \* handle -> the Setlkw call parked on the condition, or {}
    tracking,   \* handle -> calls granted that have not reached trackLockOwner
    granted,    \* ghost: owner -> byte -> "none", "rd", "wr"
    lockCalls

lockVars == <<lockTable, lockOwners, waiting, tracking, granted, lockCalls>>

(* The windows: "alias" (a filter overwrites a record it has not read),    *)
(* "quiet" (a Setlkw that gives something up wakes nobody), "forget" (an  *)
(* unlock of a part makes the handle forget the owner), "lastclose" (a     *)
(* lock taken between the last close and its removal of every lock),       *)
(* "threads" (a call of an owner before its last one was recorded).        *)
Racing(w) == w \in Races

ByteSet == 0..LastByte
Infinity == LastByte + 1
Ends == {0} \cup (1..LastByte)              \* exclusive; 0 is the end of the file
Stop(l) == IF l.end = 0 THEN Infinity ELSE l.end
Covers(l, b) == l.start <= b /\ b < Stop(l)
WholeFile(owner, typ) == [owner |-> owner, typ |-> typ, start |-> 0, end |-> 0]
Requests(owner) ==
    {l \in [owner : {owner}, typ : {"rd", "wr", "un"}, start : ByteSet, end : Ends] : l.start < Stop(l)}

LocksInit(spent) ==
    /\ lockTable = <<>>
    /\ lockOwners = [h \in Handles |-> {}]
    /\ waiting = [h \in Handles |-> {}] /\ tracking = [h \in Handles |-> {}]
    /\ granted = [o \in Owners |-> [b \in ByteSet |-> "none"]]
    /\ lockCalls = spent

-----------------------------------------------------------------------------
(* Ranges and records.                                                     *)

LocksOverlap(a, b) == a.start < Stop(b) /\ b.start < Stop(a)

Conflicts(existing, lk) ==
    /\ existing.owner # lk.owner /\ LocksOverlap(existing, lk)
    /\ ~(existing.typ = "rd" /\ lk.typ = "rd")

(* mutant: the right remainder starts where the cut starts *)
SubtractKeepsCut(existing, cut) ==
    IF ~LocksOverlap(existing, cut) THEN <<existing>>
    ELSE (IF cut.start > existing.start THEN <<[existing EXCEPT !.end = cut.start]>> ELSE <<>>)
         \o (IF Stop(cut) < Stop(existing) THEN <<[existing EXCEPT !.start = cut.start]>> ELSE <<>>)
(* What is left of a record: a part before the cut and a part after it.    *)
SubtractLock(existing, cut) ==
    IF ~LocksOverlap(existing, cut) THEN <<existing>>
    ELSE (IF cut.start > existing.start THEN <<[existing EXCEPT !.end = cut.start]>> ELSE <<>>)
         \o (IF Stop(cut) < Stop(existing) THEN <<[existing EXCEPT !.start = Stop(cut)]>> ELSE <<>>)

Kept(existing, cut) ==
    IF existing.owner = cut.owner THEN SubtractLock(existing, cut) ELSE <<existing>>

(* filtered := locks[:0]; the loop reads record i from the array it has    *)
(* already written `n` records to.                                         *)
Overwrite(arr, n, recs) ==
    [i \in 1..(IF n + Len(recs) > Len(arr) THEN n + Len(recs) ELSE Len(arr)) |->
        IF i > n /\ i <= n + Len(recs) THEN recs[i - n] ELSE arr[i]]
FilterInPlace(locks, cut) ==
    LET pass[i \in 0..Len(locks)] ==
            IF i = 0 THEN [arr |-> locks, n |-> 0]
            ELSE LET before == pass[i - 1]
                     recs == Kept(before.arr[i], cut)
                 IN  [arr |-> Overwrite(before.arr, before.n, recs), n |-> before.n + Len(recs)]
    IN  SubSeq(pass[Len(locks)].arr, 1, pass[Len(locks)].n)
FilterCopy(locks, cut) == FlattenSeq([i \in DOMAIN locks |-> Kept(locks[i], cut)])

Grantable(lk) == lk.typ = "un" \/ \A i \in DOMAIN lockTable : ~Conflicts(lockTable[i], lk)
(* setLockLocked on a request that can be granted.                         *)
TableAfter(lk) ==
    IF lk.typ = "un" THEN FilterInPlace(lockTable, lk)
    ELSE Append(FilterInPlace(lockTable, lk), lk)
GrantedAfter(lk) ==
    [granted EXCEPT ![lk.owner] =
        [b \in ByteSet |-> IF ~Covers(lk, b) THEN @[b] ELSE IF lk.typ = "un" THEN "none" ELSE lk.typ]]

(* setLockLocked has granted the call; trackLockOwner comes after s.mu is  *)
(* released.                                                               *)
Grant(h, lk) ==
    /\ lockTable' = TableAfter(lk) /\ granted' = GrantedAfter(lk)
    /\ tracking' = [tracking EXCEPT ![h] = @ \cup {[owner |-> lk.owner, typ |-> lk.typ]}]
    /\ UNCHANGED lockOwners
Answered(h) == waiting[h] = {} /\ tracking[h] = {}

(* Broadcast: every parked call will try again.                            *)
Woken == [h \in Handles |-> {[w EXCEPT !.woken = TRUE] : w \in waiting[h]}]

Holds(o) == {b \in ByteSet : granted[o][b] # "none"}
(* The inputs each window needs.                                           *)
Allowed(h, lk) ==
    /\ Racing("alias") \/ FilterInPlace(lockTable, lk) = FilterCopy(lockTable, lk)
    /\ Racing("forget") \/ lk.typ # "un" \/ \A b \in Holds(lk.owner) : Covers(lk, b)
(* A blocking call that gives up a byte or a write lock its owner holds.   *)
GivesUp(lk) ==
    \E b \in Holds(lk.owner) : Covers(lk, b) /\ granted[lk.owner][b] # lk.typ /\ lk.typ # "wr"

-----------------------------------------------------------------------------
(* The calls; one call per handle may be parked.                           *)

Busy(o) ==
    \E h \in Handles : (\E w \in waiting[h] : w.lk.owner = o) \/ (\E t \in tracking[h] : t.owner = o)
Running(o) == lockCalls < MaxLockCalls /\ (Racing("threads") \/ ~Busy(o))

Setlk(h, lk) ==
    /\ Running(lk.owner) /\ Allowed(h, lk)
    /\ lockCalls' = lockCalls + 1
    /\ IF Grantable(lk) THEN Grant(h, lk) /\ waiting' = Woken
       ELSE UNCHANGED <<lockTable, granted, tracking, lockOwners, waiting>>

(* Setlkw grants at once, without a broadcast, or parks.                   *)
Setlkw(h, lk) ==
    /\ Running(lk.owner) /\ Allowed(h, lk)
    /\ Racing("quiet") \/ ~GivesUp(lk)
    /\ lockCalls' = lockCalls + 1
    /\ IF Grantable(lk) THEN Grant(h, lk) /\ UNCHANGED waiting
       ELSE /\ waiting[h] = {}
            /\ waiting' = [waiting EXCEPT ![h] = {[lk |-> lk, woken |-> FALSE, cancelled |-> FALSE]}]
            /\ UNCHANGED <<lockTable, granted, tracking, lockOwners>>

(* A woken call tries again, then looks at its context, then parks again.  *)
Retry(h) ==
    /\ \E w \in waiting[h] :
         /\ w.woken
         /\ Allowed(h, w.lk)
         /\ IF Grantable(w.lk) THEN Grant(h, w.lk) /\ waiting' = [waiting EXCEPT ![h] = {}]
            ELSE /\ waiting' = [waiting EXCEPT ![h] =
                                  IF w.cancelled THEN {} ELSE {[w EXCEPT !.woken = FALSE]}]
                 /\ UNCHANGED <<lockTable, granted, tracking, lockOwners>>
    /\ UNCHANGED lockCalls

(* trackLockOwner: any unlock, of a part as well, forgets the owner.       *)
Track(h) ==
    /\ \E t \in tracking[h] :
         /\ tracking' = [tracking EXCEPT ![h] = @ \ {t}]
         /\ lockOwners' = [lockOwners EXCEPT ![h] = IF t.typ = "un" THEN @ \ {t.owner} ELSE @ \cup {t.owner}]
    /\ UNCHANGED <<lockTable, waiting, granted, lockCalls>>

(* The kernel interrupts a parked call: the handler broadcasts.            *)
Interrupt(h) ==
    /\ \E w \in waiting[h] :
         /\ ~w.cancelled
         /\ waiting' = [Woken EXCEPT ![h] = {[w EXCEPT !.woken = TRUE, !.cancelled = TRUE]}]
    /\ UNCHANGED <<lockTable, granted, tracking, lockOwners, lockCalls>>

(* The owners that the release of h will unlock, whichever of the calls in *)
(* progress are recorded first.                                            *)
WillUnlock(h) ==
    {o \in lockOwners[h] \cup {t.owner : t \in tracking[h]} : [owner |-> o, typ |-> "un"] \notin tracking[h]}
(* Release, one owner at a time, and what the last close does.             *)
ReleaseOwner(h) ==
    /\ \E o \in lockOwners[h] :
         /\ lockTable' = FilterInPlace(lockTable, WholeFile(o, "un"))
         /\ granted' = GrantedAfter(WholeFile(o, "un"))
         /\ lockOwners' = [lockOwners EXCEPT ![h] = @ \ {o}]
    /\ waiting' = Woken
    /\ UNCHANGED <<tracking, lockCalls>>
DropAllLocks ==
    /\ lockTable' = <<>>
    /\ granted' = [o \in Owners |-> IF \E h \in Handles : o \in WillUnlock(h) THEN granted[o]
                                   ELSE [b \in ByteSet |-> "none"]]
    /\ waiting' = Woken
    /\ UNCHANGED <<tracking, lockOwners, lockCalls>>

LocksGone ==
    /\ lockTable' = <<>> /\ lockOwners' = [h \in Handles |-> {}]
    /\ waiting' = [h \in Handles |-> {}] /\ tracking' = [h \in Handles |-> {}]
    /\ granted' = [o \in Owners |-> [b \in ByteSet |-> "none"]]
    /\ UNCHANGED lockCalls

-----------------------------------------------------------------------------
(* Properties.                                                             *)

(* LocksExact: whatever was locked, split, downgraded and released, the    *)
(* table holds for each owner exactly the bytes and the kind of lock that  *)
(* it was told it has.                                                     *)
LocksExact ==
    \A o \in Owners, b \in ByteSet :
        {lockTable[i].typ : i \in {i \in DOMAIN lockTable :
                                   lockTable[i].owner = o /\ Covers(lockTable[i], b)}}
            = {granted[o][b]} \ {"none"}

(* LockExclusion: two owners never hold the same byte unless both read.    *)
LockExclusion ==
    \A o, q \in Owners, b \in ByteSet :
        o # q /\ granted[o][b] = "wr" => granted[q][b] = "none"

(* NoLostWakeup: a parked call whose lock could be granted has been woken. *)
NoLostWakeup ==
    \A h \in Handles : \A w \in waiting[h] : Grantable(w.lk) => w.woken

(* LocksDieWithHandle: a lock is always one that the release of some open  *)
(* handle will drop, also while the call that took it, or another one, is  *)
(* still to be recorded: it never survives its last file description.      *)
LocksDieWithHandle ==
    \A i \in DOMAIN lockTable : \E h \in Handles : lockTable[i].owner \in WillUnlock(h)

=============================================================================
