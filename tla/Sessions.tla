------------------------------ MODULE Sessions ------------------------------
(***************************************************************************)
(* Upload sessions: a table of open handles, each with a staging temp, and *)
(* the calls that drive them (storage/sessions_*.go).  A caller is a       *)
(* goroutine serving one request at a time; the three locks are explicit,  *)
(* because getLiveLocked waits for a handle while it holds the table.      *)
(*                                                                         *)
(* Files are an inode per name and a byte sequence per inode.  Other       *)
(* writers of the project (Rival) use the ordinary verbs, which take none  *)
(* of the session locks.  A verb is one step here.                         *)
(***************************************************************************)
EXTENDS Naturals, FiniteSets, Sequences, SequencesExt

CONSTANTS
    Callers, Handles, Names,    \* goroutines, handle ids, file names
    None, Hole, Foreign,        \* no name or inode; a zero byte; a byte of another writer
    Windows,                    \* the races left open, see Open(w)
    Kinds, OpenKinds,           \* the kinds of the open handle, and of further opens
    Cap, TTL,                   \* handles per project, idle time to live
    MaxLen, MaxInode, MaxClock, MaxCalls, MaxEvents  \* bounds

ASSUME SessionsAssumption ==
    /\ {Cap, TTL, MaxLen, MaxInode, MaxClock, MaxCalls, MaxEvents} \subseteq Nat
    /\ Cap > 0 /\ MaxInode > 1 /\ \E m, n \in Names : m # n
    /\ None \notin Names \cup (1..MaxInode) \cup Callers \cup Handles
    /\ None \notin Seq(Handles \cup {Hole, Foreign})
    /\ Windows \subseteq {"resolve", "reapply", "link"}
    /\ OpenKinds \subseteq {"scratch", "create", "append", "truncate", "update"}
    /\ Kinds \subseteq {"scratch", "linked", "create", "append", "truncate", "update", "moved"}

VARIABLES
    clock,      \* coarse time
    live,       \* name -> inode or None: the project's namespace
    data,       \* inode -> bytes; None while the inode does not exist
    session,    \* handle id -> openSession
    table,      \* holder of sh.mu across a wait, or None
    commitMu,   \* holder of the hub's commit mutex, or None
    call,       \* caller -> the request it serves
    calls, events   \* bounds used up

vars == <<clock, live, data, session, table, commitMu, call, calls, events>>
files == <<live, data>>

FirstName == CHOOSE n \in Names : TRUE
OtherName == CHOOSE n \in Names \ {FirstName} : TRUE
FirstHandle == CHOOSE h \in Handles : TRUE
Content == <<Foreign, Foreign>>
Inodes == 1..MaxInode
Offsets == 0..(MaxLen - 1)
Bytes == Seq(Handles \cup {Hole, Foreign})
Open(w) == w \in Windows    \* resolve: names change while a commit waits; reapply, link: changes to an applied stage

(* state: free (id not minted), opening, live (in byID), gone (destroyed). *)
FreeSession ==
    [state |-> "free", append |-> FALSE, path |-> None, pending |-> <<>>, published |-> {},
     pin |-> None, base |-> <<>>, tmp |-> <<>>, staged |-> FALSE, dirty |-> FALSE,
     applied |-> FALSE, created |-> FALSE, full |-> FALSE, tail |-> TRUE, ranges |-> {},
     lastUse |-> 0, mu |-> None, touched |-> FALSE]
Idle == [pc |-> "idle", op |-> "none", h |-> None, now |-> 0, targets |-> <<>>,
         rest |-> <<>>, ret |-> "ok", conflict |-> None]

(* One handle is open already; which kind, the first state chooses: scratch *)
(* linked to both names only while neither exists; "moved" is a handle     *)
(* whose file another writer renamed before a new one took its name.       *)
OpenedAs(kind) ==
    LET s == [FreeSession EXCEPT !.state = "live"]
        pinned == [s EXCEPT !.path = FirstName, !.pin = 1, !.base = Content]
    IN  CASE kind = "scratch" -> s
          [] kind = "linked" -> [s EXCEPT !.pending = <<FirstName, OtherName>>, !.path = FirstName,
                                          !.created = TRUE, !.dirty = TRUE]
          [] kind = "create" -> [s EXCEPT !.path = OtherName, !.created = TRUE, !.dirty = TRUE]
          [] kind = "append" -> [pinned EXCEPT !.append = TRUE]
          [] kind = "truncate" -> [pinned EXCEPT !.staged = TRUE, !.dirty = TRUE, !.full = TRUE, !.tail = FALSE]
          [] kind = "moved" -> [pinned EXCEPT !.touched = TRUE]
          [] OTHER -> pinned

Init ==
    /\ clock = 0
    /\ \E kind \in Kinds :
         /\ session = [h \in Handles |-> IF h = FirstHandle THEN OpenedAs(kind) ELSE FreeSession]
         /\ live = [n \in Names |-> CASE kind = "linked" -> None
                                      [] kind = "moved" -> IF n = FirstName THEN 2 ELSE 1
                                      [] OTHER -> IF n = FirstName THEN 1 ELSE None]
         /\ data = [i \in Inodes |-> CASE kind = "linked" \/ i > 2 -> None
                                       [] i = 2 -> IF kind = "moved" THEN <<Foreign>> ELSE None
                                       [] OTHER -> Content]
    /\ table = None /\ commitMu = None
    /\ call = [c \in Callers |-> Idle]
    /\ calls = 0 /\ events = 0

-----------------------------------------------------------------------------
(* Handles.                                                                *)

View(s) == IF s.staged THEN s.tmp ELSE s.base
Expired(s, now) == now > s.lastUse + TTL
InTable == {h \in Handles : session[h].state = "live"}
Hydrated(s) == [s EXCEPT !.tmp = View(s), !.staged = TRUE]
Destroyed(s) == [FreeSession EXCEPT !.state = "gone"]

(* mutant: the sweep does not try the handle's lock *)
SweepableBusy(h) == session[h].state = "live" /\ Expired(session[h], clock)
(* Busy handles are skipped: their lock cannot be tried.                   *)
Sweepable(h) == session[h].state = "live" /\ session[h].mu = None /\ Expired(session[h], clock)
Sweep == [h \in Handles |-> IF Sweepable(h) THEN Destroyed(session[h]) ELSE session[h]]
Kept == {h \in InTable : ~Sweepable(h)}

(* The request c ends with an answer; its handle lock is given back.       *)
Return(c, ret) == call' = [call EXCEPT ![c] = [Idle EXCEPT !.ret = ret]]
Released(h, s) == [session EXCEPT ![h] = [s EXCEPT !.mu = None]]
Used(h, s) == Released(h, [s EXCEPT !.lastUse = clock])
At(c, where) == call' = [call EXCEPT ![c].pc = where]

(* A change of the files marks every other handle that can see it.         *)
Watched(s) == {s.path} \cup Range(s.pending)
Sees(s, live2, data2) ==
    \/ \E i \in Inodes : /\ data2[i] # data[i]
                         /\ i = s.pin \/ \E n \in Names \cap Watched(s) : live[n] = i
    \/ \E n \in Names : /\ live2[n] # live[n]
                        /\ n \in Watched(s) \/ (s.pin # None /\ s.pin \in {live[n], live2[n]})
Marked(ss, actor, live2, data2) ==
    [h \in Handles |-> IF h # actor /\ Sees(ss[h], live2, data2)
                       THEN [ss[h] EXCEPT !.touched = TRUE] ELSE ss[h]]

-----------------------------------------------------------------------------
(* OpenSession: admission, then the pin without any lock, then insertion   *)
(* with the caps counted again.                                            *)

OpenAdmit(c, h) ==
    /\ call[c].pc = "idle" /\ table = None /\ calls < MaxCalls
    /\ session[h].state = "free"
    /\ h = CHOOSE free \in Handles : session[free].state = "free"
    /\ calls' = calls + 1
    /\ IF Cardinality(Kept) >= Cap
       THEN session' = Sweep /\ Return(c, "failed")
       ELSE /\ session' = [Sweep EXCEPT ![h] = [FreeSession EXCEPT !.state = "opening", !.lastUse = clock]]
            /\ call' = [call EXCEPT ![c] = [Idle EXCEPT !.pc = "pin", !.h = h]]
    /\ UNCHANGED <<clock, files, table, commitMu, events>>

Pinned(s, n) == [s EXCEPT !.path = n, !.pin = live[n], !.base = data[live[n]], !.touched = FALSE]
Created(s, n) == [s EXCEPT !.path = n, !.created = TRUE, !.dirty = TRUE]
PinTarget(s, kind, n) ==
    CASE kind = "scratch" -> s
      [] kind = "create" -> IF live[n] = None THEN Created(s, n) ELSE Pinned(s, n)
      [] kind = "append" -> [Pinned(s, n) EXCEPT !.append = TRUE]
      [] kind = "truncate" -> [Pinned(s, n) EXCEPT !.staged = TRUE, !.dirty = TRUE,
                                                   !.full = TRUE, !.tail = FALSE]
      [] OTHER -> Pinned(s, n)

OpenPin(c) ==
    /\ call[c].pc = "pin"
    /\ LET h == call[c].h IN
       \E kind \in OpenKinds, n \in Names :
         /\ kind \in {"append", "truncate", "update"} => live[n] # None
         /\ kind = "scratch" => n = FirstName
         /\ session' = [session EXCEPT ![h] = PinTarget(session[h], kind, n)]
    /\ At(c, "insert")
    /\ UNCHANGED <<clock, files, table, commitMu, calls, events>>

OpenInsert(c) ==
    /\ call[c].pc = "insert" /\ table = None
    /\ LET h == call[c].h IN
       IF Cardinality(Kept) >= Cap
       THEN session' = [Sweep EXCEPT ![h] = Destroyed(session[h])] /\ Return(c, "failed")
       ELSE session' = [Sweep EXCEPT ![h].state = "live"] /\ Return(c, "ok")
    /\ UNCHANGED <<clock, files, table, commitMu, calls, events>>

-----------------------------------------------------------------------------
(* getLiveLocked: the handle's lock is taken while the table lock is held. *)

Enter(c, h, now, op) ==
    IF session[h].state # "live"
    THEN session' = session /\ Return(c, "failed")
    ELSE IF Expired(session[h], now)
    THEN session' = [session EXCEPT ![h] = Destroyed(session[h])] /\ Return(c, "failed")
    ELSE /\ session' = [session EXCEPT ![h].mu = c]
         /\ call' = [call EXCEPT ![c] = [Idle EXCEPT !.pc = "held", !.op = op, !.h = h]]

Lookup(c, h, op) ==
    /\ call[c].pc = "idle" /\ table = None /\ calls < MaxCalls
    /\ session[h].state = "live"
    /\ calls' = calls + 1
    /\ IF session[h].mu = None
       THEN Enter(c, h, clock, op) /\ table' = None
       ELSE /\ table' = c
            /\ call' = [call EXCEPT ![c] = [Idle EXCEPT !.pc = "await", !.op = op, !.h = h, !.now = clock]]
            /\ UNCHANGED session
    /\ UNCHANGED <<clock, files, commitMu, events>>

AwaitHandle(c) ==
    /\ call[c].pc = "await" /\ session[call[c].h].mu = None
    /\ Enter(c, call[c].h, call[c].now, call[c].op)
    /\ table' = None
    /\ UNCHANGED <<clock, files, commitMu, calls, events>>

-----------------------------------------------------------------------------
(* Data calls, under the handle's lock only.                               *)

Holds(c, op) == call[c].pc = "held" /\ call[c].op = op
Mine(c) == session[call[c].h]
LocalStep(c) ==
    /\ Return(c, "ok")
    /\ UNCHANGED <<clock, files, table, commitMu, calls, events>>

Padded(bytes, size) ==
    [i \in 1..size |-> IF i <= Len(bytes) THEN bytes[i] ELSE Hole]
Spliced(bytes, off, byte) ==
    LET grown == Padded(bytes, IF off < Len(bytes) THEN Len(bytes) ELSE off + 1)
    IN  [grown EXCEPT ![off + 1] = byte]

(* mutant: a write below the end leaves the stage a pure append *)
WriteKeepsTail(s, at, byte) ==
    LET off == IF s.append THEN Len(View(s)) ELSE at
        cur == Len(View(s))
    IN  [Hydrated(s) EXCEPT
            !.tmp = Spliced(View(s), off, byte),
            !.ranges = @ \cup {off} \cup (IF off > cur THEN cur..(off - 1) ELSE {}),
            !.full = @ \/ off > cur,
            !.dirty = TRUE, !.applied = FALSE]
(* WriteSession of one byte: a hole makes the stage a full image.          *)
StagedWrite(s, at, byte) ==
    LET off == IF s.append THEN Len(View(s)) ELSE at
        cur == Len(View(s))
    IN  [Hydrated(s) EXCEPT
            !.tmp = Spliced(View(s), off, byte),
            !.ranges = @ \cup {off} \cup (IF off > cur THEN cur..(off - 1) ELSE {}),
            !.full = @ \/ off > cur,
            !.tail = @ /\ off = cur,
            !.dirty = TRUE, !.applied = FALSE]

Write(c) ==
    /\ Holds(c, "write")
    /\ LET s == Mine(c) IN
       \E at \in {0, Len(View(s)), Len(View(s)) + 1} \cap Offsets :
         LET staged == StagedWrite(s, at, call[c].h) IN
         /\ Len(staged.tmp) <= MaxLen
         /\ Open("reapply") \/ ~s.applied
         /\ session' = Used(call[c].h, staged)
    /\ LocalStep(c)

Truncate(c) ==
    /\ Holds(c, "truncate")
    /\ LET s == Mine(c) IN
       \E size \in {0, Len(View(s)), Len(View(s)) + 1} \cap 0..MaxLen :
         /\ Open("reapply") \/ ~s.applied
         /\ session' = Used(call[c].h,
              IF size = Len(View(s)) THEN s
              ELSE [Hydrated(s) EXCEPT !.tmp = Padded(View(s), size), !.full = TRUE, !.tail = FALSE,
                                       !.dirty = TRUE, !.applied = FALSE])
    /\ LocalStep(c)

(* ReadSession and StatSession only refresh the handle, and so does a call *)
(* a data call may turn into when it is refused above.                     *)
Touch(c) ==
    /\ call[c].pc = "held" /\ call[c].op \in {"write", "truncate", "link", "relink"}
    /\ session' = Used(call[c].h, Mine(c))
    /\ LocalStep(c)

LinkSession(c) ==
    /\ Holds(c, "link")
    /\ LET s == Mine(c) IN
       /\ s.path = None \/ s.pending # <<>>
       /\ \E n \in Names \ Range(s.pending) :
            /\ live[n] = None
            /\ Open("link") \/ (~s.applied /\ s.pin = None)
            /\ session' = Used(call[c].h,
                 [s EXCEPT !.pending = Append(@, n), !.path = Append(s.pending, n)[1],
                           !.created = TRUE, !.dirty = TRUE])
    /\ LocalStep(c)

RelinkSession(c) ==
    /\ Holds(c, "relink")
    /\ \E n \in Names :
         /\ live[n] = None
         /\ session' = Used(call[c].h,
              [Mine(c) EXCEPT !.pending = <<n>>, !.path = n, !.created = TRUE, !.dirty = TRUE,
                              !.applied = FALSE, !.published = {}])
    /\ LocalStep(c)

-----------------------------------------------------------------------------
(* Commit.                                                                 *)

NamesOf(pin) == {n \in Names : live[n] = pin}
(* mutant: the open path, whatever lives there now *)
OpenPath(s) == IF live[s.path] = None THEN None ELSE s.path
(* The open path while it names the pinned inode, else a surviving name.   *)
CommitPath(s) ==
    IF s.created \/ live[s.path] = s.pin THEN s.path
    ELSE IF NamesOf(s.pin) # {} THEN CHOOSE n \in NamesOf(s.pin) : TRUE
    ELSE None
CommitTargets(s) == IF s.pending # <<>> THEN s.pending ELSE <<CommitPath(s)>>

Committing(c) == call[c].pc = "held" /\ call[c].op \in {"sync", "close"}
(* mutant: the table is taken with the handle still locked *)
DropLocked(c) == At(c, "reap") /\ UNCHANGED session
Drop(c) ==      \* discardSession lets go of the handle before it takes the table
    /\ session' = [session EXCEPT ![call[c].h].mu = None]
    /\ At(c, "reap")

CommitNothing(c) ==
    /\ \/ Committing(c) /\ (~Mine(c).dirty \/ (call[c].op = "close" /\ Mine(c).path = None)
                            \/ (Mine(c).path # None /\ CommitTargets(Mine(c)) = <<None>>))
       \/ Holds(c, "discard")
    /\ IF call[c].op = "sync"
       THEN session' = Used(call[c].h, Mine(c)) /\ Return(c, "ok")
       ELSE Drop(c)
    /\ UNCHANGED <<clock, files, table, commitMu, calls, events>>

SyncUnlinked(c) ==
    /\ Holds(c, "sync") /\ Mine(c).dirty /\ Mine(c).path = None
    /\ session' = Released(call[c].h, Mine(c))
    /\ Return(c, "failed")
    /\ UNCHANGED <<clock, files, table, commitMu, calls, events>>

(* The target is resolved before the commit mutex is waited for.           *)
CommitResolve(c) ==
    /\ Committing(c) /\ Mine(c).dirty /\ Mine(c).path # None
    /\ CommitTargets(Mine(c)) # <<None>>
    /\ session' = [session EXCEPT ![call[c].h] = Hydrated(Mine(c))]
    /\ call' = [call EXCEPT ![c].pc = "commit", ![c].targets = CommitTargets(Mine(c))]
    /\ UNCHANGED <<clock, files, table, commitMu, calls, events>>

(* A commit that fails keeps the handle and its staged state.              *)
Fail(c, s, inode) ==
    /\ session' = Released(call[c].h, s)
    /\ call' = [call EXCEPT ![c] = [Idle EXCEPT !.ret = "failed", !.h = call[c].h, !.conflict = inode]]
    /\ commitMu' = None

(* All pending names of a creation are checked before the first is made.   *)
Unpublished(s, targets) == {n \in Range(targets) : n \notin s.published}
Taken(s, targets) ==
    IF s.created /\ s.pending # <<>> THEN {n \in Unpublished(s, targets) : live[n] # None} ELSE {}

CommitLock(c) ==
    /\ call[c].pc = "commit" /\ commitMu = None
    /\ LET s == Mine(c)
           taken == Taken(s, call[c].targets)
       IN  IF taken # {}
           THEN \E n \in taken : Fail(c, s, live[n])
           ELSE /\ commitMu' = c
                /\ call' = [call EXCEPT ![c].pc = IF s.applied THEN "drain" ELSE "verbs",
                                        ![c].rest = call[c].targets]
                /\ UNCHANGED session
    /\ UNCHANGED <<clock, files, table, calls, events>>

(* The edits of the merged ranges, against pinned coordinates: overlapped  *)
(* bytes are replaced, the extension is inserted at the old end.           *)
Shorter(m, n) == IF m <= n THEN m ELSE n
Patched(s, bytes) ==
    [i \in 1..Shorter(Len(s.base), Len(bytes)) |-> IF i - 1 \in s.ranges THEN s.tmp[i] ELSE bytes[i]]
        \o SubSeq(s.tmp, Len(s.base) + 1, Len(s.tmp))
        \o SubSeq(bytes, Len(s.base) + 1, Len(bytes))
AppendsTail(s) == s.tail /\ Len(s.tmp) > Len(s.base)
(* mutant: every lane publishes the staged image *)
WholeImage(s, bytes) == s.tmp
Image(s, bytes) ==
    CASE s.full -> s.tmp
      [] ~s.full /\ AppendsTail(s) -> bytes \o SubSeq(s.tmp, Len(s.base) + 1, Len(s.tmp))
      [] OTHER -> Patched(s, bytes)
(* An edit that ends past the live file is refused: one of old bytes ends   *)
(* with its last old byte, one that extends starts no earlier than the old  *)
(* end.                                                                     *)
EditsFit(s, bytes) ==
    \/ s.full \/ AppendsTail(s)
    \/ /\ \A off \in s.ranges : off < Len(s.base) => off < Len(bytes)
       /\ Len(s.tmp) > Len(s.base) => Len(s.base) <= Len(bytes)

MakesFile(s, n) == IF s.pending # <<>> THEN n \notin s.published /\ s.created ELSE s.created
Minted == CHOOSE i \in Inodes : data[i] = None
CanMint == \E i \in Inodes : data[i] = None

(* The verb of one target, as the handle's shape selects it.  The fan-out   *)
(* of a linked handle goes by the names it read under commitMu: unless the  *)
(* window "resolve" is open they have not changed since.                    *)
VerbRefused(s, n) ==
    \/ MakesFile(s, n) /\ live[n] # None                                \* AlreadyExists
    \/ ~MakesFile(s, n) /\ s.pending = <<>> /\ live[n] = None           \* NotFound
    \/ s.pending = <<>> /\ ~s.created /\ live[n] # None /\ ~EditsFit(s, data[live[n]])

VerbStep(c) ==
    /\ call[c].pc = "verbs" /\ call[c].rest # <<>>
    /\ LET h == call[c].h
           s == Mine(c)
           n == Head(call[c].rest)
           last == Len(call[c].rest) = 1
           done == [s EXCEPT !.published = IF s.pending # <<>> /\ s.created THEN @ \cup {n} ELSE @,
                             !.applied = last]
           advance == call' = [call EXCEPT ![c].rest = Tail(@), ![c].pc = IF last THEN "drain" ELSE "verbs"]
       IN  \/ /\ VerbRefused(s, n)
              /\ Fail(c, s, IF MakesFile(s, n) THEN live[n] ELSE None)
              /\ UNCHANGED files
           \/ /\ ~VerbRefused(s, n) /\ live[n] = None /\ CanMint
              /\ live' = [live EXCEPT ![n] = Minted]
              /\ data' = [data EXCEPT ![Minted] = s.tmp]
              /\ session' = Marked([session EXCEPT ![h] = done], h, live', data')
              /\ advance
              /\ UNCHANGED commitMu
           \/ /\ ~VerbRefused(s, n) /\ live[n] # None
              /\ data' = [data EXCEPT ![live[n]] = IF s.pending # <<>> THEN s.tmp ELSE Image(s, @)]
              /\ session' = Marked([session EXCEPT ![h] = done], h, live, data')
              /\ advance
              /\ UNCHANGED <<live, commitMu>>
    /\ UNCHANGED <<clock, table, calls, events>>

(* Any step of a commit that talks to the backend may fail: the permission *)
(* recheck, an upload, the drain.                                          *)
CommitFault(c) ==
    /\ call[c].pc \in {"verbs", "drain"} /\ events < MaxEvents
    /\ Fail(c, Mine(c), None)
    /\ events' = events + 1
    /\ UNCHANGED <<clock, files, table, calls>>

Drain(c) ==
    /\ call[c].pc = "drain"
    /\ commitMu' = None
    /\ IF call[c].op = "sync" THEN At(c, "repin") /\ UNCHANGED session ELSE Drop(c)
    /\ UNCHANGED <<clock, files, table, calls, events>>

(* Repin to what is live now at the path the commit went to.               *)
Repin(c) ==
    /\ call[c].pc = "repin"
    /\ LET s == Mine(c)
           n == Head(call[c].targets)
       IN  IF live[n] = None
           THEN session' = Released(call[c].h, s) /\ Return(c, "failed")
           ELSE /\ session' = Used(call[c].h,
                     [s EXCEPT !.pin = live[n], !.path = n, !.base = data[live[n]], !.tmp = <<>>,
                               !.staged = FALSE, !.dirty = FALSE, !.applied = FALSE, !.created = FALSE,
                               !.published = {}, !.full = FALSE, !.tail = TRUE, !.ranges = {},
                               !.touched = FALSE])
                /\ Return(c, "ok")
    /\ UNCHANGED <<clock, files, table, commitMu, calls, events>>

(* destroySession: the table lock, then the handle's again.  A handle that *)
(* a sweep took in between was committed already: success.                 *)
ReapAnswer(s) == IF s.state = "gone" THEN "ok" ELSE "failed"
Reap(c) ==
    /\ \/ call[c].pc = "reap" /\ table = None
       \/ call[c].pc = "rewait"
    /\ LET h == call[c].h IN
       IF session[h].state = "live" /\ session[h].mu # None
       THEN call[c].pc = "reap" /\ table' = c /\ At(c, "rewait") /\ UNCHANGED session
       ELSE /\ session' = [session EXCEPT ![h] = Destroyed(@)]
            /\ Return(c, IF session[h].state = "live" THEN "ok" ELSE ReapAnswer(session[h]))
            /\ table' = None
    /\ UNCHANGED <<clock, files, commitMu, calls, events>>

-----------------------------------------------------------------------------
(* The rest of the world.                                                  *)

Waits(n) == \E c \in Callers : call[c].pc \in {"commit", "verbs"} /\ n \in Range(call[c].targets)

Rival ==
    /\ events < MaxEvents /\ events' = events + 1
    /\ \E n \in Names :
         \/ /\ live[n] # None                                           \* overwrite
            /\ data' = [data EXCEPT ![live[n]] = Spliced(@, 0, Foreign)]
            /\ UNCHANGED live
         \/ /\ live[n] # None /\ Len(data[live[n]]) < MaxLen            \* append
            /\ data' = [data EXCEPT ![live[n]] = Append(@, Foreign)]
            /\ UNCHANGED live
         \/ /\ live[n] # None /\ data[live[n]] # <<>>                     \* truncate
            /\ data' = [data EXCEPT ![live[n]] = Front(@)]
            /\ UNCHANGED live
         \/ /\ live[n] # None /\ (Open("resolve") \/ ~Waits(n))         \* unlink
            /\ live' = [live EXCEPT ![n] = None]
            /\ UNCHANGED data
         \/ /\ live[n] # None /\ (Open("resolve") \/ ~Waits(n))         \* rename
            /\ \E m \in Names : /\ live[m] = None /\ (Open("resolve") \/ ~Waits(m))
                                /\ live' = [live EXCEPT ![n] = None, ![m] = live[n]]
            /\ UNCHANGED data
         \/ /\ live[n] = None /\ CanMint /\ (Open("resolve") \/ ~Waits(n))   \* create
            /\ live' = [live EXCEPT ![n] = Minted]
            /\ data' = [data EXCEPT ![Minted] = <<Foreign>>]
    /\ session' = Marked(session, None, live', data')
    /\ UNCHANGED <<clock, table, commitMu, call, calls>>

Tick ==
    /\ clock < MaxClock /\ clock' = clock + 1
    /\ events < MaxEvents /\ events' = events + 1
    /\ UNCHANGED <<files, session, table, commitMu, call, calls>>

Request(c) ==
    \/ \E h \in Handles : OpenAdmit(c, h)
    \/ \E h \in Handles, op \in {"write", "truncate", "link", "relink", "sync", "close", "discard"} :
         Lookup(c, h, op)
Serve(c) ==
    \/ OpenPin(c) \/ OpenInsert(c) \/ AwaitHandle(c)
    \/ Write(c) \/ Truncate(c) \/ Touch(c) \/ LinkSession(c) \/ RelinkSession(c)
    \/ CommitNothing(c) \/ SyncUnlinked(c) \/ CommitResolve(c) \/ CommitLock(c)
    \/ VerbStep(c) \/ CommitFault(c) \/ Drain(c) \/ Repin(c) \/ Reap(c)
Step(c) == Request(c) \/ Serve(c)
Next == (\E c \in Callers : Step(c)) \/ Rival \/ Tick

Spec == Init /\ [][Next]_vars /\ \A c \in Callers : WF_vars(Serve(c))
-----------------------------------------------------------------------------
(* Properties.                                                             *)

SessionRecord ==
    [state : {"free", "opening", "live", "gone"}, append : BOOLEAN, path : Names \cup {None},
     pending : Seq(Names), published : SUBSET Names, pin : Inodes \cup {None}, base : Bytes,
     tmp : Bytes, staged : BOOLEAN, dirty : BOOLEAN, applied : BOOLEAN, created : BOOLEAN,
     full : BOOLEAN, tail : BOOLEAN, ranges : SUBSET Offsets, lastUse : 0..MaxClock,
     mu : Callers \cup {None}, touched : BOOLEAN]

(* Every variable keeps its type; only a dirty handle is applied, only a   *)
(* staged one has bytes of its own, and path mirrors the first pending     *)
(* name (sessions_core.go:322-332).                                        *)
TypeOK ==
    /\ live \in [Names -> Inodes \cup {None}]
    /\ data \in [Inodes -> Bytes \cup {None}]
    /\ \A n \in Names : live[n] # None => data[live[n]] # None
    /\ session \in [Handles -> SessionRecord]
    /\ \A h \in Handles : LET s == session[h] IN
         /\ s.applied => s.dirty
         /\ ~s.staged => s.tmp = <<>>
         /\ s.pending # <<>> => s.path = s.pending[1]
    /\ {table, commitMu} \subseteq Callers \cup {None}

(* The handle caps hold although the table is unlocked while an open pins  *)
(* its target (OpenSession counts twice).                                  *)
CapRespected == Cardinality(InTable) <= Cap

(* A handle that a call is working on is never swept or destroyed under    *)
(* it, however long its commit takes.                                      *)
InUseIsLive ==
    \A c \in Callers :
        call[c].pc \in {"held", "commit", "verbs", "drain", "repin"} =>
            /\ session[call[c].h].state = "live"
            /\ session[call[c].h].mu = c

(* When the verbs of a commit are done, every target holds the bytes the   *)
(* handle shows its owner, whichever lane published them and however often *)
(* the drain failed, unless another writer touched the file meanwhile.     *)
CommitLands ==
    \A c \in Callers : call[c].pc = "drain" =>
        LET s == Mine(c) IN
        s.touched \/ \A n \in Range(call[c].targets) : live[n] # None /\ data[live[n]] = View(s)

(* A commit is refused because a name exists only if another writer has    *)
(* been at the handle's files: never for a name the handle made itself, as *)
(* in a fan-out that was interrupted (commitLinkedSessionLocked).          *)
NoSelfConflict ==
    [][\A c \in Callers : call'[c] # call[c] /\ call'[c].conflict # None =>
         Mine(c).touched]_vars

(* A handle opened on a file publishes to that inode alone: after a rename *)
(* and a new file under the old name, the stranger is left alone           *)
(* (resolveCommitPathLocked).                                              *)
PublishesItself(c) == call[c].pc = "verbs" /\ call'[c].pc = "drain" /\ Mine(c).pending = <<>>
StrangersSafe ==
    [][\A c \in Callers : PublishesItself(c) /\ ~Mine(c).created =>
         \A i \in Inodes : data'[i] # data[i] => i = Mine(c).pin]_vars

(* Bytes another writer put into the file since it was opened survive the  *)
(* commit of a handle that did not write over them, at their place or      *)
(* behind what the handle appended.                                        *)
NoLostUpdate ==
    [][\A c \in Callers : PublishesItself(c) /\ ~Mine(c).created /\ ~Mine(c).full =>
         LET i == Mine(c).pin
             grown == Len(data'[i]) - Len(data[i])
         IN  \A k \in 1..Len(data[i]) : k - 1 \notin Mine(c).ranges \/ k > Len(Mine(c).base) =>
               data[i][k] \in {data'[i][k], data'[i][k + grown]}]_vars

(* A close whose commit is durable never answers that the handle is stale, *)
(* even if a sweep reaps it while it changes locks (destroySession).       *)
DurableCloseOk ==
    [][\A c \in Callers : call[c].pc \in {"reap", "rewait"} /\ call'[c].pc = "idle" =>
         call'[c].ret = "ok"]_vars

(* No set of calls wait for each other: whatever locks they hold, one of   *)
(* the requests in progress can go on.                                     *)
NoCallsDeadlock ==
    (\E c \in Callers : call[c].pc # "idle") => ENABLED \E c \in Callers : Serve(c)

(* The table and its handles are sound while calls work on them and sweeps *)
(* pass (sessions_core.go).                                                *)
HandlesSound == TypeOK /\ CapRespected /\ InUseIsLive

(* What a call does to the files of others, and what it tells its caller   *)
(* (resolveCommitPathLocked, buildRewrittenChunks, destroySession).        *)
CallsFaithful == StrangersSafe /\ NoLostUpdate /\ NoSelfConflict /\ DurableCloseOk

=============================================================================
