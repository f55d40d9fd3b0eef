----------------------------- MODULE FuseWrite -----------------------------
(***************************************************************************)
(* One file of a mount under its open handles: the shared write overlay,   *)
(* the commit of a flush or a release in its steps, the directory          *)
(* operations that move or remove its names meanwhile, quarantine, the end *)
(* of the process and the redrive of the next mount (package fusefs).      *)
(*                                                                         *)
(* `app` is a history variable: the bytes and the mode the applications    *)
(* gave the file and have not been told are lost.                          *)
(***************************************************************************)
EXTENDS Overlay, FuseLocks

CONSTANTS
    Names,          \* directory entries; "" is no path
    Scenarios,      \* set of [ns, stored, left]: name -> "none"/"file"/"stranger", file ->
                    \* content, and bounds [data, open, dir, fault, down, rival, locks] with calm = TRUE
    Writes, Sizes   \* the <<offset, length>> pairs and the sizes that are tried

ASSUME FuseAssumption ==
    /\ "" \notin Names /\ "" \notin Handles /\ IsFiniteSet(Handles)
    /\ \A i \in Scenarios :
          /\ i.ns \in [Names -> {"none", "file", "stranger"}] /\ i.stored \in [{"file", "stranger"} -> Seq(Int)]
          /\ i.left \in [data : Nat, open : Nat, dir : Nat, fault : Nat, down : Nat, rival : Nat,
                         locks : Nat, calm : {TRUE}]
    /\ \A w \in Writes : w \in Nat \X Nat
    /\ Sizes \subseteq Nat

VARIABLES
    ns, stored, stamp, mode,        \* the project: names; content, ctime and mode of a file
    states, current,                \* write states by slot; the slot in writeStates, or 0
    handle, dir,                    \* handles; the one namespace operation in progress
    tracked,                        \* inodePaths of the file
    recovery, mounted,              \* quarantined overlays; the mount serves calls
    app, left                       \* see above; what is left of the budget

storeVars == <<ns, stored, stamp, mode>>
fileVars == <<ns, stored, stamp, mode, states, current, handle, dir, tracked, recovery, mounted, app, left>>

(* The windows: "regrow" (truncate to nothing, then grow), "tail" (rewrite *)
(* of a chunk an append shares with stored bytes), "pages" (append longer  *)
(* than a page), "snapshot" (patch under a base snapshot), "partial" (size *)
(* set back after a patch whose truncate failed), "closetwice",            *)
(* "materialize" (open of a state still being made), "hardlink" (open by   *)
(* another name), "join" (open of a state being quarantined), "late" (open *)
(* or truncate between the snapshot and the removal), "rename" (rename     *)
(* over a name being committed), "shrink" (redrive of ranges whose file    *)
(* shrank or grew), "takeover" (quarantine under a name that a rename gave *)
(* to another file), "lastclose" (lock between the last close and its      *)
(* cleanup).  FuseLocks has more.                                          *)

Files == {"file", "stranger"}
Slots == 1..(Cardinality(Handles) + 1)
Rest == [pc |-> "closed", path |-> "", slot |-> 0, cpath |-> "", verb |-> NoVerb, cpend |-> 0,
         why |-> "", failed |-> FALSE, full |-> FALSE, stamp |-> -1]
Free == [Overlay("", 0) EXCEPT !.refs = 0]
NoDir == [pc |-> "idle", kind |-> "", src |-> "", dst |-> "", rest |-> ""]

FileInit ==
    \E i \in Scenarios :
        /\ ns = i.ns /\ stored = i.stored /\ app = [bytes |-> i.stored["file"], mode |-> 0]
        /\ tracked = {n \in Names : i.ns[n] = "file"}
        /\ left = i.left
        /\ stamp = [f \in Files |-> 0] /\ mode = [f \in Files |-> 0]
        /\ states = [s \in Slots |-> Free] /\ current = 0
        /\ handle = [h \in Handles |-> Rest] /\ dir = NoDir
        /\ recovery = {} /\ mounted = TRUE
        /\ LocksInit(MaxLockCalls - i.left.locks)

State(h) == states[handle[h].slot]
Linked == \E n \in Names : ns[n] = "file"
Reached(p) == IF p = "" THEN "none" ELSE ns[p]
Content(p) == IF Reached(p) = "none" THEN <<>> ELSE stored[Reached(p)]
(* The fingerprint of what is at a path now: inode, size and times.        *)
Fingerprint(p) ==
    IF Reached(p) = "none" THEN -1 ELSE IF Reached(p) = "file" THEN stamp["file"] ELSE -2 - stamp["stranger"]
Landed == [bytes |-> stored["file"], mode |-> mode["file"]]
Spend(k) ==
    left[k] > 0 /\ left' = [left EXCEPT ![k] = @ - 1, !.calm = @ /\ k \in {"data", "open"}]
Bump(f) == stamp' = [stamp EXCEPT ![f] = @ + 1]
(* The namespace process is between the rename and its bookkeeping.        *)
Renaming == dir.kind = "rename" /\ dir.pc \in {"handles", "states"}
Committing == current # 0 /\ states[current].held # ""
Sending == \E h \in Handles : handle[h].pc \in {"verb", "trim", "finish"}
Quiet == Racing("rename") \/ ~Renaming

-----------------------------------------------------------------------------
(* Open: Open, newHandle, acquireWriteState, materialize.                  *)

Open(h, trunc) ==
    /\ mounted /\ handle[h].pc = "closed" /\ Quiet
    /\ Racing("late") \/ dir.pc # "hub"
    /\ Spend("open")
    /\ \E p \in tracked :
         /\ ns[p] = "file"
         /\ IF current # 0
            THEN /\ Racing("materialize") \/ states[current].made
                 /\ Racing("hardlink") \/ states[current].path = p
                 /\ Racing("join") \/ ~states[current].closed
                 /\ states' = [states EXCEPT ![current].refs = @ + 1]
                 /\ handle' = [handle EXCEPT ![h] =
                        [Rest EXCEPT !.pc = IF trunc THEN "trunc" ELSE "open", !.path = p, !.slot = current]]
                 /\ UNCHANGED current
            ELSE \E s \in Slots :
                 /\ states[s] = Free /\ \A t \in Slots : states[t] = Free => s <= t
                 /\ states' = [states EXCEPT ![s] = Overlay(p, 0)] /\ current' = s
                 /\ handle' = [handle EXCEPT ![h] =
                        [Rest EXCEPT !.pc = "making", !.path = p, !.slot = s,
                                     !.why = IF trunc THEN "trunc" ELSE "open"]]
    /\ UNCHANGED <<lockVars, storeVars, dir, tracked, recovery, mounted, app>>

(* The stat of materialize answers, or fails and undoes the open.          *)
Materialize(h) ==
    /\ handle[h].pc = "making"
    /\ LET s == handle[h].slot
           found == Reached(states[s].path) # "none"
           size == Len(Content(states[s].path))
       IN  \/ /\ found
              /\ states' = [states EXCEPT ![s] =
                    [WithSize(states[s], size) EXCEPT !.made = TRUE, !.base = size]]
              /\ handle' = [handle EXCEPT ![h].pc = handle[h].why]
              /\ UNCHANGED <<current, left>>
           \/ /\ IF found THEN Spend("fault") ELSE UNCHANGED left
              /\ states' = [states EXCEPT ![s] = IF @.refs = 1 THEN Free ELSE [@ EXCEPT !.closed = TRUE]]
              /\ current' = IF current = s THEN 0 ELSE current
              /\ handle' = [handle EXCEPT ![h] = Rest]
    /\ UNCHANGED <<lockVars, storeVars, dir, tracked, recovery, mounted, app>>

(* mutant: O_TRUNC is applied without waiting for the commit in flight *)
TruncateAtOnce(h) ==
    /\ handle[h].pc = "trunc" /\ State(h).made
    /\ states' = [states EXCEPT ![handle[h].slot] = IF @.poisoned THEN @ ELSE Resized(@, 0)]
    /\ app' = IF State(h).poisoned THEN app ELSE [app EXCEPT !.bytes = <<>>]
    /\ handle' = [handle EXCEPT ![h].pc = "open"]
    /\ UNCHANGED <<lockVars, storeVars, current, dir, tracked, recovery, mounted, left>>
(* O_TRUNC goes through the overlay.                                       *)
TruncateOpen(h) ==
    /\ handle[h].pc = "trunc" /\ State(h).held = ""
    /\ Racing("late") \/ dir.pc # "hub"
    /\ states' = [states EXCEPT ![handle[h].slot] = IF @.poisoned THEN @ ELSE Resized(@, 0)]
    /\ app' = IF State(h).poisoned THEN app ELSE [app EXCEPT !.bytes = <<>>]
    /\ handle' = [handle EXCEPT ![h].pc = "open"]
    /\ UNCHANGED <<lockVars, storeVars, current, dir, tracked, recovery, mounted, left>>

-----------------------------------------------------------------------------
(* Data calls.  They wait for opMu and refuse a poisoned state.            *)

Serving(h) == handle[h].pc = "open" /\ State(h).held = "" /\ ~State(h).poisoned /\ Quiet
Change(h, w, wish) ==
    /\ Racing("partial") \/ ~(w.half /\ w.size = w.base)
    /\ Spend("data")
    /\ states' = [states EXCEPT ![handle[h].slot] = w]
    /\ app' = wish
    /\ UNCHANGED <<lockVars, storeVars, current, handle, dir, tracked, recovery, mounted>>

(* A write carries the number of calls left as its bytes.                  *)
Write(h, off, len) ==
    /\ Serving(h)
    /\ LET data == [i \in 1..len |-> left.data]
       IN  Change(h, Written(State(h), Content(State(h).path), off, data), [app EXCEPT !.bytes = WriteAt(@, off, data)])

Regrows(w, n) == n > w.size /\ w.auth
SetSize(h, n) ==
    /\ Serving(h) /\ n # State(h).size
    /\ Racing("late") \/ n > 0 \/ dir.pc # "hub"
    /\ Racing("regrow") \/ ~Regrows(State(h), n)
    /\ Change(h, Resized(State(h), n), [app EXCEPT !.bytes = Resize(@, n)])
Allocate(h, end) ==
    /\ Serving(h) /\ end > State(h).size
    /\ Change(h, Allocated(State(h), end), [app EXCEPT !.bytes = Resize(@, end)])
(* Setattr of the mode is staged with the data.                            *)
StageMode(h) ==
    /\ Serving(h) /\ State(h).pending = 0
    /\ Change(h, [State(h) EXCEPT !.pending = left.data], [app EXCEPT !.mode = left.data])

-----------------------------------------------------------------------------
(* Commit of a flush, an fsync or a release, opMu held throughout.         *)

Return(h, failed) ==
    [handle EXCEPT ![h].pc = IF handle[h].why = "release" THEN "unlock" ELSE "open", ![h].why = "",
                   ![h].failed = failed, ![h].verb = NoVerb, ![h].cpath = "", ![h].cpend = 0]
Unhold(s) == [s EXCEPT !.held = ""]

(* An append into the stored last chunk, which nothing else touches.       *)
Torn(w) ==
    LET tail == {b \in w.dirty : b \div ChunkSize = (w.base - 1) \div ChunkSize}
    IN  ShouldChunkRewrite(w) /\ tail # {} /\ \A b \in tail : b >= w.base
Sent(w) == Plan(w, Content(w.path))
Refused(w) == Sent(w).kind = "patch" /\ \E r \in Ranges(w.dirty) : \E p \in Pages(r) : p > w.base
Known(w) ==
    /\ Racing("tail") \/ ~Torn(w)
    /\ Racing("pages") \/ ~Refused(w)
    /\ Racing("snapshot") \/ ~(w.hasSnap /\ Sent(w).kind = "patch")

CommitStart(h, why) ==
    /\ handle[h].pc = "open" /\ State(h).held = "" /\ Quiet
    /\ LET w == State(h)
           nothing == ~Uncommitted(w) \/ w.deleted \/ handle[h].path = ""
       IN  IF w.poisoned \/ nothing
           THEN /\ why = "release"
                /\ handle' = [handle EXCEPT ![h].pc = "unlock", ![h].failed = w.poisoned]
                /\ UNCHANGED states
           ELSE /\ Known(w)
                /\ handle' = [handle EXCEPT ![h].pc = "check", ![h].why = why, ![h].failed = FALSE,
                                            ![h].cpath = handle[h].path]
                /\ states' = [states EXCEPT ![handle[h].slot].held = h]
    /\ UNCHANGED <<lockVars, storeVars, current, dir, tracked, recovery, mounted, app, left>>

Fail(h) ==
    /\ handle' = Return(h, TRUE)
    /\ states' = [states EXCEPT ![handle[h].slot] = Unhold(@)]

(* mutant: the paths are not compared again after the access check *)
PlanUnchecked(h) ==
    /\ handle[h].pc = "check"
    /\ Racing("rename") \/ ~(dir.kind = "rename" /\ dir.pc = "handles")
    /\ LET w == State(h)
           v == Sent(w)
           short == v.kind \in {"rewrite", "replace"} /\ ~WholeImage(w) /\ ~Readable(w, Content(w.path))
       IN  IF w.poisoned \/ short
           THEN /\ handle' = Return(h, TRUE)
                /\ states' = [states EXCEPT ![handle[h].slot] = Unhold(@)]
           ELSE /\ handle' = [handle EXCEPT ![h].pc = IF v.kind = "none" THEN "finish" ELSE "verb",
                                            ![h].verb = v, ![h].cpend = w.pending]
                /\ UNCHANGED states
    /\ UNCHANGED <<lockVars, storeVars, current, dir, tracked, recovery, mounted, app, left>>

(* The access check ran without ws.mu: what it was read from is read again.*)
CommitPlan(h) ==
    /\ handle[h].pc = "check"
    /\ Racing("rename") \/ ~(dir.kind = "rename" /\ dir.pc = "handles")
    /\ LET w == State(h)
           v == Sent(w)
           gone == w.deleted \/ handle[h].path = "" \/ w.path = ""
           moved == handle[h].path # handle[h].cpath \/ w.path # handle[h].cpath
           short == v.kind \in {"rewrite", "replace"} /\ ~WholeImage(w) /\ ~Readable(w, Content(w.path))
       IN  IF w.poisoned \/ gone \/ moved \/ short
           THEN /\ handle' = Return(h, w.poisoned \/ ~gone)
                /\ states' = [states EXCEPT ![handle[h].slot] = Unhold(@)]
           ELSE /\ handle' = [handle EXCEPT ![h].pc = IF v.kind = "none" THEN "finish" ELSE "verb",
                                            ![h].verb = v, ![h].cpend = w.pending]
                /\ UNCHANGED states
    /\ UNCHANGED <<lockVars, storeVars, current, dir, tracked, recovery, mounted, app, left>>

(* The verb lands whole or fails, and so does the truncate of a patch.     *)
CommitVerb(h) ==
    /\ handle[h].pc = "verb"
    /\ LET f == Reached(handle[h].cpath)
           v == handle[h].verb
       IN  \/ /\ f # "none" /\ Accepted(stored[f], v)
              /\ stored' = [stored EXCEPT ![f] = Applied(@, v)] /\ Bump(f)
              /\ handle' = [handle EXCEPT ![h].pc = IF v.trim THEN "trim" ELSE "finish"]
              /\ UNCHANGED <<states, left>>
           \/ /\ IF f # "none" /\ Accepted(stored[f], v) THEN Spend("fault") ELSE UNCHANGED left
              /\ Fail(h)
              /\ UNCHANGED <<stored, stamp>>
    /\ UNCHANGED <<lockVars, ns, mode, current, dir, tracked, recovery, mounted, app>>
CommitTrim(h) ==
    /\ handle[h].pc = "trim"
    /\ LET f == Reached(handle[h].cpath)
       IN  \/ /\ f # "none"
              /\ stored' = [stored EXCEPT ![f] = Resize(@, handle[h].verb.size)] /\ Bump(f)
              /\ handle' = [handle EXCEPT ![h].pc = "finish"]
              /\ UNCHANGED <<states, left>>
           \/ /\ IF f # "none" THEN Spend("fault") ELSE UNCHANGED left
              /\ handle' = Return(h, TRUE)
              /\ states' = [states EXCEPT ![handle[h].slot] = [Unhold(@) EXCEPT !.half = TRUE]]
              /\ UNCHANGED <<stored, stamp>>
    /\ UNCHANGED <<lockVars, ns, mode, current, dir, tracked, recovery, mounted, app>>

(* A bare truncate is clean once its metadata landed, the others before.   *)
Settled(w, v, landed) ==
    LET done == IF v.kind \in {"truncate", "none"} /\ ~landed THEN w ELSE Refreshed(w, v)
    IN  [done EXCEPT !.held = "", !.pending = IF landed THEN 0 ELSE @]
CommitFinish(h) ==
    /\ handle[h].pc = "finish"
    /\ LET w == State(h)
           v == handle[h].verb
           f == Reached(handle[h].cpath)
       IN  IF v.kind = "patch" /\ w.poisoned
           THEN Fail(h) /\ UNCHANGED <<mode, stamp, left>>
           ELSE \E landed \in BOOLEAN :
                  /\ IF handle[h].cpend = 0 THEN landed /\ UNCHANGED <<mode, stamp, left>>
                     ELSE IF landed THEN /\ f # "none" /\ Bump(f) /\ UNCHANGED left
                                         /\ mode' = [mode EXCEPT ![f] = handle[h].cpend]
                     ELSE /\ IF f # "none" THEN Spend("fault") ELSE UNCHANGED left
                          /\ UNCHANGED <<mode, stamp>>
                  /\ states' = [states EXCEPT ![handle[h].slot] = Settled(w, v, landed)]
                  /\ handle' = Return(h, ~landed)
    /\ UNCHANGED <<lockVars, ns, stored, current, dir, tracked, recovery, mounted, app>>

-----------------------------------------------------------------------------
(* Release: unlock, quarantine what could not be committed, drop.          *)

Unlock(h) ==
    /\ handle[h].pc = "unlock" /\ lockOwners[h] = {}
    /\ handle' = [handle EXCEPT ![h].pc = IF handle[h].failed THEN "failed" ELSE "drop"]
    /\ UNCHANGED <<lockVars, storeVars, states, current, dir, tracked, recovery, mounted, app, left>>

(* The path of a state is the file's until repathWriteStates comes to it.  *)
Untaken(w) == Racing("takeover") \/ Reached(w.path) # "stranger"
Sole(h) == current = handle[h].slot /\ State(h).refs <= 1
(* quarantineTempsReason up to the stat of the target.                     *)
QuarantineStart(h) ==
    /\ handle[h].pc = "failed"
    /\ Racing("closetwice") \/ ~\E g \in Handles \ {h} :
          /\ handle[g].slot = handle[h].slot
          /\ handle[g].pc \in {"drop", "locks", "ref"} \/ (handle[g].pc = "unlock" /\ ~handle[g].failed)
    /\ IF Sole(h) /\ ~State(h).closed
       THEN /\ Untaken(State(h))
            /\ handle' = [handle EXCEPT ![h].pc = "saving", ![h].full = WholeImage(State(h)),
                                        ![h].stamp = Fingerprint(State(h).path)]
            /\ states' = [states EXCEPT ![handle[h].slot].closed = TRUE]
       ELSE /\ handle' = [handle EXCEPT ![h].pc = "drop"]
            /\ UNCHANGED states
    /\ UNCHANGED <<lockVars, storeVars, current, dir, tracked, recovery, mounted, app, left>>

(* `want` and `over` are history: what the applications had written, over  *)
(* which stored bytes.                                                     *)
Saved(w, full, fingerprint) ==
    [target |-> w.path, full |-> full /\ WholeImage(w), dirty |-> w.dirty, base |-> w.base, size |-> w.size,
     image |-> w.temp, pending |-> w.pending, stamp |-> fingerprint, want |-> app.bytes,
     over |-> stored["file"]]
Poisoned(w) == [w EXCEPT !.poisoned = TRUE, !.closed = TRUE, !.dirty = {}, !.base = w.size,
                         !.temp = <<>>, !.hasSnap = FALSE, !.snap = <<>>]
(* mutant: the intent is the one captured before the stat *)
QuarantineForgets(h) ==
    /\ handle[h].pc = "saving"
    /\ recovery' = recovery \cup {[Saved(State(h), handle[h].full, handle[h].stamp) EXCEPT !.dirty = {}]}
    /\ states' = [states EXCEPT ![handle[h].slot] = Poisoned(@)]
    /\ current' = IF current = handle[h].slot THEN 0 ELSE current
    /\ app' = Landed
    /\ handle' = [handle EXCEPT ![h].pc = "drop"]
    /\ UNCHANGED <<lockVars, storeVars, dir, tracked, mounted, left>>
(* The intent is captured again with the temp; the state is poisoned and   *)
(* its data, told lost, is what the next mount may redrive.                *)
QuarantineSave(h) ==
    /\ handle[h].pc = "saving"
    /\ recovery' = recovery \cup {Saved(State(h), handle[h].full, handle[h].stamp)}
    /\ states' = [states EXCEPT ![handle[h].slot] = Poisoned(@)]
    /\ current' = IF current = handle[h].slot THEN 0 ELSE current
    /\ app' = Landed
    /\ handle' = [handle EXCEPT ![h].pc = "drop"]
    /\ UNCHANGED <<lockVars, storeVars, dir, tracked, mounted, left>>

(* The handle leaves the table; the last one takes every lock with it.     *)
Delete(h) ==
    /\ handle[h].pc = "drop"
    /\ LET others == {g \in Handles \ {h} : handle[g].pc \notin {"closed", "making", "locks", "ref"}}
       IN  handle' = [handle EXCEPT ![h].pc = IF others = {} THEN "locks" ELSE "ref"]
    /\ UNCHANGED <<lockVars, storeVars, states, current, dir, tracked, recovery, mounted, app, left>>
LastClose(h) ==
    /\ handle[h].pc = "locks" /\ DropAllLocks
    /\ handle' = [handle EXCEPT ![h].pc = "ref"]
    /\ UNCHANGED <<storeVars, states, current, dir, tracked, recovery, mounted, app, left>>

LastRef(w) == w.refs <= 1
(* The last reference removes the temp with the state.                     *)
Drop(h) ==
    /\ handle[h].pc = "ref"
    /\ LET s == handle[h].slot
           used == \E g \in Handles \ {h} : handle[g].slot = s
           last == current = s /\ LastRef(states[s])
       IN  /\ current' = IF last THEN 0 ELSE current
           /\ states' = [states EXCEPT ![s] =
                 IF ~used THEN Free
                 ELSE IF last THEN [@ EXCEPT !.closed = TRUE, !.refs = 0]
                 ELSE IF current = s THEN [states[s] EXCEPT !.refs = @ - 1] ELSE @]
    /\ handle' = [handle EXCEPT ![h] = Rest]
    /\ UNCHANGED <<lockVars, storeVars, dir, tracked, recovery, mounted, app, left>>

-----------------------------------------------------------------------------
(* Directory operations; the kernel runs one at a time.                    *)

(* materializeHandlesForPath: the base of the state at that path is kept   *)
(* before the name goes, without opMu.                                     *)
NeedsSnap(p) ==
    /\ current # 0 /\ Reached(p) = "file"
    /\ states[current].path = p /\ ~states[current].deleted /\ ~states[current].hasSnap
DirStart(kind, src, dst) ==
    /\ mounted /\ dir.pc = "idle" /\ Spend("dir")
    /\ ns[src] # "none"
    /\ IF kind = "rename" THEN src # dst /\ ns[dst] # ns[src] ELSE src = dst
    /\ LET loses == IF kind = "rename" THEN dst ELSE src
       IN  /\ Racing("snapshot") \/ ~(NeedsSnap(loses) /\ Committing)
           /\ states' = IF NeedsSnap(loses)
                        THEN [states EXCEPT ![current].hasSnap = TRUE, ![current].snap = stored["file"]]
                        ELSE states
           /\ dir' = [NoDir EXCEPT !.pc = "hub", !.kind = kind, !.src = src, !.dst = dst]
    /\ UNCHANGED <<lockVars, storeVars, current, handle, tracked, recovery, mounted, app>>

(* The name is gone from the project, or the operation failed.             *)
Making == current # 0 /\ ~states[current].made
Renamed == [ns EXCEPT ![dir.src] = "none", ![dir.dst] = ns[dir.src]]
DirHub ==
    /\ dir.pc = "hub"
    /\ \/ /\ Racing("rename") \/ ~(Sending \/ Making) \/ ~(dir.kind = "rename" /\ ns[dir.dst] = "file")
          /\ ns' = IF dir.kind = "rename" THEN Renamed ELSE [ns EXCEPT ![dir.src] = "none"]
          /\ dir' = [dir EXCEPT !.pc = "handles"]
          /\ UNCHANGED left
       \/ /\ Spend("fault") /\ dir' = NoDir /\ UNCHANGED ns
    /\ UNCHANGED <<lockVars, stored, stamp, mode, states, current, handle, tracked, recovery, mounted, app>>

(* The path that takes the place of p for the file: where it moved, another*)
(* tracked name, or none.  Only the handles and states of the file match.  *)
Successors(p) ==
    IF dir.kind = "rename" /\ p = dir.src THEN {dir.dst}
    ELSE IF tracked \ {p} = {} THEN {""} ELSE tracked \ {p}
Moves == IF dir.kind = "rename" /\ dir.src \notin tracked THEN dir.dst ELSE dir.src
(* dropPath or remapPaths, then repathHandles.                             *)
DirHandles ==
    /\ dir.pc = "handles"
    /\ \E next \in Successors(Moves) :
         /\ dir' = [dir EXCEPT !.pc = "states", !.src = Moves, !.rest = next]
         /\ tracked' = IF Moves \in tracked THEN (tracked \ {Moves}) \cup ({next} \ {""}) ELSE tracked
         /\ handle' = [h \in Handles |->
               IF handle[h].slot # 0 /\ handle[h].path = Moves THEN [handle[h] EXCEPT !.path = next]
               ELSE handle[h]]
    /\ UNCHANGED <<lockVars, storeVars, states, current, recovery, mounted, app, left>>

(* repathWriteStates waits for the commit in flight.                       *)
DirStates ==
    /\ dir.pc = "states"
    /\ ~Committing
    /\ states' = IF current # 0 /\ states[current].path = dir.src
                 THEN [states EXCEPT ![current].path = dir.rest, ![current].deleted = dir.rest = ""] ELSE states
    /\ dir' = NoDir
    /\ UNCHANGED <<lockVars, storeVars, current, handle, tracked, recovery, mounted, app, left>>

Link(n) ==
    /\ mounted /\ dir.pc = "idle" /\ Spend("dir")
    /\ ns[n] = "none" /\ \E p \in tracked : ns[p] = "file"
    /\ ns' = [ns EXCEPT ![n] = "file"] /\ tracked' = tracked \cup {n} /\ Bump("file")
    /\ UNCHANGED <<lockVars, stored, mode, states, current, handle, dir, recovery, mounted, app>>

-----------------------------------------------------------------------------
(* The end of the process, and the next mount.                             *)

Ended ==
    /\ mounted' = FALSE /\ handle' = [h \in Handles |-> Rest] /\ dir' = NoDir
    /\ states' = [s \in Slots |-> Free] /\ current' = 0 /\ tracked' = {}
    /\ app' = Landed /\ LocksGone
    /\ UNCHANGED storeVars
(* Close quarantines the dirty state, unless a commit holds it past the    *)
(* bound: that overlay, like every temp of a crash, is swept by the next   *)
(* mount into an entry without target.                                     *)
Close ==
    /\ mounted /\ Spend("down") /\ Ended
    /\ \E p \in {p \in Slots : p = current} \cup {0} :
         /\ current # 0 => p = current /\ Untaken(states[p])
         /\ recovery' =
              IF p = 0 \/ states[p].closed THEN recovery
              ELSE LET w == states[p]
                   IN  IF w.held # "" THEN recovery \cup {[Saved(w, FALSE, -1) EXCEPT !.target = ""]}
                       ELSE IF ~Uncommitted(w) THEN recovery
                       ELSE recovery \cup {Saved(w, TRUE, Fingerprint(w.path))}
Crash ==
    /\ mounted /\ Spend("down") /\ Ended
    /\ recovery' = recovery \cup
         {[Saved(states[s], FALSE, -1) EXCEPT !.target = ""] : s \in {s \in Slots : s = current}}

(* Another client changes the file while it is not mounted.                *)
Rival ==
    /\ ~mounted /\ Linked /\ Spend("rival")
    /\ stored' = [stored EXCEPT !["file"] = <<99>>] /\ Bump("file") /\ app' = [app EXCEPT !.bytes = <<99>>]
    /\ UNCHANGED <<lockVars, ns, mode, states, current, handle, dir, tracked, recovery, mounted>>

(* An entry is redriven only onto what was fingerprinted.                  *)
Matches(e) == e.target # "" /\ e.stamp # -1 /\ e.stamp = Fingerprint(e.target)
(* What the verb of a redrive asks: the image, the recorded ranges, or the *)
(* bare size.                                                              *)
Redrivable(e) ==
    \/ e.full
    \/ e.dirty # {} /\ \A b \in e.dirty : b < Len(e.image) /\ b < Len(Content(e.target))
    \/ e.dirty = {} /\ e.size # e.base
Redriven(e) ==
    LET over == Content(e.target)
    IN  IF e.full THEN e.image
        ELSE IF e.dirty # {} THEN [i \in 1..Len(over) |-> IF i - 1 \in e.dirty THEN At(e.image, i - 1) ELSE over[i]]
        ELSE Resize(over, e.size)
Trims(e) == ~e.full /\ e.dirty # {} /\ e.size # e.base
(* The payload goes once data and metadata landed.                         *)
Redrive(e) ==
    /\ ~mounted /\ Matches(e) /\ Redrivable(e)
    /\ Racing("shrink") \/ ~Trims(e)
    /\ LET f == Reached(e.target)
       IN  /\ stored' = [stored EXCEPT ![f] = Redriven(e)] /\ Bump(f)
           /\ \/ /\ mode' = IF e.pending = 0 THEN mode ELSE [mode EXCEPT ![f] = e.pending]
                 /\ recovery' = recovery \ {e} /\ UNCHANGED left
              \/ /\ e.pending # 0 /\ Spend("fault") /\ UNCHANGED <<mode, recovery>>
    /\ app' = [bytes |-> stored'["file"], mode |-> mode'["file"]]
    /\ UNCHANGED <<lockVars, ns, states, current, handle, dir, tracked, mounted>>
Mount ==
    /\ ~mounted /\ mounted' = TRUE
    /\ tracked' = {n \in Names : ns[n] = "file"}
    /\ UNCHANGED <<lockVars, storeVars, states, current, handle, dir, recovery, app, left>>

-----------------------------------------------------------------------------
(* Lock calls are made through open handles and answered concurrently.     *)
LastClosing == \E h \in Handles : handle[h].pc = "locks"
Locking(h) ==
    /\ handle[h].pc = "open"
    /\ Racing("lastclose") \/ ~LastClosing
    /\ \E o \in Owners : \E lk \in Requests(o) : Setlk(h, lk) \/ Setlkw(h, lk)
    /\ UNCHANGED fileVars
Parked(h) == (Track(h) \/ Retry(h) \/ Interrupt(h)) /\ UNCHANGED fileVars
ReleaseLocks(h) == handle[h].pc = "unlock" /\ ReleaseOwner(h) /\ UNCHANGED fileVars

Next ==
    \/ \E h \in Handles :
          \/ \E trunc \in BOOLEAN : Open(h, trunc)
          \/ Materialize(h) \/ TruncateOpen(h)
          \/ \E w \in Writes : Write(h, w[1], w[2])
          \/ \E n \in Sizes : SetSize(h, n) \/ Allocate(h, n)
          \/ StageMode(h)
          \/ CommitStart(h, "flush") \/ (Answered(h) /\ CommitStart(h, "release"))
          \/ CommitPlan(h) \/ CommitVerb(h) \/ CommitTrim(h) \/ CommitFinish(h)
          \/ Unlock(h) \/ QuarantineStart(h) \/ QuarantineSave(h)
          \/ Delete(h) \/ LastClose(h) \/ Drop(h)
          \/ Locking(h) \/ Parked(h) \/ ReleaseLocks(h)
    \/ \E src, dst \in Names, kind \in {"unlink", "rename"} : DirStart(kind, src, dst)
    \/ DirHub \/ DirHandles \/ DirStates
    \/ \E n \in Names : Link(n)
    \/ Close \/ Crash \/ Rival \/ Mount
    \/ \E e \in recovery : Redrive(e)

vars == <<fileVars, lockVars>>
Spec == FileInit /\ [][Next]_vars

-----------------------------------------------------------------------------
(* Properties.                                                             *)

Opened(s) == states[s].made /\ states[s].held = "" /\ ~states[s].poisoned
Steady == Racing("rename") \/ ~Renaming

FileTypeOK ==
    /\ ns \in [Names -> Files \cup {"none"}] /\ current \in Slots \cup {0}
    /\ \A s \in Slots : states[s].dirty \subseteq Span(0, states[s].size)
    /\ \A s \in Slots : states[s].refs = Cardinality({h \in Handles : handle[h].slot = s})
                       \/ s # current
    /\ tracked \subseteq Names

(* ReadBack: whatever was written, truncated, allocated, committed, failed,*)
(* unlinked or renamed before, a read through the shared overlay returns   *)
(* the bytes the applications wrote.                                       *)
ReadBack ==
    current # 0 /\ Opened(current) /\ Steady /\ dir.pc \notin {"handles", "states"} =>
        LET w == states[current]
        IN  Readable(w, Content(w.path)) /\ View(w, Content(w.path)) = app.bytes

(* Durable: when no open state has anything left to commit, the project    *)
(* holds exactly what the applications wrote and were not told is lost.    *)
Durable ==
    Linked /\ (current = 0 \/ (states[current].made /\ states[current].held = ""
                               /\ ~Uncommitted(states[current]) /\ ~states[current].deleted))
        => Landed = app

(* StrangersSafe: no commit, quarantine or redrive of the file ever writes *)
(* another file that took over its name.                                   *)
StrangersSafe ==
    [][stored'["stranger"] = stored["stranger"] /\ mode'["stranger"] = mode["stranger"]]_vars

(* QuarantineExact: an entry the next mount would redrive rebuilds exactly *)
(* what the applications had written when it was quarantined.              *)
QuarantineExact ==
    \A e \in recovery :
        Matches(e) /\ Redrivable(e) /\ (Racing("shrink") \/ ~Trims(e))
            => Redriven(e) = e.want

(* CalmCommits: where no call failed and no name moved, no commit is       *)
(* refused: nothing the applications wrote is answered with an error.      *)
CalmCommits == left.calm => \A h \in Handles : ~handle[h].failed

(* RivalSafe: a redrive only ever applies to the bytes its overlay was     *)
(* taken over, never to what another client stored since.                  *)
RivalSafe ==
    [][\A e \in recovery : Redrive(e) => stored["file"] = e.over]_vars

(* The overlay is sound, and a read through it exact (fuse_write_ranges).  *)
OverlayExact == FileTypeOK /\ ReadBack

(* Nothing written is lost: it is in the project, in an open state, or in  *)
(* an entry that rebuilds it (fuse_write_commit, fuse_recovery).           *)
NothingLost == Durable /\ QuarantineExact

(* Neither the file that took over a name nor what another client stored   *)
(* is overwritten (commit, redriveRecoveryEntry).                          *)
OthersSafe == StrangersSafe /\ RivalSafe

(* FragmentsStay, which the code does not keep: a quarantined overlay that  *)
(* is no full image is left for manual recovery (fuse_recovery.go:43-48).  *)
FragmentsStay == [][\A e \in recovery : Redrive(e) => e.full]_vars

(* Locks: exact, exclusive, woken for, and gone with their handle          *)
(* (fuse_lock.go).                                                         *)
LocksSound == LocksExact /\ LockExclusion /\ NoLostWakeup /\ LocksDieWithHandle

=============================================================================
