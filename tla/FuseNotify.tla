----------------------------- MODULE FuseNotify -----------------------------
(***************************************************************************)
(* What a mount does so that the kernel never keeps a name that another    *)
(* surface changed: the subscription to the project's publishes, the       *)
(* bounded asynchronous notifications, the lookups and the directory       *)
(* operations they race (fusefs/fuse_notify.go, fuse_lookup.go).           *)
(*                                                                         *)
(* One directory.  The kernel is external: it holds the directory while a  *)
(* request on it is in flight, and an entry notification waits for it.     *)
(***************************************************************************)
EXTENDS Fanout, Integers, FiniteSets

CONSTANTS
    NotifySlots,    \* maxConcurrentNotifies
    MaxPublishes,   \* bound on publishes
    MaxLookups,     \* bound on lookups
    MaxMutations,   \* bound on directory operations of this mount
    Present,        \* the names there when the mount starts
    Races           \* the windows left open, see Racing(w)

ASSUME NotifyAssumption ==
    /\ {NotifySlots, MaxPublishes, MaxLookups, MaxMutations} \subseteq Nat
    /\ NotifySlots > 0 /\ Present \subseteq Paths /\ Races \subseteq STRING
    /\ IsFiniteSet(Paths) /\ "" \notin Paths

VARIABLES
    tree,       \* path -> the publish that changed it last; 0: no such name
    subscribed, \* the subscription is on the cached project
    pokes,      \* callbacks started and not yet serving
    cursor,     \* last
    poll,       \* the callback that holds mu: [busy, todo, next, key]
    queued,     \* notifyQueued
    granted,    \* goroutines that hold a slot and not yet cleared the mark
    writing,    \* path -> goroutines in the kernel upcall
    tracked,    \* pathToInode
    kernel,     \* path -> what the kernel answers: a version, or NotCached
    lookup,     \* the lookup in flight: [path, value, listed], or NoLookup
    forgets,    \* paths whose FORGET is on its way
    mutation,   \* the directory operation in flight: [pc, path, value]
    counts      \* [publishes, lookups, mutations] so far

mountVars == <<cursor, poll, queued, granted, writing, tracked>>
kernelVars == <<kernel, lookup, forgets>>
notifyVars == <<fanoutVars, tree, subscribed, pokes, mountVars, kernelVars, mutation, counts>>

(* The windows: "deaf" (the project is evicted from the cache), "negative" *)
(* (absent name cached, scope lost), "forget" (a FORGET handled after the  *)
(* name was looked up again), "unlisted" (every tracked path is listed     *)
(* between the stat of a lookup and the registration of its node).         *)
Racing(w) == w \in Races

NotCached == -1
NoPoll == [busy |-> FALSE, todo |-> {}, next |-> 0, key |-> ""]
NoLookup == [path |-> "", value |-> 0, listed |-> FALSE]
NoMutation == [pc |-> "idle", path |-> "", value |-> 0]
InDirectory == lookup # NoLookup \/ mutation.pc # "idle"
(* The stat found a name whose node is not registered yet.                 *)
Unlisted == lookup.value # 0 /\ ~lookup.listed /\ lookup.path \notin tracked

NotifyInit ==
    /\ FanoutInit
    /\ tree = [p \in Paths |-> IF p \in Present THEN 1 ELSE 0]
    /\ subscribed = TRUE /\ pokes = 0 /\ cursor = 0 /\ poll = NoPoll
    /\ queued = {} /\ granted = {} /\ writing = [p \in Paths |-> 0]
    /\ tracked = {} /\ kernel = [p \in Paths |-> NotCached]
    /\ lookup = NoLookup /\ forgets = {} /\ mutation = NoMutation
    /\ counts = [publishes |-> 0, lookups |-> 0, mutations |-> 0]

-----------------------------------------------------------------------------
(* Publishes of every surface.                                             *)

(* While the kernel holds a name to be absent, the mount's next callback   *)
(* will be told its scope, `ahead` publishes from now.                     *)
Negative == {p \in Paths : kernel[p] = 0 \/ (lookup.path = p /\ lookup.value = 0)}
NextCursor == IF poll.busy THEN poll.next ELSE cursor
ScopeKept(ahead) ==
    \/ Racing("negative") \/ Negative = {}
    \/ fanoutSeq + ahead - NextCursor <= RingSize /\ ~UnknownSince(NextCursor)

(* The tree and the ring change together; subscribers are poked later.     *)
Published(paths, version, known, gone) ==
    /\ gone => \A p \in paths : tree[p] # 0
    /\ tree' = [p \in Paths |-> IF p \notin paths THEN tree[p] ELSE IF gone THEN 0 ELSE version]
    /\ NotePublished(known, paths)
    /\ pokes' = pokes + (IF subscribed THEN 1 ELSE 0)

PublishPaths(paths, known, gone) ==
    /\ counts.publishes < MaxPublishes
    /\ ScopeKept(IF mutation.pc = "hub" THEN 2 ELSE 1)
    /\ known \/ Racing("negative") \/ Negative = {}
    /\ Published(paths, counts.publishes + 2, known, gone)
    /\ counts' = [counts EXCEPT !.publishes = @ + 1]
    /\ UNCHANGED <<subscribed, mountVars, kernelVars, mutation>>

(* evictExcessCacheLocked takes an idle project out of the cache, with its *)
(* ring and its subscription; the next load starts another.  With "deaf"   *)
(* closed nothing is published after that, and every callback has run.     *)
EvictProject ==
    /\ subscribed
    /\ Racing("deaf") \/ (counts.publishes = MaxPublishes /\ pokes = 0 /\ ~poll.busy)
    /\ subscribed' = FALSE /\ fanoutSeq' = 0 /\ recent' = <<>> /\ log' = <<>>
    /\ UNCHANGED <<tree, pokes, mountVars, kernelVars, mutation, counts>>

-----------------------------------------------------------------------------
(* The callback of a publish: one at a time, under mu.                     *)

(* pollInvalidationsOnce: unknown scope is every path the mount tracks.    *)
StartCallback ==
    /\ pokes > 0 /\ ~poll.busy
    /\ Racing("unlisted") \/ ~(Unlisted /\ UnknownSince(cursor))
    /\ pokes' = pokes - 1
    /\ poll' = [NoPoll EXCEPT !.busy = TRUE, !.next = fanoutSeq,
                  !.todo = IF UnknownSince(cursor) THEN tracked ELSE PathsSince(cursor)]
    /\ UNCHANGED <<fanoutVars, tree, subscribed, cursor, queued, granted, writing, tracked,
                   kernelVars, mutation, counts>>

(* beginNotify of a path: a duplicate coalesces, else the caller parks.    *)
PollNext(p) ==
    /\ poll.busy /\ poll.key = "" /\ p \in poll.todo
    /\ poll' = [poll EXCEPT !.todo = @ \ {p}, !.key = IF p \in queued THEN "" ELSE p]
    /\ queued' = queued \cup {p}
    /\ UNCHANGED <<fanoutVars, tree, subscribed, pokes, cursor, granted, writing, tracked,
                   kernelVars, mutation, counts>>

(* The slots taken: by goroutines before the upcall (0) and in it.         *)
Slots == {<<p, 0>> : p \in granted} \cup UNION {{p} \X (1..writing[p]) : p \in Paths}
Busy == Cardinality(Slots)
SlotFree == Busy < NotifySlots

(* mutant: a notification that finds no slot is dropped *)
PollSlotDrops ==
    /\ poll.key # ""
    /\ IF SlotFree THEN granted' = granted \cup {poll.key} /\ queued' = queued
                   ELSE granted' = granted /\ queued' = queued \ {poll.key}
    /\ poll' = [poll EXCEPT !.key = ""]
    /\ UNCHANGED <<fanoutVars, tree, subscribed, pokes, cursor, writing, tracked,
                   kernelVars, mutation, counts>>
PollSlot ==
    /\ poll.key # "" /\ SlotFree
    /\ granted' = granted \cup {poll.key}
    /\ poll' = [poll EXCEPT !.key = ""]
    /\ UNCHANGED <<fanoutVars, tree, subscribed, pokes, cursor, queued, writing, tracked,
                   kernelVars, mutation, counts>>

(* mutant: the cursor moves to what is published by now *)
CursorSkips ==
    /\ poll.busy /\ poll.todo = {} /\ poll.key = ""
    /\ cursor' = fanoutSeq /\ poll' = NoPoll
    /\ UNCHANGED <<fanoutVars, tree, subscribed, pokes, queued, granted, writing, tracked,
                   kernelVars, mutation, counts>>
PollEnd ==
    /\ poll.busy /\ poll.todo = {} /\ poll.key = ""
    /\ cursor' = poll.next /\ poll' = NoPoll
    /\ UNCHANGED <<fanoutVars, tree, subscribed, pokes, queued, granted, writing, tracked,
                   kernelVars, mutation, counts>>

-----------------------------------------------------------------------------
(* The goroutine of a notification.                                        *)

(* The mark goes before the upcall.                                        *)
EndNotify(p) ==
    /\ p \in granted
    /\ granted' = granted \ {p} /\ queued' = queued \ {p}
    /\ writing' = [writing EXCEPT ![p] = @ + 1]
    /\ UNCHANGED <<fanoutVars, tree, subscribed, pokes, cursor, poll, tracked, kernelVars, mutation, counts>>

(* NotifyEntry: the kernel drops the name once nothing holds the directory,*)
(* the slot is given back.                                                 *)
Upcall(p) ==
    /\ writing[p] > 0 /\ ~InDirectory
    /\ kernel' = [kernel EXCEPT ![p] = NotCached]
    /\ writing' = [writing EXCEPT ![p] = @ - 1]
    /\ UNCHANGED <<fanoutVars, tree, subscribed, pokes, cursor, poll, queued, granted, tracked,
                   lookup, forgets, mutation, counts>>

-----------------------------------------------------------------------------
(* Requests of the kernel.                                                 *)

(* Lookup: the stat, then the registration of the node (ensureNode under   *)
(* s.mu), then the reply.  An absent name has no node.                     *)
LookupStart(p) ==
    /\ ~InDirectory /\ kernel[p] = NotCached /\ counts.lookups < MaxLookups
    /\ Racing("forget") \/ p \notin forgets
    /\ counts' = [counts EXCEPT !.lookups = @ + 1]
    /\ lookup' = [path |-> p, value |-> tree[p], listed |-> tree[p] = 0]
    /\ UNCHANGED <<fanoutVars, tree, subscribed, pokes, mountVars, kernel, forgets, mutation>>
LookupAttach ==
    /\ lookup # NoLookup /\ ~lookup.listed
    /\ lookup' = [lookup EXCEPT !.listed = TRUE]
    /\ tracked' = tracked \cup {lookup.path}
    /\ UNCHANGED <<fanoutVars, tree, subscribed, pokes, cursor, poll, queued, granted, writing,
                   kernel, forgets, mutation, counts>>
LookupReply ==
    /\ lookup.listed
    /\ kernel' = [kernel EXCEPT ![lookup.path] = lookup.value]
    /\ lookup' = NoLookup
    /\ UNCHANGED <<fanoutVars, tree, subscribed, pokes, mountVars, forgets, mutation, counts>>

(* The kernel drops a name by itself, and later says so.                   *)
Shrink(p) ==
    /\ kernel[p] # NotCached /\ ~InDirectory
    /\ kernel' = [kernel EXCEPT ![p] = NotCached]
    /\ forgets' = IF kernel[p] = 0 THEN forgets ELSE forgets \cup {p}
    /\ UNCHANGED <<fanoutVars, tree, subscribed, pokes, mountVars, lookup, mutation, counts>>
OnForget(p) ==
    /\ p \in forgets
    /\ forgets' = forgets \ {p} /\ tracked' = tracked \ {p}
    /\ UNCHANGED <<fanoutVars, tree, subscribed, pokes, cursor, poll, queued, granted, writing,
                   kernel, lookup, mutation, counts>>

(* A directory operation of this mount: the hub publishes, the handler     *)
(* registers or drops the node, marks its notification and waits for a     *)
(* slot, the kernel takes the reply.                                       *)
MutationStart(p) ==
    /\ ~InDirectory /\ counts.mutations < MaxMutations /\ counts.publishes < MaxPublishes
    /\ ScopeKept(1)
    /\ mutation' = [NoMutation EXCEPT !.pc = "hub", !.path = p, !.value = counts.publishes + 2]
    /\ counts' = [counts EXCEPT !.mutations = @ + 1, !.publishes = @ + 1]
    /\ UNCHANGED <<fanoutVars, tree, subscribed, pokes, mountVars, kernelVars>>
MutationHub(gone) ==
    /\ mutation.pc = "hub" /\ Published({mutation.path}, mutation.value, TRUE, gone)
    /\ mutation' = [mutation EXCEPT !.pc = "attach", !.value = tree'[mutation.path]]
    /\ UNCHANGED <<subscribed, mountVars, kernelVars, counts>>
(* attachEntry of a creation, dropPath of a removal.                       *)
MutationAttach ==
    /\ mutation.pc = "attach"
    /\ mutation' = [mutation EXCEPT !.pc = "notify"]
    /\ tracked' = IF mutation.value = 0 THEN tracked \ {mutation.path} ELSE tracked \cup {mutation.path}
    /\ UNCHANGED <<fanoutVars, tree, subscribed, pokes, cursor, poll, queued, granted, writing,
                   kernelVars, counts>>
MutationNotify ==
    /\ mutation.pc = "notify"
    /\ mutation' = [mutation EXCEPT !.pc = IF mutation.path \in queued THEN "reply" ELSE "slot"]
    /\ queued' = queued \cup {mutation.path}
    /\ UNCHANGED <<fanoutVars, tree, subscribed, pokes, cursor, poll, granted, writing, tracked,
                   kernelVars, counts>>
MutationSlot ==
    /\ mutation.pc = "slot" /\ SlotFree
    /\ granted' = granted \cup {mutation.path}
    /\ mutation' = [mutation EXCEPT !.pc = "reply"]
    /\ UNCHANGED <<fanoutVars, tree, subscribed, pokes, cursor, poll, queued, writing, tracked,
                   kernelVars, counts>>
MutationReply ==
    /\ mutation.pc = "reply"
    /\ kernel' = [kernel EXCEPT ![mutation.path] = IF mutation.value = 0 THEN NotCached ELSE mutation.value]
    /\ mutation' = NoMutation
    /\ UNCHANGED <<fanoutVars, tree, subscribed, pokes, mountVars, lookup, forgets, counts>>

-----------------------------------------------------------------------------
NotifyNext ==
    \/ \E p \in Paths, known, gone \in BOOLEAN : PublishPaths({p}, known, gone)
    \/ EvictProject
    \/ StartCallback \/ PollSlot \/ PollEnd
    \/ \E p \in Paths :
          \/ PollNext(p) \/ EndNotify(p) \/ Upcall(p)
          \/ LookupStart(p) \/ Shrink(p) \/ OnForget(p) \/ MutationStart(p)
    \/ LookupAttach \/ LookupReply
    \/ \E gone \in BOOLEAN : MutationHub(gone)
    \/ MutationAttach \/ MutationNotify \/ MutationSlot \/ MutationReply

(* Goroutines run, a request in flight ends, the kernel answers an upcall. *)
Fairness ==
    /\ WF_notifyVars(StartCallback) /\ WF_notifyVars(PollSlot) /\ WF_notifyVars(PollEnd)
    /\ WF_notifyVars(LookupAttach) /\ WF_notifyVars(LookupReply)
    /\ WF_notifyVars(MutationAttach) /\ WF_notifyVars(MutationNotify)
    /\ WF_notifyVars(MutationSlot) /\ WF_notifyVars(MutationReply)
    /\ WF_notifyVars(\E gone \in BOOLEAN : MutationHub(gone))
    /\ \A p \in Paths : WF_notifyVars(PollNext(p)) /\ WF_notifyVars(EndNotify(p)) /\ WF_notifyVars(Upcall(p))
NotifySpec == NotifyInit /\ [][NotifyNext]_notifyVars /\ Fairness

-----------------------------------------------------------------------------
(* Properties.                                                             *)

UpToDate(p) == kernel[p] \in {NotCached, tree[p]}
NotifyTypeOK ==
    /\ Busy <= NotifySlots
    /\ granted \subseteq queued /\ queued \subseteq Paths
    /\ poll.busy \/ poll = NoPoll
    /\ cursor <= fanoutSeq \/ ~subscribed

(* NothingStale: once every callback and every notification ran, no name   *)
(* the kernel would still answer by itself is older than the tree.         *)
NothingStale ==
    pokes = 0 /\ ~poll.busy /\ granted = {} /\ (\A p \in Paths : writing[p] = 0) /\ ~InDirectory
        => \A p \in Paths : UpToDate(p)

(* Every slot is held by a notification that waits in the kernel for the   *)
(* directory of an operation whose handler waits for a slot.               *)
Jammed == mutation.pc = "slot" /\ ~SlotFree /\ granted = {}

(* CacheFresh: no name stays stale in the kernel, as long as the mount is  *)
(* not Jammed for good (invalidatePath, beginNotify, notifyAsync).         *)
CacheFresh == \A p \in Paths : []<>UpToDate(p) \/ <>[]Jammed

(* OperationsReply, which is false while the mount is Jammed: an operation *)
(* of the mount always gets its slot: "Blocking enqueue is deadlock-free   *)
(* by construction ... no wait cycle exists" (beginNotify).                *)
OperationsReply == mutation.pc # "idle" ~> mutation.pc = "idle"

(* Slots and subscriptions are sound, and a subscriber never misses a path *)
(* it is not told of (workflows_publish.go, fuse_notify.go).               *)
FanoutSound == NotifyTypeOK /\ ScopeComplete


=============================================================================
