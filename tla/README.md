# A verification development for StorHub

StorHub keeps a file tree in a GitHub repository: file bytes are release
assets, the namespace is an *index* (a manifest and the objects it names)
committed to the repository.  A *hub* is one process (server, FUSE mount or CLI)
with an in-memory copy of the index of each project it touches.  A mutation is
acknowledged as soon as it is in that copy, in the hub's stack of pending
operations and in its crash journal; a background loop commits later, with a
compare-and-swap on the manifest, and rebases when another hub was faster.

This directory holds TLA+ models of that core and of what surrounds it (upload
sessions, the FUSE mount, the REST server, asset storage and its pruning, the
GitHub client), the TLC configurations that check them, and machine-checked
proofs.  Definitions are translated from `src/internal/`; `PROJECT.json` maps each
one to its lines.

## Inventory

| component | state | operations | hard behaviour | what makes it correct |
|---|---|---|---|---|
| pending-operation stack (`ops_stack.go`, `ops.go`) | ordered operations, index by path, index by rename target, prune slot, open generation, byte total | append with coalescing, delete transform, clear up to, freeze, reindex | positions shift under two maps; merging across a commit in flight | the coalesced stack means what the appended sequence meant |
| replay (`ops_replay.go`, `ops_apply.go`) | batch plan: doomed paths, made directories, recorded moves | one handler per operation, reference resolution | map-order emission, names reused inside a batch | the replayed tree is the tree the caller saw |
| mutation funnel (`verbs_*.go`, `ops_intent.go`, `fs/mutate.go`, `transfer.go`, `cleanup*.go`) | private candidate tree, recorded intents | create, upload, patch, chmod, unlink, mkdir, rmdir, rename, copy, prune, release | off-lock uploads and probes, synthesis from a set of intents | what is logged describes what was published, over what the caller saw |
| crash journal (`journal.go`) | JSON lines, open handle | append, read and fold, rewrite, close | crash between landing and truncation, compaction, rewrite outside the lock | everything pending is journalled, nothing landed is harmful |
| commit pipeline (`commit_snapshot.go`, `commit_publish.go`, `rebase.go`, `index.go`) | frozen batch, base tree, CAS token | freeze, publish, rebase, apply back | several hubs, mutations during a commit, lost replies | last writer wins, nobody's work disappears |
| loads and the revision gate (`workflows.go`, `mutate.go`) | single flight per project, `hydrated`, `casArmed` | read head, replay journal, store, compare a declared revision | a load races mutations and commits | a cached tree is its revision plus pending operations; one winner per revision |
| commit loop and project cache (`commit.go`, `caches.go`, `client.go`) | cache slot, `dirty`, `stopped`, `reviving`, three channels, wait group | look up, evict, revive, wake, drain, shut down | stale pointers to evicted entries | acknowledged work always has a loop or a drain that will commit it |
| publish fan-out (`workflows_publish.go`) | ring of 64 path sets, cursor | note, read since | cursor falls out of the ring | a subscriber never misses a path silently |
| upload sessions (`sessions_*.go`) | handle table, staging file, pins, expiry | open, read, write, truncate, link, sync, close, sweep | expiry during commit, links, staleness, three locks | what an open handle commits is what was written to it, on the file it was opened on |
| degraded mode, pressure, retry (`degraded.go`, `pressure.go`, `retry.go`) | counters, gates | admit, note, back off | recovery while strained | admission reopens |
| releases (`workflows_releases.go`, `workflows_chunks.go`, `asset_names.go`) | cached release list, asset counts | pick, rotate, compensate, refetch | stale counts, full releases, half an upload | nothing referenced is deleted, nothing unreferenced is left |
| index store and git backend (`objects.go`, `git_repo*.go`, `cachecleanup.go`) | object cache, mirror | write objects, push, reap | partial writes, a cache that remembers what was deleted | a manifest names only objects that exist |
| byte ranges, patch, clone, windows (`byterange.go`, `patch.go`, `clone.go`, `window.go`, `chunking/`) | none | range splitting and merging | boundaries | equal to the byte-array reference |
| purge, prune, revisions (`cleanup_purge.go`, `prune.go`, `workflows_revisions.go`) | write fence | list, re-check, delete, squash, roll back, revert | long scans next to mutations, commits and other hubs | no asset or object somebody refers to is deleted |
| metadata model (`metadata/`) | tree, catalog, counters, Merkle tree | writers, validation, migration, build, load | incremental against full recomputation | build and load are inverse |
| file and POSIX semantics (`fs/`, `posix/`) | none | path resolution, permission checks | set-id, sticky, symlink loops | equal to the POSIX rules |
| FUSE mount (`fusefs/`) | write states, dirty ranges, locks, recovery files, notification slots | write, truncate, flush, release, lock, redrive, notify | write-back against renames and crashes; upcalls that wait for the kernel | closed data is committed or quarantined; the kernel keeps no stale name |
| GitHub client (`github/`) | rate-limit window, slots, signed URLs | admit, retry, download | cancellation, retries of what already happened | slots are never lost; a lost reply does no harm |
| REST server (`rest/`) | sessions, shares, tokens | handlers | preconditions against concurrent writers, half an upload | a refused request changed nothing |
| CLI, configuration, logging, web console | options | parsing | none | not modelled |

Components interact through the transaction funnel (everything that changes a
tree goes through it or through the two direct paths, upload and unlink), the
project lock `pm.mu` (tree, stack, journal append and dirty mark change under
it), the trigger channel of the commit loop, the fan-out that tells mounts what
changed, and the manifest on the remote.

## Plan

The order puts first what every user depends on: an acknowledged mutation is
neither lost nor changed on its way to the index.

| step | modules | question | proofs |
|---|---|---|---|
| 1 (done) | `OpStack`, `Replay`, `PendingOps` | does a coalesced, frozen, compacted, recovered batch mean what was acknowledged? | open: positions of the stack |
| 2 (done) | `SharedIndex`, `CommitPipeline` | do several hubs, each with its cache, keep the contract of one index? | types, cache coherence, `NothingLost`, the refinement of `SharedIndex`, `RebasePolicy` |
| 3 (done) | `ProjectCache` | eviction, revival and shutdown against mutators that hold an old entry | all safety invariants of its run |
| 4 (done) | `Sessions` | open, write, link, sync, expiry and commit of a handle | all of its run but `NoCallsDeadlock` |
| 5 (done) | `Overlay`, `FuseLocks`, `FuseWrite` | dirty ranges against write-back, renames and recovery; byte-range locks | all safety properties of its run |
| 6 (done) | `Fanout`, `FuseNotify` | a ring with a cursor, kernel upcalls with bounded slots | both safety properties of its run |
| 7 (done) | `RevisionGate`, `RestWrite` | conditional requests against each other, commits and other hubs | all safety properties of its run |
| 8 (done) | `IndexStore`, `AssetPool`, `Prune` | is anything deleted that somebody needs? | `PruneSafe`; open: `ContentKept`, `Reclaims` |
| 9 (done) | `RateGovernor`, `GithubClient` | slots, windows, retries, signed URLs | all safety properties of its run but `FloorKept` |
| 10 | `ProjectCache` with the journal | the journal of an evicted project is closed after the cache lock is released (`caches.go` line 512); a revival may have taken it back | |
| 11 | `PosixPerms`, `Windows`, `Shares` | mode and sticky rules and the window reader against reference definitions; expiry of shares | |

The catalogue of runs is kept small.  A run has few properties, most of which are
conjunctions of named parts: `CachesSound == TypeOK /\ Coherent`; the
parts are what the sections below talk about.  A run that only exhibited a
disagreement gave way to runs of new components: the disagreement is then in the
list of further disagreements, with the instance that shows it.

## Modules

| module | models |
|---|---|
| `OpStack` | the stack as operators on a record |
| `Replay` | the batch plan and the handlers, as operators on a tree |
| `PendingOps`, `MCPendingOps` | one project of one hub over both: mutations, freeze, landing, failure, crash and recovery |
| `SharedIndex` | the contract of the index shared by several hubs |
| `CommitPipeline`, `MCCommitPipeline` | several hubs that load, mutate, commit, rebase, evict and crash; refines `SharedIndex` |
| `ProjectCache`, `MCProjectCache` | the cache slot of a project: entries, their channels and commit loops, mutators that hold an entry, eviction, revival, shutdown |
| `CommitPipeline_proofs`, `Sessions_proofs`, `RestWrite_proofs`, `GithubClient_proofs`, `Prune_proofs` | theorems about the module each is named for |
| `Background_proofs` | theorems about `ProjectCache` and `FuseNotify`, what runs beside the calls |
| `FuseWrite_proofs`, `FuseData_proofs` | theorems about `FuseWrite`: its locks and names; its bytes, on top of them |
| `Sessions`, `MCSessions` | the table of upload handles, their commits and the three locks |
| `Overlay` | the write overlay of one open inode, as operators: dirty ranges, plan of a commit, rebuilt chunks |
| `FuseLocks` | POSIX byte-range locks of one inode |
| `FuseWrite`, `MCFuseWrite` | one file of a mount over both: write-back, directory operations, quarantine, remount, redrive |
| `Fanout` | the ring of published paths and its cursors |
| `FuseNotify` | a mount that keeps the kernel's cache fresh over it |
| `RevisionGate` | one project with its revision gate, fresh loads and commits |
| `RestWrite`, `MCRestWrite` | the mutation endpoints over it, several requests at a time |
| `IndexStore` | the split index of a project as two hubs write it, over git and over REST |
| `AssetPool` | releases, their cached list, and the verbs that upload, unlink, drop and roll back, over it |
| `Prune`, `MCPrune` | every scope of a prune, next to all of that |
| `RateGovernor` | admission of requests: hourly budget, point window, slots |
| `GithubClient`, `MCGithubClient` | requests with their retries, and downloads through cached URLs, over it |

Three devices recur.

- *Windows.*  Where the code leaves a race open in which one of its own claims is
  false, the model has the race as a named window: a member of the constant `Races`
  (`Windows` in `Sessions`, one flag each in the older modules).  A run closes it, which
  disables the step or the outcome in question and nothing else, so that the run says
  what holds *but for* that race; opening it makes TLC show the race.  Every window is
  listed under [Further disagreements](#further-disagreements).
- *Scenes.*  `Init` chooses one of several instances (`scope`, `scene`, a member of
  `Scenarios` or `Cases`), constant along a behaviour, so that one run covers several
  small instances without multiplying their sizes.
- *Budgets.*  A counter (`left`, `counts`, `events`) bounds what may happen without end:
  mutations, faults, commits of others.  It is in the guards, never in the properties.

### OpStack and Replay

`OpStack` is `ops_stack.go`.  A stack is one record with the fields of `opStack`;
every Go method is an operator from stack to stack.  The two maps hold
positions, as in the code, and `RemoveOpAt` shifts them as `removeAt` does, so the
model has the same opportunity to get it wrong.  `AppendOp` numbers an operation,
stamps the open generation and coalesces: `MergeRename`, `MergePrune`, the delete
transform, or the key lookup of `Coalesce`.  `Freeze` opens a new generation;
`ClearUpTo` drops what was published and reindexes; `FoldLines` is the fold of a
journal.  Names are sequences of components, contents are an identifier, a mode and
a time; the commit-message fields (`Times`, `Cause`) are left out.

`Replay` is `ops_replay.go` with `ops_apply.go`: `NewPlan` and one `Apply…` operator per
handler.  `ResolveLive` follows the recorded moves of the batch exactly as
`resolveLive` does, cycle guard included.  The renumbering of identifiers that two
writers minted independently is not modelled.

### PendingOps

| variable | code |
|---|---|
| `live`, `stack` | `pm.meta`, `pm.opStack` |
| `journal` | the lines of the project's journal file |
| `base` | the tree the remote manifest names |
| `flight` | the `commitSnapshot` in progress |
| `scope` | the instance explored; constant along a behaviour |

One action per verb (`CreateFile`, `Upload`, `Chmod`, `Unlink`, `Mkdir`, `Rmdir`,
`RenameFile`, `RenameDir`, `Prune`, `Release`): guard from the verb's checks, new tree,
and the operations the funnel or the direct path logs, all under `pm.mu`, hence one
step.  `RenameDir` takes every order of the member operations, because the funnel
iterates over Go maps.  `FreezeBatch`, `Land`, `CommitFail`, `ApplyBack` are the commit;
`CrashAndRecover` is the death of the process and the next cold load
(fold, `dropSupersededOps`, replay, hydrate).  Recovery is exact in scopes without
renames (`Steady`); with them it is not, see the disagreements.

### CommitPipeline

| variable | code |
|---|---|
| `hist` | the manifest's revisions; `Tip` is the CAS token the remote accepts |
| `hydrated meta sha base dirty pend seq trig` | the fields of `projectMetadata` and its trigger channel |
| `journal` | newest journalled operation per path |
| `commit` | `commitSnapshot` and the progress of `publishWithRebase`, which gives up after `MaxCommitAttempts` |
| `load` | `loadFlight` and what `storeRepoMetadata` received |
| `probe` | the locals of `admitCandidateSplit` while `pm.mu` is released |
| `accepted`, `landed` | history variables: what was acknowledged, what is settled |

A step is what runs under one hold of `pm.mu`, or one remote call.  A path holds the
timestamp of the write that made it or nothing; rebase conflicts compare contents
and times as `rebaseWorkingTree` does.  Four flags name windows the code leaves open:

- `MidCommit`: mutations arrive between freeze and apply-back;
- `MidLoad`: mutations arrive after a clean load stored its tree and before it
  rewrote the journal;
- `LargeTree`: the tree is past the size that admission accepts without measuring,
  so a growing write releases the lock to probe its candidate;
- `FreshReads`: revision checks and purges reload a project that is already loaded.

### ProjectCache

One project, many *incarnations* of it: the slot holds an entry, eviction removes it,
a miss inserts a new one, and a mutator or a loop may go on with the old one.

| variable | code |
|---|---|
| `slot` | `metaCache[project]` |
| `entry` | `dirty`, `stopped`, `reviving`, the pending operations and the channels of each `projectMetadata` |
| `chan` | a set of `stopCh`, `stoppedCh`, `triggerCh`: whose it is, whether stop is closed, whether a token is in the trigger |
| `loop` | the goroutine `commitLoop` started with those channels; it re-reads the channels of its entry, so it may be parked `on` a later set |
| `flight` | the holder of `commitMu` and its frozen batch |
| `mut` | where each mutator is and which entry and channels it captured |
| `shut`, `drainee`, `shutdowns` | `shuttingDown`, the wait group and the drain |
| `covered`, `settled` | history variables |

`Lookup` hands a mutator the entry; `Publish` is a transaction on a live entry,
`PublishEvicted` one on an entry that was evicted meanwhile.  The second has captured
`stoppedCh` and releases every lock to wait for it (`Waited`); then `tryReviveLocked` is
one of `ReviveDiverged` (a newer entry is in the slot: the loss is logged),
`ReviveLive`, `ReviveForDrain`, `Revive`.  A revival ends in three holds of locks, hence
three actions: `ReviveStart`, `ReviveClear`, `Mark`.  `Poke` sends the token with no lock
held.  `WaitTimeout` is the wait that gave up.  The loop is `LoopWakes`,
`CommitStart`, `CommitNothing`, `CommitLands`, `CommitFails`, `LoopExits`; what a commit
publishes is left to `CommitPipeline`.  Two flags name windows:

- `LateEvictions`: an entry may be evicted between the end of its revival and the
  dirty mark (`commit.go` lines 287 to 293);
- `LateTimeouts`: a revival may time out when a newer entry is already in the slot, or wait
  for a loop that Shutdown kept from ever being started (its `stoppedCh` never closes, so
  that only the timeout ends the wait).

### Sessions

| variable | code |
|---|---|
| `session` | the `openSession` records and `byID`: pins, pending and published names, staging temp, `dirty`, `applied`, `created`, `lastUse`, `s.mu` |
| `table`, `commitMu` | holders of `sh.mu` and of the hub's commit mutex |
| `live`, `data` | the project's namespace and its file contents |
| `call` | each caller's request and the locals of its handler |
| `clock` | coarse time, for expiry |

A caller is a goroutine that serves one request at a time.  An open is `OpenAdmit`,
`OpenPin`, `OpenInsert`, because the table is unlocked while the target is pinned and
counted again after; a call enters through `Lookup` (which waits for the handle while
it holds the table) or `AwaitHandle`.  A commit is `CommitResolve`, `CommitLock`,
`VerbStep` (once per target), `Drain`, `Repin`, and a close goes on with `Reap`, which
has to let one lock go.  `Image` is what is published: the temp of a whole-image
handle, or the handle's ranges patched over the current content, an append's tail at
its end.  `VerbStep` reads the live file; the code works on what it read a little earlier in the same commit, which
differs only in the window `resolve`.  `Rival` is any other writer of the project, who may also cut a file
short (edits past the new end are then refused, `EditsFit`), `Tick` lets handles expire, and
every call sweeps.

### Overlay, FuseLocks and FuseWrite

`Overlay` is `fuse_write*.go` as operators on the state of an open inode: a sparse local
file, the set of dirty bytes (the code's slice of ranges, sorted and merged, is the
set it covers), and the planning of a commit: rounding to chunks, coalescing to
`maxDirtyRanges`, pages of an edit, and what `buildRewrittenChunks` makes of them.

| variable | code |
|---|---|
| `ns`, `stored`, `stamp`, `mode` | the project: directory entries, content, ctime and mode of the file |
| `states`, `current` | `writeState` records; the one in `writeStates` |
| `handle` | open handles: their path, slot, and the progress of their flush, fsync or release |
| `dir` | the one unlink or rename in progress, by the holds of locks it makes |
| `tracked` | the names the mount knows for the inode (`inodePaths`) |
| `recovery`, `mounted` | quarantined overlays on disk; whether the mount serves calls |
| `lockTable`, `lockOwners`, `waiting` | the lock records, which owners a handle unlocks, parked `Setlkw` calls |
| `tracking` | calls whose lock is granted and whose owner the handle has yet to note |
| `granted`, `app` | history: what the owners were told they hold; what the applications wrote and were not told is lost |

`Open`, `Materialize`, `Write`, `SetSize`, `Allocate`, `StageMode` change the overlay.
A commit is `CommitStart`, `CommitPlan`, `CommitVerb` (the call to the hub, which may
fail), `CommitTrim` (the truncate after a patch) and `CommitFinish`, with the state
locked by nobody in between.  A directory operation is `DirStart` (which may snapshot the
base), `DirHub`, `DirHandles`, `DirStates`.  What cannot be committed goes through
`QuarantineStart` (which records the `Fingerprint` of whatever its path names) and `QuarantineSave`; `Crash` ends the process; `Mount` and `Redrive`
are the next one.  `Setlk`, `Setlkw`, `Retry`, `Track`, `Interrupt`, `ReleaseOwner` and
`DropAllLocks` are the locks: a lock is granted under one mutex and its owner noted under another, in two steps; `FilterInPlace` writes what it keeps over the array it
reads, as the Go code does.

### Fanout and FuseNotify

| variable | code |
|---|---|
| `fanoutSeq`, `recent`, `log` | the counter and the ring; history of what changed |
| `tree` | the last publish that changed each name |
| `subscribed`, `pokes`, `cursor`, `poll` | the subscription, its callbacks, `last`, and the callback that holds `mu` |
| `queued`, `granted`, `writing` | `notifyQueued`, holders of a slot before and inside the upcall |
| `tracked`, `kernel` | `pathToInode`; what the kernel would answer by itself |
| `lookup`, `mutation`, `forgets` | requests of the kernel under way |

The kernel is external: it holds a directory while a request on it is in flight, and
an entry notification waits for that.  `PublishPaths` appends to the ring; `PollNext` and
`PollSlot` walk what a callback read, waiting for one of `NotifySlots`; `EndNotify` clears
the mark, `Upcall` writes and returns the slot (`Slots` is who holds one).  A lookup asks the hub (`LookupStart`),
registers its node (`LookupAttach`) and replies (`LookupReply`), and anything may come between.  `MutationStart`,
`MutationHub` (the publish), `MutationAttach` (the mount's table), `MutationNotify`, `MutationSlot`, `MutationReply`
are an operation of this mount, whose handler takes a slot of the same pool before it answers.

### RevisionGate and RestWrite

A path holds a *version*, a position in the log of everything ever published, with
its author, what it was computed from and what it was put over.

| variable | code |
|---|---|
| `tree`, `base`, `sha`, `spent` | `pm.meta`, `pm.baseTree`, `pm.sha`, `casToken` while `casArmed` |
| `due` | the token in the trigger channel of the commit loop |
| `hist` | the trees of the remote's revisions |
| `commit`, `flight` | the commit with the number of its attempt, and the fresh load in flight, with the requests that wait for it |
| `pc`, `gate`, `met`, `snap`, `made` | each handler: where it is, the revision its verb declares, what it found, the version its upload is computed from, its placeholder |
| `tok`, `saw`, `answer` | what the client was given and is answered |
| `log`, `done`, `admitted` | history |

`ClientReads` and `RevisionHeader` are the read that yields the condition, `Precondition`
the funnel of `rest_mutations.go`, `Place` and `PlaceOverLink` the placeholder of an upload,
`Enforce` and `FlightLands` the fresh load that confirms a declared revision, `Loads` the
snapshot before the upload, `Applies` the critical section (gate, checks, publish),
`UploadFails` and `Cleanup` the error path, `Drain` and its successors `?sync=1`,
`Responds` the answer.  A commit starts when a mutation left a token (`LoopWakes`) or a request drains; one
that fails, or whose attempts run out, leaves the project dirty and no token (`Shelved`).  `MovedOn` is the check of a
patch before it publishes, of sizes.  That `CommitPublishes` waits for a fresh load in flight is not a rule of the
code: it is the window `staleload`, shut.

### IndexStore, AssetPool and Prune

| variable | code |
|---|---|
| `heads`, `kept`, `tip`, `objs` | the revisions of the manifest and the oldest one left, commits of the branch, objects in the repository |
| `known` | each hub's object cache |
| `tree`, `dirty`, `version`, `pend`, `sha` | `projectMetadata` |
| `commit`, `seen`, `answer`, `streak` | the commit in flight, the local clone's head, outcomes, consecutive failures |
| `pool`, `listed` | the server's releases and the cached list |
| `latched`, `fence` | degraded mode and the prune fence |
| `up`, `pr` | where each verb and each prune stands |
| `left`, `scene` | what may still go wrong; the instance |

An object is its own address, `<<kind, content>>`, so that two hubs that write equal
content mean one object.  A commit writes its missing objects and then the manifest,
under git in one push and over REST one by one.  An upload is `Admit`, `Pick` (with
`CreateRelease`), one `PutChunk` per chunk, `Rotate` when a release is full, `Publishes`,
or `PutFails` and `Undo`; a rollback is seven steps from `RollbackStarts` to
`RollbackVerifies`.  A prune of assets is `Start`, `AssetsLoad`, `AssetsList`, and per asset `Check`,
`ReadVersion`, `Delete`; then `DropFence`, `Transact`, `Flush`, `Rehold`; objects are
`ObjectsRefs`, `ObjectsList`, `ReadHead` and one of `RemoveByCommit` and `RemoveByObject`;
history is `Revisions` and `Squash`; `Release` lets the fence go.

### RateGovernor and GithubClient

| variable | code |
|---|---|
| `budget`, `window` | `budgetState`; the point window |
| `slots`, `lane` | `inflight`, `contentInflight` |
| `server` | the hourly budget as the server counts it |
| `call` | each request: reserve, park, claim a place in its lane, take a slot, send, classify, sleep |
| `urls` | `assetURLs`, with the ticks a URL lives and the ticks it is trusted for |
| `admitted` | history: what this window admitted |

`ReserveStep`, `Claim`, `Take` and `Release` are `acquireClass` and its end, `Rollback` the
cancellation; a wait for the reset is `HourlyWait`, with `Slack` for the twenty ticks that are added after it was
compared with `maxWait` (`HourlyRefused`), and every throttle sleeps a `Jittered` wait.  `Serve` and `ServeFails` are the server (the effect
happens before the reply can be lost; a fault may carry a `Retry-After`), `Delay` the wait after a reply: a rejection's hint is
kept whole, a fault's is cut at `MaxRetryDelay`.  `Classify` is `classifyAndWait`; `Look`, `Resolve`, `Fetch` are a
download.  `Tick` passes time when every request waits for it, and a bounded number
of times while requests are under way.

## Runs

| run | instance | distinct states | shows |
|---|---|---|---|
| `PendingOps_recovery` | five scopes: renames over files; a directory renamed over its files, with a crash; uploads, unlinks, chunk GC and releases with a crash (twice); directories made and removed with a crash | 495,935 | `StackExact` (`TypeOK`, `IndexesExact`): the maps stay exact; `ReplayEquivalent`, `SurvivorsCarryTheRest`: coalescing keeps the meaning of the batch, whole or cut at a freeze; `RecoveryExact` (`CrashSafe`, `ReplayHarmless`, `FoldMatchesStack`, `NoDanglingChunk`): a crash at any point, also between landing and truncation and with compaction, recovers what was acknowledged |
| `CommitPipeline_faults` | two hubs, two paths; three mutations, or two and two faults, at any point of each other's commits | 318,223 | `CachesSound` (`TypeOK`, `Coherent`), `NothingLost` (`JournalCovers`, `NoSilentLoss`) through failures, lost replies and crashes, and `IndexContract`: every behaviour is one of `SharedIndex` |
| `CommitPipeline_policy` | two hubs, two paths, three mutations and a failed push, no mutation during a commit | 265,264 | `RebasePolicy` (`LastWriterWins`, `DeleteNotDropped`) |
| `CommitPipeline_liveness` | two hubs, one path, three mutations, probes, a failed push, two attempts per commit | 226,352 | `EventuallyCommitted`: a dirty project becomes clean, unless a commit that failed leaves it to the next trigger (`Shelved`); nothing else leaves it there (`ShelvedByFailure`) |
| `ProjectCache_revival` | two mutators, two entries, three evictions, a failed push, a timed-out revival, two Shutdown calls | 87,800 | `NeverStranded`, `LoopsSound` (`TypeOK`, `NoLoopAfterWait`), `ShutdownConverges`, and under fairness `EventuallySettled` |
| `Sessions_commit` | two callers, three handles of which two fit, two names, seven kinds of first handle, three calls, one rival write or truncate | 609,582 | `HandlesSound` (`TypeOK`, `CapRespected`, `InUseIsLive`), `CommitLands`, `NoCallsDeadlock`, `CallsFaithful` (`StrangersSafe`, `NoLostUpdate`, `NoSelfConflict`, `DurableCloseOk`) |
| `FuseWrite_mount` | eleven scenarios: long sequences of writes, truncates and commits; two handles; a rename or unlink; a fault, a restart and a rival; locks | 559,197 | `OverlayExact` (`FileTypeOK`, `ReadBack`), `NothingLost` (`Durable`, `QuarantineExact`), `CalmCommits`, `LocksSound` (`LocksExact`, `LockExclusion`, `NoLostWakeup`, `LocksDieWithHandle`), `OthersSafe` (`StrangersSafe`, `RivalSafe`) |
| `FuseNotify_fanout` | two names, a ring of one, two slots, two publishes, two lookups, an operation | 295,371 | `FanoutSound` (`NotifyTypeOK`, `ScopeComplete`), `NothingStale`, and under fairness `CacheFresh`: no name stays stale in the kernel, unless the slots are `Jammed` for good |
| `RestWrite_gate` | two requests of every kind against each other, with another hub's commit, a failed push or upload, two attempts per commit | 393,677 | `GateSound` (`OneWinner`, `GateMeansPending`), `RequestsSound` (`TypeOK`, `RejectedUntouched`, `FailureHarmless`), `SeenBeforeWritten`, for every verb that declares a revision, `CommitsKept` (`SyncDurable`, `NoRegress`), `GateLives` (`ShelvedByFailure`, `GateReleases`, `RequestsAnswered`) |
| `Prune_reclaim` | two writers, two prunes, another hub, git and REST, seven groups of scenes | 95,591 | `PruneSafe` (`TypeOK`, `PruneAlone`, `IndexReadable`), `ContentKept` (`NothingDangling`, `RecordsExact`), `Reclaims` (`NoLeak`, `PruneThorough`), `AllEnd` (`FenceFreed`, `VerbsEnd`) |
| `GithubClient_requests` | three requests of every kind, two slots, five groups of scenes | 448,753 | `SlotsSound` (`TypeOK`, `SlotsExact`, `ReadLaneOpen`, `NoLostWakeup`), `LimitsKept` (`WindowKept`, `PatienceKept`, `HoldRespected`), `FloorKept`, `RetriesHarmless` (`NoSelfConflict`, `StaleHarmless`), `CallsEnd` |
| `Prune_admitted` | an upload, and a prune of assets that begins while it runs; violation | | the [finding](#finding): `NothingDangling` |

`CHECK_DEADLOCK FALSE` wherever the budgets may be spent with nothing under way;
`RestWrite_gate` checks deadlock, because its behaviours end in an explicit step.

### Bounds

- The stack is a pairwise affair: every merge rule looks at one older operation, so
  four mutations of two names, each logging up to two operations, meet every rule,
  every rule after another one, and every rule across a freeze.  The line cap (`lines`)
  is set so that the journal is compacted in the middle of such a sequence.  Nested
  scopes have two directories with one file name in each: enough for a rename to
  carry a member and for a name to be reused.
- A conflict takes two hubs; a mutation during a rebase takes a third mutation; three
  attempts (`MaxCommitAttempts`) are the code's own bound.  The liveness run and `RestWrite_gate` have two, so
  that so few mutations already exhaust them and the branch that gives up is taken.  Two paths separate "the
  batch" from "the path" in `IndexContract`.  `FewEvents` keeps the product of mutations
  and faults to the pairs; a fault meets every step of a commit, a conflict and a
  recovery either way.
- In `ProjectCache` two mutators are enough for one to wait on channels the other is
  replacing; three evictions let a revived entry go once more; four sets of channels
  are the first two and one revival for each mutator; the second Shutdown call is the
  retry after a drain that failed.
- In `Sessions` `TTL` is 0 and `MaxClock` 1, so that a handle may expire between any two
  steps; a cap of 2 with three handles lets an open be refused and sweep; three calls
  are a write, a link and a close, or two closes and an open.  Two names are a rename
  and a new file under the old name.
- In `FuseWrite` a chunk and a page are two bytes and `MaxDirtyRanges` is 2, so that files
  of 3, 7 and 14 bytes have partial chunks, several chunks and too many ranges; three
  data calls with a commit at any point give every order of write, shrink, grow and
  commit.  Two owners and three lock calls over three bytes split, merge, wait and wake.
- In `FuseNotify` a ring of one makes any second publish overtake a cursor; two slots and two names let notifications fill every
  slot while an operation waits for one.
- In `RestWrite` two requests race through every pair of verbs that conditions tell
  apart; one commit of another hub forces a rebase, one failure covers uploads and pushes.
- In `Prune` a release holds three assets, uploads have one or two chunks: the second
  upload meets a full release.  Two prunes exclude each other; a second foreign commit
  is needed to come between two steps of an object prune.
- In `GithubClient` a window is two ticks and an hour three; eleven points admit two writes
  or a mix; two slots leave one for bulk requests;
  a back-off is at most an hour (`BackoffCap`).  `Slack`, `Jitter` and `MaxRetryDelay` are one tick each, less than a
  `Retry-After` may be.  `PatienceKept` bounds a sleep by `maxWait` with the slack and the jitter that come after the check, and
  after a fault by `MaxRetryDelay`; `withRetry` waits for whatever reset it is told.  `HoldRespected` is about all of
  a rejection's hint and about what `MaxRetryDelay` leaves of a fault's.  `FloorKept` has no scene for a client that starts
  with a low budget it has not been told of.

Hubs, paths, callers, handles and lock owners are symmetric where a run says so;
runs with liveness properties use no symmetry, except the action properties of
`Sessions` and `FuseWrite`, which are about single steps.

### Which scopes exclude what

The passing scopes of `PendingOps` do not contain the combinations of the
disagreements below: file renames with a crash after a landing, uploads over a
renamed file with a crash, making and renaming directories together.  The other
runs close the windows; nothing else is excluded.

### Fairness

Weak fairness of what a goroutine does next, never of what a caller, a fault, an
eviction, an expiry or another hub may do.

- `CommitPipeline`: `CommitLoop(h)`, a goroutine parked on a one-slot channel (`commit.go`
  `commitLoop`) that once woken runs a commit to its end.  The code keeps a failed batch, or one whose rebase attempts ran out, and retries
  with the *next* event, by design: the liveness run has such failures, and the property excuses the state they leave
  (`Shelved`) and says that only they leave it.
- `ProjectCache`: `Mutation(m)`, `LoopStep(c)`, `Shutdown`.  `EventuallySettled` exempts what
  the code itself leaves to the next mutation, a flush or the drain: work after a
  failed push, after a timed-out revival, and after Shutdown began (for which
  `ShutdownConverges` holds).
- `Sessions`: `Serve(c)`, a request in progress; no liveness property uses it, it is what
  `NoCallsDeadlock` speaks of.
- `FuseNotify`: the callbacks, the notifications, the kernel's replies and the handlers.
  A notification is written once the kernel's lock on the directory is free; where it never will be
  (`Jammed`), `CacheFresh` makes no promise.
- `RestWrite`: the handlers and the background (the load in flight, and the commit that
  a token in the trigger channel wakes, to its end).  A push that fails is not retried by itself:
  the revision it was to replace stays used up until the next trigger, which `GateReleases` excuses as `Shelved`.
- `Prune`: writers, prunes and commits.
- `GithubClient`: `Step(c)` and `Tick`.  Requests park without bound only on a condition
  variable; `NoLostWakeup` says that a place in the lane always wakes someone.

## Finding

`Prune_admitted`.  `prune.go` line 87 says "Writes admitted before the prune started are
unaffected".  An upload that was admitted before the fence went up puts its asset, the
prune lists it, the upload publishes into the cached tree.  The check before each
deletion (`revalidate`, `cleanup_purge.go` line 214) rebuilds the tracked sets from the
committed head, which does not name the asset yet: the prune deletes it, and the
file's bytes are gone.  With the window `admitted` shut (a prune also waits for admitted
verbs) `PruneAlone` and `NothingDangling` hold in `Prune_reclaim`.

## Further disagreements

Places where a claim of a comment or a document is false in some instance, for which no run is
kept.  Each instance makes TLC find it.

Of the pending operations, with a scope of `MCPendingOps` as `Scopes`.  Where it says so, the
conjunct `Steady` is to be dropped from the property, which excuses scopes with renames.

| property | instance |
|---|---|
| `NoFileLost` | `Nested`: rename `d` to `e`, make a new `d`, put and delete `d/f`; recovery redirects the delete through the recorded move (`ops_replay.go` line 326) and removes `e/f`; `ops_apply.go` line 393 speaks of an exact target |
| `NoDanglingChunk` without `Steady` | `Fresh`: upload `a`, rename it to `b`, create `a`: the coalesced stack no longer holds the put, and replay of the rename (`ops_apply.go` line 385) restores no chunk record; `ops_intent.go` line 296 says that it does |
| `ReplayHarmless` without `Steady` | `Landed`: upload `a`, rename it to `b`, replace `b`, land, crash before the truncation: the rename is dropped as superseded (`workflows.go` line 504), the put is not, `a` is back; `ops.go` line 64 promises idempotence |
| `NoPhantomDirectory` | `Bare`: a directory that was made and renamed is there twice after recovery |
| `NoDirectoryLost` | `ThereBack`: renaming there and back |
| `DirectoryIdentityKept` | `Remoded`: chmod, mkdir and rename of directories |
| `FoldMatchesStack` without `Steady` | `Compacted`: refolding a compacted journal with renames |
| `NoPhantomFile` | `Rehydrated`: a second crash after a recovery |

Of the commit pipeline and the cache.

| property | instance |
|---|---|
| `NoSilentLoss` | `CommitPipeline` with `LargeTree`: a delete published while the admission probe (`verbs_meta.go` line 524) runs off the lock is overwritten by the probed candidate and never reaches the index; line 495 says concurrent work is kept |
| `JournalCovers` | one hub, one path, one mutation, `MidCommit` and `MidLoad`: a mutation between the store of a clean load and its journal rewrite (`workflows.go` line 456, after `pm.mu` was released) loses its journal line, although `journal.go` line 309 says that both call sites of the rewrite hold `pm.mu` |
| `LastWriterWins` | two hubs, two paths, three mutations, `MidCommit`: a mutation made during a rebased commit survives on a base that already holds a newer rival write (`commit_publish.go` line 200), and a later conflict overwrites that write; `rebase.go` line 186 says "we commit later is not we wrote later" |
| `LastWriterWins` | the instance of `CommitPipeline_policy` with `LargeTree`: the candidate of a probe is published with its old timestamp over what was written meanwhile |
| `DeleteNotDropped` | one crash, two mutations: after a recovery the base is the replayed tree; or one lost reply, three mutations: the hub conflicts with itself |
| `RevisionForward` | one hub, one path, two mutations, `MidLoad` and `FreshReads`: a load that read the head before a commit stores it after |
| `NeverStranded` | `ProjectCache` with `LateEvictions`: after a revival lowered its guard and before it marks the entry dirty (`commit.go` line 291), the entry is evicted once more; the mark and the acknowledgement go to an entry outside the cache, whose loop has been told to stop; line 167 says that never happens.  Also with `LateTimeouts` and one timeout: a newer entry is in the slot, the old one is marked dirty outside it; line 253 says "so the work is never silently stranded" |
| `OneLoop` | `Spec`, two mutators, two entries, four channels, three evictions, both windows shut: one mutator waits on the old `stoppedCh` while the other revives the entry, the entry is evicted again before its new loop has exited, and the first replaces the channels under it; `caches.go` line 52 says the guard prevents that |

Of the other modules, with every window shut.

| property | instance |
|---|---|
| `OperationsReply` | the one of `FuseNotify_fanout`: every slot is held by a notification whose upcall waits for the lock of a directory, which the kernel holds for an operation that notifies before it replies (`evictChild`, `publishEntry`) and waits for a slot (`fuse_notify.go` line 344); line 331 says "Blocking enqueue is deadlock-free by construction", "so no wait cycle exists" |
| `PatchKeepsOthers` | `RestWrite` with `Cases <- ClobberCases`: a replace by content of the same size lands while a patch uploads; the check before the commit compares sizes only (`verbs_upload.go` line 312), and the patch publishes the chunks of the old content around its edit; line 311 says "so a concurrent truncate/replace cannot be clobbered" |
| `FragmentsStay` | the one of `FuseWrite_mount`: a patch whose commit failed is quarantined as ranges, and the next mount redrives it (`fuse_recovery.go` line 357); line 46 says that range fragments "are never auto-redriven" |
| `WaitsBounded` | `GithubClient` with `Cases <- Scarce`: the wait for the hourly reset is compared with `maxWait` (`ratelimit.go` line 472) before the slack (line 475) and the jitter (line 292) are added; line 104 says "maxWait bounds every wait this governor may demand" |

Of the same modules: the window to open and the property that then fails.

| module | window | property | what happens |
|---|---|---|---|
| `Sessions` | `resolve` | `StrangersSafe` | the path is resolved before the wait for `commitMu`; renamed meanwhile, the commit modifies the file that took the name |
| | `reapply` | `CommitLands`, `NoSelfConflict` | after a failed drain an append's tail is applied again with the next write (`sessions_commit.go` lines 26 to 29), a created handle meets its own file |
| | `link` | `CommitLands` | a link after a failed drain keeps `applied`: the new name is never published |
| `FuseWrite` | `tail` | `ReadBack`, `Durable` | an append into the stored last chunk is not widened below the old end (`fuse_write_ranges.go` line 452); the rewrite uploads the whole chunk from a snapshot that has zeros there (`patch.go` line 200) |
| | `pages` | `CalmCommits` | an append longer than a page becomes several edits, of which the second lies past the stored end and is refused (`verbs_upload.go` line 180) |
| | `regrow`, `partial` | `ReadBack`, `Durable`; `partial` only the second | a truncate to nothing and a grow bring stored bytes back; a patch landed, its truncate failed, the size is set back |
| | `snapshot` | `ReadBack` | `commitPatch` clears the dirty ranges before the base is refreshed |
| | `late` | `ReadBack` | an open or a truncate between the snapshot and the removal of the name |
| | `materialize`, `join` | `NothingLost`, `OthersSafe`; `materialize` also `ReadBack` | an open joins a state that is still being made, or being quarantined; a commit of a state that is then no longer current is waited for by no rename |
| | `closetwice` | `Durable` | flush and release both commit (`fuse_file_release.go` line 18) |
| | `hardlink` | `CalmCommits` | the handle's name is not the state's: its commit is refused |
| | `rename` | `ReadBack`, `OthersSafe` | the hub renames before the mount's states are repathed |
| | `takeover` | `NothingLost`, `OthersSafe` | a rename has put another file under the name and the state's path is not rewritten yet: the quarantine records the fingerprint of that file (`fuse_write_snapshot.go` line 227), and the redrive writes over it |
| | `shrink` | `QuarantineExact` | a redrive patches ranges and never truncates |
| `FuseLocks` | `alias`, `quiet`, `forget`, `lastclose` | `LocksExact`, `NoLostWakeup`, `LocksDieWithHandle` | a filter overwrites a record it has not read yet; a `Setlkw` that gives up what it held wakes nobody; a partial unlock forgets the owner; a lock taken between the last close and its cleanup |
| | `threads` | `LocksDieWithHandle` | another thread of the owner closes or unlocks between the grant of a lock and the noting of its owner (`fuse_lock.go` lines 31 to 33, 79 to 80): no handle will release it |
| `FuseNotify` | `deaf`, `negative`, `forget` | `NothingStale` | the subscribed entry is evicted; a lookup answers "no such name" while it is made; a FORGET drops the mount's record of a name the kernel still holds |
| | `unlisted` | `NothingStale` | a publish of unknown scope invalidates all tracked names (`fuse_notify.go` line 517) between the stat of a lookup (`fuse_lookup.go` line 25) and the registration of its node: the stale reply is cached |
| `RestWrite` | `header` | `SeenBeforeWritten` | the tree moves between a read and the revision in its header |
| | `hole`, `symlink` | `RejectedUntouched` | with `HoleCases`: the zeros of a write past the end use up the revision, its data are refused; with a link in the way of a conditional upload (`LinkCases`): a refused upload has taken the link away; `mutate.go` line 91 says a rejected request never applies partially |
| | `spent` | `GateMeansPending` | a verb that fails after the check uses the revision up, with nothing to commit |
| | `cleanup` | `FailureHarmless` | a failed upload deletes what another request wrote to its placeholder |
| | `staleload` | `NoRegress`, `GateMeansPending` | a load that read the head before a commit is stored after it, over a clean tree, and brings back a revision that was used up |
| `Prune` | `gap`, `stale` | `NothingDangling` | the index moves between the check of an asset and its deletion; between the load and the version recorded for it |
| | `lateList`, `lateHead`, `foreign`, `foreignCache`, `lost` | `IndexReadable` | another hub commits between the references and the listing, or before the head that is compared, or during a REST prune; a cache remembers a deleted object, the other hub's or ours after a lost reply |
| `RateGovernor`, `GithubClient` | `refund` | `WindowKept` | a request cancelled after the window rolled over gives its reservation back to the new one (`ratelimit.go` line 391) |
| | `masked` | `HoldRespected` | a secondary rejection is given the reset of the hourly budget, which may come before its own Retry-After (`client.go` line 383); the comment at line 515 says it is honoured exactly |

Observations made while modelling, which no property of a run is about:

- *Sessions*: a `Link` after a `Sync` answers that the name exists; `Sync` repins from the live
  tree after the drain; `getLiveLocked` waits for a handle with the table locked.
- *Mount*: a read-only handle may read backwards in time; an entry with pending names only is
  never redriven; `removeDirtyRangeLocked` edits the slice it ranges over.
- *REST*: `If-Match: *` becomes a comparison with the current revision (412 on verbs that cannot
  enforce one); a bad `?sync` is answered 400 after the mutation; a concurrent delete turns the
  answer of a successful mutation into 404; `preconditionForProjectOp` compares the cached revision
  only.
- *Prune*: in degraded mode the tail of a prune is refused after the remote deletes; re-enabling
  leaves the failure streak; the assets scope looks at the head only; a 404 on a repeated delete
  aborts.
- *Client*: a reservation precedes its slot, so a request may be sent in a later window; a
  window's refusal carries the hourly reset; the reply of an upload is read after `cancel()`;
  retried writes meet their own first attempt; `storage/retry.go` line 33 sleeps to the reset
  without the cap that `config.go` line 101 promises.

## Proofs

Eight modules hold the theorems.  Every theorem is for all values of the constants that
the named assumptions of its module allow (how many hubs, paths, mutators, requests, slots,
faults), with windows open or shut except where it says otherwise; where it shuts one,
the tables above have the behaviour that breaks the property with the window open (of the three theorems about the bytes
of a mount, which share an invariant: that breaks one of their properties).

### CommitPipeline

`CommitPipeline_proofs` proves six theorems for every set of hubs and paths and every
value of the bounds and flags, except where said.

- `TypeCorrect`: `Spec => []TypeOK`.  `TypeOK` is inductive; one lemma per group of
  actions (`TypeLoads`, `TypeMutations`, `TypeCommitStarts`, `TypeCommits`,
  `TypeLeaving`), over lemmas about the operators (`OverlayType`, `ClearType`, …).
- `CacheCoherent`: `~LargeTree => (Spec => []CachesSound)`, which is `TypeOK /\ Coherent`.  With a probe off the lock the
  tree a transaction publishes may be older than the pending operations, and the
  property is false (the row of `NoSilentLoss` above is the behaviour); so the assumption is needed.  `Coherent` alone is not
  inductive: a landing commit replaces the live tree by what it published, so the
  invariant must say what that is while the commit is in flight.  `CacheInv` is, for
  each hub: `ColdIsQuiet` (a cold entry has nothing pending and no commit that will be
  applied over it unseen), `Numbered` (operations are numbered at most `seq`),
  `LoadedTree` (what a load is about to store is a revision with the replayed operations
  on top), `FrozenBatch` (a path's pending operation is the frozen one, or one numbered after
  the freeze; if nothing moved they are all the frozen ones), `WorkingTree` (an attempt that was not rebased publishes the hub's revision with
  the batch on top, and a published tree is the revision it became), `CoherentHub`, and no probe.  `StepFrame` and `OthersKeep`
  show that a step of one hub cannot disturb another's, since revisions are only
  appended; `LoadsKeep`, `MutationsKeep`, `CommitStartsKeep`, `AttemptsKeep`,
  `ApplyKeeps`, `LeavingKeeps` are the step lemmas.
- `NothingLostAlways`: `~LargeTree /\ ~MidLoad => (Spec => []NothingLost)`.  On top of `CacheInv`
  stands `ContractInv`: stamps do not run ahead of the clock (`Clocked`), a pending operation
  is one that a caller was told of and the newest of its hub on that path (`Recorded`), and so
  is what a load replayed (`Replayed`); a batch in flight holds acknowledged
  operations not settled before, and has landed once it is published (`Batch`); `Attempt` says what an attempt publishes.
  On top of that `SafeInv`: what is pending is in the journal and
  what the journal holds beyond it has landed (`Journalled`), so that each acknowledged mutation
  is outranked, landed or journalled (`Accounted`).  `~MidLoad` is needed: between the store of a clean
  load and its journal rewrite a mutation loses its line (the row of `JournalCovers`).
- `ImplementsSharedIndex`: `~LargeTree => (Spec => IndexContract)`, the refinement of `SharedIndex`.
  Acceptance maps to `SharedIndex`'s, a publish to the landing of the batch, the rest to stutters.
  What a publish may change is the hard part: `Attempt` says that its tree is the revision it
  stands on with the operations of the batch that were not outranked, which is what the contract asks for.
- `LastWriterAlwaysWins`: `~LargeTree /\ ~MidCommit => (Spec => LastWriterWins)`, with failures, lost replies and crashes.
  The policy compares an operation with the content at its path only where the two differ from the base, so the
  invariant has to say why the base may be trusted.  `RankInv`, on top of `ContractInv`: a timestamp belongs to one mutation,
  and content to the mutation that wrote it (`Dated`, `HistorySourced`); a pending operation is not
  older than what the base and the revision of its hub hold (`Ahead`), nor one that a load replays (`LoadAhead`); the cache stands still
  during a commit (`Still`); and so what an attempt publishes is not older than what it
  replaces (`Chosen`).  Where the two are equally old they are the same content.
- `RebasePolicyAlways`: with `MaxLost = 0` and `MaxCrashes = 0` also `DeleteNotDropped`, that is `Spec => RebasePolicy`.
  `SeenInv` says that the base is the revision the hub stands on (`Grounded`, as only a crash leaves a journal to replay: `OnlyPending`),
  that pending work is in no revision (`Unlanded`, which a lost reply breaks), and that a pending
  delete removed what the base holds or such work (`DeletesSeen`); no other hub can have written that, since timestamps
  are one hub's.  The rows of the two properties above show each of the four assumptions to be needed.

### ProjectCache

`Background_proofs` proves every invariant of `ProjectCache_revival` for any set of
mutators and any bounds.  The assumptions on the constants are `CacheAssumption`.

- `ShutdownWaitIsFinal`: `Spec => []LoopsSound`, that is `TypeOK /\ NoLoopAfterWait`, windows open or shut.
- `WorkNeverStranded`, `ShutdownSettles`: `~LateEvictions` and `~LateTimeouts` give
  `Spec => []NeverStranded` and `Spec => []ShutdownConverges`.  Both assumptions are
  needed: the row of `NeverStranded` above has the counterexamples.

The properties are about a mutation *after* its acknowledgement, so the invariant has
to follow it through the revival.  It has three layers, each preserved by lemmas per
group of actions (`Lookups…`, `Publications…`, `Revivals…`, `Loops…`, `Shutdown…`):

- `Structure`, which needs no assumption: every set of channels belongs to the entry it
  was made for (`Channels`), a mutator holds an entry that was made (`Holders`), a
  loop and a commit belong to the entry whose channels they use (`LoopsOwned`, `Flights`),
  an entry being revived is live and has one reviver, and its loop is not there
  before the reviver starts it (`Revivals`, `Unstarted`);
- `Reachable`: a live entry is the one in the slot (`LiveInSlot`), an entry about to be
  marked is in the slot (`Marking`, where the two assumptions enter), what a mutator has
  published is pending or settled (`Pending`), an acknowledged mutation is safe
  (`Safe`) and a commit that noticed no move holds everything pending (`InBatch`);
- `Drained`: what was acknowledged before Shutdown and is not settled is pending on the entry
  that the drain has taken or will take (`Draining`).

### Sessions

`Sessions_proofs` is about every property of `Sessions_commit` but the deadlock, for any callers, handles,
inodes and bounds.  `SessionsAssumption` asks for room in the table (`sessions_core.go` line 423 ignores a cap of
zero) and for what the first state needs: two names and two inodes.

| theorem | property | windows that are shut |
|---|---|---|
| `HandlesAlwaysSound` | `HandlesSound` | none |
| `CommitAlwaysLands` | `CommitLands` | `resolve`, `reapply`, `link` |
| `CallsAlwaysFaithful` | `CallsFaithful` | `resolve`, `reapply`, `link` |

The first invariant, `Base`, holds whatever the windows: `Fine` is about one handle (what `applied`, `dirty`,
`pending` and `path` mean for each other, and that the stage extends the pinned bytes and differs from them only
where a write went), `Serving` about a call and the handle it has at each point, `Apart` and `Counted` about
the table.  `StepBase` and `HandleStep` show once that a step which changes one handle, and at most marks or
destroys the rest (`Spared`), keeps it; the actions are then instances.

`CommitLands` speaks of the end of a commit, so `Loyal` says what a handle knows before it: as long as no
other writer has touched its files, the pinned file holds the bytes it was opened with or, once applied, the image; the
names it is to make are free but for the ones it has made; and the targets a commit has been through
hold the image (`Progress`).  A step of another call breaks this only if the handle sees it, and then it is marked
(`Witness`).  `VerbPublishes` says what one verb does to the files, `ImageBytes` what the image is made of; `NoLostUpdate`
rests on it.  The three windows are what breaks `Loyal`: with `reapply` and `link` a handle stays applied and its
bytes go on changing, with `resolve` the path is another file's by the time the verb runs.

The proof corrected the model.  `NoSelfConflict` was a state predicate that held for the bounds of the run only: the record
of a conflict outlives a later `Sync`, which clears the mark.  It is now about the step that refuses, and stronger, so that the
history of who made an inode is no longer needed.

### RestWrite

`RestWrite_proofs` is about every safety property of `RestWrite_gate`, for any set of requests, of
paths and of cases, any number of commits by other hubs and of failures.

| theorem | property | windows that are shut |
|---|---|---|
| `OneWinnerAlways` | `OneWinner` | none |
| `GateAlwaysSound` | `GateSound` | `staleload`, `spent` |
| `CommitsAlwaysKept` | `CommitsKept` | `staleload` |
| `RequestsAlwaysSound` | `RequestsSound` | `hole`, `symlink`, `cleanup`, `staleload` |
| `SeenAlwaysFirst` | `SeenBeforeWritten` | `header`, `hole`, `symlink`, `staleload` |

`OneWinner` is not inductive: it says nothing of which revision may be admitted next,
and the revision of the cached tree may go back, when a load that read the head before
a commit is stored after it.  What saves the gate is that there is one load at a time
and that every declared revision is compared with one.  So `Used` says that the revision
used last is the latest ever used and that no load on its way is older than it;
`Verified` says that a verb past its own load declares nothing that a load started since has not
seen; and `Structure` carries what both need of the rest: shapes, trees made of published
versions (`Versions`), a commit that runs means that the tree differs from its base
and so no load is stored while it does, and a commit takes the revision forward
(`Forward`).  That last part is why a published version must be new: `PublishPuts`,
`RenamePuts`, `EffectPuts`.  The lemmas `…Keep` are about the actions of the project, `…Kept`
about the gate, `…Verified` about the verbs past their load.

`CommitsKept` needs to know where a version goes: into the tree, from there into the tree a commit
froze, from there into a revision.  `Beyond` says that none of these ever goes back from the revision
the cache stands on, `Durable` follows what each request published along the way
(`Holds`, `Landed`).  `staleload` breaks `Beyond`, and all that follows stands on it.

`RequestsSound` and `SeenBeforeWritten` compare what a request did with what it had seen.
`Rooted` says that every path has a version and that there is no link where requests are
conditional, `Ranged` that whatever a request remembers exists.  `Untouched` gives, for each point
a request may be at, what it may have published and declared by then: nothing before its
verb, unless it declared nothing.  `Harmless` follows a placeholder from its creation
to its removal.  `Stands` says that a client which holds the current revision has seen what is in the tree, unless the
revision was used up or a write that declared nothing came since (`Loose`), and `SawIt` keeps that
for each version published, by whatever verb: an upload, a patch, a replace, a delete, a rename or an attribute.  `Stands` is the step from
`OneWinner` to `SeenBeforeWritten`: a revision that
admits one request is worth something only if it still stands for what was read with it.

### GithubClient

`GithubClient_proofs` is about three invariants of `GithubClient_requests`, under the assumptions
`RateAssumption`, `ClientAssumption` and `CasesAssumption` (the last says of the powers of two that they are
positive naturals, as the provers know nothing of exponents).

- `RetriesAlwaysHarmless`: `Spec => []RetriesHarmless`, with any window open.  `MildInv` is about one request
  at a time, at each point of its course: it sleeps only before it starts (`Rested`), for as long as it was
  told to (`Held`), a create is sent once and a URL that is turned down is counted (`Sober`).  It carries over
  because another request can only be woken (`Beside`).
- `SlotsAlwaysSound`: with more than one slot, `Spec => []SlotsSound`.  `Slotted` adds that the counters are the
  cardinalities of their holders, bounded by their limits, and that only bulk requests use the lane; that reads find
  a slot follows by counting.  With one slot the code lets the lane have it, so `Concurrency > 1` is needed.
- `LimitsAlwaysKept`: with `refund` and `masked` shut, `Spec => []LimitsKept`, where a sleep is within `maxWait` plus the slack and
  jitter that are added after the check, or `MaxRetryDelay` after a fault.  That a window stays within its
  points is not inductive, because a cancelled request gives points back: `Windowed` says that the window
  counts at least what was admitted in it *and* that the reads admitted cover what waiting
  reads may still return.

### FuseNotify

`Background_proofs` has both safety properties of `FuseNotify_fanout`, for any finite set of names
(the empty string, which stands for "none", is not one), any ring, slots and bounds
(`FanoutAssumption`, `NotifyAssumption`).

- `FanoutAlwaysSound`: `Spec => []FanoutSound`, with any window open.  `Ring` says that the ring holds the last
  publishes, numbered without a gap and each with the paths of its log entry; from there
  `ScopeAt` is what `PublishedPathsSince` answers a cursor that the ring still reaches.  `Bounded` counts the slots:
  `Slots` is a set with one element for each goroutine that holds one, so that each step adds, moves or
  removes one element.  It needs `Asked`: a mark in `notifyQueued` is one that holds a slot or waits for one, once.
- `NothingStaleAlways`: with `deaf`, `negative`, `forget` and `unlisted` shut, `Spec => []NothingStale`.
  The property speaks of a moment when nothing is under way, so the invariant `Watched` has to follow each value the
  kernel has of a name, or is about to be given by a lookup (`Shown`), from the publish that makes it
  stale: its notification is on its way (`Due`), or the callback has it on its list, or the name changed after the
  cursor, and then a callback is due (`Poked`) and will be told (`Told`).  A name the kernel has is in the mount's
  table, as long as its FORGET is not on its way, which is what an unknown scope relies on;
  a name it holds to be absent is in no table, so for those the ring must still reach the cursor, through
  the publish of an operation that is under way too (`Operating`; `StillKnown` is the step of the ring).

### Prune

`Prune_proofs` proves `PruneAlwaysSafe`: `Spec => []PruneSafe`, for any writers, prunes, scenes, releases and
bounds, over both backends.  `StoreAssumption`, `PoolAssumption` and `PruneAssumption` say who may run a commit and
that every prune of a scene has a scope.  The hypothesis `Shut` closes the windows `admitted`, `lateList`, `lateHead`,
`foreign`, `foreignCache` and `lost`, with each of which the property is false; `gap` and `stale`, which endanger content
and not the index, may be open.

`PruneAlone` says that a prune has the fence, that no admitted verb is under way and that the project is clean.  Its
step lemmas are `TurnAlone` (a prune moves; what it becomes is a record that `Turns` describes) and the frames of the other
actions.  It is what the rest stands on: a clean project has no commit in flight (`Work`), so that nothing a hub is about to
publish can name an object that is going.

`IndexReadable` is not inductive: it says nothing of what is to be removed next, nor of what a cache believes.
`Index` adds three things.  What our cache remembers is in the repository, and what a commit publishes is in the cache or
in its own list (`Built`).  What a prune has listed is no object of a retained revision (`Clear`): over REST until it has
removed it, over git only while the branch is where the head was read, because the delete commit compares that head.  And a
rollback, which neither the fence nor admission stops, publishes objects that it does not upload: its first revision is
still retained as long as the head it compares has not moved (`Rolled`), since a squash moves it.
`ProjectFrame`, `AdvanceFrame`, `PrunerFrame` and `RemovalFrame` carry this through the steps that change the project, add
a revision, move a prune and remove something; one lemma per group of actions applies them.

### FuseWrite

`FuseWrite_proofs` and, for the last three, `FuseData_proofs` prove all five safety properties of `FuseWrite_mount`, for any handles, lock owners, bytes, names,
chunk and page sizes, scenarios and bounds, and whatever is written, as `LocksAssumption`, `OverlayAssumption` and `FuseAssumption`
allow (the handles are finitely many, a scenario maps names to the two files or to none and stores integers).

| theorem | property | windows that are shut |
|---|---|---|
| `LocksAlwaysSound` | `LocksSound` | `alias`, `quiet`, `forget`, `lastclose`, `threads` |
| `OthersAlwaysSafe` | `OthersSafe` | `rename`, `materialize`, `join`, `takeover` |
| `OverlayAlwaysExact` | `OverlayExact` | the eleven of `Sealed`: `regrow`, `tail`, `snapshot`, `late`, `materialize`, `rename`; `pages`, `partial`, `closetwice`, `join`, `takeover` |
| `NothingEverLost` | `NothingLost` | the eleven of `Sealed`, and `shrink` |
| `CalmAlwaysCommits` | `CalmCommits` | the eleven of `Sealed`, and `hardlink` |

The windows that are not named may be open.  With any one of those of the first two theorems open the property is false.
The last three theorems rest on one invariant, which needs all eleven: each of the eleven breaks one of the three properties, as TLC
found with that window alone open.  `OverlayExact` breaks with each of the first six; `NothingLost` with `regrow`, `tail`, `partial`, `closetwice`, `materialize`,
`join`, `takeover` and `shrink`; `CalmCommits` with `pages` and `hardlink`.  Whether it also holds with one of the other windows open is not
proved; TLC finds no violation on the instance of the run.

*Locks.*  `LockInv` is `TableInv`, about the table, and `HandleInv`, about the handles that use it.  `TableInv` says that
the records hold exactly the bytes the owners were told (`Agree`), that some handle remembers each owner it has to unlock,
or is about to note it (`Tracked`), that an owner is parked in one call at most (`Solo`), that a parked call gives nothing up (`Greedy`), and
that one that was not woken is still in conflict.
`HandleInv` says where a handle may have owners or parked calls, and that none is left when the last one takes
the locks.  What a request does to the table is a filter over its records.  `Carved` says what it should leave: the
same bytes for everyone, but those given up.  `CopyCarves` proves it for the filter that builds a new array, by
`FlattenSeq`; `ReleaseCarves` for the one that writes over the array it reads, as the Go code does, which is sound for a release
because it keeps or drops whole records; a partial unlock may keep two of one (window `alias`).  Both are inductions over the records.  The library's induction theorems are out of reach, so `Least` takes a
least counterexample from the well-foundedness of `<`, and `UpTo` turns that into a step from `n` to `n + 1`.

*Names.*  A commit checks its path, and then writes to a name.  That the name is still the file's is not
inductive: it rests on what the mount believes.  `Named` says that the names it tracks are those of the file,
with the one directory operation under way accounted for at each of its steps; `Under` that handles and the
current state have such a name; `Slotted` that an open handle shares the current state, unless that was poisoned, and that
its references are counted, so that a quarantine is alone; `Sends` that a commit holds the current state, and that the
name it sends to is the file's until a directory operation passes the hub, and no other file's after.  The last part is what
three windows break: a rename over the name (`rename`), or a second operation that the first
should have held up, but did not as the commit was of a state no longer current (`materialize`, `join`).
A quarantine records whatever its path names, so that a state which may still be handed over must not name another file (`Untaken`; `takeover`).
`Stamped` says that an overlay whose times are those of the file was taken over its bytes.  Steps of one
handle are instances of `Working` (it stays with its state), `Leaving` and `Reslotting`; those of a directory of `Naming`.

*Data.*  `ReadBack` says what a reader sees now, and `Durable` what is stored when nothing is left to commit.  Neither says
what is on its way.  `DataInv`, on top of `PathInv`, does; it is in `FuseData_proofs`.

- `Covered`: the dirty bytes of the current overlay are what was written, and the clean ones are in the file, or in
  the snapshot of the base once the overlay has no name or is about to lose it; the file is no longer than the base
  unless a patch landed without its truncate (`half`), and then the overlay will still cut it.  `Unmade` and `Grounded` are the same for a state that is still being made and for none.
- `Pending`: what a commit is about to send turns the file into what was written, and what it has sent has done so.
- `Cared`: while something is left to commit, some handle is responsible for it, or was told of its failure.
- `Nameless`, `Staged`, `Placed`, `Removing`: where handles, states and a directory operation stand while names go.
- `Recovered`: a quarantined overlay with a name rebuilds what had been written, over the bytes it was taken over.

`CommitExact` is the lemma about the operators of `Overlay` that the rest needs: whichever verb the plan chooses, a truncate, a
rewrite of chunks, a replace or a patch with or without a truncate, if the store accepts it, the file becomes what was written.  For a
patch that is an induction over the edits (`Patched`, by the number of those applied, from the last in the file to the first): each
leaves the bytes before its start alone, so the offsets of the next need no shift.  That the fold of `Spliced` unfolds at
all is `Folded`.  For a rewrite it needs that no chunk is uploaded which is only
partly planned, which is the window `tail`.  The lemmas `…Kept` are about the actions, `Alike…` say that two overlays which differ in their references or
holder only are alike to the invariant, `Shifting`, `Handling` and `Passing` are the frames of a step of one handle.

*Calm.*  A commit is refused if an edit reaches past the stored end, and only then, or if a call fails.  `CalmInv` says of a run without trouble that the
file is exactly as long as the overlay takes it to be, except while a commit writes it (`Level`), that every handle is on the current state under its
name, and that a patch that was planned is accepted.

The proof corrected the model.  `RivalSafe` compared the bytes of the file with the rival's, and held for the bounds of the run only: after
a remount an overlay may well be taken over what a rival stored, and is rightly redriven.  It now compares them with the bytes
the overlay was taken over, which the history field `over` of an entry keeps.

### Only model-checked

- All liveness, which the prover does not handle, and `NoCallsDeadlock`, which speaks of `ENABLED`.
- `FloorKept`: that the hourly budget keeps its floor depends on how many requests can be under way
  compared with the budget, so it is no statement about all values of the constants.
- Every property of `PendingOps`, and `ContentKept` and `Reclaims` of `Prune`: the stack, the replay and what a rebase makes of the
  trees are folds over a whole history of operations, of which each changes several maps at once.  The library's induction theorems
  are out of reach, as they take an operator as parameter; the folds that are proved about (`Spliced`, the filters of the
  lock table) are inductions by hand, over steps that change one sequence.  The records of `PendingOps` are moreover
  extended with `@@`, which the provers do not translate.

## Not modelled

Whole components, with the reason of each in `PROJECT.json`: migration and revert of
metadata, POSIX attributes and links, chunking, which are pure functions of one call;
the CLI, configuration, logging and the web console.

Inside the modelled components:

- *Commits*: strict-conflict mode, hard links and symlinks, path renames between
  conflicting hubs, identifier collisions between two writers, corrupt journal lines and
  `fsync` ordering, clock skew between hubs.
- *Cache*: the residency limits that choose which entry is evicted (any clean one may be),
  the journal of an evicted project, explicit invalidation, the deadline of a Shutdown call.
- *Sessions*: authorisation, the quarantine of scratch temps, the separate cap per user.
- *Mount*: the pinned content of read-only handles, privilege bits, access checks, the drain
  of an unmount, changes by others while mounted (beyond `Rival`), extended attributes, server-side
  copies, `lseek`, `Getlk`.
- *REST*: authentication, shares, listings, upload sessions over HTTP, project administration,
  access rights.
- *Prune*: dry runs, the legacy layout, listing caps and the inner retries.
- *Client*: the arithmetic of the token bucket (a request may be asked, once, to wait for the
  reset).
