------------------------------ MODULE RestWrite ------------------------------
(***************************************************************************)
(* The mutation endpoints of the REST server, several requests at a time:  *)
(* the client's read that yields a revision or an entity tag, the          *)
(* precondition funnel, the placeholder of an upload, the verb with its    *)
(* revision check, the ?sync=1 drain and the answer                        *)
(* (rest/rest_mutations.go, rest_content*.go, storage/verbs_*.go,          *)
(* transfer.go, fs/io.go, fs/mutate.go).                                   *)
(*                                                                         *)
(* Verbs: "replace" an upload, "write" a range (of a file of the same      *)
(* size), "extend" a write past the end, "append", "delete", "rename"      *)
(* without replacing, "create", "copy", "chmod".  Access rights, degraded  *)
(* mode and the directory tree are left out.                               *)
(***************************************************************************)
EXTENDS RevisionGate

CONSTANT Cases   \* the initial tree, what each request is, the bounds: the runs choose

Verbs == {"replace", "write", "extend", "append", "delete", "rename", "create", "copy", "chmod"}
ASSUME CasesAssumption ==
    \A c \in Cases :
        /\ c.tree \in [Paths -> 1..3]
        /\ c.req \in [Requests -> [verb : Verbs, path : Paths, to : Paths,
                                   cond : {"none", "absent", "revision", "etag"}, sync : BOOLEAN]]
        /\ c.left \in [peers : Nat, fails : Nat]

VARIABLES
    req,      \* request -> [verb, path, to, cond, sync]
    pc,       \* request -> where its handler is
    tok,      \* request -> the revision the client was given, 0: none
    saw,      \* request -> the version the client read
    gate,     \* request -> the revision its verb declares, 0: none
    met,      \* request -> the version the handler found before the verb
    snap,     \* request -> the version the verb based its upload on
    made,     \* request -> its placeholder, 0: none
    answer,   \* request -> the status, 0: none yet
    done,     \* requests whose verb succeeded
    admitted  \* history: <<request, revision>> let through the gate

clientVars == <<req, tok, saw>>
handlerVars == <<gate, met, snap, made, answer, done, admitted>>
vars == <<gateVars, clientVars, pc, handlerVars>>

(* The windows: "header" (the tree moves between the read and its revision *)
(* header), "hole" (a conditional write past the end), "spent" (a verb     *)
(* fails after it consumed the gate), "cleanup" (another request writes to *)
(* the placeholder of an upload that fails), "symlink" (a conditional      *)
(* upload over a symbolic link), "staleload" (a commit lands while a fresh *)
(* load is on its way).                                                    *)
Racing(w) == w \in Races

Path(r) == req[r].path
Here(r) == tree[Path(r)]
Conditional(r) == req[r].cond \in {"revision", "etag"}
Init ==
    \E c \in Cases :
        /\ GateInit(c.tree, c.left)
        /\ req = c.req
        /\ \A r \in Requests :
              /\ (req[r].verb = "extend" /\ Conditional(r)) => Racing("hole")
              /\ ((\E p \in Paths : c.tree[p] = 3) /\ Conditional(r)) => Racing("symlink")
        /\ pc = [r \in Requests |-> IF Conditional(r) THEN "read" ELSE "sent"]
        /\ tok = [r \in Requests |-> 0] /\ saw = tok /\ gate = tok /\ met = tok
        /\ snap = tok /\ made = tok /\ answer = tok
        /\ done = {} /\ admitted = {}

At(r, from) == pc[r] = from
To(r, next) == pc' = [pc EXCEPT ![r] = next]
Answers(r, status) ==
    /\ answer' = [answer EXCEPT ![r] = status]
    /\ To(r, "done")

-----------------------------------------------------------------------------
(* The client.                                                              *)

\* A read serves the cached tree ...
ClientReads(r) ==
    /\ At(r, "read")
    /\ IF Exists(Here(r))
       THEN /\ saw' = [saw EXCEPT ![r] = Here(r)]
            /\ To(r, IF req[r].cond = "revision" THEN "header" ELSE "sent")
       ELSE saw' = saw /\ To(r, "done")
    /\ UNCHANGED <<gateVars, req, tok, handlerVars>>

\* ... and then asks for the revision to put into its header.
RevisionHeader(r) ==
    /\ At(r, "header")
    /\ Here(r) = saw[r] \/ Racing("header")
    /\ tok' = [tok EXCEPT ![r] = sha]
    /\ To(r, "sent")
    /\ UNCHANGED <<gateVars, req, saw, handlerVars>>

\* With "header" closed a read that was overtaken is served again.
ReadAgain(r) ==
    /\ At(r, "header") /\ ~Racing("header")
    /\ Here(r) # saw[r]
    /\ To(r, "read")
    /\ UNCHANGED <<gateVars, clientVars, handlerVars>>

-----------------------------------------------------------------------------
(* The handler up to its verb.                                              *)

Creates(r) == req[r].verb \in {"replace", "create"}
NoRevisions(r) == req[r].verb \in {"copy", "chmod"}

RevisionMatches(r) == req[r].cond = "revision" /\ tok[r] = sha
\* Mutant: an upload with an If-Match on nothing passes.
MatchOnNothing(r) ==
    \/ req[r].cond = "absent" /\ Exists(Here(r))
    \/ Conditional(r) /\ ~RevisionMatches(r) /\ (req[r].cond = "revision" \/ saw[r] # Here(r))
    \/ NoRevisions(r) /\ RevisionMatches(r)
\* What the funnel refuses (preconditionForCreate, -Update, -UpdateNoCAS): an
\* If-Match on nothing, If-None-Match * on something, a tag that is neither the
\* revision nor the entry's, a revision where the verb cannot enforce one.
Refused(r) ==
    \/ Creates(r) /\ ~Exists(Here(r)) /\ Conditional(r)
    \/ req[r].cond = "absent" /\ Exists(Here(r))
    \/ Conditional(r) /\ ~RevisionMatches(r) /\ (req[r].cond = "revision" \/ saw[r] # Here(r))
    \/ NoRevisions(r) /\ RevisionMatches(r)

\* Where a verb begins: only a declared revision is compared with a fresh load.
Entry(g) == IF g = 0 THEN "load" ELSE "verb"

Precondition(r) ==
    /\ At(r, "sent")
    /\ IF Refused(r)
       THEN Answers(r, 412) /\ UNCHANGED <<gate, met>>
       ELSE /\ gate' = [gate EXCEPT ![r] =
                  IF RevisionMatches(r) /\ req[r].verb # "create" THEN tok[r] ELSE 0]
            /\ met' = [met EXCEPT ![r] = Here(r)]
            /\ To(r, IF req[r].verb = "replace" THEN "place" ELSE Entry(gate'[r]))
            /\ answer' = answer
    /\ UNCHANGED <<gateVars, clientVars, snap, made, done, admitted>>

PlaceEmpty(r) ==
    IF Exists(Here(r)) THEN Answers(r, 409) /\ UNCHANGED <<treeVars, made>>
    ELSE /\ Publish(r, Path(r), "file", 0, 0)
         /\ made' = [made EXCEPT ![r] = Len(log) + 1]
         /\ To(r, Entry(gate[r])) /\ UNCHANGED answer

\* createReplacePlaceholder: an upload to a free name makes an empty file first,
\* an upload over a link takes the link away first.
Place(r) ==
    /\ At(r, "place")
    /\ \/ /\ log[met[r]].kind = "file"
          /\ To(r, Entry(gate[r])) /\ UNCHANGED <<treeVars, made, answer>>
       \/ /\ log[met[r]].kind = "link" /\ ~Exists(Here(r))
          /\ Answers(r, 404) /\ UNCHANGED <<treeVars, made>>
       \/ /\ log[met[r]].kind = "link" /\ Exists(Here(r))
          /\ Publish(r, Path(r), "gone", 0, 0)
          /\ To(r, "replace-link") /\ UNCHANGED <<made, answer>>
       \/ log[met[r]].kind = "gone" /\ PlaceEmpty(r)
    /\ UNCHANGED <<base, sha, spent, hist, commit, flight, left>>
    /\ UNCHANGED <<clientVars, gate, met, snap, done, admitted>>

\* ... and makes the empty file after that.
PlaceOverLink(r) ==
    /\ At(r, "replace-link")
    /\ PlaceEmpty(r)
    /\ UNCHANGED <<base, sha, spent, hist, commit, flight, left>>
    /\ UNCHANGED <<clientVars, gate, met, snap, done, admitted>>

-----------------------------------------------------------------------------
(* The verb.                                                                *)

\* A failed upload removes what stands at its name if it made a placeholder.
Fails(r, status) ==
    /\ answer' = [answer EXCEPT ![r] = status]
    /\ To(r, IF made[r] # 0 THEN "cleanup" ELSE "done")

\* enforceExpectedRevision: a declared revision is compared with a fresh load.
Enforce(r) ==
    /\ At(r, "verb")
    /\ To(r, "flying") /\ FlightJoined(r)
    /\ UNCHANGED <<treeVars, base, sha, spent, hist, commit, left, clientVars, handlerVars>>

\* The load ends: it is stored, and every request that waits compares.
FlightLands ==
    /\ flight.on
    /\ Store
    /\ pc' = [r \in Requests |->
           IF r \notin flight.for THEN pc[r]
           ELSE IF gate[r] = flight.sha THEN "load"
           ELSE IF made[r] # 0 THEN "cleanup" ELSE "done"]
    /\ answer' = [r \in Requests |->
           IF r \in flight.for /\ gate[r] # flight.sha THEN 412 ELSE answer[r]]
    /\ flight' = NoFlight
    /\ UNCHANGED <<log, due, spent, hist, commit, left, clientVars, gate, met, snap, made, done, admitted>>

\* The verb resolves its path on the cached tree and starts to upload.
Loads(r) ==
    /\ At(r, "load")
    /\ IF Exists(Here(r)) \/ req[r].verb = "create"
       THEN /\ snap' = [snap EXCEPT ![r] = Here(r)]
            /\ To(r, "apply") /\ answer' = answer
       ELSE Fails(r, 404) /\ snap' = snap
    /\ UNCHANGED <<gateVars, clientVars, gate, met, made, done, admitted>>

\* Uploading the chunks failed (replace, write, extend, append).
UploadFails(r) ==
    /\ At(r, "apply") /\ req[r].verb \in {"replace", "write", "extend", "append"}
    /\ left.fails > 0
    /\ left' = [left EXCEPT !.fails = @ - 1]
    /\ Fails(r, 500)
    /\ UNCHANGED <<treeVars, base, sha, spent, hist, commit, flight>>
    /\ UNCHANGED <<clientVars, gate, met, snap, made, done, admitted>>

\* handleContentReplace, after an error: delete whatever is at the name.
Cleanup(r) ==
    /\ At(r, "cleanup")
    /\ Here(r) = made[r] \/ Racing("cleanup")
    /\ IF Exists(Here(r)) THEN Publish(r, Path(r), "gone", 0, 0) ELSE UNCHANGED <<treeVars>>
    /\ To(r, "done")
    /\ UNCHANGED <<base, sha, spent, hist, commit, flight, left, clientVars, handlerVars>>

\* With "cleanup" closed a stranger's file at the name is left alone.
CleanupSkipped(r) ==
    /\ At(r, "cleanup") /\ ~Racing("cleanup")
    /\ Here(r) # made[r]
    /\ To(r, "done")
    /\ UNCHANGED <<gateVars, clientVars, handlerVars>>

Patches(r) == req[r].verb \in {"write", "extend", "append"}
Size(v) == log[v].size

\* A patch is refused when the file changed size since the snapshot.
MovedOn(r) == Size(Here(r)) # Size(snap[r])

\* What can be wrong once the gate let the verb through, 0 for nothing.
PatchFails(r) == IF ~Exists(Here(r)) THEN 404 ELSE IF MovedOn(r) THEN 500 ELSE 0
RenameFails(r) == IF ~Exists(Here(r)) THEN 404 ELSE IF Exists(tree[req[r].to]) THEN 409 ELSE 0
CreateFails(r) == IF Exists(Here(r)) THEN 409 ELSE 0
MissingFails(r) == IF Exists(Here(r)) THEN 0 ELSE 404
FailsInside(r) ==
    CASE Patches(r) -> PatchFails(r)
      [] req[r].verb \in {"replace", "chmod", "copy"} -> MissingFails(r)
      [] req[r].verb = "rename" -> RenameFails(r)
      [] req[r].verb = "create" -> CreateFails(r)
      [] OTHER -> 0

\* What the verbs publish.  A range of a file is written over the version the upload
\* was computed from; a write past the end first fills the hole with zeros.
WriteEnd(r) == IF req[r].verb = "extend" THEN 3 ELSE 1
WriteAt(r) == Publish(r, Path(r), "file", Max({Size(snap[r]), WriteEnd(r)}), snap[r])
ZeroExtend(r) == Publish(r, Path(r), "file", 2, snap[r])
AppendFile(r) == Publish(r, Path(r), "file", Size(snap[r]) + 1, snap[r])
ReplaceFile(r) == \E n \in {1, 2} : Publish(r, Path(r), "file", n, 0)
CreateFile(r) == Publish(r, Path(r), "file", 0, 0)
Chmod(r) == Publish(r, Path(r), log[Here(r)].kind, Size(Here(r)), Here(r))
Copy(r) == Publish(r, req[r].to, "file", Size(Here(r)), 0)
DeleteFile(r) == Publish(r, Path(r), "gone", 0, 0)
Rename(r) ==
    /\ log' = log \o <<[by |-> r, kind |-> "gone", size |-> 0, from |-> 0, over |-> Here(r)],
                       [by |-> r, kind |-> log[Here(r)].kind, size |-> Size(Here(r)),
                        from |-> 0, over |-> tree[req[r].to]]>>
    /\ tree' = [tree EXCEPT ![Path(r)] = Len(log) + 1, ![req[r].to] = Len(log) + 2]
    /\ due' = TRUE
Effect(r) ==
    \/ req[r].verb = "extend" /\ Size(snap[r]) < 2 /\ ZeroExtend(r)
    \/ req[r].verb = "extend" /\ Size(snap[r]) >= 2 /\ WriteAt(r)
    \/ req[r].verb = "write" /\ WriteAt(r)
    \/ req[r].verb = "append" /\ AppendFile(r)
    \/ req[r].verb = "replace" /\ ReplaceFile(r)
    \/ req[r].verb = "create" /\ CreateFile(r)
    \/ req[r].verb = "chmod" /\ Chmod(r)
    \/ req[r].verb = "copy" /\ Copy(r)
    \/ req[r].verb = "delete" /\ DeleteFile(r)
    \/ req[r].verb = "rename" /\ Rename(r)

\* A write past the end is two patches: the zeros up to its offset, then the data.
MoreToWrite(r) == req[r].verb = "extend" /\ Size(snap[r]) < 2

\* The critical section of the verb: the gate, the checks, the publish.  A delete
\* looks for the file before the gate.
Applies(r) ==
    /\ At(r, "apply")
    /\ IF req[r].verb = "delete" /\ ~Exists(Here(r))
       THEN Fails(r, 404) /\ UNCHANGED <<treeVars, spent, done, admitted>>
       ELSE IF ~GatePasses(gate[r])
       THEN Fails(r, 412) /\ UNCHANGED <<treeVars, spent, done, admitted>>
       ELSE /\ admitted' = admitted \cup ({<<r, gate[r]>>} \ {<<r, 0>>})
            /\ IF FailsInside(r) # 0
               THEN /\ gate[r] = 0 \/ Racing("spent")
                    /\ Arm(gate[r])
                    /\ Fails(r, FailsInside(r)) /\ UNCHANGED <<treeVars, done>>
               ELSE /\ Effect(r) /\ Arm(gate[r])
                    /\ answer' = answer
                    /\ IF MoreToWrite(r) THEN To(r, "load") /\ done' = done
                       ELSE /\ done' = done \cup {r}
                            /\ To(r, IF req[r].sync THEN "drain" ELSE "respond")
    /\ UNCHANGED <<base, sha, hist, commit, flight, left, clientVars, gate, met, snap, made>>

\* With "spent" closed the gate is not consumed by a verb that fails.
FailsUnspent(r) ==
    /\ At(r, "apply") /\ req[r].verb # "delete"
    /\ gate[r] # 0 /\ ~Racing("spent")
    /\ GatePasses(gate[r]) /\ FailsInside(r) # 0
    /\ Fails(r, FailsInside(r))
    /\ UNCHANGED <<gateVars, clientVars, gate, met, snap, made, done, admitted>>

-----------------------------------------------------------------------------
(* After the verb.                                                          *)

\* DrainProjectContext: one commit at least when anything is pending, and more
\* while something published before the drain is.
Drain(r) ==
    /\ At(r, "drain") /\ Dirty
    /\ CommitBegins(r) /\ UNCHANGED due
    /\ To(r, "round")
    /\ UNCHANGED <<clientVars, handlerVars>>

DrainEnds(r) ==
    /\ At(r, "drain") /\ commit.pc = "idle" /\ ~Dirty
    /\ To(r, "respond")
    /\ UNCHANGED <<gateVars, clientVars, handlerVars>>

Applied ==
    /\ CommitApplies
    /\ pc' = IF commit.by \in Requests THEN [pc EXCEPT ![commit.by] = "respond"] ELSE pc
    /\ UNCHANGED <<clientVars, handlerVars>>

\* A drain that fails answers 500 with the mutation in place.
Failed ==
    /\ PushFails
    /\ IF commit.by \in Requests THEN Answers(commit.by, 500) ELSE UNCHANGED <<pc, answer>>
    /\ UNCHANGED <<clientVars, gate, met, snap, made, done, admitted>>

\* The entry a request is answered with.
Node(r) == IF req[r].verb \in {"rename", "copy"} THEN req[r].to ELSE Path(r)
\* respondWithNode stats the entry once more; a delete has nothing to stat.
Responds(r) ==
    /\ At(r, "respond")
    /\ Answers(r, IF req[r].verb = "delete" \/ Exists(tree[Node(r)]) THEN 200 ELSE 404)
    /\ UNCHANGED <<gateVars, clientVars, gate, met, snap, made, done, admitted>>

-----------------------------------------------------------------------------

Handle(r) ==
    \/ ClientReads(r) \/ RevisionHeader(r) \/ ReadAgain(r)
    \/ Precondition(r) \/ Place(r) \/ PlaceOverLink(r)
    \/ Enforce(r) \/ Loads(r) \/ UploadFails(r) \/ Cleanup(r) \/ CleanupSkipped(r)
    \/ Applies(r) \/ FailsUnspent(r)
    \/ Drain(r) \/ DrainEnds(r) \/ Responds(r)

Background ==
    \/ FlightLands \/ Applied \/ Failed
    \/ (LoopWakes \/ CommitPublishes \/ CommitRebases) /\ UNCHANGED <<clientVars, pc, handlerVars>>

Peers == \E p \in Paths : PeerCommits(p) /\ UNCHANGED <<clientVars, pc, handlerVars>>

AllDone == (\A r \in Requests : At(r, "done")) /\ commit.pc = "idle" /\ ~due /\ UNCHANGED vars

Next == (\E r \in Requests : Handle(r)) \/ Background \/ Peers \/ AllDone

\* A handler runs on, a load ends, a token wakes the commit loop, a commit ends.
Fairness ==
    /\ \A r \in Requests : WF_vars(Handle(r))
    /\ WF_vars(Background)

Spec == Init /\ [][Next]_vars /\ Fairness

-----------------------------------------------------------------------------
(* Properties.                                                              *)

Statuses == {0, 200, 404, 409, 412, 500}
Published(r) == {v \in DOMAIN log : log[v].by = r}
Wins(r) == r \in done

\* Types.
TypeOK ==
    /\ tree \in [Paths -> DOMAIN log] /\ base \in [Paths -> DOMAIN log]
    /\ sha \in 1..Tip /\ spent \in 0..Tip
    /\ \A h \in DOMAIN hist : hist[h] \in [Paths -> DOMAIN log]
    /\ commit.prev \in 0..Tip /\ flight.sha \in 0..Tip /\ flight.for \subseteq Requests
    /\ tok \in [Requests -> 0..Tip] /\ gate \in [Requests -> 0..Tip]
    /\ \A r \in Requests : {saw[r], met[r], snap[r], made[r]} \subseteq 0..Len(log)
    /\ answer \in [Requests -> Statuses] /\ done \subseteq Requests

\* A revision is worth one mutation: of the requests that declare the same one, at
\* most one gets past the check (checkRevisionGateLocked, pm.casArmed).
OneWinner ==
    \A a, b \in admitted : a[2] = b[2] => a = b

\* A revision that was used up stands for work that is still to be committed: with
\* nothing pending no commit comes that would give the clients a new revision, and
\* every conditional request answers 412 (checkRevisionGateLocked 107).
GateMeansPending ==
    spent = sha => Dirty

\* A request answered 412 has changed nothing: a rejected compare-and-swap never
\* applies partially (storage/mutate.go 91).
RejectedUntouched ==
    \A r \in Requests : answer[r] = 412 => Published(r) = {}

\* A request whose verb failed leaves nothing behind and takes nothing of another:
\* all it published are its own placeholder and the removal of it
\* (handleContentReplace).  Two verbs are excused: a write past the end may leave its
\* zeros, and an upload over a symbolic link has taken the link away.
FailureHarmless ==
    \A r \in Requests :
        At(r, "done") /\ answer[r] # 0 /\ ~Wins(r) /\ req[r].verb # "extend"
        /\ (met[r] # 0 => log[met[r]].kind # "link") =>
        /\ made[r] # 0 => tree[Path(r)] # made[r]
        /\ \A v \in Published(r) : v = made[r] \/ (made[r] # 0 /\ log[v].over = made[r])

\* A mutation that declares a revision, whatever its verb, is put over what its client
\* had read, or, where a rename lands, over nothing; only writes that declared nothing
\* and are not committed yet may lie between (mutationPrecondition, setRevisionHeader,
\* checkRevisionGateLocked).
SeenBeforeWritten ==
    \A v \in DOMAIN log :
        LET r == log[v].by
            o == log[v].over
        IN  r \in Requests /\ gate[r] # 0 /\ o # saw[r] =>
                \/ log[o].by = r
                \/ log[o].by \in Requests /\ gate[log[o].by] = 0
                      /\ \A h \in 1..tok[r] : hist[h][Path(r)] # o
                \/ req[r].verb = "rename" /\ ~Exists(o)

\* A write of a range, an extension or an append is put over the content it was
\* computed from: what another request wrote meanwhile is not overwritten with old
\* bytes, "so a concurrent truncate/replace cannot be clobbered"
\* (patchFileWithMetadataContext).  The code, which compares sizes, does not keep it.
PatchKeepsOthers ==
    \A v \in DOMAIN log : log[v].from # 0 => log[v].from = log[v].over

\* A request answered 200 with ?sync=1 is in a committed revision, or a commit has
\* found a newer version upstream (maybeDrain, DrainProjectContext).
SyncDurable ==
    \A r \in Requests : answer[r] = 200 /\ req[r].sync =>
        \A v \in Published(r) :
            \E h \in DOMAIN hist : \E p \in {Path(r), req[r].to} : hist[h][p] >= v

\* Following a load, the cached tree never goes back behind a committed revision the
\* project was at (storeRepoMetadata).
NoRegress ==
    [][flight.on /\ flight' = NoFlight => sha' >= sha /\ \A p \in Paths : tree'[p] >= tree[p]]_vars

\* Work is only left without a token by a commit that failed or is out of attempts.
ShelvedByFailure ==
    [][~Shelved /\ Shelved' => commit.pc = "publish" /\ commit'.pc = "idle"]_vars

\* A revision that was used up is replaced by a new one, unless the commit that was to
\* replace it gives up: then every request that declares it answers 412 until a
\* mutation without one wakes the commit loop.
GateReleases ==
    spent # 0 /\ spent = sha ~> spent # sha \/ Shelved

\* Every request is answered, whatever fails: the readers that found nothing aside
\* (the flight, the drain and the placeholder wait for nobody that waits for them).
RequestsAnswered ==
    \A r \in Requests : At(r, "sent") ~> At(r, "done")

\* A request that is refused or fails leaves no trace of its own
\* (mutate.go, handleContentReplace).
RequestsSound == TypeOK /\ RejectedUntouched /\ FailureHarmless

\* What a client was told is committed stays so (maybeDrain, storeRepoMetadata).
CommitsKept == []SyncDurable /\ NoRegress

\* A revision is worth one mutation, and one that was used up stands for work to
\* commit (checkRevisionGateLocked).
GateSound == OneWinner /\ GateMeansPending

\* The gate reopens as long as no commit gives up, and every request is answered
\* (checkRevisionGateLocked 107, commitLoop).
GateLives == ShelvedByFailure /\ GateReleases /\ RequestsAnswered

=============================================================================
