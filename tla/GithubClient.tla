---------------------------- MODULE GithubClient ----------------------------
(***************************************************************************)
(* Requests to the API with their retries (github/client.go), and ranged   *)
(* downloads through signed URLs that are cached per asset                 *)
(* (github/transfer.go) and retried once more by the caller                *)
(* (storage/retry.go).  Admission is RateGovernor's.                       *)
(*                                                                         *)
(* The server counts core requests against the hourly budget, may fail, may *)
(* lose a reply after the request took effect, and refuses to create or    *)
(* delete the same thing twice.  A signed URL works for as long as it      *)
(* lives; the cache trusts it for a time of its own.                       *)
(*                                                                         *)
(* Windows (constant Races) in which the code's rules do not suffice:      *)
(*   refund   a request cancelled after the window rolled over gives its   *)
(*            reservation back to the new window                           *)
(*   masked   a secondary rejection is given the reset of the hourly       *)
(*            budget, which may come before its own Retry-After            *)
(***************************************************************************)
EXTENDS RateGovernor

CONSTANTS
    MaxRetries,   \* Client.maxRetries
    UrlLife,      \* ticks a signed URL works
    UrlMargin,    \* assetURLSafetyMargin
    UrlCap,       \* assetURLCacheCap
    BackoffCap,   \* secondaryBackoffCap
    MaxRetryDelay, \* Config.MaxRetryDelay
    Cases         \* the scenes

ASSUME ClientAssumption ==
    /\ {MaxRetries, UrlLife, UrlMargin, UrlCap, BackoffCap, MaxRetryDelay} \subseteq Nat
    /\ UrlMargin <= UrlLife /\ Window <= BackoffCap /\ BackoffCap <= Hour
    /\ \A n \in 0..MaxRetries : 2^n \in Nat \ {0}

ASSUME CasesAssumption ==
    \A s \in Cases :
        /\ s.kinds \in [Calls -> {"get", "put", "post", "upload", "delete", "download", "none"}]
        /\ s.maxWait \in Int /\ s.maxWait <= Hour /\ s.left \in 0..Limit
        /\ s.seen \in BOOLEAN /\ s.cancels \in BOOLEAN
        /\ s.trouble \in [faults : Nat, rejects : Nat, peers : Nat, ticks : Nat]

VARIABLES
    urls,    \* assetURLs: asset -> ticks the URL lives and is trusted for
    left     \* the failures still to come

vars == <<scene, govVars, server, call, urls, left>>

Asset(c) == scene.assets[c]
Download(c) == Kind(c) = "download"
Fresh == [pc |-> "ready", attempt |-> 0, outer |-> 0, round |-> 0, sleep |-> 0,
          mine |-> FALSE, paced |-> FALSE, reply |-> NoReply, hold |-> 0, eff |-> 0,
          url |-> 0, cached |-> FALSE, refused |-> 0, answer |-> "none"]
\* What a finished request leaves behind: its answer, and what it did.
Answers(c, a) ==
    [call EXCEPT ![c] = [Fresh EXCEPT !.pc = "done", !.answer = a, !.eff = call[c].eff, !.refused = call[c].refused]]

-----------------------------------------------------------------------------
(* The server.                                                             *)

Writes(c) == Kind(c) \in {"put", "post", "upload", "delete"}
Effect(c) == IF Writes(c) THEN 1 ELSE 0
Counted(c) == IF Core(c) THEN [server EXCEPT !.left = Spent(@)] ELSE server
Reply(c, s) ==
    [status |-> s, live |-> Core(c), after |-> 0, left |-> IF Core(c) THEN Spent(server.left) ELSE -1]
Exhausted(c) == Core(c) /\ server.left = 0
Delivers(c, r, hold, eff) ==
    call' = [call EXCEPT ![c].pc = "release", ![c].reply = r, ![c].hold = hold, ![c].eff = eff]

Serve(c) ==
    /\ At(c, "send")
    /\ IF Exhausted(c)
       THEN Delivers(c, Reply(c, "limited"), server.resetIn, call[c].eff)
       ELSE IF call[c].eff > 0 THEN Delivers(c, Reply(c, "exists"), 0, call[c].eff)
       ELSE Delivers(c, Reply(c, "ok"), 0, Effect(c))
    /\ server' = Counted(c)
    /\ UNCHANGED <<scene, govVars, urls, left>>

\* Trouble of the server or the network, before or after the request took
\* effect.  The deadline of an upload ends with its headers, so that the reply
\* may be cut off as well.
Hinted(c, s, after) == [Reply(c, s) EXCEPT !.after = after]
Least(a, b) == IF a < b THEN a ELSE b
ServeFails(c) ==
    /\ At(c, "send") /\ left.faults > 0 /\ ~Exhausted(c)
    /\ left' = [left EXCEPT !.faults = @ - 1]
    /\ \/ \E done \in {call[c].eff, Effect(c)} : Delivers(c, Reply(c, "lost"), 0, done)
       \/ \E after \in {0, 1, Window}, done \in {call[c].eff, Effect(c)} :
            Delivers(c, Hinted(c, "fault", after), Least(after, MaxRetryDelay), done)
       \/ Class(c) = "upload" /\ Delivers(c, Reply(c, "cut"), 0, 1)
       \/ \E after \in {0, 1, Window} :
            LET hold == IF after = 0 THEN Window ELSE after
            IN  /\ Open("masked") \/ server.resetIn >= hold
                /\ Delivers(c, Hinted(c, "secondary", after), hold, call[c].eff)
    /\ server' \in {server, Counted(c)}
    /\ server' # Counted(c) => call'[c].reply.status = "lost" /\ call'[c].eff = call[c].eff
    /\ UNCHANGED <<scene, govVars, urls>>

CancelSent(c) ==
    /\ At(c, "send") /\ scene.cancels
    /\ \E done \in {call[c].eff, Effect(c)} : Delivers(c, Reply(c, "canceled"), 0, done)
    /\ server' = Counted(c)
    /\ UNCHANGED <<scene, govVars, urls, left>>

Peer ==
    /\ left.peers > 0 /\ server.left > 0
    /\ left' = [left EXCEPT !.peers = @ - 1]
    /\ server' = [server EXCEPT !.left = @ - 1]
    /\ UNCHANGED <<scene, govVars, call, urls>>

-----------------------------------------------------------------------------
(* classifyAndWait.                                                        *)

Retryable(c) == Kind(c) # "post"
RateLimited(r) == r.status \in {"denied", "limited", "secondary"}
Transient(r) == RateLimited(r) \/ r.status \in {"fault", "lost"}
Backoff(n) == IF Window * 2^n < BackoffCap THEN Window * 2^n ELSE BackoffCap
UntilReset(live) == IF live THEN server.resetIn ELSE 0

\* Mutant: only a reset is waited for, a Retry-After is forgotten.
ResetOnly(r, n) == {IF RateLimited(r) THEN UntilReset(r.live) ELSE 0}
\* For a rejection the reset, if one is known (the snapshot's stands in for a
\* missing one), or its Retry-After, in full; a backoff is jittered.  Anything
\* else waits for MaxRetryDelay at most, whatever its Retry-After says.
Delay(r, n) ==
    CASE r.status = "limited" -> {UntilReset(r.live)}
      [] r.status = "denied" -> IF r.left < 0 THEN Jittered(Backoff(n)) ELSE {UntilReset(r.live)}
      [] r.status = "secondary" ->
            IF budget.seen /\ budget.live THEN {server.resetIn}
            ELSE IF r.after > 0 THEN {r.after} ELSE Jittered(Backoff(n))
      [] OTHER -> IF r.after > 0 THEN {Least(r.after, MaxRetryDelay)} ELSE 0..(MaxRetryDelay + Jitter)

\* The same request, or the whole download, once more after a wait.
Retry(c, wait) ==
    [call EXCEPT ![c].pc = "ready", ![c].sleep = wait, ![c].attempt = @ + 1, ![c].paced = FALSE,
                 ![c].mine = FALSE, ![c].reply = NoReply]
Again(c, wait) ==
    [call EXCEPT ![c].pc = "look", ![c].url = 0, ![c].reply = NoReply, ![c].attempt = 0, ![c].sleep = wait, ![c].outer = @ + 1, ![c].round = 0]

\* withRetry, around a whole download; it waits for whatever reset it is told.
GivesUp(c) ==
    LET r == call[c].reply
    IN  IF Download(c) /\ Transient(r) /\ call[c].outer < MaxRetries
        THEN {Again(c, d) : d \in Delay(r, call[c].outer)}
        ELSE {Answers(c, "failed")}

Retries(c) ==
    LET r == call[c].reply
    IN  UNION {IF call[c].attempt < MaxRetries /\ Retryable(c) /\ (RateLimited(r) => d <= MaxWait)
               THEN {Retry(c, d)}
               ELSE GivesUp(c) : d \in Delay(r, call[c].attempt)}

\* Expired entries go, and one that expires soonest while there are too many.
Pruned(f) ==
    LET fresh == {a \in DOMAIN f : f[a].trust > 0}
        kept  == [a \in fresh |-> f[a]]
        soon  == {a \in fresh : \A b \in fresh : f[a].trust <= f[b].trust}
    IN  IF Cardinality(DOMAIN f) <= UrlCap THEN {f}
        ELSE IF Cardinality(fresh) <= UrlCap THEN {kept}
        ELSE {[a \in fresh \ {v} |-> f[a]] : v \in soon}

\* A signed URL whose expiry is known, and one whose life is overestimated.
Signed == {[life |-> UrlLife, trust |-> UrlLife - UrlMargin], [life |-> 1, trust |-> UrlLife - UrlMargin]}

Stored(c, u) ==
    [a \in DOMAIN urls \cup {Asset(c)} |-> IF a = Asset(c) THEN u ELSE urls[a]]

Classify(c) ==
    /\ At(c, "classify")
    /\ LET s == call[c].reply.status
       IN  IF s = "ok" /\ Download(c)
           THEN \E u \in Signed :
                  /\ urls' \in Pruned(Stored(c, u))
                  /\ call' = [call EXCEPT ![c].pc = "fetch", ![c].url = u.life, ![c].cached = FALSE,
                                          ![c].reply = NoReply]
           ELSE /\ UNCHANGED urls
                /\ call' \in IF s \in {"ok", "exists", "canceled"} THEN {Answers(c, s)}
                             ELSE IF s = "cut" THEN {Answers(c, "failed")}
                             ELSE Retries(c)
    /\ UNCHANGED <<scene, govVars, server, left>>

CancelSleep(c) ==
    /\ call[c].sleep > 0 /\ scene.cancels
    /\ call' = Answers(c, "canceled")
    /\ UNCHANGED <<scene, govVars, server, urls, left>>

-----------------------------------------------------------------------------
(* DownloadAssetStream.                                                    *)

Resolve(c, calls) ==
    [calls EXCEPT ![c].pc = "ready", ![c].attempt = 0, ![c].paced = FALSE, ![c].mine = FALSE,
                  ![c].reply = NoReply]

Look(c) ==
    /\ At(c, "look") /\ call[c].sleep = 0
    /\ call' = IF Asset(c) \in DOMAIN urls /\ urls[Asset(c)].trust > 0
               THEN [call EXCEPT ![c].pc = "fetch", ![c].url = urls[Asset(c)].life, ![c].cached = TRUE]
               ELSE Resolve(c, call)
    /\ UNCHANGED <<scene, govVars, server, urls, left>>

Forgotten(c) == [a \in DOMAIN urls \ {Asset(c)} |-> urls[a]]

\* The URL is turned down.  A cached one is resolved again; so is a fresh one,
\* but once.  The caller repeats the download if the status is a transient one.
\* Mutant: a cached URL that is turned down ends the download.
EndsOnStale(c) ==
    /\ call' = Answers(c, "rejected")
    /\ urls' = Forgotten(c)
TurnedDown(c) ==
    LET fresh == [call EXCEPT ![c].refused = @ + 1]
    IN  IF call[c].cached THEN urls' = Forgotten(c) /\ call' = Resolve(c, call)
        ELSE IF call[c].round = 0
        THEN urls' = Forgotten(c) /\ call' = [fresh EXCEPT ![c].pc = "look", ![c].round = 1]
        ELSE /\ UNCHANGED urls
             /\ call' \in {[Answers(c, "rejected") EXCEPT ![c].refused = @ + 1]}
                   \cup IF call[c].outer < MaxRetries THEN {[Again(c, 0) EXCEPT ![c].refused = @ + 1]} ELSE {}

Fetch(c) ==
    /\ At(c, "fetch")
    /\ IF call[c].url > 0
       THEN call' = Answers(c, "ok") /\ UNCHANGED urls
       ELSE TurnedDown(c)
    /\ UNCHANGED <<scene, govVars, server, left>>

\* The CDN turns down a good URL, or fails otherwise.
FetchFails(c) ==
    /\ At(c, "fetch") /\ left.rejects > 0
    /\ left' = [left EXCEPT !.rejects = @ - 1]
    /\ \/ TurnedDown(c)
       \/ /\ call' = IF call[c].outer < MaxRetries THEN Again(c, 0) ELSE Answers(c, "failed")
          /\ UNCHANGED urls
    /\ UNCHANGED <<scene, govVars, server>>

-----------------------------------------------------------------------------
(* Time passes when every request waits for it, and scene.trouble.ticks     *)
(* times while requests are under way.                                     *)

Waiting ==
    \A c \in Calls : At(c, "done") \/ At(c, "parked") \/ call[c].sleep > 0
Sooner(n) == IF n > 0 THEN n - 1 ELSE 0
Tick ==
    /\ \E c \in Calls : ~At(c, "done")
    /\ \/ Waiting /\ UNCHANGED left
       \/ ~Waiting /\ left.ticks > 0 /\ left' = [left EXCEPT !.ticks = @ - 1]
    /\ LET resets == server.resetIn = 1
       IN  /\ server' = IF resets THEN [left |-> Limit, resetIn |-> Hour]
                        ELSE [server EXCEPT !.resetIn = @ - 1]
           /\ budget' = [budget EXCEPT !.live = @ /\ ~resets]
           /\ call' = [c \in Calls |->
                        [call[c] EXCEPT !.sleep = Sooner(@), !.hold = Sooner(@), !.url = Sooner(@),
                                        !.reply.live = @ /\ ~resets]]
    /\ window' = [window EXCEPT !.age = IF @ < Window THEN @ + 1 ELSE @]
    /\ urls' = [a \in DOMAIN urls |-> [life |-> Sooner(urls[a].life), trust |-> Sooner(urls[a].trust)]]
    /\ UNCHANGED <<scene, slots, lane, admitted>>

Governed(c) ==
    /\ ReserveStep(c) \/ Claim(c) \/ Take(c) \/ Release(c) \/ Unlane(c) \/ Observe(c)
    /\ UNCHANGED <<urls, left>>
Step(c) ==
    Governed(c) \/ Serve(c) \/ Classify(c) \/ Look(c) \/ Fetch(c)
Trouble(c) ==
    \/ ServeFails(c) \/ CancelSent(c) \/ CancelSleep(c) \/ FetchFails(c)
    \/ CancelWaiting(c) /\ UNCHANGED <<urls, left>>

Next == Tick \/ Peer \/ \E c \in Calls : Step(c) \/ Trouble(c)

Init ==
    /\ scene \in Cases
    /\ budget = [seen |-> scene.seen, left |-> IF scene.seen THEN scene.left ELSE 0, live |-> scene.seen]
    /\ window = [age |-> 0, points |-> 0, content |-> 0]
    /\ slots = 0 /\ lane = 0 /\ admitted = Nothing
    /\ server = [left |-> scene.left, resetIn |-> Hour]
    /\ call = [c \in Calls |->
                 [Fresh EXCEPT !.pc = IF Kind(c) = "none" THEN "done" ELSE IF Download(c) THEN "look" ELSE @]]
    /\ urls = [a \in {} |-> 0] /\ left = scene.trouble

Fairness == WF_vars(Tick) /\ \A c \in Calls : WF_vars(Step(c))
Spec == Init /\ [][Next]_vars /\ Fairness

-----------------------------------------------------------------------------
Longest == Greatest(Hour + Slack, MaxRetryDelay) + Jitter
TypeOK ==
    /\ budget.left \in 0..Limit /\ server.left \in 0..Limit /\ server.resetIn \in 1..Hour
    /\ window.age \in 0..Window /\ slots \in 0..Concurrency /\ lane \in 0..LaneLimit
    /\ Cardinality(DOMAIN urls) <= UrlCap
    /\ \A c \in Calls : call[c].attempt <= MaxRetries /\ call[c].outer <= MaxRetries /\ call[c].sleep <= Longest

\* A request sleeps for no longer than its caller is ready to wait, but for the
\* slack and the jitter that come after the check, and but for the wait after a
\* fault, which MaxRetryDelay bounds; a whole download that is repeated
\* (withRetry) waits for whatever reset it is told.
Patience == Greatest(Greatest(MaxWait, 0) + Slack, MaxRetryDelay) + Jitter
PatienceKept == \A c \in Calls : At(c, "ready") => call[c].sleep <= Patience

\* "maxWait bounds every wait this governor may demand" (ratelimit.go), which the code
\* exceeds by slack and jitter.
WaitsBounded == \A c \in Calls : At(c, "ready") /\ call[c].paced => call[c].sleep <= Greatest(MaxWait, 0)

\* A request is not put on the wire before the time the server told it to wait:
\* all of it after a rejection, MaxRetryDelay of it after a fault (ServeFails).
HoldRespected == \A c \in Calls : At(c, "send") => call[c].hold = 0

\* A request that must not be repeated is never reported as refused because its
\* own first attempt took effect.
NoSelfConflict == \A c \in Calls : ~(Kind(c) = "post" /\ call[c].answer = "exists" /\ call[c].eff > 0)

\* A download fails for a rejected URL only if a URL it resolved itself was
\* turned down twice; an old URL in the cache never fails it.
StaleHarmless == \A c \in Calls : call[c].answer = "rejected" => call[c].refused >= 2

\* Every request ends.
CallsEnd == <>(\A c \in Calls : At(c, "done"))

\* The slots count their holders, a share stays with reads, and a parked request
\* is woken when its lane has room (acquireClass).
SlotsSound == TypeOK /\ SlotsExact /\ ReadLaneOpen /\ NoLostWakeup

\* Limits and waits are kept: of the window, of the caller's patience and of the
\* server (reserve, classifyAndWait).
LimitsKept == WindowKept /\ PatienceKept /\ HoldRespected

\* No retry hurts: not of a create, not of a stale URL (classifyAndWait,
\* DownloadAssetStream).
RetriesHarmless == NoSelfConflict /\ StaleHarmless

=============================================================================
