------------------------ MODULE GithubClient_proofs ------------------------
(***************************************************************************)
(* Proofs about GithubClient and its RateGovernor.                         *)
(*                                                                         *)
(* MildInv is what is true of each request by itself, with every type: it  *)
(* sleeps only before it starts, for as long as it was told and not longer *)
(* than its caller's patience, and it remembers what it did (Held, Sober,  *)
(* Rested).  A step of one request disturbs another one only in that it    *)
(* wakes it (Beside).  On top of it come the counters: of slots and lane   *)
(* (Slotted), and of the window of points (Windowed).                      *)
(***************************************************************************)
EXTENDS GithubClient, FiniteSetTheorems, TLAPS

-----------------------------------------------------------------------------
(* Types.                                                                  *)

Pcs == {"look", "ready", "lane", "parked", "slot", "send", "release", "unlane", "observe", "classify",
        "fetch", "done"}
Statuses == {"none", "denied", "limited", "ok", "exists", "fault", "lost", "cut", "secondary", "canceled"}
Replies == [status : Statuses, left : -1..Limit, live : BOOLEAN, after : 0..Hour]
Requests ==
    [pc : Pcs, attempt : 0..MaxRetries, outer : 0..MaxRetries, round : 0..1, sleep : 0..Longest,
     mine : BOOLEAN, paced : BOOLEAN, reply : Replies, hold : Nat, eff : 0..1, url : Nat,
     cached : BOOLEAN, refused : Nat, answer : Statuses \cup {"failed", "rejected"}]

Typed ==
    /\ scene \in Cases
    /\ budget \in [seen : BOOLEAN, left : 0..Limit, live : BOOLEAN]
    /\ window \in [age : 0..Window, points : Nat, content : Nat]
    /\ admitted \in [points : Int, bulk : Int, content : Int]
    /\ server \in [left : 0..Limit, resetIn : 1..Hour]
    /\ call \in [Calls -> Requests]
    /\ left \in [faults : Nat, rejects : Nat, peers : Nat, ticks : Nat]
    /\ urls \in [DOMAIN urls -> [life : Nat, trust : Nat]]
    /\ IsFiniteSet(DOMAIN urls) /\ Cardinality(DOMAIN urls) <= UrlCap

\* A step of c does no more to another request than wake it in its lane and
\* take its reservation for one of an earlier window.
Bears(q, r) ==
    /\ q.hold = r.hold /\ q.eff = r.eff /\ q.round = r.round /\ q.refused = r.refused
    /\ q.answer = r.answer
Beside(c) ==
    \A d \in Calls \ {c} :
        /\ Bears(call'[d], call[d]) /\ call'[d].sleep = call[d].sleep /\ call'[d].reply = call[d].reply
        /\ call'[d].pc # call[d].pc => call[d].pc = "parked" /\ call'[d].pc = "lane"
        /\ call'[d].mine => call[d].mine

\* The constants.
LEMMA Constants ==
    /\ Concurrency \in Nat \ {0} /\ Window \in Nat \ {0} /\ Hour \in Nat \ {0} /\ Window <= Hour
    /\ Reserve \in Nat /\ PointsPerMin \in Nat /\ ContentPerMin \in Nat /\ Limit \in Nat
    /\ MaxRetries \in Nat /\ UrlLife \in Nat /\ UrlMargin \in Nat /\ UrlCap \in Nat /\ BackoffCap \in Nat
    /\ UrlMargin <= UrlLife /\ BackoffCap <= Hour /\ Window <= BackoffCap
    /\ Slack \in Nat /\ Jitter \in Nat /\ MaxRetryDelay \in Nat
    /\ Longest \in Nat /\ Hour + Slack + Jitter <= Longest /\ MaxRetryDelay + Jitter <= Longest
BY RateAssumption, ClientAssumption DEF Longest, Greatest

LEMMA Scenes ==
    ASSUME scene \in Cases
    PROVE  /\ \A c \in Calls : Kind(c) \in {"get", "put", "post", "upload", "delete", "download", "none"}
           /\ MaxWait \in Int /\ MaxWait <= Hour
           /\ scene.seen \in BOOLEAN /\ scene.cancels \in BOOLEAN /\ scene.left \in 0..Limit
           /\ scene.trouble \in [faults : Nat, rejects : Nat, peers : Nat, ticks : Nat]
BY CasesAssumption DEF Kind, MaxWait

\* The lane is a part of the slots, and a proper one when there are two.
LEMMA Lanes ==
    /\ LaneLimit \in 0..Concurrency
    /\ Concurrency > 1 => LaneLimit < Concurrency
BY Constants DEF LaneLimit, ReadShare, Greatest

\* How long a request may sleep before it reserves.
LEMMA Patient ==
    ASSUME Typed
    PROVE  Patience \in Nat /\ (scene' = scene => Patience' = Patience)
<1>1. MaxWait \in Int
  BY Scenes DEF Typed
<1>2. Patience \in Nat
  BY <1>1, Constants DEF Patience, Greatest
<1>3. scene' = scene => Patience' = Patience
  BY DEF Patience, MaxWait
<1> QED BY <1>2, <1>3

\* A backoff takes a window or more, and an hour or less.
LEMMA Backoffs ==
    ASSUME NEW n \in 0..MaxRetries
    PROVE  Backoff(n) \in Window..Hour
<1>1. PICK x \in Nat \ {0} : x = 2^n  BY ClientAssumption
<1>2. Window * x \in Nat /\ Window * x >= Window
  BY Constants
<1> QED BY <1>1, <1>2, Constants DEF Backoff

\* A wait has its bound; after a fault it is short.
LEMMA Delays ==
    ASSUME Typed, NEW r \in Replies, NEW n \in 0..MaxRetries, NEW d \in Delay(r, n)
    PROVE  /\ d \in 0..Longest
           /\ ~RateLimited(r) => d <= MaxRetryDelay + Jitter
<1>1. /\ r.after \in Nat /\ r.after <= Hour /\ r.live \in BOOLEAN /\ r.status \in Statuses
      /\ server.resetIn \in Nat /\ server.resetIn <= Hour
  BY Constants DEF Typed, Replies
<1>2. UntilReset(r.live) \in 0..Longest /\ server.resetIn \in 0..Longest /\ r.after \in 0..Longest
  BY <1>1, Constants DEF UntilReset
<1>3. Jittered(Backoff(n)) \subseteq 0..Longest
  <2>1. Backoff(n) \in Window..Hour
    BY Backoffs
  <2> HIDE DEF Backoff
  <2> QED BY <2>1, Constants DEF Jittered
<1>4. CASE r.status \in {"limited", "denied", "secondary"}
  <2>1. d \in {UntilReset(r.live), server.resetIn, r.after} \cup Jittered(Backoff(n))
    BY <1>4 DEF Delay
  <2> QED BY <1>2, <1>3, <1>4, <2>1 DEF RateLimited
<1>5. CASE r.status \notin {"limited", "denied", "secondary"}
  <2>1. d \in IF r.after > 0 THEN {Least(r.after, MaxRetryDelay)} ELSE 0..(MaxRetryDelay + Jitter)
    BY <1>5 DEF Delay
  <2> QED BY <1>1, <2>1, Constants DEF Least
<1> QED BY <1>4, <1>5

\* What one step makes of the request it is about.
LEMMA Placed ==
    ASSUME Typed, NEW c \in Calls, NEW r \in Requests, call' = [call EXCEPT ![c] = r]
    PROVE  call' \in [Calls -> Requests] /\ Beside(c) /\ call'[c] = r
<1>1. call' \in [Calls -> Requests] /\ call'[c] = r
  BY DEF Typed
<1>2. ASSUME NEW d \in Calls \ {c}
      PROVE  call'[d] = call[d] /\ call[d] \in Requests
  BY <1>2 DEF Typed
<1> QED BY <1>1, <1>2 DEF Beside, Bears

\* The same where the step also touches the others.
LEMMA PlacedAmong ==
    ASSUME Typed, NEW c \in Calls, NEW r \in Requests,
           NEW calls \in {call, Older(call), Broadcast(call)}, call' = [calls EXCEPT ![c] = r]
    PROVE  call' \in [Calls -> Requests] /\ Beside(c) /\ call'[c] = r
<1>1. ASSUME NEW d \in Calls
      PROVE  /\ calls[d] \in Requests
             /\ Bears(calls[d], call[d]) /\ calls[d].sleep = call[d].sleep /\ calls[d].reply = call[d].reply
             /\ calls[d].pc # call[d].pc => call[d].pc = "parked" /\ calls[d].pc = "lane"
             /\ calls[d].mine => call[d].mine
  <2>0. call[d] \in Requests
    BY <1>1 DEF Typed
  <2>1. CASE calls = call
    BY <2>0, <2>1 DEF Bears
  <2>2. CASE calls = Older(call)
    <3>1. calls[d] = [call[d] EXCEPT !.mine = FALSE]
      BY <1>1, <2>2 DEF Older
    <3> QED BY <2>0, <3>1 DEF Requests, Bears
  <2>3. CASE calls = Broadcast(call)
    <3>1. calls[d] = IF call[d].pc = "parked" THEN [call[d] EXCEPT !.pc = "lane"] ELSE call[d]
      BY <1>1, <2>3 DEF Broadcast
    <3>2. CASE call[d].pc = "parked"
      <4>1. calls[d] = [call[d] EXCEPT !.pc = "lane"] /\ "lane" \in Pcs
        BY <3>1, <3>2 DEF Pcs
      <4> QED BY <2>0, <3>2, <4>1 DEF Requests, Bears
    <3>3. CASE call[d].pc # "parked"
      BY <2>0, <3>1, <3>3 DEF Bears
    <3> QED BY <3>2, <3>3
  <2> QED BY <2>1, <2>2, <2>3
<1>2. DOMAIN calls = Calls /\ calls = [d \in Calls |-> calls[d]]
  BY DEF Older, Broadcast, Typed
<1>3. /\ call' = [d \in Calls |-> IF d = c THEN r ELSE calls[d]]
      /\ call'[c] = r
  BY <1>2
<1>4. call' \in [Calls -> Requests]
  BY <1>1, <1>3
<1>5. \A d \in Calls \ {c} : call'[d] = calls[d]
  BY <1>3
<1> QED BY <1>1, <1>3, <1>4, <1>5 DEF Beside

\* A reservation is refused, waits or is made.
LEMMA ReserveTyped ==
    ASSUME Typed, NEW c \in Calls, ReserveStep(c), UNCHANGED <<urls, left>>
    PROVE  /\ Typed' /\ Beside(c)
           /\ \/ call'[c].pc = "classify" /\ call'[c].reply = Refused
              \/ call'[c].pc = "ready" /\ call'[c].sleep <= Patience
              \/ call'[c].pc = IF Content(c) THEN "lane" ELSE "slot"
           /\ Bears(call'[c], call[c])
           /\ call'[c].sleep > 0 => call'[c].pc = "ready"
<1> USE Constants
<1>a. /\ call[c] \in Requests /\ call[c].pc = "ready" /\ call[c].sleep = 0
      /\ MaxWait \in Int /\ MaxWait <= Hour /\ Cost(c) \in {1, 5}
      /\ budget.live \in BOOLEAN
  BY Scenes DEF Typed, ReserveStep, At, Cost
<1>b. NoReply \in Replies /\ "denied" \in Statuses /\ (IF budget.seen THEN 0 ELSE -1) \in -1..Limit
  BY DEF NoReply, Replies, Statuses
<1>c. Refused \in Replies
  BY <1>a, <1>b DEF Refused, Replies
<1>0. /\ call[c] \in Requests /\ call[c].pc = "ready" /\ call[c].sleep = 0
      /\ MaxWait \in Int /\ MaxWait <= Hour /\ Cost(c) \in {1, 5} /\ Refused \in Replies
      /\ "lane" \in Pcs /\ "slot" \in Pcs /\ "classify" \in Pcs
  BY <1>a, <1>c DEF Pcs
<1>1. PICK pace \in Pace(c) :
         IF HourlyRefused(c) \/ TooLong(pace)
         THEN /\ call' = [call EXCEPT ![c].pc = "classify", ![c].reply = Refused]
              /\ UNCHANGED <<budget, window, admitted>>
         ELSE WindowReserve(c, Greatest(HourlyWait(c), pace))
  BY DEF ReserveStep
<1>2. /\ HourlyWait(c) \in 0..(Hour + Slack) /\ pace \in 0..Hour
      /\ HourlyWait(c) > 0 => HourlyWait(c) = server.resetIn + Slack /\ AtReserve(c)
      /\ server.resetIn \in 1..Hour
      /\ Rolled \in [age : 0..(Window - 1), points : Nat, content : Nat]
      /\ WindowWait(c, Rolled) \in 0..Window
  BY <1>0 DEF HourlyWait, AtReserve, Pace, Typed, Rolled, WindowWait
<1>3. UNCHANGED <<scene, server>>
  BY DEF ReserveStep
<1>4. CASE HourlyRefused(c) \/ TooLong(pace)
  <2> DEFINE r == [call[c] EXCEPT !.pc = "classify", !.reply = Refused]
  <2>1. r \in Requests
    BY <1>0 DEF Requests
  <2>2. call' = [call EXCEPT ![c] = r]
    BY <1>1, <1>4 DEF Typed
  <2>3. call' \in [Calls -> Requests] /\ Beside(c) /\ call'[c] = r
    BY <2>1, <2>2, Placed
  <2>4. UNCHANGED <<budget, window, admitted>>
    BY <1>1, <1>4
  <2>5. Typed'
    BY <1>3, <2>3, <2>4 DEF Typed
  <2> QED BY <2>3, <2>5, <1>0 DEF Requests, Bears
<1>5. CASE ~(HourlyRefused(c) \/ TooLong(pace))
  <2> DEFINE rolls == window.age >= Window
             was == IF rolls THEN Nothing ELSE admitted
             calls == IF rolls THEN Older(call) ELSE call
             wait == WindowWait(c, Rolled)
             over == Greatest(Greatest(HourlyWait(c), pace), wait)
  <2>1. /\ calls \in {call, Older(call)} /\ calls[c] = [call[c] EXCEPT !.mine = calls[c].mine]
        /\ calls[c].mine \in BOOLEAN
        /\ calls[c] = [call[c] EXCEPT !.mine = FALSE] \/ calls[c] = call[c]
    BY <1>0 DEF Older, Requests
  <2>2. was \in [points : Int, bulk : Int, content : Int]
    BY DEF Nothing, Typed
  <2>3. over \in 0..(Hour + Slack) /\ wait \in 0..Hour
    BY <1>2 DEF Greatest
  <2>4. /\ TooLong(wait) =>
              /\ call' = [calls EXCEPT ![c].pc = "classify", ![c].reply = Refused]
              /\ window' = Rolled /\ admitted' = was /\ UNCHANGED budget
        /\ (~TooLong(wait) /\ over > 0) =>
              /\ \E nap \in Jittered(over) : call' = [calls EXCEPT ![c].sleep = nap, ![c].paced = TRUE]
              /\ window' = Rolled /\ admitted' = was /\ UNCHANGED budget
        /\ (~TooLong(wait) /\ ~(over > 0)) =>
              /\ call' = [calls EXCEPT ![c].pc = IF Content(c) THEN "lane" ELSE "slot", ![c].mine = TRUE]
              /\ window' = Charged(c, Rolled)
              /\ admitted' = [points  |-> was.points + Cost(c),
                              bulk    |-> was.bulk + IF Content(c) THEN Cost(c) ELSE 0,
                              content |-> was.content + IF Content(c) THEN 1 ELSE 0]
              /\ budget' = IF Core(c) /\ budget.seen THEN [budget EXCEPT !.left = Spent(@)] ELSE budget
    BY <1>1, <1>5 DEF WindowReserve
  <2>5. DOMAIN calls = Calls
    BY DEF Older, Typed
  <2> HIDE DEF calls, was, over, wait
  <2>6. CASE TooLong(wait)
    <3> DEFINE r == [calls[c] EXCEPT !.pc = "classify", !.reply = Refused]
    <3>1. r \in Requests
      BY <1>0, <2>1 DEF Requests
    <3>2. call' = [calls EXCEPT ![c] = r]
      BY <2>4, <2>5, <2>6
    <3>3. call' \in [Calls -> Requests] /\ Beside(c) /\ call'[c] = r
      BY <2>1, <3>1, <3>2, PlacedAmong
    <3>4. Typed'
      BY <1>2, <1>3, <2>2, <2>4, <2>6, <3>3 DEF Typed
    <3> QED BY <2>1, <3>3, <3>4, <1>0 DEF Requests, Bears
  <2>7. CASE ~TooLong(wait) /\ over > 0
    <3>a. PICK nap \in Jittered(over) : call' = [calls EXCEPT ![c].sleep = nap, ![c].paced = TRUE]
      BY <2>4, <2>7
    <3>b. nap \in 0..Longest /\ nap <= over + Jitter
      BY <2>3 DEF Jittered
    <3> DEFINE r == [calls[c] EXCEPT !.sleep = nap, !.paced = TRUE]
    <3>1. r \in Requests
      BY <1>0, <2>1, <3>b DEF Requests
    <3>2. call' = [calls EXCEPT ![c] = r]
      BY <2>5, <3>a
    <3>3. call' \in [Calls -> Requests] /\ Beside(c) /\ call'[c] = r
      BY <2>1, <3>1, <3>2, PlacedAmong
    <3>4. Typed'
      BY <1>2, <1>3, <2>2, <2>4, <2>7, <3>3 DEF Typed
    <3>5. over <= Greatest(MaxWait, 0) + Slack
      BY <1>0, <1>2, <1>5, <2>3, <2>7 DEF TooLong, HourlyRefused, Greatest, over, wait
    <3>6. nap <= Patience
      BY <1>0, <2>3, <3>b, <3>5 DEF Patience, Greatest
    <3> QED BY <2>1, <3>3, <3>4, <3>6, <1>0 DEF Requests, Bears
  <2>8. CASE ~TooLong(wait) /\ ~(over > 0)
    <3> DEFINE r == [calls[c] EXCEPT !.pc = IF Content(c) THEN "lane" ELSE "slot", !.mine = TRUE]
    <3>1. r \in Requests
      BY ZenonT(60), <1>0, <2>1, <2>3 DEF Requests
    <3>2. call' = [calls EXCEPT ![c] = r]
      BY <2>4, <2>5, <2>8
    <3>3. call' \in [Calls -> Requests] /\ Beside(c) /\ call'[c] = r
      BY <2>1, <3>1, <3>2, PlacedAmong
    <3> DEFINE n == IF Content(c) THEN 1 ELSE 0
    <3>a. /\ window' = [Rolled EXCEPT !.points = @ + Cost(c), !.content = @ + n]
          /\ n \in Nat /\ Cost(c) \in Nat
      BY <2>4, <2>8, <1>0 DEF Charged
    <3> HIDE DEF n
    <3>b. Rolled.points + Cost(c) \in Nat /\ Rolled.content + n \in Nat /\ Rolled.age \in 0..Window
      BY <1>2, <3>a
    <3>4. window' \in [age : 0..Window, points : Nat, content : Nat]
      BY <1>2, <3>a, <3>b
    <3>5. budget' \in [seen : BOOLEAN, left : 0..Limit, live : BOOLEAN]
      BY <2>4, <2>8 DEF Typed, Spent
    <3>6. admitted' \in [points : Int, bulk : Int, content : Int]
      BY <1>0, <2>2, <2>4, <2>8
    <3>7. Typed'
      BY <1>3, <3>3, <3>4, <3>5, <3>6 DEF Typed
    <3> QED BY <2>1, <3>3, <3>7, <1>0 DEF Requests, Bears
  <2> QED BY <2>6, <2>7, <2>8
<1> QED BY <1>4, <1>5

LEMMA RefusedTyped ==
    ASSUME Typed
    PROVE  Refused \in Replies /\ NoReply \in Replies /\ NoReply.status = "none" /\ Refused.status = "denied"
<1>1. NoReply \in Replies /\ "denied" \in Statuses /\ (IF budget.seen THEN 0 ELSE -1) \in -1..Limit
  BY Constants DEF NoReply, Replies, Statuses
<1>2. budget.live \in BOOLEAN
  BY DEF Typed
<1> QED BY <1>1, <1>2 DEF Refused, Replies, NoReply

\* Moving on.
LEMMA GoesTyped ==
    ASSUME Typed, NEW c \in Calls, NEW pc \in Pcs, call' = Goes(c, pc)
    PROVE  /\ call' \in [Calls -> Requests] /\ Beside(c) /\ Bears(call'[c], call[c])
           /\ call'[c] = [call[c] EXCEPT !.pc = pc]
           /\ call'[c].pc = pc /\ call'[c].sleep = call[c].sleep /\ call'[c].reply = call[c].reply
<1> DEFINE r == [call[c] EXCEPT !.pc = pc]
<1>1. r \in Requests /\ call[c] \in Requests
  BY DEF Typed, Requests
<1>2. call' = [call EXCEPT ![c] = r]
  BY DEF Goes, Typed
<1>3. call' \in [Calls -> Requests] /\ Beside(c) /\ call'[c] = r
  BY <1>1, <1>2, Placed
<1>4. Bears(r, call[c]) /\ r.pc = pc /\ r.sleep = call[c].sleep /\ r.reply = call[c].reply
  BY <1>1 DEF Bears, Requests
<1> HIDE DEF r
<1>5. r = [call[c] EXCEPT !.pc = pc]
  BY DEF r
<1> QED BY <1>3, <1>4, <1>5

LEMMA RollbackTyped ==
    ASSUME Typed, NEW c \in Calls, Rollback(c)
    PROVE  /\ window' \in [age : 0..Window, points : Nat, content : Nat]
           /\ budget' \in [seen : BOOLEAN, left : 0..Limit, live : BOOLEAN]
           /\ admitted' \in [points : Int, bulk : Int, content : Int]
<1>1. Cost(c) \in {1, 5}
  BY DEF Cost
<1>2. /\ window.points \in Nat /\ window.content \in Nat /\ budget.left \in 0..Limit
      /\ admitted.points \in Int /\ admitted.bulk \in Int /\ admitted.content \in Int
  BY DEF Typed
<1>3. Greatest(window.points - Cost(c), 0) \in Nat /\ (IF Content(c) THEN Spent(window.content) ELSE window.content) \in Nat
  BY <1>1, <1>2 DEF Greatest, Spent
<1>4. window' \in [age : 0..Window, points : Nat, content : Nat]
  BY <1>3 DEF Rollback, Typed
<1>5. budget' \in [seen : BOOLEAN, left : 0..Limit, live : BOOLEAN]
  BY <1>2, Constants DEF Rollback, Typed
<1>6. admitted' \in [points : Int, bulk : Int, content : Int]
  BY <1>1, <1>2 DEF Rollback, Typed
<1> QED BY <1>4, <1>5, <1>6

\* A place in the lane is claimed, waited for or refused.
LEMMA ClaimTyped ==
    ASSUME Typed, NEW c \in Calls, Claim(c), UNCHANGED <<urls, left>>
    PROVE  /\ Typed' /\ Beside(c) /\ Bears(call'[c], call[c]) /\ call'[c].sleep = call[c].sleep
           /\ \/ lane < LaneLimit /\ call'[c].pc = "slot"
              \/ ~(lane < LaneLimit) /\ call'[c].pc = "parked"
              \/ ~(lane < LaneLimit) /\ call'[c].pc = "classify" /\ call'[c].reply = Refused
<1>0. "slot" \in Pcs /\ "parked" \in Pcs /\ "classify" \in Pcs /\ call[c] \in Requests
  BY DEF Pcs, Typed
<1>1. CASE lane < LaneLimit
  <2>1. call' = Goes(c, "slot") /\ UNCHANGED <<scene, server, budget, window, admitted>>
    BY <1>1 DEF Claim
  <2> QED BY <1>0, <1>1, <2>1, GoesTyped DEF Typed
<1>2. CASE ~(lane < LaneLimit) /\ MaxWait < 0
  <2> DEFINE r == [call[c] EXCEPT !.pc = "classify", !.reply = Refused]
  <2>1. /\ call' = [call EXCEPT ![c] = r] /\ Rollback(c) /\ UNCHANGED <<scene, server>>
    BY <1>2 DEF Claim, Typed
  <2>2. r \in Requests
    BY <1>0, RefusedTyped DEF Requests
  <2>3. call' \in [Calls -> Requests] /\ Beside(c) /\ call'[c] = r
    BY <2>1, <2>2, Placed
  <2>4. Typed'
    BY <2>1, <2>3, RollbackTyped DEF Typed
  <2> QED BY <1>0, <1>2, <2>3, <2>4 DEF Bears, Requests
<1>3. CASE ~(lane < LaneLimit) /\ ~(MaxWait < 0)
  <2>1. call' = Goes(c, "parked") /\ UNCHANGED <<scene, server, budget, window, admitted>>
    BY <1>3 DEF Claim
  <2> QED BY <1>0, <1>3, <2>1, GoesTyped DEF Typed
<1> QED BY <1>1, <1>2, <1>3

LEMMA TakeTyped ==
    ASSUME Typed, NEW c \in Calls, Take(c), UNCHANGED <<urls, left>>
    PROVE  /\ Typed' /\ Beside(c) /\ Bears(call'[c], call[c]) /\ call'[c].sleep = call[c].sleep
           /\ call'[c].pc = "send"
<1>1. "send" \in Pcs /\ call' = Goes(c, "send")
  BY DEF Take, Pcs
<1> QED BY <1>1, GoesTyped DEF Take, Typed

LEMMA ReleaseTyped ==
    ASSUME Typed, NEW c \in Calls, Release(c), UNCHANGED <<urls, left>>
    PROVE  /\ Typed' /\ Beside(c) /\ Bears(call'[c], call[c]) /\ call'[c].sleep = call[c].sleep
           /\ call'[c].reply = call[c].reply
           /\ call'[c].pc = IF Content(c) THEN "unlane" ELSE "observe"
<1> DEFINE pc == IF Content(c) THEN "unlane" ELSE "observe"
<1>1. pc \in Pcs /\ call' = Goes(c, pc)
  BY DEF Release, Pcs
<1> QED BY <1>1, GoesTyped DEF Release, Typed

\* Leaving the lane wakes the others.
LEMMA Wakes ==
    ASSUME Typed, NEW c \in Calls, call[c].pc # "parked", NEW pc \in Pcs \ {"parked"}
    PROVE  /\ Broadcast(Goes(c, pc)) = [Broadcast(call) EXCEPT ![c] = [call[c] EXCEPT !.pc = pc]]
           /\ [call[c] EXCEPT !.pc = pc] \in Requests
<1>1. call[c] \in Requests /\ Goes(c, pc) = [call EXCEPT ![c] = [call[c] EXCEPT !.pc = pc]]
  BY DEF Typed, Goes
<1>2. [call[c] EXCEPT !.pc = pc] \in Requests /\ [call[c] EXCEPT !.pc = pc].pc = pc
  BY <1>1 DEF Requests
<1>3. \A d \in Calls : Goes(c, pc)[d] = IF d = c THEN [call[c] EXCEPT !.pc = pc] ELSE call[d]
  BY <1>1 DEF Typed
<1> QED BY <1>2, <1>3 DEF Broadcast

LEMMA UnlaneTyped ==
    ASSUME Typed, NEW c \in Calls, Unlane(c), UNCHANGED <<urls, left>>
    PROVE  /\ Typed' /\ Beside(c) /\ Bears(call'[c], call[c]) /\ call'[c].sleep = call[c].sleep
           /\ call'[c].reply = call[c].reply /\ call'[c].pc = "observe"
           /\ \A d \in Calls : call'[d].pc # "parked"
<1> DEFINE r == [call[c] EXCEPT !.pc = "observe"]
<1>1. call[c] \in Requests /\ call[c].pc = "unlane" /\ "observe" \in Pcs
  BY DEF Typed, Unlane, At, Pcs
<1>2. call' = [Broadcast(call) EXCEPT ![c] = r] /\ r \in Requests
  BY <1>1, Wakes DEF Unlane
<1>3. call' \in [Calls -> Requests] /\ Beside(c) /\ call'[c] = r
  BY <1>2, PlacedAmong
<1>4. \A d \in Calls : call'[d].pc # "parked"
  <2> TAKE d \in Calls
  <2>1. call[d] \in Requests
    BY DEF Typed
  <2>2. Goes(c, "observe")[d].pc = "parked" => Broadcast(Goes(c, "observe"))[d].pc = "lane"
    BY <2>1, <1>1 DEF Broadcast, Goes, Requests, Typed
  <2>3. Goes(c, "observe")[d].pc # "parked" => Broadcast(Goes(c, "observe"))[d] = Goes(c, "observe")[d]
    BY DEF Broadcast
  <2> QED BY <2>2, <2>3 DEF Unlane
<1>5. Typed'
  BY <1>3 DEF Unlane, Typed
<1> QED BY <1>1, <1>3, <1>4, <1>5 DEF Bears, Requests

LEMMA ObserveTyped ==
    ASSUME Typed, NEW c \in Calls, Observe(c), UNCHANGED <<urls, left>>
    PROVE  /\ Typed' /\ Beside(c) /\ Bears(call'[c], call[c]) /\ call'[c].sleep = call[c].sleep
           /\ call'[c].reply = call[c].reply /\ call'[c].pc = "classify"
<1>1. "classify" \in Pcs /\ call' = Goes(c, "classify") /\ call[c].reply \in Replies
  BY DEF Observe, Pcs, Typed, Requests
<1>2. News(call[c].reply) => call[c].reply.left \in 0..Limit
  BY <1>1 DEF News, Replies
<1>3. budget' \in [seen : BOOLEAN, left : 0..Limit, live : BOOLEAN]
  BY <1>1, <1>2 DEF Observe, Typed, Replies
<1> QED BY <1>1, <1>3, GoesTyped DEF Observe, Typed

\* A request is cancelled while it waits.
LEMMA CancelTyped ==
    ASSUME Typed, NEW c \in Calls, CancelWaiting(c), UNCHANGED <<urls, left>>
    PROVE  /\ Typed' /\ Beside(c) /\ call'[c].sleep = call[c].sleep /\ call'[c].pc = "done"
           /\ call'[c] = [call[c] EXCEPT !.pc = "done", !.answer = "canceled"]
           /\ (call[c].pc = "slot" /\ Content(c)) => \A d \in Calls : call'[d].pc # "parked"
<1> DEFINE r == [call[c] EXCEPT !.pc = "done", !.answer = "canceled"]
<1>1. /\ call[c] \in Requests /\ call[c].pc \in {"parked", "slot"} /\ "done" \in Pcs
      /\ "canceled" \in Statuses
  BY DEF Typed, CancelWaiting, Pcs, Statuses
<1>2. r \in Requests /\ r.sleep = call[c].sleep /\ r.pc = "done"
  BY <1>1 DEF Requests
<1>3. /\ call' = [Leaves(c) EXCEPT ![c].answer = "canceled"] /\ Rollback(c)
      /\ UNCHANGED <<scene, server, urls, left>>
  BY DEF CancelWaiting
<1>4. Goes(c, "done")[c] = [call[c] EXCEPT !.pc = "done"] /\ DOMAIN Goes(c, "done") = Calls
  BY DEF Goes, Typed
<1>5. CASE call[c].pc = "slot" /\ Content(c)
  <2>1. Leaves(c) = [Broadcast(call) EXCEPT ![c] = [call[c] EXCEPT !.pc = "done"]]
    BY <1>1, <1>5, Wakes DEF Leaves, At
  <2>2. call' = [Broadcast(call) EXCEPT ![c] = r]
    BY <1>3, <2>1 DEF Broadcast
  <2>3. call' \in [Calls -> Requests] /\ Beside(c) /\ call'[c] = r
    BY <1>2, <2>2, PlacedAmong
  <2>4. \A d \in Calls : call'[d].pc # "parked"
    <3> TAKE d \in Calls
    <3>1. call[d] \in Requests
      BY DEF Typed
    <3>2. call[d].pc = "parked" => Broadcast(call)[d].pc = "lane"
      BY <3>1 DEF Broadcast, Requests
    <3>3. call[d].pc # "parked" => Broadcast(call)[d] = call[d]
      BY DEF Broadcast
    <3>4. d # c => call'[d] = Broadcast(call)[d]
      BY <2>2 DEF Broadcast
    <3> QED BY <1>2, <2>3, <3>2, <3>3, <3>4
  <2>5. Typed'
    BY <1>3, <2>3, RollbackTyped DEF Typed
  <2> QED BY <1>2, <2>3, <2>4, <2>5
<1>6. CASE ~(call[c].pc = "slot" /\ Content(c))
  <2>1. call' = [call EXCEPT ![c] = r]
    BY <1>3, <1>6 DEF Leaves, Goes, At, Typed
  <2>2. call' \in [Calls -> Requests] /\ Beside(c) /\ call'[c] = r
    BY <1>2, <2>1, Placed
  <2>3. Typed'
    BY <1>3, <2>2, RollbackTyped DEF Typed
  <2> QED BY <1>2, <1>6, <2>2, <2>3
<1> QED BY <1>5, <1>6

-----------------------------------------------------------------------------
(* Types: the server, the answers and the downloads.                       *)

LEMMA RepliesTyped ==
    ASSUME Typed, NEW c \in Calls, NEW s \in Statuses, NEW after \in 0..Hour
    PROVE  /\ Reply(c, s) \in Replies /\ Hinted(c, s, after) \in Replies
           /\ Reply(c, s).status = s /\ Hinted(c, s, after).status = s
           /\ Hinted(c, s, after).after = after /\ Reply(c, s).live = Core(c)
<1>1. Core(c) \in BOOLEAN /\ (IF Core(c) THEN Spent(server.left) ELSE -1) \in -1..Limit
  BY Constants DEF Core, Spent, Typed
<1>2. \A t \in Statuses : Reply(c, t) \in Replies /\ Reply(c, t).status = t /\ Reply(c, t).live = Core(c)
  BY <1>1, Constants DEF Reply, Replies
<1> QED BY <1>2 DEF Hinted, Replies

LEMMA DeliversTyped ==
    ASSUME Typed, NEW c \in Calls, NEW r \in Replies, NEW hold \in Nat, NEW eff \in 0..1,
           Delivers(c, r, hold, eff)
    PROVE  /\ call' \in [Calls -> Requests] /\ Beside(c)
           /\ call'[c].pc = "release" /\ call'[c].reply = r /\ call'[c].hold = hold /\ call'[c].eff = eff
           /\ call'[c].sleep = call[c].sleep /\ call'[c].round = call[c].round
           /\ call'[c].refused = call[c].refused /\ call'[c].answer = call[c].answer
<1> DEFINE q == [call[c] EXCEPT !.pc = "release", !.reply = r, !.hold = hold, !.eff = eff]
<1>1. call[c] \in Requests /\ "release" \in Pcs
  BY DEF Typed, Pcs
<1>2. q \in Requests
  BY <1>1 DEF Requests
<1>3. call' = [call EXCEPT ![c] = q]
  BY DEF Delivers, Typed
<1>4. call' \in [Calls -> Requests] /\ Beside(c) /\ call'[c] = q
  BY <1>2, <1>3, Placed
<1>5. /\ q.pc = "release" /\ q.reply = r /\ q.hold = hold /\ q.eff = eff /\ q.sleep = call[c].sleep
      /\ q.round = call[c].round /\ q.refused = call[c].refused /\ q.answer = call[c].answer
  BY <1>1 DEF Requests
<1> HIDE DEF q
<1> QED BY <1>4, <1>5

LEMMA CountedTyped ==
    ASSUME Typed, NEW c \in Calls
    PROVE  /\ Counted(c) \in [left : 0..Limit, resetIn : 1..Hour]
           /\ Counted(c).resetIn = server.resetIn
<1>1. server \in [left : 0..Limit, resetIn : 1..Hour] /\ Spent(server.left) \in 0..Limit
  BY Constants DEF Typed, Spent
<1> QED BY <1>1 DEF Counted

\* What the server has told a request to wait is what its reply says, in one way
\* or another.
Due(q, reset) ==
    /\ q.reply.status = "limited" => q.hold = IF q.reply.live THEN reset ELSE 0
    /\ q.reply.status = "secondary" => /\ q.hold <= Window
                                       /\ q.reply.after > 0 => q.hold <= q.reply.after
                                       /\ Open("masked") \/ q.hold <= reset
    /\ q.reply.status = "fault" => q.hold <= q.reply.after /\ q.hold <= MaxRetryDelay
    /\ q.reply.status \notin {"limited", "secondary", "fault"} => q.hold = 0

\* What an answer of the server leaves behind.
Sent(c) ==
    /\ call'[c].pc = "release" /\ call'[c].sleep = call[c].sleep /\ call'[c].round = call[c].round
    /\ call'[c].refused = call[c].refused /\ call'[c].answer = call[c].answer
    /\ call'[c].reply.status = "exists" => call[c].eff > 0
    /\ Due(call'[c], server'.resetIn)

LEMMA Sending ==
    ASSUME Typed, NEW c \in Calls, NEW r \in Replies, NEW hold \in Nat, NEW eff \in 0..1,
           Delivers(c, r, hold, eff), r.status = "exists" => call[c].eff > 0,
           Due([reply |-> r, hold |-> hold], server'.resetIn),
           UNCHANGED <<scene, govVars, urls>>,
           left' \in [faults : Nat, rejects : Nat, peers : Nat, ticks : Nat],
           server' \in [left : 0..Limit, resetIn : 1..Hour]
    PROVE  Typed' /\ Beside(c) /\ Sent(c)
<1>1. /\ call' \in [Calls -> Requests] /\ Beside(c)
      /\ call'[c].pc = "release" /\ call'[c].reply = r /\ call'[c].hold = hold
      /\ call'[c].sleep = call[c].sleep /\ call'[c].round = call[c].round
      /\ call'[c].refused = call[c].refused /\ call'[c].answer = call[c].answer
  BY DeliversTyped
<1>2. Typed'
  BY <1>1 DEF Typed, govVars
<1>3. Due(call'[c], server'.resetIn)
  BY <1>1 DEF Due
<1> QED BY <1>1, <1>2, <1>3 DEF Sent

LEMMA ServeTyped ==
    ASSUME Typed, NEW c \in Calls, Serve(c)
    PROVE  Typed' /\ Beside(c) /\ Sent(c)
<1>1. /\ call[c] \in Requests /\ call[c].eff \in 0..1 /\ Effect(c) \in 0..1
      /\ server.resetIn \in Nat /\ server.resetIn <= Hour
      /\ {"limited", "exists", "ok"} \subseteq Statuses
  BY Constants DEF Typed, Requests, Effect, Statuses
<1>2. UNCHANGED <<scene, govVars, urls, left>> /\ server' = Counted(c)
  BY DEF Serve
<1>3. server' \in [left : 0..Limit, resetIn : 1..Hour] /\ server'.resetIn = server.resetIn
  BY <1>2, CountedTyped
<1>4. CASE Exhausted(c)
  <2>1. Delivers(c, Reply(c, "limited"), server.resetIn, call[c].eff) /\ Core(c)
    BY <1>4 DEF Serve, Exhausted
  <2>2. /\ Reply(c, "limited") \in Replies /\ Reply(c, "limited").status = "limited"
        /\ Reply(c, "limited").live
    BY <1>1, <2>1, RepliesTyped, Constants
  <2>3. Due([reply |-> Reply(c, "limited"), hold |-> server.resetIn], server'.resetIn)
    BY <1>3, <2>2 DEF Due
  <2>4. left' \in [faults : Nat, rejects : Nat, peers : Nat, ticks : Nat]
    BY <1>2 DEF Typed
  <2> QED BY <1>1, <1>2, <1>3, <2>1, <2>2, <2>3, <2>4, Sending
<1>5. CASE ~Exhausted(c) /\ call[c].eff > 0
  <2>1. Delivers(c, Reply(c, "exists"), 0, call[c].eff)
    BY <1>5 DEF Serve
  <2>2. Reply(c, "exists") \in Replies /\ Reply(c, "exists").status = "exists"
    BY <1>1, RepliesTyped, Constants
  <2>3. Due([reply |-> Reply(c, "exists"), hold |-> 0], server'.resetIn)
    BY <2>2 DEF Due
  <2>4. left' \in [faults : Nat, rejects : Nat, peers : Nat, ticks : Nat]
    BY <1>2 DEF Typed
  <2> QED BY <1>1, <1>2, <1>3, <1>5, <2>1, <2>2, <2>3, <2>4, Sending
<1>6. CASE ~Exhausted(c) /\ ~(call[c].eff > 0)
  <2>1. Delivers(c, Reply(c, "ok"), 0, Effect(c))
    BY <1>6 DEF Serve
  <2>2. Reply(c, "ok") \in Replies /\ Reply(c, "ok").status = "ok"
    BY <1>1, RepliesTyped, Constants
  <2>3. Due([reply |-> Reply(c, "ok"), hold |-> 0], server'.resetIn)
    BY <2>2 DEF Due
  <2>4. left' \in [faults : Nat, rejects : Nat, peers : Nat, ticks : Nat]
    BY <1>2 DEF Typed
  <2> QED BY <1>1, <1>2, <1>3, <2>1, <2>2, <2>3, <2>4, Sending
<1> QED BY <1>4, <1>5, <1>6

LEMMA ServeFailsTyped ==
    ASSUME Typed, NEW c \in Calls, ServeFails(c)
    PROVE  Typed' /\ Beside(c) /\ Sent(c)
<1>1. /\ call[c] \in Requests /\ call[c].eff \in 0..1 /\ Effect(c) \in 0..1
      /\ server.resetIn \in Nat /\ server.resetIn <= Hour
      /\ {"fault", "lost", "cut", "secondary"} \subseteq Statuses
  BY Constants DEF Typed, Requests, Effect, Statuses
<1>2. UNCHANGED <<scene, govVars, urls>> /\ left' = [left EXCEPT !.faults = @ - 1] /\ left.faults > 0
      /\ server' \in {server, Counted(c)}
  BY DEF ServeFails
<1>3. server' \in [left : 0..Limit, resetIn : 1..Hour] /\ server'.resetIn = server.resetIn
  BY <1>2, CountedTyped DEF Typed
<1>4. left' \in [faults : Nat, rejects : Nat, peers : Nat, ticks : Nat]
  <2>1. left.faults \in Nat
    BY DEF Typed
  <2>2. left.faults - 1 \in Nat
    BY <2>1, <1>2
  <2> QED BY <1>2, <2>2 DEF Typed
<1>5. ASSUME NEW after \in {0, 1, Window}, NEW done \in 0..1,
             Delivers(c, Hinted(c, "fault", after), Least(after, MaxRetryDelay), done)
      PROVE  Typed' /\ Beside(c) /\ Sent(c)
  <2>1. after \in 0..Hour /\ after \in Nat /\ Least(after, MaxRetryDelay) \in Nat
        /\ Least(after, MaxRetryDelay) <= after /\ Least(after, MaxRetryDelay) <= MaxRetryDelay
    BY <1>5, Constants DEF Least
  <2>2. /\ Hinted(c, "fault", after) \in Replies /\ Hinted(c, "fault", after).status = "fault"
        /\ Hinted(c, "fault", after).after = after
    BY <1>1, <2>1, RepliesTyped
  <2>3. Due([reply |-> Hinted(c, "fault", after), hold |-> Least(after, MaxRetryDelay)], server'.resetIn)
    BY <2>1, <2>2 DEF Due
  <2> QED BY <1>1, <1>2, <1>3, <1>4, <1>5, <2>1, <2>2, <2>3, Sending
<1>6. ASSUME NEW s \in {"lost", "cut"}, NEW done \in 0..1, Delivers(c, Reply(c, s), 0, done)
      PROVE  Typed' /\ Beside(c) /\ Sent(c)
  <2>1. Reply(c, s) \in Replies /\ Reply(c, s).status = s
    BY <1>1, <1>6, RepliesTyped, Constants
  <2>2. Due([reply |-> Reply(c, s), hold |-> 0], server'.resetIn) /\ s # "exists"
    BY <1>6, <2>1 DEF Due
  <2> QED BY <1>2, <1>3, <1>4, <1>6, <2>1, <2>2, Sending
<1>7. ASSUME NEW after \in {0, 1, Window}, NEW hold, hold = IF after = 0 THEN Window ELSE after,
             Open("masked") \/ server.resetIn >= hold,
             Delivers(c, Hinted(c, "secondary", after), hold, call[c].eff)
      PROVE  Typed' /\ Beside(c) /\ Sent(c)
  <2>1. after \in 0..Hour /\ hold \in Nat /\ hold <= Window /\ (after > 0 => hold <= after)
    BY <1>7, Constants
  <2>2. /\ Hinted(c, "secondary", after) \in Replies /\ Hinted(c, "secondary", after).status = "secondary"
        /\ Hinted(c, "secondary", after).after = after
    BY <1>1, <2>1, RepliesTyped
  <2>3. Due([reply |-> Hinted(c, "secondary", after), hold |-> hold], server'.resetIn)
    BY <1>1, <1>3, <1>7, <2>1, <2>2 DEF Due
  <2> QED BY <1>1, <1>2, <1>3, <1>4, <1>7, <2>1, <2>2, <2>3, Sending
<1>8. \/ \E done \in {call[c].eff, Effect(c)} : Delivers(c, Reply(c, "lost"), 0, done)
      \/ \E after \in {0, 1, Window}, done \in {call[c].eff, Effect(c)} :
            Delivers(c, Hinted(c, "fault", after), Least(after, MaxRetryDelay), done)
      \/ Delivers(c, Reply(c, "cut"), 0, 1)
      \/ \E after \in {0, 1, Window} :
            LET hold == IF after = 0 THEN Window ELSE after
            IN  /\ Open("masked") \/ server.resetIn >= hold
                /\ Delivers(c, Hinted(c, "secondary", after), hold, call[c].eff)
  BY DEF ServeFails
<1> QED BY <1>1, <1>5, <1>6, <1>7, <1>8

LEMMA CancelSentTyped ==
    ASSUME Typed, NEW c \in Calls, CancelSent(c)
    PROVE  Typed' /\ Beside(c) /\ Sent(c)
<1>1. /\ call[c] \in Requests /\ call[c].eff \in 0..1 /\ Effect(c) \in 0..1 /\ "canceled" \in Statuses
  BY Constants DEF Typed, Requests, Effect, Statuses
<1>2. UNCHANGED <<scene, govVars, urls, left>> /\ server' = Counted(c)
  BY DEF CancelSent
<1>3. server' \in [left : 0..Limit, resetIn : 1..Hour]
  BY <1>2, CountedTyped
<1>4. PICK done \in 0..1 : Delivers(c, Reply(c, "canceled"), 0, done)
  BY <1>1 DEF CancelSent
<1>5. Reply(c, "canceled") \in Replies /\ Reply(c, "canceled").status = "canceled"
  BY <1>1, RepliesTyped, Constants
<1>6. Due([reply |-> Reply(c, "canceled"), hold |-> 0], server'.resetIn)
  BY <1>5 DEF Due
<1>7. left' \in [faults : Nat, rejects : Nat, peers : Nat, ticks : Nat]
  BY <1>2 DEF Typed
<1> QED BY <1>1, <1>2, <1>3, <1>4, <1>5, <1>6, <1>7, Sending

\* A request ends, or a download starts over, with what it did on the record.
LEMMA AnswersTyped ==
    ASSUME Typed, NEW c \in Calls, NEW a \in Statuses \cup {"failed", "rejected"}, NEW n \in {0, 1},
           call' = IF n = 0 THEN Answers(c, a) ELSE [Answers(c, a) EXCEPT ![c].refused = @ + 1]
    PROVE  /\ call' \in [Calls -> Requests] /\ Beside(c)
           /\ call'[c].pc = "done" /\ call'[c].sleep = 0 /\ call'[c].hold = 0 /\ call'[c].round = 0
           /\ call'[c].answer = a /\ call'[c].eff = call[c].eff /\ call'[c].refused = call[c].refused + n
           /\ call'[c].reply = NoReply
<1> DEFINE q == [Fresh EXCEPT !.pc = "done", !.answer = a, !.eff = call[c].eff, !.refused = call[c].refused]
           r == IF n = 0 THEN q ELSE [q EXCEPT !.refused = @ + 1]
<1>1. /\ call[c] \in Requests /\ call[c].eff \in 0..1 /\ call[c].refused \in Nat /\ "done" \in Pcs
      /\ "ready" \in Pcs /\ NoReply \in Replies /\ "none" \in Statuses
  BY RefusedTyped DEF Typed, Pcs, Statuses, Requests
<1>2. Fresh \in Requests
  BY <1>1, Constants DEF Fresh, Requests
<1>3. /\ q \in Requests /\ q.pc = "done" /\ q.answer = a /\ q.eff = call[c].eff
      /\ q.refused = call[c].refused /\ q.sleep = 0 /\ q.hold = 0 /\ q.round = 0 /\ q.reply = NoReply
  BY <1>1, <1>2 DEF Fresh, Requests
<1>4. Answers(c, a) = [call EXCEPT ![c] = q]
  BY DEF Answers
<1> HIDE DEF q
<1>5. /\ r \in Requests /\ r.pc = "done" /\ r.answer = a /\ r.eff = call[c].eff
      /\ r.refused = call[c].refused + n /\ r.sleep = 0 /\ r.hold = 0 /\ r.round = 0 /\ r.reply = NoReply
  <2>1. CASE n = 0
    BY <1>1, <1>3, <2>1
  <2>2. CASE n = 1
    <3>1. r = [q EXCEPT !.refused = call[c].refused + 1] /\ call[c].refused + 1 \in Nat
      BY <1>1, <1>3, <2>2
    <3> QED BY <1>1, <1>3, <2>2, <3>1 DEF Requests
  <2> QED BY <2>1, <2>2
<1>6. call' = [call EXCEPT ![c] = r]
  BY <1>4 DEF Typed
<1> HIDE DEF r
<1>7. call' \in [Calls -> Requests] /\ Beside(c) /\ call'[c] = r
  BY <1>5, <1>6, Placed
<1> QED BY <1>5, <1>7

LEMMA Restarted ==
    ASSUME NEW q \in Requests, NEW wait \in 0..Longest, NEW w \in 0..MaxRetries
    PROVE  [q EXCEPT !.pc = "look", !.url = 0, !.reply = NoReply, !.attempt = 0, !.sleep = wait,
                     !.outer = w, !.round = 0] \in Requests
<1> DEFINE p == [q EXCEPT !.pc = "look", !.url = 0, !.reply = NoReply, !.attempt = 0]
<1>1. "look" \in Pcs /\ NoReply \in Replies /\ 0 \in 0..MaxRetries
  BY Constants DEF NoReply, Replies, Statuses, Pcs
<1>2. p \in Requests
  BY <1>1 DEF Requests
<1>3. [q EXCEPT !.pc = "look", !.url = 0, !.reply = NoReply, !.attempt = 0, !.sleep = wait,
                !.outer = w, !.round = 0] = [p EXCEPT !.sleep = wait, !.outer = w, !.round = 0]
  OBVIOUS
<1> HIDE DEF p
<1> DEFINE o == [p EXCEPT !.sleep = wait, !.outer = w]
<1>4. o \in Requests
  BY <1>2 DEF Requests
<1>5. [p EXCEPT !.sleep = wait, !.outer = w, !.round = 0] = [o EXCEPT !.round = 0]
  OBVIOUS
<1> HIDE DEF o
<1>6. [o EXCEPT !.round = 0] \in Requests
  BY <1>4 DEF Requests
<1> QED BY <1>3, <1>5, <1>6

LEMMA AgainTyped ==
    ASSUME Typed, NEW c \in Calls, NEW wait \in 0..Longest, NEW n \in {0, 1}, call[c].outer < MaxRetries,
           call' = IF n = 0 THEN Again(c, wait) ELSE [Again(c, wait) EXCEPT ![c].refused = @ + 1]
    PROVE  /\ call' \in [Calls -> Requests] /\ Beside(c)
           /\ call'[c].pc = "look" /\ call'[c].sleep = wait /\ call'[c].hold = call[c].hold
           /\ call'[c].round = 0 /\ call'[c].answer = call[c].answer /\ call'[c].eff = call[c].eff
           /\ call'[c].refused = call[c].refused + n /\ call'[c].reply = NoReply
<1> DEFINE q == [call[c] EXCEPT !.pc = "look", !.url = 0, !.reply = NoReply, !.attempt = 0, !.sleep = wait,
                                !.outer = @ + 1, !.round = 0]
           r == IF n = 0 THEN q ELSE [q EXCEPT !.refused = @ + 1]
<1>1. /\ call[c] \in Requests /\ call[c].refused \in Nat /\ "look" \in Pcs /\ NoReply \in Replies
      /\ call[c].outer + 1 \in 0..MaxRetries /\ 0 \in 0..MaxRetries
  BY RefusedTyped, Constants DEF Typed, Pcs, Requests
<1>2. PICK w \in 0..MaxRetries : w = call[c].outer + 1
  BY <1>1
<1>3. /\ q \in Requests /\ q.pc = "look" /\ q.answer = call[c].answer /\ q.eff = call[c].eff
      /\ q.refused = call[c].refused /\ q.sleep = wait /\ q.hold = call[c].hold /\ q.round = 0
      /\ q.reply = NoReply
  <2>0. q = [call[c] EXCEPT !.pc = "look", !.url = 0, !.reply = NoReply, !.attempt = 0, !.sleep = wait,
                            !.outer = w, !.round = 0]
    BY <1>1, <1>2
  <2>1. q \in Requests
    BY <1>1, <2>0, Restarted
  <2>2. /\ q.pc = "look" /\ q.answer = call[c].answer /\ q.eff = call[c].eff
        /\ q.refused = call[c].refused /\ q.sleep = wait /\ q.hold = call[c].hold /\ q.round = 0
        /\ q.reply = NoReply
    BY <1>1 DEF Requests
  <2> QED BY <2>1, <2>2
<1>4. Again(c, wait) = [call EXCEPT ![c] = q]
  BY DEF Again, Typed
<1> HIDE DEF q
<1>5. /\ r \in Requests /\ r.pc = "look" /\ r.answer = call[c].answer /\ r.eff = call[c].eff
      /\ r.refused = call[c].refused + n /\ r.sleep = wait /\ r.hold = call[c].hold /\ r.round = 0
      /\ r.reply = NoReply
  <2>1. CASE n = 0
    BY <1>1, <1>3, <2>1
  <2>2. CASE n = 1
    <3>1. r = [q EXCEPT !.refused = call[c].refused + 1] /\ call[c].refused + 1 \in Nat
      BY <1>1, <1>3, <2>2
    <3> QED BY <1>1, <1>3, <2>2, <3>1 DEF Requests
  <2> QED BY <2>1, <2>2
<1>6. call' = [call EXCEPT ![c] = r]
  BY <1>4 DEF Typed
<1> HIDE DEF r
<1>7. call' \in [Calls -> Requests] /\ Beside(c) /\ call'[c] = r
  BY <1>5, <1>6, Placed
<1> QED BY <1>5, <1>7

LEMMA RetryTyped ==
    ASSUME Typed, NEW c \in Calls, NEW wait \in 0..Longest, call[c].attempt < MaxRetries,
           call' = Retry(c, wait)
    PROVE  /\ call' \in [Calls -> Requests] /\ Beside(c) /\ Bears(call'[c], call[c])
           /\ call'[c].pc = "ready" /\ call'[c].sleep = wait /\ call'[c].reply = NoReply
<1> DEFINE r == [call[c] EXCEPT !.pc = "ready", !.sleep = wait, !.attempt = @ + 1, !.paced = FALSE,
                                !.mine = FALSE, !.reply = NoReply]
<1>1. /\ call[c] \in Requests /\ "ready" \in Pcs /\ NoReply \in Replies
      /\ call[c].attempt + 1 \in 0..MaxRetries
  BY RefusedTyped, Constants DEF Typed, Pcs, Requests
<1>2. r \in Requests /\ Bears(r, call[c]) /\ r.pc = "ready" /\ r.sleep = wait /\ r.reply = NoReply
  BY <1>1 DEF Requests, Bears
<1>3. call' = [call EXCEPT ![c] = r]
  BY DEF Retry, Typed
<1> HIDE DEF r
<1>4. call' \in [Calls -> Requests] /\ Beside(c) /\ call'[c] = r
  BY <1>2, <1>3, Placed
<1> QED BY <1>2, <1>4

LEMMA ResolveTyped ==
    ASSUME Typed, NEW c \in Calls, call' = Resolve(c, call)
    PROVE  /\ call' \in [Calls -> Requests] /\ Beside(c) /\ Bears(call'[c], call[c])
           /\ call'[c].pc = "ready" /\ call'[c].sleep = call[c].sleep /\ call'[c].reply = NoReply
<1> DEFINE r == [call[c] EXCEPT !.pc = "ready", !.attempt = 0, !.paced = FALSE, !.mine = FALSE,
                                !.reply = NoReply]
<1>1. /\ call[c] \in Requests /\ "ready" \in Pcs /\ NoReply \in Replies /\ 0 \in 0..MaxRetries
  BY RefusedTyped, Constants DEF Typed, Pcs, Requests
<1>2. /\ r \in Requests /\ Bears(r, call[c]) /\ r.pc = "ready" /\ r.sleep = call[c].sleep
      /\ r.reply = NoReply
  BY <1>1 DEF Requests, Bears
<1>3. call' = [call EXCEPT ![c] = r]
  BY DEF Resolve, Typed
<1> HIDE DEF r
<1>4. call' \in [Calls -> Requests] /\ Beside(c) /\ call'[c] = r
  BY <1>2, <1>3, Placed
<1> QED BY <1>2, <1>4

-----------------------------------------------------------------------------
(* Types: what becomes of an answer.                                       *)

\* The cache of URLs stays within its size.
LEMMA PrunedTyped ==
    ASSUME Typed, NEW c \in Calls, NEW u \in Signed, NEW f \in Pruned(Stored(c, u))
    PROVE  /\ f \in [DOMAIN f -> [life : Nat, trust : Nat]]
           /\ IsFiniteSet(DOMAIN f) /\ Cardinality(DOMAIN f) <= UrlCap
<1> DEFINE a == Asset(c)
           g == Stored(c, u)
           D == DOMAIN urls \cup {a}
           fresh == {b \in D : g[b].trust > 0}
           kept == [b \in fresh |-> g[b]]
           soon == {b \in fresh : \A d \in fresh : g[b].trust <= g[d].trust}
<1>1. u \in [life : Nat, trust : Nat]
  BY Constants DEF Signed
<1>2. DOMAIN g = D /\ \A b \in D : g[b] = IF b = a THEN u ELSE urls[b]
  BY DEF Stored
<1>3. g \in [D -> [life : Nat, trust : Nat]]
  <2>1. \A b \in DOMAIN urls : urls[b] \in [life : Nat, trust : Nat]
    BY DEF Typed
  <2>2. g = [b \in DOMAIN g |-> g[b]]
    BY <1>2 DEF Stored
  <2> HIDE DEF g
  <2> QED BY <1>1, <1>2, <2>1, <2>2
<1>4. IsFiniteSet(DOMAIN urls) /\ Cardinality(DOMAIN urls) \in Nat /\ Cardinality(DOMAIN urls) <= UrlCap
  BY FS_CardinalityType DEF Typed
<1>5. IsFiniteSet(D) /\ Cardinality(D) \in Nat /\ Cardinality(D) <= UrlCap + 1
  <2>1. IsFiniteSet(D) /\ (Cardinality(D) = Cardinality(DOMAIN urls) \/ Cardinality(D) = Cardinality(DOMAIN urls) + 1)
    BY <1>4, FS_AddElement
  <2> QED BY <1>4, <2>1, Constants
<1>6. fresh \in SUBSET D /\ IsFiniteSet(fresh) /\ Cardinality(fresh) \in Nat /\ Cardinality(fresh) <= UrlCap + 1
  <2>1. fresh \in SUBSET D
    OBVIOUS
  <2> HIDE DEF fresh
  <2>2. IsFiniteSet(fresh) /\ Cardinality(fresh) <= Cardinality(D)
    BY <1>5, <2>1, FS_Subset
  <2>3. Cardinality(fresh) \in Nat
    BY <2>2, FS_CardinalityType
  <2> QED BY <1>5, <2>1, <2>2, <2>3, Constants
<1>7. f \in IF Cardinality(DOMAIN g) <= UrlCap THEN {g}
            ELSE IF Cardinality(fresh) <= UrlCap THEN {kept}
            ELSE {[b \in fresh \ {v} |-> g[b]] : v \in soon}
  BY <1>2 DEF Pruned
<1> HIDE DEF g
<1>8. CASE Cardinality(D) <= UrlCap
  <2>1. f = g
    BY <1>2, <1>7, <1>8
  <2> QED BY <1>2, <1>3, <1>5, <1>8, <2>1
<1>9. CASE ~(Cardinality(D) <= UrlCap) /\ Cardinality(fresh) <= UrlCap
  <2>1. f = kept
    BY <1>2, <1>7, <1>9
  <2>2. kept \in [fresh -> [life : Nat, trust : Nat]] /\ DOMAIN kept = fresh
    BY <1>3, <1>6
  <2> QED BY <1>6, <1>9, <2>1, <2>2
<1>10. CASE ~(Cardinality(D) <= UrlCap) /\ ~(Cardinality(fresh) <= UrlCap)
  <2>1. PICK v \in soon : f = [b \in fresh \ {v} |-> g[b]]
    BY <1>2, <1>7, <1>10
  <2>2. v \in fresh /\ DOMAIN f = fresh \ {v} /\ f \in [fresh \ {v} -> [life : Nat, trust : Nat]]
    BY <1>3, <1>6, <2>1
  <2> HIDE DEF fresh
  <2>3. IsFiniteSet(fresh \ {v}) /\ Cardinality(fresh \ {v}) = Cardinality(fresh) - 1
    BY <1>6, <2>2, FS_RemoveElement
  <2> QED BY <1>6, <1>10, <2>2, <2>3, Constants
<1> QED BY <1>8, <1>9, <1>10

LEMMA ForgottenTyped ==
    ASSUME Typed, NEW c \in Calls
    PROVE  /\ Forgotten(c) \in [DOMAIN Forgotten(c) -> [life : Nat, trust : Nat]]
           /\ IsFiniteSet(DOMAIN Forgotten(c)) /\ Cardinality(DOMAIN Forgotten(c)) <= UrlCap
<1> DEFINE D == DOMAIN urls
           F == DOMAIN urls \ {Asset(c)}
<1>1. DOMAIN Forgotten(c) = F /\ Forgotten(c) \in [F -> [life : Nat, trust : Nat]]
  BY DEF Forgotten, Typed
<1>2. IsFiniteSet(D) /\ Cardinality(D) \in Nat /\ Cardinality(D) <= UrlCap
  BY FS_CardinalityType DEF Typed
<1>3. F \in SUBSET D
  OBVIOUS
<1>4. IsFiniteSet(F) /\ Cardinality(F) <= Cardinality(D)
  BY <1>2, <1>3, FS_Subset
<1>5. Cardinality(F) \in Nat
  BY <1>4, FS_CardinalityType
<1> QED BY <1>1, <1>2, <1>4, <1>5, Constants

-----------------------------------------------------------------------------
(* What is true of one request at a time.                                  *)

\* A request that waits out a rejection sleeps for as long as the server told it
\* to, and has nothing left to wait for when it goes on.
Held(c) ==
    ~Open("masked") =>
        /\ call[c].pc \in {"look", "ready"} => call[c].hold <= call[c].sleep
        /\ call[c].pc \in {"lane", "parked", "slot", "send", "fetch", "done"} => call[c].hold = 0
        /\ call[c].pc \in {"release", "unlane", "observe", "classify"} => Due(call[c], server.resetIn)

\* A create is sent once; a URL that is turned down is counted.
Sober(c) ==
    /\ call[c].round > 0 => call[c].refused >= 1
    /\ call[c].answer = "rejected" => call[c].refused >= 2
    /\ call[c].pc \in {"look", "fetch"} => Download(c)
    /\ Kind(c) = "post" =>
          /\ call[c].answer # "exists"
          /\ call[c].pc \in {"ready", "lane", "parked", "slot", "send"} => call[c].eff = 0
          /\ call[c].pc \in {"release", "unlane", "observe", "classify"} => call[c].reply.status # "exists"

\* It sleeps while it waits to start, and before a reservation not for long.
Rested(c) ==
    /\ call[c].sleep > 0 => call[c].pc \in {"look", "ready"}
    /\ call[c].pc = "ready" => call[c].sleep <= Patience

Mild(c) == Held(c) /\ Sober(c) /\ Rested(c)

\* A wait the client computes is no shorter than what it was told.
LEMMA Waited ==
    ASSUME Typed, NEW q \in Requests, Due(q, server.resetIn), NEW n \in 0..MaxRetries, ~Open("masked"),
           NEW d \in Delay(q.reply, n)
    PROVE  q.hold <= d
<1>1. /\ q.hold \in Nat /\ q.reply.live \in BOOLEAN /\ q.reply.left \in Int /\ q.reply.after \in Nat
      /\ server.resetIn \in Nat /\ q.reply.status \in Statuses
  BY DEF Requests, Replies, Typed
<1>2. \A x \in Jittered(Backoff(n)) : x \in Nat /\ x >= Window
  <2>1. Backoff(n) \in Window..Hour
    BY Backoffs
  <2> HIDE DEF Backoff
  <2> QED BY <2>1, Constants DEF Jittered
<1>0. d \in Nat
  BY <1>1, Delays DEF Requests
<1>3. CASE q.reply.status = "limited"
  BY <1>1, <1>3 DEF Due, Delay, UntilReset
<1>4. CASE q.reply.status = "denied"
  BY <1>0, <1>1, <1>4 DEF Due
<1>5. CASE q.reply.status = "secondary"
  BY <1>1, <1>2, <1>5, Constants DEF Due, Delay
<1>6. CASE q.reply.status \notin {"limited", "denied", "secondary"}
  BY <1>0, <1>1, <1>6, Constants DEF Due, Delay, Least
<1> QED BY <1>3, <1>4, <1>5, <1>6

\* The classified request ends, sleeps and starts over.
LEMMA RetriesMild ==
    ASSUME Typed, NEW c \in Calls, Mild(c), call[c].pc = "classify", call' \in Retries(c),
           UNCHANGED <<scene, server>>
    PROVE  call' \in [Calls -> Requests] /\ Beside(c) /\ Mild(c)'
           /\ call'[c].pc \in {"ready", "look", "done"}
<1> DEFINE r == call[c].reply
<1>1. /\ call[c] \in Requests /\ r \in Replies /\ call[c].attempt \in 0..MaxRetries
      /\ call[c].outer \in 0..MaxRetries /\ call[c].refused \in Nat /\ call[c].hold \in Nat
      /\ call[c].sleep \in Nat /\ MaxWait \in Int
  BY Scenes, Constants DEF Typed, Requests
<1>2. PICK d \in Delay(r, call[c].attempt) :
         call' \in IF call[c].attempt < MaxRetries /\ Retryable(c) /\ (RateLimited(r) => d <= MaxWait)
                   THEN {Retry(c, d)} ELSE GivesUp(c)
  BY DEF Retries
<1>3. /\ d \in 0..Longest /\ d \in Nat
      /\ ~RateLimited(r) => d <= MaxRetryDelay + Jitter
      /\ ~Open("masked") => call[c].hold <= d
  BY <1>1, Delays, Waited, Constants DEF Mild, Held
<1>4. CASE /\ call[c].attempt < MaxRetries /\ Retryable(c)
           /\ RateLimited(r) => d <= MaxWait
  <2>1. call' = Retry(c, d)
    BY <1>2, <1>4
  <2>2. /\ call' \in [Calls -> Requests] /\ Beside(c) /\ Bears(call'[c], call[c])
        /\ call'[c].pc = "ready" /\ call'[c].sleep = d
    BY <1>3, <1>4, <2>1, RetryTyped
  <2>3. d <= Patience
    BY <1>1, <1>3, <1>4, Constants DEF Patience, Greatest
  <2>4. Held(c)'
    BY <1>3, <2>2 DEF Held, Bears
  <2>5. Sober(c)'
    BY <1>4, <2>2 DEF Mild, Sober, Bears, Retryable, Kind, Download
  <2>6. Rested(c)'
    BY <2>2, <2>3, Patient DEF Rested
  <2> QED BY <2>2, <2>4, <2>5, <2>6 DEF Mild
<1>5. CASE ~(/\ call[c].attempt < MaxRetries /\ Retryable(c)
             /\ RateLimited(r) => d <= MaxWait)
  <2>1. call' \in GivesUp(c)
    BY <1>2, <1>5
  <2>2. CASE Download(c) /\ Transient(r) /\ call[c].outer < MaxRetries
    <3>1. PICK e \in Delay(r, call[c].outer) : call' = Again(c, e)
      BY <2>1, <2>2 DEF GivesUp
    <3>a. e \in 0..Longest /\ (~Open("masked") => call[c].hold <= e)
      BY <1>1, Delays, Waited DEF Mild, Held
    <3>2. /\ call' \in [Calls -> Requests] /\ Beside(c)
          /\ call'[c].pc = "look" /\ call'[c].sleep = e /\ call'[c].hold = call[c].hold
          /\ call'[c].round = 0 /\ call'[c].answer = call[c].answer /\ call'[c].eff = call[c].eff
          /\ call'[c].refused = call[c].refused + 0
      BY <2>2, <3>1, <3>a, AgainTyped
    <3>3. Held(c)'
      BY <3>a, <3>2 DEF Held
    <3>4. Sober(c)'
      BY <1>1, <2>2, <3>2 DEF Mild, Sober, Kind, Download
    <3>5. Rested(c)'
      BY <3>2 DEF Rested
    <3> QED BY <3>2, <3>3, <3>4, <3>5 DEF Mild
  <2>3. CASE ~(Download(c) /\ Transient(r) /\ call[c].outer < MaxRetries)
    <3>1. call' = Answers(c, "failed")
      BY <2>1, <2>3 DEF GivesUp
    <3>2. /\ call' \in [Calls -> Requests] /\ Beside(c)
          /\ call'[c].pc = "done" /\ call'[c].sleep = 0 /\ call'[c].hold = 0 /\ call'[c].round = 0
          /\ call'[c].answer = "failed" /\ call'[c].eff = call[c].eff
      BY <3>1, AnswersTyped
    <3> QED BY <3>2 DEF Mild, Held, Sober, Rested
  <2> QED BY <2>2, <2>3
<1> QED BY <1>4, <1>5

LEMMA ClassifyMild ==
    ASSUME Typed, NEW c \in Calls, Mild(c), Classify(c)
    PROVE  Typed' /\ Beside(c) /\ Mild(c)' /\ call'[c].pc \in {"ready", "look", "done", "fetch"}
<1> DEFINE s == call[c].reply.status
<1>1. /\ call[c] \in Requests /\ call[c].pc = "classify" /\ s \in Statuses
      /\ call[c].hold \in Nat /\ call[c].sleep \in Nat
      /\ UNCHANGED <<scene, govVars, server, left>>
  <2>1. call[c] \in Requests /\ call[c].pc = "classify" /\ UNCHANGED <<scene, govVars, server, left>>
    BY DEF Typed, Classify, At
  <2>2. call[c].reply \in Replies /\ call[c].hold \in Nat /\ call[c].sleep \in Nat
    BY <2>1 DEF Requests
  <2> QED BY <2>1, <2>2 DEF Replies
<1>2. CASE s = "ok" /\ Download(c)
  <2>1. PICK u \in Signed :
            /\ urls' \in Pruned(Stored(c, u))
            /\ call' = [call EXCEPT ![c].pc = "fetch", ![c].url = u.life, ![c].cached = FALSE,
                                    ![c].reply = NoReply]
    BY <1>2 DEF Classify
  <2> DEFINE r == [call[c] EXCEPT !.pc = "fetch", !.url = u.life, !.cached = FALSE, !.reply = NoReply]
  <2>2. u.life \in Nat /\ NoReply \in Replies /\ "fetch" \in Pcs
    BY Constants, RefusedTyped DEF Signed, Pcs
  <2>3. /\ r \in Requests /\ Bears(r, call[c]) /\ r.pc = "fetch" /\ r.sleep = call[c].sleep
        /\ r.reply = NoReply
    BY <1>1, <2>2 DEF Requests, Bears
  <2>4. call' = [call EXCEPT ![c] = r]
    BY <2>1 DEF Typed
  <2> HIDE DEF r
  <2>5. call' \in [Calls -> Requests] /\ Beside(c) /\ call'[c] = r
    BY <2>3, <2>4, Placed
  <2>6. /\ urls' \in [DOMAIN urls' -> [life : Nat, trust : Nat]]
        /\ IsFiniteSet(DOMAIN urls') /\ Cardinality(DOMAIN urls') <= UrlCap
    BY <2>1, PrunedTyped
  <2>7. Typed'
    BY <1>1, <2>5, <2>6 DEF Typed, govVars
  <2>8. Held(c)'
    BY <1>1, <1>2, <2>3, <2>5 DEF Mild, Held, Due, Bears
  <2>9. Sober(c)' /\ Rested(c)'
    BY <1>1, <1>2, <2>3, <2>5 DEF Mild, Sober, Rested, Bears, Download, Kind
  <2> QED BY <2>3, <2>5, <2>7, <2>8, <2>9 DEF Mild
<1>3. CASE ~(s = "ok" /\ Download(c))
  <2>1. /\ UNCHANGED urls
        /\ call' \in IF s \in {"ok", "exists", "canceled"} THEN {Answers(c, s)}
                     ELSE IF s = "cut" THEN {Answers(c, "failed")}
                     ELSE Retries(c)
    BY <1>3 DEF Classify
  <2>2. call' \in [Calls -> Requests] => Typed'
    BY <1>1, <2>1 DEF Typed, govVars
  <2>3. ASSUME NEW a \in {"ok", "exists", "canceled", "failed"}, call' = Answers(c, a),
               Kind(c) = "post" => a # "exists"
        PROVE  call' \in [Calls -> Requests] /\ Beside(c) /\ Mild(c)' /\ call'[c].pc = "done"
    <3>1. a \in Statuses \cup {"failed", "rejected"}
      BY DEF Statuses
    <3>2. /\ call' \in [Calls -> Requests] /\ Beside(c)
          /\ call'[c].pc = "done" /\ call'[c].sleep = 0 /\ call'[c].hold = 0 /\ call'[c].round = 0
          /\ call'[c].answer = a
      BY <2>3, <3>1, AnswersTyped
    <3>3. scene' = scene
      BY <1>1
    <3> QED BY <2>3, <3>2, <3>3 DEF Mild, Held, Sober, Rested, Kind
  <2>4. CASE s \in {"ok", "exists", "canceled"}
    <3>1. Kind(c) = "post" => s # "exists"
      BY <1>1 DEF Mild, Sober
    <3> QED BY <2>1, <2>2, <2>3, <2>4, <3>1
  <2>5. CASE s = "cut"
    BY <2>1, <2>2, <2>3, <2>5
  <2>6. CASE s \notin {"ok", "exists", "canceled", "cut"}
    <3>1. call' \in Retries(c) /\ UNCHANGED <<scene, server>>
      BY <1>1, <2>1, <2>6
    <3> QED BY <1>1, <2>2, <3>1, RetriesMild
  <2> QED BY <2>4, <2>5, <2>6
<1> QED BY <1>2, <1>3

LEMMA CancelSleepMild ==
    ASSUME Typed, NEW c \in Calls, Mild(c), CancelSleep(c)
    PROVE  Typed' /\ Beside(c) /\ Mild(c)' /\ call'[c].pc = "done" /\ call[c].pc \in {"look", "ready"}
<1>1. call' = Answers(c, "canceled") /\ UNCHANGED <<scene, govVars, server, urls, left>> /\ call[c].sleep > 0
  BY DEF CancelSleep
<1>2. "canceled" \in Statuses \cup {"failed", "rejected"}
  BY DEF Statuses
<1>3. /\ call' \in [Calls -> Requests] /\ Beside(c)
      /\ call'[c].pc = "done" /\ call'[c].sleep = 0 /\ call'[c].hold = 0 /\ call'[c].round = 0
      /\ call'[c].answer = "canceled"
  BY <1>1, <1>2, AnswersTyped
<1>4. Typed'
  BY <1>1, <1>3 DEF Typed, govVars
<1>5. call[c].pc \in {"look", "ready"}
  BY <1>1 DEF Mild, Rested
<1> QED BY <1>3, <1>4, <1>5 DEF Mild, Held, Sober, Rested

LEMMA LookMild ==
    ASSUME Typed, NEW c \in Calls, Mild(c), Look(c)
    PROVE  Typed' /\ Beside(c) /\ Mild(c)' /\ call'[c].pc \in {"ready", "fetch"}
<1>1. /\ call[c] \in Requests /\ call[c].pc = "look" /\ call[c].sleep = 0 /\ call[c].hold \in Nat
      /\ UNCHANGED <<scene, govVars, server, urls, left>> /\ MaxWait \in Int
      /\ Patience \in Nat /\ (scene' = scene => Patience' = Patience)
  BY Scenes, Patient DEF Typed, Requests, Look, At
<1>2. call' \in [Calls -> Requests] => Typed'
  BY <1>1 DEF Typed, govVars
<1>3. /\ ~Open("masked") => call[c].hold = 0
      /\ Download(c) /\ Kind(c) # "post"
  BY <1>1 DEF Mild, Held, Sober, Download
<1>4. CASE Asset(c) \in DOMAIN urls /\ urls[Asset(c)].trust > 0
  <2> DEFINE r == [call[c] EXCEPT !.pc = "fetch", !.url = urls[Asset(c)].life, !.cached = TRUE]
  <2>1. call' = [call EXCEPT ![c] = r]
    BY <1>4 DEF Look, Typed
  <2>2. urls[Asset(c)].life \in Nat /\ "fetch" \in Pcs
    BY <1>4 DEF Typed, Pcs
  <2>3. r \in Requests /\ Bears(r, call[c]) /\ r.pc = "fetch" /\ r.sleep = call[c].sleep
    BY <1>1, <2>2 DEF Requests, Bears
  <2> HIDE DEF r
  <2>4. call' \in [Calls -> Requests] /\ Beside(c) /\ call'[c] = r
    BY <2>1, <2>3, Placed
  <2>5. Held(c)' /\ Rested(c)'
    BY <1>1, <1>3, <2>3, <2>4 DEF Held, Rested, Bears
  <2>6. Sober(c)'
    BY <1>1, <1>3, <2>3, <2>4 DEF Mild, Sober, Bears, Download, Kind
  <2> QED BY <1>2, <2>3, <2>4, <2>5, <2>6 DEF Mild
<1>5. CASE ~(Asset(c) \in DOMAIN urls /\ urls[Asset(c)].trust > 0)
  <2>1. call' = Resolve(c, call)
    BY <1>5 DEF Look
  <2>2. /\ call' \in [Calls -> Requests] /\ Beside(c) /\ Bears(call'[c], call[c])
        /\ call'[c].pc = "ready" /\ call'[c].sleep = call[c].sleep
    BY <2>1, ResolveTyped
  <2>3. Held(c)' /\ Rested(c)'
    BY <1>1, <1>3, <2>2 DEF Held, Rested, Bears
  <2>4. Sober(c)'
    BY <1>1, <1>3, <2>2 DEF Mild, Sober, Bears, Download, Kind
  <2> QED BY <1>2, <2>2, <2>3, <2>4 DEF Mild
<1> QED BY <1>4, <1>5

\* A URL is turned down.
LEMMA TurnedDownMild ==
    ASSUME Typed, NEW c \in Calls, Mild(c), call[c].pc = "fetch", TurnedDown(c),
           UNCHANGED <<scene, server>>
    PROVE  /\ call' \in [Calls -> Requests] /\ Beside(c) /\ Mild(c)'
           /\ call'[c].pc \in {"ready", "look", "done"}
           /\ urls' \in [DOMAIN urls' -> [life : Nat, trust : Nat]]
           /\ IsFiniteSet(DOMAIN urls') /\ Cardinality(DOMAIN urls') <= UrlCap
<1>1. /\ call[c] \in Requests /\ call[c].refused \in Nat /\ call[c].hold \in Nat /\ call[c].sleep \in Nat
      /\ call[c].round \in 0..1 /\ MaxWait \in Int
      /\ Patience \in Nat /\ Patience' = Patience
  BY Scenes, Patient DEF Typed, Requests
<1>2. /\ ~Open("masked") => call[c].hold = 0
      /\ Download(c) /\ Kind(c) # "post" /\ call[c].sleep = 0
  BY <1>1 DEF Mild, Held, Sober, Rested, Download
<1>3. CASE call[c].cached
  <2>1. call' = Resolve(c, call) /\ urls' = Forgotten(c)
    BY <1>3 DEF TurnedDown
  <2>2. /\ call' \in [Calls -> Requests] /\ Beside(c) /\ Bears(call'[c], call[c])
        /\ call'[c].pc = "ready" /\ call'[c].sleep = call[c].sleep
    BY <2>1, ResolveTyped
  <2>3. Held(c)' /\ Rested(c)'
    BY <1>1, <1>2, <2>2 DEF Held, Rested, Bears
  <2>4. Sober(c)'
    BY <1>1, <1>2, <2>2 DEF Mild, Sober, Bears, Download, Kind
  <2> QED BY <2>1, <2>2, <2>3, <2>4, ForgottenTyped DEF Mild
<1>4. CASE ~call[c].cached /\ call[c].round = 0
  <2> DEFINE n == call[c].refused + 1
             r == [call[c] EXCEPT !.refused = n, !.pc = "look", !.round = 1]
  <2>1. /\ urls' = Forgotten(c)
        /\ call' = [[call EXCEPT ![c].refused = @ + 1] EXCEPT ![c].pc = "look", ![c].round = 1]
    BY <1>4 DEF TurnedDown
  <2>2. call' = [call EXCEPT ![c] = r]
    BY <2>1 DEF Typed
  <2>3. n \in Nat /\ "look" \in Pcs /\ n >= 1
    BY <1>1 DEF Pcs
  <2>4. n = call[c].refused + 1
    OBVIOUS
  <2> HIDE DEF n
  <2>5. /\ r \in Requests /\ r.pc = "look" /\ r.sleep = call[c].sleep /\ r.hold = call[c].hold
        /\ r.refused = n /\ r.answer = call[c].answer /\ r.eff = call[c].eff
    <3>1. r \in Requests
      <4> DEFINE o == [call[c] EXCEPT !.refused = n, !.pc = "look"]
      <4>1. o \in Requests
        BY <1>1, <2>3 DEF Requests
      <4>2. r = [o EXCEPT !.round = 1]
        OBVIOUS
      <4> HIDE DEF o, r
      <4> QED BY <4>1, <4>2 DEF Requests
    <3>2. /\ r.pc = "look" /\ r.sleep = call[c].sleep /\ r.hold = call[c].hold
          /\ r.refused = n /\ r.answer = call[c].answer /\ r.eff = call[c].eff
      BY <1>1 DEF Requests
    <3> QED BY <3>1, <3>2
  <2> HIDE DEF r
  <2>6. call' \in [Calls -> Requests] /\ Beside(c) /\ call'[c] = r
    BY <2>2, <2>5, Placed
  <2>7. Held(c)' /\ Rested(c)'
    BY <1>1, <1>2, <2>5, <2>6 DEF Held, Rested
  <2>8. Sober(c)'
    BY <1>1, <1>2, <2>3, <2>4, <2>5, <2>6 DEF Mild, Sober, Download, Kind
  <2> QED BY <2>1, <2>5, <2>6, <2>7, <2>8, ForgottenTyped DEF Mild
<1>5. CASE ~call[c].cached /\ call[c].round # 0
  <2>1. UNCHANGED urls /\ call[c].refused >= 1
    BY <1>1, <1>5 DEF TurnedDown, Mild, Sober
  <2>2. \/ call' = [Answers(c, "rejected") EXCEPT ![c].refused = @ + 1]
        \/ call[c].outer < MaxRetries /\ call' = [Again(c, 0) EXCEPT ![c].refused = @ + 1]
    BY <1>5 DEF TurnedDown
  <2>3. CASE call' = [Answers(c, "rejected") EXCEPT ![c].refused = @ + 1]
    <3>1. /\ call' \in [Calls -> Requests] /\ Beside(c)
          /\ call'[c].pc = "done" /\ call'[c].sleep = 0 /\ call'[c].hold = 0 /\ call'[c].round = 0
          /\ call'[c].answer = "rejected" /\ call'[c].refused = call[c].refused + 1
      <4>1. call' = IF 1 = 0 THEN Answers(c, "rejected") ELSE [Answers(c, "rejected") EXCEPT ![c].refused = @ + 1]
        BY <2>3
      <4> QED BY <4>1, AnswersTyped
    <3>2. Held(c)' /\ Rested(c)'
      BY <3>1 DEF Held, Rested
    <3>3. Sober(c)'
      BY <1>1, <2>1, <3>1 DEF Sober
    <3> QED BY <2>1, <3>1, <3>2, <3>3 DEF Mild, Typed
  <2>4. CASE call[c].outer < MaxRetries /\ call' = [Again(c, 0) EXCEPT ![c].refused = @ + 1]
    <3>1. /\ call' \in [Calls -> Requests] /\ Beside(c)
          /\ call'[c].pc = "look" /\ call'[c].sleep = 0 /\ call'[c].hold = call[c].hold
          /\ call'[c].round = 0 /\ call'[c].answer = call[c].answer /\ call'[c].eff = call[c].eff
          /\ call'[c].refused = call[c].refused + 1
      <4>1. call' = IF 1 = 0 THEN Again(c, 0) ELSE [Again(c, 0) EXCEPT ![c].refused = @ + 1]
        BY <2>4
      <4>2. 0 \in 0..Longest
        BY Constants
      <4> QED BY <2>4, <4>1, <4>2, AgainTyped
    <3>2. Held(c)' /\ Rested(c)'
      BY <1>2, <3>1 DEF Held, Rested
    <3>3. Sober(c)'
      BY <1>1, <1>2, <2>1, <3>1 DEF Mild, Sober, Download, Kind
    <3> QED BY <2>1, <3>1, <3>2, <3>3 DEF Mild, Typed
  <2> QED BY <2>2, <2>3, <2>4
<1> QED BY <1>3, <1>4, <1>5

LEMMA FetchMild ==
    ASSUME Typed, NEW c \in Calls, Mild(c), Fetch(c) \/ FetchFails(c)
    PROVE  /\ Typed' /\ Beside(c) /\ Mild(c)' /\ call'[c].pc \in {"ready", "look", "done"}
           /\ call[c].pc = "fetch" /\ UNCHANGED <<scene, govVars, server>>
<1>1. /\ call[c] \in Requests /\ call[c].pc = "fetch" /\ UNCHANGED <<scene, govVars, server>>
      /\ call[c].sleep \in Nat /\ call[c].refused \in Nat
  BY DEF Typed, Requests, Fetch, FetchFails, At
<1>2. left' \in [faults : Nat, rejects : Nat, peers : Nat, ticks : Nat]
  <2>1. CASE Fetch(c)
    BY <2>1 DEF Fetch, Typed
  <2>2. CASE FetchFails(c)
    <3>1. left' = [left EXCEPT !.rejects = @ - 1] /\ left.rejects \in Nat /\ left.rejects > 0
      BY <2>2 DEF FetchFails, Typed
    <3>2. left.rejects - 1 \in Nat
      BY <3>1
    <3> QED BY <3>1, <3>2 DEF Typed
  <2> QED BY <2>1, <2>2
<1>3. CASE TurnedDown(c)
  <2>1. /\ call' \in [Calls -> Requests] /\ Beside(c) /\ Mild(c)'
        /\ call'[c].pc \in {"ready", "look", "done"}
        /\ urls' \in [DOMAIN urls' -> [life : Nat, trust : Nat]]
        /\ IsFiniteSet(DOMAIN urls') /\ Cardinality(DOMAIN urls') <= UrlCap
    BY <1>1, <1>3, TurnedDownMild
  <2>2. Typed'
    BY <1>1, <1>2, <2>1 DEF Typed, govVars
  <2> QED BY <1>1, <2>1, <2>2
<1>4. ASSUME NEW a \in {"ok", "failed"}, call' = Answers(c, a), UNCHANGED urls
      PROVE  Typed' /\ Beside(c) /\ Mild(c)' /\ call'[c].pc = "done"
  <2>1. a \in Statuses \cup {"failed", "rejected"}
    BY DEF Statuses
  <2>2. /\ call' \in [Calls -> Requests] /\ Beside(c)
        /\ call'[c].pc = "done" /\ call'[c].sleep = 0 /\ call'[c].hold = 0 /\ call'[c].round = 0
        /\ call'[c].answer = a
    BY <1>4, <2>1, AnswersTyped
  <2>3. Typed'
    BY <1>1, <1>2, <1>4, <2>2 DEF Typed, govVars
  <2> QED BY <1>4, <2>2, <2>3 DEF Mild, Held, Sober, Rested
<1>5. CASE call[c].outer < MaxRetries /\ call' = Again(c, 0) /\ UNCHANGED urls
  <2>1. /\ call' \in [Calls -> Requests] /\ Beside(c)
        /\ call'[c].pc = "look" /\ call'[c].sleep = 0 /\ call'[c].hold = call[c].hold
        /\ call'[c].round = 0 /\ call'[c].answer = call[c].answer /\ call'[c].eff = call[c].eff
        /\ call'[c].refused = call[c].refused + 0
    <3>1. call' = (IF 0 = 0 THEN Again(c, 0) ELSE [Again(c, 0) EXCEPT ![c].refused = @ + 1]) /\ 0 \in 0..Longest
      BY <1>5, Constants
    <3> QED BY <1>5, <3>1, AgainTyped
  <2>2. Typed'
    BY <1>1, <1>2, <1>5, <2>1 DEF Typed, govVars
  <2>3. Held(c)' /\ Rested(c)'
    BY <1>1, <2>1 DEF Mild, Held, Rested
  <2>4. Sober(c)'
    BY <1>1, <2>1 DEF Mild, Sober, Download, Kind
  <2> QED BY <1>1, <2>1, <2>2, <2>3, <2>4 DEF Mild
<1>6. \/ TurnedDown(c)
      \/ UNCHANGED urls /\ (call' = Answers(c, "ok") \/ call' = Answers(c, "failed"))
      \/ call[c].outer < MaxRetries /\ call' = Again(c, 0) /\ UNCHANGED urls
  BY DEF Fetch, FetchFails
<1> QED BY <1>1, <1>3, <1>4, <1>5, <1>6

-----------------------------------------------------------------------------
(* Every step, one request and then all of them.                           *)

\* The steps in the governor.
LEMMA GovernedMild ==
    ASSUME Typed, NEW c \in Calls, Mild(c), Governed(c) \/ (CancelWaiting(c) /\ UNCHANGED <<urls, left>>)
    PROVE  Typed' /\ Beside(c) /\ Mild(c)' /\ UNCHANGED <<scene, server>>
<1>1. /\ call[c] \in Requests /\ call[c].sleep \in Nat /\ call[c].hold \in Nat /\ MaxWait \in Int
      /\ UNCHANGED <<urls, left>> /\ UNCHANGED <<scene, server>>
  BY Scenes DEF Typed, Requests, Governed, ReserveStep, Claim, Take, Release, Unlane, Observe, CancelWaiting
<1>2. /\ Refused.status = "denied"
      /\ call[c].pc # "look" /\ call[c].pc # "ready" => call[c].sleep = 0
  BY <1>1, RefusedTyped DEF Mild, Rested
<1>3. ASSUME Typed', Beside(c), Bears(call'[c], call[c]), call'[c].sleep = call[c].sleep,
             call[c].pc \in {"lane", "slot", "parked"},
             \/ call'[c].pc \in {"slot", "send", "parked"}
             \/ call'[c].pc = "classify" /\ call'[c].reply = Refused
      PROVE  Typed' /\ Beside(c) /\ Mild(c)' /\ UNCHANGED <<scene, server>>
  <2>1. Held(c)'
    BY <1>2, <1>3 DEF Mild, Held, Bears, Due
  <2>2. Sober(c)'
    BY <1>1, <1>2, <1>3 DEF Mild, Sober, Bears, Download, Kind
  <2>3. Rested(c)'
    BY <1>2, <1>3 DEF Mild, Rested
  <2> QED BY <1>1, <1>3, <2>1, <2>2, <2>3 DEF Mild
<1>4. ASSUME Typed', Beside(c), Bears(call'[c], call[c]), call'[c].sleep = call[c].sleep,
             call'[c].reply = call[c].reply, call[c].pc \in {"release", "unlane", "observe"},
             call'[c].pc \in {"unlane", "observe", "classify"}
      PROVE  Typed' /\ Beside(c) /\ Mild(c)' /\ UNCHANGED <<scene, server>>
  <2>1. Held(c)'
    BY <1>1, <1>4 DEF Mild, Held, Bears, Due
  <2>2. Sober(c)'
    BY <1>1, <1>4 DEF Mild, Sober, Bears, Download, Kind
  <2>3. Rested(c)'
    BY <1>2, <1>4 DEF Mild, Rested
  <2> QED BY <1>1, <1>4, <2>1, <2>2, <2>3 DEF Mild
<1>5. CASE ReserveStep(c)
  <2>1. call[c].pc = "ready" /\ call[c].sleep = 0
    BY <1>5 DEF ReserveStep, At
  <2>2. /\ Typed' /\ Beside(c)
        /\ \/ call'[c].pc = "classify" /\ call'[c].reply = Refused
           \/ call'[c].pc = "ready" /\ call'[c].sleep <= Patience
           \/ call'[c].pc = IF Content(c) THEN "lane" ELSE "slot"
        /\ Bears(call'[c], call[c])
        /\ call'[c].sleep > 0 => call'[c].pc = "ready"
    BY <1>1, <1>5, ReserveTyped
  <2>3. call'[c].sleep \in Nat
    BY <2>2 DEF Typed, Requests
  <2>4. Held(c)'
    BY <1>1, <1>2, <2>1, <2>2, <2>3 DEF Mild, Held, Bears, Due
  <2>5. Sober(c)'
    BY <1>1, <1>2, <2>1, <2>2 DEF Mild, Sober, Bears, Download, Kind
  <2>6. Rested(c)'
    BY <1>1, <2>2, <2>3, Patient DEF Rested
  <2> QED BY <1>1, <2>2, <2>4, <2>5, <2>6 DEF Mild
<1>6. CASE Claim(c)
  <2>1. call[c].pc = "lane"
    BY <1>6 DEF Claim, At
  <2>2. /\ Typed' /\ Beside(c) /\ Bears(call'[c], call[c]) /\ call'[c].sleep = call[c].sleep
        /\ \/ call'[c].pc \in {"slot", "send", "parked"}
           \/ call'[c].pc = "classify" /\ call'[c].reply = Refused
    BY <1>1, <1>6, ClaimTyped
  <2> QED BY <1>3, <2>1, <2>2
<1>7. CASE Take(c)
  <2>1. call[c].pc = "slot"
    BY <1>7 DEF Take, At
  <2>2. /\ Typed' /\ Beside(c) /\ Bears(call'[c], call[c]) /\ call'[c].sleep = call[c].sleep
        /\ call'[c].pc = "send"
    BY <1>1, <1>7, TakeTyped
  <2> QED BY <1>3, <2>1, <2>2
<1>8. CASE Release(c)
  <2>1. call[c].pc = "release"
    BY <1>8 DEF Release, At
  <2>2. /\ Typed' /\ Beside(c) /\ Bears(call'[c], call[c]) /\ call'[c].sleep = call[c].sleep
        /\ call'[c].reply = call[c].reply /\ call'[c].pc \in {"unlane", "observe"}
    BY <1>1, <1>8, ReleaseTyped
  <2> QED BY <1>4, <2>1, <2>2
<1>9. CASE Unlane(c)
  <2>1. call[c].pc = "unlane"
    BY <1>9 DEF Unlane, At
  <2>2. /\ Typed' /\ Beside(c) /\ Bears(call'[c], call[c]) /\ call'[c].sleep = call[c].sleep
        /\ call'[c].reply = call[c].reply /\ call'[c].pc = "observe"
    BY <1>1, <1>9, UnlaneTyped
  <2> QED BY <1>4, <2>1, <2>2
<1>10. CASE Observe(c)
  <2>1. call[c].pc = "observe"
    BY <1>10 DEF Observe, At
  <2>2. /\ Typed' /\ Beside(c) /\ Bears(call'[c], call[c]) /\ call'[c].sleep = call[c].sleep
        /\ call'[c].reply = call[c].reply /\ call'[c].pc = "classify"
    BY <1>1, <1>10, ObserveTyped
  <2> QED BY <1>4, <2>1, <2>2
<1>11. CASE CancelWaiting(c)
  <2>1. call[c].pc \in {"parked", "slot"}
    BY <1>11 DEF CancelWaiting
  <2>2. /\ Typed' /\ Beside(c) /\ call'[c].sleep = call[c].sleep /\ call'[c].pc = "done"
        /\ call'[c] = [call[c] EXCEPT !.pc = "done", !.answer = "canceled"]
    BY <1>1, <1>11, CancelTyped
  <2>3. /\ call'[c].hold = call[c].hold /\ call'[c].round = call[c].round
        /\ call'[c].refused = call[c].refused /\ call'[c].answer = "canceled"
    BY <1>1, <2>2 DEF Requests
  <2>4. Held(c)'
    BY <2>1, <2>2, <2>3 DEF Mild, Held
  <2>5. Sober(c)'
    BY <2>2, <2>3 DEF Mild, Sober
  <2>6. Rested(c)'
    BY <1>2, <2>1, <2>2 DEF Rested
  <2> QED BY <1>1, <2>2, <2>4, <2>5, <2>6 DEF Mild
<1> QED BY <1>5, <1>6, <1>7, <1>8, <1>9, <1>10, <1>11 DEF Governed

\* The answers.
LEMMA SentMild ==
    ASSUME Typed, NEW c \in Calls, Mild(c), call[c].pc = "send", Sent(c), UNCHANGED scene
    PROVE  Mild(c)'
<1>1. call[c] \in Requests /\ call[c].sleep = 0
  BY DEF Typed, Requests, Mild, Rested
<1>2. Held(c)'
  BY DEF Sent, Held
<1>3. Sober(c)' /\ Rested(c)'
  BY <1>1 DEF Sent, Mild, Sober, Rested, Download, Kind
<1> QED BY <1>2, <1>3 DEF Mild

\* Others are left as they were, or woken.
LEMMA OthersMild ==
    ASSUME Typed, NEW c \in Calls, NEW d \in Calls \ {c}, Mild(d), Beside(c),
           scene' = scene, server'.resetIn = server.resetIn
    PROVE  Mild(d)'
<1>1. /\ Bears(call'[d], call[d]) /\ call'[d].sleep = call[d].sleep /\ call'[d].reply = call[d].reply
      /\ call'[d].pc = call[d].pc \/ (call[d].pc = "parked" /\ call'[d].pc = "lane")
  BY DEF Beside
<1>2. CASE call'[d].pc = call[d].pc
  <2>1. Held(d)'
    BY <1>1, <1>2 DEF Mild, Held, Bears, Due
  <2>2. Sober(d)' /\ Rested(d)'
    BY <1>1, <1>2, Patient DEF Mild, Sober, Rested, Bears, Download, Kind
  <2> QED BY <2>1, <2>2 DEF Mild
<1>3. CASE call[d].pc = "parked" /\ call'[d].pc = "lane"
  <2>0. call[d] \in Requests
    BY DEF Typed
  <2>1. Held(d)'
    BY <1>1, <1>3 DEF Mild, Held, Bears
  <2>2. Sober(d)'
    BY <1>1, <1>3 DEF Mild, Sober, Bears, Download, Kind
  <2>3. Rested(d)'
    BY <1>1, <1>3 DEF Mild, Rested
  <2> QED BY <2>1, <2>2, <2>3 DEF Mild
<1> QED BY <1>1, <1>2, <1>3

LEMMA PeerMild ==
    ASSUME Typed, \A d \in Calls : Mild(d), Peer
    PROVE  Typed' /\ \A d \in Calls : Mild(d)'
<1>1. /\ left.peers \in Nat /\ server.left \in 0..Limit /\ left.peers > 0 /\ server.left > 0
      /\ UNCHANGED <<scene, govVars, call, urls>>
      /\ left' = [left EXCEPT !.peers = @ - 1] /\ server' = [server EXCEPT !.left = @ - 1]
  BY DEF Typed, Peer
<1>2. left.peers - 1 \in Nat /\ server.left - 1 \in 0..Limit
  BY <1>1, Constants
<1>3. /\ left' \in [faults : Nat, rejects : Nat, peers : Nat, ticks : Nat]
      /\ server' \in [left : 0..Limit, resetIn : 1..Hour] /\ server'.resetIn = server.resetIn
  BY <1>1, <1>2 DEF Typed
<1>4. Typed'
  BY <1>1, <1>3 DEF Typed, govVars
<1>5. ASSUME NEW d \in Calls
      PROVE  Mild(d)'
  <2>1. Mild(d) /\ call'[d] = call[d]
    BY <1>1
  <2> QED BY <1>1, <1>3, <2>1 DEF Mild, Held, Sober, Rested, Due, Download, Kind, Patience, MaxWait
<1> QED BY <1>4, <1>5

LEMMA TickMild ==
    ASSUME Typed, \A d \in Calls : Mild(d), Tick
    PROVE  Typed' /\ \A d \in Calls : Mild(d)'
<1> DEFINE resets == server.resetIn = 1
<1>0. server' = IF resets THEN [left |-> Limit, resetIn |-> Hour] ELSE [server EXCEPT !.resetIn = @ - 1]
  BY DEF Tick
<1>w. window' = [window EXCEPT !.age = IF @ < Window THEN @ + 1 ELSE @]
  BY DEF Tick
<1>1. /\ budget' = [budget EXCEPT !.live = @ /\ ~resets]
      /\ call' = [c \in Calls |->
                        [call[c] EXCEPT !.sleep = Sooner(@), !.hold = Sooner(@), !.url = Sooner(@),
                                        !.reply.live = @ /\ ~resets]]
      /\ urls' = [a \in DOMAIN urls |-> [life |-> Sooner(urls[a].life), trust |-> Sooner(urls[a].trust)]]
      /\ UNCHANGED <<scene, slots, lane, admitted>>
  BY DEF Tick
<1>2. /\ server.resetIn \in 1..Hour /\ server \in [left : 0..Limit, resetIn : 1..Hour]
      /\ window.age \in 0..Window /\ budget \in [seen : BOOLEAN, left : 0..Limit, live : BOOLEAN]
      /\ resets \in BOOLEAN
  BY DEF Typed
<1>3. \A n \in Nat : Sooner(n) \in Nat /\ Sooner(n) <= n /\ (n > 0 => Sooner(n) = n - 1) /\ Sooner(0) = 0
  BY DEF Sooner
<1>4. /\ server' \in [left : 0..Limit, resetIn : 1..Hour]
      /\ server'.resetIn = IF resets THEN Hour ELSE server.resetIn - 1
  <2>1. CASE resets
    BY <1>0, <2>1, Constants
  <2>2. CASE ~resets
    <3>1. server.resetIn - 1 \in 1..Hour /\ server' = [server EXCEPT !.resetIn = server.resetIn - 1]
      BY <1>0, <1>2, <2>2, Constants
    <3> QED BY <1>2, <2>2, <3>1
  <2> QED BY <2>1, <2>2
<1>5. left' \in [faults : Nat, rejects : Nat, peers : Nat, ticks : Nat]
  <2>1. left.ticks \in Nat /\ (left.ticks > 0 => left.ticks - 1 \in Nat)
    BY DEF Typed
  <2> QED BY <2>1 DEF Tick, Typed
<1>6. budget' \in [seen : BOOLEAN, left : 0..Limit, live : BOOLEAN]
  BY <1>1, <1>2
<1>7. window' \in [age : 0..Window, points : Nat, content : Nat]
  <2>1. (IF window.age < Window THEN window.age + 1 ELSE window.age) \in 0..Window
    BY <1>2, Constants
  <2> QED BY <1>w, <2>1 DEF Typed
<1>8. DOMAIN urls' = DOMAIN urls /\ urls' \in [DOMAIN urls' -> [life : Nat, trust : Nat]]
  <2>1. \A a \in DOMAIN urls : urls[a].life \in Nat /\ urls[a].trust \in Nat
    BY DEF Typed
  <2>2. \A a \in DOMAIN urls : Sooner(urls[a].life) \in Nat /\ Sooner(urls[a].trust) \in Nat
    BY <1>3, <2>1
  <2> QED BY <1>1, <2>2
<1> HIDE DEF resets
<1>9. ASSUME NEW d \in Calls
      PROVE  /\ call'[d] \in Requests
             /\ call'[d].sleep = Sooner(call[d].sleep) /\ call'[d].hold = Sooner(call[d].hold)
             /\ call'[d].reply.live = (call[d].reply.live /\ ~resets)
             /\ call'[d].reply.status = call[d].reply.status /\ call'[d].reply.after = call[d].reply.after
             /\ call'[d].pc = call[d].pc /\ call'[d].round = call[d].round /\ call'[d].eff = call[d].eff
             /\ call'[d].refused = call[d].refused /\ call'[d].answer = call[d].answer
  <2> DEFINE p == [call[d].reply EXCEPT !.live = @ /\ ~resets]
             o == [call[d] EXCEPT !.sleep = Sooner(@), !.hold = Sooner(@), !.url = Sooner(@)]
  <2>1. /\ call[d] \in Requests /\ call[d].reply \in Replies /\ call[d].sleep \in 0..Longest
        /\ call[d].hold \in Nat /\ call[d].url \in Nat
    BY <1>9 DEF Typed, Requests
  <2>2. /\ Sooner(call[d].sleep) \in 0..Longest /\ Sooner(call[d].hold) \in Nat /\ Sooner(call[d].url) \in Nat
    BY <1>3, <2>1, Constants
  <2>3. /\ p \in Replies /\ p.live = (call[d].reply.live /\ ~resets)
        /\ p.status = call[d].reply.status /\ p.after = call[d].reply.after
    BY <2>1 DEF Replies
  <2>4. o \in Requests
    BY <2>1, <2>2 DEF Requests
  <2>5. /\ o.sleep = Sooner(call[d].sleep) /\ o.hold = Sooner(call[d].hold) /\ o.pc = call[d].pc
        /\ o.round = call[d].round /\ o.eff = call[d].eff /\ o.refused = call[d].refused
        /\ o.answer = call[d].answer /\ o.reply = call[d].reply
    BY <2>1 DEF Requests
  <2>6. call'[d] = [o EXCEPT !.reply.live = @ /\ ~resets]
    BY <1>1, <1>9
  <2> HIDE DEF o, p
  <2>7. call'[d] = [o EXCEPT !.reply = p]
    BY <2>5, <2>6 DEF p
  <2> QED BY <2>3, <2>4, <2>5, <2>7 DEF Requests
<1>10. call' \in [Calls -> Requests]
  BY <1>1, <1>9
<1>11. Typed'
  BY <1>1, <1>4, <1>5, <1>6, <1>7, <1>8, <1>10 DEF Typed
<1>12. ASSUME NEW d \in Calls
       PROVE  Mild(d)'
  <2>1. /\ Mild(d) /\ call[d].sleep \in Nat /\ call[d].hold \in Nat /\ call[d].reply.live \in BOOLEAN
        /\ call[d].reply.after \in Nat
    BY DEF Typed, Requests, Replies
  <2>2. Held(d)'
    <3> SUFFICES ASSUME ~Open("masked") PROVE Held(d)'
      BY DEF Held
    <3>1. call[d].pc \in {"look", "ready"} => call'[d].hold <= call'[d].sleep
      BY <1>9, <2>1 DEF Mild, Held, Sooner
    <3>2. call[d].hold = 0 => call'[d].hold = 0
      BY <1>9, <2>1 DEF Sooner
    <3>3. Due(call[d], server.resetIn) => Due(call'[d], server'.resetIn)
      <4> HAVE Due(call[d], server.resetIn)
      <4>1. call'[d].hold <= call[d].hold /\ call'[d].hold \in Nat
            /\ (call[d].hold <= server.resetIn => call'[d].hold <= server'.resetIn)
            /\ (call[d].hold = server.resetIn => call'[d].hold = IF resets THEN 0 ELSE server'.resetIn)
        BY <1>2, <1>4, <1>9, <2>1, Constants DEF Sooner, resets
      <4>2. CASE call[d].reply.status = "limited"
        <5>1. call'[d].hold = IF call'[d].reply.live THEN server'.resetIn ELSE 0
          BY <1>9, <2>1, <3>2, <4>1, <4>2 DEF Due
        <5> QED BY <1>9, <4>2, <5>1 DEF Due
      <4>3. CASE call[d].reply.status = "secondary"
        <5>1. call[d].hold <= Window /\ (call[d].reply.after > 0 => call[d].hold <= call[d].reply.after)
              /\ call[d].hold <= server.resetIn
          BY <4>3 DEF Due
        <5>2. call'[d].hold <= Window /\ (call[d].reply.after > 0 => call'[d].hold <= call[d].reply.after)
          BY <2>1, <4>1, <5>1, Constants
        <5> QED BY <1>9, <4>1, <4>3, <5>1, <5>2 DEF Due
      <4>4. CASE call[d].reply.status = "fault"
        <5>1. call'[d].hold <= call[d].reply.after /\ call'[d].hold <= MaxRetryDelay
          BY <2>1, <4>1, <4>4, Constants DEF Due
        <5> QED BY <1>9, <4>4, <5>1 DEF Due
      <4>5. CASE call[d].reply.status \notin {"limited", "secondary", "fault"}
        BY <1>9, <3>2, <4>5 DEF Due
      <4> QED BY <4>2, <4>3, <4>4, <4>5
    <3> QED BY <1>9, <2>1, <3>1, <3>2, <3>3 DEF Mild, Held
  <2>3. Sober(d)'
    BY <1>1, <1>9, <2>1 DEF Mild, Sober, Download, Kind
  <2>4. Rested(d)'
    <3>1. call'[d].sleep <= call[d].sleep /\ call'[d].sleep \in Nat
      BY <1>3, <1>9, <2>1
    <3>3. Patience' = Patience /\ Patience \in Nat
      BY <1>1, Patient
    <3>4. call[d].pc = "ready" => call'[d].sleep <= Patience
      BY <2>1, <3>1, <3>3 DEF Mild, Rested
    <3>5. call'[d].sleep > 0 => call'[d].pc \in {"look", "ready"}
      BY <1>9, <2>1, <3>1 DEF Mild, Rested
    <3> QED BY <1>9, <3>3, <3>4, <3>5 DEF Rested
  <2> QED BY <2>2, <2>3, <2>4 DEF Mild
<1> QED BY <1>11, <1>12

MildInv == Typed /\ \A d \in Calls : Mild(d)

LEMMA InitMild == Init => MildInv
<1> SUFFICES ASSUME Init PROVE MildInv
  OBVIOUS
<1>1. scene \in Cases /\ left = scene.trouble /\ scene.left \in 0..Limit /\ scene.seen \in BOOLEAN
      /\ scene.trouble \in [faults : Nat, rejects : Nat, peers : Nat, ticks : Nat]
  BY Scenes DEF Init
<1>2. /\ budget = [seen |-> scene.seen, left |-> IF scene.seen THEN scene.left ELSE 0, live |-> scene.seen]
      /\ window = [age |-> 0, points |-> 0, content |-> 0] /\ admitted = Nothing
      /\ server = [left |-> scene.left, resetIn |-> Hour] /\ urls = [a \in {} |-> 0]
  BY DEF Init
<1>3. Fresh \in Requests
  <2>1. "ready" \in Pcs /\ "none" \in Statuses /\ NoReply \in Replies
    BY Constants DEF Pcs, Statuses, NoReply, Replies
  <2> QED BY <2>1, Constants DEF Fresh, Requests
<1>4. ASSUME NEW d \in Calls
      PROVE  /\ call[d] \in Requests /\ call[d].pc \in {"done", "look", "ready"}
             /\ call[d].pc = "look" => Download(d)
             /\ call[d].sleep = 0 /\ call[d].hold = 0 /\ call[d].round = 0 /\ call[d].eff = 0
             /\ call[d].answer = "none" /\ call[d].mine = FALSE
  <2> DEFINE pc == IF Kind(d) = "none" THEN "done" ELSE IF Download(d) THEN "look" ELSE "ready"
  <2>1. call[d] = [Fresh EXCEPT !.pc = pc]
    BY DEF Init, Fresh
  <2>2. pc \in Pcs /\ pc \in {"done", "look", "ready"} /\ (pc = "look" => Download(d))
    BY DEF Pcs
  <2> HIDE DEF pc
  <2>3. /\ [Fresh EXCEPT !.pc = pc] \in Requests
    BY <1>3, <2>2 DEF Requests
  <2>4. /\ [Fresh EXCEPT !.pc = pc].sleep = 0 /\ [Fresh EXCEPT !.pc = pc].hold = 0
        /\ [Fresh EXCEPT !.pc = pc].round = 0 /\ [Fresh EXCEPT !.pc = pc].eff = 0
        /\ [Fresh EXCEPT !.pc = pc].answer = "none" /\ [Fresh EXCEPT !.pc = pc].pc = pc
        /\ [Fresh EXCEPT !.pc = pc].mine = FALSE
    BY DEF Fresh
  <2> QED BY <2>1, <2>2, <2>3, <2>4
<1>5. call \in [Calls -> Requests]
  BY <1>4 DEF Init
<1>6. DOMAIN urls = {} /\ urls \in [DOMAIN urls -> [life : Nat, trust : Nat]]
      /\ IsFiniteSet(DOMAIN urls) /\ Cardinality(DOMAIN urls) <= UrlCap
  BY <1>2, FS_EmptySet, Constants
<1>7. Typed
  <2>1. budget \in [seen : BOOLEAN, left : 0..Limit, live : BOOLEAN]
    BY <1>1, <1>2, Constants
  <2>2. window \in [age : 0..Window, points : Nat, content : Nat]
    BY <1>2, Constants
  <2>3. admitted \in [points : Int, bulk : Int, content : Int]
    BY <1>2 DEF Nothing
  <2>4. server \in [left : 0..Limit, resetIn : 1..Hour]
    BY <1>1, <1>2, Constants
  <2> QED BY <1>1, <1>5, <1>6, <2>1, <2>2, <2>3, <2>4 DEF Typed
<1>8. ASSUME NEW d \in Calls
      PROVE  Mild(d)
  <2>0. /\ call[d] \in Requests /\ call[d].pc \in {"done", "look", "ready"}
        /\ call[d].pc = "look" => Download(d)
        /\ call[d].sleep = 0 /\ call[d].hold = 0 /\ call[d].round = 0 /\ call[d].eff = 0
        /\ call[d].answer = "none" /\ call[d].mine = FALSE
    BY <1>4, <1>8
  <2>1. Patience \in Nat
    BY <1>7, Patient
  <2>2. Held(d) /\ Rested(d)
    BY <2>0, <2>1 DEF Held, Rested
  <2>3. Sober(d)
    BY <2>0 DEF Sober
  <2> QED BY <2>2, <2>3 DEF Mild
<1> QED BY <1>7, <1>8 DEF MildInv

\* One step of one request, or of time, or of a peer.
LEMMA StepMild ==
    ASSUME MildInv, NEW c \in Calls, Step(c) \/ Trouble(c)
    PROVE  MildInv' /\ Beside(c) /\ scene' = scene /\ server'.resetIn = server.resetIn
<1> USE DEF MildInv
<1>1. ASSUME Typed', Beside(c), Mild(c)', scene' = scene, server'.resetIn = server.resetIn
      PROVE  MildInv' /\ Beside(c) /\ scene' = scene /\ server'.resetIn = server.resetIn
  <2>1. ASSUME NEW d \in Calls \ {c} PROVE Mild(d)'
    BY <1>1, <2>1, OthersMild
  <2> QED BY <1>1, <2>1
<1>2. CASE Governed(c) \/ (CancelWaiting(c) /\ UNCHANGED <<urls, left>>)
  <2>1. Typed' /\ Beside(c) /\ Mild(c)' /\ UNCHANGED <<scene, server>>
    BY <1>2, GovernedMild
  <2> QED BY <1>1, <2>1
<1>3. CASE Serve(c) \/ ServeFails(c) \/ CancelSent(c)
  <2>1. Typed' /\ Beside(c) /\ Sent(c)
    BY <1>3, ServeTyped, ServeFailsTyped, CancelSentTyped
  <2>2. call[c].pc = "send" /\ scene' = scene /\ server' \in {server, Counted(c)}
    BY <1>3 DEF Serve, ServeFails, CancelSent, At
  <2>3. Mild(c)'
    BY <2>1, <2>2, SentMild
  <2>4. server'.resetIn = server.resetIn
    BY <2>2, CountedTyped
  <2> QED BY <1>1, <2>1, <2>2, <2>3, <2>4
<1>4. CASE Classify(c)
  <2>1. Typed' /\ Beside(c) /\ Mild(c)' /\ UNCHANGED <<scene, server>>
    BY <1>4, ClassifyMild DEF Classify
  <2> QED BY <1>1, <2>1
<1>5. CASE CancelSleep(c)
  <2>1. Typed' /\ Beside(c) /\ Mild(c)' /\ UNCHANGED <<scene, server>>
    BY <1>5, CancelSleepMild DEF CancelSleep
  <2> QED BY <1>1, <2>1
<1>6. CASE Look(c)
  <2>1. Typed' /\ Beside(c) /\ Mild(c)' /\ UNCHANGED <<scene, server>>
    BY <1>6, LookMild DEF Look
  <2> QED BY <1>1, <2>1
<1>7. CASE Fetch(c) \/ FetchFails(c)
  <2>1. Typed' /\ Beside(c) /\ Mild(c)' /\ UNCHANGED <<scene, govVars, server>>
    BY <1>7, FetchMild
  <2> QED BY <1>1, <2>1
<1> QED BY <1>2, <1>3, <1>4, <1>5, <1>6, <1>7 DEF Step, Trouble

LEMMA NextMild ==
    ASSUME MildInv, [Next]_vars
    PROVE  MildInv'
<1>1. CASE UNCHANGED vars
  <2>1. Typed'
    BY <1>1 DEF MildInv, Typed, vars, govVars
  <2>2. ASSUME NEW d \in Calls PROVE Mild(d)'
    <3>1. Mild(d) /\ UNCHANGED <<scene, call, server>>
      BY <1>1 DEF MildInv, vars
    <3> QED BY <3>1 DEF Mild, Held, Sober, Rested, Due, Download, Kind, Patience, MaxWait
  <2> QED BY <2>1, <2>2 DEF MildInv
<1>2. CASE Tick
  BY <1>2, TickMild DEF MildInv
<1>3. CASE Peer
  BY <1>3, PeerMild DEF MildInv
<1>4. CASE \E c \in Calls : Step(c) \/ Trouble(c)
  BY <1>4, StepMild
<1> QED BY <1>1, <1>2, <1>3, <1>4 DEF Next

LEMMA AlwaysMild == Spec => []MildInv
BY InitMild, NextMild, PTL DEF Spec

\* RetriesHarmless, the guard of doJSONWithRetryable and the counting of
\* DownloadAssetStream: a create is never reported as refused because its own
\* first attempt took effect, and a download fails for a rejected URL only after
\* two that it resolved itself were turned down.
THEOREM RetriesAlwaysHarmless == Spec => []RetriesHarmless
<1>1. MildInv => RetriesHarmless
  <2> SUFFICES ASSUME MildInv PROVE RetriesHarmless
    OBVIOUS
  <2>1. \A d \in Calls : Sober(d)
    BY DEF MildInv, Mild
  <2> QED BY <2>1 DEF RetriesHarmless, NoSelfConflict, StaleHarmless, Sober
<1> QED BY <1>1, AlwaysMild, PTL

-----------------------------------------------------------------------------
(* The slots and the lane.                                                 *)

One(b) == IF b THEN 1 ELSE 0
Holders == {c \in Calls : Holds(c)}
Laned == {c \in Calls : InLane(c)}
\* The counters count their holders and stay within their limits, a request parks
\* only while its lane is full, and only bulk requests use the lane.
Slotted ==
    /\ SlotsExact /\ NoLostWakeup
    /\ slots \in 0..Concurrency /\ lane \in 0..LaneLimit
    /\ \A c \in Calls : call[c].pc \in {"lane", "parked", "unlane"} => Content(c)

\* One member more or less.
LEMMA Counting ==
    ASSUME NEW S, NEW T, NEW x, IsFiniteSet(S), \A y : y # x => (y \in S <=> y \in T)
    PROVE  /\ IsFiniteSet(T)
           /\ Cardinality(T) = Cardinality(S) + One(x \in T) - One(x \in S)
           /\ Cardinality(S) \in Nat
<1>1. CASE x \in T /\ x \notin S
  <2>1. T = S \cup {x}
    BY <1>1
  <2> QED BY <1>1, <2>1, FS_AddElement, FS_CardinalityType DEF One
<1>2. CASE x \notin T /\ x \in S
  <2>1. T = S \ {x}
    BY <1>2
  <2> QED BY <1>2, <2>1, FS_RemoveElement, FS_CardinalityType DEF One
<1>3. CASE x \in T <=> x \in S
  <2>1. T = S
    BY <1>3
  <2> QED BY <1>3, <2>1, FS_CardinalityType DEF One
<1> QED BY <1>1, <1>2, <1>3

LEMMA Finite == IsFiniteSet(Holders) /\ IsFiniteSet(Laned)
<1>1. Holders \in SUBSET Calls /\ Laned \in SUBSET Calls /\ IsFiniteSet(Calls)
  BY RateAssumption DEF Holders, Laned
<1> QED BY <1>1, FS_Subset

\* The counters follow the request that moves.
LEMMA Moving ==
    ASSUME SlotsExact, NEW c \in Calls, scene' = scene, Beside(c),
           slots' = slots + One(Holds(c)') - One(Holds(c)),
           lane' = lane + One(InLane(c)') - One(InLane(c))
    PROVE  SlotsExact'
<1>1. \A y : y # c => /\ (y \in Holders <=> y \in Holders')
                      /\ (y \in Laned <=> y \in Laned')
  BY DEF Beside, Holders, Laned, Holds, InLane, Content, Class, Kind
<1>2. /\ Cardinality(Holders') = Cardinality(Holders) + One(c \in Holders') - One(c \in Holders)
      /\ Cardinality(Laned') = Cardinality(Laned) + One(c \in Laned') - One(c \in Laned)
  BY <1>1, Finite, Counting
<1>3. /\ (c \in Holders' <=> Holds(c)') /\ (c \in Holders <=> Holds(c))
      /\ (c \in Laned' <=> InLane(c)') /\ (c \in Laned <=> InLane(c))
  BY DEF Holders, Laned
<1>4. slots = Cardinality(Holders) /\ lane = Cardinality(Laned)
  BY DEF SlotsExact, Holders, Laned
<1>5. slots' = Cardinality(Holders') /\ lane' = Cardinality(Laned')
  BY <1>2, <1>3, <1>4 DEF One
<1> QED BY <1>5 DEF SlotsExact, Holders, Laned

\* Who holds is counted.
LEMMA Counted1 ==
    ASSUME SlotsExact, NEW c \in Calls
    PROVE  /\ slots \in Nat /\ lane \in Nat
           /\ Holds(c) => slots >= 1
           /\ InLane(c) => lane >= 1
<1>1. slots = Cardinality(Holders) /\ lane = Cardinality(Laned)
  BY DEF SlotsExact, Holders, Laned
<1>2. /\ Cardinality(Holders) \in Nat /\ Cardinality(Laned) \in Nat
      /\ Cardinality(Holders) = 0 <=> Holders = {}
      /\ Cardinality(Laned) = 0 <=> Laned = {}
  BY Finite, FS_CardinalityType, FS_EmptySet
<1> QED BY <1>1, <1>2 DEF Holders, Laned

\* Where a request stands in the slots only its place tells.
LEMMA Standing ==
    ASSUME NEW c \in Calls, scene' = scene
    PROVE  /\ Content(c) \in BOOLEAN /\ Content(c)' = Content(c)
           /\ Holds(c) <=> call[c].pc \in {"send", "release"}
           /\ Holds(c)' <=> call'[c].pc \in {"send", "release"}
           /\ InLane(c) <=> Content(c) /\ call[c].pc \in {"slot", "send", "release", "unlane"}
           /\ InLane(c)' <=> Content(c) /\ call'[c].pc \in {"slot", "send", "release", "unlane"}
BY DEF Holds, InLane, Content, Class, Kind

\* A step that leaves the counters alone, and no new one at a place that is
\* counted or waited for.
LEMMA Aside ==
    ASSUME MildInv, Slotted, NEW c \in Calls, scene' = scene, Beside(c), UNCHANGED <<slots, lane>>,
           \/ /\ call[c].pc \in {"look", "ready", "observe", "classify", "fetch", "done"}
              /\ call'[c].pc \in {"look", "ready", "observe", "classify", "fetch", "done"}
           \/ call[c].pc = "send" /\ call'[c].pc = "release"
           \/ call[c].pc = "ready" /\ call'[c].pc = IF Content(c) THEN "lane" ELSE "slot"
           \/ call[c].pc \in {"lane", "parked"} /\ call'[c].pc \in {"classify", "done"}
           \/ call[c].pc = "lane" /\ call'[c].pc = "parked" /\ ~(lane < LaneLimit)
           \/ call[c].pc = "slot" /\ call'[c].pc = "done" /\ ~Content(c)
    PROVE  Slotted'
<1>1. One(Holds(c)') = One(Holds(c)) /\ One(InLane(c)') = One(InLane(c))
  BY Standing DEF One
<1>2. slots \in Int /\ lane \in Int /\ One(Holds(c)) \in Int /\ One(InLane(c)) \in Int
  BY Counted1 DEF Slotted, One
<1>3. SlotsExact'
  BY <1>1, <1>2, Moving DEF Slotted
<1>4. /\ slots' \in 0..Concurrency /\ lane' \in 0..LaneLimit /\ LaneLimit \in Nat
  BY Lanes, Constants DEF Slotted
<1>5. ASSUME NEW d \in Calls, call'[d].pc = "parked" PROVE lane' >= LaneLimit
  <2>1. call[d].pc = "parked" => lane >= LaneLimit
    BY DEF Slotted, NoLostWakeup, At
  <2>2. call[d].pc = "parked" \/ ~(lane < LaneLimit)
    BY <1>5 DEF Beside
  <2> QED BY <1>2, <1>4, <2>1, <2>2
<1>6. ASSUME NEW d \in Calls, call'[d].pc \in {"lane", "parked", "unlane"} PROVE Content(d)'
  <2>1. call[d].pc \in {"lane", "parked", "unlane"} => Content(d)
    BY DEF Slotted
  <2>2. d = c => Content(c)
    BY <1>6, <2>1
  <2>3. d # c => Content(d)
    BY <1>6, <2>1 DEF Beside
  <2> QED BY <2>2, <2>3, Standing
<1> QED BY <1>3, <1>4, <1>5, <1>6 DEF Slotted, NoLostWakeup, At

\* A request takes a slot, or gives it back.
LEMMA TakesSlot ==
    ASSUME MildInv, Slotted, NEW c \in Calls, scene' = scene, Beside(c), Take(c) \/ Release(c),
           call'[c].pc = IF Take(c) THEN "send" ELSE IF Content(c) THEN "unlane" ELSE "observe"
    PROVE  Slotted'
<1>1. lane' = lane /\ One(InLane(c)') = One(InLane(c)) /\ One(InLane(c)) \in Int
  <2>1. call[c].pc \in {"slot", "release"} /\ (Take(c) => call[c].pc = "slot") /\ lane' = lane
    BY DEF Take, Release, At
  <2> QED BY <2>1, Standing DEF One
<1>2. /\ slots \in Nat /\ lane \in Nat /\ (Holds(c) => slots >= 1)
  BY Counted1 DEF Slotted
<1>3. slots' = slots + One(Holds(c)') - One(Holds(c)) /\ slots' \in 0..Concurrency
  <2>1. CASE Take(c)
    BY <1>2, <2>1, Standing, Constants DEF Take, At, One
  <2>2. CASE ~Take(c)
    <3>1. Release(c) /\ slots' = slots - 1 /\ call[c].pc = "release"
      BY <2>2 DEF Release, At
    <3> QED BY <1>2, <2>2, <3>1, Standing, Constants DEF One, Slotted
  <2> QED BY <2>1, <2>2
<1>4. SlotsExact'
  BY <1>1, <1>2, <1>3, Moving DEF Slotted
<1>5. ASSUME NEW d \in Calls, call'[d].pc = "parked" PROVE lane' >= LaneLimit
  <2>1. call[d].pc = "parked" => lane >= LaneLimit
    BY DEF Slotted, NoLostWakeup, At
  <2>2. call[d].pc = "parked"
    BY <1>5 DEF Beside
  <2> QED BY <1>1, <2>1, <2>2
<1>6. ASSUME NEW d \in Calls, call'[d].pc \in {"lane", "parked", "unlane"} PROVE Content(d)'
  <2>1. call[d].pc \in {"lane", "parked", "unlane"} => Content(d)
    BY DEF Slotted
  <2>2. d = c => Content(c)
    BY <1>6
  <2>3. d # c => Content(d)
    BY <1>6, <2>1 DEF Beside
  <2> QED BY <2>2, <2>3, Standing
<1> QED BY <1>1, <1>3, <1>4, <1>5, <1>6 DEF Slotted, NoLostWakeup, At

\* A request takes a place in the lane.
LEMMA TakesLane ==
    ASSUME MildInv, Slotted, NEW c \in Calls, scene' = scene, Beside(c), call[c].pc = "lane",
           call'[c].pc = "slot", lane < LaneLimit, lane' = lane + 1, slots' = slots
    PROVE  Slotted'
<1>0. Content(c)
  BY DEF Slotted
<1>1. One(Holds(c)') = 0 /\ One(Holds(c)) = 0 /\ One(InLane(c)') = 1 /\ One(InLane(c)) = 0
  BY <1>0, Standing DEF One
<1>2. slots \in Nat /\ lane \in Nat /\ LaneLimit \in Nat
  BY Counted1, Lanes, Constants DEF Slotted
<1>4. SlotsExact' /\ lane' \in 0..LaneLimit
  BY <1>1, <1>2, Moving DEF Slotted
<1>5. ASSUME NEW d \in Calls, call'[d].pc = "parked" PROVE FALSE
  <2>1. call[d].pc = "parked" => lane >= LaneLimit
    BY DEF Slotted, NoLostWakeup, At
  <2>2. call[d].pc = "parked"
    BY <1>5 DEF Beside
  <2> QED BY <1>2, <2>1, <2>2
<1>6. ASSUME NEW d \in Calls, call'[d].pc \in {"lane", "parked", "unlane"} PROVE Content(d)'
  <2>1. call[d].pc \in {"lane", "parked", "unlane"} => Content(d)
    BY DEF Slotted
  <2> QED BY <1>0, <1>6, <2>1, Standing DEF Beside
<1> QED BY <1>4, <1>5, <1>6 DEF Slotted, NoLostWakeup, At

\* A bulk request leaves the lane and wakes the others.
LEMMA LeavesLane ==
    ASSUME MildInv, Slotted, NEW c \in Calls, scene' = scene, Beside(c), Content(c),
           call[c].pc \in {"slot", "unlane"}, call'[c].pc \in {"done", "observe"},
           lane' = lane - 1, slots' = slots, \A d \in Calls : call'[d].pc # "parked"
    PROVE  Slotted'
<1>1. One(Holds(c)') = 0 /\ One(Holds(c)) = 0 /\ One(InLane(c)') = 0 /\ One(InLane(c)) = 1
  BY Standing DEF One
<1>2. slots \in Nat /\ lane \in Nat /\ lane >= 1 /\ LaneLimit \in Nat
  BY Counted1, Lanes, Constants, Standing DEF Slotted
<1>4. SlotsExact' /\ lane' \in 0..LaneLimit
  BY <1>1, <1>2, Moving DEF Slotted
<1>6. ASSUME NEW d \in Calls, call'[d].pc \in {"lane", "parked", "unlane"} PROVE Content(d)'
  <2>1. call[d].pc \in {"lane", "parked", "unlane"} => Content(d)
    BY DEF Slotted
  <2>2. d # c /\ call[d].pc \in {"lane", "parked", "unlane"}
    BY <1>6 DEF Beside
  <2> QED BY <2>1, <2>2, Standing
<1> QED BY <1>4, <1>6 DEF Slotted, NoLostWakeup, At

\* Every step of a request keeps the slots right.
LEMMA StepSlotted ==
    ASSUME MildInv, Slotted, NEW c \in Calls, Step(c) \/ Trouble(c)
    PROVE  Slotted'
<1>1. Beside(c) /\ scene' = scene /\ MildInv'
  BY StepMild
<1>2. Typed /\ Mild(c)
  BY DEF MildInv
<1>3. CASE ReserveStep(c) /\ UNCHANGED <<urls, left>>
  <2>1. /\ \/ call'[c].pc = "classify"
           \/ call'[c].pc = "ready"
           \/ call'[c].pc = IF Content(c) THEN "lane" ELSE "slot"
        /\ call[c].pc = "ready" /\ UNCHANGED <<slots, lane>>
    BY <1>2, <1>3, ReserveTyped DEF ReserveStep, At
  <2> QED BY <1>1, <2>1, Aside
<1>4. CASE Claim(c) /\ UNCHANGED <<urls, left>>
  <2>1. /\ \/ lane < LaneLimit /\ call'[c].pc = "slot"
           \/ ~(lane < LaneLimit) /\ call'[c].pc = "parked"
           \/ ~(lane < LaneLimit) /\ call'[c].pc = "classify"
        /\ call[c].pc = "lane" /\ slots' = slots
        /\ lane' = IF lane < LaneLimit THEN lane + 1 ELSE lane
    BY <1>2, <1>4, ClaimTyped DEF Claim, At
  <2>2. CASE lane < LaneLimit
    BY <1>1, <2>1, <2>2, TakesLane
  <2>3. CASE ~(lane < LaneLimit)
    BY <1>1, <2>1, <2>3, Aside
  <2> QED BY <2>2, <2>3
<1>5. CASE Take(c) /\ UNCHANGED <<urls, left>>
  <2>1. call'[c].pc = "send"
    BY <1>2, <1>5, TakeTyped
  <2> QED BY <1>1, <1>5, <2>1, TakesSlot
<1>6. CASE Release(c) /\ UNCHANGED <<urls, left>>
  <2>1. (call'[c].pc = IF Content(c) THEN "unlane" ELSE "observe") /\ call[c].pc = "release"
    BY <1>2, <1>6, ReleaseTyped DEF Release, At
  <2>2. ~Take(c)
    BY <2>1 DEF Take, At
  <2> QED BY <1>1, <1>6, <2>1, <2>2, TakesSlot
<1>7. CASE Unlane(c) /\ UNCHANGED <<urls, left>>
  <2>1. /\ call'[c].pc = "observe" /\ \A d \in Calls : call'[d].pc # "parked"
        /\ call[c].pc = "unlane" /\ lane' = lane - 1 /\ slots' = slots
    BY <1>2, <1>7, UnlaneTyped DEF Unlane, At
  <2>2. Content(c)
    BY <2>1 DEF Slotted
  <2> QED BY <1>1, <2>1, <2>2, LeavesLane
<1>8. CASE Observe(c) /\ UNCHANGED <<urls, left>>
  <2>1. call'[c].pc = "classify" /\ call[c].pc = "observe" /\ UNCHANGED <<slots, lane>>
    BY <1>2, <1>8, ObserveTyped DEF Observe, At
  <2> QED BY <1>1, <2>1, Aside
<1>9. CASE CancelWaiting(c) /\ UNCHANGED <<urls, left>>
  <2>1. /\ call'[c].pc = "done" /\ call[c].pc \in {"parked", "slot"} /\ slots' = slots
        /\ (call[c].pc = "slot" /\ Content(c)) => \A d \in Calls : call'[d].pc # "parked"
        /\ lane' = IF call[c].pc = "slot" /\ Content(c) THEN lane - 1 ELSE lane
    BY <1>2, <1>9, CancelTyped DEF CancelWaiting, At
  <2>2. CASE call[c].pc = "slot" /\ Content(c)
    BY <1>1, <2>1, <2>2, LeavesLane
  <2>3. CASE ~(call[c].pc = "slot" /\ Content(c))
    BY <1>1, <2>1, <2>3, Aside
  <2> QED BY <2>2, <2>3
<1>10. CASE Serve(c) \/ ServeFails(c) \/ CancelSent(c)
  <2>1. Sent(c)
    BY <1>2, <1>10, ServeTyped, ServeFailsTyped, CancelSentTyped
  <2>2. call[c].pc = "send" /\ UNCHANGED <<slots, lane>> /\ call'[c].pc = "release"
    BY <1>10, <2>1 DEF Serve, ServeFails, CancelSent, At, govVars, Sent
  <2> QED BY <1>1, <2>2, Aside
<1>11. CASE Classify(c)
  <2>1. call'[c].pc \in {"ready", "look", "done", "fetch"} /\ call[c].pc = "classify" /\ UNCHANGED <<slots, lane>>
    BY <1>2, <1>11, ClassifyMild DEF Classify, At, govVars
  <2> QED BY <1>1, <2>1, Aside
<1>12. CASE CancelSleep(c)
  <2>1. call'[c].pc = "done" /\ call[c].pc \in {"look", "ready"} /\ UNCHANGED <<slots, lane>>
    BY <1>2, <1>12, CancelSleepMild DEF CancelSleep, govVars
  <2> QED BY <1>1, <2>1, Aside
<1>13. CASE Look(c)
  <2>1. call'[c].pc \in {"ready", "fetch"} /\ call[c].pc = "look" /\ UNCHANGED <<slots, lane>>
    BY <1>2, <1>13, LookMild DEF Look, At, govVars
  <2> QED BY <1>1, <2>1, Aside
<1>14. CASE Fetch(c) \/ FetchFails(c)
  <2>1. call'[c].pc \in {"ready", "look", "done"} /\ call[c].pc = "fetch" /\ UNCHANGED <<slots, lane>>
    BY <1>2, <1>14, FetchMild DEF govVars
  <2> QED BY <1>1, <2>1, Aside
<1> QED BY <1>3, <1>4, <1>5, <1>6, <1>7, <1>8, <1>9, <1>10, <1>11, <1>12, <1>13, <1>14
        DEF Step, Trouble, Governed

\* No request moves.
LEMMA StillSlotted ==
    ASSUME MildInv, Slotted, scene' = scene, UNCHANGED <<slots, lane>>,
           DOMAIN call' = Calls, \A c \in Calls : call'[c].pc = call[c].pc
    PROVE  Slotted'
<1>1. Holders' = Holders /\ Laned' = Laned
  BY DEF Holders, Laned, Holds, InLane, Content, Class, Kind
<1>2. SlotsExact'
  BY <1>1 DEF Slotted, SlotsExact, Holders, Laned
<1>3. \A c \in Calls : Content(c)' = Content(c)
  BY DEF Content, Class, Kind
<1> QED BY <1>2, <1>3 DEF Slotted, NoLostWakeup, At, LaneLimit

LEMMA NextSlotted ==
    ASSUME MildInv, Slotted, [Next]_vars
    PROVE  Slotted'
<1>1. CASE UNCHANGED vars
  BY <1>1, StillSlotted DEF vars, govVars, MildInv, Typed
<1>2. CASE Tick
  <2>1. MildInv'
    BY <1>2, NextMild DEF Next
  <2>2. /\ UNCHANGED <<scene, slots, lane>>
        /\ \A c \in Calls : call'[c].pc = call[c].pc
    <3>1. \A c \in Calls : call[c] \in Requests
      BY DEF MildInv, Typed
    <3>2. /\ UNCHANGED <<scene, slots, lane>>
          /\ call' = [c \in Calls |->
                        [call[c] EXCEPT !.sleep = Sooner(@), !.hold = Sooner(@), !.url = Sooner(@),
                                        !.reply.live = @ /\ ~(server.resetIn = 1)]]
      BY <1>2 DEF Tick
    <3> QED BY <3>1, <3>2 DEF Requests
  <2> QED BY <2>1, <2>2, StillSlotted DEF MildInv, Typed
<1>3. CASE Peer
  BY <1>3, StillSlotted DEF Peer, govVars, MildInv, Typed
<1>4. CASE \E c \in Calls : Step(c) \/ Trouble(c)
  BY <1>4, StepSlotted
<1> QED BY <1>1, <1>2, <1>3, <1>4 DEF Next

LEMMA InitSlotted == Init => Slotted
<1> SUFFICES ASSUME Init PROVE Slotted
  OBVIOUS
<1>1. ASSUME NEW c \in Calls PROVE call[c].pc \in {"done", "look", "ready"}
  BY DEF Init, Fresh
<1>2. slots = 0 /\ lane = 0
  BY DEF Init
<1>3. Holders = {} /\ Laned = {}
  BY <1>1 DEF Holders, Laned, Holds, InLane
<1>4. SlotsExact
  BY <1>2, <1>3, FS_EmptySet DEF SlotsExact, Holders, Laned
<1> QED BY <1>1, <1>2, <1>4, Lanes, Constants DEF Slotted, NoLostWakeup, At

\* SlotsSound (acquireClass), where there are two slots or more: the slots and
\* the bulk lane count exactly the requests that hold them, whatever is refused,
\* cancelled or fails; a read that finds every slot taken finds a read in one of
\* them; a request is parked only while its lane is full; and every counter stays
\* within its bound.
THEOREM SlotsAlwaysSound ==
    ASSUME Concurrency > 1
    PROVE  Spec => []SlotsSound
<1>1. MildInv /\ Slotted => SlotsSound
  <2> SUFFICES ASSUME MildInv, Slotted PROVE SlotsSound
    OBVIOUS
  <2>1. TypeOK
    <3>1. ASSUME NEW c \in Calls
          PROVE  call[c].attempt <= MaxRetries /\ call[c].outer <= MaxRetries /\ call[c].sleep <= Longest
      BY <3>1, Constants DEF MildInv, Typed, Requests
    <3> QED BY <3>1 DEF TypeOK, MildInv, Typed, Slotted
  <2>2. ReadLaneOpen
    <3> SUFFICES ASSUME slots = Concurrency, \A d \in Calls : Holds(d) => Content(d)
                 PROVE  FALSE
      BY DEF ReadLaneOpen
    <3>1. Holders \in SUBSET Laned
      BY DEF Holders, Laned, Holds, InLane
    <3>2. Cardinality(Holders) <= Cardinality(Laned)
      BY <3>1, Finite, FS_Subset
    <3>3. slots = Cardinality(Holders) /\ lane = Cardinality(Laned)
      BY DEF Slotted, SlotsExact, Holders, Laned
    <3>4. slots <= lane /\ slots \in Nat /\ lane \in Nat /\ LaneLimit \in Nat /\ lane <= LaneLimit
      BY <3>2, <3>3, Lanes, Constants DEF Slotted
    <3> QED BY <3>4, Lanes, Constants
  <2> QED BY <2>1, <2>2 DEF SlotsSound, Slotted
<1>2. MildInv /\ Slotted /\ [Next]_vars => Slotted'
  BY NextSlotted
<1>3. Spec => []Slotted
  BY <1>2, InitSlotted, AlwaysMild, PTL DEF Spec
<1> QED BY <1>1, <1>3, AlwaysMild, PTL

-----------------------------------------------------------------------------
(* The window of points.                                                   *)

\* The reads that wait for a slot with a reservation of this window, cheap and
\* dear ones.
Reads(cost) ==
    {c \in Calls : call[c].pc = "slot" /\ call[c].mine /\ ~Content(c) /\ Cost(c) = cost}
\* The window counts at least what was admitted in it; what reads were admitted
\* is at least what the waiting ones may still give back.
Counts(w, a) ==
    /\ a.points <= w.points /\ w.points <= PointsPerMin
    /\ a.content <= w.content /\ w.content <= ContentPerMin
    /\ a.bulk <= PointsPerMin - ReadPointReserve
Windowed ==
    /\ Counts(window, admitted)
    /\ admitted.points - admitted.bulk >= Cardinality(Reads(1)) + 5 * Cardinality(Reads(5))

LEMMA Shares == ReadPointReserve \in 0..PointsPerMin
BY Constants DEF ReadPointReserve, ReadShare, Greatest

\* All but one of a smaller set.
LEMMA Fewer ==
    ASSUME NEW S, NEW T, NEW x, IsFiniteSet(S), IsFiniteSet(T), \A y : y # x /\ y \in T => y \in S
    PROVE  /\ Cardinality(T) <= Cardinality(S) + One(x \in T) - One(x \in S)
           /\ Cardinality(S) \in Nat /\ Cardinality(T) \in Nat
<1> DEFINE U == S \ {x}
           V == T \ {x}
<1>1. /\ IsFiniteSet(U) /\ Cardinality(U) = Cardinality(S) - One(x \in S)
      /\ IsFiniteSet(V) /\ Cardinality(V) = Cardinality(T) - One(x \in T)
      /\ Cardinality(S) \in Nat /\ Cardinality(T) \in Nat
  <2>1. Cardinality(S) \in Nat /\ Cardinality(T) \in Nat
    BY FS_CardinalityType
  <2>2. IsFiniteSet(U) /\ Cardinality(U) = IF x \in S THEN Cardinality(S) - 1 ELSE Cardinality(S)
    BY FS_RemoveElement
  <2>3. IsFiniteSet(V) /\ Cardinality(V) = IF x \in T THEN Cardinality(T) - 1 ELSE Cardinality(T)
    BY FS_RemoveElement
  <2> QED BY <2>1, <2>2, <2>3 DEF One
<1>2. V \in SUBSET U
  OBVIOUS
<1>3. Cardinality(V) <= Cardinality(U)
  BY <1>1, <1>2, FS_Subset
<1> QED BY <1>1, <1>3 DEF One

LEMMA ReadsFinite ==
    ASSUME NEW n
    PROVE  IsFiniteSet(Reads(n)) /\ IsFiniteSet(Reads(n)') /\ Cardinality(Reads(n)) \in Nat
           /\ Cardinality(Reads(n)') \in Nat
<1>1. Reads(n) \in SUBSET Calls /\ Reads(n)' \in SUBSET Calls /\ IsFiniteSet(Calls)
  BY RateAssumption DEF Reads
<1> QED BY <1>1, FS_Subset, FS_CardinalityType

\* The waiting reads follow the request that moves.
LEMMA ReadsMove ==
    ASSUME NEW c \in Calls, Beside(c), scene' = scene, NEW n
    PROVE  /\ Cardinality(Reads(n)') <= Cardinality(Reads(n)) + One(c \in Reads(n)') - One(c \in Reads(n))
           /\ Cardinality(Reads(n)) \in Nat /\ Cardinality(Reads(n)') \in Nat
<1>1. \A y : y # c /\ y \in Reads(n)' => y \in Reads(n)
  BY DEF Beside, Reads, Content, Class, Kind, Cost
<1> QED BY <1>1, ReadsFinite, Fewer

\* A step that admits nothing and takes nothing back.
LEMMA NoneAdmitted ==
    ASSUME Typed, Windowed, NEW c \in Calls, Beside(c), scene' = scene, UNCHANGED <<window, admitted>>,
           call'[c].pc # "slot" \/ Content(c)
    PROVE  Windowed'
<1>1. c \notin Reads(1)' /\ c \notin Reads(5)'
  BY DEF Reads, Content, Class, Kind
<1>2. /\ Cardinality(Reads(1)') <= Cardinality(Reads(1)) /\ Cardinality(Reads(1)) \in Nat
      /\ Cardinality(Reads(5)') <= Cardinality(Reads(5)) /\ Cardinality(Reads(5)) \in Nat
      /\ Cardinality(Reads(1)') \in Nat /\ Cardinality(Reads(5)') \in Nat
  BY <1>1, ReadsMove DEF One
<1>3. admitted.points \in Int /\ admitted.bulk \in Int
  BY DEF Typed
<1>4. admitted'.points - admitted'.bulk >= Cardinality(Reads(1)') + 5 * Cardinality(Reads(5)')
  BY <1>2, <1>3 DEF Windowed
<1>5. Counts(window', admitted')
  BY DEF Windowed
<1> QED BY <1>4, <1>5 DEF Windowed, Counts, ReadPointReserve

\* A reservation is taken back.
LEMMA TakenBack ==
    ASSUME Typed, Windowed, NEW c \in Calls, Beside(c), scene' = scene, Rollback(c), call[c].mine,
           call'[c].pc # "slot", Content(c) \/ call[c].pc = "slot"
    PROVE  Windowed'
<1>1. /\ window.points \in Nat /\ window.content \in Nat /\ window' \in [age : 0..Window, points : Nat, content : Nat]
      /\ admitted.points \in Int /\ admitted.bulk \in Int /\ admitted.content \in Int
      /\ Cost(c) \in {1, 5} /\ Content(c) \in BOOLEAN
  BY RollbackTyped DEF Typed, Cost, Content, Class
<1>2. /\ window'.points = Greatest(window.points - Cost(c), 0)
      /\ window'.content = IF Content(c) THEN Spent(window.content) ELSE window.content
      /\ admitted' = [points  |-> admitted.points - Cost(c),
                      bulk    |-> admitted.bulk - IF Content(c) THEN Cost(c) ELSE 0,
                      content |-> admitted.content - IF Content(c) THEN 1 ELSE 0]
  <2>1. window \in [age : 0..Window, points : Nat, content : Nat]
    BY DEF Typed
  <2> QED BY <2>1 DEF Rollback
<1>3. Counts(window', admitted')
  <2>1. /\ admitted.points <= window.points /\ window.points <= PointsPerMin
        /\ admitted.content <= window.content /\ window.content <= ContentPerMin
        /\ admitted.bulk <= PointsPerMin - ReadPointReserve
    BY DEF Windowed, Counts
  <2>2. /\ admitted'.points = admitted.points - Cost(c)
        /\ admitted'.bulk = admitted.bulk - IF Content(c) THEN Cost(c) ELSE 0
        /\ admitted'.content = admitted.content - IF Content(c) THEN 1 ELSE 0
    BY <1>2
  <2>3. admitted'.points <= window'.points /\ window'.points <= PointsPerMin
    BY <1>1, <1>2, <2>1, <2>2, Constants DEF Greatest
  <2>4. admitted'.content <= window'.content /\ window'.content <= ContentPerMin
    BY <1>1, <1>2, <2>1, <2>2, Constants DEF Spent
  <2>5. admitted'.bulk <= PointsPerMin - ReadPointReserve
    BY <1>1, <2>1, <2>2, Shares, Constants
  <2> QED BY <2>3, <2>4, <2>5 DEF Counts
<1>4. c \notin Reads(1)' /\ c \notin Reads(5)'
  BY DEF Reads
<1>5. ~Content(c) => IF Cost(c) = 1 THEN c \in Reads(1) /\ c \notin Reads(5) ELSE c \in Reads(5) /\ c \notin Reads(1)
  BY <1>1 DEF Reads
<1>6. Content(c) => c \notin Reads(1) /\ c \notin Reads(5)
  BY DEF Reads
<1>7. /\ Cardinality(Reads(1)') <= Cardinality(Reads(1)) + One(c \in Reads(1)') - One(c \in Reads(1))
      /\ Cardinality(Reads(5)') <= Cardinality(Reads(5)) + One(c \in Reads(5)') - One(c \in Reads(5))
      /\ Cardinality(Reads(1)) \in Nat /\ Cardinality(Reads(1)') \in Nat
      /\ Cardinality(Reads(5)) \in Nat /\ Cardinality(Reads(5)') \in Nat
  BY ReadsMove
<1>8. admitted'.points - admitted'.bulk >= Cardinality(Reads(1)') + 5 * Cardinality(Reads(5)')
  <2>1. CASE Content(c)
    <3>1. admitted'.points - admitted'.bulk = admitted.points - admitted.bulk
      BY <1>1, <1>2, <2>1
    <3>2. Cardinality(Reads(1)') <= Cardinality(Reads(1)) /\ Cardinality(Reads(5)') <= Cardinality(Reads(5))
      BY <1>4, <1>6, <1>7, <2>1 DEF One
    <3> QED BY <1>1, <1>7, <3>1, <3>2 DEF Windowed
  <2>2. CASE ~Content(c) /\ Cost(c) = 1
    <3>1. admitted'.points - admitted'.bulk = admitted.points - admitted.bulk - 1
      BY <1>1, <1>2, <2>2
    <3>2. Cardinality(Reads(1)') <= Cardinality(Reads(1)) - 1 /\ Cardinality(Reads(5)') <= Cardinality(Reads(5))
      BY <1>4, <1>5, <1>7, <2>2 DEF One
    <3> QED BY <1>1, <1>7, <3>1, <3>2 DEF Windowed
  <2>3. CASE ~Content(c) /\ Cost(c) = 5
    <3>1. admitted'.points - admitted'.bulk = admitted.points - admitted.bulk - 5
      BY <1>1, <1>2, <2>3
    <3>2. Cardinality(Reads(1)') <= Cardinality(Reads(1)) /\ Cardinality(Reads(5)') <= Cardinality(Reads(5)) - 1
      BY <1>4, <1>5, <1>7, <2>3 DEF One
    <3> QED BY <1>1, <1>7, <3>1, <3>2 DEF Windowed
  <2> QED BY <1>1, <2>1, <2>2, <2>3
<1> QED BY <1>3, <1>8 DEF Windowed, Counts, ReadPointReserve

\* A reservation.
LEMMA Reserved ==
    ASSUME Typed, Windowed, NEW c \in Calls, ReserveStep(c), Beside(c), scene' = scene
    PROVE  Windowed'
<1> DEFINE rolls == window.age >= Window
           was == IF rolls THEN Nothing ELSE admitted
           calls == IF rolls THEN Older(call) ELSE call
           w == Rolled
<1>a. /\ window.age \in 0..Window /\ window.points \in Nat /\ window.content \in Nat
      /\ admitted.points \in Int /\ admitted.bulk \in Int /\ admitted.content \in Int
      /\ Cost(c) \in {1, 5} /\ Content(c) \in BOOLEAN /\ call[c].pc = "ready"
      /\ admitted.points - admitted.bulk >= Cardinality(Reads(1)) + 5 * Cardinality(Reads(5))
      /\ Counts(window, admitted)
  BY DEF Typed, Cost, Content, Class, ReserveStep, At, Windowed
<1>b. /\ w \in [age : 0..(Window - 1), points : Nat, content : Nat]
      /\ w.points \in Nat /\ w.content \in Nat /\ w.age \in 0..(Window - 1)
  BY Constants DEF Rolled, Typed
<1>c. Counts(w, was)
  <2>1. CASE rolls
    BY <2>1, Shares, Constants DEF Rolled, Counts, Nothing
  <2>2. CASE ~rolls
    BY <1>a, <2>2 DEF Rolled
  <2> QED BY <2>1, <2>2
<1>d. was.points \in Int /\ was.bulk \in Int /\ was.content \in Int
  BY <1>a DEF Nothing
<1>e. ASSUME NEW n \in {1, 5}
      PROVE  /\ Cardinality(Reads(n)) \in Nat /\ Cardinality(Reads(n)') \in Nat
             /\ c \notin Reads(n)
             /\ ~rolls => Cardinality(Reads(n)') <= Cardinality(Reads(n)) + One(c \in Reads(n)')
             /\ (rolls /\ \A d \in Calls \ {c} : ~call'[d].mine) => Cardinality(Reads(n)') <= One(c \in Reads(n)')
  <2>1. /\ Cardinality(Reads(n)') <= Cardinality(Reads(n)) + One(c \in Reads(n)') - One(c \in Reads(n))
        /\ Cardinality(Reads(n)) \in Nat /\ Cardinality(Reads(n)') \in Nat
    BY ReadsMove
  <2>2. c \notin Reads(n)
    BY <1>a DEF Reads
  <2>3. ASSUME \A d \in Calls \ {c} : ~call'[d].mine
        PROVE  Cardinality(Reads(n)') <= One(c \in Reads(n)')
    <3>1. \A y : y # c /\ y \in Reads(n)' => y \in {}
      BY <2>3 DEF Reads
    <3>2. Cardinality(Reads(n)') <= Cardinality({}) + One(c \in Reads(n)') - One(c \in {})
      BY <3>1, ReadsFinite, FS_EmptySet, Fewer
    <3> QED BY <3>2, FS_EmptySet DEF One
  <2> QED BY <2>1, <2>2, <2>3 DEF One
<1>f. ASSUME NEW r, call' = [calls EXCEPT ![c] = r], rolls
      PROVE  \A d \in Calls \ {c} : ~call'[d].mine
  <2>1. \A d \in Calls \ {c} : call'[d] = [call[d] EXCEPT !.mine = FALSE]
    BY <1>f DEF Older
  <2>2. \A d \in Calls : call[d] \in Requests
    BY DEF Typed
  <2> QED BY <2>1, <2>2 DEF Requests
<1>1. PICK pace \in Pace(c) :
         IF HourlyRefused(c) \/ TooLong(pace)
         THEN /\ call' = [call EXCEPT ![c].pc = "classify", ![c].reply = Refused]
              /\ UNCHANGED <<budget, window, admitted>>
         ELSE WindowReserve(c, Greatest(HourlyWait(c), pace))
  BY DEF ReserveStep
<1>2. CASE HourlyRefused(c) \/ TooLong(pace)
  <2>1. call' = [call EXCEPT ![c].pc = "classify", ![c].reply = Refused] /\ UNCHANGED <<window, admitted>>
    BY <1>1, <1>2
  <2>2. call[c] \in Requests
    BY DEF Typed
  <2>3. call'[c].pc = "classify"
    BY <2>1, <2>2 DEF Typed, Requests
  <2> QED BY <2>1, <2>3, NoneAdmitted
<1>3. CASE ~(HourlyRefused(c) \/ TooLong(pace))
  <2> DEFINE wait == WindowWait(c, Rolled)
             over == Greatest(Greatest(HourlyWait(c), pace), wait)
  <2>1. /\ TooLong(wait) =>
              /\ call' = [calls EXCEPT ![c].pc = "classify", ![c].reply = Refused]
              /\ window' = w /\ admitted' = was
        /\ (~TooLong(wait) /\ over > 0) =>
              /\ \E nap \in Jittered(over) : call' = [calls EXCEPT ![c].sleep = nap, ![c].paced = TRUE]
              /\ window' = w /\ admitted' = was
        /\ (~TooLong(wait) /\ ~(over > 0)) =>
              /\ call' = [calls EXCEPT ![c].pc = IF Content(c) THEN "lane" ELSE "slot", ![c].mine = TRUE]
              /\ window' = Charged(c, w)
              /\ admitted' = [points  |-> was.points + Cost(c),
                              bulk    |-> was.bulk + IF Content(c) THEN Cost(c) ELSE 0,
                              content |-> was.content + IF Content(c) THEN 1 ELSE 0]
    BY <1>1, <1>3 DEF WindowReserve
  <2>2. /\ calls[c] \in Requests /\ calls[c].pc = "ready" /\ DOMAIN calls = Calls
    <3>1. call[c] \in Requests /\ call[c].pc = "ready"
      BY <1>a DEF Typed
    <3> QED BY <3>1 DEF Older, Requests, Typed
  <2>3. HourlyWait(c) \in 0..(Hour + Slack) /\ pace \in 0..Hour /\ wait \in 0..Window
    BY <1>a, <1>b, Constants DEF HourlyWait, Pace, Typed, WindowWait
  <2>4. /\ \A r : call' = [calls EXCEPT ![c] = r] =>
               (call'[c] = r /\ (rolls => \A d \in Calls \ {c} : ~call'[d].mine))
    BY <1>f, <2>2
  <2> HIDE DEF calls, was, over, w, rolls
  <2>5. CASE TooLong(wait) \/ over > 0
    <3>1. window' = w /\ admitted' = was
      BY <2>1, <2>5
    <3>2. PICK r : call' = [calls EXCEPT ![c] = r] /\ r.pc \in {"classify", "ready"}
      <4>1. CASE TooLong(wait)
        <5>1. call' = [calls EXCEPT ![c] = [calls[c] EXCEPT !.pc = "classify", !.reply = Refused]]
          BY <2>1, <2>2, <4>1
        <5>2. [calls[c] EXCEPT !.pc = "classify", !.reply = Refused].pc = "classify"
          BY <2>2 DEF Requests
        <5> QED BY <5>1, <5>2
      <4>2. CASE ~TooLong(wait)
        <5>1. PICK nap : call' = [calls EXCEPT ![c] = [calls[c] EXCEPT !.sleep = nap, !.paced = TRUE]]
          BY <2>1, <2>2, <2>5, <4>2
        <5>2. [calls[c] EXCEPT !.sleep = nap, !.paced = TRUE].pc = "ready"
          BY <2>2 DEF Requests
        <5> QED BY <5>1, <5>2
      <4> QED BY <4>1, <4>2
    <3>3. call'[c].pc \in {"classify", "ready"} /\ (rolls => \A d \in Calls \ {c} : ~call'[d].mine)
      BY <2>4, <3>2
    <3>4. c \notin Reads(1)' /\ c \notin Reads(5)'
      BY <3>3 DEF Reads
    <3>5. was.points - was.bulk >= Cardinality(Reads(1)') + 5 * Cardinality(Reads(5)')
      <4>1. CASE rolls
        <5>1. Cardinality(Reads(1)') <= 0 /\ Cardinality(Reads(5)') <= 0 /\ was.points = 0 /\ was.bulk = 0
          BY <1>e, <3>3, <3>4, <4>1 DEF One, was, Nothing
        <5>2. Cardinality(Reads(1)') \in Nat /\ Cardinality(Reads(5)') \in Nat
          BY <1>e
        <5> QED BY <5>1, <5>2
      <4>2. CASE ~rolls
        <5>1. /\ Cardinality(Reads(1)') <= Cardinality(Reads(1)) /\ Cardinality(Reads(5)') <= Cardinality(Reads(5))
              /\ was = admitted /\ Cardinality(Reads(1)) \in Nat /\ Cardinality(Reads(5)) \in Nat
              /\ Cardinality(Reads(1)') \in Nat /\ Cardinality(Reads(5)') \in Nat
          BY <1>e, <3>4, <4>2 DEF One, was
        <5> QED BY <1>a, <5>1
      <4> QED BY <4>1, <4>2
    <3>6. Counts(window', admitted')
      BY <1>c, <3>1
    <3> QED BY <3>1, <3>5, <3>6 DEF Windowed, Counts, ReadPointReserve
  <2>6. CASE ~TooLong(wait) /\ ~(over > 0)
    <3>1. /\ call' = [calls EXCEPT ![c].pc = IF Content(c) THEN "lane" ELSE "slot", ![c].mine = TRUE]
          /\ window' = Charged(c, w)
          /\ admitted' = [points  |-> was.points + Cost(c),
                          bulk    |-> was.bulk + IF Content(c) THEN Cost(c) ELSE 0,
                          content |-> was.content + IF Content(c) THEN 1 ELSE 0]
      BY <2>1, <2>6
    <3>2. wait = 0
      BY <2>3, <2>6, Constants DEF over, Greatest
    <3>3. /\ w.points + Cost(c) <= PointsPerMin - IF Content(c) THEN ReadPointReserve ELSE 0
          /\ Content(c) => w.content < ContentPerMin
      BY <1>a, <1>b, <3>2, Shares, Constants DEF WindowWait, w
    <3>4. /\ window'.points = w.points + Cost(c)
          /\ window'.content = w.content + IF Content(c) THEN 1 ELSE 0
      BY <1>b, <3>1 DEF Charged
    <3>5. call'[c].pc = (IF Content(c) THEN "lane" ELSE "slot") /\ (rolls => \A d \in Calls \ {c} : ~call'[d].mine)
      <4> DEFINE r == [calls[c] EXCEPT !.pc = IF Content(c) THEN "lane" ELSE "slot", !.mine = TRUE]
      <4>1. call' = [calls EXCEPT ![c] = r]
        BY <2>2, <3>1
      <4>2. r.pc = IF Content(c) THEN "lane" ELSE "slot"
        BY <2>2 DEF Requests
      <4> HIDE DEF r
      <4> QED BY <2>4, <4>1, <4>2
    <3> DEFINE more == IF Content(c) THEN Cost(c) ELSE 0
    <3>6. /\ admitted'.points = was.points + Cost(c) /\ admitted'.bulk = was.bulk + more
          /\ admitted'.content = was.content + IF Content(c) THEN 1 ELSE 0
      BY <3>1
    <3>7. Counts(window', admitted')
      <4>0. /\ was.bulk <= was.points
        <5>1. CASE rolls
          BY <5>1 DEF was, Nothing
        <5>2. CASE ~rolls
          <6>1. was = admitted
            BY <5>2 DEF was
          <6>2. Cardinality(Reads(1)) \in Nat /\ Cardinality(Reads(5)) \in Nat
            BY <1>e
          <6> QED BY <1>a, <6>1, <6>2
        <5> QED BY <5>1, <5>2
      <4>1. /\ was.points <= w.points /\ was.content <= w.content /\ w.content <= ContentPerMin
            /\ was.bulk <= PointsPerMin - ReadPointReserve
        BY <1>c DEF Counts
      <4>2. admitted'.points <= window'.points /\ window'.points <= PointsPerMin
        BY <1>a, <1>b, <1>d, <3>3, <3>4, <3>6, <4>1, Shares, Constants
      <4>3. admitted'.content <= window'.content /\ window'.content <= ContentPerMin
        BY <1>a, <1>b, <1>d, <3>3, <3>4, <3>6, <4>1, Constants
      <4>4. admitted'.bulk <= PointsPerMin - ReadPointReserve
        BY <1>a, <1>b, <1>d, <3>3, <3>6, <4>0, <4>1, Shares, Constants
      <4> QED BY <4>2, <4>3, <4>4 DEF Counts
    <3>8. admitted'.points - admitted'.bulk >= Cardinality(Reads(1)') + 5 * Cardinality(Reads(5)')
      <4>1. /\ Content(c) => c \notin Reads(1)' /\ c \notin Reads(5)'
            /\ ~Content(c) => IF Cost(c) = 1 THEN c \notin Reads(5)' ELSE c \notin Reads(1)'
        BY <1>a DEF Reads, Content, Class, Kind, Cost
      <4>2. One(c \in Reads(1)') + 5 * One(c \in Reads(5)') <= Cost(c) - more
        <5>1. CASE Content(c)
          BY <1>a, <4>1, <5>1 DEF One
        <5>2. CASE ~Content(c)
          BY <1>a, <4>1, <5>2 DEF One
        <5> QED BY <5>1, <5>2
      <4>3. One(c \in Reads(1)') \in Nat /\ One(c \in Reads(5)') \in Nat /\ more \in Nat
        BY <1>a DEF One
      <4> HIDE DEF more
      <4>4. /\ Cardinality(Reads(1)') \in Nat /\ Cardinality(Reads(5)') \in Nat
            /\ Cardinality(Reads(1)) \in Nat /\ Cardinality(Reads(5)) \in Nat
        BY <1>e
      <4>5. CASE rolls
        <5>1. /\ Cardinality(Reads(1)') <= One(c \in Reads(1)') /\ Cardinality(Reads(5)') <= One(c \in Reads(5)')
          BY <1>e, <3>5, <4>5
        <5>2. was.points = 0 /\ was.bulk = 0
          BY <4>5 DEF was, Nothing
        <5> QED BY <1>a, <3>6, <4>2, <4>3, <4>4, <5>1, <5>2
      <4>6. CASE ~rolls
        <5>1. /\ Cardinality(Reads(1)') <= Cardinality(Reads(1)) + One(c \in Reads(1)')
              /\ Cardinality(Reads(5)') <= Cardinality(Reads(5)) + One(c \in Reads(5)')
          BY <1>e, <4>6
        <5>2. was = admitted
          BY <4>6 DEF was
        <5> QED BY <1>a, <1>d, <3>6, <4>2, <4>3, <4>4, <5>1, <5>2
      <4> QED BY <4>5, <4>6
    <3> QED BY <3>7, <3>8 DEF Windowed, Counts, ReadPointReserve
  <2> QED BY <2>5, <2>6
<1> QED BY <1>2, <1>3

LEMMA StepWindowed ==
    ASSUME MildInv, Slotted, Windowed, ~Open("refund"), NEW c \in Calls, Step(c) \/ Trouble(c)
    PROVE  Windowed'
<1>1. Beside(c) /\ scene' = scene /\ Typed /\ Mild(c)
  BY StepMild DEF MildInv
<1>2. CASE ReserveStep(c) /\ UNCHANGED <<urls, left>>
  BY <1>1, <1>2, Reserved
<1>3. CASE Claim(c) /\ UNCHANGED <<urls, left>>
  <2>1. call[c].pc = "lane" /\ Content(c)
    BY <1>3 DEF Claim, At, Slotted
  <2>2. CASE UNCHANGED <<window, admitted>>
    BY <1>1, <2>1, <2>2, NoneAdmitted
  <2>3. CASE ~(lane < LaneLimit) /\ MaxWait < 0
    <3>1. call[c].mine /\ Rollback(c)
      BY <1>3, <2>3 DEF Claim
    <3>2. ~(lane < LaneLimit) /\ call'[c].pc = "classify"
      <4>1. call' = [call EXCEPT ![c].pc = "classify", ![c].reply = Refused]
        BY <1>3, <2>3 DEF Claim
      <4> QED BY <1>1, <2>3, <4>1 DEF Typed, Requests
    <3> QED BY <1>1, <2>1, <3>1, <3>2, TakenBack
  <2> QED BY <1>3, <2>2, <2>3 DEF Claim
<1>4. CASE CancelWaiting(c) /\ UNCHANGED <<urls, left>>
  <2>1. call[c].pc \in {"parked", "slot"} /\ call[c].mine /\ Rollback(c)
    BY <1>4 DEF CancelWaiting
  <2>2. call'[c].pc = "done"
    BY <1>1, <1>4, CancelTyped
  <2>3. Content(c) \/ call[c].pc = "slot"
    BY <2>1 DEF Slotted
  <2> QED BY <1>1, <2>1, <2>2, <2>3, TakenBack
<1>5. CASE (Take(c) \/ Release(c) \/ Unlane(c) \/ Observe(c)) /\ UNCHANGED <<urls, left>>
  <2>1. UNCHANGED <<window, admitted>>
    BY <1>5 DEF Take, Release, Unlane, Observe
  <2>2. call'[c].pc \in {"send", "unlane", "observe", "classify"}
    <3>1. CASE Take(c)
      BY <1>1, <1>5, <3>1, TakeTyped
    <3>2. CASE Release(c)
      BY <1>1, <1>5, <3>2, ReleaseTyped
    <3>3. CASE Unlane(c)
      BY <1>1, <1>5, <3>3, UnlaneTyped
    <3>4. CASE Observe(c)
      BY <1>1, <1>5, <3>4, ObserveTyped
    <3> QED BY <1>5, <3>1, <3>2, <3>3, <3>4
  <2> QED BY <1>1, <2>1, <2>2, NoneAdmitted
<1>6. CASE Serve(c) \/ ServeFails(c) \/ CancelSent(c)
  <2>1. Sent(c)
    BY <1>1, <1>6, ServeTyped, ServeFailsTyped, CancelSentTyped
  <2>2. UNCHANGED <<window, admitted>> /\ call'[c].pc = "release"
    BY <1>6, <2>1 DEF Serve, ServeFails, CancelSent, govVars, Sent
  <2> QED BY <1>1, <2>2, NoneAdmitted
<1>7. CASE Classify(c) \/ CancelSleep(c) \/ Look(c) \/ Fetch(c) \/ FetchFails(c)
  <2>1. call'[c].pc \in {"ready", "look", "done", "fetch"}
    BY <1>1, <1>7, ClassifyMild, CancelSleepMild, LookMild, FetchMild
  <2>2. UNCHANGED <<window, admitted>>
    BY <1>7 DEF Classify, CancelSleep, Look, Fetch, FetchFails, govVars
  <2> QED BY <1>1, <2>1, <2>2, NoneAdmitted
<1> QED BY <1>2, <1>3, <1>4, <1>5, <1>6, <1>7 DEF Step, Trouble, Governed

\* Time and other clients admit nothing.
LEMMA StillWindowed ==
    ASSUME MildInv, Windowed, scene' = scene, UNCHANGED admitted,
           window'.points = window.points, window'.content = window.content,
           \A c \in Calls : call'[c].pc = call[c].pc /\ call'[c].mine = call[c].mine
    PROVE  Windowed'
<1>1. Reads(1)' = Reads(1) /\ Reads(5)' = Reads(5)
  BY DEF Reads, Content, Class, Kind, Cost
<1> QED BY <1>1 DEF Windowed, Counts, ReadPointReserve

LEMMA NextWindowed ==
    ASSUME MildInv, Slotted, Windowed, ~Open("refund"), [Next]_vars
    PROVE  Windowed'
<1>1. CASE UNCHANGED vars
  BY <1>1, StillWindowed DEF vars, govVars
<1>2. CASE Tick
  <2>1. \A c \in Calls : call[c] \in Requests
    BY DEF MildInv, Typed
  <2>2. /\ UNCHANGED <<scene, admitted>>
        /\ call' = [c \in Calls |->
                        [call[c] EXCEPT !.sleep = Sooner(@), !.hold = Sooner(@), !.url = Sooner(@),
                                        !.reply.live = @ /\ ~(server.resetIn = 1)]]
    BY <1>2 DEF Tick
  <2>3. window' = [window EXCEPT !.age = IF @ < Window THEN @ + 1 ELSE @]
    BY <1>2 DEF Tick
  <2>4. \A c \in Calls : call'[c].pc = call[c].pc /\ call'[c].mine = call[c].mine
    BY <2>1, <2>2 DEF Requests
  <2>5. window'.points = window.points /\ window'.content = window.content
    BY <2>3 DEF MildInv, Typed
  <2> QED BY <2>2, <2>4, <2>5, StillWindowed
<1>3. CASE Peer
  BY <1>3, StillWindowed DEF Peer, govVars
<1>4. CASE \E c \in Calls : Step(c) \/ Trouble(c)
  BY <1>4, StepWindowed
<1> QED BY <1>1, <1>2, <1>3, <1>4 DEF Next

LEMMA InitWindowed == Init => Windowed
<1> SUFFICES ASSUME Init PROVE Windowed
  OBVIOUS
<1>1. \A c \in Calls : call[c].pc # "slot"
  BY DEF Init, Fresh
<1>2. Reads(1) = {} /\ Reads(5) = {}
  BY <1>1 DEF Reads
<1>3. window = [age |-> 0, points |-> 0, content |-> 0] /\ admitted = Nothing
  BY DEF Init
<1> QED BY <1>2, <1>3, FS_EmptySet, Shares, Constants DEF Windowed, Counts, Nothing

\* LimitsKept (reserve, rollback, classifyAndWait), where no reservation is given
\* back to a later window and no secondary rejection is given an earlier reset:
\* what one window admitted stays within its points, its content requests and
\* the share left to reads; no request sleeps for longer than the caller is ready
\* to wait; and none is sent before the time the server told it to wait is over.
THEOREM LimitsAlwaysKept ==
    ASSUME "refund" \notin Races, "masked" \notin Races
    PROVE  Spec => []LimitsKept
<1>1. MildInv /\ Windowed => LimitsKept
  <2> SUFFICES ASSUME MildInv, Windowed PROVE LimitsKept
    OBVIOUS
  <2>1. WindowKept
    <3>1. admitted.points \in Int /\ window.points \in Nat /\ admitted.content \in Int /\ window.content \in Nat
      BY DEF MildInv, Typed
    <3> QED BY <3>1, Constants DEF Windowed, Counts, WindowKept
  <2>2. \A d \in Calls : Held(d) /\ Rested(d)
    BY DEF MildInv, Mild
  <2>3. PatienceKept
    BY <2>2 DEF PatienceKept, Rested, At
  <2>4. HoldRespected
    BY <2>2 DEF HoldRespected, Held, At, Open
  <2> QED BY <2>1, <2>3, <2>4 DEF LimitsKept
<1>2. MildInv /\ Slotted /\ [Next]_vars => Slotted'
  BY NextSlotted
<1>3. MildInv /\ Slotted /\ Windowed /\ [Next]_vars => Windowed'
  BY NextWindowed DEF Open
<1>4. Spec => []Slotted
  BY <1>2, InitSlotted, AlwaysMild, PTL DEF Spec
<1>5. Spec => []Windowed
  BY <1>3, <1>4, InitWindowed, AlwaysMild, PTL DEF Spec
<1> QED BY <1>1, <1>5, AlwaysMild, PTL

=============================================================================
