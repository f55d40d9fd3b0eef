---------------------------- MODULE RateGovernor ----------------------------
(***************************************************************************)
(* The admission control in front of every request to the API              *)
(* (github/ratelimit.go): an hourly budget mirrored from response headers, *)
(* a per-minute window of points, and the concurrency slots, a share of    *)
(* which is kept for reads.                                                *)
(*                                                                         *)
(* A request reserves first and takes its slot afterwards; in between it   *)
(* may park, be cancelled and give its reservation back, or see windows    *)
(* roll over.  Time is counted in ticks and every deadline is kept as the  *)
(* ticks left to it, so that time never runs out.                          *)
(*                                                                         *)
(* The arithmetic of the token bucket is left out: while the budget is     *)
(* known it may ask a request, once, to wait for the reset (Pace).         *)
(***************************************************************************)
EXTENDS Integers, FiniteSets

CONSTANTS
    Calls,          \* requests, each made by a goroutine of its own
    Reserve,        \* rateConfig.reserve
    PointsPerMin,   \* rateConfig.pointsPerMin
    ContentPerMin,  \* rateConfig.contentPerMin
    Concurrency,    \* rateConfig.concurrency
    Window,         \* secondaryWindow
    Hour,           \* ticks from one reset of the hourly budget to the next
    Slack,          \* what a wait for the reset is lengthened by
    Jitter,         \* the most that addJitter adds to a wait
    Limit,          \* the hourly budget
    Races           \* the windows left open; see GithubClient

ASSUME RateAssumption ==
    /\ IsFiniteSet(Calls) /\ Concurrency \in Nat \ {0} /\ Window \in Nat \ {0}
    /\ {Reserve, PointsPerMin, ContentPerMin, Hour, Slack, Jitter, Limit} \subseteq Nat
    /\ Window <= Hour

VARIABLES
    scene,    \* what the calls are, how patient, and what may go wrong
    budget,   \* budgetState: seen, left, and whether its reset is still to come
    window,   \* the point window: age, points, content
    slots,    \* slots taken (inflight)
    lane,     \* contentInflight
    server,   \* the hourly budget as the server has it
    call,     \* call -> where it stands
    admitted  \* what was admitted in this window: points, bulk points, content

govVars == <<budget, window, slots, lane, admitted>>

Open(r) == r \in Races
Greatest(a, b) == IF a > b THEN a ELSE b

Kind(c) == scene.kinds[c]
MaxWait == scene.maxWait
\* methodCost and classifyRequest: a release is made and deleted as a read.
Cost(c) == IF Kind(c) \in {"get", "download"} THEN 1 ELSE 5
Class(c) ==
    CASE Kind(c) = "put" -> "content"
      [] Kind(c) = "upload" -> "upload"
      [] OTHER -> "read"
Content(c) == Class(c) # "read"
Core(c) == Class(c) # "upload"

ReadShare(n, part) == IF n <= 1 THEN 0 ELSE Greatest(1, n \div part)
ReadPointReserve == ReadShare(PointsPerMin, 10)
\* Mutant: the share kept for reads is the whole.
LaneNone == Concurrency - ReadShare(Concurrency, 1)
LaneLimit == Concurrency - ReadShare(Concurrency, 4)

At(c, pc) == call[c].pc = pc
Goes(c, pc) == [call EXCEPT ![c].pc = pc]

-----------------------------------------------------------------------------
(* reserve: three waits, the longest counts; any of them may be too long.   *)
(* What is checked is not quite what is slept: the slack of the hourly wait *)
(* and the jitter come after the check.                                    *)

TooLong(d) == d > 0 /\ d > MaxWait
Jittered(d) == d..(d + Jitter)

AtReserve(c) == Core(c) /\ budget.seen /\ budget.live /\ budget.left <= Reserve + Cost(c)
HourlyRefused(c) == AtReserve(c) /\ TooLong(server.resetIn)
HourlyWait(c) == IF AtReserve(c) THEN server.resetIn + Slack ELSE 0

Pace(c) ==
    IF Core(c) /\ budget.seen /\ budget.live /\ ~call[c].paced THEN {0, server.resetIn} ELSE {0}

Rolled == IF window.age >= Window THEN [age |-> 0, points |-> 0, content |-> 0] ELSE window
WindowWait(c, w) ==
    IF \/ w.points + Cost(c) > PointsPerMin - IF Content(c) THEN ReadPointReserve ELSE 0
       \/ Content(c) /\ w.content >= ContentPerMin
    THEN Window - w.age ELSE 0

Spent(left) == IF left > 0 THEN left - 1 ELSE 0
Charged(c, w) ==
    [w EXCEPT !.points = @ + Cost(c), !.content = @ + IF Content(c) THEN 1 ELSE 0]
Nothing == [points |-> 0, bulk |-> 0, content |-> 0]

\* Reservations of an earlier window stop being this window's.
Older(calls) == [c \in Calls |-> [calls[c] EXCEPT !.mine = FALSE]]
NoReply == [status |-> "none", left |-> -1, live |-> FALSE, after |-> 0]
Refused == [NoReply EXCEPT !.status = "denied", !.live = budget.live, !.left = IF budget.seen THEN 0 ELSE -1]

WindowReserve(c, wait) ==
    LET rolls == window.age >= Window
        w     == Rolled
        was   == IF rolls THEN Nothing ELSE admitted
        calls == IF rolls THEN Older(call) ELSE call
        over  == Greatest(wait, WindowWait(c, w))
    IN  IF TooLong(WindowWait(c, w))
        THEN /\ call' = [calls EXCEPT ![c].pc = "classify", ![c].reply = Refused]
             /\ window' = w /\ admitted' = was /\ UNCHANGED budget
        ELSE IF over > 0
        THEN /\ \E nap \in Jittered(over) : call' = [calls EXCEPT ![c].sleep = nap, ![c].paced = TRUE]
             /\ window' = w /\ admitted' = was /\ UNCHANGED budget
        ELSE /\ call' = [calls EXCEPT ![c].pc = IF Content(c) THEN "lane" ELSE "slot", ![c].mine = TRUE]
             /\ window' = Charged(c, w)
             /\ admitted' = [points  |-> was.points + Cost(c),
                             bulk    |-> was.bulk + IF Content(c) THEN Cost(c) ELSE 0,
                             content |-> was.content + IF Content(c) THEN 1 ELSE 0]
             /\ budget' = IF Core(c) /\ budget.seen THEN [budget EXCEPT !.left = Spent(@)] ELSE budget

ReserveStep(c) ==
    /\ At(c, "ready") /\ call[c].sleep = 0
    /\ \E pace \in Pace(c) :
         IF HourlyRefused(c) \/ TooLong(pace)
         THEN /\ call' = [call EXCEPT ![c].pc = "classify", ![c].reply = Refused]
              /\ UNCHANGED <<budget, window, admitted>>
         ELSE WindowReserve(c, Greatest(HourlyWait(c), pace))
    /\ UNCHANGED <<scene, server, slots, lane>>

-----------------------------------------------------------------------------
(* The slots.  Bulk requests claim a place in their lane first, and park on *)
(* a channel that every release closes.                                    *)

Broadcast(calls) ==
    [c \in Calls |-> IF calls[c].pc = "parked" THEN [calls[c] EXCEPT !.pc = "lane"] ELSE calls[c]]

\* The reservation given back: to the present window, whichever it was made in.
Rollback(c) ==
    /\ window' = [window EXCEPT !.points = Greatest(@ - Cost(c), 0),
                                !.content = IF Content(c) THEN Spent(@) ELSE @]
    /\ budget' = IF Core(c) /\ budget.seen /\ budget.left < Limit
                 THEN [budget EXCEPT !.left = @ + 1] ELSE budget
    /\ admitted' = IF ~call[c].mine THEN admitted
                   ELSE [points  |-> admitted.points - Cost(c),
                         bulk    |-> admitted.bulk - IF Content(c) THEN Cost(c) ELSE 0,
                         content |-> admitted.content - IF Content(c) THEN 1 ELSE 0]

Claim(c) ==
    /\ At(c, "lane")
    /\ IF lane < LaneLimit
       THEN lane' = lane + 1 /\ call' = Goes(c, "slot") /\ UNCHANGED <<budget, window, admitted>>
       ELSE /\ UNCHANGED lane
            /\ IF MaxWait < 0
               THEN /\ call[c].mine \/ Open("refund")
                    /\ Rollback(c) /\ call' = [call EXCEPT ![c].pc = "classify", ![c].reply = Refused]
               ELSE /\ call' = Goes(c, "parked")
                    /\ UNCHANGED <<budget, window, admitted>>
    /\ UNCHANGED <<scene, server, slots>>

Take(c) ==
    /\ At(c, "slot") /\ slots < Concurrency
    /\ slots' = slots + 1
    /\ call' = Goes(c, "send")
    /\ UNCHANGED <<scene, server, budget, window, lane, admitted>>

\* The release function: the slot first, the lane after it.
Release(c) ==
    /\ At(c, "release")
    /\ slots' = slots - 1
    /\ call' = Goes(c, IF Content(c) THEN "unlane" ELSE "observe")
    /\ UNCHANGED <<scene, server, budget, window, lane, admitted>>

Unlane(c) ==
    /\ At(c, "unlane")
    /\ lane' = lane - 1
    /\ call' = Broadcast(Goes(c, "observe"))
    /\ UNCHANGED <<scene, server, budget, window, slots, admitted>>

\* Mutant: the place in the lane is given back in silence.
LeavesSilently(c) == Goes(c, "done")
Leaves(c) == IF At(c, "slot") /\ Content(c) THEN Broadcast(Goes(c, "done")) ELSE Goes(c, "done")

\* The caller's context ends while the request waits.
CancelWaiting(c) ==
    /\ call[c].pc \in {"parked", "slot"} /\ scene.cancels
    /\ call[c].mine \/ Open("refund")
    /\ call' = [Leaves(c) EXCEPT ![c].answer = "canceled"]
    /\ lane' = IF At(c, "slot") /\ Content(c) THEN lane - 1 ELSE lane
    /\ Rollback(c)
    /\ UNCHANGED <<scene, server, slots>>

-----------------------------------------------------------------------------
(* observe: the headers of a response, unless they are older news.         *)

\* Mutant: whatever arrives is adopted.
AnyNews(r) == r.left >= 0
News(r) ==
    /\ r.left >= 0
    /\ budget.seen => /\ r.live \/ ~budget.live
                      /\ r.live = budget.live => r.left <= budget.left

Observe(c) ==
    /\ At(c, "observe")
    /\ budget' = IF call[c].reply.status \notin {"lost", "canceled"} /\ News(call[c].reply)
                 THEN [seen |-> TRUE, left |-> call[c].reply.left, live |-> call[c].reply.live]
                 ELSE budget
    /\ call' = Goes(c, "classify")
    /\ UNCHANGED <<scene, server, window, slots, lane, admitted>>

-----------------------------------------------------------------------------
Holds(c) == call[c].pc \in {"send", "release"}
InLane(c) == Content(c) /\ call[c].pc \in {"slot", "send", "release", "unlane"}

\* The slots and the lane count exactly the requests that hold them: none is
\* leaked by a refusal, a cancellation or a failed send.
SlotsExact ==
    /\ slots = Cardinality({c \in Calls : Holds(c)})
    /\ lane = Cardinality({c \in Calls : InLane(c)})

\* Bulk requests never hold the slots kept for reads: a read that finds every
\* slot taken finds a read in one of them.
ReadLaneOpen ==
    \A c \in Calls : At(c, "slot") /\ ~Content(c) /\ slots = Concurrency =>
        \E d \in Calls : Holds(d) /\ ~Content(d)

\* A request parks only while its lane is full.
NoLostWakeup ==
    \A c \in Calls : At(c, "parked") => lane >= LaneLimit

\* What one window admitted and did not take back stays within it.
WindowKept ==
    /\ admitted.points <= PointsPerMin /\ admitted.content <= ContentPerMin
    /\ admitted.bulk <= PointsPerMin - ReadPointReserve

\* The requests of this process never use the budget up to the reserve.
FloorKept == scene.trouble.peers = 0 => server.left > Reserve

=============================================================================
