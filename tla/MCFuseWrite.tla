---------------------------- MODULE MCFuseWrite ----------------------------
EXTENDS FuseWrite, TLC

Symmetric == Permutations(Handles) \cup Permutations(Owners)
Bytes(n) == [i \in 1..n |-> 10 + i]
Bounds(d, o, n, f, c, r) ==
    [data |-> d, open |-> o, dir |-> n, fault |-> f, down |-> c, rival |-> r, locks |-> 0, calm |-> TRUE]
Scenario(other, n, bounds) ==
    [ns |-> [x \in Names |-> IF x = "a" THEN "file" ELSE other],
     stored |-> [file |-> Bytes(n), stranger |-> <<50>>], left |-> bounds]
(* Long sequences of calls; two handles; a namespace operation; a restart; *)
(* locks.                                                                  *)
Cases ==
    {Scenario("none", n, Bounds(3, 1, 0, 0, 0, 0)) : n \in {3, 7}}
    \cup {Scenario("none", 14, Bounds(2, 1, 0, 0, 0, 0)), Scenario("file", 3, Bounds(1, 2, 0, 0, 0, 0))}
    \cup {Scenario("none", 3, Bounds(1, 2, 0, 1, 0, 0))}
    \cup {Scenario(o, 3, Bounds(1, 1, 1, 1, 0, 0)) : o \in {"none", "file"}}
    \cup {Scenario("stranger", 3, Bounds(1, 2, 1, 0, 0, 0))}
    \cup {Scenario("none", 7, Bounds(2, 1, 0, 1, 1, 1)), Scenario("stranger", 3, Bounds(1, 1, 1, 1, 1, 0))}
    \cup {Scenario("none", 3, [Bounds(0, o, 0, 0, 0, 0) EXCEPT !.locks = 4 - o]) : o \in {1, 2}}
Spans == {<<0, 1>>, <<3, 1>>, <<5, 3>>, <<7, 1>>, <<7, 3>>}
Lengths == {0, 2, 7}

=============================================================================
