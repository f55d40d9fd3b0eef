---------------------------- MODULE MCRestWrite ----------------------------
(* Instances of RestWrite: who asks for what.                               *)
EXTENDS RestWrite

Verb(v, c) == [verb |-> v, path |-> "a", to |-> "b", cond |-> c, sync |-> FALSE]
Synced(q) == [q EXCEPT !.sync = TRUE]
Start(a, b) == [p \in Paths |-> IF p = "a" THEN a ELSE b]
Asks(q1, q2) == [r \in Requests |-> IF r = "r1" THEN q1 ELSE q2]
Case(a, b, q1, q2, peers, fails) ==
    [tree |-> Start(a, b), req |-> Asks(q1, q2), left |-> [peers |-> peers, fails |-> fails]]

\* Two commits of another hub outlast the attempts, one is rebased over.
Rivals(q) == CASE q.verb = "append" -> 2 [] q.cond = "none" -> 1 [] OTHER -> 0

\* A request with a revision against one with a revision, a tag or neither.
CasCases ==
    {Case(2, 1, Synced(Verb(v, "revision")), q, Rivals(q), IF q.verb = "append" THEN 0 ELSE 1) :
         v \in {"replace", "write"},
         q \in {Verb("append", "revision"), Verb("delete", "revision"),
                Verb("replace", "etag"), Verb("delete", "none")}}
    \cup {Case(2, b, Verb("rename", "revision"), q, 0, 0) :
         b \in {1, 2}, q \in {Verb("write", "revision"), Verb("rename", "revision"),
                              Verb("copy", "etag"), Verb("chmod", "revision")}}

\* Requests without a revision, on a name that is free, a file or a link.
PlainCases ==
    {Case(a, 1, q1, Synced(q2), 0, 1) :
         a \in {1, 2},
         q1 \in {Verb("replace", "none"), Verb("create", "absent"), Verb("extend", "none")},
         q2 \in {Verb("replace", "none"), Verb("write", "none"), Verb("chmod", "etag")}}
    \cup {Case(1, 1, Verb("replace", "absent"), Synced(Verb("replace", "absent")), 0, 1)}
    \cup {Case(3, 1, Verb("replace", "none"), Synced(q2), 0, 1) :
         q2 \in {Verb("replace", "none"), Verb("create", "none"), Verb("delete", "none")}}

GateCases == CasCases \cup PlainCases

\* A range is written while another request replaces the file.
ClobberCases == {Case(2, 1, Verb("write", "none"), Verb("replace", "none"), 0, 0)}

\* A conditional write past the end, for the window "hole"; a conditional upload
\* over a link, for the window "symlink".
HoleCases == {Case(2, 1, Verb("extend", "revision"), Verb("chmod", "none"), 0, 0)}
LinkCases == {Case(3, 1, Verb("replace", "revision"), Verb("chmod", "none"), 0, 0)}
=============================================================================
