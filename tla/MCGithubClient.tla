--------------------------- MODULE MCGithubClient ---------------------------
EXTENDS GithubClient, TLC

Scene(k1, k2, k3) ==
    [kinds |-> ("a" :> k1 @@ "b" :> k2 @@ "c" :> k3), assets |-> ("a" :> "x" @@ "b" :> "x" @@ "c" :> "y"),
     maxWait |-> Hour, seen |-> TRUE, left |-> Limit, cancels |-> FALSE,
     trouble |-> [faults |-> 0, rejects |-> 0, peers |-> 0, ticks |-> 1]]

\* Bulk requests for one place in their lane, next to a read.
Crowds == {[Scene("put", "upload", k) EXCEPT !.cancels = (k = "get"), !.maxWait = w] :
              k \in {"put", "get"}, w \in {-1, 1, Hour}}
\* The budget is nearly spent, and late headers arrive out of order.
Scarce == {[Scene("get", "get", k) EXCEPT !.left = n, !.maxWait = w] :
              k \in {"get", "delete"}, n \in {3, 4}, w \in {1, Hour}}
\* Failures of one request next to another, the budget known or not.
Failing ==
    {[Scene("upload", "get", "none") EXCEPT !.trouble.faults = 1, !.seen = s] : s \in BOOLEAN}
    \cup {[Scene(k, "get", "none") EXCEPT !.trouble.faults = 1] : k \in {"put", "post"}}
    \cup {[Scene("put", "none", "none") EXCEPT !.trouble.faults = 2, !.cancels = TRUE, !.seen = s] : s \in BOOLEAN}
\* Others use the token.
Shared ==
    {[Scene("get", "put", "none") EXCEPT !.left = 4, !.trouble.peers = 2],
     [Scene("get", "put", "none") EXCEPT !.left = 2, !.seen = FALSE, !.trouble.peers = 2]}
\* Downloads of one asset or two, through a cache of one URL.
Downloads ==
    {[Scene("download", "download", "none") EXCEPT !.trouble.rejects = 1],
     [Scene("download", "none", "download") EXCEPT !.trouble.rejects = 1],
     [Scene("download", "none", "none") EXCEPT !.trouble.faults = 2, !.maxWait = 1],
     [Scene("download", "none", "none") EXCEPT !.trouble.rejects = 2, !.trouble.faults = 1, !.trouble.ticks = 2]}

AllCases == Crowds \cup Scarce \cup Failing \cup Shared \cup Downloads
=============================================================================
