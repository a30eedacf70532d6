--------------------------- MODULE MCLeaderboard ---------------------------
EXTENDS LeaderboardStream, TLC

CONSTANTS a, b, u, v, w, c, d  \* instances, users, clients

\* The last of them is not among the first two.
MCTable == u :> [total |-> 5, updated |-> 2] @@ v :> [total |-> 5, updated |-> 1]
        @@ w :> [total |-> 1, updated |-> 3]

\* Empty, or what a rebuild that died half-way left.
MCCaches == {[x \in User |-> Absent], [MCTable EXCEPT ![u] = Absent, ![w] = Absent]}

\* One slot at a, two at b.
MCMaxConn == a :> 1 @@ b :> 2
=============================================================================
