----------------------------- MODULE MCPaperBook -----------------------------
(* Three option contracts, orders of one to three lots.                     *)
EXTENDS PaperBook

CONSTANTS A, B, C, c1, c2

\* Adds, partial closes, flips and a resting order on A, positions elsewhere.
MCTrades ==
    {[k |-> A, n |-> n, limit |-> FALSE, cid |-> NoId] : n \in {2, 1, -2}}
      \cup {[k |-> A, n |-> 1, limit |-> TRUE, cid |-> NoId],
            [k |-> A, n |-> -2, limit |-> TRUE, cid |-> NoId],
            [k |-> B, n |-> 1, limit |-> FALSE, cid |-> NoId]}

\* The same with a client id on the two orders of one lot, and C.
MCIds ==
    {[k |-> A, n |-> n, limit |-> FALSE, cid |-> NoId] : n \in {2, -1, -3}}
      \cup {[k |-> A, n |-> 1, limit |-> l, cid |-> "x"] : l \in BOOLEAN}
      \cup {[k |-> A, n |-> -2, limit |-> TRUE, cid |-> NoId]}
      \cup {[k |-> k, n |-> 1, limit |-> FALSE, cid |-> NoId] : k \in {B, C}}
=============================================================================
