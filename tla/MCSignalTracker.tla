--------------------------- MODULE MCSignalTracker ---------------------------
(* One or two call signals of one contract, R = 5 ticks.                   *)
EXTENDS SignalTracker

CONSTANTS c1, c2, r1, r2

MCPair == {c1, c2}
MCDir == [s \in Signals |-> "LONG_CALL"]
MCLevel == [s \in Signals |-> [entry |-> 10, stop |-> 5, t1 |-> 17, t2 |-> 20, cost |-> 10]]
MCSymbol == [s \in Signals |-> "CE"]
MCPrices == {4, 15, 20}
MCLivePrices == {10, 20}
MCBirths == {"ARMED"}
=============================================================================
