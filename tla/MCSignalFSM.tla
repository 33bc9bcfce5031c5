---------------------------- MODULE MCSignalFSM ----------------------------
(* A call signal, R = 5 ticks, two sessions of three instants; puts are in *)
(* MCSignalRestore.  The in-memory cap of 0 is a memory that other signals *)
(* already fill.                                                           *)
EXTENDS SignalFSM

CONSTANT c1

MCDir == [s \in Signals |-> "LONG_CALL"]
\* The cost lies beyond the breakeven trigger (a slipped fill), so the
\* ratchet's market clamp is exercised.
MCLevel == [s \in Signals |-> [entry |-> 10, stop |-> 5, t1 |-> 17, t2 |-> 20, cost |-> 15]]
MCPrices == {4, 9, 14, 17}
MCBirths == {"VALIDATED"}
=============================================================================
