--------------------------- MODULE MCSignalRestore ---------------------------
(* One put signal of two lots, R = 5 ticks, over two sessions.             *)
EXTENDS SignalRestore

CONSTANT p1

MCDir == [s \in Signals |-> "LONG_PUT"]
MCLevel == [s \in Signals |-> [entry |-> 10, stop |-> 15, t1 |-> 3, t2 |-> 0, cost |-> 10]]
MCBirths == {"VALIDATED"}
=============================================================================
