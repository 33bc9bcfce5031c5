---------------------------- MODULE MCAlgoOrders ----------------------------
(* Two orders that do not fit into the limit together.                     *)
EXTENDS AlgoOrders

CONSTANTS c1, c2, r1, r2

MCAmount == [c \in Orders |-> IF c = c1 THEN 2 ELSE 1]
MCLots == [c \in Orders |-> IF c = c1 THEN 2 ELSE 1]
=============================================================================
