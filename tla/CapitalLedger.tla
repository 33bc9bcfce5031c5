---------------------------- MODULE CapitalLedger ----------------------------
(***************************************************************************)
(* What the capital engine promises (algo/capital.py): capital is reserved *)
(* for an order in one indivisible step, only within the limit and once    *)
(* per client order id, and a reservation ends once, consumed by the fill  *)
(* or released.                                                            *)
(***************************************************************************)
EXTENDS Integers, FiniteSets, Functions

CONSTANTS
    Orders,   \* client order ids
    Amount,   \* [Orders -> margin an order reserves]
    Limit     \* investment_limit of the account

VARIABLES held, spent, freed

ledger == <<held, spent, freed>>

Total(S) == SumFunctionOnSet(Amount, S)

LedgerInit == held = {} /\ spent = {} /\ freed = {}

ReserveCapital(c) ==
    /\ c \notin held \cup spent \cup freed
    /\ Total(held \cup {c}) <= Limit
    /\ held' = held \cup {c}
    /\ UNCHANGED <<spent, freed>>

Consume(c) ==
    /\ c \in held
    /\ held' = held \ {c} /\ spent' = spent \cup {c}
    /\ UNCHANGED freed

Release(c) ==
    /\ c \in held
    /\ held' = held \ {c} /\ freed' = freed \cup {c}
    /\ UNCHANGED spent

LedgerNext == \E c \in Orders : ReserveCapital(c) \/ Consume(c) \/ Release(c)

LedgerSpec == LedgerInit /\ [][LedgerNext]_ledger
=============================================================================
