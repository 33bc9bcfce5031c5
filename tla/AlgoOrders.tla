----------------------------- MODULE AlgoOrders -----------------------------
(***************************************************************************)
(* The algo desk's orders: AlgoOrderService.create_order and cancel_order, *)
(* OrderManager (create_intent, transition, submit, cancel), the capital   *)
(* engine and the paper broker adapter.  BrokerRegistry.get is called      *)
(* without a provider and so returns that adapter for live accounts too.   *)
(*                                                                         *)
(* One account with its capital_config row.  A request is a task of the    *)
(* event loop, suspended at each await of the database or the broker; what *)
(* it does between two awaits is one action.  The reservation and the      *)
(* order row of a request become visible together, at its commit.  The     *)
(* pruning of 10000 cached orders, requests without a database and         *)
(* positions (no code inserts a position row) are left out.                *)
(***************************************************************************)
EXTENDS Integers, FiniteSets, Functions

CONSTANTS
    Orders,        \* client order ids
    Amount,        \* [Orders -> margin an order reserves]
    Limit,         \* investment_limit of the account
    Requests,      \* concurrent HTTP requests
    Lots,          \* [Orders -> quantity]
    MaxRestarts,   \* bound on process restarts
    MaxFaults      \* bound on failed snapshots and commits

VARIABLES
    mem,       \* OrderManager._orders: the status of an order and whether it has a broker id
    row,       \* status of the algo_orders row
    resv,      \* status of the capital_reservations row
    lock,      \* the request whose transaction locks the capital_config row
    task,      \* where each request is suspended, and its locals
    broker,    \* what the broker holds of an order
    placed,    \* orders placed with the broker under a client order id
    lost,      \* client order ids whose row could not be saved
    restarts, faults

vars == <<mem, row, resv, lock, task, broker, placed, lost, restarts, faults>>

Unsent == {"CREATED", "RISK_APPROVED"}
Fills == {"FILLED", "PARTIALLY_FILLED"}
Dead == {"REJECTED", "CANCELLED", "TIMED_OUT", "UNKNOWN"}
Statuses == Unsent \cup Fills \cup Dead \cup {"SUBMITTED"}

Nobody == "nobody"
NoOrder == [st |-> "NONE", bid |-> FALSE]
Idle == [pc |-> "idle", c |-> Nobody, rid |-> FALSE]
Pcs == {"idle", "lookup", "snap", "risk", "persist", "submit", "broker", "answer",
        "record", "settle", "cancel"}

ASSUME AlgoConstants ==
    /\ IsFiniteSet(Orders) /\ Nobody \notin Orders \cup Requests
    /\ Amount \in [Orders -> Nat \ {0}] /\ Lots \in [Orders -> Nat \ {0}]
    /\ {Limit, MaxRestarts, MaxFaults} \subseteq Nat

At(q, pc) == task[q].pc = pc
Goto(q, pc) == task' = [task EXCEPT ![q].pc = pc]
Answered(q) == task' = [task EXCEPT ![q] = Idle]

Held == {c \in Orders : resv[c] = "RESERVED"}
Sum(S) == SumFunctionOnSet(Amount, S)

-----------------------------------------------------------------------------
(* create_order up to the reservation *)

\* The idempotency check of the order manager.
Receive(q, c) ==
    /\ At(q, "idle") /\ mem[c].st = "NONE"
    /\ task' = [task EXCEPT ![q] = [pc |-> "lookup", c |-> c, rid |-> FALSE]]
    /\ UNCHANGED <<mem, row, resv, lock, broker, placed, lost, restarts, faults>>

\* The idempotency check of the database.
Lookup(q) ==
    /\ At(q, "lookup")
    /\ IF row[task[q].c] # "NONE" THEN Answered(q) ELSE Goto(q, "snap")
    /\ UNCHANGED <<mem, row, resv, lock, broker, placed, lost, restarts, faults>>

\* Fault: the capital row is read without FOR UPDATE.
LockedByNone(q) == lock' = lock

\* SELECT ... FOR UPDATE, of get_snapshot and of reserve: kept until the
\* transaction ends.
Locked(q) == lock \in {Nobody, q} /\ lock' = q

\* get_snapshot; if it fails, create_order goes on with a default.
Snapshot(q) ==
    /\ At(q, "snap") /\ Goto(q, "risk")
    /\ \/ Locked(q) /\ UNCHANGED faults
       \/ faults < MaxFaults /\ faults' = faults + 1 /\ UNCHANGED lock
    /\ UNCHANGED <<mem, row, resv, broker, placed, lost, restarts>>

\* Fault: a refused request leaves its transaction open.
StillLocked(q) == lock' = IF At(q, "persist") THEN Nobody ELSE lock

Unlocked(q) == lock' = IF lock = q THEN Nobody ELSE lock

\* The risk stack refuses: a REJECTED row, unless one was saved meanwhile.
Refuse(q) ==
    LET c == task[q].c IN
    /\ At(q, "risk") /\ Answered(q) /\ Unlocked(q)
    /\ row' = [row EXCEPT ![c] = IF @ = "NONE" THEN "REJECTED" ELSE @]
    /\ UNCHANGED <<mem, resv, broker, placed, lost, restarts, faults>>

\* Fault: the order's own margin is not counted.
CoveredWithoutOwn(c) == resv[c] = "NONE" /\ Sum(Held) <= Limit

\* reserve: the sum of the reservations and the unique client order id.
CapitalCovers(c) == resv[c] = "NONE" /\ Sum(Held) + Amount[c] <= Limit

\* create_intent and the transition to RISK_APPROVED, refused on a record
\* another request has brought further.
Intended(c) ==
    [mem EXCEPT ![c] = IF @.st = "NONE" THEN [st |-> "RISK_APPROVED", bid |-> FALSE] ELSE @]

\* Fault: a request refused for lack of capital tries again.
DeniedRetries(q) == Unlocked(q) /\ Goto(q, "snap")

Denied(q) == Unlocked(q) /\ Answered(q)

\* reserve under the row's lock.  It is refused for want of capital, above
\* max_capital_per_trade, or by an error, a lock it waited for too long included.
Reserve(q) ==
    LET c == task[q].c IN
    /\ At(q, "risk")
    /\ \/ CapitalCovers(c) /\ Locked(q) /\ mem' = Intended(c) /\ Goto(q, "persist")
       \/ Denied(q) /\ UNCHANGED mem
    /\ UNCHANGED <<row, resv, broker, placed, lost, restarts, faults>>

\* The commit of the order row and the reservation; on an error both are
\* rolled back and the order is submitted all the same.
Persist(q) ==
    LET c == task[q].c IN
    /\ At(q, "persist") /\ Unlocked(q)
    /\ \/ /\ row[c] = "NONE"
          /\ row' = [row EXCEPT ![c] = "RISK_APPROVED"]
          /\ resv' = [resv EXCEPT ![c] = "RESERVED"]
          /\ task' = [task EXCEPT ![q].pc = "submit", ![q].rid = TRUE]
          /\ UNCHANGED <<lost, faults>>
       \/ /\ row[c] # "NONE" \/ faults < MaxFaults
          /\ faults' = faults + (IF row[c] = "NONE" THEN 1 ELSE 0)
          /\ lost' = IF row[c] = "NONE" THEN lost \cup {c} ELSE lost
          /\ Goto(q, "submit") /\ UNCHANGED <<row, resv>>
    /\ UNCHANGED <<mem, broker, placed, restarts>>

-----------------------------------------------------------------------------
(* OrderManager.submit and what create_order does with its result *)

\* Fault: submit looks at the request's own check only.
MaySubmitAgain(c) == mem[c].st # "CANCELLED"

\* "cannot submit from ...": the record may be another request's.
MaySubmit(c) == mem[c].st \in Unsent

Submit(q) ==
    LET c == task[q].c IN
    /\ At(q, "submit")
    /\ IF MaySubmit(c)
       THEN mem' = [mem EXCEPT ![c].st = "SUBMITTED"] /\ Goto(q, "broker")
       ELSE Answered(q) /\ UNCHANGED mem
    /\ UNCHANGED <<row, resv, lock, broker, placed, lost, restarts, faults>>

\* The adapter's task ends; submit resumes later.
BrokerFills(q) ==
    LET c == task[q].c IN
    /\ At(q, "broker") /\ Goto(q, "answer")
    /\ \E s \in IF Lots[c] > 1 THEN Fills ELSE {"FILLED"} :
         broker' = [broker EXCEPT ![c] = s]
    /\ placed' = [placed EXCEPT ![c] = @ + 1]
    /\ UNCHANGED <<mem, row, resv, lock, lost, restarts, faults>>

\* Fault: an order that was cancelled meanwhile keeps that status.
FilledUnlessCancelled(c) ==
    [mem EXCEPT ![c] = [st |-> IF @.st = "CANCELLED" THEN @.st ELSE broker[c], bid |-> TRUE]]

\* submit writes what the broker answered over any status it finds.
Filled(c) == [mem EXCEPT ![c] = [st |-> broker[c], bid |-> TRUE]]

SubmitResumes(q) ==
    /\ At(q, "answer") /\ Goto(q, "record")
    /\ mem' = Filled(task[q].c)
    /\ UNCHANGED <<row, resv, lock, broker, placed, lost, restarts, faults>>

\* Fault: the deadline abandons the adapter's task instead of cancelling it.
AtBrokerOrLater(q) == task[q].pc \in {"broker", "answer"}

\* wait_for cancels the adapter, or the adapter raises, before it has stored
\* the order.
AtBroker(q) == At(q, "broker")

SubmitFails(q) ==
    /\ AtBroker(q) /\ Goto(q, "record")
    /\ \E st \in {"TIMED_OUT", "UNKNOWN"} : mem' = [mem EXCEPT ![task[q].c].st = st]
    /\ UNCHANGED <<row, resv, lock, broker, placed, lost, restarts, faults>>

\* The row takes the record's status of that moment; an error is only logged.
Record(q) ==
    LET c == task[q].c IN
    /\ At(q, "record")
    /\ \/ /\ row' = [row EXCEPT ![c] = IF @ = "NONE" THEN @ ELSE mem[c].st]
          /\ IF row[c] = "NONE" \/ ~task[q].rid THEN Answered(q) ELSE Goto(q, "settle")
          /\ UNCHANGED faults
       \/ /\ faults < MaxFaults /\ faults' = faults + 1
          /\ Answered(q) /\ UNCHANGED row
    /\ UNCHANGED <<mem, resv, lock, broker, placed, lost, restarts>>

\* consume or release: only a reservation that is RESERVED.
Outcome(r, st) ==
    IF r # "RESERVED" THEN r
    ELSE IF st = "FILLED" THEN "CONSUMED" ELSE IF st \in Dead THEN "RELEASED" ELSE r

Settle(q) ==
    LET c == task[q].c IN
    /\ At(q, "settle") /\ Answered(q)
    /\ resv' = [resv EXCEPT ![c] = Outcome(@, mem[c].st)]
    /\ UNCHANGED <<mem, row, lock, broker, placed, lost, restarts, faults>>

-----------------------------------------------------------------------------
(* cancel_order, restart *)

\* OrderManager.cancel: without a broker id the record is CANCELLED; with one
\* the paper broker's fill wins.
Cancelled(c) == [mem EXCEPT ![c].st = IF mem[c].bid THEN broker[c] ELSE "CANCELLED"]

Cancel(q, c) ==
    /\ At(q, "idle") /\ mem[c].st # "NONE"
    /\ mem' = Cancelled(c)
    /\ task' = [task EXCEPT ![q] = [pc |-> "cancel", c |-> c, rid |-> FALSE]]
    /\ UNCHANGED <<row, resv, lock, broker, placed, lost, restarts, faults>>

\* Its row becomes CANCELLED whatever the broker said.
CancelRow(q) ==
    /\ At(q, "cancel") /\ Answered(q)
    /\ row' = [row EXCEPT ![task[q].c] = IF @ = "NONE" THEN @ ELSE "CANCELLED"]
    /\ UNCHANGED <<mem, resv, lock, broker, placed, lost, restarts, faults>>

\* An order the manager does not know, after a restart.
CancelUnknown(c) ==
    /\ mem[c].st = "NONE" /\ row[c] \in Unsent \cup {"SUBMITTED"}
    /\ row' = [row EXCEPT ![c] = "CANCELLED"]
    /\ UNCHANGED <<mem, resv, lock, task, broker, placed, lost, restarts, faults>>

\* Requests and their open transactions die with the process.
Restart ==
    /\ restarts < MaxRestarts /\ restarts' = restarts + 1
    /\ mem' = [c \in Orders |-> NoOrder]
    /\ task' = [q \in Requests |-> Idle]
    /\ lock' = Nobody
    /\ UNCHANGED <<row, resv, broker, placed, lost, faults>>

-----------------------------------------------------------------------------
Init ==
    /\ mem = [c \in Orders |-> NoOrder]
    /\ row = [c \in Orders |-> "NONE"] /\ resv = [c \in Orders |-> "NONE"]
    /\ lock = Nobody /\ task = [q \in Requests |-> Idle]
    /\ broker = [c \in Orders |-> "NONE"] /\ placed = [c \in Orders |-> 0]
    /\ lost = {} /\ restarts = 0 /\ faults = 0

Advance(q) ==
    \/ Lookup(q) \/ Snapshot(q) \/ Refuse(q) \/ Reserve(q) \/ Persist(q) \/ Submit(q)
    \/ BrokerFills(q) \/ SubmitResumes(q) \/ SubmitFails(q) \/ Record(q) \/ Settle(q)
    \/ CancelRow(q)

Next ==
    \/ \E q \in Requests :
         Advance(q) \/ \E c \in Orders : Receive(q, c) \/ Cancel(q, c)
    \/ \E c \in Orders : CancelUnknown(c)
    \/ Restart

Spec == Init /\ [][Next]_vars

\* The event loop resumes every task whose await has ended, and the database
\* grants the row lock to its waiters in turn.
FairSpec == Spec /\ \A q \in Requests : WF_vars(Advance(q)) /\ SF_vars(Snapshot(q))

-----------------------------------------------------------------------------
(* Properties *)

\* Every variable stays in its domain, and the row lock is held by a request
\* inside the transaction that took it.
AlgoTypeOK ==
    /\ mem \in [Orders -> [st : Statuses \cup {"NONE"}, bid : BOOLEAN]]
    /\ row \in [Orders -> Statuses \cup {"NONE"}]
    /\ resv \in [Orders -> {"NONE", "RESERVED", "CONSUMED", "RELEASED"}]
    /\ task \in [Requests -> [pc : Pcs, c : Orders \cup {Nobody}, rid : BOOLEAN]]
    /\ lock # Nobody => lock \in Requests /\ task[lock].pc \in {"risk", "persist"}
    /\ broker \in [Orders -> Fills \cup {"NONE"}] /\ placed \in [Orders -> Nat]
    /\ lost \subseteq Orders /\ restarts \in 0..MaxRestarts /\ faults \in 0..MaxFaults

\* "Never blindly resend": however often a client submits an order, and
\* whenever the process restarts, it reaches the broker once, unless its row
\* could not be saved (create_order submits it all the same).
OneBrokerOrder == \A c \in Orders : placed[c] > 1 => c \in lost /\ restarts > 0

\* "Broker fill wins": once submit has its answer, the record says what the
\* broker holds, whatever cancels ran before, during and after it.
FillWins == \A c \in Orders : mem[c].bid => mem[c].st = broker[c]

\* Capital is released only for an order the broker does not hold (a lost
\* one, forgotten by a restart and sent again, aside) and consumed only by a
\* complete fill, whatever timeouts and cancels ran meanwhile.
SettledAsTraded ==
    \A c \in Orders :
        /\ resv[c] = "RELEASED" /\ c \notin lost => broker[c] = "NONE"
        /\ resv[c] = "CONSUMED" => broker[c] = "FILLED"

\* The transaction of create_order is the indivisible reservation of the
\* capital engine's promise (capital.py: "Atomic reservation").
Ledger == INSTANCE CapitalLedger WITH
    held <- Held,
    spent <- {c \in Orders : resv[c] = "CONSUMED"},
    freed <- {c \in Orders : resv[c] = "RELEASED"}

ReservesAtomically == Ledger!LedgerSpec

\* Every request is answered: no request keeps the row lock, and none waits
\* for it for ever.
RequestsEnd == \A q \in Requests : ~At(q, "idle") ~> At(q, "idle")
=============================================================================
