-------------------------- MODULE AlgoOrdersProofs ---------------------------
(* The promises of the algo desk's orders, for any number of orders,       *)
(* requests, restarts and failed commits: a client order id reaches the    *)
(* broker once, the broker's fill wins over every cancel and timeout, and  *)
(* capital is released or consumed as the order was traded.                *)
(*                                                                         *)
(* They share one inductive invariant.  Its parts say who may still submit *)
(* an order: a request beyond the idempotency check of the database knows  *)
(* that nothing was placed before this process started (Placement), one    *)
(* beyond its commit owns the reservation or knows that there is none      *)
(* (Reservation), and of those at the broker there is one (Flight).        *)
EXTENDS AlgoOrders, FiniteSums

\* The places of a request that has passed the database's idempotency check, of
\* one whose commit is behind it, and of one whose order is with the adapter.
Beyond == {"snap", "risk", "persist", "submit", "broker", "answer", "record", "settle"}
Past == {"submit", "broker", "answer", "record", "settle"}
Flying == {"broker", "answer"}

\* Request q works on order c and is in one of these places.
In(q, pcs, c) == task[q].pc \in pcs /\ task[q].c = c
Waiting(c) == mem[c].st \in Unsent \cup {"NONE"}

\* Locals of a request: its order, its reservation, its lock.  Only a restart
\* makes the manager forget an order, and that ends the requests too.
Tasks ==
    \A q \in Requests :
        /\ task[q].pc # "idle" => task[q].c \in Orders
        /\ task[q].rid => task[q].pc \in Past
        /\ task[q].pc = "persist" => lock = q
        /\ task[q].pc \in Past \cup {"persist"} => mem[task[q].c].st # "NONE"

\* A record has a broker id exactly when it has the broker's fill.
Records ==
    \A c \in Orders : /\ mem[c].bid <=> mem[c].st \in Fills
                      /\ mem[c].bid => mem[c].st = broker[c]

\* At most one request per order is at the broker, its record not yet filled.
Flight ==
    \A c \in Orders, q \in Requests : In(q, Flying, c) =>
        /\ ~Waiting(c) /\ ~mem[c].bid
        /\ task[q].pc = "answer" => broker[c] # "NONE"
        /\ \A r \in Requests : In(r, Flying, c) => r = q

\* A reservation stands beside a row; the request that made it is the only one
\* of its order, and one without it is past a row that another one saved.
Reservation ==
    \A c \in Orders :
        /\ resv[c] # "NONE" => row[c] # "NONE"
        /\ \A q \in Requests :
             /\ In(q, {"persist"}, c) => resv[c] = "NONE"
             /\ In(q, Past, c) /\ task[q].rid =>
                  /\ resv[c] # "NONE"
                  /\ \A r \in Requests : In(r, Past, c) /\ task[r].rid => r = q
             /\ In(q, Past, c) /\ ~task[q].rid /\ c \notin lost =>
                  row[c] # "NONE" /\ resv[c] = "NONE"

\* What was placed has a row or was lost; a record that may still be submitted
\* has been placed by an earlier process only.
Placement ==
    \A c \in Orders :
        /\ placed[c] > 0 <=> broker[c] # "NONE"
        /\ placed[c] > 0 => row[c] # "NONE" \/ c \in lost
        /\ placed[c] > 0 /\ Waiting(c) => restarts > 0
        /\ \A q \in Requests :
             /\ In(q, Beyond, c) /\ placed[c] > 0 /\ Waiting(c) => c \in lost
             /\ In(q, {"broker"}, c) /\ placed[c] > 0 => c \in lost /\ restarts > 0

\* Nothing of a released order can still reach the broker, and nothing of a
\* consumed one either; an owner whose record has no fill has traded nothing.
Settlement ==
    \A c \in Orders, q \in Requests :
        /\ resv[c] = "RELEASED" /\ c \notin lost => ~In(q, Past, c)
        /\ resv[c] = "CONSUMED" =>
             ~In(q, Flying, c) /\ (In(q, {"submit"}, c) => ~Waiting(c))
        /\ In(q, Past \ {"answer"}, c) /\ task[q].rid /\ c \notin lost /\ ~mem[c].bid =>
             broker[c] = "NONE"

\* The inductive invariant.
IInv ==
    /\ AlgoTypeOK /\ Tasks /\ Records /\ Flight /\ Reservation /\ Placement /\ Settlement
    /\ OneBrokerOrder /\ SettledAsTraded

\* The vocabulary of statuses and places is expanded throughout.
USE DEF Unsent, Fills, Dead, Statuses, NoOrder, Idle, Pcs, At, In, Waiting, Beyond, Past, Flying

\* A new request knows nothing of its order yet.
LEMMA ReceiveStep == ASSUME IInv, NEW q \in Requests, NEW c \in Orders, Receive(q, c)
  PROVE IInv'
<1>0. /\ AlgoTypeOK /\ Tasks /\ Records /\ Flight /\ Reservation /\ Placement
      /\ Settlement /\ OneBrokerOrder /\ SettledAsTraded
  BY DEF IInv
<1>1. AlgoTypeOK'
  BY <1>0, AlgoConstants DEF AlgoTypeOK, Tasks, Receive
<1>2. Tasks'
  BY <1>0, AlgoConstants DEF AlgoTypeOK, Tasks, Receive
<1>3. Flight'
  BY <1>0 DEF AlgoTypeOK, Tasks, Flight, Receive
<1>4. Reservation'
  BY <1>0 DEF AlgoTypeOK, Tasks, Reservation, Receive
<1>5. Placement'
  BY <1>0 DEF AlgoTypeOK, Tasks, Placement, Receive
<1>6. Settlement'
  BY <1>0 DEF AlgoTypeOK, Tasks, Settlement, Receive
<1>7. Records' /\ OneBrokerOrder' /\ SettledAsTraded'
  BY <1>0 DEF Records, OneBrokerOrder, SettledAsTraded, Receive
<1> QED BY <1>1, <1>2, <1>3, <1>4, <1>5, <1>6, <1>7 DEF IInv

\* A request that finds no row passes: what was placed of its order is lost.
LEMMA LookupStep == ASSUME IInv, NEW q \in Requests, Lookup(q) PROVE IInv'
<1>0. /\ AlgoTypeOK /\ Tasks /\ Records /\ Flight /\ Reservation /\ Placement
      /\ Settlement /\ OneBrokerOrder /\ SettledAsTraded
  BY DEF IInv
<1>1. CASE row[task[q].c] # "NONE"
  <2>0. /\ task[q].pc = "lookup"
        /\ task' = [task EXCEPT ![q] = Idle]
        /\ UNCHANGED <<mem, row, resv, lock, broker, placed, lost, restarts, faults>>
    BY <1>0, <1>1 DEF AlgoTypeOK, Tasks, Lookup, Answered, Goto
  <2>1. AlgoTypeOK'
    BY <1>0, <1>1, <2>0, AlgoConstants DEF AlgoTypeOK, Tasks
  <2>2. Tasks'
    BY <1>0, <1>1, <2>0, AlgoConstants DEF AlgoTypeOK, Tasks
  <2>3. Flight'
    BY <1>0, <1>1, <2>0 DEF AlgoTypeOK, Tasks, Flight
  <2>4. Reservation'
    BY <1>0, <1>1, <2>0 DEF AlgoTypeOK, Tasks, Reservation
  <2>5. Placement'
    BY <1>0, <1>1, <2>0 DEF AlgoTypeOK, Tasks, Placement
  <2>6. Settlement'
    BY <1>0, <1>1, <2>0 DEF AlgoTypeOK, Tasks, Settlement
  <2>7. Records' /\ OneBrokerOrder' /\ SettledAsTraded'
    BY <1>0, <2>0 DEF Records, OneBrokerOrder, SettledAsTraded
  <2> QED BY <2>1, <2>2, <2>3, <2>4, <2>5, <2>6, <2>7 DEF IInv
<1>2. CASE row[task[q].c] = "NONE"
  <2>0. /\ task[q].pc = "lookup"
        /\ task' = [task EXCEPT ![q].pc = "snap"]
        /\ UNCHANGED <<mem, row, resv, lock, broker, placed, lost, restarts, faults>>
    BY <1>0, <1>2 DEF AlgoTypeOK, Tasks, Lookup, Answered, Goto
  <2>1. AlgoTypeOK'
    <3>1. task' \in [Requests -> [pc : Pcs, c : Orders \cup {Nobody}, rid : BOOLEAN]]
      BY <1>0, <2>0 DEF AlgoTypeOK, Pcs
    <3>2. lock' # Nobody => lock' \in Requests /\ task'[lock'].pc \in {"risk", "persist"}
      BY <1>0, <2>0, AlgoConstants DEF AlgoTypeOK, Tasks
    <3>3. /\ mem' \in [Orders -> [st : Statuses \cup {"NONE"}, bid : BOOLEAN]]
          /\ row' \in [Orders -> Statuses \cup {"NONE"}]
          /\ resv' \in [Orders -> {"NONE", "RESERVED", "CONSUMED", "RELEASED"}]
      BY <1>0, <2>0 DEF AlgoTypeOK, Statuses, Unsent
    <3> QED
      BY <1>0, <2>0, <3>1, <3>2, <3>3 DEF AlgoTypeOK
  <2>2. Tasks'
    BY <1>0, <1>2, <2>0, AlgoConstants DEF AlgoTypeOK, Tasks
  <2>3. Flight'
    BY <1>0, <1>2, <2>0 DEF AlgoTypeOK, Tasks, Flight
  <2>4. Reservation'
    BY <1>0, <1>2, <2>0 DEF AlgoTypeOK, Tasks, Reservation
  <2>5. Placement'
    BY <1>0, <1>2, <2>0 DEF AlgoTypeOK, Tasks, Placement
  <2>6. Settlement'
    BY <1>0, <1>2, <2>0 DEF AlgoTypeOK, Tasks, Settlement
  <2>7. Records' /\ OneBrokerOrder' /\ SettledAsTraded'
    BY <1>0, <2>0 DEF Records, OneBrokerOrder, SettledAsTraded
  <2> QED BY <2>1, <2>2, <2>3, <2>4, <2>5, <2>6, <2>7 DEF IInv
<1> QED BY <1>1, <1>2

\* The request takes the row lock, or goes on without it.
LEMMA SnapshotStep == ASSUME IInv, NEW q \in Requests, Snapshot(q) PROVE IInv'
<1>0. /\ AlgoTypeOK /\ Tasks /\ Records /\ Flight /\ Reservation /\ Placement
      /\ Settlement /\ OneBrokerOrder /\ SettledAsTraded
  BY DEF IInv
<1>1. AlgoTypeOK'
  BY <1>0, AlgoConstants DEF AlgoTypeOK, Tasks, Snapshot, Locked, Goto
<1>2. Tasks'
  BY <1>0, AlgoConstants DEF AlgoTypeOK, Tasks, Snapshot, Locked, Goto
<1>3. Flight'
  BY <1>0 DEF AlgoTypeOK, Tasks, Flight, Snapshot, Locked, Goto
<1>4. Reservation'
  BY <1>0 DEF AlgoTypeOK, Tasks, Reservation, Snapshot, Locked, Goto
<1>5. Placement'
  BY <1>0 DEF AlgoTypeOK, Tasks, Placement, Snapshot, Locked, Goto
<1>6. Settlement'
  BY <1>0 DEF AlgoTypeOK, Tasks, Settlement, Snapshot, Locked, Goto
<1>7. Records' /\ OneBrokerOrder' /\ SettledAsTraded'
  BY <1>0 DEF Records, OneBrokerOrder, SettledAsTraded, Snapshot, Locked, Goto
<1> QED BY <1>1, <1>2, <1>3, <1>4, <1>5, <1>6, <1>7 DEF IInv

\* A refused request writes a row and gives the lock back.
LEMMA RefuseStep == ASSUME IInv, NEW q \in Requests, Refuse(q) PROVE IInv'
<1>0. /\ AlgoTypeOK /\ Tasks /\ Records /\ Flight /\ Reservation /\ Placement
      /\ Settlement /\ OneBrokerOrder /\ SettledAsTraded
  BY DEF IInv
<1>1. AlgoTypeOK'
  BY <1>0, AlgoConstants DEF AlgoTypeOK, Tasks, Refuse, Answered, Unlocked
<1>2. Tasks'
  BY <1>0, AlgoConstants DEF AlgoTypeOK, Tasks, Refuse, Answered, Unlocked
<1>3. Flight'
  BY <1>0 DEF AlgoTypeOK, Tasks, Flight, Refuse, Answered, Unlocked
<1>4. Reservation'
  BY <1>0 DEF AlgoTypeOK, Tasks, Reservation, Refuse, Answered, Unlocked
<1>5. Placement'
  BY <1>0 DEF AlgoTypeOK, Tasks, Placement, Refuse, Answered, Unlocked
<1>6. Settlement'
  BY <1>0 DEF AlgoTypeOK, Tasks, Settlement, Refuse, Answered, Unlocked
<1>7. Records' /\ OneBrokerOrder' /\ SettledAsTraded'
  BY <1>0 DEF Records, OneBrokerOrder, SettledAsTraded, Refuse, Answered, Unlocked
<1> QED BY <1>1, <1>2, <1>3, <1>4, <1>5, <1>6, <1>7 DEF IInv

\* Under the lock the request finds no reservation, so none exists until it
\* commits.
LEMMA ReserveStep == ASSUME IInv, NEW q \in Requests, Reserve(q) PROVE IInv'
<1>0. /\ AlgoTypeOK /\ Tasks /\ Records /\ Flight /\ Reservation /\ Placement
      /\ Settlement /\ OneBrokerOrder /\ SettledAsTraded
  BY DEF IInv
<1>1. CASE CapitalCovers(task[q].c) /\ Locked(q) /\ mem' = Intended(task[q].c)
             /\ Goto(q, "persist")
  <2>0. /\ task[q].pc = "risk"
        /\ lock \in {Nobody, q} /\ lock' = q
        /\ resv[task[q].c] = "NONE"
        /\ mem' = [mem EXCEPT ![task[q].c] =
                     IF @.st = "NONE" THEN [st |-> "RISK_APPROVED", bid |-> FALSE] ELSE @]
        /\ task' = [task EXCEPT ![q].pc = "persist"]
        /\ UNCHANGED <<row, resv, broker, placed, lost, restarts, faults>>
    BY <1>0, <1>1 DEF Reserve, CapitalCovers, Intended, Locked, Goto
  <2>1. AlgoTypeOK'
    <3>1. task' \in [Requests -> [pc : Pcs, c : Orders \cup {Nobody}, rid : BOOLEAN]]
      BY <1>0, <2>0 DEF AlgoTypeOK, Pcs
    <3>2. lock' # Nobody => lock' \in Requests /\ task'[lock'].pc \in {"risk", "persist"}
      BY <1>0, <2>0, AlgoConstants DEF AlgoTypeOK, Tasks
    <3>3. /\ mem' \in [Orders -> [st : Statuses \cup {"NONE"}, bid : BOOLEAN]]
          /\ row' \in [Orders -> Statuses \cup {"NONE"}]
          /\ resv' \in [Orders -> {"NONE", "RESERVED", "CONSUMED", "RELEASED"}]
      BY <1>0, <2>0 DEF AlgoTypeOK, Statuses, Unsent
    <3> QED
      BY <1>0, <2>0, <3>1, <3>2, <3>3 DEF AlgoTypeOK
  <2>2. Tasks'
    BY <1>0, <1>1, <2>0, AlgoConstants DEF AlgoTypeOK, Tasks
  <2>3. Records'
    BY <1>0, <1>1, <2>0 DEF AlgoTypeOK, Tasks, Records
  <2>4. Flight'
    BY <1>0, <1>1, <2>0 DEF AlgoTypeOK, Tasks, Flight
  <2>5. Reservation'
    BY <1>0, <1>1, <2>0 DEF AlgoTypeOK, Tasks, Reservation
  <2>6. Placement'
    BY <1>0, <1>1, <2>0 DEF AlgoTypeOK, Tasks, Placement
  <2>7. Settlement'
    BY <1>0, <1>1, <2>0 DEF AlgoTypeOK, Tasks, Settlement
  <2>8. OneBrokerOrder' /\ SettledAsTraded'
    BY <1>0, <2>0 DEF OneBrokerOrder, SettledAsTraded
  <2> QED BY <2>1, <2>2, <2>3, <2>4, <2>5, <2>6, <2>7, <2>8 DEF IInv
<1>2. CASE Denied(q) /\ UNCHANGED mem
  <2>0. /\ task[q].pc = "risk"
        /\ task' = [task EXCEPT ![q] = Idle]
        /\ lock' = IF lock = q THEN Nobody ELSE lock
        /\ UNCHANGED <<mem, row, resv, broker, placed, lost, restarts, faults>>
    BY <1>0, <1>2 DEF Reserve, Denied, Unlocked, Answered
  <2>1. AlgoTypeOK'
    BY <1>0, <1>2, <2>0, AlgoConstants DEF AlgoTypeOK, Tasks
  <2>2. Tasks'
    BY <1>0, <1>2, <2>0, AlgoConstants DEF AlgoTypeOK, Tasks
  <2>3. Flight'
    BY <1>0, <1>2, <2>0 DEF AlgoTypeOK, Tasks, Flight
  <2>4. Reservation'
    BY <1>0, <1>2, <2>0 DEF AlgoTypeOK, Tasks, Reservation
  <2>5. Placement'
    BY <1>0, <1>2, <2>0 DEF AlgoTypeOK, Tasks, Placement
  <2>6. Settlement'
    BY <1>0, <1>2, <2>0 DEF AlgoTypeOK, Tasks, Settlement
  <2>7. Records' /\ OneBrokerOrder' /\ SettledAsTraded'
    BY <1>0, <2>0 DEF Records, OneBrokerOrder, SettledAsTraded
  <2> QED BY <2>1, <2>2, <2>3, <2>4, <2>5, <2>6, <2>7 DEF IInv
<1> QED BY <1>1, <1>2 DEF Reserve

\* The commit: saved, failed, or refused for a row saved meanwhile.
LEMMA PersistStep == ASSUME IInv, NEW q \in Requests, Persist(q) PROVE IInv'
<1>0. /\ AlgoTypeOK /\ Tasks /\ Records /\ Flight /\ Reservation /\ Placement
      /\ Settlement /\ OneBrokerOrder /\ SettledAsTraded
  BY DEF IInv
<1>1. CASE row[task[q].c] = "NONE" /\ row' # row
  <2>0. /\ task[q].pc = "persist"
        /\ row' = [row EXCEPT ![task[q].c] = "RISK_APPROVED"]
        /\ resv' = [resv EXCEPT ![task[q].c] = "RESERVED"]
        /\ task' = [task EXCEPT ![q].pc = "submit", ![q].rid = TRUE]
        /\ lock' = Nobody
        /\ UNCHANGED <<mem, broker, placed, lost, restarts, faults>>
    BY <1>0, <1>1 DEF AlgoTypeOK, Tasks, Persist, Unlocked, Goto
  <2>1. AlgoTypeOK'
    <3>1. task' \in [Requests -> [pc : Pcs, c : Orders \cup {Nobody}, rid : BOOLEAN]]
      <4>1. task \in [Requests -> [pc : Pcs, c : Orders \cup {Nobody}, rid : BOOLEAN]]
        BY <1>0 DEF AlgoTypeOK
      <4>2. [task[q] EXCEPT !.pc = "submit", !.rid = TRUE]
              \in [pc : Pcs, c : Orders \cup {Nobody}, rid : BOOLEAN]
        BY <4>1 DEF Pcs
      <4>3. task' = [task EXCEPT ![q] = [task[q] EXCEPT !.pc = "submit", !.rid = TRUE]]
        BY <2>0, <4>1
      <4> QED
        BY <4>1, <4>2, <4>3
    <3>2. lock' # Nobody => lock' \in Requests /\ task'[lock'].pc \in {"risk", "persist"}
      BY <1>0, <2>0, AlgoConstants DEF AlgoTypeOK, Tasks
    <3>3. /\ mem' \in [Orders -> [st : Statuses \cup {"NONE"}, bid : BOOLEAN]]
          /\ row' \in [Orders -> Statuses \cup {"NONE"}]
          /\ resv' \in [Orders -> {"NONE", "RESERVED", "CONSUMED", "RELEASED"}]
      BY <1>0, <2>0 DEF AlgoTypeOK, Statuses, Unsent
    <3> QED
      BY <1>0, <2>0, <3>1, <3>2, <3>3 DEF AlgoTypeOK
  <2>2. Tasks'
    BY <1>0, <1>1, <2>0, AlgoConstants DEF AlgoTypeOK, Tasks
  <2>3. Flight'
    BY <1>0, <1>1, <2>0 DEF AlgoTypeOK, Tasks, Flight
  <2>4. Reservation'
    BY <1>0, <1>1, <2>0 DEF AlgoTypeOK, Tasks, Reservation
  <2>5. Placement'
    BY <1>0, <1>1, <2>0 DEF AlgoTypeOK, Tasks, Placement
  <2>6. Settlement'
    BY <1>0, <1>1, <2>0 DEF AlgoTypeOK, Tasks, Records, Flight, Reservation, Placement,
        Settlement, SettledAsTraded
  <2>7. SettledAsTraded'
    BY <1>0, <1>1, <2>0 DEF AlgoTypeOK, Tasks, SettledAsTraded
  <2>8. Records' /\ OneBrokerOrder'
    BY <1>0, <2>0 DEF Records, OneBrokerOrder
  <2> QED BY <2>1, <2>2, <2>3, <2>4, <2>5, <2>6, <2>7, <2>8 DEF IInv
<1>2. CASE row[task[q].c] = "NONE" /\ row' = row
  <2>0. /\ task[q].pc = "persist"
        /\ faults < MaxFaults /\ faults' = faults + 1
        /\ lost' = lost \cup {task[q].c}
        /\ task' = [task EXCEPT ![q].pc = "submit"]
        /\ lock' = Nobody
        /\ UNCHANGED <<mem, row, resv, broker, placed, restarts>>
    BY <1>0, <1>2 DEF AlgoTypeOK, Tasks, Persist, Unlocked, Goto
  <2>1. AlgoTypeOK'
    BY <1>0, <1>2, <2>0, AlgoConstants DEF AlgoTypeOK, Tasks
  <2>2. Tasks'
    BY <1>0, <1>2, <2>0, AlgoConstants DEF AlgoTypeOK, Tasks
  <2>3. Flight'
    BY <1>0, <1>2, <2>0 DEF AlgoTypeOK, Tasks, Flight
  <2>4. Reservation'
    BY <1>0, <1>2, <2>0 DEF AlgoTypeOK, Tasks, Reservation
  <2>5. Placement'
    BY <1>0, <1>2, <2>0 DEF AlgoTypeOK, Tasks, Placement
  <2>6. Settlement'
    BY <1>0, <1>2, <2>0 DEF AlgoTypeOK, Tasks, Records, Flight, Reservation, Placement,
        Settlement, SettledAsTraded
  <2>7. OneBrokerOrder'
    BY <1>0, <1>2, <2>0 DEF AlgoTypeOK, Tasks, OneBrokerOrder
  <2>8. SettledAsTraded'
    BY <1>0, <1>2, <2>0 DEF AlgoTypeOK, Tasks, SettledAsTraded
  <2>9. Records'
    BY <1>0, <2>0 DEF Records
  <2> QED BY <2>1, <2>2, <2>3, <2>4, <2>5, <2>6, <2>7, <2>8, <2>9 DEF IInv
<1>3. CASE row[task[q].c] # "NONE"
  <2>0. /\ task[q].pc = "persist"
        /\ task' = [task EXCEPT ![q].pc = "submit"]
        /\ lock' = Nobody
        /\ UNCHANGED <<mem, row, resv, broker, placed, lost, restarts, faults>>
    BY <1>0, <1>3 DEF AlgoTypeOK, Tasks, Persist, Unlocked, Goto
  <2>1. AlgoTypeOK'
    BY <1>0, <1>3, <2>0, AlgoConstants DEF AlgoTypeOK, Tasks
  <2>2. Tasks'
    BY <1>0, <1>3, <2>0, AlgoConstants DEF AlgoTypeOK, Tasks
  <2>3. Flight'
    BY <1>0, <1>3, <2>0 DEF AlgoTypeOK, Tasks, Flight
  <2>4. Reservation'
    BY <1>0, <1>3, <2>0 DEF AlgoTypeOK, Tasks, Reservation
  <2>5. Placement'
    BY <1>0, <1>3, <2>0 DEF AlgoTypeOK, Tasks, Placement
  <2>6. Settlement'
    BY <1>0, <1>3, <2>0 DEF AlgoTypeOK, Tasks, Records, Flight, Reservation, Placement,
        Settlement, SettledAsTraded
  <2>7. Records' /\ OneBrokerOrder' /\ SettledAsTraded'
    BY <1>0, <2>0 DEF Records, OneBrokerOrder, SettledAsTraded
  <2> QED BY <2>1, <2>2, <2>3, <2>4, <2>5, <2>6, <2>7 DEF IInv
<1> QED BY <1>1, <1>2, <1>3

\* Only the request that finds the record unsent goes on to the broker.
LEMMA SubmitStep == ASSUME IInv, NEW q \in Requests, Submit(q) PROVE IInv'
<1>0. /\ AlgoTypeOK /\ Tasks /\ Records /\ Flight /\ Reservation /\ Placement
      /\ Settlement /\ OneBrokerOrder /\ SettledAsTraded
  BY DEF IInv
<1>1. CASE MaySubmit(task[q].c)
  <2>0. /\ task[q].pc = "submit"
        /\ mem[task[q].c].st \in Unsent
        /\ mem' = [mem EXCEPT ![task[q].c].st = "SUBMITTED"]
        /\ task' = [task EXCEPT ![q].pc = "broker"]
        /\ UNCHANGED <<row, resv, lock, broker, placed, lost, restarts, faults>>
    BY <1>0, <1>1 DEF AlgoTypeOK, Tasks, Submit, MaySubmit, Goto, Answered
  <2>1. AlgoTypeOK'
    BY <1>0, <1>1, <2>0, AlgoConstants DEF AlgoTypeOK, Tasks
  <2>2. Tasks'
    BY <1>0, <1>1, <2>0, AlgoConstants DEF AlgoTypeOK, Tasks
  <2>3. Records'
    BY <1>0, <1>1, <2>0 DEF AlgoTypeOK, Tasks, Records
  <2>4. Flight'
    BY <1>0, <1>1, <2>0 DEF AlgoTypeOK, Tasks, Records, Flight
  <2>5. Reservation'
    BY <1>0, <1>1, <2>0 DEF AlgoTypeOK, Tasks, Reservation
  <2>6. Placement'
    BY <1>0, <1>1, <2>0 DEF AlgoTypeOK, Tasks, Placement
  <2>7. Settlement'
    BY <1>0, <1>1, <2>0 DEF AlgoTypeOK, Tasks, Settlement
  <2>8. OneBrokerOrder' /\ SettledAsTraded'
    BY <1>0, <2>0 DEF OneBrokerOrder, SettledAsTraded
  <2> QED BY <2>1, <2>2, <2>3, <2>4, <2>5, <2>6, <2>7, <2>8 DEF IInv
<1>2. CASE ~MaySubmit(task[q].c)
  <2>0. /\ task[q].pc = "submit"
        /\ task' = [task EXCEPT ![q] = Idle]
        /\ UNCHANGED <<mem, row, resv, lock, broker, placed, lost, restarts, faults>>
    BY <1>0, <1>2 DEF AlgoTypeOK, Tasks, Submit, MaySubmit, Goto, Answered
  <2>1. AlgoTypeOK'
    BY <1>0, <1>2, <2>0, AlgoConstants DEF AlgoTypeOK, Tasks
  <2>2. Tasks'
    BY <1>0, <1>2, <2>0, AlgoConstants DEF AlgoTypeOK, Tasks
  <2>3. Flight'
    BY <1>0, <1>2, <2>0 DEF AlgoTypeOK, Tasks, Flight
  <2>4. Reservation'
    BY <1>0, <1>2, <2>0 DEF AlgoTypeOK, Tasks, Reservation
  <2>5. Placement'
    BY <1>0, <1>2, <2>0 DEF AlgoTypeOK, Tasks, Placement
  <2>6. Settlement'
    BY <1>0, <1>2, <2>0 DEF AlgoTypeOK, Tasks, Settlement
  <2>7. Records' /\ OneBrokerOrder' /\ SettledAsTraded'
    BY <1>0, <2>0 DEF Records, OneBrokerOrder, SettledAsTraded
  <2> QED BY <2>1, <2>2, <2>3, <2>4, <2>5, <2>6, <2>7 DEF IInv
<1> QED BY <1>1, <1>2

\* The one request at the broker places the order.
LEMMA BrokerFillsStep == ASSUME IInv, NEW q \in Requests, BrokerFills(q) PROVE IInv'
<1>0. /\ AlgoTypeOK /\ Tasks /\ Records /\ Flight /\ Reservation /\ Placement
      /\ Settlement /\ OneBrokerOrder /\ SettledAsTraded
  BY DEF IInv
<1>1. AlgoTypeOK'
  BY <1>0, AlgoConstants DEF AlgoTypeOK, Tasks, BrokerFills, Goto
<1>2. Tasks'
  BY <1>0, AlgoConstants DEF AlgoTypeOK, Tasks, BrokerFills, Goto
<1>3. Records'
  BY <1>0 DEF AlgoTypeOK, Tasks, Records, Flight, BrokerFills, Goto
<1>4. Flight'
  BY <1>0 DEF AlgoTypeOK, Tasks, Flight, BrokerFills, Goto
<1>5. Reservation'
  BY <1>0 DEF AlgoTypeOK, Tasks, Reservation, BrokerFills, Goto
<1>6. Placement'
  BY <1>0 DEF AlgoTypeOK, Tasks, Records, Flight, Reservation, Placement, BrokerFills, Goto
<1>7. Settlement'
  BY <1>0 DEF AlgoTypeOK, Tasks, Records, Flight, Reservation, Placement, Settlement,
      SettledAsTraded, BrokerFills, Goto
<1>8. OneBrokerOrder'
  BY <1>0 DEF AlgoTypeOK, Tasks, Placement, OneBrokerOrder, BrokerFills, Goto
<1>9. SettledAsTraded'
  BY <1>0 DEF AlgoTypeOK, Tasks, Records, Flight, Settlement, SettledAsTraded, BrokerFills, Goto
<1> QED BY <1>1, <1>2, <1>3, <1>4, <1>5, <1>6, <1>7, <1>8, <1>9 DEF IInv

\* The answer replaces whatever status the record has.
LEMMA SubmitResumesStep == ASSUME IInv, NEW q \in Requests, SubmitResumes(q) PROVE IInv'
<1>0. /\ AlgoTypeOK /\ Tasks /\ Records /\ Flight /\ Reservation /\ Placement
      /\ Settlement /\ OneBrokerOrder /\ SettledAsTraded
  BY DEF IInv
<1>1. AlgoTypeOK'
  BY <1>0, AlgoConstants DEF AlgoTypeOK, Tasks, SubmitResumes, Goto, Filled
<1>2. Tasks'
  BY <1>0, AlgoConstants DEF AlgoTypeOK, Tasks, Records, Flight, SubmitResumes, Goto, Filled
<1>3. Records'
  BY <1>0 DEF AlgoTypeOK, Tasks, Records, Flight, SubmitResumes, Goto, Filled
<1>4. Flight'
  BY <1>0 DEF AlgoTypeOK, Tasks, Flight, SubmitResumes, Goto, Filled
<1>5. Reservation'
  BY <1>0 DEF AlgoTypeOK, Tasks, Reservation, SubmitResumes, Goto, Filled
<1>6. Placement'
  BY <1>0, AlgoConstants DEF AlgoTypeOK, Tasks, Placement, SubmitResumes, Goto, Filled
<1>7. Settlement'
  BY <1>0 DEF AlgoTypeOK, Tasks, Settlement, SubmitResumes, Goto, Filled
<1>8. OneBrokerOrder' /\ SettledAsTraded'
  BY <1>0 DEF OneBrokerOrder, SettledAsTraded, SubmitResumes, Goto, Filled
<1> QED BY <1>1, <1>2, <1>3, <1>4, <1>5, <1>6, <1>7, <1>8 DEF IInv

\* A timeout or an error leaves the broker without the order.
LEMMA SubmitFailsStep == ASSUME IInv, NEW q \in Requests, SubmitFails(q) PROVE IInv'
<1>0. /\ AlgoTypeOK /\ Tasks /\ Records /\ Flight /\ Reservation /\ Placement
      /\ Settlement /\ OneBrokerOrder /\ SettledAsTraded
  BY DEF IInv
<1>1. AlgoTypeOK'
  BY <1>0, AlgoConstants DEF AlgoTypeOK, Tasks, SubmitFails, AtBroker, Goto
<1>2. Tasks'
  BY <1>0, AlgoConstants DEF AlgoTypeOK, Tasks, SubmitFails, AtBroker, Goto
<1>3. Records'
  BY <1>0 DEF AlgoTypeOK, Tasks, Records, Flight, SubmitFails, AtBroker, Goto
<1>4. Flight'
  BY <1>0 DEF AlgoTypeOK, Tasks, Flight, SubmitFails, AtBroker, Goto
<1>5. Reservation'
  BY <1>0 DEF AlgoTypeOK, Tasks, Reservation, SubmitFails, AtBroker, Goto
<1>6. Placement'
  BY <1>0 DEF AlgoTypeOK, Tasks, Placement, SubmitFails, AtBroker, Goto
<1>7. Settlement'
  BY <1>0 DEF AlgoTypeOK, Tasks, Settlement, SubmitFails, AtBroker, Goto
<1>8. OneBrokerOrder' /\ SettledAsTraded'
  BY <1>0 DEF OneBrokerOrder, SettledAsTraded, SubmitFails, AtBroker, Goto
<1> QED BY <1>1, <1>2, <1>3, <1>4, <1>5, <1>6, <1>7, <1>8 DEF IInv

\* The row takes the record's status, or the write fails.
LEMMA RecordStep == ASSUME IInv, NEW q \in Requests, Record(q) PROVE IInv'
<1>0. /\ AlgoTypeOK /\ Tasks /\ Records /\ Flight /\ Reservation /\ Placement
      /\ Settlement /\ OneBrokerOrder /\ SettledAsTraded
  BY DEF IInv
<1>1. CASE faults' # faults
  <2>0. /\ task[q].pc = "record"
        /\ faults < MaxFaults /\ faults' = faults + 1
        /\ task' = [task EXCEPT ![q] = Idle]
        /\ UNCHANGED <<mem, row, resv, lock, broker, placed, lost, restarts>>
    BY <1>0, <1>1 DEF AlgoTypeOK, Tasks, Record, Answered, Goto
  <2>1. AlgoTypeOK'
    BY <1>0, <1>1, <2>0, AlgoConstants DEF AlgoTypeOK, Tasks
  <2>2. Tasks'
    BY <1>0, <1>1, <2>0, AlgoConstants DEF AlgoTypeOK, Tasks
  <2>3. Flight'
    BY <1>0, <1>1, <2>0 DEF AlgoTypeOK, Tasks, Flight
  <2>4. Reservation'
    BY <1>0, <1>1, <2>0 DEF AlgoTypeOK, Tasks, Reservation
  <2>5. Placement'
    BY <1>0, <1>1, <2>0 DEF AlgoTypeOK, Tasks, Placement
  <2>6. Settlement'
    BY <1>0, <1>1, <2>0 DEF AlgoTypeOK, Tasks, Settlement
  <2>7. Records' /\ OneBrokerOrder' /\ SettledAsTraded'
    BY <1>0, <2>0 DEF Records, OneBrokerOrder, SettledAsTraded
  <2> QED BY <2>1, <2>2, <2>3, <2>4, <2>5, <2>6, <2>7 DEF IInv
<1>2. CASE faults' = faults /\ (row[task[q].c] = "NONE" \/ ~task[q].rid)
  <2>0. /\ task[q].pc = "record"
        /\ row' = [row EXCEPT ![task[q].c] = IF @ = "NONE" THEN @ ELSE mem[task[q].c].st]
        /\ task' = [task EXCEPT ![q] = Idle]
        /\ UNCHANGED <<mem, resv, lock, broker, placed, lost, restarts, faults>>
    BY <1>0, <1>2 DEF AlgoTypeOK, Tasks, Record, Answered, Goto
  <2>1. AlgoTypeOK'
    BY <1>0, <1>2, <2>0, AlgoConstants DEF AlgoTypeOK, Tasks
  <2>2. Tasks'
    BY <1>0, <1>2, <2>0, AlgoConstants DEF AlgoTypeOK, Tasks
  <2>3. Flight'
    BY <1>0, <1>2, <2>0 DEF AlgoTypeOK, Tasks, Flight
  <2>4. Reservation'
    BY <1>0, <1>2, <2>0 DEF AlgoTypeOK, Tasks, Reservation
  <2>5. Placement'
    BY <1>0, <1>2, <2>0 DEF AlgoTypeOK, Tasks, Placement
  <2>6. Settlement'
    BY <1>0, <1>2, <2>0 DEF AlgoTypeOK, Tasks, Settlement
  <2>7. Records' /\ OneBrokerOrder' /\ SettledAsTraded'
    BY <1>0, <2>0 DEF Records, OneBrokerOrder, SettledAsTraded
  <2> QED BY <2>1, <2>2, <2>3, <2>4, <2>5, <2>6, <2>7 DEF IInv
<1>3. CASE faults' = faults /\ row[task[q].c] # "NONE" /\ task[q].rid
  <2>0. /\ task[q].pc = "record"
        /\ row' = [row EXCEPT ![task[q].c] = mem[task[q].c].st]
        /\ task' = [task EXCEPT ![q].pc = "settle"]
        /\ UNCHANGED <<mem, resv, lock, broker, placed, lost, restarts, faults>>
    BY <1>0, <1>3 DEF AlgoTypeOK, Tasks, Record, Answered, Goto
  <2>1. AlgoTypeOK'
    BY <1>0, <1>3, <2>0, AlgoConstants DEF AlgoTypeOK, Tasks
  <2>2. Tasks'
    BY <1>0, <1>3, <2>0, AlgoConstants DEF AlgoTypeOK, Tasks
  <2>3. Flight'
    BY <1>0, <1>3, <2>0 DEF AlgoTypeOK, Tasks, Flight
  <2>4. Reservation'
    BY <1>0, <1>3, <2>0 DEF AlgoTypeOK, Tasks, Reservation
  <2>5. Placement'
    BY <1>0, <1>3, <2>0 DEF AlgoTypeOK, Tasks, Placement
  <2>6. Settlement'
    BY <1>0, <1>3, <2>0 DEF AlgoTypeOK, Tasks, Settlement
  <2>7. Records' /\ OneBrokerOrder' /\ SettledAsTraded'
    BY <1>0, <2>0 DEF Records, OneBrokerOrder, SettledAsTraded
  <2> QED BY <2>1, <2>2, <2>3, <2>4, <2>5, <2>6, <2>7 DEF IInv
<1> QED BY <1>1, <1>2, <1>3

\* The reservation ends as the record says, and the record as the broker.
LEMMA SettleStep == ASSUME IInv, NEW q \in Requests, Settle(q) PROVE IInv'
<1>0. /\ AlgoTypeOK /\ Tasks /\ Records /\ Flight /\ Reservation /\ Placement
      /\ Settlement /\ OneBrokerOrder /\ SettledAsTraded
  BY DEF IInv
<1>1. AlgoTypeOK'
  BY <1>0, AlgoConstants DEF AlgoTypeOK, Tasks, Settle, Answered, Outcome
<1>2. Tasks'
  BY <1>0, AlgoConstants DEF AlgoTypeOK, Tasks, Settle, Answered, Outcome
<1>3. Flight'
  BY <1>0 DEF AlgoTypeOK, Tasks, Flight, Settle, Answered, Outcome
<1>4. Reservation'
  BY <1>0 DEF AlgoTypeOK, Tasks, Reservation, Settle, Answered, Outcome
<1>5. Placement'
  BY <1>0 DEF AlgoTypeOK, Tasks, Placement, Settle, Answered, Outcome
<1>6. Settlement'
  BY <1>0 DEF AlgoTypeOK, Tasks, Records, Flight, Reservation, Placement, Settlement,
      SettledAsTraded, Settle, Answered, Outcome
<1>7. SettledAsTraded'
  BY <1>0 DEF AlgoTypeOK, Tasks, Records, Flight, Reservation, Settlement, SettledAsTraded,
      Settle, Answered, Outcome
<1>8. Records' /\ OneBrokerOrder'
  BY <1>0 DEF Records, OneBrokerOrder, Settle, Answered, Outcome
<1> QED BY <1>1, <1>2, <1>3, <1>4, <1>5, <1>6, <1>7, <1>8 DEF IInv

\* A cancel finds the record sent or makes it so.
LEMMA CancelStep == ASSUME IInv, NEW q \in Requests, NEW c \in Orders, Cancel(q, c) PROVE IInv'
<1>0. /\ AlgoTypeOK /\ Tasks /\ Records /\ Flight /\ Reservation /\ Placement
      /\ Settlement /\ OneBrokerOrder /\ SettledAsTraded
  BY DEF IInv
<1>1. AlgoTypeOK'
  BY <1>0, AlgoConstants DEF AlgoTypeOK, Tasks, Cancel, Cancelled
<1>2. Tasks'
  BY <1>0, AlgoConstants DEF AlgoTypeOK, Tasks, Records, Cancel, Cancelled
<1>3. Records'
  BY <1>0 DEF AlgoTypeOK, Tasks, Records, Cancel, Cancelled
<1>4. Flight'
  BY <1>0 DEF AlgoTypeOK, Tasks, Flight, Cancel, Cancelled
<1>5. Reservation'
  BY <1>0 DEF AlgoTypeOK, Tasks, Reservation, Cancel, Cancelled
<1>6. Placement'
  BY <1>0 DEF AlgoTypeOK, Tasks, Placement, Cancel, Cancelled
<1>7. Settlement'
  BY <1>0 DEF AlgoTypeOK, Tasks, Records, Flight, Reservation, Placement, Settlement,
      SettledAsTraded, Cancel, Cancelled
<1>8. OneBrokerOrder' /\ SettledAsTraded'
  BY <1>0 DEF OneBrokerOrder, SettledAsTraded, Cancel, Cancelled
<1> QED BY <1>1, <1>2, <1>3, <1>4, <1>5, <1>6, <1>7, <1>8 DEF IInv

\* The row of a cancelled order exists already, if it exists.
LEMMA CancelRowStep == ASSUME IInv, NEW q \in Requests, CancelRow(q) PROVE IInv'
<1>0. /\ AlgoTypeOK /\ Tasks /\ Records /\ Flight /\ Reservation /\ Placement
      /\ Settlement /\ OneBrokerOrder /\ SettledAsTraded
  BY DEF IInv
<1>1. AlgoTypeOK'
  BY <1>0, AlgoConstants DEF AlgoTypeOK, Tasks, CancelRow, Answered
<1>2. Tasks'
  BY <1>0, AlgoConstants DEF AlgoTypeOK, Tasks, CancelRow, Answered
<1>3. Flight'
  BY <1>0 DEF AlgoTypeOK, Tasks, Flight, CancelRow, Answered
<1>4. Reservation'
  BY <1>0 DEF AlgoTypeOK, Tasks, Reservation, CancelRow, Answered
<1>5. Placement'
  BY <1>0 DEF AlgoTypeOK, Tasks, Placement, CancelRow, Answered
<1>6. Settlement'
  BY <1>0 DEF AlgoTypeOK, Tasks, Settlement, CancelRow, Answered
<1>7. Records' /\ OneBrokerOrder' /\ SettledAsTraded'
  BY <1>0 DEF Records, OneBrokerOrder, SettledAsTraded, CancelRow, Answered
<1> QED BY <1>1, <1>2, <1>3, <1>4, <1>5, <1>6, <1>7 DEF IInv

\* Only the row of an order the manager forgot changes.
LEMMA CancelUnknownStep == ASSUME IInv, NEW c \in Orders, CancelUnknown(c) PROVE IInv'
<1>0. /\ AlgoTypeOK /\ Tasks /\ Records /\ Flight /\ Reservation /\ Placement
      /\ Settlement /\ OneBrokerOrder /\ SettledAsTraded
  BY DEF IInv
<1>1. AlgoTypeOK'
  BY <1>0, AlgoConstants DEF AlgoTypeOK, Tasks, CancelUnknown
<1>2. Tasks'
  BY <1>0, AlgoConstants DEF AlgoTypeOK, Tasks, CancelUnknown
<1>3. Flight'
  BY <1>0 DEF AlgoTypeOK, Tasks, Flight, CancelUnknown
<1>4. Reservation'
  BY <1>0 DEF AlgoTypeOK, Tasks, Reservation, CancelUnknown
<1>5. Placement'
  BY <1>0 DEF AlgoTypeOK, Tasks, Placement, CancelUnknown
<1>6. Settlement'
  BY <1>0 DEF AlgoTypeOK, Tasks, Settlement, CancelUnknown
<1>7. Records' /\ OneBrokerOrder' /\ SettledAsTraded'
  BY <1>0 DEF Records, OneBrokerOrder, SettledAsTraded, CancelUnknown
<1> QED BY <1>1, <1>2, <1>3, <1>4, <1>5, <1>6, <1>7 DEF IInv

\* A restart forgets records and requests; rows and reservations stay.
LEMMA RestartStep == ASSUME IInv, Restart PROVE IInv'
<1>0. /\ AlgoTypeOK /\ Tasks /\ Records /\ Flight /\ Reservation /\ Placement
      /\ Settlement /\ OneBrokerOrder /\ SettledAsTraded
  BY DEF IInv
<1>1. AlgoTypeOK'
  BY <1>0, AlgoConstants DEF AlgoTypeOK, Tasks, Restart
<1>2. Tasks'
  BY <1>0, AlgoConstants DEF AlgoTypeOK, Tasks, Restart
<1>3. Records'
  BY <1>0 DEF AlgoTypeOK, Tasks, Records, Restart
<1>4. Flight'
  BY <1>0 DEF AlgoTypeOK, Tasks, Flight, Restart
<1>5. Reservation'
  BY <1>0 DEF AlgoTypeOK, Tasks, Reservation, Restart
<1>6. Placement'
  BY <1>0 DEF AlgoTypeOK, Tasks, Placement, Restart
<1>7. Settlement'
  BY <1>0 DEF AlgoTypeOK, Tasks, Settlement, Restart
<1>8. OneBrokerOrder'
  BY <1>0 DEF AlgoTypeOK, Tasks, OneBrokerOrder, Restart
<1>9. SettledAsTraded'
  BY <1>0 DEF SettledAsTraded, Restart
<1> QED BY <1>1, <1>2, <1>3, <1>4, <1>5, <1>6, <1>7, <1>8, <1>9 DEF IInv

\* The initial states: nothing was requested yet.
LEMMA InitIInv == Init => IInv
  BY AlgoConstants DEF Init, IInv, AlgoTypeOK, Tasks, Records, Flight, Reservation, Placement,
       Settlement, OneBrokerOrder, SettledAsTraded

\* Every step, and every stutter, keeps the invariant.
LEMMA NextIInv == IInv /\ [Next]_vars => IInv'
<1> SUFFICES ASSUME IInv, [Next]_vars PROVE IInv'
  OBVIOUS
<1>1. ASSUME NEW q \in Requests, Advance(q) PROVE IInv'
  BY <1>1, LookupStep, SnapshotStep, RefuseStep, ReserveStep, PersistStep, SubmitStep,
     BrokerFillsStep, SubmitResumesStep, SubmitFailsStep, RecordStep, SettleStep,
     CancelRowStep DEF Advance
<1>2. ASSUME NEW q \in Requests, NEW c \in Orders, Receive(q, c) \/ Cancel(q, c) PROVE IInv'
  BY <1>2, ReceiveStep, CancelStep
<1>3. ASSUME NEW c \in Orders, CancelUnknown(c) PROVE IInv'
  BY <1>3, CancelUnknownStep
<1>4. CASE Restart
  BY <1>4, RestartStep
<1>5. CASE UNCHANGED vars
  BY <1>5 DEF vars, IInv, AlgoTypeOK, Tasks, Records, Flight, Reservation, Placement,
       Settlement, OneBrokerOrder, SettledAsTraded
<1> QED BY <1>1, <1>2, <1>3, <1>4, <1>5 DEF Next

\* The invariant holds always.
LEMMA Invariance == Spec => []IInv
  BY InitIInv, NextIInv, PTL DEF Spec

\* Every variable of the algo desk's orders stays in its domain and the row
\* lock is held only within the transaction that took it.
THEOREM TypeCorrect == Spec => []AlgoTypeOK
<1>1. IInv => AlgoTypeOK BY DEF IInv
<1> QED BY Invariance, <1>1, PTL

\* submit reaches the broker once per client order id, for any number of
\* requests and restarts, unless the order's row could not be saved.
THEOREM NeverResent == Spec => []OneBrokerOrder
<1>1. IInv => OneBrokerOrder BY DEF IInv
<1> QED BY Invariance, <1>1, PTL

\* Once submit has its answer, the record of OrderManager says what the
\* broker holds, whatever cancels and timeouts ran.
THEOREM BrokerFillWins == Spec => []FillWins
<1>1. IInv => FillWins BY DEF IInv, Records, FillWins
<1> QED BY Invariance, <1>1, PTL

\* Capital is released only for an order the broker does not hold, and
\* consumed only by a complete fill.
THEOREM CapitalFollowsTrade == Spec => []SettledAsTraded
<1>1. IInv => SettledAsTraded BY DEF IInv
<1> QED BY Invariance, <1>1, PTL


-----------------------------------------------------------------------------
(* The refinement of CapitalLedger *)

\* What `reserve' established still holds when the transaction commits.
Granted ==
    \A q \in Requests :
        task[q].pc = "persist" => Sum(Held) + Amount[task[q].c] <= Limit

\* Reservations change one order at a time, and their sum with them.
LEMMA SumFacts ==
    ASSUME NEW S \in SUBSET Orders
    PROVE  /\ IsFiniteSet(S) /\ Sum(S) \in Nat
           /\ \A c \in Orders \ S : Sum(S \cup {c}) = Sum(S) + Amount[c]
           /\ \A c \in S : Sum(S \ {c}) <= Sum(S)
<1>1. IsFiniteSet(S) /\ \A c \in Orders : Amount[c] \in Nat
  BY AlgoConstants, FS_Subset
<1>2. Sum(S) \in Nat
  BY <1>1, SumType DEF Sum
<1>3. \A c \in Orders \ S : Sum(S \cup {c}) = Sum(S) + Amount[c]
  BY <1>1, SumAdd DEF Sum
<1>4. ASSUME NEW c \in S PROVE Sum(S \ {c}) <= Sum(S)
  <2>1. Sum(S \ {c}) = Sum(S) - Amount[c]
    BY <1>1, SumRemove DEF Sum
  <2> QED BY <1>1, <1>2, <2>1
<1> QED BY <1>1, <1>2, <1>3, <1>4

\* What a step does to the reservations: nothing, except that a commit makes
\* one that was granted and a settlement ends one.
Same == resv' = resv
Made(c) == resv[c] = "NONE" /\ resv' = [resv EXCEPT ![c] = "RESERVED"]
Ended(c) == resv[c] = "RESERVED" /\ \E st \in {"CONSUMED", "RELEASED"} : resv' = [resv EXCEPT ![c] = st]

\* The requests with a granted reservation after the step had it before.
NoNewGrant ==
    \A r \in Requests :
        task'[r].pc = "persist" => task[r].pc = "persist" /\ task'[r].c = task[r].c

LEMMA LedgerMoves ==
    ASSUME IInv, Granted, Next
    PROVE  \/ Same /\ NoNewGrant
           \/ \E q \in Requests : /\ Same /\ CapitalCovers(task[q].c) /\ task[q].c \in Orders
                                  /\ task' = [task EXCEPT ![q].pc = "persist"]
           \/ \E q \in Requests : /\ task[q].pc = "persist" /\ task[q].c \in Orders
                                  /\ Made(task[q].c)
                                  /\ \A r \in Requests : task'[r].pc # "persist"
           \/ \E c \in Orders : Ended(c) /\ NoNewGrant
<1>0. AlgoTypeOK /\ Tasks /\ Reservation
  BY DEF IInv
<1>a. ASSUME NEW q \in Requests, resv' = resv,
             Answered(q) \/ \E pc \in Pcs \ {"persist"} : Goto(q, pc)
      PROVE  Same /\ NoNewGrant
  <2>1. CASE Answered(q)
    BY <1>0, <1>a, <2>1 DEF AlgoTypeOK, Same, NoNewGrant, Answered
  <2>2. CASE \E pc \in Pcs \ {"persist"} : Goto(q, pc)
    BY <1>0, <1>a, <2>2 DEF AlgoTypeOK, Same, NoNewGrant, Goto
  <2> QED BY <1>a, <2>1, <2>2
<1>1. ASSUME NEW q \in Requests, Lookup(q) \/ Snapshot(q) \/ Refuse(q) \/ Submit(q)
      PROVE  Same /\ NoNewGrant
  BY <1>1, <1>a DEF Lookup, Snapshot, Refuse, Submit
<1>2. ASSUME NEW q \in Requests,
             BrokerFills(q) \/ SubmitResumes(q) \/ SubmitFails(q) \/ Record(q) \/ CancelRow(q)
      PROVE  Same /\ NoNewGrant
  BY <1>2, <1>a DEF BrokerFills, SubmitResumes, SubmitFails, Record, CancelRow
<1>3. ASSUME NEW q \in Requests, NEW c \in Orders, Receive(q, c) \/ Cancel(q, c)
      PROVE  Same /\ NoNewGrant
  BY <1>0, <1>3 DEF AlgoTypeOK, Same, NoNewGrant, Receive, Cancel
<1>4. ASSUME NEW c \in Orders, CancelUnknown(c)
      PROVE  Same /\ NoNewGrant
  BY <1>4 DEF Same, NoNewGrant, CancelUnknown
<1>5. ASSUME Restart
      PROVE  Same /\ NoNewGrant
  BY <1>5 DEF Same, NoNewGrant, Restart
<1>6. ASSUME NEW q \in Requests, Reserve(q)
      PROVE  \/ Same /\ NoNewGrant
             \/ /\ Same /\ CapitalCovers(task[q].c) /\ task[q].c \in Orders
                /\ task' = [task EXCEPT ![q].pc = "persist"]
  <2>1. CASE CapitalCovers(task[q].c) /\ Goto(q, "persist")
    BY <1>0, <1>6, <2>1 DEF Tasks, Same, Reserve, Goto
  <2>2. CASE Denied(q)
    BY <1>0, <1>6, <2>2 DEF AlgoTypeOK, Same, NoNewGrant, Reserve, Denied, Answered
  <2> QED BY <1>6, <2>1, <2>2 DEF Reserve
<1>7. ASSUME NEW q \in Requests, Persist(q)
      PROVE  \/ Same /\ NoNewGrant
             \/ /\ task[q].pc = "persist" /\ task[q].c \in Orders
                /\ Made(task[q].c)
                /\ \A r \in Requests : task'[r].pc # "persist"
  <2>1. /\ task[q].pc = "persist" /\ task[q].c \in Orders /\ resv[task[q].c] = "NONE"
        /\ \A r \in Requests \ {q} : task[r].pc # "persist"
    BY <1>0, <1>7 DEF Tasks, Reservation, Persist
  <2>2. CASE task' = [task EXCEPT ![q].pc = "submit"] /\ resv' = resv
    BY <1>0, <2>1, <2>2 DEF AlgoTypeOK, Same, NoNewGrant
  <2>3. CASE /\ task' = [task EXCEPT ![q].pc = "submit", ![q].rid = TRUE]
             /\ resv' = [resv EXCEPT ![task[q].c] = "RESERVED"]
    BY <1>0, <2>1, <2>3 DEF AlgoTypeOK, Made
  <2> QED BY <1>7, <2>2, <2>3 DEF Persist, Goto
<1>8. ASSUME NEW q \in Requests, Settle(q)
      PROVE  (Same /\ NoNewGrant) \/ (\E c \in Orders : Ended(c) /\ NoNewGrant)
  <2>1. NoNewGrant /\ task[q].c \in Orders
    BY <1>0, <1>8 DEF AlgoTypeOK, Tasks, NoNewGrant, Settle, Answered
  <2>2. Same \/ Ended(task[q].c)
    <3>1. resv' = [resv EXCEPT ![task[q].c] = Outcome(@, mem[task[q].c].st)]
      BY <1>8 DEF Settle
    <3> QED BY <1>0, <2>1, <3>1 DEF AlgoTypeOK, Same, Ended, Outcome
  <2> QED BY <2>1, <2>2
<1> QED
  BY <1>1, <1>2, <1>3, <1>4, <1>5, <1>6, <1>7, <1>8 DEF Next, Advance

LEMMA GrantedStep ==
    ASSUME IInv, Granted, [Next]_vars
    PROVE  Granted'
<1>0. AlgoTypeOK /\ Tasks
  BY DEF IInv
<1>1. Held \in SUBSET Orders /\ Held' \in SUBSET Orders /\ Limit \in Int
  BY AlgoConstants DEF Held
<1>2. CASE Same /\ NoNewGrant
  BY <1>2 DEF Granted, Same, NoNewGrant, Held
<1>3. CASE \E q \in Requests : /\ Same /\ CapitalCovers(task[q].c) /\ task[q].c \in Orders
                               /\ task' = [task EXCEPT ![q].pc = "persist"]
  BY <1>0, <1>3 DEF Granted, Same, CapitalCovers, Held, AlgoTypeOK
<1>4. CASE \A r \in Requests : task'[r].pc # "persist"
  BY <1>4 DEF Granted
<1>5. CASE \E c \in Orders : Ended(c) /\ NoNewGrant
  <2>1. PICK c \in Orders : Ended(c)
    BY <1>5
  <2>2. c \in Held /\ Held' = Held \ {c}
    BY <1>0, <2>1 DEF AlgoTypeOK, Ended, Held
  <2>3. Sum(Held) \in Nat /\ Sum(Held') \in Nat /\ Sum(Held') <= Sum(Held)
    BY <1>1, <2>2, SumFacts
  <2>4. ASSUME NEW r \in Requests, task'[r].pc = "persist"
        PROVE  Sum(Held') + Amount[task'[r].c] <= Limit
    <3>1. /\ task'[r].c = task[r].c /\ task[r].c \in Orders
          /\ Sum(Held) + Amount[task[r].c] <= Limit
      BY <1>0, <1>5, <2>4 DEF NoNewGrant, Granted, Tasks
    <3>2. Amount[task[r].c] \in Nat
      BY <3>1, AlgoConstants
    <3> QED BY <1>1, <2>3, <3>1, <3>2
  <2> QED BY <2>4 DEF Granted, Sum
<1>6. CASE UNCHANGED vars
  BY <1>6 DEF vars, Granted, Held
<1> QED
  BY <1>2, <1>3, <1>4, <1>5, <1>6, LedgerMoves

\* Every step of the desk is one of the ledger, or none.
LEMMA LedgerStep ==
    ASSUME IInv, Granted, [Next]_vars
    PROVE  [Ledger!LedgerNext]_Ledger!ledger
<1>0. AlgoTypeOK
  BY DEF IInv
<1>1. CASE Same
  BY <1>1 DEF Same, Held, Ledger!ledger
<1>2. CASE \E q \in Requests :
             task[q].pc = "persist" /\ task[q].c \in Orders /\ Made(task[q].c)
  <2>1. PICK c \in Orders : Made(c) /\ Sum(Held) + Amount[c] <= Limit
    BY <1>2 DEF Granted
  <2>2. /\ c \notin Held /\ resv[c] = "NONE" /\ Held' = Held \cup {c}
        /\ {d \in Orders : resv'[d] = "CONSUMED"} = {d \in Orders : resv[d] = "CONSUMED"}
        /\ {d \in Orders : resv'[d] = "RELEASED"} = {d \in Orders : resv[d] = "RELEASED"}
    BY <1>0, <2>1 DEF AlgoTypeOK, Made, Held
  <2>3. Sum(Held \cup {c}) <= Limit
    BY <2>1, <2>2, SumFacts DEF Held
  <2>4. Ledger!Total(Held \cup {c}) <= Limit
    BY <2>3 DEF Ledger!Total, Sum, SumFunctionOnSet, Ledger!SumFunctionOnSet,
        FoldFunctionOnSet, Ledger!FoldFunctionOnSet, MapThenFoldSet, Ledger!MapThenFoldSet
  <2> QED BY <2>2, <2>4 DEF Ledger!LedgerNext, Ledger!ReserveCapital
<1>3. CASE \E c \in Orders : Ended(c)
  <2>1. PICK c \in Orders, st \in {"CONSUMED", "RELEASED"} :
          resv[c] = "RESERVED" /\ resv' = [resv EXCEPT ![c] = st]
    BY <1>3 DEF Ended
  <2>2. c \in Held /\ Held' = Held \ {c}
    BY <1>0, <2>1 DEF AlgoTypeOK, Held
  <2>3. CASE st = "CONSUMED"
    <3>1. /\ {d \in Orders : resv'[d] = "CONSUMED"} = {d \in Orders : resv[d] = "CONSUMED"} \cup {c}
          /\ {d \in Orders : resv'[d] = "RELEASED"} = {d \in Orders : resv[d] = "RELEASED"}
      BY <1>0, <2>1, <2>3 DEF AlgoTypeOK
    <3> QED BY <2>2, <3>1 DEF Ledger!LedgerNext, Ledger!Consume
  <2>4. CASE st = "RELEASED"
    <3>1. /\ {d \in Orders : resv'[d] = "RELEASED"} = {d \in Orders : resv[d] = "RELEASED"} \cup {c}
          /\ {d \in Orders : resv'[d] = "CONSUMED"} = {d \in Orders : resv[d] = "CONSUMED"}
      BY <1>0, <2>1, <2>4 DEF AlgoTypeOK
    <3> QED BY <2>2, <3>1 DEF Ledger!LedgerNext, Ledger!Release
  <2> QED BY <2>1, <2>3, <2>4
<1>4. CASE UNCHANGED vars
  BY <1>4 DEF vars, Held, Ledger!ledger
<1> QED
  BY <1>1, <1>2, <1>3, <1>4, LedgerMoves

\* create_order's transaction, with its row lock, is the atomic reservation the
\* capital engine promises: never beyond the limit, once per client order id,
\* ended once, whatever requests, timeouts, failed commits and restarts do.
THEOREM DeskImplementsLedger == Spec => ReservesAtomically
<1>1. Init => Ledger!LedgerInit /\ Granted
  BY DEF Init, Ledger!LedgerInit, Held, Granted
<1>2. IInv /\ Granted /\ [Next]_vars => Granted' /\ [Ledger!LedgerNext]_Ledger!ledger
  BY GrantedStep, LedgerStep
<1> QED
  BY <1>1, <1>2, Invariance, PTL DEF Spec, ReservesAtomically, Ledger!LedgerSpec
=============================================================================
