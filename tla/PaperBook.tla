------------------------------ MODULE PaperBook ------------------------------
(***************************************************************************)
(* One shard of PaperTradingService (services/paper_service.py): orders,   *)
(* positions, margin, idempotency by client id, the per-user lock, resting *)
(* orders, square-off, reset, and the rows saved to the database.          *)
(*                                                                         *)
(* Coroutines run on one event loop: what happens between two awaits that  *)
(* really suspend is one action.  Buy quantities are positive and sell     *)
(* quantities negative, both in lots; prices are integers and the average  *)
(* price is rounded down.  A quote is any price of Prices or none, and     *)
(* whether it touches a limit is a choice.  Rejected orders change nothing *)
(* but the order list and are left out of it.                              *)
(*                                                                         *)
(* Every write to the database succeeds unless the process dies first; an  *)
(* order that rests or is cancelled is saved while its request still holds *)
(* the lock, and that is one step.                                         *)
(*                                                                         *)
(* "touch" in Acts makes it the signal engine's shard, the only one whose  *)
(* resting orders the worker evaluates and whose positions and orders are  *)
(* read back when the process starts; without, it is the shard of a        *)
(* signed-in user, whose positions are read back on demand.                *)
(***************************************************************************)
EXTENDS Integers, Sequences, FiniteSets, FiniteSetsExt

CONSTANTS
    Contracts,
    Payloads,     \* orders clients place: [k, n, limit, cid]
    NoId,         \* the client_order_id of an order without one
    Prices,
    Clients,      \* concurrent requests
    Acts,         \* of "cancel", "squareoff", "reset", "touch", "restart"
    MaxSingle, MaxPerSymbol, MaxOpen,   \* the risk gate
    Capital,
    Brake,        \* realized loss at which no new long is opened
    ShortMargin,  \* margin of a lot sold short
    MaxOrders     \* bound on the orders of a behaviour

VARIABLES
    heap,      \* the VirtualPosition objects ever created
    book,      \* _positions: the object of a contract, 0 for none
    orders,    \* every order accepted, oldest first
    seen,      \* _idempotency: the order of a client id, 0 for none
    realized,  \* _realized_pnl
    lock,      \* holder of the shard's lock, or "none"
    task,      \* where each coroutine is suspended, and its locals
    rows       \* persisted positions and realized P&L; rows.obj is the
               \* object a position was last written from or read into

bookVars == <<heap, book, orders, seen, realized, lock, task, rows>>

Ids == {o.cid : o \in Payloads} \ {NoId}
Tasks == Clients \cup {"worker"}

\* MAX_SINGLE_ORDER_QTY is half of MAX_POSITION_QTY_PER_SYMBOL.
ASSUME BookLimits == MaxSingle <= MaxPerSymbol

ASSUME BookConstants ==
    /\ IsFiniteSet(Contracts) /\ "none" \notin Contracts
    /\ Payloads \subseteq [k : Contracts, n : Int \ {0}, limit : BOOLEAN, cid : Ids \cup {NoId}]
    /\ Prices \subseteq Nat \ {0}
    /\ {MaxSingle, MaxPerSymbol, MaxOpen, Capital, Brake, ShortMargin, MaxOrders} \subseteq Nat
    /\ "worker" \notin Clients /\ "none" \notin Clients

Size(n) == IF n < 0 THEN -n ELSE n
Opposed(n, m) == (n > 0 /\ m < 0) \/ (n < 0 /\ m > 0)

Side(n) == IF n < 0 THEN -1 ELSE 1

\* The quantity carries its sign; a flat position still has a side.
Flat == [side |-> 1, qty |-> 0, avg |-> 0, ltp |-> 0, margin |-> 0]
Pos(k) == IF book[k] = 0 THEN Flat ELSE heap[book[k]]
Open == {k \in Contracts : Pos(k).qty # 0}

Idle == [pc |-> "idle", k |-> "none", n |-> 0, limit |-> FALSE, cid |-> NoId,
         real |-> 0, obj |-> 0, ord |-> 0, done |-> 0, todo |-> {}]

NoRows == [pos |-> [k \in Contracts |-> Flat], known |-> {}, real |-> 0,
           obj |-> [k \in Contracts |-> 0]]

-----------------------------------------------------------------------------
(* Margin and risk gate *)

\* Options bought cost their premium, options sold a margin per lot.
Margin(n, p) == IF n > 0 THEN p * n ELSE ShortMargin * (-n)

Used == SumFunction([k \in Contracts |-> Pos(k).margin])
Unrealized == SumFunction([k \in Contracts |-> (Pos(k).ltp - Pos(k).avg) * Pos(k).qty])
Available(real) ==
    LET free == Capital + real + Unrealized - Used IN IF free < 0 THEN 0 ELSE free

\* Fault: the holding is compared with the limit before the order is added.
RefusedLate(k, n) ==
    \/ Size(n) > MaxSingle
    \/ k \notin Open /\ Cardinality(Open) >= MaxOpen
    \/ k \in Open /\ ~Opposed(Pos(k).qty, n) /\ Size(Pos(k).qty) > MaxPerSymbol
    \/ k \notin Open /\ n > 0 /\ realized < -Brake

\* The checks before the quote is awaited.
Refused(k, n) ==
    \/ Size(n) > MaxSingle
    \/ k \notin Open /\ Cardinality(Open) >= MaxOpen
    \/ k \in Open /\ ~Opposed(Pos(k).qty, n) /\ Size(Pos(k).qty + n) > MaxPerSymbol
    \/ k \notin Open /\ n > 0 /\ realized < -Brake

\* Fault: the order is measured against the capital, not against what is left.
CoveredByCapital(k, n, p, real) == Opposed(Pos(k).qty, n) \/ Margin(n, p) <= Capital

\* The margin check, with the realized P&L read before the await.
Covered(k, n, p, real) == Opposed(Pos(k).qty, n) \/ Margin(n, p) <= Available(real)

-----------------------------------------------------------------------------
(* The fill of an order *)

Opened(n, p) ==
    [side |-> Side(n), qty |-> n, avg |-> p, ltp |-> p, margin |-> Margin(n, p)]

Added(x, n, p) ==
    [side |-> x.side, qty |-> x.qty + n, ltp |-> p, margin |-> x.margin + Margin(n, p),
     avg |-> (Size(x.qty) * x.avg + Size(n) * p) \div Size(x.qty + n)]

\* Fault: the margin of the exit order is subtracted.
ReducedByOrder(x, n, p) == [x EXCEPT !.qty = @ + n, !.ltp = p, !.margin = @ - Margin(n, p)]

\* A partial close keeps the average and releases margin pro rata.
Reduced(x, n, p) ==
    [x EXCEPT !.qty = @ + n, !.ltp = p, !.margin = (@ * Size(x.qty + n)) \div Size(x.qty)]

Closed(x, p) == [x EXCEPT !.qty = 0, !.ltp = p, !.margin = 0]

Gain(x, n, p) ==
    LET closing == IF Size(n) < Size(x.qty) THEN n ELSE -x.qty
    IN  IF Opposed(x.qty, n) THEN (x.avg - p) * closing ELSE 0

\* Fault: what an order closes beyond the position is dropped.
FillDropsResidual(k, n, p) ==
    LET x == Pos(k)
        here(y) == [heap |-> [heap EXCEPT ![book[k]] = y], at |-> book[k]]
        fresh(h, m) == [heap |-> Append(h, Opened(m, p)), at |-> Len(h) + 1]
    IN  IF x.qty = 0 THEN fresh(heap, n)
        ELSE IF ~Opposed(x.qty, n) THEN here(Added(x, n, p))
        ELSE IF Size(n) < Size(x.qty) THEN here(Reduced(x, n, p)) ELSE here(Closed(x, p))

\* The objects after a fill and the one the contract maps to: a closed
\* position stays in the dictionary, a reopened one is a new object.
Fill(k, n, p) ==
    LET x == Pos(k)
        here(y) == [heap |-> [heap EXCEPT ![book[k]] = y], at |-> book[k]]
        fresh(h, m) == [heap |-> Append(h, Opened(m, p)), at |-> Len(h) + 1]
    IN  IF x.qty = 0 THEN fresh(heap, n)
        ELSE IF ~Opposed(x.qty, n) THEN here(Added(x, n, p))
        ELSE IF Size(n) < Size(x.qty) THEN here(Reduced(x, n, p))
        ELSE IF Size(n) = Size(x.qty) THEN here(Closed(x, p))
        ELSE fresh(here(Closed(x, p)).heap, x.qty + n)

\* `of' is the order whose position leg this one is: its own, for an order
\* filled at once, none for a resting one.  `here' says whether the shard
\* lists it, `row' is the status its row has.  `torn' marks an order whose leg
\* was saved, but not its own new status, when the process died.
Order(k, n, cid, st, of) ==
    [k |-> k, n |-> n, cid |-> cid, st |-> st, of |-> of, here |-> TRUE, torn |-> FALSE,
     row |-> IF st = "PENDING" THEN "PENDING" ELSE "NONE"]

Own == Len(orders) + 1

\* A coroutine suspended in _persist_fill: the order and the position object
\* it saves, the summary as it was computed before, and the commits done.
Saving(t, k, f, gain) ==
    [t EXCEPT !.pc = "save", !.k = k, !.obj = f.at, !.ord = Own, !.real = realized + gain]

\* The fill applied to objects, dictionary and realized P&L.
Execute(q, k, n, p) ==
    LET f == Fill(k, n, p)
        gain == Gain(Pos(k), n, p)
    IN
    /\ heap' = f.heap
    /\ book' = [book EXCEPT ![k] = f.at]
    /\ realized' = realized + gain
    /\ task' = [task EXCEPT ![q] = Saving(@, k, f, gain)]

\* Fault: only a filled order is remembered under its client id.
RememberFilled(cid, st) ==
    IF cid = NoId \/ st = "PENDING" THEN seen ELSE [seen EXCEPT ![cid] = Own]

Remember(cid, st) ==
    IF cid = NoId THEN seen ELSE [seen EXCEPT ![cid] = Own]

-----------------------------------------------------------------------------
(* place_order *)

\* Fault: the lock is not waited for.
AlwaysFree == TRUE

Free == lock = "none"

\* The lock is taken and the checks before the quote pass; a client id seen
\* before gets its original order and changes nothing.
Place(q, o) ==
    /\ task[q].pc = "idle" /\ Free /\ Len(orders) < MaxOrders
    /\ o.cid # NoId => seen[o.cid] = 0
    /\ ~Refused(o.k, o.n)
    /\ lock' = q
    /\ task' = [task EXCEPT ![q] = [Idle EXCEPT !.pc = "quote", !.k = o.k, !.n = o.n,
                                        !.limit = o.limit, !.cid = o.cid, !.real = realized]]
    /\ UNCHANGED <<heap, book, orders, seen, realized, rows>>

Release(q) == lock' = "none" /\ task' = [task EXCEPT ![q] = Idle]

\* No quote, a limit too far from the market, or not enough margin.
Reject(q) ==
    /\ task[q].pc = "quote"
    /\ Release(q)
    /\ UNCHANGED <<heap, book, orders, seen, realized, rows>>

\* A limit the market has not touched rests.
Rest(q) ==
    LET t == task[q] IN
    /\ t.pc = "quote" /\ t.limit
    /\ orders' = Append(orders, Order(t.k, t.n, t.cid, "PENDING", 0))
    /\ seen' = Remember(t.cid, "PENDING")
    /\ Release(q)
    /\ UNCHANGED <<heap, book, realized, rows>>

FillNow(q, p) ==
    LET t == task[q] IN
    /\ t.pc = "quote" /\ Covered(t.k, t.n, p, t.real)
    /\ Execute(q, t.k, t.n, p)
    /\ orders' = Append(orders, Order(t.k, t.n, t.cid, "FILLED", Own))
    /\ seen' = Remember(t.cid, "FILLED")
    /\ UNCHANGED <<lock, rows>>

\* Fault: the margin of the row is left as it was.
SavedWithoutMargin(k, i) ==
    LET row == IF k \in rows.known THEN rows.pos[k] ELSE heap[i] IN
    [rows EXCEPT !.known = @ \cup {k}, !.obj[k] = i,
                 !.pos[k] = [heap[i] EXCEPT !.side = row.side, !.margin = row.margin,
                                            !.qty = row.side * Size(@)]]

\* upsert_position: the row of a contract takes everything from the position
\* object as it is now, except that a row that exists keeps its side.
Saved(k, i) ==
    LET row == IF k \in rows.known THEN rows.pos[k] ELSE heap[i] IN
    [rows EXCEPT !.known = @ \cup {k}, !.obj[k] = i,
                 !.pos[k] = [heap[i] EXCEPT !.side = row.side, !.qty = row.side * Size(@)]]

\* _persist_fill is three commits: the order, the position, the portfolio.
SaveOrder(q) ==
    LET t == task[q] IN
    /\ t.pc = "save" /\ t.done = 0
    /\ orders' = [orders EXCEPT ![t.ord].row = orders[t.ord].st]
    /\ task' = [task EXCEPT ![q].done = 1]
    /\ UNCHANGED <<heap, book, seen, realized, lock, rows>>

SavePosition(q) ==
    LET t == task[q] IN
    /\ t.pc = "save" /\ t.done = 1
    /\ rows' = Saved(t.k, t.obj)
    /\ task' = [task EXCEPT ![q].done = 2]
    /\ UNCHANGED <<heap, book, orders, seen, realized, lock>>

\* The worker goes on to save the resting order itself.
SavePortfolio(q) ==
    LET t == task[q] IN
    /\ t.pc = "save" /\ t.done = 2
    /\ rows' = [rows EXCEPT !.real = t.real]
    /\ IF q = "worker"
       THEN /\ task' = [task EXCEPT ![q] =
                          [@ EXCEPT !.pc = "mark", !.ord = orders[t.ord].of, !.done = 0]]
            /\ UNCHANGED lock
       ELSE Release(q)
    /\ UNCHANGED <<heap, book, orders, seen, realized>>

-----------------------------------------------------------------------------
(* cancel_order, square_off_position, reset_portfolio_async.  A square-off     *)
(* that raises, for want of a price or of an open session, changes nothing.   *)

Cancel(i) ==
    /\ "cancel" \in Acts /\ Free
    /\ orders[i].st = "PENDING" /\ orders[i].here
    /\ orders' = [orders EXCEPT ![i].st = "CANCELLED", ![i].row = "CANCELLED"]
    /\ UNCHANGED <<heap, book, seen, realized, lock, task, rows>>

SquareOff(q, k) ==
    /\ "squareoff" \in Acts /\ task[q].pc = "idle" /\ Free /\ k \in Open
    /\ Len(orders) < MaxOrders
    /\ lock' = q
    /\ task' = [task EXCEPT ![q] = [Idle EXCEPT !.pc = "exit", !.k = k]]
    /\ UNCHANGED <<heap, book, orders, seen, realized, rows>>

\* The live price or the last one known: the whole position goes to the order
\* path, whose answer is not looked at.
Exit(q, p) ==
    LET k == task[q].k
        n == -Pos(k).qty
    IN
    /\ task[q].pc = "exit"
    /\ IF Refused(k, n)
       THEN /\ Release(q)
            /\ heap' = [heap EXCEPT ![book[k]].ltp = p]
            /\ UNCHANGED <<book, realized, orders>>
       ELSE /\ Execute(q, k, n, p)
            /\ orders' = Append(orders, Order(k, n, NoId, "FILLED", Own))
            /\ UNCHANGED lock
    /\ UNCHANGED <<seen, rows>>

\* The list of orders is cleared, their rows stay.
Reset ==
    /\ "reset" \in Acts /\ Free
    /\ book' = [k \in Contracts |-> 0]
    /\ orders' = [i \in DOMAIN orders |-> [orders[i] EXCEPT !.here = FALSE]]
    /\ seen' = [c \in Ids |-> 0]
    /\ realized' = 0
    /\ rows' = NoRows
    /\ UNCHANGED <<heap, lock, task>>

-----------------------------------------------------------------------------
(* evaluate_pending_orders, on the worker's cadence *)

TouchStart(k) ==
    LET todo == {i \in DOMAIN orders :
                   orders[i].st = "PENDING" /\ orders[i].here /\ orders[i].k = k}
    IN
    /\ "touch" \in Acts /\ task["worker"].pc = "idle" /\ Free /\ todo # {}
    /\ task' = [task EXCEPT !["worker"] = [Idle EXCEPT !.pc = "loop", !.todo = todo]]
    /\ UNCHANGED <<heap, book, orders, seen, realized, lock, rows>>

\* The newest candidate comes first.
Candidate == Max(task["worker"].todo)

Next1 ==
    LET rest == task["worker"].todo \ {Candidate} IN
    task' = [task EXCEPT !["worker"] = IF rest = {} THEN Idle ELSE [@ EXCEPT !.todo = rest]]

TouchSkip ==
    /\ task["worker"].pc = "loop"
    /\ Next1
    /\ UNCHANGED <<heap, book, orders, seen, realized, lock, rows>>

\* Fault: the status is not read again after the lock is taken.
StillListed(i) == TRUE

StillPending(i) == orders[i].st = "PENDING"

\* The order is FILLED under the lock; its leg then goes through the order
\* path without it, up to the database, and may be rejected there.
Touch(p) ==
    LET i == Candidate
        o == orders[i]
        w == task["worker"]
        rest == w.todo \ {i}
        touched == [orders EXCEPT ![i].st = "FILLED"]
        f == Fill(o.k, o.n, p)
        gain == Gain(Pos(o.k), o.n, p)
    IN
    /\ w.pc = "loop" /\ Free /\ Len(orders) < MaxOrders
    /\ StillPending(i)
    /\ IF Refused(o.k, o.n) \/ ~Covered(o.k, o.n, p, realized)
       THEN /\ orders' = touched
            /\ task' = [task EXCEPT !["worker"] =
                          [@ EXCEPT !.pc = "mark", !.ord = i, !.todo = rest]]
            /\ UNCHANGED <<heap, book, realized>>
       ELSE /\ orders' = Append(touched, Order(o.k, o.n, NoId, "FILLED", i))
            /\ heap' = f.heap
            /\ book' = [book EXCEPT ![o.k] = f.at]
            /\ realized' = realized + gain
            /\ task' = [task EXCEPT !["worker"] =
                          [Saving(@, o.k, f, gain) EXCEPT !.todo = rest]]
    /\ UNCHANGED <<seen, lock, rows>>

\* Whatever became of the leg, the order's own row is saved after it.
SaveTouched ==
    LET w == task["worker"] IN
    /\ w.pc = "mark"
    /\ orders' = [orders EXCEPT ![w.ord].row = orders[w.ord].st]
    /\ task' = [task EXCEPT !["worker"] =
                  IF w.todo = {} THEN Idle ELSE [@ EXCEPT !.pc = "loop"]]
    /\ UNCHANGED <<heap, book, seen, realized, lock, rows>>

-----------------------------------------------------------------------------
(* Quotes, restart and the readers *)

\* get_positions: mark to market.
Mark(k, p) ==
    /\ Free /\ k \in Open /\ Pos(k).ltp # p
    /\ heap' = [heap EXCEPT ![book[k]].ltp = p]
    /\ UNCHANGED <<book, orders, seen, realized, lock, task, rows>>

\* _hydrate_shard: the objects and the dictionary after the rows are read
\* behind the objects of h.
Loaded(h) ==
    LET ids == 1..Cardinality(rows.known)
        row == CHOOSE f \in [ids -> rows.known] :
                 \A k \in rows.known : \E i \in ids : f[i] = k
    IN  [heap |-> h \o [i \in ids |-> rows.pos[row[i]]],
         book |-> [k \in Contracts |->
                     IF k \in rows.known THEN Len(h) + (CHOOSE i \in ids : row[i] = k) ELSE 0]]

\* An order after the process died: its row, if it had one, listed again or not.
Reborn(i, listed) ==
    LET o == orders[i]
        legSaved == \E j \in DOMAIN orders : j # i /\ orders[j].of = i /\ orders[j].row = "FILLED"
    IN  [o EXCEPT !.st = IF o.row = "NONE" THEN "LOST" ELSE o.row,
                  !.here = listed /\ o.row # "NONE",
                  !.torn = @ \/ (o.row = "PENDING" /\ legSaved)]

\* The process dies with whatever it had not committed and starts again.
\* hydrate_anon then reads the signal shard's positions, its portfolio and
\* its orders back; it may time out, or a query may fail.
Restart ==
    /\ "restart" \in Acts
    /\ \E positions, portfolio, list \in BOOLEAN :
         /\ portfolio => positions
         /\ positions \/ list => "touch" \in Acts
         /\ heap' = IF positions THEN Loaded(<<>>).heap ELSE <<>>
         /\ book' = IF positions THEN Loaded(<<>>).book ELSE [k \in Contracts |-> 0]
         /\ realized' = IF portfolio THEN rows.real ELSE 0
         /\ orders' = [i \in DOMAIN orders |-> Reborn(i, list)]
    /\ rows' = [rows EXCEPT !.obj = book']
    /\ seen' = [c \in Ids |-> 0]
    /\ lock' = "none"
    /\ task' = [q \in Tasks |-> Idle]

\* get_positions of a shard without positions; the portfolio's query may fail.
Hydrate ==
    /\ Free /\ \A k \in Contracts : book[k] = 0
    /\ rows.known # {}
    /\ heap' = Loaded(heap).heap
    /\ book' = Loaded(heap).book
    /\ realized' \in {realized, rows.real}
    /\ rows' = [rows EXCEPT !.obj = book']
    /\ UNCHANGED <<orders, seen, lock, task>>

BookInit ==
    /\ heap = <<>>
    /\ book = [k \in Contracts |-> 0]
    /\ orders = <<>>
    /\ seen = [c \in Ids |-> 0]
    /\ realized = 0
    /\ lock = "none"
    /\ task = [q \in Tasks |-> Idle]
    /\ rows = NoRows

BookNext ==
    \/ \E q \in Clients :
         \/ \E o \in Payloads : Place(q, o)
         \/ Reject(q) \/ Rest(q)
         \/ \E k \in Contracts : SquareOff(q, k)
         \/ \E p \in Prices : FillNow(q, p) \/ Exit(q, p)
    \/ \E q \in Tasks : SaveOrder(q) \/ SavePosition(q) \/ SavePortfolio(q)
    \/ \E i \in DOMAIN orders : Cancel(i)
    \/ Reset \/ Restart \/ Hydrate
    \/ \E k \in Contracts : TouchStart(k) \/ \E p \in Prices : Mark(k, p)
    \/ TouchSkip \/ SaveTouched \/ \E p \in Prices : Touch(p)

BookSpec == BookInit /\ [][BookNext]_bookVars

-----------------------------------------------------------------------------
(* Properties *)

\* Margin is never negative and none is locked by a flat position, whatever
\* sequence of adds, partial closes and flips led there; the lock is held by
\* exactly the request that is inside place_order or square_off_position.
BookTypeOK ==
    /\ \A i \in DOMAIN heap : heap[i].margin \in Nat /\ (heap[i].qty = 0 => heap[i].margin = 0)
    /\ book \in [Contracts -> 0..Len(heap)]
    /\ \A q \in Clients : task[q].pc \in {"quote", "exit", "save"} <=> lock = q

\* The position legs executed on a contract since the last reset.
LegsOf(k) ==
    {i \in DOMAIN orders : /\ orders[i].k = k /\ orders[i].st = "FILLED"
                           /\ orders[i].of # 0 /\ orders[i].here}

Net(k) == SumFunctionOnSet([i \in DOMAIN orders |-> orders[i].n], LegsOf(k))

\* Every position is the net of the legs in the order book: an opposite order
\* larger than the position closes it and opens the residual, and no quantity
\* is dropped by fills, square-offs and resting orders that interleave.
BookIsNetOfLegs == \A k \in Contracts : Pos(k).qty = Net(k)

\* Two orders whose quotes are awaited at the same time cannot both take the
\* last free position: the count checked before the await still holds after it.
OpenBounded == Cardinality(Open) <= MaxOpen

\* No contract is held beyond the exposure limit, through adds, flips,
\* restarts and reads that bring positions back.
ExposureBounded == \A k \in Contracts : Size(Pos(k).qty) <= MaxPerSymbol

\* A client id stands for one order, resting or filled: a resubmission returns
\* the original instead of filling twice.
OneOrderPerClientId ==
    \A i, j \in DOMAIN orders :
        /\ i # j /\ orders[i].cid # NoId /\ orders[i].cid = orders[j].cid
        /\ orders[i].here /\ orders[j].here
        => ~({orders[i].st, orders[j].st} \subseteq {"PENDING", "FILLED"})

Executed(k) == Len(orders') > Len(orders) /\ Pos(k)'.qty # Pos(k).qty

\* A fill that does not reverse a position locks no more margin than was
\* available at that moment, although the check used a realized P&L read
\* before the quote was awaited.
AddsAreCovered ==
    [][\A k \in Contracts : Executed(k) /\ ~Opposed(Pos(k).qty, Pos(k)'.qty - Pos(k).qty) =>
         Used' - Used <= Available(realized)]_bookVars

\* The legs of a resting order, but those that a crash has undone.
LegsOfResting(i) == {j \in DOMAIN orders : j # i /\ orders[j].of = i /\ orders[j].st # "LOST"}

\* "Another tick may have filled it": a cancelled order is never filled, and a
\* filled one not again, in this process or after it was read back from its
\* row; unless the process died between the saves of its leg and of its row.
RestingFillsOnce ==
    [][\A i \in DOMAIN orders :
         /\ orders[i].st = "CANCELLED" => orders'[i].st = "CANCELLED"
         /\ Len(orders') > Len(orders) /\ orders'[Len(orders')].of = i =>
              orders[i].st = "PENDING" /\ (orders[i].torn \/ LegsOfResting(i) = {})]_bookVars

BeingSaved(i) == \E q \in Tasks : task[q].pc = "save" /\ task[q].done < 2 /\ task[q].obj = i

\* What a restart reads back is the position: while its object is the one the
\* row was last written from or read into, and no save of it is under way, the
\* row has its size, average price and margin.  (The direction may be another:
\* a row keeps the side it was inserted with.)
RowsFollowBook ==
    \A k \in Contracts :
        book[k] # 0 /\ rows.obj[k] = book[k] /\ ~BeingSaved(book[k]) =>
            /\ Size(rows.pos[k].qty) = Size(Pos(k).qty)
            /\ rows.pos[k].avg = Pos(k).avg /\ rows.pos[k].margin = Pos(k).margin
=============================================================================
