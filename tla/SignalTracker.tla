---------------------------- MODULE SignalTracker ----------------------------
(***************************************************************************)
(* The life of a signal's trade: SignalOutcomeTracker's asynchronous tick, *)
(* SignalPaperEngine (execute_signal, close_signal_position), the fill     *)
(* reconciler, the audit ledger, the worker's end-of-day square-off and    *)
(* the desk's requests, over the state machine of SignalFSM.               *)
(*                                                                         *)
(* Everything runs on one event loop, so the code between two awaits that  *)
(* really suspend is one action.  The risk loop is the task "tick", the    *)
(* square-off the task "eod", each member of Requests an HTTP request.     *)
(* Quantities are lots.  The paper service is external here: an order      *)
(* fills, is rejected or is left pending by choice.  The in-memory cap on  *)
(* signals is not reached (MaxSignals >= Cardinality(Signals)).            *)
(***************************************************************************)
EXTENDS SignalFSM

CONSTANTS
    Symbol,    \* [Signals -> symbols]: the option contract of a signal
    Requests,  \* concurrent HTTP requests
    Acts,      \* request kinds of the run, of "execute", "delete", "squareoff", "sync"
    TickLots,  \* lots the tracker trades
    Lots,      \* lots a desk request may ask for
    Degraded   \* values of fno_data_degraded at birth

VARIABLES
    pos,     \* paper_service position per symbol, negative when short
    recon,   \* option_fill_reconciler._records
    audit,   \* status of signal_audit_ledger._trades
    mirror,  \* events published on the bus, not yet handled by the audit handler
    intent,  \* a signal's entry intent in the intent ledger
    bought,  \* lots bought for a signal in the order book
    sold,    \* lots sold for a signal in the order book
    orphan,  \* the object of a deleted signal, which tasks may still hold
    task,    \* where each task is suspended, and its locals
    opened   \* SignalWorker._last_market_open is not False

books == <<pos, recon, audit, mirror, intent, bought, sold, orphan>>
trackerVars == <<vars, books, task, opened>>

ASSUME TrackerConstants ==
    /\ Degraded \subseteq BOOLEAN
    /\ TickLots \in Nat \ {0} /\ Lots \subseteq Nat \ {0}
    /\ MaxSignals >= Cardinality(Signals)
    /\ Requests \cap {"tick", "eod"} = {}

Tasks == {"tick", "eod"} \cup Requests
Settled == {"WON", "CLOSED"}   \* "WON": squared off, as WON, LOST or CLOSED; voiding is not modelled

Idle == [pc |-> "idle", op |-> "none", todo |-> {}, s |-> "none", act |-> "none",
         was |-> "none", mark |-> FALSE, n |-> 0, part |-> FALSE, p |-> 0]

\* Where a task goes after a signal: the next one of its loop, or nowhere.
After(q) ==
    LET rest == task[q].todo \ {task[q].s} IN
    IF rest = {} THEN Idle
    ELSE [Idle EXCEPT !.pc = "loop", !.op = task[q].op, !.todo = rest, !.p = task[q].p]

At(q, pc) == task[q].pc = pc

-----------------------------------------------------------------------------
(* Everything a task holds about one signal, and what the components it    *)
(* calls do to it before the next await.                                   *)

World(s) == [r |-> IF Here(s) THEN sigs[s] ELSE orphan[s], in |-> Here(s),
             rc |-> recon[s], au |-> audit[s], ev |-> {}]

\* `in': the signal is in the manager's dictionary; transition() looks it up
\* there, while a suspended task goes on with the object it holds.
Commit(s, w) ==
    /\ sigs' = [sigs EXCEPT ![s] = IF w.in THEN w.r ELSE Absent]
    /\ orphan' = [orphan EXCEPT ![s] = IF w.in THEN @ ELSE w.r]
    /\ retired' = IF w.in THEN retired ELSE retired \cup {s}
    /\ recon' = [recon EXCEPT ![s] = w.rc]
    /\ audit' = [audit EXCEPT ![s] = w.au]
    /\ mirror' = mirror \cup w.ev
    /\ intents' = intents \cup {e \in w.ev : e.state \in Terminal}
    /\ UNCHANGED now

\* signal_fsm.transition: refused moves and self-loops change nothing.
Go(s, w, to) ==
    IF w.in /\ Legal(w.r, to)
    THEN [w EXCEPT !.r = Moved(s, @, to, now),
                   !.ev = @ \cup {[sig |-> s, ver |-> w.r.ver + 1, state |-> to]}]
    ELSE w

\* reconcile_entry starts a fresh record.
BookEntry(w, n) ==
    [w EXCEPT !.rc = [qty |-> n, rem |-> n, t1 |-> 0, fin |-> 0, done |-> FALSE],
              !.r.paper = TRUE, !.r.rem = n]

T1Lots(n) == IF n > 1 THEN n \div 2 ELSE 1

\* Fault: the staged quantity is rounded up and not capped.
BookT1Up(w) ==
    LET n == T1Lots(w.rc.qty) + 1 IN
    [w EXCEPT !.rc.t1 = @ + n, !.rc.rem = @ - n, !.r.rem = w.rc.rem - n]

BookT1(w) ==
    LET n == IF T1Lots(w.rc.qty) > w.rc.rem THEN w.rc.rem ELSE T1Lots(w.rc.qty) IN
    [w EXCEPT !.rc.t1 = @ + n, !.rc.rem = @ - n, !.r.rem = w.rc.rem - n]

\* Fault: the final leg books the whole trade, not what T1 left of it.
BookFinalWhole(w) ==
    [w EXCEPT !.rc.fin = w.rc.qty, !.rc.rem = 0, !.rc.done = TRUE, !.r.rem = 0]

BookFinal(w) ==
    [w EXCEPT !.rc.fin = @ + w.rc.rem, !.rc.rem = 0, !.rc.done = TRUE, !.r.rem = 0]

\* record_square_off: nothing without a record or once settled; the residual
\* leg of the reconciliation is finished first, if the signal is still there.
SquareOff(w) ==
    IF w.au \in Settled \cup {"NONE"} THEN w
    ELSE [(IF w.in /\ w.rc.qty > 0 /\ ~w.rc.done THEN BookFinal(w) ELSE w) EXCEPT !.au = "WON"]

\* record_state_transition, also the audit handler of a transition event.
\* Fault: the settled guard is dropped.
MirroredAlways(au, state) == IF au = "NONE" THEN au ELSE state

Mirrored(au, state) ==
    IF au \in Settled \cup {"NONE"} \/ (au = "EXECUTED" /\ state = "CONFIRMED")
    THEN au ELSE state

-----------------------------------------------------------------------------
(* What the caller of close_signal_position does with its result, which is *)
(* "none", "fail" (the exit order did not fill) or "ok".                   *)

\* Fault: the terminal state is written although the exit did not fill.
TickFinishAlways(s, t, w, res) == IF t.act = "TARGET_1_HIT" THEN w ELSE Go(s, w, t.act)

TickFinish(s, t, w, res) ==
    IF t.act = "TARGET_1_HIT" \/ res # "ok" THEN w
    ELSE LET booked == IF t.mark THEN BookFinal(w) ELSE w
             moved  == Go(s, booked, t.act)
             kept   == [moved EXCEPT !.au = IF @ = "NONE" THEN "ARMED" ELSE @]
         IN  IF t.mark THEN SquareOff(kept) ELSE kept

\* The tombstone, which the purge of the persisted row takes out of the
\* dictionary at once, and the end of the audit record.  The event's handler
\* purges once more.
Buried(s, w) ==
    [w EXCEPT !.r = IF w.in THEN Tombstoned(@, now) ELSE @, !.in = FALSE, !.au = "NONE",
              !.ev = IF w.in \/ w.au # "NONE"
                     THEN @ \cup {[sig |-> s, ver |-> 0, state |-> "DELETED"]} ELSE @]

Finish(t, w, res) ==
    CASE t.op = "tick"   -> TickFinish(t.s, t, w, res)
      [] t.op = "eod"    -> IF res = "ok" THEN Go(t.s, w, "CLOSED") ELSE w
      [] t.op = "delete" -> Buried(t.s, w)

\* close_signal_position up to its first await: close-once on a settled record.
StartClose(q, t, w) ==
    IF w.in /\ w.r.paper /\ w.au \notin Settled
    THEN Commit(t.s, w) /\ task' = [task EXCEPT ![q] = [t EXCEPT !.pc = "snap"]]
    ELSE /\ Commit(t.s, Finish(t, w, IF w.in /\ w.r.paper THEN "ok" ELSE "none"))
         /\ task' = [task EXCEPT ![q] = After(q)]

\* After the exit: T1 of a larger position is partial, all else is settled.
Recorded(t, w) ==
    IF t.part THEN [w EXCEPT !.au = Mirrored(@, "TARGET_1_HIT")] ELSE SquareOff(w)

RecordedResult(w) == IF w.au = "NONE" THEN "none" ELSE "ok"

Size(k) == IF pos[k] < 0 THEN -pos[k] ELSE pos[k]

\* The locked snapshot: the exit order's quantity, or the audit-only path.
CloseSnap(q) ==
    LET t == task[q]
        k == Symbol[t.s]
        n == IF t.n # 0 /\ t.n <= Size(k) THEN t.n ELSE Size(k)
        u == [t EXCEPT !.part = (t.act = "TARGET_1_HIT" /\ t.n # 0 /\ t.n < bought[t.s])]
    IN
    /\ At(q, "snap")
    /\ IF pos[k] # 0
       THEN /\ task' = [task EXCEPT ![q].pc = "exit",
                            ![q].n = IF pos[k] > 0 THEN n ELSE -n,
                            ![q].part = (t.act = "TARGET_1_HIT" /\ n < Size(k))]
            /\ UNCHANGED <<vars, recon, audit, mirror, orphan>>
       ELSE LET w == Recorded(u, World(t.s)) IN
            /\ Commit(t.s, Finish(u, w, RecordedResult(w)))
            /\ task' = [task EXCEPT ![q] = After(q)]
    /\ UNCHANGED <<pos, intent, bought, sold, opened>>

\* The exit order fills against whatever the position has become.
ExitFill(q) ==
    LET t == task[q]
        w == Recorded(t, World(t.s))
    IN
    /\ At(q, "exit")
    /\ SessionOpen(now) \/ t.op \in {"eod", "delete"}
    /\ pos' = [pos EXCEPT ![Symbol[t.s]] = @ - t.n]
    /\ sold' = [sold EXCEPT ![t.s] = @ + t.n]
    /\ Commit(t.s, Finish(t, w, RecordedResult(w)))
    /\ task' = [task EXCEPT ![q] = After(q)]
    /\ UNCHANGED <<intent, bought, opened>>

ExitReject(q) ==
    /\ At(q, "exit")
    /\ Commit(task[q].s, Finish(task[q], World(task[q].s), "fail"))
    /\ task' = [task EXCEPT ![q] = After(q)]
    /\ UNCHANGED <<pos, intent, bought, sold, opened>>

-----------------------------------------------------------------------------
(* process_price_update_async *)

\* sweep_expired as every reader runs it: the transitions are published.
SweepNow == Sweep /\ mirror' = mirror \cup SweepIntents(sigs, now)

TickStart(p) ==
    /\ At("tick", "idle") /\ SessionOpen(now)
    /\ SweepNow
    /\ LET present == {s \in Signals : Here(s)} IN
       task' = [task EXCEPT !["tick"] =
                  IF present = {} THEN Idle
                  ELSE [Idle EXCEPT !.pc = "loop", !.op = "tick", !.todo = present, !.p = p]]
    /\ opened' = TRUE
    /\ UNCHANGED <<pos, recon, audit, intent, bought, sold, orphan>>

\* Fault: a sweep-pre-empted trade is skipped like every terminal signal.
NeverPreEmpted(r) == FALSE

PreEmpted(r) == r.st \in {"RUNNER_TIME_STOP_HIT", "TIME_STOP_HIT"} /\ r.paper /\ r.rem > 0

FullyBooked(r) == r.st = "TARGET_1_HIT" /\ r.paper /\ r.rem = 0

Triggered(s) == sigs[s].st \in {"VALIDATED", "ARMED"}
                  /\ Reached(s, task["tick"].p, Level[s].entry)

\* The action of this tick for a signal that is neither triggered nor booked.
Action(s) ==
    LET r == sigs[s] IN
    IF PreEmpted(r) THEN r.st
    ELSE IF r.st \in {"CONFIRMED", "TARGET_1_HIT"} THEN Verdict(s, r, task["tick"].p, now)
    ELSE "HOLD"

Visit(q, s) == At(q, "loop") /\ s \in task[q].todo

Skip(q, s) ==
    LET rest == task[q].todo \ {s} IN
    /\ task' = [task EXCEPT ![q] = IF rest = {} THEN Idle ELSE [@ EXCEPT !.todo = rest]]
    /\ UNCHANGED <<vars, books, opened>>

TickSkip(s) ==
    /\ Visit("tick", s)
    /\ ~Triggered(s) /\ ~FullyBooked(sigs[s]) /\ Action(s) = "HOLD"
    /\ Skip("tick", s)

Locals(q, s) == [task[q] EXCEPT !.s = s, !.was = sigs[s].st]
\* The task record after s is done, when s has only just been picked.
Next1(q, s) ==
    LET rest == task[q].todo \ {s} IN
    IF rest = {} THEN Idle ELSE [task[q] EXCEPT !.todo = rest]

\* TRIGGERED is refused only for degraded data, which invalidates the signal.
TickTrigger(s) ==
    LET w == Go(s, World(s), "TRIGGERED") IN
    /\ Visit("tick", s) /\ Triggered(s)
    /\ IF w.r.st = "TRIGGERED"
       THEN /\ Commit(s, w)
            /\ task' = [task EXCEPT !["tick"] = [Locals("tick", s) EXCEPT !.pc = "gate", !.n = TickLots]]
       ELSE /\ Commit(s, Go(s, w, "INVALIDATED"))
            /\ task' = [task EXCEPT !["tick"] = Next1("tick", s)]
    /\ UNCHANGED <<pos, intent, bought, sold, opened>>

TickBooked(s) ==
    /\ Visit("tick", s) /\ FullyBooked(sigs[s])
    /\ Commit(s, Go(s, World(s), "CLOSED"))
    /\ task' = [task EXCEPT !["tick"] = Next1("tick", s)]
    /\ UNCHANGED <<pos, intent, bought, sold, opened>>

TickAct(s) ==
    /\ Visit("tick", s) /\ ~FullyBooked(sigs[s]) /\ Action(s) # "HOLD"
    /\ task' = [task EXCEPT !["tick"] = [Locals("tick", s) EXCEPT !.pc = "mark", !.act = Action(s)]]
    /\ UNCHANGED <<vars, books, opened>>

\* The broker mark came back, or did not.
TickRatchet ==
    LET t == task["tick"] IN
    /\ At("tick", "mark") /\ t.act = "BE"
    /\ IF CanRatchet(t.s, t.p) THEN Ratchet(t.s, t.p) ELSE UNCHANGED vars
    /\ task' = [task EXCEPT !["tick"] = After("tick")]
    /\ UNCHANGED <<books, opened>>

TickTarget1(mark) ==
    LET t == task["tick"]
        w == Go(t.s, World(t.s), "TARGET_1_HIT")
        b == BookT1(w)
    IN
    /\ At("tick", "mark") /\ t.act = "TARGET_1_HIT" /\ t.was = "CONFIRMED"
    /\ IF mark
       THEN StartClose("tick", [t EXCEPT !.n = T1Lots(b.rc.qty)], b)
       ELSE Commit(t.s, w) /\ task' = [task EXCEPT !["tick"] = After("tick")]
    /\ UNCHANGED <<pos, intent, bought, sold, opened>>

TickFinal(mark) ==
    LET t == task["tick"] IN
    /\ At("tick", "mark") /\ t.act \in Terminal
    /\ StartClose("tick", [t EXCEPT !.mark = mark], World(t.s))
    /\ UNCHANGED <<pos, intent, bought, sold, opened>>

-----------------------------------------------------------------------------
(* execute_signal, called by the tick and by a request *)

ExecFailed(q) ==
    LET t == task[q] IN
    /\ Commit(t.s, IF t.op = "tick" THEN Go(t.s, World(t.s), "INVALIDATED") ELSE World(t.s))
    /\ task' = [task EXCEPT ![q] = After(q)]

\* Session, sizing, mark, funds, guard or duplicate: refused before an order.
ExecRefuse(q) ==
    /\ At(q, "gate")
    /\ ExecFailed(q)
    /\ UNCHANGED <<pos, intent, bought, sold, opened>>

\* Guard check 13: the signal's intent id, which includes the quantity.
\* Fault: the ownership check is dropped.
OwnsAny(s, n) == TRUE

Owns(s, n) == intent[s].n \in {0, n}

\* The duplicate check and the execution guard pass; the order goes out.  The
\* ledger keeps the intent it knows: one rejected before stays rejected.
ExecSubmit(q) ==
    LET t == task[q]
        r == World(t.s).r
    IN
    /\ At(q, "gate") /\ SessionOpen(now)
    /\ Owns(t.s, t.n)
    /\ intent[t.s].n = t.n => intent[t.s].st \notin {"SUBMITTED", "FILLED"}
    /\ r.st \in {"ARMED", "TRIGGERED", "CONFIRMED"}
    /\ ~(r.st = "ARMED" /\ now > r.exp)
    /\ intent' = [intent EXCEPT ![t.s] =
                     IF @.st = "REJECTED" THEN @ ELSE [n |-> t.n, st |-> "SUBMITTED"]]
    /\ task' = [task EXCEPT ![q].pc = "order"]
    /\ UNCHANGED <<vars, pos, recon, audit, mirror, bought, sold, orphan, opened>>

\* A filled intent is replayed as the original success; the tick reconciles
\* the entry again.
ExecReplay(q) ==
    LET t == task[q] IN
    /\ At(q, "gate") /\ SessionOpen(now)
    /\ intent[t.s] = [n |-> t.n, st |-> "FILLED"]
    /\ Commit(t.s, IF t.op = "tick"
                   THEN BookEntry(Go(t.s, World(t.s), "CONFIRMED"), t.n) ELSE World(t.s))
    /\ task' = [task EXCEPT ![q] = After(q)]
    /\ UNCHANGED <<pos, intent, bought, sold, opened>>

\* The fill is recorded whatever became of the signal during the order; the
\* state machine follows where its table lets it.  After a rejected intent the
\* paper service replays the order it remembers, whose fill was rolled back.
ExecFill(q) ==
    LET t == task[q]
        s == t.s
        n == IF intent[s].st = "REJECTED" THEN 0 ELSE t.n
        w == BookEntry(World(s), t.n)
        v == IF w.r.st \in PreTrigger THEN Go(s, w, "TRIGGERED") ELSE w
        u == IF v.r.st = "TRIGGERED" THEN Go(s, v, "CONFIRMED") ELSE v
    IN
    /\ At(q, "order")
    /\ pos' = [pos EXCEPT ![Symbol[s]] = @ + n]
    /\ bought' = [bought EXCEPT ![s] = @ + n]
    /\ intent' = [intent EXCEPT ![s].st = IF @ = "REJECTED" THEN @ ELSE "FILLED"]
    /\ Commit(s, [u EXCEPT !.au = "EXECUTED"])
    /\ task' = [task EXCEPT ![q] = After(q)]
    /\ UNCHANGED <<sold, opened>>

\* A rejected order leaves the intent SUBMITTED: later attempts are duplicates.
ExecReject(q) ==
    /\ At(q, "order") /\ intent[task[q].s].st # "REJECTED"
    /\ ExecFailed(q)
    /\ UNCHANGED <<pos, intent, bought, sold, opened>>

\* A fill priced off the contract's domain: the position is squared off again.
ExecOffDomain(q) ==
    /\ At(q, "order")
    /\ pos' = [pos EXCEPT ![Symbol[task[q].s]] = 0]
    /\ intent' = [intent EXCEPT ![task[q].s].st = "REJECTED"]
    /\ ExecFailed(q)
    /\ UNCHANGED <<bought, sold, opened>>

-----------------------------------------------------------------------------
(* Requests of the desk *)

RequestExecute(q, s, n) ==
    /\ "execute" \in Acts /\ At(q, "idle") /\ Here(s) /\ SessionOpen(now)
    /\ task' = [task EXCEPT ![q] = [Idle EXCEPT !.pc = "gate", !.op = "execute", !.s = s, !.n = n]]
    /\ UNCHANGED <<vars, books, opened>>

\* _delete_signal_core: a square-off first, but only in these audit statuses.
RequestDelete(q, s) ==
    LET t == [Idle EXCEPT !.op = "delete", !.s = s, !.act = "DELETED_BY_USER"] IN
    /\ "delete" \in Acts /\ At(q, "idle")
    /\ Here(s) \/ audit[s] # "NONE"
    /\ IF audit[s] \in {"ARMED", "CONFIRMED", "EXECUTED"}
       THEN StartClose(q, t, World(s))
       ELSE Commit(s, Buried(s, World(s))) /\ UNCHANGED task
    /\ UNCHANGED <<pos, intent, bought, sold, opened>>

\* The paper desk flattens a position; no signal hears of it.
SquareOffDesk(k) ==
    /\ "squareoff" \in Acts /\ pos[k] # 0
    /\ pos' = [pos EXCEPT ![k] = 0]
    /\ UNCHANGED <<vars, recon, audit, mirror, intent, bought, sold, orphan, task, opened>>

\* The ledger endpoint: sync_with_fsm, then sync_with_paper_service.
SyncAudit ==
    LET filled == [s \in Signals |->
                     IF ~Here(s) \/ audit[s] # "NONE" THEN audit[s]
                     ELSE IF sigs[s].paper THEN "EXECUTED"
                     ELSE IF sigs[s].st = "CONFIRMED" THEN "CONFIRMED" ELSE "ARMED"]
        open(k) == {s \in Signals : Symbol[s] = k /\ filled[s] \in
                      {"CONFIRMED", "EXECUTED", "TRIGGERED", "TARGET_1_HIT"}}
    IN
    /\ "sync" \in Acts
    /\ audit' = [s \in Signals |->
                   IF pos[Symbol[s]] # 0 /\ open(Symbol[s]) = {s} THEN "EXECUTED" ELSE filled[s]]
    /\ audit' # audit
    /\ UNCHANGED <<vars, pos, recon, mirror, intent, bought, sold, orphan, task, opened>>

-----------------------------------------------------------------------------
(* End-of-day square-off, event bus, readers, births, clock *)

\* The closing edge of the session: sweep, then the square-off in background.
SessionClosed ==
    LET present == {s \in Signals : Here(s)} IN
    /\ opened /\ ~SessionOpen(now) /\ At("tick", "idle") /\ At("eod", "idle")
    /\ SweepNow
    /\ opened' = FALSE
    /\ task' = [task EXCEPT !["eod"] =
                  IF present = {} THEN Idle
                  ELSE [Idle EXCEPT !.pc = "loop", !.op = "eod", !.todo = present]]
    /\ UNCHANGED <<pos, recon, audit, intent, bought, sold, orphan>>

EodOpen(r) ==
    r.st \in {"CONFIRMED", "TARGET_1_HIT", "RUNNER_TIME_STOP_HIT", "TIME_STOP_HIT"} /\ r.paper

EodVisit(s) ==
    /\ Visit("eod", s)
    /\ IF EodOpen(sigs[s])
       THEN /\ StartClose("eod", [Locals("eod", s) EXCEPT !.act = "EOD_SQUAREOFF"], World(s))
            /\ UNCHANGED <<pos, intent, bought, sold, opened>>
       ELSE Skip("eod", s)

\* An event reaches the audit handler; the handlers before it await, so
\* events of different transitions arrive in any order.
Deliver(e) ==
    /\ e \in mirror
    /\ mirror' = mirror \ {e}
    /\ audit' = [audit EXCEPT ![e.sig] =
                   IF e.state = "DELETED" THEN "NONE" ELSE Mirrored(@, e.state)]
    /\ UNCHANGED <<vars, pos, recon, intent, bought, sold, orphan, task, opened>>

\* Any list of signals is read.
Read == SweepNow /\ UNCHANGED <<pos, recon, audit, intent, bought, sold, orphan, task, opened>>

\* A new signal, with the audit record its factory creates.
Born(s, birth, degraded) ==
    /\ Register(s, birth, degraded)
    /\ audit' = [audit EXCEPT ![s] = "ARMED"]
    /\ UNCHANGED <<pos, recon, mirror, intent, bought, sold, orphan, task, opened>>

Wait == ClockTick /\ UNCHANGED <<books, task, opened>>

TrackerInit ==
    /\ Init
    /\ pos = [k \in {Symbol[s] : s \in Signals} |-> 0]
    /\ recon = [s \in Signals |-> [qty |-> 0, rem |-> 0, t1 |-> 0, fin |-> 0, done |-> FALSE]]
    /\ audit = [s \in Signals |-> "NONE"]
    /\ mirror = {}
    /\ intent = [s \in Signals |-> [n |-> 0, st |-> "NONE"]]
    /\ bought = [s \in Signals |-> 0]
    /\ sold = [s \in Signals |-> 0]
    /\ orphan = [s \in Signals |-> Absent]
    /\ task = [q \in Tasks |-> Idle]
    /\ opened = TRUE

Tick ==
    \/ \E p \in Prices : TickStart(p)
    \/ \E s \in Signals : TickSkip(s) \/ TickTrigger(s) \/ TickBooked(s) \/ TickAct(s)
    \/ TickRatchet
    \/ \E mark \in BOOLEAN : TickTarget1(mark) \/ TickFinal(mark)

Execute(q) ==
    \/ ExecRefuse(q) \/ ExecSubmit(q) \/ ExecReplay(q)
    \/ ExecFill(q) \/ ExecReject(q) \/ ExecOffDomain(q)

Close(q) == CloseSnap(q) \/ ExitFill(q) \/ ExitReject(q)

Desk ==
    \/ \E q \in Requests, s \in Signals :
         RequestDelete(q, s) \/ \E n \in Lots : RequestExecute(q, s, n)
    \/ \E k \in DOMAIN pos : SquareOffDesk(k)
    \/ SyncAudit

TrackerNext ==
    \/ Tick
    \/ \E q \in Tasks : Execute(q) \/ Close(q)
    \/ Desk
    \/ SessionClosed \/ (\E s \in Signals : EodVisit(s))
    \/ \E e \in mirror : Deliver(e)
    \/ Read \/ Wait
    \/ \E s \in Signals, birth \in Births, degraded \in Degraded : Born(s, birth, degraded)

TrackerSpec == TrackerInit /\ [][TrackerNext]_trackerVars

\* The loops run on, a suspended task resumes, the clock advances, and an exit
\* that is retried for ever fills in the end.
TrackerFairSpec ==
    /\ TrackerSpec
    /\ WF_trackerVars(Tick) /\ WF_trackerVars(Wait)
    /\ \A q \in Tasks : WF_trackerVars(Execute(q)) /\ WF_trackerVars(Close(q))
    /\ SF_trackerVars(ExitFill("tick"))

-----------------------------------------------------------------------------
(* Properties *)

Statuses == States \cup Settled \cup {"NONE", "EXECUTED"}

\* Every variable of the trade's life stays in its domain; an exit is never
\* recorded for more than the clocks, books and tasks allow.
TrackerTypeOK ==
    /\ TypeOK
    /\ \A k \in DOMAIN pos : pos[k] \in Int
    /\ \A s \in Signals :
         /\ recon[s] \in [qty : Nat, rem : Nat, t1 : Nat, fin : Nat, done : BOOLEAN]
         /\ audit[s] \in Statuses
         /\ intent[s].st \in {"NONE", "SUBMITTED", "FILLED", "REJECTED"}

\* An off-domain fill of the signal was rolled back.  Executed again it books the
\* remembered fill without buying, as often as it is asked to.
RolledBack(s) == intent[s].st = "REJECTED"

\* The entry the reconciler holds is exactly what the order book bought for the
\* signal: ticks and requests that race to execute it buy it once.
EntriesReconciled == \A s \in Signals : ~RolledBack(s) => recon[s].qty = bought[s]

\* The three copies of a trade's residual quantity agree: what the signal
\* carries, what the reconciler carries, and the entry less the booked legs.
ResidualsAgree ==
    \A s \in Signals : /\ Here(s) => sigs[s].rem = recon[s].rem
                       /\ recon[s].t1 + recon[s].fin + recon[s].rem = recon[s].qty

\* "Settle first, then write the terminal state": a signal stopped out or at
\* its second target has a settled audit record (or one deleted since).
TargetIsSettled ==
    \A s \in Signals : sigs[s].st \in {"TARGET_2_HIT", "STOP_LOSS_HIT"} /\ ~RolledBack(s) =>
        audit[s] \in Settled \cup {"NONE"}

\* A settled audit record is final whatever arrives afterwards: late bus
\* events, a second close, a sync; only a deletion removes it.
SettledIsFinal ==
    [][\A s \in Signals : audit[s] \in Settled =>
         audit'[s] \in {audit[s], "NONE"}]_trackerVars

\* An open trade is settled: by its exits, by its clocks, by the square-off at
\* the close or, when that did not fill, by the ticks of the next session.
OpenTradeSettles ==
    \A s \in Signals : (EodOpen(sigs[s]) /\ now + DayLen <= MaxTime) ~> sigs[s].rem = 0

\* "A terminal signal with an open position is structurally impossible": in a
\* state no loop settles any more, nothing is left of the trade.
TerminalIsFlat ==
    \A s \in Signals : sigs[s].st \in {"EXPIRED", "INVALIDATED", "CLOSED", "TARGET_2_HIT", "STOP_LOSS_HIT"} =>
        sigs[s].rem = 0

\* Close-once: the exits of a long position never turn it into a short one.
NeverShort == \A k \in DOMAIN pos : pos[k] >= 0
=============================================================================
