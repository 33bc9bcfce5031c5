------------------------------ MODULE SignalFSM ------------------------------
(***************************************************************************)
(* The signal state machine of signals/fsm.py: apply_fsm_transition_pure,  *)
(* SignalFSMManager (register, transition, delete, sweep_expired with its  *)
(* pruning, ratchet_breakeven) and the tick evaluation.                    *)
(*                                                                         *)
(* Prices are integers in ticks of 0.05, the breakeven trigger is 0.8 R    *)
(* beyond the entry.  Time is one counter: day Day(t) holds the instants   *)
(* DayLen*Day(t) .. DayLen*Day(t) + DayLen - 1, and the session is open    *)
(* during the first CloseAt of them.  A signal absent from the manager's   *)
(* dictionary has the record Absent.  `paper' stands for the two fields    *)
(* the paper engine sets together, paper_order and actual_fill_price.      *)
(***************************************************************************)
EXTENDS Integers, FiniteSets

CONSTANTS
    Signals,      \* signal ids (uuid4: an id is never registered twice)
    Dir,          \* [Signals -> {"LONG_CALL", "LONG_PUT"}]
    Level,        \* [Signals -> [entry, stop, t1, t2, cost : Int]]
    Prices,       \* underlying prices of the ticks
    Births,       \* fsm_state values a signal is constructed with
    Qty,          \* quantity of a paper entry fill
    DayLen, CloseAt,                      \* session calendar
    Ttl, TimeStop, RunnerTtl, RunnerMax,  \* the clocks of a signal
    MaxSignals,   \* FSM_MAX_SIGNALS_IN_MEMORY
    MaxTime,      \* bound on the clock
    MaxVersion    \* bound on a signal's version

VARIABLES
    sigs,     \* SignalFSMManager._signals
    intents,  \* settlement intents in the intent ledger
    retired,  \* ids that left the dictionary by pruning
    now       \* wall clock

vars == <<sigs, intents, retired, now>>

-----------------------------------------------------------------------------
(* States and the transition table *)

PreTrigger == {"DETECTED", "VALIDATED", "ARMED"}
Terminal == {"TARGET_2_HIT", "STOP_LOSS_HIT", "TIME_STOP_HIT",
             "RUNNER_TIME_STOP_HIT", "INVALIDATED", "EXPIRED", "CLOSED"}
States == PreTrigger \cup Terminal
            \cup {"PRE_ARMED", "TRIGGERED", "CONFIRMED", "TARGET_1_HIT"}

AllowedTransitions ==
    [DETECTED  |-> {"PRE_ARMED", "VALIDATED", "ARMED", "INVALIDATED", "EXPIRED"},
     PRE_ARMED |-> {"ARMED", "TRIGGERED", "VALIDATED", "EXPIRED", "INVALIDATED", "CLOSED"},
     VALIDATED |-> {"PRE_ARMED", "ARMED", "TRIGGERED", "INVALIDATED", "EXPIRED"},
     ARMED     |-> {"TRIGGERED", "EXPIRED", "INVALIDATED"},
     TRIGGERED |-> {"CONFIRMED", "INVALIDATED", "EXPIRED"},
     CONFIRMED |-> {"TARGET_1_HIT", "TARGET_2_HIT", "STOP_LOSS_HIT", "TIME_STOP_HIT",
                    "INVALIDATED", "EXPIRED", "CLOSED"},
     TARGET_1_HIT |-> {"TARGET_2_HIT", "STOP_LOSS_HIT", "RUNNER_TIME_STOP_HIT", "CLOSED"},
     TARGET_2_HIT |-> {"CLOSED"}, STOP_LOSS_HIT |-> {"CLOSED"},
     TIME_STOP_HIT |-> {"CLOSED"}, RUNNER_TIME_STOP_HIT |-> {"CLOSED"},
     INVALIDATED |-> {"CLOSED"}, EXPIRED |-> {"CLOSED"}, CLOSED |-> {}]

NoTime == -1
Times == {NoTime} \cup Nat

SignalRecord ==
    [st : States \cup {"ABSENT"}, ver : Nat, born : Times, exp : Times, upd : Times,
     tstop : Times, rstop : Times, t1At : Times, sl : Int, be : BOOLEAN,
     paper : BOOLEAN, rem : Nat, fno : BOOLEAN, hist : States \cup {"ABSENT"}]

Absent == [st |-> "ABSENT", ver |-> 0, born |-> NoTime, exp |-> NoTime, upd |-> NoTime,
           tstop |-> NoTime, rstop |-> NoTime, t1At |-> NoTime, sl |-> 0, be |-> FALSE,
           paper |-> FALSE, rem |-> 0, fno |-> FALSE, hist |-> "ABSENT"]

Here(s) == sigs[s].st # "ABSENT"

\* A clock that was never set does not run out.
Passed(clock, t) == clock # NoTime /\ t > clock

-----------------------------------------------------------------------------
(* Session calendar *)

Day(t) == t \div DayLen
SessionOpen(t) == t % DayLen < CloseAt

-----------------------------------------------------------------------------
(* Direction-aware prices *)

Directions == {"LONG_CALL", "LONG_PUT"}

ASSUME ConstantTypes ==
    /\ Dir \in [Signals -> Directions]
    /\ Level \in [Signals -> [entry : Int, stop : Int, t1 : Int, t2 : Int, cost : Int]]
    /\ Prices \subseteq Int
    /\ Births \subseteq {"DETECTED", "VALIDATED", "ARMED"}
    /\ {Qty, DayLen, CloseAt, Ttl, TimeStop, RunnerTtl, RunnerMax} \subseteq Nat
    /\ DayLen > 0

Reached(s, p, q) == IF Dir[s] = "LONG_CALL" THEN p >= q ELSE p <= q
Beyond(s, p, q) == Reached(s, p, q) /\ p # q
Ticks(s, n) == IF Dir[s] = "LONG_CALL" THEN n ELSE -n
Tighter(s, p, q) == IF Reached(s, p, q) THEN p ELSE q

\* The cost reference of _spot_be_reference, a price of the entry zone or a
\* fill next to it, lies on the profit side of the stop.
ASSUME CostBeyondStop ==
    \A s \in Signals : Beyond(s, Level[s].cost, Level[s].stop)

\* register: breakeven_trigger_price, 0.8 R beyond the entry, or 1.0 without
\* risk; the first tick that reaches it.
BreakevenTrigger(s) ==
    LET risk == IF Level[s].entry >= Level[s].stop
                THEN Level[s].entry - Level[s].stop
                ELSE Level[s].stop - Level[s].entry
    IN  Level[s].entry + Ticks(s, IF risk = 0 THEN 20 ELSE (4 * risk + 4) \div 5)

-----------------------------------------------------------------------------
(* apply_fsm_transition_pure *)

\* Fault: only CLOSED is treated as final.
LegalUnlessClosed(r, to) == r.st # "CLOSED" /\ to # r.st

Legal(r, to) ==
    /\ to \in AllowedTransitions[r.st]
    /\ r.fno => to \notin {"ARMED", "TRIGGERED", "CONFIRMED"}

\* Fault: the runner's stop is initialised again from stop_loss.
MovedResetStop(s, r, to, t) ==
    [r EXCEPT !.st = to, !.ver = @ + 1, !.upd = t, !.hist = to,
              !.tstop = IF to = "CONFIRMED" THEN t + TimeStop ELSE @,
              !.sl = IF to = "TARGET_1_HIT" THEN Level[s].stop ELSE @]

Moved(s, r, to, t) ==
    [r EXCEPT !.st = to, !.ver = @ + 1, !.upd = t, !.hist = to,
              !.tstop = IF to = "CONFIRMED" /\ @ = NoTime THEN t + TimeStop ELSE @,
              !.t1At  = IF to = "TARGET_1_HIT" THEN t ELSE @,
              !.rstop = IF to = "TARGET_1_HIT" THEN t + RunnerTtl ELSE @,
              !.sl    = IF to = "TARGET_1_HIT" /\ ~r.be
                        THEN Tighter(s, @, Level[s].cost) ELSE @,
              !.be    = IF to = "TARGET_1_HIT" THEN TRUE ELSE @]

\* Fault: the intent is built from the version before the transition.
SettlementOfOldVersion(s, r, to) ==
    IF to \in Terminal THEN {[sig |-> s, ver |-> r.ver, state |-> to]} ELSE {}

\* The settlement intent a transition to a terminal state enqueues: its id is
\* a function of the signal, its new version and the state.
SettlementOf(s, r, to) ==
    IF to \in Terminal THEN {[sig |-> s, ver |-> r.ver + 1, state |-> to]} ELSE {}

Transition(s, to) ==
    /\ Here(s) /\ Legal(sigs[s], to)
    /\ sigs' = [sigs EXCEPT ![s] = Moved(s, @, to, now)]
    /\ intents' = intents \cup SettlementOf(s, sigs[s], to)
    /\ UNCHANGED <<retired, now>>

-----------------------------------------------------------------------------
(* register and delete *)

Register(s, birth, degraded) ==
    /\ ~Here(s) /\ s \notin retired
    /\ sigs' = [sigs EXCEPT ![s] =
                  [Absent EXCEPT !.st = birth, !.ver = 1, !.born = now, !.exp = now + Ttl,
                                 !.upd = now, !.sl = Level[s].stop, !.fno = degraded,
                                 !.hist = birth]]
    /\ UNCHANGED <<intents, retired, now>>

\* delete: the state becomes CLOSED only where the table or a terminal state
\* allows it; the USER_VOID audit entry to CLOSED is appended regardless.
\* Fault: the tombstone forgets the version.
TombstonedNoVersion(r, t) == [r EXCEPT !.st = "CLOSED", !.upd = t, !.hist = "CLOSED"]

Tombstoned(r, t) ==
    IF r.st # "CLOSED" /\ ("CLOSED" \in AllowedTransitions[r.st] \/ r.st \in Terminal)
    THEN [r EXCEPT !.st = "CLOSED", !.ver = @ + 1, !.upd = t, !.hist = "CLOSED"]
    ELSE [r EXCEPT !.hist = "CLOSED"]

Delete(s) ==
    /\ Here(s)
    /\ sigs' = [sigs EXCEPT ![s] = Tombstoned(@, now)]
    /\ UNCHANGED <<intents, retired, now>>

-----------------------------------------------------------------------------
(* sweep_expired *)

\* The state the sweep moves a signal to at time t; its own state if none.
\* Fault: TRIGGERED is left out of the market-close expiry.
SweepTargetPreTriggerOnly(r, t) ==
    IF r.st \in PreTrigger /\ (r.born \div DayLen < Day(t) \/ ~SessionOpen(t) \/ t > r.exp)
    THEN "EXPIRED" ELSE r.st

SweepTarget(r, t) ==
    LET priorDay == r.born \div DayLen < Day(t)
        closed   == ~SessionOpen(t)
        unfilled == r.st \in PreTrigger \cup {"TRIGGERED"}
                      \/ (r.st = "CONFIRMED" /\ ~r.paper)
    IN  CASE r.st = "ABSENT" -> r.st
          [] unfilled ->
               IF priorDay \/ closed \/ (t > r.exp /\ r.st \in PreTrigger)
               THEN "EXPIRED" ELSE r.st
          [] ~unfilled /\ priorDay /\ r.st \in {"CONFIRMED", "TARGET_1_HIT"} ->
               IF r.paper /\ r.rem > 0 THEN r.st ELSE "CLOSED"
          [] ~priorDay /\ r.st = "TARGET_1_HIT" ->
               IF \/ closed \/ Passed(r.rstop, t)
                  \/ r.t1At # NoTime /\ t - r.t1At > RunnerMax
               THEN "RUNNER_TIME_STOP_HIT" ELSE r.st
          [] ~unfilled /\ ~priorDay /\ r.st = "CONFIRMED" /\ Passed(r.tstop, t) -> "TIME_STOP_HIT"
          [] OTHER -> r.st

Swept(f, t) ==
    [s \in Signals |-> IF SweepTarget(f[s], t) = f[s].st THEN f[s]
                       ELSE Moved(s, f[s], SweepTarget(f[s], t), t)]

SweepIntents(f, t) ==
    UNION {SettlementOf(s, f[s], SweepTarget(f[s], t)) :
             s \in {u \in Signals : SweepTarget(f[u], t) # f[u].st}}

\* The sets of signals pruning may drop: oldest terminal ones, no more than
\* the overflow (the order among equal timestamps is not fixed).
\* Fault: the overflow is cut from all signals, oldest first.
PruneAny(f) ==
    LET present == {s \in Signals : f[s].st # "ABSENT"} IN
    {P \in SUBSET present : Cardinality(P) = Cardinality(present) - MaxSignals}

PruneSets(f) ==
    LET present  == {s \in Signals : f[s].st # "ABSENT"}
        ended    == {s \in Signals : f[s].st \in Terminal}
        overflow == Cardinality(present) - MaxSignals
        size     == IF overflow <= Cardinality(ended) THEN overflow ELSE Cardinality(ended)
    IN  IF overflow <= 0 THEN {{}}
        ELSE {P \in SUBSET ended :
                /\ Cardinality(P) = size
                /\ \A p \in P, q \in ended \ P : f[p].upd <= f[q].upd}

Sweep ==
    LET f == Swept(sigs, now) IN
    \E P \in PruneSets(f) :
        /\ sigs' = [s \in Signals |-> IF s \in P THEN Absent ELSE f[s]]
        /\ intents' = intents \cup SweepIntents(sigs, now)
        /\ retired' = retired \cup P
        /\ UNCHANGED now

-----------------------------------------------------------------------------
(* ratchet_breakeven and evaluate_tick *)

RatchetStop(s, p) ==
    IF Reached(s, Level[s].cost, p) THEN p - Ticks(s, 1) ELSE Level[s].cost

CanRatchet(s, p) ==
    /\ sigs[s].st \in {"CONFIRMED", "TARGET_1_HIT"} /\ ~sigs[s].be
    /\ Beyond(s, RatchetStop(s, p), sigs[s].sl)

Ratchet(s, p) ==
    /\ CanRatchet(s, p)
    /\ sigs' = [sigs EXCEPT ![s].sl = RatchetStop(s, p), ![s].be = TRUE, ![s].hist = sigs[s].st]
    /\ UNCHANGED <<intents, retired, now>>

\* evaluate_tick: the state the tick calls for, "BE" for the ratchet, "HOLD".
Verdict(s, r, p, t) ==
    CASE Reached(s, r.sl, p) -> "STOP_LOSS_HIT"
      [] r.st = "TARGET_1_HIT" /\ ~Reached(s, r.sl, p) ->
           IF Reached(s, p, Level[s].t2) THEN "TARGET_2_HIT"
           ELSE IF Passed(r.rstop, t) THEN "RUNNER_TIME_STOP_HIT"
           ELSE IF ~r.be /\ Reached(s, p, BreakevenTrigger(s)) THEN "BE" ELSE "HOLD"
      [] r.st = "CONFIRMED" /\ ~Reached(s, r.sl, p) ->
           IF Reached(s, p, Level[s].t1) THEN "TARGET_1_HIT"
           ELSE IF Passed(r.tstop, t) THEN "TIME_STOP_HIT"
           ELSE IF ~r.be /\ Reached(s, p, BreakevenTrigger(s)) THEN "BE" ELSE "HOLD"
      [] OTHER -> "HOLD"

\* What the tracker's tick does with the verdict.
OnTick(s, p) ==
    /\ Here(s)
    /\ LET v == Verdict(s, sigs[s], p, now) IN
       \/ v = "BE" /\ Ratchet(s, p)
       \/ v \in States /\ Transition(s, v)

-----------------------------------------------------------------------------
(* The manager's environment: the paper engine's entry fill, the fill      *)
(* reconciler's booked exits, the clock.                                   *)

EntryFill(s) ==
    /\ Here(s) /\ ~sigs[s].paper
    /\ sigs' = [sigs EXCEPT ![s].paper = TRUE, ![s].rem = Qty]
    /\ UNCHANGED <<intents, retired, now>>

\* Fault: the booked quantity is not capped at the remaining one.
BookExitUncapped(s, q) ==
    /\ Here(s)
    /\ sigs' = [sigs EXCEPT ![s].rem = @ - q]
    /\ UNCHANGED <<intents, retired, now>>

BookExit(s, q) ==
    /\ Here(s) /\ q <= sigs[s].rem
    /\ sigs' = [sigs EXCEPT ![s].rem = @ - q]
    /\ UNCHANGED <<intents, retired, now>>

ClockTick ==
    /\ now < MaxTime
    /\ now' = now + 1
    /\ UNCHANGED <<sigs, intents, retired>>

Init ==
    /\ sigs = [s \in Signals |-> Absent]
    /\ intents = {}
    /\ retired = {}
    /\ now = 0

\* Any caller may ask the manager for any state.
Request(s, to) == sigs[s].ver < MaxVersion /\ Transition(s, to)

Next ==
    \/ \E s \in Signals :
         \/ \E birth \in Births, degraded \in BOOLEAN : Register(s, birth, degraded)
         \/ \E to \in States : Request(s, to)
         \/ \E p \in Prices : OnTick(s, p)
         \/ Delete(s)
         \/ EntryFill(s)
         \/ \E q \in 1..Qty : BookExit(s, q)
    \/ Sweep
    \/ ClockTick

Spec == Init /\ [][Next]_vars

\* The risk loop sweeps through list_active every three seconds and the clock
\* advances: both are weakly fair.
FairSpec == Spec /\ WF_vars(Sweep) /\ WF_vars(ClockTick)

-----------------------------------------------------------------------------
(* Properties *)

\* Every field of every signal stays in its domain.
TypeOK ==
    /\ sigs \in [Signals -> SignalRecord]
    /\ intents \subseteq [sig : Signals, ver : Nat, state : Terminal]
    /\ retired \subseteq Signals
    /\ now \in Nat

\* A signal that reached a terminal outcome has the settlement intent of
\* exactly that outcome and version in the ledger, whoever moved it there:
\* transition() enqueues it under the lock that writes the state.
TerminalSettled ==
    \A s \in Signals : sigs[s].st \in Terminal \ {"CLOSED"} =>
        [sig |-> s, ver |-> sigs[s].ver, state |-> sigs[s].st] \in intents

\* A runner never carries the original risk: its clock runs, the ratchet has
\* fired, and its stop lies strictly beyond the stop it was registered with.
RunnerProtected ==
    \A s \in Signals : sigs[s].st = "TARGET_1_HIT" =>
        /\ sigs[s].be /\ sigs[s].rstop # NoTime
        /\ Beyond(s, sigs[s].sl, Level[s].stop)

\* "stop cannot move backward": no step, of the tick, the ratchet, a sweep or
\* a caller, moves current_stop_loss away from the market.
StopOnlyTightens ==
    [][\A s \in Signals : Here(s) /\ Here(s)' =>
         Reached(s, sigs'[s].sl, sigs[s].sl)]_vars

\* The version counts the state changes, through every path that writes
\* fsm_state (delete writes it without transition()).
VersionCountsMoves ==
    [][\A s \in Signals : Here(s) /\ Here(s)' =>
         sigs'[s].ver = sigs[s].ver + (IF sigs'[s].st = sigs[s].st THEN 0 ELSE 1)]_vars

\* A terminal signal only ever becomes CLOSED or leaves the dictionary, and an
\* id that left never comes back.
TerminalIsFinal ==
    [][\A s \in Signals :
         /\ sigs[s].st \in Terminal => sigs'[s].st \in {sigs[s].st, "CLOSED", "ABSENT"}
         /\ s \in retired => ~Here(s)']_vars

\* Pruning drops only signals that are terminal (sweep_expired step 5).
OnlyTerminalPruned ==
    [][\A s \in Signals : Here(s) /\ ~Here(s)' => SweepTarget(sigs[s], now) \in Terminal]_vars

\* A signal waiting for its trigger is gone by the end of a session: the sweep
\* expires it (TTL, market close or prior day), however the session ends.
PreTriggerExpires ==
    \A s \in Signals :
        (sigs[s].st \in PreTrigger \cup {"TRIGGERED"})
            ~> (sigs[s].st \notin PreTrigger \cup {"TRIGGERED"})
=============================================================================
