---------------------------- MODULE SignalRestore ----------------------------
(***************************************************************************)
(* What survives a restart: signals/signals_persistence.py (the JSON file, *)
(* the upsert of a signal's database row, the restore from both and the    *)
(* sanitising that follows it) and the bus handlers that feed it, over the *)
(* state machine of SignalFSM.                                             *)
(*                                                                         *)
(* An event of the bus is a job: its persistence handler saves the file    *)
(* and upserts the row from the signal, then the audit handler mirrors the *)
(* transition.  Every change of an audit record is a job too: it saves the *)
(* file and upserts the row from the record.  An upsert takes its values   *)
(* when it starts and may land after a later one, or never.  Deletions and *)
(* voided records are left out.                                            *)
(***************************************************************************)
EXTENDS SignalFSM

CONSTANTS
    Exits,     \* states a final exit moves a trade to
    Results,   \* audit statuses a square-off settles it with
    MaxBoots,  \* bound on the restarts
    MaxJobs    \* bound on the events and upserts under way at once

VARIABLES
    ledger,  \* signal_audit_ledger._trades
    legs,    \* quantity left in option_fill_reconciler._records
    jobs,    \* bus events and upserts under way
    rows,    \* table executed_signals
    file,    \* signals_state.json
    boots    \* restarts so far

stores == <<ledger, legs, jobs, rows, file, boots>>
restoreVars == <<vars, stores>>

NoLegs == -1
NoRecord == [st |-> "NONE", fill |-> FALSE, at |-> NoTime, born |-> NoTime]
NoRow == [st |-> "NONE", fill |-> FALSE, at |-> NoTime, sl |-> 0, be |-> FALSE,
          tstop |-> NoTime, rstop |-> NoTime, born |-> NoTime, legs |-> NoLegs]

Settled == {"WON", "LOST", "CLOSED"}

ASSUME RestoreConstants == Results \subseteq Settled

\* What the three dictionaries hold about a signal.
Trade(s) == [sig |-> sigs[s], led |-> ledger[s], leg |-> legs[s]]
NoTrade == [sig |-> Absent, led |-> NoRecord, leg |-> NoLegs]

\* save_signals_state_local: the three dictionaries at once.  `run' stands for
\* the file's own updated_at_utc: the run of the program that saved it.
Saved == [here |-> TRUE, run |-> boots, trade |-> [s \in Signals |-> Trade(s)]]
NoFile == [here |-> FALSE, run |-> 0, trade |-> [s \in Signals |-> NoTrade]]

-----------------------------------------------------------------------------
(* persist_executed_signal *)

\* The values an upsert takes from a SignalInstance.
RowOfSignal(s) ==
    [st |-> sigs[s].st, fill |-> sigs[s].paper, at |-> now, sl |-> sigs[s].sl,
     be |-> sigs[s].be, tstop |-> sigs[s].tstop, rstop |-> sigs[s].rstop,
     born |-> sigs[s].born, legs |-> legs[s]]

\* From an AuditTradeRecord: it has no current stop, ratchet flag or clocks, for
\* which the upsert writes the original stop, false and null.
RowOfAudit(s) ==
    [NoRow EXCEPT !.st = ledger[s].st, !.fill = ledger[s].fill, !.at = ledger[s].at,
                  !.sl = Level[s].stop, !.born = ledger[s].born, !.legs = legs[s]]

Coalesce(new, old, none) == IF new = none THEN old ELSE new

\* ON CONFLICT DO UPDATE: nulls keep the old value, all else is overwritten.
Upserted(old, new) ==
    [new EXCEPT !.fill = @ \/ old.fill, !.born = Coalesce(old.born, @, NoTime),
                !.tstop = Coalesce(@, old.tstop, NoTime),
                !.rstop = Coalesce(@, old.rstop, NoTime),
                !.legs = Coalesce(@, old.legs, NoLegs)]

Event(s, ver, to) == [sig |-> s, ver |-> ver, to |-> to, pc |-> "event", row |-> NoRow]

\* _schedule_persist: a task of its own upserts the row from the audit record.
AuditWrite(s) == Event(s, sigs[s].ver, "audit")

\* What a job upserts: nothing if the event's signal has been pruned.
RowOf(j) ==
    IF j.to = "audit" THEN RowOfAudit(j.sig)
    ELSE IF Here(j.sig) THEN RowOfSignal(j.sig) ELSE NoRow

\* A job starts: the file is saved, the upsert takes its values.
HandleEvent(j) ==
    /\ j.pc = "event"
    /\ file' = Saved
    /\ jobs' = (jobs \ {j}) \cup {[j EXCEPT !.pc = "write", !.row = RowOf(j)]}
    /\ UNCHANGED <<vars, ledger, legs, rows, boots>>

\* record_state_transition.
Mirrored(l, to) ==
    [l EXCEPT !.st = IF l.st = "EXECUTED" /\ to = "CONFIRMED" THEN @ ELSE to, !.at = now]

\* The upsert ended: the audit handler of a transition runs next.
Written(j) ==
    IF j.to \in States /\ ledger[j.sig].st \notin Settled \cup {"NONE"}
    THEN /\ ledger' = [ledger EXCEPT ![j.sig] = Mirrored(@, j.to)]
         /\ jobs' = (jobs \ {j}) \cup {AuditWrite(j.sig)}
    ELSE jobs' = jobs \ {j} /\ UNCHANGED ledger

Land(j) ==
    /\ j.pc = "write" /\ j.row.st # "NONE"
    /\ rows' = [rows EXCEPT ![j.sig] = Upserted(@, j.row)]
    /\ Written(j)
    /\ UNCHANGED <<vars, legs, file, boots>>

\* There is nothing to write, or the database refuses it, after three attempts
\* for a signal's upsert.
Drop(j) ==
    /\ j.pc = "write"
    /\ Written(j)
    /\ UNCHANGED <<vars, legs, rows, file, boots>>

-----------------------------------------------------------------------------
(* The life of a signal between restarts *)

Room == Cardinality(jobs) < MaxJobs

New(s, birth) ==
    /\ Room /\ Register(s, birth, FALSE)
    /\ ledger' = [ledger EXCEPT ![s] =
                    [st |-> "ARMED", fill |-> FALSE, at |-> now, born |-> now]]
    /\ jobs' = jobs \cup {Event(s, 0, "registered"), AuditWrite(s)}
    /\ UNCHANGED <<legs, rows, file, boots>>

Trigger(s) ==
    /\ Room /\ Request(s, "TRIGGERED")
    /\ jobs' = jobs \cup {Event(s, sigs[s].ver + 1, "TRIGGERED")}
    /\ UNCHANGED <<ledger, legs, rows, file, boots>>

\* record_paper_executed and record_square_off: the status and the fill.
Booked(l, st) == [l EXCEPT !.st = st, !.fill = TRUE, !.at = now]

\* The entry order fills: reconciler, audit record and state follow.
Fill(s) ==
    /\ Room /\ sigs[s].st = "TRIGGERED" /\ sigs[s].ver < MaxVersion
    /\ sigs' = [sigs EXCEPT ![s] = [Moved(s, @, "CONFIRMED", now) EXCEPT !.paper = TRUE, !.rem = Qty]]
    /\ legs' = [legs EXCEPT ![s] = Qty]
    /\ ledger' = [ledger EXCEPT ![s] = Booked(@, "EXECUTED")]
    /\ jobs' = jobs \cup {Event(s, sigs[s].ver + 1, "CONFIRMED"), AuditWrite(s)}
    /\ UNCHANGED <<intents, retired, now, rows, file, boots>>

\* The staged exit at the first target.
TakeHalf(s) ==
    /\ Room /\ sigs[s].st = "CONFIRMED" /\ sigs[s].paper /\ sigs[s].ver < MaxVersion
    /\ sigs' = [sigs EXCEPT ![s] = [Moved(s, @, "TARGET_1_HIT", now) EXCEPT !.rem = Qty \div 2]]
    /\ legs' = [legs EXCEPT ![s] = Qty \div 2]
    /\ jobs' = jobs \cup {Event(s, sigs[s].ver + 1, "TARGET_1_HIT")}
    /\ UNCHANGED <<intents, retired, now, ledger, rows, file, boots>>

\* The final exit: the audit record is settled, then the state is written.
Settle(s, to, result) ==
    /\ Room /\ sigs[s].st \in {"CONFIRMED", "TARGET_1_HIT"} /\ sigs[s].paper
    /\ to \in AllowedTransitions[sigs[s].st] /\ sigs[s].ver < MaxVersion
    /\ sigs' = [sigs EXCEPT ![s] = [Moved(s, @, to, now) EXCEPT !.rem = 0]]
    /\ intents' = intents \cup SettlementOf(s, sigs[s], to)
    /\ legs' = [legs EXCEPT ![s] = 0]
    /\ ledger' = [ledger EXCEPT ![s] = Booked(@, result)]
    /\ jobs' = jobs \cup {Event(s, sigs[s].ver + 1, to), AuditWrite(s)}
    /\ UNCHANGED <<retired, now, rows, file, boots>>

\* The tick settles a trade whose time stop a sweep has already written.
SettlePreEmpted(s, result) ==
    /\ Room /\ sigs[s].st \in {"RUNNER_TIME_STOP_HIT", "TIME_STOP_HIT"}
    /\ sigs[s].paper /\ sigs[s].rem > 0
    /\ sigs' = [sigs EXCEPT ![s].rem = 0]
    /\ legs' = [legs EXCEPT ![s] = 0]
    /\ ledger' = [ledger EXCEPT ![s] = Booked(@, result)]
    /\ jobs' = jobs \cup {AuditWrite(s)}
    /\ UNCHANGED <<intents, retired, now, rows, file, boots>>

Breakeven(s, p) ==
    /\ Room /\ Ratchet(s, p)
    /\ jobs' = jobs \cup {Event(s, sigs[s].ver, "breakeven")}
    /\ UNCHANGED <<ledger, legs, rows, file, boots>>

SweepAll ==
    /\ Sweep
    /\ jobs' = jobs \cup {Event(s, sigs[s].ver + 1, SweepTarget(sigs[s], now)) :
                             s \in {u \in Signals : SweepTarget(sigs[u], now) # sigs[u].st}}
    /\ UNCHANGED <<ledger, legs, rows, file, boots>>

Wait == ClockTick /\ UNCHANGED stores

-----------------------------------------------------------------------------
(* restore_signals_from_db, restore_signals_state_local *)

\* The status map of the restore.
\* Fault: the status of the row is taken as the state.
StateOfRaw(st) == st

StateOf(st) ==
    CASE st \in States \ {"PRE_ARMED"} -> st
      [] st = "EXECUTED" -> "CONFIRMED"
      [] st = "WON" -> "TARGET_1_HIT"
      [] st = "LOST" -> "STOP_LOSS_HIT"
      [] OTHER -> "ARMED"

\* reconcile_entry registers the fill again, with the full quantity.
FromRow(r) ==
    [st |-> StateOf(r.st), ver |-> 1, born |-> r.born, exp |-> now + Ttl, upd |-> now,
     tstop |-> r.tstop, rstop |-> r.rstop, t1At |-> NoTime, sl |-> r.sl, be |-> r.be,
     paper |-> r.fill, rem |-> IF r.fill THEN Qty ELSE 0, fno |-> FALSE, hist |-> "ABSENT"]

RecordOf(r) == [st |-> r.st, fill |-> r.fill, at |-> r.at, born |-> r.born]

LegsFromRow(r) ==
    IF ~r.fill THEN r.legs
    ELSE IF r.st \in Settled \cup {"TIME_STOP_HIT", "STOP_LOSS_HIT", "TARGET_2_HIT"} THEN 0
    ELSE Qty

\* Fault: the file is read only when the database is out of reach.
RestoredOneStore(s, up, f, newer) ==
    LET row == rows[s] IN
    IF ~up THEN f.trade[s]
    ELSE IF row.st = "NONE" THEN NoTrade
    ELSE [sig |-> FromRow(row), led |-> RecordOf(row), leg |-> LegsFromRow(row)]

\* Rows first, then whatever the file has newer or besides; `newer' says which
\* of two records is, where the model's clock does not.
Restored(s, up, f, newer) ==
    LET row   == rows[s]
        saved == f.trade[s]
        later == saved.led.st # "NONE"
                   /\ (saved.led.at > row.at \/ (newer /\ saved.led.at = row.at))
    IN  IF ~up \/ row.st = "NONE" THEN saved
        ELSE [sig |-> IF saved.sig.upd > now THEN saved.sig ELSE FromRow(row),
              led |-> IF later THEN saved.led ELSE RecordOf(row),
              leg |-> IF ~row.fill /\ newer /\ saved.leg # NoLegs THEN saved.leg
                      ELSE LegsFromRow(row)]

\* sanitize_persisted_signals.  Its list of states has no PRE_ARMED.
\* Fault: TRIGGERED is left out.
SanitizedStateUntriggered(r) ==
    IF r.st # "ABSENT" /\ r.st \in PreTrigger /\ (r.born \div DayLen < Day(now) \/ ~SessionOpen(now))
    THEN "EXPIRED" ELSE r.st

\* Fault: a time stop counts as open, as it does for the square-off.
SanitizedStateAgain(r) ==
    CASE r.st = "TARGET_1_HIT" /\ ~SessionOpen(now) -> "RUNNER_TIME_STOP_HIT"
      [] r.st = "RUNNER_TIME_STOP_HIT" /\ ~SessionOpen(now) -> "CLOSED"
      [] OTHER -> r.st

SanitizedState(r) ==
    LET priorDay == r.born \div DayLen < Day(now)
        waiting  == r.st \in PreTrigger \cup {"TRIGGERED"}
    IN  CASE r.st = "ABSENT" \/ (~priorDay /\ SessionOpen(now)) -> r.st
          [] (waiting /\ (~r.paper \/ ~priorDay)) \/ (r.st = "CONFIRMED" /\ ~r.paper) -> "EXPIRED"
          [] r.st = "CONFIRMED" /\ r.paper /\ priorDay -> "CLOSED"
          [] r.st = "TARGET_1_HIT" -> "RUNNER_TIME_STOP_HIT"
          [] OTHER -> r.st

SanitizedRecord(l) ==
    IF ~(l.born \div DayLen < Day(now)) /\ SessionOpen(now) THEN l
    ELSE IF l.st \in PreTrigger \cup {"TRIGGERED", "CONFIRMED"} /\ ~l.fill
    THEN [l EXCEPT !.st = "EXPIRED"]
    ELSE IF l.st = "TARGET_1_HIT" THEN [l EXCEPT !.st = "RUNNER_TIME_STOP_HIT"] ELSE l

\* A signal read from a row has no outcome and no history: the outcome its state
\* implies is filled in, with an entry in the history.
OutcomeFacts == {"RUNNER_TIME_STOP_HIT", "TARGET_2_HIT", "STOP_LOSS_HIT", "TARGET_1_HIT",
                 "TIME_STOP_HIT"}

Repaired(r) ==
    IF r.st \in OutcomeFacts /\ r.hist = "ABSENT" THEN [r EXCEPT !.hist = r.st] ELSE r

SanitizedTrade(s, b) ==
    [sig |-> IF SanitizedState(b.sig) = b.sig.st THEN Repaired(b.sig)
             ELSE Moved(s, b.sig, SanitizedState(b.sig), now),
     led |-> SanitizedRecord(b.led),
     leg |-> b.leg]

\* What a start-up makes of the stores.  Without a file it does not sanitise.
Boot(s, up, f, newer) ==
    IF f.here THEN SanitizedTrade(s, Restored(s, up, f, newer)) ELSE Restored(s, up, f, newer)

SweptAtBoot(up, f, newer) ==
    {s \in Signals : Boot(s, up, f, newer).sig.st # Restored(s, up, f, newer).sig.st}

\* The file is saved again when the start-up swept or repaired something.
FileAfter(up, f, newer) ==
    IF \A s \in Signals : Boot(s, up, f, newer).sig = Restored(s, up, f, newer).sig THEN f
    ELSE [here |-> TRUE, run |-> boots + 1, trade |-> [s \in Signals |-> Boot(s, up, f, newer)]]

\* A crash loses memory, events and upserts; the disk may be lost with it, and
\* the database may be out of reach of the start-up.
Restart(up, kept, newer) ==
    LET f     == IF kept THEN file ELSE NoFile
        b     == [s \in Signals |-> Boot(s, up, f, newer)]
        swept == SweptAtBoot(up, f, newer)
    IN
    /\ boots < MaxBoots
    /\ boots' = boots + 1
    /\ sigs' = [s \in Signals |-> b[s].sig]
    /\ ledger' = [s \in Signals |-> b[s].led]
    /\ legs' = [s \in Signals |-> b[s].leg]
    /\ file' = FileAfter(up, f, newer)
    /\ jobs' = {Event(s, b[s].sig.ver, b[s].sig.st) : s \in swept}
    /\ intents' = (IF kept THEN intents ELSE {}) \cup
                     {[sig |-> s, ver |-> b[s].sig.ver, state |-> b[s].sig.st] : s \in swept}
    /\ retired' = retired \cup {s \in Signals : Here(s) /\ b[s].sig.st = "ABSENT"}
    /\ UNCHANGED <<now, rows>>

RestoreInit ==
    /\ Init
    /\ ledger = [s \in Signals |-> NoRecord]
    /\ legs = [s \in Signals |-> NoLegs]
    /\ jobs = {}
    /\ rows = [s \in Signals |-> NoRow]
    /\ file = NoFile
    /\ boots = 0

RestoreNext ==
    \/ \E s \in Signals :
         \/ \E birth \in Births : New(s, birth)
         \/ Trigger(s)
         \/ Fill(s) \/ TakeHalf(s)
         \/ \E to \in Exits, result \in Results :
              Settle(s, to, result) \/ SettlePreEmpted(s, result)
         \/ \E p \in Prices : Breakeven(s, p)
    \/ \E j \in jobs : HandleEvent(j) \/ Land(j) \/ Drop(j)
    \/ SweepAll \/ Wait
    \/ \E up, kept, newer \in BOOLEAN : Restart(up, kept, newer)

RestoreSpec == RestoreInit /\ [][RestoreNext]_restoreVars

\* The risk loop sweeps and the clock advances.
RestoreFairSpec == RestoreSpec /\ WF_restoreVars(SweepAll) /\ WF_restoreVars(Wait)

-----------------------------------------------------------------------------
(* Properties *)

Statuses == States \cup Settled \cup {"NONE", "EXECUTED"}
Legs == {NoLegs} \cup Nat

AuditRecord == [st : Statuses, fill : BOOLEAN, at : Times, born : Times]
Row == [st : Statuses, fill : BOOLEAN, at : Times, sl : Int, be : BOOLEAN,
        tstop : Times, rstop : Times, born : Times, legs : Legs]
TradeRecord == [sig : SignalRecord, led : AuditRecord, leg : Legs]
Job == [sig : Signals, ver : Nat, to : States \cup {"registered", "breakeven", "audit"},
        pc : {"event", "write"}, row : Row]

\* Memory, stores and upserts stay in their domains.
RestoreTypeOK ==
    /\ TypeOK
    /\ ledger \in [Signals -> AuditRecord]
    /\ legs \in [Signals -> Legs]
    /\ jobs \subseteq Job
    /\ rows \in [Signals -> Row]
    /\ file \in [here : BOOLEAN, run : Nat, trade : [Signals -> TradeRecord]]
    /\ boots \in Nat

\* A second crash right after a start-up changes nothing more: from the same
\* stores and what the first one saved, the restore arrives at the same
\* signals, audit records and residuals.
RestartIdempotent ==
    file.here => \A s \in Signals, up, newer \in BOOLEAN :
        Boot(s, up, FileAfter(up, file, newer), newer) = Boot(s, up, file, newer)

\* "Signals and audit records NEVER start from zero": a signal whose events
\* were all handled comes back with its audit record, out of the database if an
\* upsert of it landed there, out of the file if no upsert did or if this run of
\* the program has saved the file (a start-up that changes no signal leaves out of
\* the file what it restored from the database).
NothingForgotten ==
    \A s \in {u \in Signals : Here(u) /\ ~\E j \in jobs : j.sig = u}, up, kept \in BOOLEAN :
        \/ up /\ rows[s].st # "NONE"
        \/ kept /\ file.here /\ (file.run = boots \/ rows[s].st = "NONE")
        => LET b == Boot(s, up, IF kept THEN file ELSE NoFile, FALSE) IN
           b.sig.st # "ABSENT" /\ b.led.st # "NONE"

\* What a start-up hands to the loops holds no open entry of an earlier day or of
\* a closed market, whichever store it came from, if the disk was kept: such a
\* signal could be entered before the first sweep.  Only a filled one remains.
NoStaleEntry ==
    file.here => \A s \in Signals, up \in BOOLEAN :
        LET r == Boot(s, up, file, FALSE).sig IN
        (r.born \div DayLen < Day(now) \/ ~SessionOpen(now))
            /\ r.st \in PreTrigger \cup {"TRIGGERED", "CONFIRMED"} => r.paper

\* A waiting signal ends although every restart gives it a fresh time to live.
WaitingEnds ==
    \A s \in Signals :
        (sigs[s].st \in PreTrigger \cup {"TRIGGERED"})
            ~> (sigs[s].st \notin PreTrigger \cup {"TRIGGERED"})

\* "FSM signals, audit trade records, and reconciliations are preserved across
\* container restarts": a trade whose settled status is in its row does not come
\* back as a live signal.
SettledStaysSettled ==
    \A s \in Signals :
        rows[s].st \in Settled =>
            Boot(s, TRUE, file, FALSE).sig.st \notin {"CONFIRMED", "TARGET_1_HIT"}
=============================================================================
