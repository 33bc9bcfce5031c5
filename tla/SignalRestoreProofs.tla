------------------------- MODULE SignalRestoreProofs -------------------------
(***************************************************************************)
(* Theorems of SignalRestore, for every set of signals, any number of      *)
(* restarts and any number of events and upserts under way.                *)
(***************************************************************************)
EXTENDS SignalRestore, SignalFSMProofs

FileRecord == [here : BOOLEAN, run : Nat, trade : [Signals -> TradeRecord]]

-----------------------------------------------------------------------------
(* Types of what the handlers and the restore build *)

LEMMA NothingTypes ==
    /\ NoRecord \in AuditRecord
    /\ NoRow \in Row
    /\ NoTrade \in TradeRecord
    /\ NoFile \in FileRecord
  <1>1. NoRecord \in AuditRecord /\ NoRow \in Row
    BY DEF NoRecord, AuditRecord, NoRow, Row, Statuses, Legs, NoLegs, Times, NoTime
  <1>2. NoTrade \in TradeRecord
    BY <1>1, AbsentType DEF NoTrade, TradeRecord, Legs
  <1> QED
    BY <1>1, <1>2 DEF NoFile, FileRecord

\* What one of the stores of a well-typed state holds is well typed.
LEMMA StoredTypes ==
    ASSUME RestoreTypeOK, NEW s \in Signals
    PROVE  /\ sigs[s] \in SignalRecord /\ ledger[s] \in AuditRecord /\ legs[s] \in Legs
           /\ rows[s] \in Row /\ file \in FileRecord /\ file.trade[s] \in TradeRecord
           /\ now \in Nat /\ now \in Times /\ boots \in Nat
  <1>1. now \in Times
    BY DEF RestoreTypeOK, TypeOK, Times
  <1> QED
    BY <1>1 DEF RestoreTypeOK, TypeOK, FileRecord

LEMMA EventType ==
    ASSUME NEW s \in Signals, NEW ver \in Nat,
           NEW to \in States \cup {"registered", "breakeven", "audit"}
    PROVE  Event(s, ver, to) \in Job
  BY NothingTypes DEF Event, Job

LEMMA AuditWriteType ==
    ASSUME RestoreTypeOK, NEW s \in Signals
    PROVE  AuditWrite(s) \in Job
  <1>1. sigs[s].ver \in Nat
    BY StoredTypes DEF SignalRecord
  <1> QED
    BY <1>1, EventType DEF AuditWrite

LEMMA RowOfType ==
    ASSUME RestoreTypeOK, NEW j \in Job
    PROVE  RowOf(j) \in Row
  <1>1. PICK s \in Signals : s = j.sig
    BY DEF Job
  <1>2. Level[s].stop \in Int
    BY ConstantTypes
  <1>3. RowOfAudit(s) \in Row
    BY <1>2, StoredTypes, NothingTypes DEF RowOfAudit, Row, AuditRecord
  <1>4. ASSUME Here(s) PROVE RowOfSignal(s) \in Row
    <2>1. sigs[s].st \in Statuses
      BY <1>4, StoredTypes DEF Here, SignalRecord, Statuses
    <2> QED
      BY <2>1, StoredTypes DEF RowOfSignal, Row, SignalRecord
  <1> QED
    BY <1>1, <1>3, <1>4, NothingTypes DEF RowOf

LEMMA UpsertType ==
    ASSUME NEW old \in Row, NEW new \in Row
    PROVE  Upserted(old, new) \in Row
  BY DEF Upserted, Coalesce, Row

LEMMA BookedType ==
    ASSUME NEW l \in AuditRecord, NEW st \in Statuses, now \in Times
    PROVE  Booked(l, st) \in AuditRecord
  BY DEF Booked, AuditRecord

\* Sanitising moves a signal to a terminal state, if it moves it.
LEMMA SanitizedStateType ==
    ASSUME NEW r \in SignalRecord
    PROVE  /\ SanitizedState(r) # r.st => SanitizedState(r) \in Terminal /\ r.st # "ABSENT"
           /\ SanitizedState(r) \in States \cup {"ABSENT"}
  BY DEF SanitizedState, SignalRecord, States, Terminal, PreTrigger

\* Filling in an outcome touches the history only, and is done once.
LEMMA RepairedType ==
    ASSUME NEW r \in SignalRecord
    PROVE  /\ Repaired(r) \in SignalRecord
           /\ Repaired(r).st = r.st /\ Repaired(r).born = r.born
           /\ Repaired(r).paper = r.paper /\ Repaired(r).upd = r.upd
           /\ Repaired(Repaired(r)) = Repaired(r)
  <1>1. r.st \in OutcomeFacts => r.st \in States /\ r.st # "ABSENT"
    BY DEF OutcomeFacts, States, Terminal
  <1> QED
    BY <1>1 DEF Repaired, SignalRecord

LEMMA SanitizedTradeType ==
    ASSUME NEW s \in Signals, NEW b \in TradeRecord, now \in Nat
    PROVE  SanitizedTrade(s, b) \in TradeRecord
  <1>1. b.sig \in SignalRecord /\ b.led \in AuditRecord /\ b.leg \in Legs
    BY DEF TradeRecord
  <1>2. SanitizedState(b.sig) # b.sig.st => SanitizedState(b.sig) \in States
    BY <1>1, SanitizedStateType DEF States
  <1>3. SanitizedState(b.sig) # b.sig.st
          => Moved(s, b.sig, SanitizedState(b.sig), now) \in SignalRecord
    BY <1>1, <1>2, MovedType
  <1>4. SanitizedRecord(b.led) \in AuditRecord
    <2>1. "EXPIRED" \in Statuses /\ "RUNNER_TIME_STOP_HIT" \in Statuses
      BY DEF Statuses, States, Terminal
    <2> QED
      BY <1>1, <2>1 DEF SanitizedRecord, AuditRecord
  <1> QED
    BY <1>1, <1>3, <1>4, RepairedType DEF SanitizedTrade, TradeRecord

LEMMA StateOfType ==
    ASSUME NEW st \in Statuses
    PROVE  StateOf(st) \in States
  BY DEF StateOf, Statuses, States, Settled, Terminal, PreTrigger

LEMMA FromRowType ==
    ASSUME NEW r \in Row, now \in Nat
    PROVE  /\ FromRow(r) \in SignalRecord
           /\ FromRow(r).st # "ABSENT" /\ FromRow(r).upd = now
  <1>1. StateOf(r.st) \in States
    BY StateOfType DEF Row
  <1>2. now \in Times /\ now + Ttl \in Times /\ Qty \in Nat
    BY ConstantTypes DEF Times
  <1>3. "ABSENT" \notin States
    BY DEF States, Terminal, PreTrigger
  <1>4. /\ r.born \in Times /\ r.tstop \in Times /\ r.rstop \in Times /\ r.sl \in Int
        /\ r.be \in BOOLEAN /\ r.fill \in BOOLEAN
    BY DEF Row
  <1> DEFINE n == IF r.fill THEN Qty ELSE 0
  <1>5. n \in Nat
    BY <1>2
  <1>6. NoTime \in Times
    BY DEF Times
  <1>7. FromRow(r) =
          [st |-> StateOf(r.st), ver |-> 1, born |-> r.born, exp |-> now + Ttl, upd |-> now,
           tstop |-> r.tstop, rstop |-> r.rstop, t1At |-> NoTime, sl |-> r.sl, be |-> r.be,
           paper |-> r.fill, rem |-> n, fno |-> FALSE, hist |-> "ABSENT"]
    BY DEF FromRow
  <1> HIDE DEF n
  <1>8. FromRow(r) \in SignalRecord
    BY <1>1, <1>2, <1>4, <1>5, <1>6, <1>7 DEF SignalRecord
  <1>9. FromRow(r).st = StateOf(r.st) /\ FromRow(r).upd = now
    BY <1>7
  <1> QED
    BY <1>1, <1>3, <1>8, <1>9

LEMMA RestoredType ==
    ASSUME RestoreTypeOK, NEW s \in Signals, NEW f \in FileRecord,
           NEW up \in BOOLEAN, NEW newer \in BOOLEAN
    PROVE  Restored(s, up, f, newer) \in TradeRecord
  <1>1. rows[s] \in Row /\ f.trade[s] \in TradeRecord /\ now \in Nat
    BY StoredTypes DEF FileRecord
  <1>2. FromRow(rows[s]) \in SignalRecord
    BY <1>1, FromRowType
  <1>3. RecordOf(rows[s]) \in AuditRecord
    BY <1>1 DEF RecordOf, AuditRecord, Row
  <1>4. LegsFromRow(rows[s]) \in Legs
    BY <1>1, ConstantTypes DEF LegsFromRow, Row, Legs
  <1> QED
    BY <1>1, <1>2, <1>3, <1>4 DEF Restored, TradeRecord

LEMMA BootType ==
    ASSUME RestoreTypeOK, NEW s \in Signals, NEW f \in FileRecord,
           NEW up \in BOOLEAN, NEW newer \in BOOLEAN
    PROVE  /\ Boot(s, up, f, newer) \in TradeRecord
           /\ s \in SweptAtBoot(up, f, newer) => Boot(s, up, f, newer).sig.st \in Terminal
  <1> DEFINE r == Restored(s, up, f, newer)
  <1>1. r \in TradeRecord /\ now \in Nat
    BY RestoredType, StoredTypes
  <1> HIDE DEF r
  <1>2. SanitizedTrade(s, r) \in TradeRecord
    BY <1>1, SanitizedTradeType
  <1>3. r.sig \in SignalRecord
    BY <1>1 DEF TradeRecord
  <1>4. Boot(s, up, f, newer) = IF f.here THEN SanitizedTrade(s, r) ELSE r
    BY DEF Boot, r
  <1>5. ASSUME f.here, SanitizedTrade(s, r).sig.st # r.sig.st
        PROVE  SanitizedTrade(s, r).sig.st \in Terminal
    <2>1. SanitizedTrade(s, r).sig = IF SanitizedState(r.sig) = r.sig.st THEN Repaired(r.sig)
                                     ELSE Moved(s, r.sig, SanitizedState(r.sig), now)
      BY DEF SanitizedTrade
    <2>2. SanitizedState(r.sig) # r.sig.st
      BY <1>3, <1>5, <2>1, RepairedType
    <2>3. SanitizedState(r.sig) \in Terminal
      BY <1>3, <2>2, SanitizedStateType
    <2>4. Moved(s, r.sig, SanitizedState(r.sig), now).st = SanitizedState(r.sig)
      BY <1>1, <1>3, <2>3, MovedFields DEF States
    <2> QED
      BY <2>1, <2>2, <2>3, <2>4
  <1>6. s \in SweptAtBoot(up, f, newer) => Boot(s, up, f, newer).sig.st # r.sig.st
    BY DEF SweptAtBoot, r
  <1> QED
    BY <1>1, <1>2, <1>4, <1>5, <1>6

-----------------------------------------------------------------------------
(* Every step keeps the types *)

LEMMA RegisterType ==
    ASSUME TypeOK, NEW s \in Signals, NEW birth \in Births, Register(s, birth, FALSE)
    PROVE  TypeOK'
  <1> DEFINE rec == [Absent EXCEPT !.st = birth, !.ver = 1, !.born = now,
                                   !.exp = now + Ttl, !.upd = now,
                                   !.sl = Level[s].stop, !.fno = FALSE, !.hist = birth]
  <1>1. birth \in States /\ now \in Times /\ now + Ttl \in Times /\ Level[s].stop \in Int
    BY ConstantTypes DEF TypeOK, Times, States, PreTrigger
  <1>2. rec \in SignalRecord
    BY <1>1, AbsentType DEF SignalRecord
  <1> HIDE DEF rec
  <1>3. sigs' = [sigs EXCEPT ![s] = rec]
    BY DEF Register, rec
  <1> QED
    BY <1>2, <1>3 DEF TypeOK, Register

\* The trade moves on and its filled quantity is set.
LEMMA MovedTradeType ==
    ASSUME RestoreTypeOK, NEW s \in Signals, NEW to \in States, NEW n \in Nat,
           NEW q \in BOOLEAN
    PROVE  /\ [Moved(s, sigs[s], to, now) EXCEPT !.paper = q, !.rem = n] \in SignalRecord
           /\ [Moved(s, sigs[s], to, now) EXCEPT !.rem = n] \in SignalRecord
           /\ [sigs[s] EXCEPT !.rem = n] \in SignalRecord
           /\ sigs[s].ver + 1 \in Nat
  <1> DEFINE m == Moved(s, sigs[s], to, now)
  <1>1. m \in SignalRecord /\ sigs[s] \in SignalRecord
    BY StoredTypes, MovedType
  <1> HIDE DEF m
  <1>2. [m EXCEPT !.paper = q, !.rem = n] \in SignalRecord
    BY <1>1 DEF SignalRecord
  <1>3. [m EXCEPT !.rem = n] \in SignalRecord
    BY <1>1 DEF SignalRecord
  <1>4. [sigs[s] EXCEPT !.rem = n] \in SignalRecord /\ sigs[s].ver + 1 \in Nat
    BY <1>1 DEF SignalRecord
  <1> QED
    BY <1>2, <1>3, <1>4 DEF m

LEMMA HandleEventType ==
    ASSUME RestoreTypeOK, NEW j \in jobs, HandleEvent(j)
    PROVE  RestoreTypeOK'
  <1>1. j \in Job
    BY DEF RestoreTypeOK
  <1>2. [j EXCEPT !.pc = "write", !.row = RowOf(j)] \in Job
    BY <1>1, RowOfType DEF Job
  <1>3. Saved \in FileRecord
    <2>1. ASSUME NEW s \in Signals PROVE Trade(s) \in TradeRecord
      BY StoredTypes DEF Trade, TradeRecord
    <2> QED
      BY <2>1 DEF Saved, FileRecord, RestoreTypeOK
  <1>4. TypeOK'
    BY DEF HandleEvent, vars, RestoreTypeOK, TypeOK
  <1> QED
    BY <1>2, <1>3, <1>4 DEF HandleEvent, RestoreTypeOK, FileRecord

LEMMA WrittenType ==
    ASSUME RestoreTypeOK, NEW j \in jobs, Written(j)
    PROVE  ledger' \in [Signals -> AuditRecord] /\ jobs' \subseteq Job
  <1>1. PICK s \in Signals : s = j.sig
    BY DEF RestoreTypeOK, Job
  <1>2. CASE j.to \in States /\ ledger[s].st \notin Settled \cup {"NONE"}
    <2>1. Mirrored(ledger[s], j.to) \in AuditRecord
      BY <1>2, StoredTypes DEF Mirrored, AuditRecord, Statuses
    <2>2. ledger' = [ledger EXCEPT ![s] = Mirrored(ledger[s], j.to)]
      BY <1>1, <1>2 DEF Written
    <2>3. jobs' = (jobs \ {j}) \cup {AuditWrite(s)}
      BY <1>1, <1>2 DEF Written
    <2> QED
      BY <2>1, <2>2, <2>3, AuditWriteType DEF RestoreTypeOK
  <1>3. CASE ~(j.to \in States /\ ledger[s].st \notin Settled \cup {"NONE"})
    BY <1>1, <1>3 DEF Written, RestoreTypeOK
  <1> QED
    BY <1>2, <1>3

LEMMA RestartType ==
    ASSUME RestoreTypeOK, NEW up \in BOOLEAN, NEW kept \in BOOLEAN, NEW newer \in BOOLEAN,
           Restart(up, kept, newer)
    PROVE  RestoreTypeOK'
  <1> DEFINE f == IF kept THEN file ELSE NoFile
             swept == SweptAtBoot(up, f, newer)
             gone == {s \in Signals : Here(s) /\ Boot(s, up, f, newer).sig.st = "ABSENT"}
  <1>1. f \in FileRecord
    BY NothingTypes DEF RestoreTypeOK, FileRecord
  <1>2. swept \subseteq Signals
    BY DEF SweptAtBoot
  <1>3. /\ boots' = boots + 1 /\ now' = now /\ rows' = rows
        /\ sigs' = [s \in Signals |-> Boot(s, up, f, newer).sig]
        /\ ledger' = [s \in Signals |-> Boot(s, up, f, newer).led]
        /\ legs' = [s \in Signals |-> Boot(s, up, f, newer).leg]
        /\ file' = FileAfter(up, f, newer)
        /\ jobs' = {Event(s, Boot(s, up, f, newer).sig.ver, Boot(s, up, f, newer).sig.st) :
                       s \in swept}
        /\ intents' = (IF kept THEN intents ELSE {}) \cup
             {[sig |-> s, ver |-> Boot(s, up, f, newer).sig.ver,
               state |-> Boot(s, up, f, newer).sig.st] : s \in swept}
        /\ retired' = retired \cup gone
    BY <1>2 DEF Restart
  <1> HIDE DEF f
  <1>4. ASSUME NEW s \in Signals
        PROVE  /\ Boot(s, up, f, newer) \in TradeRecord
               /\ Boot(s, up, f, newer).sig \in SignalRecord
               /\ Boot(s, up, f, newer).led \in AuditRecord
               /\ Boot(s, up, f, newer).leg \in Legs
               /\ Boot(s, up, f, newer).sig.ver \in Nat
               /\ s \in swept => Boot(s, up, f, newer).sig.st \in Terminal
    BY <1>1, BootType DEF TradeRecord, SignalRecord
  <1>5. FileAfter(up, f, newer) \in FileRecord
    BY <1>1, <1>4, StoredTypes DEF FileAfter, FileRecord, RestoreTypeOK
  <1>6. ASSUME NEW s \in swept
        PROVE  Event(s, Boot(s, up, f, newer).sig.ver, Boot(s, up, f, newer).sig.st) \in Job
    BY <1>2, <1>4, EventType DEF States
  <1>7. jobs' \subseteq Job
    BY <1>3, <1>6
  <1>8. intents' \subseteq [sig : Signals, ver : Nat, state : Terminal]
    BY <1>2, <1>3, <1>4 DEF RestoreTypeOK, TypeOK
  <1>9. TypeOK'
    BY <1>3, <1>4, <1>8 DEF RestoreTypeOK, TypeOK
  <1> QED
    BY <1>3, <1>4, <1>5, <1>7, <1>9 DEF RestoreTypeOK, FileRecord

\* Memory, both stores and every event and upsert under way stay well typed
\* through crashes: what the restore maps a row's status to is a state.
THEOREM RestoredStateIsTyped == RestoreSpec => []RestoreTypeOK
  <1>1. RestoreInit => RestoreTypeOK
    BY NothingTypes, AbsentType DEF RestoreInit, Init, RestoreTypeOK, TypeOK, FileRecord, Legs
  <1>2. RestoreTypeOK /\ [RestoreNext]_restoreVars => RestoreTypeOK'
    <2> SUFFICES ASSUME RestoreTypeOK, [RestoreNext]_restoreVars PROVE RestoreTypeOK'
      OBVIOUS
    <2>0. /\ now \in Times /\ now \in Nat
          /\ "ARMED" \in Statuses /\ "EXECUTED" \in Statuses /\ Settled \subseteq Statuses
          /\ {"TRIGGERED", "CONFIRMED", "TARGET_1_HIT"} \subseteq States
          /\ Qty \in Nat /\ Qty \div 2 \in Nat
      BY StoredTypes, ConstantTypes
         DEF RestoreTypeOK, TypeOK, Times, Statuses, States, PreTrigger
    <2>1. ASSUME NEW s \in Signals, NEW birth \in Births, New(s, birth)
          PROVE  RestoreTypeOK'
      <3>1. TypeOK'
        BY <2>1, RegisterType DEF New, RestoreTypeOK
      <3>2. [st |-> "ARMED", fill |-> FALSE, at |-> now, born |-> now] \in AuditRecord
        BY <2>0 DEF AuditRecord
      <3>3. Event(s, 0, "registered") \in Job /\ AuditWrite(s) \in Job
        BY EventType, AuditWriteType
      <3> QED
        BY <2>1, <3>1, <3>2, <3>3 DEF New, RestoreTypeOK
    <2>2. ASSUME NEW s \in Signals, Trigger(s)
          PROVE  RestoreTypeOK'
      <3>1. TypeOK'
        BY <2>0, <2>2, TransitionType DEF Trigger, Request, RestoreTypeOK
      <3>2. Event(s, sigs[s].ver + 1, "TRIGGERED") \in Job
        BY <2>0, EventType, MovedTradeType
      <3> QED
        BY <2>2, <3>1, <3>2 DEF Trigger, RestoreTypeOK
    <2>3. ASSUME NEW s \in Signals, Fill(s)
          PROVE  RestoreTypeOK'
      <3>1. [Moved(s, sigs[s], "CONFIRMED", now) EXCEPT !.paper = TRUE, !.rem = Qty]
              \in SignalRecord
        BY <2>0, MovedTradeType
      <3>2. TypeOK'
        BY <2>3, <3>1 DEF Fill, RestoreTypeOK, TypeOK
      <3>3. Booked(ledger[s], "EXECUTED") \in AuditRecord
        BY <2>0, StoredTypes, BookedType
      <3>4. Event(s, sigs[s].ver + 1, "CONFIRMED") \in Job /\ AuditWrite(s) \in Job
        BY <2>0, EventType, AuditWriteType, MovedTradeType
      <3> QED
        BY <2>0, <2>3, <3>2, <3>3, <3>4 DEF Fill, RestoreTypeOK, Legs
    <2>4. ASSUME NEW s \in Signals, TakeHalf(s)
          PROVE  RestoreTypeOK'
      <3>1. [Moved(s, sigs[s], "TARGET_1_HIT", now) EXCEPT !.rem = Qty \div 2] \in SignalRecord
        BY <2>0, MovedTradeType
      <3>2. TypeOK'
        BY <2>4, <3>1 DEF TakeHalf, RestoreTypeOK, TypeOK
      <3>3. Event(s, sigs[s].ver + 1, "TARGET_1_HIT") \in Job
        BY <2>0, EventType, MovedTradeType
      <3> QED
        BY <2>0, <2>4, <3>2, <3>3 DEF TakeHalf, RestoreTypeOK, Legs
    <2>5. ASSUME NEW s \in Signals, NEW to \in Exits, NEW result \in Results,
                 Settle(s, to, result)
          PROVE  RestoreTypeOK'
      <3>1. to \in States
        BY <2>5 DEF Settle, AllowedTransitions, States, Terminal, PreTrigger
      <3>2. [Moved(s, sigs[s], to, now) EXCEPT !.rem = 0] \in SignalRecord
        BY <3>1, MovedTradeType
      <3>3. SettlementOf(s, sigs[s], to) \subseteq [sig : Signals, ver : Nat, state : Terminal]
        BY StoredTypes, SettlementType
      <3>4. TypeOK'
        BY <2>5, <3>2, <3>3 DEF Settle, RestoreTypeOK, TypeOK
      <3>5. Booked(ledger[s], result) \in AuditRecord
        BY <2>0, StoredTypes, BookedType, RestoreConstants
      <3>6. Event(s, sigs[s].ver + 1, to) \in Job /\ AuditWrite(s) \in Job
        BY <3>1, EventType, AuditWriteType, MovedTradeType
      <3> QED
        BY <2>5, <3>4, <3>5, <3>6 DEF Settle, RestoreTypeOK, Legs
    <2>6. ASSUME NEW s \in Signals, NEW result \in Results, SettlePreEmpted(s, result)
          PROVE  RestoreTypeOK'
      <3>1. [sigs[s] EXCEPT !.rem = 0] \in SignalRecord
        BY <2>0, MovedTradeType
      <3>2. sigs' = [sigs EXCEPT ![s] = [sigs[s] EXCEPT !.rem = 0]]
        BY <2>6 DEF SettlePreEmpted, RestoreTypeOK, TypeOK
      <3>3. TypeOK'
        BY <2>6, <3>1, <3>2 DEF SettlePreEmpted, RestoreTypeOK, TypeOK
      <3>4. Booked(ledger[s], result) \in AuditRecord
        BY <2>0, StoredTypes, BookedType, RestoreConstants
      <3> QED
        BY <2>6, <3>3, <3>4, AuditWriteType DEF SettlePreEmpted, RestoreTypeOK, Legs
    <2>7. ASSUME NEW s \in Signals, NEW p \in Prices, Breakeven(s, p)
          PROVE  RestoreTypeOK'
      <3>1. TypeOK'
        BY <2>7, ConstantTypes, RatchetType DEF Breakeven, RestoreTypeOK
      <3>2. Event(s, sigs[s].ver, "breakeven") \in Job
        BY StoredTypes, EventType DEF SignalRecord
      <3> QED
        BY <2>7, <3>1, <3>2 DEF Breakeven, RestoreTypeOK
    <2>8. ASSUME NEW j \in jobs, HandleEvent(j)
          PROVE  RestoreTypeOK'
      BY <2>8, HandleEventType
    <2>9. ASSUME NEW j \in jobs, Land(j)
          PROVE  RestoreTypeOK'
      <3>1. j.sig \in Signals /\ j.row \in Row
        BY DEF RestoreTypeOK, Job
      <3>2. Upserted(rows[j.sig], j.row) \in Row
        BY <3>1, UpsertType, StoredTypes
      <3>3. TypeOK'
        BY <2>9 DEF Land, vars, RestoreTypeOK, TypeOK
      <3> QED
        BY <2>9, <3>2, <3>3, WrittenType DEF Land, RestoreTypeOK
    <2>10. ASSUME NEW j \in jobs, Drop(j)
           PROVE  RestoreTypeOK'
      <3>1. TypeOK'
        BY <2>10 DEF Drop, vars, RestoreTypeOK, TypeOK
      <3> QED
        BY <2>10, <3>1, WrittenType DEF Drop, RestoreTypeOK
    <2>11. CASE SweepAll
      <3>1. TypeOK'
        BY <2>11, SweepType DEF SweepAll, RestoreTypeOK
      <3>2. ASSUME NEW s \in Signals, SweepTarget(sigs[s], now) # sigs[s].st
            PROVE  Event(s, sigs[s].ver + 1, SweepTarget(sigs[s], now)) \in Job
        <4>1. SweepTarget(sigs[s], now) \in States
          BY <3>2, StoredTypes, SweepTargetType DEF States
        <4> QED
          BY <2>0, <4>1, EventType, MovedTradeType
      <3>3. jobs' \subseteq Job
        BY <2>11, <3>2 DEF SweepAll, RestoreTypeOK
      <3> QED
        BY <2>11, <3>1, <3>3 DEF SweepAll, RestoreTypeOK
    <2>12. CASE Wait
      BY <2>12 DEF Wait, ClockTick, stores, RestoreTypeOK, TypeOK
    <2>13. ASSUME NEW up \in BOOLEAN, NEW kept \in BOOLEAN, NEW newer \in BOOLEAN,
                  Restart(up, kept, newer)
           PROVE  RestoreTypeOK'
      BY <2>13, RestartType
    <2>14. CASE UNCHANGED restoreVars
      BY <2>14 DEF restoreVars, vars, stores, RestoreTypeOK, TypeOK
    <2> QED
      BY <2>1, <2>2, <2>3, <2>4, <2>5, <2>6, <2>7, <2>8, <2>9, <2>10, <2>11, <2>12, <2>13,
         <2>14 DEF RestoreNext
  <1> QED
    BY <1>1, <1>2, PTL DEF RestoreSpec

-----------------------------------------------------------------------------
(* What a start-up makes of one signal *)

\* A transition keeps the birth and the fill and dates the change.
LEMMA MovedKeeps ==
    ASSUME NEW s \in Signals, NEW r \in SignalRecord, NEW to \in States, NEW t \in Nat
    PROVE  /\ Moved(s, r, to, t).st = to /\ Moved(s, r, to, t).upd = t
           /\ Moved(s, r, to, t).born = r.born /\ Moved(s, r, to, t).paper = r.paper
  BY DEF Moved, SignalRecord

\* Sanitising changes the state of a signal and of a record, and nothing of
\* what it looks at besides.
LEMMA SanitizedKeeps ==
    ASSUME NEW s \in Signals, NEW b \in TradeRecord, now \in Nat
    PROVE  LET c == SanitizedTrade(s, b) IN
           /\ c.sig.st = SanitizedState(b.sig)
           /\ c.sig.born = b.sig.born /\ c.sig.paper = b.sig.paper
           /\ c.sig.upd \in {b.sig.upd, now}
           /\ c.led = SanitizedRecord(b.led)
           /\ c.led.at = b.led.at /\ c.led.born = b.led.born /\ c.led.fill = b.led.fill
           /\ c.led.st = "NONE" <=> b.led.st = "NONE"
           /\ c.sig.st = "ABSENT" <=> b.sig.st = "ABSENT"
           /\ c.leg = b.leg
  <1>1. b.sig \in SignalRecord /\ b.led \in AuditRecord
    BY DEF TradeRecord
  <1>2. SanitizedState(b.sig) # b.sig.st => SanitizedState(b.sig) \in Terminal
    BY <1>1, SanitizedStateType
  <1>3. SanitizedState(b.sig) = "ABSENT" <=> b.sig.st = "ABSENT"
    BY <1>1, <1>2, SanitizedStateType DEF Terminal
  <1>4. LET c == SanitizedTrade(s, b) IN
        /\ c.sig.st = SanitizedState(b.sig) /\ c.sig.born = b.sig.born
        /\ c.sig.paper = b.sig.paper /\ c.sig.upd \in {b.sig.upd, now}
    <2>1. CASE SanitizedState(b.sig) = b.sig.st
      BY <1>1, <2>1, RepairedType DEF SanitizedTrade
    <2>2. CASE SanitizedState(b.sig) # b.sig.st
      <3>1. SanitizedState(b.sig) \in States
        BY <1>2, <2>2 DEF States
      <3>2. SanitizedTrade(s, b).sig = Moved(s, b.sig, SanitizedState(b.sig), now)
        BY <2>2 DEF SanitizedTrade
      <3> QED
        BY <1>1, <3>1, <3>2, MovedKeeps
    <2> QED
      BY <2>1, <2>2
  <1>5. LET l == SanitizedRecord(b.led) IN
        /\ l.at = b.led.at /\ l.born = b.led.born /\ l.fill = b.led.fill
        /\ l.st = "NONE" <=> b.led.st = "NONE"
    BY <1>1 DEF SanitizedRecord, AuditRecord, PreTrigger
  <1>6. SanitizedTrade(s, b).led = SanitizedRecord(b.led) /\ SanitizedTrade(s, b).leg = b.leg
    BY DEF SanitizedTrade
  <1> QED
    BY <1>3, <1>4, <1>5, <1>6

LEMMA BootKeeps ==
    ASSUME RestoreTypeOK, NEW s \in Signals, NEW f \in FileRecord,
           NEW up \in BOOLEAN, NEW newer \in BOOLEAN, f.trade[s].sig.upd <= now
    PROVE  LET b == Boot(s, up, f, newer)
               stored == up /\ rows[s].st # "NONE"
           IN  /\ b.sig.upd <= now
               /\ stored => b.sig.st # "ABSENT" /\ b.led.st # "NONE"
               /\ ~stored => /\ b.sig.st = "ABSENT" <=> f.trade[s].sig.st = "ABSENT"
                             /\ b.led.st = "NONE" <=> f.trade[s].led.st = "NONE"
  <1> DEFINE r == Restored(s, up, f, newer)
             stored == up /\ rows[s].st # "NONE"
  <1>1. r \in TradeRecord /\ now \in Nat /\ rows[s] \in Row /\ f.trade[s] \in TradeRecord
    BY RestoredType, StoredTypes DEF FileRecord
  <1>2. ~stored => r = f.trade[s]
    BY DEF Restored
  <1>3. stored => r.sig = FromRow(rows[s]) /\ r.led.st # "NONE"
    <2> SUFFICES ASSUME stored PROVE r.sig = FromRow(rows[s]) /\ r.led.st # "NONE"
      OBVIOUS
    <2>1. ~(f.trade[s].sig.upd > now)
      BY <1>1 DEF TradeRecord, SignalRecord, Times, NoTime
    <2> QED
      BY <1>1, <2>1 DEF Restored, RecordOf
  <1>4. FromRow(rows[s]).st # "ABSENT" /\ FromRow(rows[s]).upd = now
    BY <1>1, FromRowType
  <1>5. Boot(s, up, f, newer) = IF f.here THEN SanitizedTrade(s, r) ELSE r
    BY DEF Boot
  <1> HIDE DEF r
  <1>6. r.sig.upd <= now
    BY <1>1, <1>2, <1>3, <1>4
  <1>7. /\ SanitizedTrade(s, r).sig.upd \in {r.sig.upd, now}
        /\ SanitizedTrade(s, r).led.st = "NONE" <=> r.led.st = "NONE"
        /\ SanitizedTrade(s, r).sig.st = "ABSENT" <=> r.sig.st = "ABSENT"
    BY <1>1, SanitizedKeeps
  <1>8. /\ Boot(s, up, f, newer).sig.upd <= now
        /\ Boot(s, up, f, newer).led.st = "NONE" <=> r.led.st = "NONE"
        /\ Boot(s, up, f, newer).sig.st = "ABSENT" <=> r.sig.st = "ABSENT"
    BY <1>1, <1>5, <1>6, <1>7
  <1> QED
    BY <1>2, <1>3, <1>4, <1>8

-----------------------------------------------------------------------------
(* No stale entry *)

LEMMA SanitizedIsClosed ==
    ASSUME NEW r \in SignalRecord,
           r.born \div DayLen < Day(now) \/ ~SessionOpen(now),
           SanitizedState(r) \in PreTrigger \cup {"TRIGGERED", "CONFIRMED"}
    PROVE  r.paper
  BY DEF SanitizedState, PreTrigger

LEMMA BootIsFresh ==
    ASSUME RestoreTypeOK PROVE NoStaleEntry
  <1> SUFFICES ASSUME file.here, NEW s \in Signals, NEW up \in BOOLEAN,
                      LET r == Boot(s, up, file, FALSE).sig IN
                      /\ r.born \div DayLen < Day(now) \/ ~SessionOpen(now)
                      /\ r.st \in PreTrigger \cup {"TRIGGERED", "CONFIRMED"}
               PROVE  Boot(s, up, file, FALSE).sig.paper
    BY DEF NoStaleEntry
  <1> DEFINE r == Restored(s, up, file, FALSE)
  <1>1. r \in TradeRecord /\ now \in Nat
    BY RestoredType, StoredTypes
  <1>2. Boot(s, up, file, FALSE) = SanitizedTrade(s, r)
    BY DEF Boot
  <1> HIDE DEF r
  <1>3. r.sig \in SignalRecord
    BY <1>1 DEF TradeRecord
  <1>4. LET c == SanitizedTrade(s, r) IN
        c.sig.st = SanitizedState(r.sig) /\ c.sig.born = r.sig.born /\ c.sig.paper = r.sig.paper
    BY <1>1, SanitizedKeeps
  <1> QED
    BY <1>2, <1>3, <1>4, SanitizedIsClosed

\* After an outage of any length nothing of an earlier day and nothing of a
\* closed market is handed to the loops as an entry that still has to fill.
THEOREM NoEntryIsStale == RestoreSpec => []NoStaleEntry
  <1>1. RestoreTypeOK => NoStaleEntry
    BY BootIsFresh
  <1> QED
    BY <1>1, RestoredStateIsTyped, PTL

-----------------------------------------------------------------------------
(* What the stores keep *)

\* No store holds a signal or a file entry dated later than the clock.
AgesOK == \A s \in Signals : sigs[s].upd <= now /\ file.trade[s].sig.upd <= now

\* A signal has an audit record, in memory and in the file.
HasRecord ==
    \A s \in Signals :
        /\ Here(s) => ledger[s].st # "NONE"
        /\ file.trade[s].sig.st # "ABSENT" => file.trade[s].led.st # "NONE"

\* A signal with no event to handle is in a file that this run has saved, and in
\* every file if the database has no row of it.
FileHolds ==
    /\ file.run <= boots
    /\ \A s \in Signals :
        /\ Here(s) /\ file.here /\ (file.run = boots \/ rows[s].st = "NONE")
        /\ \A j \in jobs : j.sig = s => j.pc # "event"
        => file.trade[s].sig.st # "ABSENT"

Kept == AgesOK /\ HasRecord /\ FileHolds

\* A step of a signal's life: the stores stay, no event is taken away, and a
\* new signal leaves one to handle.
LEMMA LifeKeeps ==
    ASSUME RestoreTypeOK, Kept,
           file' = file, rows' = rows, boots' = boots, jobs \subseteq jobs', now <= now',
           now' \in Nat,
           \A s \in Signals :
             /\ sigs'[s].upd = sigs[s].upd \/ sigs'[s].upd <= now'
             /\ Here(s)' => ledger'[s].st # "NONE"
             /\ Here(s)' => Here(s) \/ \E j \in jobs' : j.sig = s /\ j.pc = "event"
    PROVE  Kept'
  <1>1. AgesOK'
    <2> SUFFICES ASSUME NEW s \in Signals
                 PROVE  sigs'[s].upd <= now' /\ file.trade[s].sig.upd <= now'
      BY DEF AgesOK
    <2>1. /\ sigs[s].upd <= now /\ file.trade[s].sig.upd <= now /\ now \in Nat
          /\ sigs[s].upd \in Int /\ file.trade[s].sig.upd \in Int
      BY StoredTypes DEF Kept, AgesOK, SignalRecord, TradeRecord, Times, NoTime
    <2> QED
      BY <2>1
  <1>2. HasRecord'
    BY DEF Kept, HasRecord
  <1>3. FileHolds'
    BY DEF Kept, FileHolds, Here
  <1> QED
    BY <1>1, <1>2, <1>3 DEF Kept

LEMMA HandleEventKeeps ==
    ASSUME RestoreTypeOK, Kept, NEW j \in jobs, HandleEvent(j)
    PROVE  Kept'
  <1>1. /\ file'.run = boots /\ boots' = boots /\ sigs' = sigs /\ ledger' = ledger
        /\ now' = now
        /\ \A s \in Signals : /\ file'.trade[s].sig = sigs[s]
                             /\ file'.trade[s].led = ledger[s]
    BY DEF HandleEvent, Saved, Trade, vars
  <1>2. boots \in Nat
    BY DEF RestoreTypeOK
  <1> QED
    BY <1>1, <1>2 DEF Kept, AgesOK, HasRecord, FileHolds, Here

\* The end of an upsert takes no event away.
LEMMA WrittenKeeps ==
    ASSUME RestoreTypeOK, Kept, NEW j \in jobs, j.pc = "write", Written(j),
           sigs' = sigs, now' = now, file' = file, boots' = boots,
           \A s \in Signals : rows'[s].st = "NONE" => rows[s].st = "NONE"
    PROVE  Kept'
  <1>1. j.sig \in Signals
    BY DEF RestoreTypeOK, Job
  <1>2. \A s \in Signals : ledger[s].st # "NONE" => ledger'[s].st # "NONE"
    <2>1. CASE j.to \in States /\ ledger[j.sig].st \notin Settled \cup {"NONE"}
      <3>1. ledger' = [ledger EXCEPT ![j.sig] = Mirrored(ledger[j.sig], j.to)]
        BY <2>1 DEF Written
      <3>2. Mirrored(ledger[j.sig], j.to).st # "NONE"
        BY <1>1, <2>1, StoredTypes
           DEF Mirrored, AuditRecord, States, Terminal, PreTrigger
      <3> QED
        BY <3>1, <3>2 DEF RestoreTypeOK
    <2>2. CASE ~(j.to \in States /\ ledger[j.sig].st \notin Settled \cup {"NONE"})
      BY <2>2 DEF Written
    <2> QED
      BY <2>1, <2>2
  <1>3. \A i \in jobs : i.pc = "event" => i \in jobs'
    BY DEF Written
  <1>4. AgesOK'
    BY DEF Kept, AgesOK
  <1>5. HasRecord'
    BY <1>2 DEF Kept, HasRecord, Here
  <1>6. FileHolds'
    BY <1>3 DEF Kept, FileHolds, Here
  <1> QED
    BY <1>4, <1>5, <1>6 DEF Kept

LEMMA RestartKeeps ==
    ASSUME RestoreTypeOK, Kept, NEW up \in BOOLEAN, NEW kept \in BOOLEAN,
           NEW newer \in BOOLEAN, Restart(up, kept, newer)
    PROVE  Kept'
  <1> DEFINE f == IF kept THEN file ELSE NoFile
             B(s) == Boot(s, up, f, newer)
  <1>1. f \in FileRecord /\ boots \in Nat /\ now \in Nat
    BY NothingTypes DEF RestoreTypeOK, TypeOK, FileRecord
  <1>2. ASSUME NEW s \in Signals
        PROVE  /\ f.trade[s].sig.upd <= now
               /\ f.trade[s].sig.st # "ABSENT" => f.trade[s].led.st # "NONE"
    <2>1. CASE kept
      BY <2>1 DEF Kept, AgesOK, HasRecord
    <2>2. CASE ~kept
      BY <1>1, <2>2 DEF NoFile, NoTrade, Absent, NoTime
    <2> QED
      BY <2>1, <2>2
  <1>3. f.run <= boots
    BY <1>1 DEF Kept, FileHolds, NoFile
  <1>4. /\ boots' = boots + 1 /\ now' = now /\ rows' = rows
        /\ \A s \in Signals : sigs'[s] = B(s).sig /\ ledger'[s] = B(s).led
        /\ file' = FileAfter(up, f, newer)
    BY DEF Restart
  <1> HIDE DEF f
  <1>5. ASSUME NEW s \in Signals
        PROVE  LET stored == up /\ rows[s].st # "NONE" IN
               /\ B(s).sig.upd <= now
               /\ stored => B(s).sig.st # "ABSENT" /\ B(s).led.st # "NONE"
               /\ ~stored => /\ B(s).sig.st = "ABSENT" <=> f.trade[s].sig.st = "ABSENT"
                             /\ B(s).led.st = "NONE" <=> f.trade[s].led.st = "NONE"
    BY <1>1, <1>2, BootKeeps
  <1>6. \/ file' = f
        \/ file'.run = boots + 1 /\ \A s \in Signals : file'.trade[s] = B(s)
    BY <1>4 DEF FileAfter
  <1> HIDE DEF B
  <1>7. AgesOK'
    BY <1>2, <1>4, <1>5, <1>6 DEF AgesOK
  <1>8. HasRecord'
    BY <1>2, <1>4, <1>5, <1>6 DEF HasRecord, Here
  <1>9. FileHolds'
    <2>1. file'.run <= boots'
      BY <1>1, <1>3, <1>4, <1>6 DEF FileRecord
    <2>2. ASSUME NEW s \in Signals, Here(s)', file'.run = boots' \/ rows'[s].st = "NONE"
          PROVE  file'.trade[s].sig.st # "ABSENT"
      <3>1. B(s).sig.st # "ABSENT"
        BY <1>4, <2>2 DEF Here
      <3>2. CASE file' = f
        <4>1. rows[s].st = "NONE"
          BY <1>1, <1>3, <1>4, <2>2, <3>2 DEF FileRecord
        <4> QED
          BY <1>5, <3>1, <3>2, <4>1
      <3> QED
        BY <1>6, <3>1, <3>2
    <2> QED
      BY <2>1, <2>2 DEF FileHolds
  <1> QED
    BY <1>7, <1>8, <1>9 DEF Kept

\* A step that moves one known signal on, keeps the others and loses no record.
LEMMA MoveKeeps ==
    ASSUME RestoreTypeOK, Kept, NEW u \in Signals, Here(u), NEW r,
           sigs' = [sigs EXCEPT ![u] = r], r.upd \in {sigs[u].upd, now},
           \/ ledger' = ledger
           \/ \E st \in Statuses \ {"NONE"} : ledger' = [ledger EXCEPT ![u] = Booked(@, st)],
           file' = file, rows' = rows, boots' = boots, jobs \subseteq jobs', now' = now
    PROVE  Kept'
  <1>1. now \in Nat /\ sigs \in [Signals -> SignalRecord] /\ ledger \in [Signals -> AuditRecord]
    BY DEF RestoreTypeOK, TypeOK
  <1>2. ASSUME NEW s \in Signals
        PROVE  /\ sigs'[s].upd = sigs[s].upd \/ sigs'[s].upd <= now'
               /\ ledger[s].st # "NONE" => ledger'[s].st # "NONE"
    <2>1. sigs'[s].upd = sigs[s].upd \/ sigs'[s].upd <= now'
      BY <1>1
    <2>2. ASSUME NEW st \in Statuses \ {"NONE"} PROVE Booked(ledger[u], st).st # "NONE"
      BY <1>1 DEF Booked, AuditRecord
    <2> QED
      BY <1>1, <2>1, <2>2
  <1>3. ASSUME NEW s \in Signals, Here(s)' PROVE Here(s)
    BY <1>1, <1>3 DEF Here
  <1>4. \A s \in Signals : Here(s) => ledger[s].st # "NONE"
    BY DEF Kept, HasRecord
  <1>5. now <= now' /\ now' \in Nat
    BY <1>1
  <1> QED
    BY <1>2, <1>3, <1>4, <1>5, LifeKeeps

LEMMA KeptIsInvariant ==
    ASSUME RestoreTypeOK, Kept, [RestoreNext]_restoreVars
    PROVE  Kept'
  <1>0. /\ now \in Nat /\ sigs \in [Signals -> SignalRecord]
        /\ ledger \in [Signals -> AuditRecord]
        /\ \A s \in Signals : Here(s) => ledger[s].st # "NONE"
        /\ {"TRIGGERED", "CONFIRMED", "TARGET_1_HIT"} \subseteq States
        /\ "EXECUTED" \in Statuses \ {"NONE"} /\ Settled \subseteq Statuses \ {"NONE"}
    BY DEF RestoreTypeOK, TypeOK, Kept, HasRecord, Statuses, Settled, States, Terminal, PreTrigger
  <1>m. ASSUME NEW s \in Signals, NEW to \in States, NEW n \in Nat, NEW q \in BOOLEAN
        PROVE  LET m == Moved(s, sigs[s], to, now) IN
               /\ m.upd = now
               /\ [m EXCEPT !.paper = q, !.rem = n].upd = now
               /\ [m EXCEPT !.rem = n].upd = now
    <2>1. Moved(s, sigs[s], to, now) \in SignalRecord /\ Moved(s, sigs[s], to, now).upd = now
      BY <1>0, MovedType, MovedKeeps
    <2> QED
      BY <2>1 DEF SignalRecord
  <1>1. ASSUME NEW s \in Signals, NEW birth \in Births, New(s, birth)
        PROVE  Kept'
    <2>1. /\ now' = now /\ file' = file /\ rows' = rows /\ boots' = boots
          /\ jobs \subseteq jobs' /\ Event(s, 0, "registered") \in jobs'
      BY <1>1 DEF New, Register
    <2>2. \A u \in Signals : sigs'[u].upd = sigs[u].upd \/ sigs'[u].upd <= now'
      BY <1>0, <1>1 DEF New, Register, Absent
    <2>3. \A u \in Signals : u # s => sigs'[u] = sigs[u] /\ ledger'[u] = ledger[u]
      BY <1>0, <1>1 DEF New, Register
    <2>4. ledger'[s].st = "ARMED"
      BY <1>0, <1>1 DEF New
    <2>5. Event(s, 0, "registered").sig = s /\ Event(s, 0, "registered").pc = "event"
      BY DEF Event
    <2>6. now <= now' /\ now' \in Nat
      BY <1>0, <2>1
    <2>7. \A u \in Signals : Here(u)' => ledger'[u].st # "NONE"
      BY <1>0, <2>3, <2>4 DEF Here
    <2>8. \A u \in Signals : Here(u)' => Here(u) \/ \E j \in jobs' : j.sig = u /\ j.pc = "event"
      BY <2>1, <2>3, <2>5 DEF Here
    <2> QED
      BY <2>1, <2>2, <2>6, <2>7, <2>8, LifeKeeps
  <1>2. ASSUME NEW s \in Signals, Trigger(s)
        PROVE  Kept'
    <2>1. Here(s) /\ sigs' = [sigs EXCEPT ![s] = Moved(s, sigs[s], "TRIGGERED", now)]
      BY <1>2 DEF Trigger, Request, Transition
    <2>2. Moved(s, sigs[s], "TRIGGERED", now).upd = now
      BY <1>0, <1>m
    <2> QED
      BY <1>2, <2>1, <2>2, MoveKeeps DEF Trigger, Request, Transition
  <1>3. ASSUME NEW s \in Signals, Fill(s)
        PROVE  Kept'
    <2> DEFINE r == [Moved(s, sigs[s], "CONFIRMED", now) EXCEPT !.paper = TRUE, !.rem = Qty]
    <2>1. Here(s) /\ sigs' = [sigs EXCEPT ![s] = r]
      BY <1>3 DEF Fill, Here
    <2>2. r.upd = now
      BY <1>0, <1>m, ConstantTypes
    <2>3. ledger' = [ledger EXCEPT ![s] = Booked(@, "EXECUTED")]
      BY <1>3 DEF Fill
    <2> HIDE DEF r
    <2> QED
      BY <1>0, <1>3, <2>1, <2>2, <2>3, MoveKeeps DEF Fill
  <1>4. ASSUME NEW s \in Signals, TakeHalf(s)
        PROVE  Kept'
    <2> DEFINE r == [Moved(s, sigs[s], "TARGET_1_HIT", now) EXCEPT !.rem = Qty \div 2]
    <2>1. Here(s) /\ sigs' = [sigs EXCEPT ![s] = r]
      BY <1>4 DEF TakeHalf, Here
    <2>2. Qty \div 2 \in Nat
      BY ConstantTypes
    <2>3. r.upd = now
      BY <1>0, <1>m, <2>2
    <2> HIDE DEF r
    <2> QED
      BY <1>4, <2>1, <2>3, MoveKeeps DEF TakeHalf
  <1>5. ASSUME NEW s \in Signals, NEW to \in Exits, NEW result \in Results,
               Settle(s, to, result)
        PROVE  Kept'
    <2> DEFINE r == [Moved(s, sigs[s], to, now) EXCEPT !.rem = 0]
    <2>1. Here(s) /\ sigs' = [sigs EXCEPT ![s] = r]
      BY <1>5 DEF Settle, Here
    <2>2. to \in States
      BY <1>5 DEF Settle, AllowedTransitions, States, Terminal, PreTrigger
    <2>3. r.upd = now
      BY <1>0, <1>m, <2>2
    <2>4. ledger' = [ledger EXCEPT ![s] = Booked(@, result)]
          /\ result \in Statuses \ {"NONE"}
      BY <1>0, <1>5, RestoreConstants DEF Settle
    <2> HIDE DEF r
    <2> QED
      BY <1>5, <2>1, <2>3, <2>4, MoveKeeps DEF Settle
  <1>6. ASSUME NEW s \in Signals, NEW result \in Results, SettlePreEmpted(s, result)
        PROVE  Kept'
    <2> DEFINE r == [sigs[s] EXCEPT !.rem = 0]
    <2>1. Here(s) /\ sigs' = [sigs EXCEPT ![s] = r]
      BY <1>0, <1>6 DEF SettlePreEmpted, Here
    <2>2. r.upd = sigs[s].upd
      BY <1>0 DEF SignalRecord
    <2>3. ledger' = [ledger EXCEPT ![s] = Booked(@, result)]
          /\ result \in Statuses \ {"NONE"}
      BY <1>0, <1>6, RestoreConstants DEF SettlePreEmpted
    <2> HIDE DEF r
    <2> QED
      BY <1>6, <2>1, <2>2, <2>3, MoveKeeps DEF SettlePreEmpted
  <1>7. ASSUME NEW s \in Signals, NEW p \in Prices, Breakeven(s, p)
        PROVE  Kept'
    <2> DEFINE r == [sigs[s] EXCEPT !.sl = RatchetStop(s, p), !.be = TRUE, !.hist = sigs[s].st]
    <2>1. Here(s) /\ sigs' = [sigs EXCEPT ![s] = r]
      BY <1>0, <1>7 DEF Breakeven, Ratchet, CanRatchet, Here
    <2>2. r.upd = sigs[s].upd
      BY <1>0 DEF SignalRecord
    <2> HIDE DEF r
    <2> QED
      BY <1>7, <2>1, <2>2, MoveKeeps DEF Breakeven, Ratchet
  <1>8. ASSUME NEW j \in jobs, HandleEvent(j)
        PROVE  Kept'
    BY <1>8, HandleEventKeeps
  <1>9. ASSUME NEW j \in jobs, Land(j)
        PROVE  Kept'
    <2>1. \A s \in Signals : rows'[s].st = "NONE" => rows[s].st = "NONE"
      <3>1. rows' = [rows EXCEPT ![j.sig] = Upserted(rows[j.sig], j.row)] /\ j.row.st # "NONE"
        BY <1>9 DEF Land
      <3>2. Upserted(rows[j.sig], j.row).st = j.row.st
        BY DEF Upserted, RestoreTypeOK, Job, Row
      <3> QED
        BY <3>1, <3>2 DEF RestoreTypeOK
    <2> QED
      BY <1>9, <2>1, WrittenKeeps DEF Land, vars
  <1>10. ASSUME NEW j \in jobs, Drop(j)
         PROVE  Kept'
    BY <1>10, WrittenKeeps DEF Drop, vars
  <1>11. CASE SweepAll
    <2>1. PICK P \in PruneSets(Swept(sigs, now)) :
            sigs' = [s \in Signals |-> IF s \in P THEN Absent ELSE Swept(sigs, now)[s]]
      BY <1>11 DEF SweepAll, Sweep
    <2>2. /\ file' = file /\ rows' = rows /\ boots' = boots /\ ledger' = ledger
          /\ jobs \subseteq jobs' /\ now' = now
      BY <1>11 DEF SweepAll, Sweep
    <2>3. ASSUME NEW s \in Signals
          PROVE  /\ sigs'[s].upd = sigs[s].upd \/ sigs'[s].upd <= now
                 /\ Here(s)' => Here(s)
      <3>1. CASE s \in P
        BY <1>0, <2>1, <3>1 DEF Absent, NoTime, Here
      <3>2. CASE s \notin P /\ SweepTarget(sigs[s], now) = sigs[s].st
        BY <2>1, <3>2 DEF Swept, Here
      <3>3. CASE s \notin P /\ SweepTarget(sigs[s], now) # sigs[s].st
        <4>1. SweepTarget(sigs[s], now) \in States
          BY <1>0, <3>3, SweepTargetType DEF States
        <4>2. sigs'[s] = Moved(s, sigs[s], SweepTarget(sigs[s], now), now)
          BY <2>1, <3>3 DEF Swept
        <4>3. Here(s)
          BY <3>3, AbsentNotSwept DEF Here
        <4> QED
          BY <1>0, <4>1, <4>2, <4>3, MovedKeeps
      <3> QED
        BY <3>1, <3>2, <3>3
    <2>4. now <= now' /\ now' \in Nat
      BY <1>0, <2>2
    <2> QED
      BY <1>0, <2>2, <2>3, <2>4, LifeKeeps
  <1>12. CASE Wait
    <2>1. now' = now + 1 /\ sigs' = sigs /\ ledger' = ledger /\ jobs' = jobs
      BY <1>12 DEF Wait, ClockTick, stores
    <2>2. now <= now' /\ now' \in Nat
      BY <1>0, <2>1
    <2> QED
      BY <1>0, <1>12, <2>1, <2>2, LifeKeeps DEF Wait, stores, Here
  <1>13. ASSUME NEW up \in BOOLEAN, NEW kept \in BOOLEAN, NEW newer \in BOOLEAN,
                Restart(up, kept, newer)
         PROVE  Kept'
    BY <1>13, RestartKeeps
  <1>14. CASE UNCHANGED restoreVars
    BY <1>14 DEF restoreVars, vars, stores, Kept, AgesOK, HasRecord, FileHolds, Here
  <1> QED
    BY <1>1, <1>2, <1>3, <1>4, <1>5, <1>6, <1>7, <1>8, <1>9, <1>10, <1>11, <1>12, <1>13,
       <1>14 DEF RestoreNext

LEMMA AlwaysKept == RestoreSpec => []Kept
  <1>1. RestoreInit => Kept
    BY DEF RestoreInit, Init, Kept, AgesOK, HasRecord, FileHolds, Here, NoFile, NoTrade, Absent,
           NoTime
  <1>2. RestoreTypeOK /\ Kept /\ [RestoreNext]_restoreVars => Kept'
    BY KeptIsInvariant
  <1> QED
    BY <1>1, <1>2, RestoredStateIsTyped, PTL DEF RestoreSpec

\* "Signals and audit records NEVER start from zero on server restart": whatever
\* a crash interrupts, a signal whose events were handled is found again in the
\* store that is still there.
THEOREM NothingIsForgotten == RestoreSpec => []NothingForgotten
  <1>1. RestoreTypeOK /\ Kept => NothingForgotten
    <2> SUFFICES ASSUME RestoreTypeOK, Kept, NEW s \in Signals, NEW up \in BOOLEAN,
                        NEW kept \in BOOLEAN, Here(s), ~\E j \in jobs : j.sig = s,
                        \/ up /\ rows[s].st # "NONE"
                        \/ kept /\ file.here /\ (file.run = boots \/ rows[s].st = "NONE")
                 PROVE  LET b == Boot(s, up, IF kept THEN file ELSE NoFile, FALSE) IN
                        b.sig.st # "ABSENT" /\ b.led.st # "NONE"
      BY DEF NothingForgotten
    <2> DEFINE f == IF kept THEN file ELSE NoFile
    <2>1. f \in FileRecord /\ now \in Nat
      BY NothingTypes DEF RestoreTypeOK, TypeOK, FileRecord
    <2>2. f.trade[s].sig.upd <= now
      BY <2>1 DEF Kept, AgesOK, NoFile, NoTrade, Absent, NoTime
    <2>3. CASE up /\ rows[s].st # "NONE"
      BY <2>1, <2>2, <2>3, BootKeeps
    <2>4. CASE ~(up /\ rows[s].st # "NONE")
      <3>1. f.trade[s].sig.st # "ABSENT"
        BY <2>4 DEF Kept, FileHolds
      <3>2. f.trade[s].led.st # "NONE"
        BY <2>4, <3>1 DEF Kept, HasRecord
      <3> QED
        BY <2>1, <2>2, <2>4, <3>1, <3>2, BootKeeps
    <2> QED
      BY <2>3, <2>4
  <1> QED
    BY <1>1, RestoredStateIsTyped, AlwaysKept, PTL

-----------------------------------------------------------------------------
(* A second start-up *)

LEMMA SanitizedStateTwice ==
    ASSUME NEW r \in SignalRecord, NEW q \in SignalRecord,
           q.st = SanitizedState(r), q.born = r.born, q.paper = r.paper
    PROVE  SanitizedState(q) = q.st
  BY DEF SanitizedState, PreTrigger, SignalRecord, States, Terminal

LEMMA SanitizedRecordTwice ==
    ASSUME NEW l \in AuditRecord
    PROVE  SanitizedRecord(SanitizedRecord(l)) = SanitizedRecord(l)
  BY DEF SanitizedRecord, AuditRecord, PreTrigger

LEMMA SanitizedTradeTwice ==
    ASSUME NEW s \in Signals, NEW b \in TradeRecord, now \in Nat
    PROVE  SanitizedTrade(s, SanitizedTrade(s, b)) = SanitizedTrade(s, b)
  <1> DEFINE c == SanitizedTrade(s, b)
  <1>1. c \in TradeRecord
    BY SanitizedTradeType
  <1>2. b.sig \in SignalRecord /\ b.led \in AuditRecord /\ c.sig \in SignalRecord
    BY <1>1 DEF TradeRecord
  <1>3. SanitizedState(c.sig) = c.sig.st
    BY <1>2, SanitizedKeeps, SanitizedStateTwice
  <1>4. SanitizedRecord(c.led) = c.led
    BY <1>2, SanitizedKeeps, SanitizedRecordTwice
  <1>5. Repaired(c.sig) = c.sig
    <2>1. CASE SanitizedState(b.sig) = b.sig.st
      BY <1>2, <2>1, RepairedType DEF SanitizedTrade
    <2>2. CASE SanitizedState(b.sig) # b.sig.st
      <3>1. SanitizedState(b.sig) \in Terminal
        BY <1>2, <2>2, SanitizedStateType
      <3>2. c.sig = Moved(s, b.sig, SanitizedState(b.sig), now)
        BY <2>2 DEF SanitizedTrade
      <3>3. c.sig.hist = SanitizedState(b.sig)
        BY <1>2, <3>2 DEF Moved, SignalRecord
      <3> QED
        BY <3>1, <3>3 DEF Repaired, Terminal
    <2> QED
      BY <2>1, <2>2
  <1> HIDE DEF c
  <1>6. SanitizedTrade(s, c) = [sig |-> c.sig, led |-> c.led, leg |-> c.leg]
    BY <1>3, <1>4, <1>5 DEF SanitizedTrade
  <1>7. c = [sig |-> c.sig, led |-> c.led, leg |-> c.leg]
    BY <1>1 DEF TradeRecord
  <1> QED
    BY <1>6, <1>7 DEF c

LEMMA BootAgain ==
    ASSUME RestoreTypeOK, AgesOK, file.here, NEW s \in Signals, NEW up \in BOOLEAN,
           NEW newer \in BOOLEAN, NEW f \in FileRecord, f.here,
           f.trade[s] = Boot(s, up, file, newer)
    PROVE  Boot(s, up, f, newer) = Boot(s, up, file, newer)
  <1> DEFINE row == rows[s]
             saved == file.trade[s]
             r == Restored(s, up, file, newer)
             b == SanitizedTrade(s, r)
             r2 == Restored(s, up, f, newer)
  <1>1. /\ r \in TradeRecord /\ r2 \in TradeRecord /\ b \in TradeRecord
        /\ saved \in TradeRecord /\ row \in Row /\ now \in Nat
    BY RestoredType, StoredTypes, SanitizedTradeType
  <1>2. Boot(s, up, file, newer) = b /\ Boot(s, up, f, newer) = SanitizedTrade(s, r2)
    BY DEF Boot
  <1>3. f.trade[s] = b
    BY <1>2
  <1>4. CASE ~(up /\ row.st # "NONE")
    <2>1. r2 = b
      BY <1>3, <1>4 DEF Restored
    <2> QED
      BY <1>1, <1>2, <2>1, SanitizedTradeTwice
  <1>5. CASE up /\ row.st # "NONE"
    <2> DEFINE Later(l) == l.st # "NONE" /\ (l.at > row.at \/ (newer /\ l.at = row.at))
               Leg(n) == IF ~row.fill /\ newer /\ n # NoLegs THEN n ELSE LegsFromRow(row)
    <2>1. r = [sig |-> IF saved.sig.upd > now THEN saved.sig ELSE FromRow(row),
               led |-> IF Later(saved.led) THEN saved.led ELSE RecordOf(row),
               leg |-> Leg(saved.leg)]
      BY <1>5 DEF Restored
    <2>2. r2 = [sig |-> IF b.sig.upd > now THEN b.sig ELSE FromRow(row),
                led |-> IF Later(b.led) THEN b.led ELSE RecordOf(row),
                leg |-> Leg(b.leg)]
      BY <1>3, <1>5 DEF Restored
    <2>3. /\ b.sig.upd \in {r.sig.upd, now} /\ b.led.at = r.led.at /\ b.leg = r.leg
          /\ b.led.st = "NONE" <=> r.led.st = "NONE"
          /\ b.led = SanitizedRecord(r.led)
      BY <1>1, SanitizedKeeps
    <2>4. /\ saved.sig.upd <= now /\ saved.sig.upd \in Int
          /\ r.led \in AuditRecord /\ r.sig \in SignalRecord
      BY <1>1 DEF AgesOK, TradeRecord, SignalRecord, Times, NoTime
    <2>5. FromRow(row).upd = now
      BY <1>1, FromRowType
    <2> HIDE DEF row, saved, r, b, r2
    <2>6. r2.sig = r.sig
      <3>1. r.sig = FromRow(row)
        BY <1>1, <2>1, <2>4
      <3>2. ~(b.sig.upd > now)
        BY <1>1, <2>3, <2>5, <3>1
      <3> QED
        BY <2>2, <3>1, <3>2
    <2>7. r2.leg = r.leg
      BY <2>1, <2>2, <2>3
    <2>8. SanitizedRecord(r2.led) = SanitizedRecord(r.led)
      <3>1. Later(b.led) <=> Later(r.led)
        BY <2>3
      <3>2. CASE Later(b.led)
        BY <2>2, <2>3, <2>4, <3>2, SanitizedRecordTwice
      <3>3. CASE ~Later(b.led)
        <4>1. ~Later(saved.led)
          BY <2>1, <3>1, <3>3
        <4> QED
          BY <2>1, <2>2, <3>3, <4>1
      <3> QED
        BY <3>2, <3>3
    <2>9. SanitizedTrade(s, r2) = SanitizedTrade(s, r)
      BY <2>6, <2>7, <2>8 DEF SanitizedTrade
    <2> QED
      BY <1>2, <2>9 DEF b
  <1> QED
    BY <1>4, <1>5

\* A crash right after a start-up costs nothing: the second one finds the same
\* signals, records and residuals, with or without the database.
THEOREM RestartsAreIdempotent == RestoreSpec => []RestartIdempotent
  <1>1. RestoreTypeOK /\ Kept => RestartIdempotent
    <2> SUFFICES ASSUME RestoreTypeOK, Kept, file.here, NEW s \in Signals, NEW up \in BOOLEAN,
                        NEW newer \in BOOLEAN
                 PROVE  Boot(s, up, FileAfter(up, file, newer), newer) = Boot(s, up, file, newer)
      BY DEF RestartIdempotent
    <2> DEFINE f == FileAfter(up, file, newer)
    <2> DEFINE same == \A u \in Signals :
                          Boot(u, up, file, newer).sig = Restored(u, up, file, newer).sig
    <2>1. CASE same
      BY <2>1 DEF FileAfter
    <2>2. CASE ~same
      <3>1. f = [here |-> TRUE, run |-> boots + 1,
                 trade |-> [u \in Signals |-> Boot(u, up, file, newer)]]
        BY <2>2 DEF FileAfter
      <3>2. file \in FileRecord /\ boots + 1 \in Nat
        BY DEF RestoreTypeOK, FileRecord
      <3>3. f \in FileRecord
        BY <3>1, <3>2, BootType DEF FileRecord
      <3> HIDE DEF f
      <3>4. f.here /\ f.trade[s] = Boot(s, up, file, newer)
        BY <3>1
      <3> QED
        BY <3>3, <3>4, BootAgain DEF f, Kept
    <2> QED
      BY <2>1, <2>2
  <1> QED
    BY <1>1, RestoredStateIsTyped, AlwaysKept, PTL
=============================================================================
