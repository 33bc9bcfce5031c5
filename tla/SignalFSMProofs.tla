--------------------------- MODULE SignalFSMProofs ---------------------------
(***************************************************************************)
(* Theorems of SignalFSM, for every set of signals, every price ladder and *)
(* every setting of the clocks.                                            *)
(***************************************************************************)
EXTENDS SignalFSM, TLAPS

\* The record a transition writes is a signal record.
LEMMA MovedType ==
    ASSUME NEW s \in Signals, NEW r \in SignalRecord, NEW to \in States, NEW t \in Nat
    PROVE  Moved(s, r, to, t) \in SignalRecord
  <1> DEFINE ts == IF to = "CONFIRMED" /\ r.tstop = NoTime THEN t + TimeStop ELSE r.tstop
             t1 == IF to = "TARGET_1_HIT" THEN t ELSE r.t1At
             rs == IF to = "TARGET_1_HIT" THEN t + RunnerTtl ELSE r.rstop
             sl == IF to = "TARGET_1_HIT" /\ ~r.be
                   THEN Tighter(s, r.sl, Level[s].cost) ELSE r.sl
             be == IF to = "TARGET_1_HIT" THEN TRUE ELSE r.be
  <1>1. r.tstop \in Times /\ r.t1At \in Times /\ r.rstop \in Times /\ r.be \in BOOLEAN
        /\ r.sl \in Int /\ r.ver \in Nat
    BY DEF SignalRecord
  <1>2. TimeStop \in Nat /\ RunnerTtl \in Nat
    BY ConstantTypes
  <1>3. t \in Times /\ t + TimeStop \in Times /\ t + RunnerTtl \in Times
    BY <1>2 DEF Times
  <1>4. ts \in Times /\ t1 \in Times /\ rs \in Times /\ be \in BOOLEAN
    BY <1>1, <1>3
  <1>5. sl \in Int
    BY <1>1, ConstantTypes DEF Tighter
  <1>6. r.ver + 1 \in Nat
    BY <1>1
  <1>7. Moved(s, r, to, t) =
          [r EXCEPT !.st = to, !.ver = r.ver + 1, !.upd = t, !.hist = to, !.tstop = ts,
                    !.t1At = t1, !.rstop = rs, !.sl = sl, !.be = be]
    BY DEF Moved
  <1> HIDE DEF ts, t1, rs, sl, be
  <1>8. [r EXCEPT !.st = to, !.ver = r.ver + 1, !.upd = t, !.hist = to, !.tstop = ts,
                  !.t1At = t1, !.rstop = rs, !.sl = sl, !.be = be] \in SignalRecord
    BY <1>3, <1>4, <1>5, <1>6 DEF SignalRecord
  <1> QED
    BY <1>7, <1>8

\* The sweep sends a signal to a state of the table.
LEMMA SweepTargetType ==
    ASSUME NEW r \in SignalRecord, NEW t
    PROVE  /\ SweepTarget(r, t) \in States \cup {"ABSENT"}
           /\ SweepTarget(r, t) # r.st => SweepTarget(r, t) \in Terminal
  BY DEF SweepTarget, SignalRecord, States, Terminal, PreTrigger

LEMMA AbsentType == Absent \in SignalRecord
  BY DEF Absent, SignalRecord, Times, NoTime

\* A settlement intent has the ledger's type.
LEMMA SettlementType ==
    ASSUME NEW s \in Signals, NEW r \in SignalRecord, NEW to
    PROVE  SettlementOf(s, r, to) \subseteq [sig : Signals, ver : Nat, state : Terminal]
  BY DEF SettlementOf, SignalRecord

LEMMA TransitionType ==
    ASSUME TypeOK, NEW s \in Signals, NEW to \in States, Transition(s, to)
    PROVE  TypeOK'
  <1>1. sigs[s] \in SignalRecord /\ now \in Nat
    BY DEF TypeOK
  <1>2. Moved(s, sigs[s], to, now) \in SignalRecord
    BY <1>1, MovedType
  <1>3. SettlementOf(s, sigs[s], to) \subseteq [sig : Signals, ver : Nat, state : Terminal]
    BY <1>1, SettlementType
  <1> QED
    BY <1>2, <1>3 DEF TypeOK, Transition

LEMMA RatchetType ==
    ASSUME TypeOK, NEW s \in Signals, NEW p \in Int, Ratchet(s, p)
    PROVE  TypeOK'
  <1>1. sigs[s] \in SignalRecord
    BY DEF TypeOK
  <1>2. RatchetStop(s, p) \in Int
    BY ConstantTypes DEF RatchetStop, Ticks
  <1>3. [sigs[s] EXCEPT !.sl = RatchetStop(s, p), !.be = TRUE, !.hist = sigs[s].st]
          \in SignalRecord
    BY <1>1, <1>2 DEF SignalRecord
  <1>4. sigs' = [sigs EXCEPT ![s] = [sigs[s] EXCEPT !.sl = RatchetStop(s, p), !.be = TRUE,
                                                    !.hist = sigs[s].st]]
    BY <1>1 DEF Ratchet, CanRatchet, TypeOK
  <1> QED
    BY <1>3, <1>4 DEF TypeOK, Ratchet

LEMMA SweepType ==
    ASSUME TypeOK, Sweep
    PROVE  TypeOK'
  <1>1. PICK P \in PruneSets(Swept(sigs, now)) :
          /\ sigs' = [s \in Signals |-> IF s \in P THEN Absent ELSE Swept(sigs, now)[s]]
          /\ intents' = intents \cup SweepIntents(sigs, now)
          /\ retired' = retired \cup P
          /\ now' = now
    BY DEF Sweep
  <1>2. P \subseteq Signals
    BY <1>1 DEF PruneSets
  <1>3. ASSUME NEW s \in Signals
        PROVE  Swept(sigs, now)[s] \in SignalRecord
    <2>1. sigs[s] \in SignalRecord /\ now \in Nat
      BY DEF TypeOK
    <2>2. SweepTarget(sigs[s], now) # sigs[s].st => SweepTarget(sigs[s], now) \in States
      BY <2>1, SweepTargetType DEF States
    <2> QED
      BY <2>1, <2>2, MovedType DEF Swept
  <1>4. SweepIntents(sigs, now) \subseteq [sig : Signals, ver : Nat, state : Terminal]
    BY SettlementType DEF SweepIntents, TypeOK
  <1>5. sigs' \in [Signals -> SignalRecord]
    BY <1>1, <1>3, AbsentType
  <1> QED
    BY <1>1, <1>2, <1>4, <1>5 DEF TypeOK

\* Every state the manager reaches is well typed.
THEOREM TypeInvariant == Spec => []TypeOK
  <1>1. Init => TypeOK
    BY AbsentType DEF Init, TypeOK
  <1>2. TypeOK /\ [Next]_vars => TypeOK'
    <2> SUFFICES ASSUME TypeOK, [Next]_vars PROVE TypeOK'
      OBVIOUS
    <2>1. ASSUME NEW s \in Signals, NEW birth \in Births, NEW degraded \in BOOLEAN,
                 Register(s, birth, degraded)
          PROVE  TypeOK'
      <3> DEFINE rec == [Absent EXCEPT !.st = birth, !.ver = 1, !.born = now,
                                       !.exp = now + Ttl, !.upd = now,
                                       !.sl = Level[s].stop, !.fno = degraded, !.hist = birth]
      <3>1. birth \in States /\ now \in Times /\ now + Ttl \in Times /\ Level[s].stop \in Int
        BY <2>1, ConstantTypes DEF TypeOK, Times, States, PreTrigger
      <3>2. rec \in SignalRecord
        BY <3>1, AbsentType DEF SignalRecord
      <3> HIDE DEF rec
      <3>3. sigs' = [sigs EXCEPT ![s] = rec]
        BY <2>1 DEF Register, rec
      <3> QED
        BY <2>1, <3>2, <3>3 DEF TypeOK, Register
    <2>2. ASSUME NEW s \in Signals, NEW to \in States, Request(s, to)
          PROVE  TypeOK'
      BY <2>2, TransitionType DEF Request
    <2>3. ASSUME NEW s \in Signals, NEW p \in Prices, OnTick(s, p)
          PROVE  TypeOK'
      <3>1. p \in Int
        BY ConstantTypes
      <3> QED
        BY <2>3, <3>1, TransitionType, RatchetType DEF OnTick
    <2>4. ASSUME NEW s \in Signals, Delete(s)
          PROVE  TypeOK'
      <3>1. sigs[s] \in SignalRecord /\ now \in Times
        BY DEF TypeOK, Times
      <3>2. [sigs[s] EXCEPT !.hist = "CLOSED"] \in SignalRecord
        BY <3>1 DEF SignalRecord, States, Terminal
      <3>3. sigs[s].ver + 1 \in Nat
        BY <3>1 DEF SignalRecord
      <3>4. [sigs[s] EXCEPT !.st = "CLOSED", !.ver = sigs[s].ver + 1, !.upd = now,
                            !.hist = "CLOSED"] \in SignalRecord
        BY <3>1, <3>3 DEF SignalRecord, States, Terminal
      <3>5. Tombstoned(sigs[s], now) \in SignalRecord
        BY <3>2, <3>4 DEF Tombstoned
      <3> QED
        BY <2>4, <3>5 DEF TypeOK, Delete
    <2>5. ASSUME NEW s \in Signals, EntryFill(s)
          PROVE  TypeOK'
      <3>0. sigs[s] \in SignalRecord /\ Qty \in Nat
        BY ConstantTypes DEF TypeOK
      <3>1. [sigs[s] EXCEPT !.paper = TRUE, !.rem = Qty] \in SignalRecord
        BY <3>0 DEF SignalRecord
      <3>2. sigs' = [sigs EXCEPT ![s] = [sigs[s] EXCEPT !.paper = TRUE, !.rem = Qty]]
        BY <2>5 DEF EntryFill, TypeOK
      <3> QED
        BY <2>5, <3>1, <3>2 DEF TypeOK, EntryFill
    <2>6. ASSUME NEW s \in Signals, NEW q \in 1 .. Qty, BookExit(s, q)
          PROVE  TypeOK'
      <3>1. sigs[s] \in SignalRecord /\ q \in Nat /\ q <= sigs[s].rem
        BY <2>6, ConstantTypes DEF TypeOK, BookExit
      <3>2. sigs[s].rem - q \in Nat
        BY <3>1 DEF SignalRecord
      <3>3. [sigs[s] EXCEPT !.rem = sigs[s].rem - q] \in SignalRecord
        BY <3>1, <3>2 DEF SignalRecord
      <3>4. sigs' = [sigs EXCEPT ![s] = [sigs[s] EXCEPT !.rem = sigs[s].rem - q]]
        BY <2>6 DEF BookExit, TypeOK
      <3> QED
        BY <2>6, <3>3, <3>4 DEF TypeOK, BookExit
    <2>7. CASE Sweep
      BY <2>7, SweepType
    <2>8. CASE ClockTick
      BY <2>8 DEF TypeOK, ClockTick
    <2>9. CASE UNCHANGED vars
      BY <2>9 DEF TypeOK, vars
    <2> QED
      BY <2>1, <2>2, <2>3, <2>4, <2>5, <2>6, <2>7, <2>8, <2>9 DEF Next
  <1> QED
    BY <1>1, <1>2, PTL DEF Spec

-----------------------------------------------------------------------------

\* What a transition does to the fields the properties speak of.
LEMMA MovedFields ==
    ASSUME NEW s \in Signals, NEW r \in SignalRecord, NEW to \in States, NEW t \in Nat
    PROVE  /\ Moved(s, r, to, t).st = to
           /\ Moved(s, r, to, t).ver = r.ver + 1
           /\ Reached(s, Moved(s, r, to, t).sl, r.sl)
  <1>1. Level[s].cost \in Int /\ r.sl \in Int /\ Dir[s] \in Directions
    BY ConstantTypes DEF SignalRecord
  <1>2. Moved(s, r, to, t).st = to /\ Moved(s, r, to, t).ver = r.ver + 1
    BY DEF Moved, SignalRecord
  <1>3. Moved(s, r, to, t).sl = IF to = "TARGET_1_HIT" /\ ~r.be
                                THEN Tighter(s, r.sl, Level[s].cost) ELSE r.sl
    BY DEF Moved, SignalRecord
  <1>4. Reached(s, Tighter(s, r.sl, Level[s].cost), r.sl) /\ Reached(s, r.sl, r.sl)
    BY <1>1 DEF Reached, Tighter
  <1> QED
    BY <1>2, <1>3, <1>4

\* What one step does to one signal that is in the dictionary before and after.
SignalStep(s) ==
    LET r == sigs[s]  r2 == sigs'[s] IN
    \/ r2.st = r.st /\ r2.ver = r.ver /\ Reached(s, r2.sl, r.sl)
    \/ \E to \in States : /\ r2 = Moved(s, r, to, now)
                          /\ r.st \in States /\ to \in AllowedTransitions[r.st]
                          /\ to \in Terminal =>
                               [sig |-> s, ver |-> r2.ver, state |-> to] \in intents'
    \/ r2.st = "CLOSED" /\ r.st # "CLOSED" /\ r2.ver = r.ver + 1 /\ r2.sl = r.sl

LEMMA ReachedReflexive ==
    ASSUME NEW s \in Signals, NEW p \in Int
    PROVE  Reached(s, p, p)
  BY DEF Reached

LEMMA SelfLoopFree ==
    ASSUME NEW st \in States, NEW to \in AllowedTransitions[st]
    PROVE  st # to
  BY DEF AllowedTransitions, States, PreTrigger, Terminal

LEMMA TransitionStep ==
    ASSUME TypeOK, NEW s \in Signals, NEW to \in States, Transition(s, to), NEW u \in Signals
    PROVE  SignalStep(u)
  <1>1. sigs[u] \in SignalRecord /\ sigs[s] \in SignalRecord /\ now \in Nat
    BY DEF TypeOK
  <1>2. CASE u # s
    <2>1. sigs'[u] = sigs[u] /\ sigs[u].sl \in Int
      BY <1>1, <1>2 DEF TypeOK, Transition, SignalRecord
    <2> QED
      BY <2>1, ReachedReflexive DEF SignalStep
  <1>3. CASE u = s
    <2>1. sigs'[s] = Moved(s, sigs[s], to, now)
      BY DEF TypeOK, Transition
    <2>2. sigs[s].st \in States /\ to \in AllowedTransitions[sigs[s].st]
      BY <1>1 DEF Transition, Legal, Here, SignalRecord
    <2>3. to \in Terminal => [sig |-> s, ver |-> sigs'[s].ver, state |-> to] \in intents'
      BY <1>1, <2>1, MovedFields DEF Transition, SettlementOf
    <2> QED
      BY <1>3, <2>1, <2>2, <2>3 DEF SignalStep
  <1> QED
    BY <1>2, <1>3

\* The sweep only takes edges of the transition table.
LEMMA SweepTakesEdges ==
    ASSUME NEW r \in SignalRecord, NEW t, r.st # "ABSENT", SweepTarget(r, t) # r.st
    PROVE  r.st \in States /\ SweepTarget(r, t) \in AllowedTransitions[r.st]
  <1>1. r.st \in States
    BY DEF SignalRecord
  <1> QED
    BY <1>1 DEF SweepTarget, AllowedTransitions, PreTrigger

LEMMA AbsentNotSwept ==
    ASSUME NEW r, r.st = "ABSENT", NEW t
    PROVE  SweepTarget(r, t) = r.st
  BY DEF SweepTarget, PreTrigger

LEMMA SweepStep ==
    ASSUME TypeOK, Sweep, NEW u \in Signals, Here(u), Here(u)'
    PROVE  SignalStep(u)
  <1>1. PICK P \in PruneSets(Swept(sigs, now)) :
          /\ sigs' = [s \in Signals |-> IF s \in P THEN Absent ELSE Swept(sigs, now)[s]]
          /\ intents' = intents \cup SweepIntents(sigs, now)
    BY DEF Sweep
  <1>2. sigs'[u] = Swept(sigs, now)[u] /\ sigs[u] \in SignalRecord /\ now \in Nat
    BY <1>1 DEF Here, Absent, TypeOK
  <1> DEFINE to == SweepTarget(sigs[u], now)
  <1>3. CASE to = sigs[u].st
    <2>1. sigs'[u] = sigs[u] /\ sigs[u].sl \in Int
      BY <1>2, <1>3 DEF Swept, SignalRecord
    <2> QED
      BY <2>1, ReachedReflexive DEF SignalStep
  <1>4. CASE to # sigs[u].st
    <2>1. sigs'[u] = Moved(u, sigs[u], to, now)
      BY <1>2, <1>4 DEF Swept
    <2>2. sigs[u].st \in States /\ to \in AllowedTransitions[sigs[u].st]
      BY <1>2, <1>4, SweepTakesEdges DEF Here
    <2>3. to \in Terminal /\ to \in States
      BY <1>2, <1>4, SweepTargetType DEF States
    <2>4. [sig |-> u, ver |-> sigs[u].ver + 1, state |-> to] \in intents'
      BY <1>1, <1>4, <2>3 DEF SweepIntents, SettlementOf
    <2>5. sigs'[u].ver = sigs[u].ver + 1
      BY <1>2, <2>1, <2>3, MovedFields
    <2> HIDE DEF to
    <2> QED
      BY <2>1, <2>2, <2>3, <2>4, <2>5 DEF SignalStep
  <1> QED
    BY <1>3, <1>4

\* Every step of the manager does one of the things SignalStep lists to every
\* signal it keeps.
LEMMA NextStep ==
    ASSUME TypeOK, [Next]_vars, NEW u \in Signals, Here(u), Here(u)'
    PROVE  SignalStep(u)
  <1>1. sigs[u] \in SignalRecord /\ sigs[u].sl \in Int
    BY DEF TypeOK, SignalRecord
  <1>2. sigs'[u] = sigs[u] => SignalStep(u)
    BY <1>1, ReachedReflexive DEF SignalStep
  <1>3. ASSUME NEW s \in Signals, NEW birth \in Births, NEW degraded \in BOOLEAN,
               Register(s, birth, degraded)
        PROVE  SignalStep(u)
    BY <1>2, <1>3 DEF Register, TypeOK, Here
  <1>4. ASSUME NEW s \in Signals, NEW to \in States, Transition(s, to)
        PROVE  SignalStep(u)
    BY <1>4, TransitionStep
  <1>5. ASSUME NEW s \in Signals, NEW p \in Int, Ratchet(s, p)
        PROVE  SignalStep(u)
    <2>1. CASE u = s
      <3>1. sigs'[u].st = sigs[u].st /\ sigs'[u].ver = sigs[u].ver
              /\ sigs'[u].sl = RatchetStop(s, p)
        BY <1>1, <1>5, <2>1 DEF Ratchet, CanRatchet, TypeOK, SignalRecord
      <3> QED
        BY <1>5, <2>1, <3>1 DEF Ratchet, CanRatchet, Beyond, SignalStep
    <2>2. CASE u # s
      BY <1>2, <1>5, <2>2 DEF Ratchet, CanRatchet, TypeOK
    <2> QED
      BY <2>1, <2>2
  <1>6. ASSUME NEW s \in Signals, NEW p \in Prices, OnTick(s, p)
        PROVE  SignalStep(u)
    BY <1>4, <1>5, <1>6, ConstantTypes DEF OnTick
  <1>7. ASSUME NEW s \in Signals, Delete(s)
        PROVE  SignalStep(u)
    <2>1. CASE u = s
      <3>1. sigs'[u] = Tombstoned(sigs[u], now)
        BY <1>7, <2>1 DEF Delete, TypeOK
      <3>2. CASE sigs[u].st # "CLOSED"
                 /\ ("CLOSED" \in AllowedTransitions[sigs[u].st] \/ sigs[u].st \in Terminal)
        BY <1>1, <3>1, <3>2 DEF Tombstoned, SignalRecord, SignalStep
      <3>3. CASE ~(sigs[u].st # "CLOSED"
                 /\ ("CLOSED" \in AllowedTransitions[sigs[u].st] \/ sigs[u].st \in Terminal))
        <4>1. sigs'[u] = [sigs[u] EXCEPT !.hist = "CLOSED"]
          BY <3>1, <3>3 DEF Tombstoned
        <4>2. sigs'[u].st = sigs[u].st /\ sigs'[u].ver = sigs[u].ver /\ sigs'[u].sl = sigs[u].sl
          BY <1>1, <4>1 DEF SignalRecord
        <4> QED
          BY <1>1, <4>2, ReachedReflexive DEF SignalStep
      <3> QED
        BY <3>2, <3>3
    <2>2. CASE u # s
      BY <1>2, <1>7, <2>2 DEF Delete, TypeOK
    <2> QED
      BY <2>1, <2>2
  <1>8. ASSUME NEW s \in Signals, EntryFill(s) \/ \E q \in 1 .. Qty : BookExit(s, q)
        PROVE  SignalStep(u)
    <2>1. sigs'[u].st = sigs[u].st /\ sigs'[u].ver = sigs[u].ver /\ sigs'[u].sl = sigs[u].sl
      BY <1>1, <1>8 DEF EntryFill, BookExit, TypeOK, SignalRecord
    <2> QED
      BY <1>1, <2>1, ReachedReflexive DEF SignalStep
  <1>9. CASE Sweep
    BY <1>9, SweepStep
  <1>10. CASE ClockTick
    BY <1>2, <1>10 DEF ClockTick
  <1>11. CASE UNCHANGED vars
    BY <1>2, <1>11 DEF vars
  <1> QED
    BY <1>3, <1>4, <1>6, <1>7, <1>8, <1>9, <1>10, <1>11 DEF Next, Request

\* A signal that is not in the dictionary enters it by a registration only.
LEMMA AbsentStep ==
    ASSUME TypeOK, [Next]_vars, NEW s \in Signals, ~Here(s)
    PROVE  \/ sigs'[s].st = "ABSENT"
           \/ \E birth \in Births, degraded \in BOOLEAN : Register(s, birth, degraded)
  <1>1. ASSUME NEW u \in Signals, NEW birth \in Births, NEW degraded \in BOOLEAN,
               Register(u, birth, degraded), u # s
        PROVE  sigs'[s] = sigs[s]
    BY <1>1 DEF Register, TypeOK
  <1>2. ASSUME NEW u \in Signals, NEW to \in States, Transition(u, to)
        PROVE  sigs'[s] = sigs[s]
    BY <1>2 DEF Transition, Here, TypeOK
  <1>3. ASSUME NEW u \in Signals, NEW p, OnTick(u, p)
        PROVE  sigs'[s] = sigs[s]
    <2>1. Here(u) /\ s # u
      BY <1>3 DEF OnTick
    <2>2. Ratchet(u, p) => sigs'[s] = sigs[s]
      BY <2>1 DEF Ratchet, CanRatchet, TypeOK
    <2> QED
      BY <1>2, <1>3, <2>2 DEF OnTick
  <1>4. ASSUME NEW u \in Signals,
               Delete(u) \/ EntryFill(u) \/ \E q \in 1 .. Qty : BookExit(u, q)
        PROVE  sigs'[s] = sigs[s]
    BY <1>4 DEF Delete, EntryFill, BookExit, Here, TypeOK
  <1>5. ClockTick \/ UNCHANGED vars => sigs'[s] = sigs[s]
    BY DEF ClockTick, vars
  <1>6. CASE Sweep
    <2>1. Swept(sigs, now)[s] = sigs[s]
      BY AbsentNotSwept DEF Swept, Here
    <2> QED
      BY <1>6, <2>1 DEF Sweep, Absent, Here
  <1> QED
    BY <1>1, <1>2, <1>3, <1>4, <1>5, <1>6 DEF Next, Request, Here

-----------------------------------------------------------------------------

\* current_stop_loss never moves away from the market, whichever of the
\* ratchet, the target-1 hit, a sweep or a caller writes the signal.
THEOREM StopNeverLoosens == Spec => StopOnlyTightens
  <1>1. TypeOK /\ [Next]_vars =>
          \A s \in Signals : Here(s) /\ Here(s)' => Reached(s, sigs'[s].sl, sigs[s].sl)
    <2> SUFFICES ASSUME TypeOK, [Next]_vars, NEW s \in Signals, Here(s), Here(s)'
                 PROVE  Reached(s, sigs'[s].sl, sigs[s].sl)
      OBVIOUS
    <2>1. SignalStep(s)
      BY NextStep
    <2>2. sigs[s] \in SignalRecord /\ now \in Nat /\ sigs[s].sl \in Int
      BY DEF TypeOK, SignalRecord
    <2>3. ASSUME NEW to \in States, sigs'[s] = Moved(s, sigs[s], to, now)
          PROVE  Reached(s, sigs'[s].sl, sigs[s].sl)
      BY <2>2, <2>3, MovedFields
    <2> QED
      BY <2>1, <2>2, <2>3, ReachedReflexive DEF SignalStep
  <1>2. Spec => [][\A s \in Signals : Here(s) /\ Here(s)' =>
                     Reached(s, sigs'[s].sl, sigs[s].sl)]_vars
    BY <1>1, TypeInvariant, PTL DEF Spec
  <1> QED
    BY <1>2 DEF StopOnlyTightens

\* The version is the count of state changes of a signal.
THEOREM VersionIsMoveCount == Spec => VersionCountsMoves
  <1>1. TypeOK /\ [Next]_vars =>
          \A s \in Signals : Here(s) /\ Here(s)' =>
            sigs'[s].ver = sigs[s].ver + (IF sigs'[s].st = sigs[s].st THEN 0 ELSE 1)
    <2> SUFFICES ASSUME TypeOK, [Next]_vars, NEW s \in Signals, Here(s), Here(s)'
                 PROVE  sigs'[s].ver
                          = sigs[s].ver + (IF sigs'[s].st = sigs[s].st THEN 0 ELSE 1)
      OBVIOUS
    <2>1. SignalStep(s)
      BY NextStep
    <2>2. sigs[s] \in SignalRecord /\ now \in Nat /\ sigs[s].ver \in Nat
      BY DEF TypeOK, SignalRecord
    <2>3. ASSUME NEW to \in States, sigs'[s] = Moved(s, sigs[s], to, now),
                 sigs[s].st \in States, to \in AllowedTransitions[sigs[s].st]
          PROVE  sigs'[s].ver = sigs[s].ver + 1 /\ sigs'[s].st # sigs[s].st
      BY <2>2, <2>3, MovedFields, SelfLoopFree
    <2>4. \/ sigs'[s].st = sigs[s].st /\ sigs'[s].ver = sigs[s].ver
          \/ sigs'[s].st # sigs[s].st /\ sigs'[s].ver = sigs[s].ver + 1
      <3>1. CASE \E to \in States : /\ sigs'[s] = Moved(s, sigs[s], to, now)
                                    /\ sigs[s].st \in States
                                    /\ to \in AllowedTransitions[sigs[s].st]
        BY <2>3, <3>1
      <3> QED
        BY <2>1, <3>1 DEF SignalStep
    <2> QED
      BY <2>2, <2>4
  <1>2. Spec => [][\A s \in Signals : Here(s) /\ Here(s)' =>
                     sigs'[s].ver
                       = sigs[s].ver + (IF sigs'[s].st = sigs[s].st THEN 0 ELSE 1)]_vars
    BY <1>1, TypeInvariant, PTL DEF Spec
  <1> QED
    BY <1>2 DEF VersionCountsMoves

\* Every terminal outcome is backed by its settlement intent.  Inductive with
\* TypeOK: an outcome is entered only by a transition that adds the intent,
\* and the ledger never loses one.
THEOREM OutcomesAreSettled == Spec => []TerminalSettled
  <1>1. Init => TerminalSettled
    BY DEF Init, TerminalSettled, Absent, Terminal
  <1>2. TypeOK /\ TerminalSettled /\ [Next]_vars => TerminalSettled'
    <2> SUFFICES ASSUME TypeOK, TerminalSettled, [Next]_vars, NEW s \in Signals,
                        sigs'[s].st \in Terminal \ {"CLOSED"}
                 PROVE  [sig |-> s, ver |-> sigs'[s].ver, state |-> sigs'[s].st] \in intents'
      BY DEF TerminalSettled
    <2>1. intents \subseteq intents'
      BY DEF Next, vars, Register, Request, Transition, OnTick, Ratchet, Delete, EntryFill,
             BookExit, Sweep, ClockTick
    <2>2. sigs[s] \in SignalRecord /\ now \in Nat
      BY DEF TypeOK
    <2>3. CASE ~Here(s)
      <3>1. ASSUME NEW birth \in Births, NEW degraded \in BOOLEAN, Register(s, birth, degraded)
            PROVE  sigs'[s].st = birth
        BY <3>1, AbsentType DEF Register, TypeOK, SignalRecord
      <3> QED
        BY <2>3, <3>1, AbsentStep, ConstantTypes DEF Terminal
    <2>4. CASE Here(s)
      <3>1. SignalStep(s)
        BY <2>4, NextStep DEF Here, Terminal
      <3>2. ASSUME NEW to \in States, sigs'[s] = Moved(s, sigs[s], to, now),
                   to \in Terminal => [sig |-> s, ver |-> sigs'[s].ver, state |-> to] \in intents'
            PROVE  [sig |-> s, ver |-> sigs'[s].ver, state |-> sigs'[s].st] \in intents'
        <4>1. sigs'[s].st = to
          BY <2>2, <3>2, MovedFields
        <4> QED
          BY <3>2, <4>1
      <3>3. ASSUME sigs'[s].st = sigs[s].st, sigs'[s].ver = sigs[s].ver
            PROVE  [sig |-> s, ver |-> sigs'[s].ver, state |-> sigs'[s].st] \in intents'
        BY <2>1, <3>3 DEF TerminalSettled
      <3> QED
        BY <3>1, <3>2, <3>3 DEF SignalStep
    <2> QED
      BY <2>3, <2>4
  <1> QED
    BY <1>1, <1>2, TypeInvariant, PTL DEF Spec

\* An outcome never changes into another one: a terminal signal becomes CLOSED
\* or is pruned, and an id that was pruned stays out of the dictionary.
THEOREM OutcomesAreFinal == Spec => TerminalIsFinal
  <1> DEFINE Inv == \A s \in retired : ~Here(s)
  <1>1. Init => Inv
    BY DEF Init
  <1>2. TypeOK /\ Inv /\ [Next]_vars => Inv'
    <2> SUFFICES ASSUME TypeOK, Inv, [Next]_vars, NEW s \in retired'
                 PROVE  sigs'[s].st = "ABSENT"
      BY DEF Here
    <2>1. CASE Sweep /\ s \notin retired
      <3>1. PICK P \in PruneSets(Swept(sigs, now)) :
              /\ sigs' = [u \in Signals |-> IF u \in P THEN Absent ELSE Swept(sigs, now)[u]]
              /\ retired' = retired \cup P
        BY <2>1 DEF Sweep
      <3>2. s \in P /\ s \in Signals
        BY <2>1, <3>1 DEF PruneSets
      <3> QED
        BY <3>1, <3>2 DEF Absent
    <2>2. ~Sweep => retired' = retired
      BY DEF Next, vars, Register, Request, Transition, OnTick, Ratchet, Delete, EntryFill,
             BookExit, ClockTick
    <2>3. CASE s \in retired
      <3>1. s \in Signals /\ ~Here(s)
        BY <2>3 DEF TypeOK
      <3>2. ASSUME NEW birth \in Births, NEW degraded \in BOOLEAN
            PROVE  ~Register(s, birth, degraded)
        BY <2>3 DEF Register
      <3> QED
        BY <3>1, <3>2, AbsentStep
    <2> QED
      BY <2>1, <2>2, <2>3
  <1>3. TypeOK /\ Inv /\ Inv' /\ [Next]_vars =>
          \A s \in Signals :
             /\ sigs[s].st \in Terminal => sigs'[s].st \in {sigs[s].st, "CLOSED", "ABSENT"}
             /\ s \in retired => ~Here(s)'
    <2> SUFFICES ASSUME TypeOK, Inv, Inv', [Next]_vars, NEW s \in Signals
                 PROVE  /\ sigs[s].st \in Terminal =>
                               sigs'[s].st \in {sigs[s].st, "CLOSED", "ABSENT"}
                        /\ s \in retired => ~Here(s)'
      OBVIOUS
    <2>1. retired \subseteq retired'
      BY DEF Next, vars, Register, Request, Transition, OnTick, Ratchet, Delete, EntryFill,
             BookExit, Sweep, ClockTick
    <2>2. s \in retired => ~Here(s)'
      BY <2>1
    <2>3. ASSUME sigs[s].st \in Terminal, Here(s)'
          PROVE  sigs'[s].st \in {sigs[s].st, "CLOSED"}
      <3>1. Here(s)
        BY <2>3 DEF Here, Terminal
      <3>2. SignalStep(s)
        BY <2>3, <3>1, NextStep
      <3>3. sigs[s] \in SignalRecord /\ now \in Nat
        BY DEF TypeOK
      <3>4. ASSUME NEW to \in States, sigs'[s] = Moved(s, sigs[s], to, now),
                   to \in AllowedTransitions[sigs[s].st]
            PROVE  sigs'[s].st = "CLOSED"
        <4>1. sigs'[s].st = to
          BY <3>3, <3>4, MovedFields
        <4> QED
          BY <2>3, <3>4, <4>1 DEF AllowedTransitions, Terminal
      <3> QED
        BY <3>2, <3>4 DEF SignalStep
    <2> QED
      BY <2>2, <2>3 DEF Here
  <1>4. Spec => [][\A s \in Signals :
             /\ sigs[s].st \in Terminal => sigs'[s].st \in {sigs[s].st, "CLOSED", "ABSENT"}
             /\ s \in retired => ~Here(s)']_vars
    BY <1>1, <1>2, <1>3, TypeInvariant, PTL DEF Spec
  <1> QED
    BY <1>4 DEF TerminalIsFinal

-----------------------------------------------------------------------------
\* What keeps a runner protected, of one signal: its stop is no worse than the
\* registered one, strictly better once the ratchet has fired, and a runner
\* has fired it and has its clock.
Guarded(s, r) ==
    /\ Reached(s, r.sl, Level[s].stop)
    /\ r.be => Beyond(s, r.sl, Level[s].stop)
    /\ r.st = "TARGET_1_HIT" => r.be /\ r.rstop # NoTime

\* Every transition keeps it; the one to TARGET_1_HIT establishes it.
LEMMA MovedGuarded ==
    ASSUME NEW s \in Signals, NEW r \in SignalRecord, NEW to \in States, NEW t \in Nat,
           Guarded(s, r)
    PROVE  Guarded(s, Moved(s, r, to, t))
  <1> DEFINE m == Moved(s, r, to, t)
             tight == Tighter(s, r.sl, Level[s].cost)
  <1>1. /\ Level[s].cost \in Int /\ Level[s].stop \in Int /\ r.sl \in Int
        /\ Dir[s] \in Directions /\ RunnerTtl \in Nat /\ r.be \in BOOLEAN
    BY ConstantTypes DEF SignalRecord
  <1>2. m.st = to
    BY MovedFields
  <1>3. m.sl = IF to = "TARGET_1_HIT" /\ ~r.be THEN tight ELSE r.sl
    BY DEF Moved, SignalRecord
  <1>4. m.be = IF to = "TARGET_1_HIT" THEN TRUE ELSE r.be
    BY DEF Moved, SignalRecord
  <1>5. m.rstop = IF to = "TARGET_1_HIT" THEN t + RunnerTtl ELSE r.rstop
    BY DEF Moved, SignalRecord
  <1>6. Beyond(s, tight, Level[s].stop)
    BY <1>1, CostBeyondStop DEF Guarded, Tighter, Beyond, Reached
  <1> HIDE DEF m, tight
  <1>7. CASE to = "TARGET_1_HIT"
    <2>1. m.be /\ m.rstop # NoTime
      BY <1>1, <1>4, <1>5, <1>7 DEF NoTime
    <2>2. Beyond(s, m.sl, Level[s].stop)
      BY <1>3, <1>6, <1>7 DEF Guarded
    <2> QED
      BY <2>1, <2>2 DEF Guarded, Beyond, m
  <1>8. CASE to # "TARGET_1_HIT"
    BY <1>2, <1>3, <1>4, <1>8 DEF Guarded, m
  <1> QED
    BY <1>7, <1>8

\* The ratchet moves the stop beyond where it was, so beyond the registered one.
LEMMA RatchetGuarded ==
    ASSUME TypeOK, NEW s \in Signals, NEW p \in Int, Ratchet(s, p), Guarded(s, sigs[s])
    PROVE  Guarded(s, sigs'[s])
  <1>1. sigs[s] \in SignalRecord /\ sigs[s].sl \in Int /\ Level[s].stop \in Int
          /\ Level[s].cost \in Int
    BY ConstantTypes DEF TypeOK, SignalRecord
  <1>2. RatchetStop(s, p) \in Int
    BY <1>1 DEF RatchetStop, Ticks
  <1>3. /\ sigs'[s].st = sigs[s].st /\ sigs'[s].rstop = sigs[s].rstop
        /\ sigs'[s].sl = RatchetStop(s, p) /\ sigs'[s].be = TRUE
    BY <1>1 DEF Ratchet, CanRatchet, TypeOK, SignalRecord
  <1>4. Beyond(s, RatchetStop(s, p), Level[s].stop)
    BY <1>1, <1>2 DEF Ratchet, CanRatchet, Guarded, Beyond, Reached
  <1> QED
    BY <1>3, <1>4 DEF Guarded, Beyond

\* A runner never carries the risk its signal was registered with, in any
\* interleaving of ticks, ratchets, requests, fills and sweeps.
THEOREM RunnersAreProtected == Spec => []RunnerProtected
  <1> DEFINE Inv == \A s \in Signals : Here(s) => Guarded(s, sigs[s])
  <1>1. Init => Inv
    BY DEF Init, Here, Absent
  <1>2. TypeOK /\ Inv /\ [Next]_vars => Inv'
    <2> SUFFICES ASSUME TypeOK, Inv, [Next]_vars, NEW s \in Signals, Here(s)'
                 PROVE  Guarded(s, sigs'[s])
      OBVIOUS
    <2>1. sigs[s] \in SignalRecord /\ now \in Nat
      BY DEF TypeOK
    <2>2. CASE ~Here(s)
      <3>1. PICK birth \in Births, degraded \in BOOLEAN : Register(s, birth, degraded)
        BY <2>2, AbsentStep DEF Here
      <3>2. sigs'[s].st = birth /\ sigs'[s].be = FALSE /\ sigs'[s].sl = Level[s].stop
        BY <3>1, AbsentType DEF Register, TypeOK, SignalRecord, Absent
      <3> QED
        BY <3>2, ConstantTypes, ReachedReflexive DEF Guarded
    <2>3. ASSUME Here(s), sigs'[s].st = sigs[s].st \/ sigs'[s].st = "CLOSED",
                 sigs'[s].sl = sigs[s].sl, sigs'[s].be = sigs[s].be,
                 sigs'[s].rstop = sigs[s].rstop
          PROVE  Guarded(s, sigs'[s])
      BY <2>3 DEF Guarded
    <2>4. CASE Here(s)
      <3>1. ASSUME NEW u \in Signals, NEW birth \in Births, NEW degraded \in BOOLEAN,
                   Register(u, birth, degraded)
            PROVE  sigs'[s] = sigs[s]
        BY <2>4, <3>1 DEF Register, TypeOK
      <3>2. ASSUME NEW u \in Signals, NEW to \in States, Transition(u, to)
            PROVE  Guarded(s, sigs'[s])
        <4>1. CASE u = s
          BY <2>1, <2>4, <3>2, <4>1, MovedGuarded DEF Transition, TypeOK
        <4>2. CASE u # s
          BY <2>4, <3>2, <4>2 DEF Transition, TypeOK
        <4> QED
          BY <4>1, <4>2
      <3>3. ASSUME NEW u \in Signals, NEW p \in Int, Ratchet(u, p)
            PROVE  Guarded(s, sigs'[s])
        <4>1. CASE u = s
          BY <2>4, <3>3, <4>1, RatchetGuarded
        <4>2. CASE u # s
          BY <2>4, <3>3, <4>2 DEF Ratchet, CanRatchet, TypeOK
        <4> QED
          BY <4>1, <4>2
      <3>4. ASSUME NEW u \in Signals, NEW p \in Prices, OnTick(u, p)
            PROVE  Guarded(s, sigs'[s])
        BY <3>2, <3>3, <3>4, ConstantTypes DEF OnTick
      <3>5. ASSUME NEW u \in Signals, Delete(u)
            PROVE  Guarded(s, sigs'[s])
        <4>1. CASE u = s
          <5>1. sigs'[s] = Tombstoned(sigs[s], now)
            BY <3>5, <4>1 DEF Delete, TypeOK
          <5>2. /\ sigs'[s].st = sigs[s].st \/ sigs'[s].st = "CLOSED"
                /\ sigs'[s].sl = sigs[s].sl /\ sigs'[s].be = sigs[s].be
                /\ sigs'[s].rstop = sigs[s].rstop
            BY <2>1, <5>1 DEF Tombstoned, SignalRecord
          <5> QED
            BY <2>3, <2>4, <5>2
        <4>2. CASE u # s
          BY <2>4, <3>5, <4>2 DEF Delete, TypeOK
        <4> QED
          BY <4>1, <4>2
      <3>6. ASSUME NEW u \in Signals, EntryFill(u) \/ \E q \in 1 .. Qty : BookExit(u, q)
            PROVE  Guarded(s, sigs'[s])
        <4>1. /\ sigs'[s].st = sigs[s].st /\ sigs'[s].sl = sigs[s].sl
              /\ sigs'[s].be = sigs[s].be /\ sigs'[s].rstop = sigs[s].rstop
          BY <2>1, <3>6 DEF EntryFill, BookExit, TypeOK, SignalRecord
        <4> QED
          BY <2>3, <2>4, <4>1
      <3>7. CASE Sweep
        <4>1. sigs'[s] = Swept(sigs, now)[s]
          BY <3>7 DEF Sweep, Here, Absent
        <4>2. CASE SweepTarget(sigs[s], now) = sigs[s].st
          BY <2>4, <4>1, <4>2 DEF Swept
        <4>3. CASE SweepTarget(sigs[s], now) # sigs[s].st
          <5>1. SweepTarget(sigs[s], now) \in States
            BY <2>1, <4>3, SweepTargetType DEF States
          <5>2. sigs'[s] = Moved(s, sigs[s], SweepTarget(sigs[s], now), now)
            BY <4>1, <4>3 DEF Swept
          <5> QED
            BY <2>1, <2>4, <5>1, <5>2, MovedGuarded
        <4> QED
          BY <4>2, <4>3
      <3>8. CASE ClockTick \/ UNCHANGED vars
        BY <2>4, <3>8 DEF ClockTick, vars
      <3> QED
        BY <2>4, <3>1, <3>2, <3>4, <3>5, <3>6, <3>7, <3>8 DEF Next, Request
    <2> QED
      BY <2>2, <2>4
  <1>3. Inv => RunnerProtected
    BY DEF RunnerProtected, Guarded, Here
  <1> QED
    BY <1>1, <1>2, <1>3, TypeInvariant, PTL DEF Spec

\* A signal leaves the dictionary only when the sweep has found it terminal.
THEOREM PruningIsSafe == Spec => OnlyTerminalPruned
  <1>1. TypeOK /\ [Next]_vars =>
          \A s \in Signals : Here(s) /\ ~Here(s)' => SweepTarget(sigs[s], now) \in Terminal
    <2> SUFFICES ASSUME TypeOK, [Next]_vars, NEW s \in Signals, Here(s), ~Here(s)'
                 PROVE  SweepTarget(sigs[s], now) \in Terminal
      OBVIOUS
    <2>1. sigs[s] \in SignalRecord /\ now \in Nat /\ sigs'[s].st = "ABSENT"
      BY DEF TypeOK, Here
    <2> DEFINE to == SweepTarget(sigs[s], now)
    <2>2. Swept(sigs, now)[s].st = to
      <3>1. to # sigs[s].st => to \in States
        BY <2>1, SweepTargetType DEF States
      <3> QED
        BY <2>1, <3>1, MovedFields DEF Swept
    <2>3. CASE Sweep
      <3>1. PICK P \in PruneSets(Swept(sigs, now)) :
              sigs' = [u \in Signals |-> IF u \in P THEN Absent ELSE Swept(sigs, now)[u]]
        BY <2>3 DEF Sweep
      <3>2. CASE s \in P
        <4>1. Swept(sigs, now)[s].st \in Terminal
          BY <3>1, <3>2 DEF PruneSets
        <4> QED
          BY <2>2, <4>1
      <3>3. CASE s \notin P
        <4>1. to = "ABSENT"
          BY <2>1, <2>2, <3>1, <3>3
        <4>2. to \in Terminal
          BY <2>1, <4>1, SweepTargetType DEF Here
        <4> QED
          BY <4>2
      <3> QED
        BY <3>2, <3>3
    <2>4. CASE ~Sweep
      <3>1. ASSUME NEW u \in Signals, NEW to1 \in States, Transition(u, to1)
            PROVE  FALSE
        <4>1. CASE u = s
          <5>1. sigs'[s].st = to1
            BY <2>1, <3>1, <4>1, MovedFields DEF Transition, TypeOK
          <5> QED
            BY <2>1, <5>1 DEF States, PreTrigger, Terminal
        <4>2. CASE u # s
          BY <2>1, <3>1, <4>2 DEF Transition, TypeOK, Here
        <4> QED
          BY <4>1, <4>2
      <3>2. ASSUME NEW u \in Signals, NEW p, Ratchet(u, p)
            PROVE  FALSE
        <4>1. sigs'[s].st = sigs[s].st
          BY <2>1, <3>2 DEF Ratchet, CanRatchet, TypeOK, SignalRecord
        <4> QED
          BY <2>1, <4>1 DEF Here
      <3>3. ASSUME NEW u \in Signals, NEW p, OnTick(u, p)
            PROVE  FALSE
        BY <3>1, <3>2, <3>3 DEF OnTick
      <3>4. ASSUME NEW u \in Signals, Delete(u)
            PROVE  FALSE
        <4>1. sigs'[s].st = sigs[s].st \/ sigs'[s].st = "CLOSED"
          <5>1. CASE u = s
            BY <2>1, <3>4, <5>1 DEF Delete, Tombstoned, TypeOK, SignalRecord
          <5>2. CASE u # s
            BY <3>4, <5>2 DEF Delete, TypeOK
          <5> QED
            BY <5>1, <5>2
        <4> QED
          BY <2>1, <4>1 DEF Here
      <3>5. ASSUME NEW u \in Signals, EntryFill(u) \/ \E q \in 1 .. Qty : BookExit(u, q)
            PROVE  FALSE
        <4>1. sigs'[s].st = sigs[s].st
          BY <2>1, <3>5 DEF EntryFill, BookExit, TypeOK, SignalRecord
        <4> QED
          BY <2>1, <4>1 DEF Here
      <3>6. ASSUME NEW u \in Signals, NEW birth \in Births, NEW degraded \in BOOLEAN,
                   Register(u, birth, degraded)
            PROVE  FALSE
        BY <2>1, <3>6 DEF Register, TypeOK, Here
      <3>7. ~(ClockTick \/ UNCHANGED vars)
        BY <2>1 DEF ClockTick, vars, Here
      <3> QED
        BY <2>4, <3>1, <3>3, <3>4, <3>5, <3>6, <3>7 DEF Next, Request
    <2> QED
      BY <2>3, <2>4
  <1>2. Spec => [][\A s \in Signals : Here(s) /\ ~Here(s)' =>
                     SweepTarget(sigs[s], now) \in Terminal]_vars
    BY <1>1, TypeInvariant, PTL DEF Spec
  <1> QED
    BY <1>2 DEF OnlyTerminalPruned
=============================================================================
