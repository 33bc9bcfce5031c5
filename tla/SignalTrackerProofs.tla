------------------------- MODULE SignalTrackerProofs -------------------------
(***************************************************************************)
(* Theorems of SignalTracker, for every set of signals and requests: the   *)
(* copies of one trade that the code keeps in different objects agree,     *)
(* whatever tasks are suspended over them.                                 *)
(***************************************************************************)
EXTENDS SignalTracker, SignalFSMProofs

-----------------------------------------------------------------------------
(* The inductive invariant *)

Ordering == {"gate", "order"}
Closing == {"snap", "exit"}
Suspended == {"mark"} \cup Ordering \cup Closing

\* Task q is suspended over signal s at one of pcs.
On(q, s, pcs) == task[q].s = s /\ task[q].pc \in pcs

Actions == States \cup {"ABSENT", "none", "HOLD", "BE", "DELETED_BY_USER", "EOD_SQUAREOFF"}

TaskRecord ==
    [pc : {"idle", "loop"} \cup Suspended, op : {"none", "tick", "eod", "execute", "delete"},
     todo : SUBSET Signals, s : Signals \cup {"none"}, act : Actions, was : Actions,
     mark : BOOLEAN, n : Int, part : BOOLEAN, p : Int]

ReconRecord == [qty : Nat, rem : Nat, t1 : Nat, fin : Nat, done : BOOLEAN]
IntentRecord == [n : Nat, st : {"NONE", "SUBMITTED", "FILLED", "REJECTED"}]
Events == [sig : Signals, ver : Nat, state : States \cup {"DELETED"}]
Symbols == {Symbol[s] : s \in Signals}

\* What a suspended task knows of its own locals.
LocalsSound(x) ==
    /\ x \in TaskRecord
    /\ x.pc \in Suspended => x.s \in Signals
    /\ x.pc \in Ordering => x.n \in Nat \ {0}
    /\ x.pc \in {"mark"} \cup Closing => x.op \in {"tick", "eod", "delete"}
    /\ x.pc \in Closing => x.act # "CONFIRMED"
    /\ x.todo # {} => x.op \in {"tick", "eod"}
    /\ x.part => x.pc = "exit" /\ x.act = "TARGET_1_HIT"

TradeType ==
    /\ TypeOK
    /\ pos \in [Symbols -> Int]
    /\ recon \in [Signals -> ReconRecord]
    /\ audit \in [Signals -> Statuses]
    /\ mirror \subseteq Events
    /\ intent \in [Signals -> IntentRecord]
    /\ bought \in [Signals -> Nat]
    /\ sold \in [Signals -> Int]
    /\ orphan \in [Signals -> SignalRecord]
    /\ task \in [Tasks -> TaskRecord]
    /\ \A q \in Tasks : LocalsSound(task[q])

\* A signal leaves the dictionary for good, and has an audit record until then.
Life(s) ==
    /\ s \in retired => ~Here(s)
    /\ Here(s) => audit[s] # "NONE"
    /\ \A e \in mirror : e.sig = s /\ e.state = "DELETED" => s \in retired

\* Nothing refers to an id that was not registered yet.
Unborn(s) ==
    ~Here(s) /\ s \notin retired =>
        /\ recon[s].rem = 0 /\ audit[s] = "NONE" /\ intent[s].st = "NONE"
        /\ \A e \in mirror : e.sig # s
        /\ \A q \in Tasks : ~On(q, s, Suspended)

Residual(s) ==
    /\ Here(s) => sigs[s].rem = recon[s].rem
    /\ recon[s].t1 + recon[s].fin + recon[s].rem = recon[s].qty

\* How far the entry has come: at most one order is out for it, and none
\* any more once it has filled.
Entry(s) ==
    LET i == intent[s] IN
    /\ i.st = "NONE" => i.n = 0
    /\ i.st \in {"NONE", "SUBMITTED"} => bought[s] = 0 /\ recon[s].qty = 0
    /\ i.st \in {"SUBMITTED", "FILLED"} => i.n # 0
    /\ i.st = "FILLED" => bought[s] = i.n /\ recon[s].qty = i.n
    /\ \A q \in Tasks : On(q, s, {"order"}) =>
         /\ i.st \in {"SUBMITTED", "REJECTED"}
         /\ i.st = "SUBMITTED" =>
              task[q].n = i.n /\ \A r \in Tasks : On(r, s, {"order"}) => r = q

Paid(s) == intent[s].st \in {"FILLED", "REJECTED"}

\* Only a trade that was entered is closed, and its last exit is on record.
Exits(s) ==
    /\ Here(s) /\ sigs[s].paper => Paid(s)
    /\ Here(s) /\ intent[s].st = "FILLED" => sigs[s].paper
    /\ sigs[s].st \in {"CONFIRMED", "TARGET_1_HIT"} => sigs[s].paper
    /\ \A q \in Tasks : On(q, s, Closing) => Paid(s)
    /\ sigs[s].st \in {"TARGET_2_HIT", "STOP_LOSS_HIT"} =>
         Paid(s) /\ (intent[s].st = "FILLED" => audit[s] \in Settled)

Early == PreTrigger \cup {"PRE_ARMED"}

Unpaid(s) ==
    /\ ~sigs[s].paper /\ audit[s] \notin Settled
    /\ \A q \in Tasks : ~On(q, s, Closing)
    /\ \A e \in mirror : e.sig = s => e.state # "CLOSED"

\* Without requests of the desk only the tick orders, once per signal, and
\* until that order is answered nobody closes the trade or settles its record.
FirstEntry(s) ==
    "execute" \notin Acts =>
        /\ \A q \in Tasks : On(q, s, Ordering) => q = "tick" /\ sigs[s].st \notin Early
        /\ sigs[s].st \in Early \/ On("tick", s, Ordering) => Unpaid(s)

TradeInv ==
    /\ TradeType
    /\ \A s \in Signals : /\ Life(s) /\ Unborn(s) /\ Residual(s)
                          /\ Entry(s) /\ Exits(s) /\ FirstEntry(s)

-----------------------------------------------------------------------------
(* Worlds: what the components do to one signal within a step *)

WorldRecord ==
    [r : SignalRecord, in : BOOLEAN, rc : ReconRecord, au : Statuses, ev : SUBSET Events]

Won == {"TARGET_2_HIT", "STOP_LOSS_HIT"}

Sound(s, w) ==
    /\ w \in WorldRecord
    /\ w.rc.t1 + w.rc.fin + w.rc.rem = w.rc.qty
    /\ w.in => w.r.rem = w.rc.rem /\ w.r.st # "ABSENT" /\ w.au # "NONE"
    /\ w.in /\ w.r.st \in {"CONFIRMED", "TARGET_1_HIT"} => w.r.paper
    /\ \A e \in w.ev : e.sig = s /\ (e.state = "DELETED" => ~w.in)

\* From w to v no settled record was reopened, no signal waits again, and one
\* that got its outcome has a settled record.
Follows(w, v) ==
    /\ v.in => w.in
    /\ v.in => v.r.paper = w.r.paper
    /\ v.rc.qty = w.rc.qty
    /\ w.au \in Settled => v.au \in {w.au, "NONE"}
    /\ v.in /\ v.r.st \in Early => w.r.st \in Early
    /\ v.in /\ v.r.st \in Won => w.r.st \in Won \/ v.au \in Settled

LEMMA StateFacts ==
    /\ "ABSENT" \notin States /\ "DELETED" \notin States /\ "NONE" \notin States
    /\ Settled \subseteq Statuses /\ States \subseteq Statuses /\ Terminal \subseteq States
    /\ "NONE" \notin Settled /\ "WON" \notin States
    /\ {"NONE", "EXECUTED", "WON", "ARMED", "CONFIRMED"} \subseteq Statuses
    /\ Early \subseteq States /\ Early \cap Terminal = {} /\ PreTrigger \subseteq Early
    /\ {"CONFIRMED", "TARGET_1_HIT", "TRIGGERED"} \subseteq States \ Early
    /\ Won \subseteq Terminal
  BY DEF States, PreTrigger, Terminal, Statuses, Settled, Early, Won

\* The edges of the table that the invariant speaks of.
LEMMA TableFacts ==
    ASSUME NEW st \in States, NEW to \in AllowedTransitions[st]
    PROVE  /\ to \in States /\ st # to
           /\ to \in Early => st \in Early
           /\ to = "TARGET_1_HIT" => st = "CONFIRMED"
  BY DEF AllowedTransitions, States, PreTrigger, Terminal, Early

LEMMA MovedKeeps ==
    ASSUME NEW s \in Signals, NEW r \in SignalRecord, NEW to \in States, NEW t \in Nat
    PROVE  /\ Moved(s, r, to, t) \in SignalRecord
           /\ Moved(s, r, to, t).st = to
           /\ Moved(s, r, to, t).rem = r.rem
           /\ Moved(s, r, to, t).paper = r.paper
  <1>1. Moved(s, r, to, t) \in SignalRecord
    BY MovedType
  <1>2. /\ DOMAIN r = {"st", "ver", "born", "exp", "upd", "tstop", "rstop", "t1At", "sl", "be",
                        "paper", "rem", "fno", "hist"}
        /\ r = [f \in DOMAIN r |-> r[f]]
    BY DEF SignalRecord
  <1>3. Moved(s, r, to, t).st = to
    BY <1>2 DEF Moved
  <1>4. Moved(s, r, to, t).rem = r.rem
    BY <1>2 DEF Moved
  <1>5. Moved(s, r, to, t).paper = r.paper
    BY <1>2 DEF Moved
  <1> QED
    BY <1>1, <1>3, <1>4, <1>5

LEMMA WorldSound ==
    ASSUME TradeInv, NEW s \in Signals
    PROVE  /\ Sound(s, World(s)) /\ World(s).ev = {}
           /\ World(s).rc = recon[s] /\ World(s).au = audit[s]
           /\ World(s).in <=> Here(s)
           /\ Here(s) => World(s).r = sigs[s]
  <1>1. /\ sigs[s] \in SignalRecord /\ orphan[s] \in SignalRecord
        /\ recon[s] \in ReconRecord /\ audit[s] \in Statuses
        /\ Residual(s) /\ Life(s) /\ Exits(s)
    BY DEF TradeInv, TradeType, TypeOK
  <1>2. World(s) \in WorldRecord
    BY <1>1 DEF World, WorldRecord, Here
  <1> QED
    BY <1>1, <1>2 DEF World, Sound, Residual, Life, Exits, Here

LEMMA GoSound ==
    ASSUME now \in Nat, NEW s \in Signals, NEW w, Sound(s, w), NEW to,
           w.in /\ to = "CONFIRMED" => w.r.paper, NEW v, v = Go(s, w, to)
    PROVE  /\ Sound(s, v)
           /\ v.in = w.in /\ v.rc = w.rc /\ v.au = w.au /\ v.r.paper = w.r.paper
           /\ \/ v.r.st = w.r.st
              \/ w.in /\ v.r.st = to /\ to \in States /\ (to \in Early => w.r.st \in Early)
           /\ \A e \in v.ev : e \in w.ev \/ e.state = to
  <1>1. CASE ~(w.in /\ Legal(w.r, to))
    BY <1>1 DEF Go
  <1>2. CASE w.in /\ Legal(w.r, to)
    <2> DEFINE ev == [sig |-> s, ver |-> w.r.ver + 1, state |-> to]
               r  == Moved(s, w.r, to, now)
    <2>1. w.r \in SignalRecord /\ w.r.st \in States /\ w.r.ver \in Nat
      BY <1>2 DEF Sound, WorldRecord, SignalRecord
    <2>2. to \in AllowedTransitions[w.r.st]
      BY <1>2 DEF Legal
    <2>3. to \in States /\ (to \in Early => w.r.st \in Early)
            /\ (to = "TARGET_1_HIT" => w.r.st = "CONFIRMED")
      BY <2>1, <2>2, TableFacts
    <2>4. r \in SignalRecord /\ r.st = to /\ r.rem = w.r.rem /\ r.paper = w.r.paper
      BY <2>1, <2>3, MovedKeeps
    <2>5. ev \in Events /\ ev.sig = s /\ ev.state = to
      BY <2>1, <2>3 DEF Events
    <2>6. v = [w EXCEPT !.r = r, !.ev = w.ev \cup {ev}]
      BY <1>2 DEF Go, Sound, WorldRecord
    <2> HIDE DEF ev, r
    <2>7. v \in WorldRecord /\ v.r = r /\ v.in = w.in /\ v.rc = w.rc /\ v.au = w.au
            /\ v.ev = w.ev \cup {ev}
      BY <2>4, <2>5, <2>6 DEF Sound, WorldRecord
    <2>8. Sound(s, v)
      BY <1>2, <2>3, <2>4, <2>5, <2>7, StateFacts DEF Sound
    <2> QED
      BY <1>2, <2>3, <2>4, <2>5, <2>7, <2>8
  <1> QED
    BY <1>1, <1>2

LEMMA BookEntrySound ==
    ASSUME NEW s \in Signals, NEW w, Sound(s, w), NEW n, n \in Nat, NEW v, v = BookEntry(w, n)
    PROVE  /\ Sound(s, v)
           /\ v.in = w.in /\ v.rc.qty = n /\ v.au = w.au /\ v.ev = w.ev
           /\ v.r.paper /\ v.r.st = w.r.st
  <1> DEFINE rc == [qty |-> n, rem |-> n, t1 |-> 0, fin |-> 0, done |-> FALSE]
             r  == [w.r EXCEPT !.paper = TRUE, !.rem = n]
  <1>1. rc \in ReconRecord /\ rc.qty = n /\ rc.rem = n /\ rc.t1 + rc.fin + rc.rem = rc.qty
    BY DEF ReconRecord
  <1>2. r \in SignalRecord /\ r.rem = n /\ r.paper /\ r.st = w.r.st
    BY DEF Sound, WorldRecord, SignalRecord
  <1>3. v = [w EXCEPT !.rc = rc, !.r = r]
    BY DEF BookEntry, Sound, WorldRecord
  <1> HIDE DEF rc, r
  <1>4. v \in WorldRecord /\ v.r = r /\ v.rc = rc /\ v.in = w.in /\ v.au = w.au /\ v.ev = w.ev
    BY <1>1, <1>2, <1>3 DEF Sound, WorldRecord
  <1> QED
    BY <1>1, <1>2, <1>4 DEF Sound

\* A leg leaves the trade with the record rc.
Leg(w, rc) == [w EXCEPT !.rc = rc, !.r = [w.r EXCEPT !.rem = rc.rem]]

LEMMA LegSound ==
    ASSUME NEW s \in Signals, NEW w, Sound(s, w), NEW rc \in ReconRecord,
           rc.t1 + rc.fin + rc.rem = rc.qty, rc.qty = w.rc.qty,
           NEW v, v = Leg(w, rc)
    PROVE  Sound(s, v) /\ v.in = w.in /\ v.rc = rc /\ v.au = w.au /\ v.ev = w.ev
             /\ v.r.paper = w.r.paper /\ v.r.st = w.r.st
  <1> DEFINE r == [w.r EXCEPT !.rem = rc.rem]
  <1>1. r \in SignalRecord /\ r.rem = rc.rem /\ r.paper = w.r.paper /\ r.st = w.r.st
    BY DEF Sound, WorldRecord, SignalRecord, ReconRecord
  <1> HIDE DEF r
  <1>2. v \in WorldRecord /\ v.r = r /\ v.rc = rc /\ v.in = w.in /\ v.au = w.au /\ v.ev = w.ev
    BY <1>1 DEF Sound, WorldRecord, Leg, r
  <1> QED
    BY <1>1, <1>2 DEF Sound

LEMMA BookT1Sound ==
    ASSUME NEW s \in Signals, NEW w, Sound(s, w), NEW v, v = BookT1(w)
    PROVE  /\ Sound(s, v) /\ v.in = w.in /\ v.rc.qty = w.rc.qty /\ v.au = w.au /\ v.ev = w.ev
           /\ v.r.paper = w.r.paper /\ v.r.st = w.r.st
  <1> DEFINE n  == IF T1Lots(w.rc.qty) > w.rc.rem THEN w.rc.rem ELSE T1Lots(w.rc.qty)
             rc == [w.rc EXCEPT !.t1 = w.rc.t1 + n, !.rem = w.rc.rem - n]
  <1>1. w.rc \in ReconRecord /\ w.rc.rem \in Nat /\ w.rc.t1 \in Nat /\ w.rc.fin \in Nat
          /\ w.rc.qty \in Nat /\ w.rc.t1 + w.rc.fin + w.rc.rem = w.rc.qty
    BY DEF Sound, WorldRecord, ReconRecord
  <1>2. n \in Nat /\ n <= w.rc.rem
    BY <1>1 DEF T1Lots
  <1>3. v = [w EXCEPT !.rc = rc, !.r = [w.r EXCEPT !.rem = w.rc.rem - n]]
    BY DEF BookT1, Sound, WorldRecord, ReconRecord, SignalRecord
  <1> HIDE DEF n
  <1>a. w.rc.t1 + n \in Nat /\ w.rc.rem - n \in Nat
    BY <1>1, <1>2
  <1>b. rc \in ReconRecord /\ rc.t1 = w.rc.t1 + n /\ rc.rem = w.rc.rem - n
          /\ rc.fin = w.rc.fin /\ rc.qty = w.rc.qty
    BY <1>1, <1>a DEF ReconRecord
  <1>4. rc \in ReconRecord /\ rc.t1 + rc.fin + rc.rem = rc.qty /\ rc.qty = w.rc.qty
          /\ rc.rem = w.rc.rem - n
    BY <1>1, <1>2, <1>b
  <1> HIDE DEF rc
  <1>5. v = Leg(w, rc)
    BY <1>3, <1>4 DEF Leg
  <1>6. /\ Sound(s, v) /\ v.in = w.in /\ v.rc = rc /\ v.au = w.au /\ v.ev = w.ev
        /\ v.r.paper = w.r.paper /\ v.r.st = w.r.st
    BY <1>4, <1>5, LegSound
  <1> QED
    BY <1>4, <1>6

LEMMA BookFinalSound ==
    ASSUME NEW s \in Signals, NEW w, Sound(s, w), NEW v, v = BookFinal(w)
    PROVE  /\ Sound(s, v) /\ v.in = w.in /\ v.rc.qty = w.rc.qty /\ v.au = w.au /\ v.ev = w.ev
           /\ v.r.paper = w.r.paper /\ v.r.st = w.r.st
  <1> DEFINE rc == [w.rc EXCEPT !.fin = w.rc.fin + w.rc.rem, !.rem = 0, !.done = TRUE]
  <1>1. w.rc \in ReconRecord /\ w.rc.rem \in Nat /\ w.rc.t1 \in Nat /\ w.rc.fin \in Nat
          /\ w.rc.t1 + w.rc.fin + w.rc.rem = w.rc.qty
    BY DEF Sound, WorldRecord, ReconRecord
  <1>2. v = [w EXCEPT !.rc = rc, !.r = [w.r EXCEPT !.rem = 0]]
    BY DEF BookFinal, Sound, WorldRecord, ReconRecord, SignalRecord
  <1>a. w.rc.fin + w.rc.rem \in Nat
    BY <1>1
  <1>b. rc \in ReconRecord /\ rc.fin = w.rc.fin + w.rc.rem /\ rc.rem = 0
          /\ rc.t1 = w.rc.t1 /\ rc.qty = w.rc.qty
    BY <1>1, <1>a DEF ReconRecord
  <1>3. rc \in ReconRecord /\ rc.t1 + rc.fin + rc.rem = rc.qty /\ rc.qty = w.rc.qty
          /\ rc.rem = 0
    BY <1>1, <1>b
  <1> HIDE DEF rc
  <1>4. v = Leg(w, rc)
    BY <1>2, <1>3 DEF Leg
  <1>5. /\ Sound(s, v) /\ v.in = w.in /\ v.rc = rc /\ v.au = w.au /\ v.ev = w.ev
        /\ v.r.paper = w.r.paper /\ v.r.st = w.r.st
    BY <1>3, <1>4, LegSound
  <1> QED
    BY <1>3, <1>5

LEMMA SquareOffSound ==
    ASSUME NEW s \in Signals, NEW w, Sound(s, w), NEW v, v = SquareOff(w)
    PROVE  /\ Sound(s, v) /\ v.in = w.in /\ v.rc.qty = w.rc.qty /\ v.ev = w.ev
           /\ v.r.paper = w.r.paper /\ v.r.st = w.r.st
           /\ w.au \in Settled \cup {"NONE"} => v.au = w.au
           /\ w.au \notin Settled \cup {"NONE"} => v.au = "WON"
  <1>1. CASE w.au \in Settled \cup {"NONE"}
    BY <1>1 DEF SquareOff
  <1>2. CASE w.au \notin Settled \cup {"NONE"}
    <2> DEFINE b == IF w.in /\ w.rc.qty > 0 /\ ~w.rc.done THEN BookFinal(w) ELSE w
    <2>1. Sound(s, b) /\ b.in = w.in /\ b.rc.qty = w.rc.qty /\ b.ev = w.ev
            /\ b.r.paper = w.r.paper /\ b.r.st = w.r.st
      BY BookFinalSound
    <2>2. v = [b EXCEPT !.au = "WON"]
      BY <1>2 DEF SquareOff
    <2> HIDE DEF b
    <2>3. v \in WorldRecord /\ v.r = b.r /\ v.in = b.in /\ v.rc = b.rc /\ v.ev = b.ev
            /\ v.au = "WON"
      BY <2>1, <2>2, StateFacts DEF Sound, WorldRecord
    <2>4. Sound(s, v)
      BY <2>1, <2>3 DEF Sound
    <2> QED
      BY <1>2, <2>1, <2>3, <2>4
  <1> QED
    BY <1>1, <1>2

LEMMA AuditSound ==
    ASSUME NEW s \in Signals, NEW w, Sound(s, w), NEW au \in Statuses,
           w.in => au # "NONE", NEW v, v = [w EXCEPT !.au = au]
    PROVE  Sound(s, v) /\ v.in = w.in /\ v.rc = w.rc /\ v.ev = w.ev /\ v.r = w.r /\ v.au = au
  BY DEF Sound, WorldRecord

\* The exit's record: a leg of a larger position, or the settlement.
LEMMA RecordedSound ==
    ASSUME NEW s \in Signals, NEW w, Sound(s, w), NEW t, t.part \in BOOLEAN, NEW v, v = Recorded(t, w)
    PROVE  /\ Sound(s, v) /\ v.in = w.in /\ v.rc.qty = w.rc.qty /\ v.ev = w.ev
           /\ v.r.paper = w.r.paper /\ v.r.st = w.r.st
           /\ w.au \in Settled => v.au = w.au
           /\ RecordedResult(v) \in {"none", "ok"}
           /\ RecordedResult(v) = "ok" => t.part \/ v.au \in Settled
  <1>1. CASE t.part
    <2> DEFINE au == Mirrored(w.au, "TARGET_1_HIT")
    <2>1. w.au \in Statuses /\ (w.in => w.au # "NONE")
      BY DEF Sound, WorldRecord
    <2>2. au \in Statuses /\ (w.in => au # "NONE") /\ (w.au \in Settled => au = w.au)
      BY <2>1, StateFacts DEF Mirrored
    <2>3. v = [w EXCEPT !.au = au]
      BY <1>1 DEF Recorded, Sound, WorldRecord
    <2> HIDE DEF au
    <2>4. Sound(s, v) /\ v.in = w.in /\ v.rc = w.rc /\ v.ev = w.ev /\ v.r = w.r /\ v.au = au
      BY <2>2, <2>3, AuditSound
    <2> QED
      BY <1>1, <2>2, <2>4 DEF RecordedResult
  <1>2. CASE ~t.part
    <2>1. v = SquareOff(w)
      BY <1>2 DEF Recorded
    <2> QED
      BY <1>2, <2>1, SquareOffSound, StateFacts DEF RecordedResult, Settled
  <1> QED
    BY <1>1, <1>2

LEMMA TombstonedType ==
    ASSUME NEW r \in SignalRecord, NEW t \in Nat
    PROVE  Tombstoned(r, t) \in SignalRecord /\ Tombstoned(r, t).paper = r.paper
  <1>1. r.ver + 1 \in Nat /\ t \in Times /\ "CLOSED" \in States
    BY DEF SignalRecord, Times, States, Terminal
  <1>2. [r EXCEPT !.st = "CLOSED", !.ver = r.ver + 1, !.upd = t, !.hist = "CLOSED"] \in SignalRecord
    BY <1>1 DEF SignalRecord
  <1>3. [r EXCEPT !.hist = "CLOSED"] \in SignalRecord
    BY <1>1 DEF SignalRecord
  <1> QED
    BY <1>2, <1>3 DEF Tombstoned, SignalRecord

LEMMA BuriedSound ==
    ASSUME now \in Nat, NEW s \in Signals, NEW w, Sound(s, w), NEW v, v = Buried(s, w)
    PROVE  /\ Sound(s, v) /\ Follows(w, v) /\ ~v.in
           /\ v.au = "NONE" /\ \A e \in v.ev : e \in w.ev \/ e.state = "DELETED"
  <1> DEFINE r  == IF w.in THEN Tombstoned(w.r, now) ELSE w.r
             d  == [sig |-> s, ver |-> 0, state |-> "DELETED"]
             ev == IF w.in \/ w.au # "NONE" THEN w.ev \cup {d} ELSE w.ev
  <1>1. r \in SignalRecord /\ r.paper = w.r.paper
    BY TombstonedType DEF Sound, WorldRecord
  <1>2. d \in Events /\ d.sig = s /\ d.state = "DELETED"
    BY DEF Events
  <1>3. v = [w EXCEPT !.r = r, !.in = FALSE, !.au = "NONE", !.ev = ev]
    BY DEF Buried, Sound, WorldRecord
  <1> HIDE DEF r, d
  <1>4. ev \in SUBSET Events /\ \A e \in ev : e \in w.ev \/ e = d
    BY <1>2 DEF Sound, WorldRecord
  <1> HIDE DEF ev
  <1>5. v \in WorldRecord /\ v.r = r /\ v.rc = w.rc /\ v.in = FALSE /\ v.au = "NONE" /\ v.ev = ev
    BY <1>1, <1>3, <1>4, StateFacts DEF Sound, WorldRecord
  <1>6. Sound(s, v)
    BY <1>2, <1>4, <1>5 DEF Sound
  <1> QED
    BY <1>1, <1>2, <1>4, <1>5, <1>6 DEF Follows

LEMMA FollowsReflexive ==
    ASSUME NEW w PROVE Follows(w, w)
  BY DEF Follows

\* The result of an exit comes to the caller: an outcome is written only over
\* a settled record.
LEMMA FinishSound ==
    ASSUME now \in Nat, NEW s \in Signals, NEW w, Sound(s, w), NEW t, t.s = s,
           t.op \in {"tick", "eod", "delete"}, t.part => t.act = "TARGET_1_HIT",
           NEW res, res = "ok" => w.au \in Settled \/ t.part,
           t.act # "CONFIRMED",
           NEW v, v = Finish(t, w, res)
    PROVE  /\ Sound(s, v) /\ Follows(w, v)
           /\ res # "ok" => v.au \in {w.au, "NONE"} /\ \A e \in v.ev : e \in w.ev \/ e.state = "DELETED"
           /\ v.in => res = "ok" \/ v.r.st = w.r.st
  <1>1. CASE t.op = "delete"
    <2>1. v = Buried(s, w)
      BY <1>1 DEF Finish
    <2> QED
      BY <2>1, BuriedSound
  <1>2. CASE v = w
    BY <1>2, FollowsReflexive
  <1>3. CASE t.op = "eod" /\ res = "ok"
    <2>1. v = Go(s, w, "CLOSED")
      BY <1>3 DEF Finish
    <2>2. /\ Sound(s, v)
          /\ v.in = w.in /\ v.rc = w.rc /\ v.au = w.au /\ v.r.paper = w.r.paper
          /\ v.r.st = w.r.st \/ v.r.st = "CLOSED"
      BY <2>1, GoSound
    <2> QED
      BY <1>3, <2>2, StateFacts DEF Follows, Won, Early, PreTrigger
  <1>4. CASE t.op = "tick" /\ v # w
    <2>1. res = "ok" /\ t.act # "TARGET_1_HIT" /\ w.au \in Settled
      BY <1>4 DEF Finish, TickFinish
    <2> DEFINE booked == IF t.mark THEN BookFinal(w) ELSE w
               moved  == Go(s, booked, t.act)
               kept   == [moved EXCEPT !.au = IF moved.au = "NONE" THEN "ARMED" ELSE moved.au]
    <2>2. Sound(s, booked) /\ booked.in = w.in /\ booked.rc.qty = w.rc.qty /\ booked.au = w.au
            /\ booked.r.paper = w.r.paper /\ booked.r.st = w.r.st
      BY BookFinalSound
    <2>3. v = IF t.mark THEN SquareOff(kept) ELSE kept
      BY <1>4, <2>1 DEF Finish, TickFinish, Sound, WorldRecord
    <2> HIDE DEF booked
    <2>5. /\ Sound(s, moved)
          /\ moved.in = booked.in /\ moved.rc = booked.rc /\ moved.au = booked.au
          /\ moved.r.paper = booked.r.paper
          /\ moved.r.st \in Early => booked.r.st \in Early
      BY <2>2, GoSound
    <2>6. moved.au # "NONE" /\ moved.au \in Settled
      BY <2>1, <2>2, <2>5, StateFacts
    <2> HIDE DEF moved
    <2>7. kept = [moved EXCEPT !.au = moved.au]
      BY <2>6
    <2>8. Sound(s, kept) /\ kept.in = moved.in /\ kept.rc = moved.rc /\ kept.r = moved.r
            /\ kept.au = moved.au
      BY <2>5, <2>6, <2>7, AuditSound, StateFacts
    <2> HIDE DEF kept
    <2>9. /\ Sound(s, v) /\ v.in = kept.in /\ v.rc.qty = kept.rc.qty /\ v.au = kept.au
          /\ v.r.paper = kept.r.paper /\ v.r.st = kept.r.st
      BY <2>3, <2>6, <2>8, SquareOffSound
    <2> QED
      BY <2>1, <2>2, <2>5, <2>6, <2>8, <2>9 DEF Follows
  <1>5. t.op = "eod" /\ res # "ok" => v = w
    BY DEF Finish
  <1> QED
    BY <1>1, <1>2, <1>3, <1>4, <1>5

-----------------------------------------------------------------------------
(* What a step that writes one signal does to the invariant *)

LEMMA AtSignal ==
    ASSUME TradeInv, NEW s \in Signals
    PROVE  /\ sigs[s] \in SignalRecord /\ recon[s] \in ReconRecord /\ audit[s] \in Statuses
           /\ intent[s] \in IntentRecord /\ bought[s] \in Nat /\ now \in Nat
           /\ Life(s) /\ Unborn(s) /\ Residual(s) /\ Entry(s) /\ Exits(s) /\ FirstEntry(s)
  BY DEF TradeInv, TradeType, TypeOK

LEMMA AbsentFacts ==
    Absent.st = "ABSENT" /\ Absent.paper = FALSE /\ "ABSENT" \notin Early \cup Won
      /\ "ABSENT" \notin {"CONFIRMED", "TARGET_1_HIT"}
  BY DEF Absent, Early, Won, PreTrigger

LEMMA CommitWrites ==
    ASSUME TradeInv, NEW s \in Signals, NEW v, Sound(s, v), Commit(s, v)
    PROVE  /\ TypeOK' /\ recon' \in [Signals -> ReconRecord]
           /\ audit' \in [Signals -> Statuses] /\ mirror' \subseteq Events
           /\ orphan' \in [Signals -> SignalRecord]
           /\ \A u \in Signals : u # s =>
                /\ sigs'[u] = sigs[u] /\ recon'[u] = recon[u] /\ audit'[u] = audit[u]
                /\ u \in retired' <=> u \in retired
                /\ \A e \in mirror' : e.sig = u => e \in mirror
           /\ sigs'[s] = IF v.in THEN v.r ELSE Absent
           /\ recon'[s] = v.rc /\ audit'[s] = v.au
           /\ retired' = IF v.in THEN retired ELSE retired \cup {s}
           /\ \A e \in mirror' : e.sig = s => e \in mirror \/ e \in v.ev
  <1>1. /\ v.r \in SignalRecord /\ v.rc \in ReconRecord /\ v.au \in Statuses
        /\ v.ev \subseteq Events /\ v.in \in BOOLEAN
        /\ \A e \in v.ev : e.sig = s
    BY DEF Sound, WorldRecord
  <1>2. {e \in v.ev : e.state \in Terminal} \subseteq [sig : Signals, ver : Nat, state : Terminal]
    BY <1>1 DEF Events
  <1>3. TradeType /\ TypeOK
    BY DEF TradeInv, TradeType
  <1>4. TypeOK'
    <2>1. sigs' \in [Signals -> SignalRecord]
      BY <1>1, <1>3, AbsentType DEF Commit, TypeOK
    <2> QED
      BY <1>2, <1>3, <2>1 DEF Commit, TypeOK
  <1>5. recon' \in [Signals -> ReconRecord] /\ audit' \in [Signals -> Statuses]
          /\ mirror' \subseteq Events /\ orphan' \in [Signals -> SignalRecord]
    BY <1>1, <1>3 DEF Commit, TradeType
  <1>6. ASSUME NEW u \in Signals, u # s
        PROVE  /\ sigs'[u] = sigs[u] /\ recon'[u] = recon[u] /\ audit'[u] = audit[u]
               /\ u \in retired' <=> u \in retired
               /\ \A e \in mirror' : e.sig = u => e \in mirror
    BY <1>1, <1>3, <1>6 DEF Commit, TradeType, TypeOK
  <1>7. /\ sigs'[s] = IF v.in THEN v.r ELSE Absent
        /\ recon'[s] = v.rc /\ audit'[s] = v.au
    BY <1>3 DEF Commit, TradeType, TypeOK
  <1>8. /\ retired' = IF v.in THEN retired ELSE retired \cup {s}
        /\ \A e \in mirror' : e.sig = s => e \in mirror \/ e \in v.ev
    BY DEF Commit
  <1> QED
    BY <1>4, <1>5, <1>6, <1>7, <1>8

\* The task of a step goes on with the locals x, suspended over s if at all.
Resumes(q, s, x) ==
    /\ task' = [task EXCEPT ![q] = x]
    /\ LocalsSound(x)
    /\ x.pc \in Suspended => x.s = s

LEMMA OnlyTask ==
    ASSUME TradeInv, NEW q \in Tasks, NEW s \in Signals, NEW x, Resumes(q, s, x)
    PROVE  /\ task' \in [Tasks -> TaskRecord] /\ \A r \in Tasks : LocalsSound(task'[r])
           /\ task'[q] = x /\ \A r \in Tasks : r # q => task'[r] = task[r]
           /\ \A r \in Tasks, u \in Signals, pcs \in SUBSET Suspended :
                u # s /\ On(r, u, pcs)' => On(r, u, pcs)
  <1>1. task \in [Tasks -> TaskRecord] /\ \A r \in Tasks : LocalsSound(task[r])
    BY DEF TradeInv, TradeType
  <1>2. x \in TaskRecord
    BY DEF Resumes, LocalsSound
  <1>3. task'[q] = x /\ \A r \in Tasks : r # q => task'[r] = task[r]
    BY <1>1 DEF Resumes
  <1>4. task' \in [Tasks -> TaskRecord] /\ \A r \in Tasks : LocalsSound(task'[r])
    BY <1>1, <1>2, <1>3 DEF Resumes
  <1>5. ASSUME NEW r \in Tasks, NEW u \in Signals, NEW pcs \in SUBSET Suspended,
               u # s, On(r, u, pcs)'
        PROVE  On(r, u, pcs)
    BY <1>3, <1>5 DEF Resumes, On
  <1> QED
    BY <1>3, <1>4, <1>5

\* The other signals' part of the invariant.
LEMMA OthersKept ==
    ASSUME TradeInv, NEW u \in Signals,
           sigs'[u].st = sigs[u].st, sigs'[u].paper = sigs[u].paper, sigs'[u].rem = sigs[u].rem,
           recon'[u] = recon[u], audit'[u] = audit[u], intent'[u] = intent[u], bought'[u] = bought[u],
           u \in retired' <=> u \in retired,
           \A e \in mirror' : e.sig = u => e \in mirror,
           \A r \in Tasks : /\ On(r, u, Suspended)' => On(r, u, Suspended)
                            /\ On(r, u, Ordering)' => On(r, u, Ordering)
                            /\ On(r, u, Closing)' => On(r, u, Closing)
                            /\ On(r, u, {"order"})' => On(r, u, {"order"}) /\ task'[r].n = task[r].n
    PROVE  Life(u)' /\ Unborn(u)' /\ Residual(u)' /\ Entry(u)' /\ Exits(u)' /\ FirstEntry(u)'
  <1>1. Life(u) /\ Unborn(u) /\ Residual(u) /\ Entry(u) /\ Exits(u) /\ FirstEntry(u)
    BY AtSignal
  <1>2. (Paid(u)' <=> Paid(u)) /\ (Here(u)' <=> Here(u))
    BY DEF Paid, Here
  <1>3. Life(u)'
    BY <1>1, <1>2 DEF Life
  <1>4. Unborn(u)'
    BY <1>1, <1>2 DEF Unborn
  <1>5. Residual(u)'
    BY <1>1, <1>2 DEF Residual
  <1>6. Entry(u)'
    BY <1>1 DEF Entry
  <1>7. Exits(u)'
    BY <1>1, <1>2 DEF Exits
  <1>8. FirstEntry(u)'
    <2> SUFFICES ASSUME "execute" \notin Acts
                 PROVE  /\ \A q \in Tasks : On(q, u, Ordering)' => q = "tick" /\ sigs[u].st \notin Early
                        /\ sigs[u].st \in Early \/ On("tick", u, Ordering)' => Unpaid(u)'
      BY DEF FirstEntry
    <2>1. Unpaid(u) => Unpaid(u)'
      BY DEF Unpaid
    <2>2. "tick" \in Tasks
      BY DEF Tasks
    <2> QED
      BY <1>1, <2>1, <2>2 DEF FirstEntry
  <1> QED
    BY <1>3, <1>4, <1>5, <1>6, <1>7, <1>8

\* A step of task q writes v for signal s.
WriteStep(q, s, v, x) ==
    /\ Sound(s, v) /\ Commit(s, v)
    /\ Resumes(q, s, x)
    /\ v.in => Here(s)
    /\ pos' \in [Symbols -> Int] /\ sold' \in [Signals -> Int]
    /\ intent' \in [Signals -> IntentRecord] /\ bought' \in [Signals -> Nat]
    /\ \A u \in Signals : u # s => intent'[u] = intent[u] /\ bought'[u] = bought[u]
    /\ Paid(s) => Paid(s)'
    /\ x.pc \in Closing => Paid(s)'
    /\ v.in /\ v.r.paper => Paid(s)'
    /\ v.in /\ intent'[s].st = "FILLED" => v.r.paper
    /\ v.in /\ v.r.st \in Won => Paid(s)' /\ (intent'[s].st = "FILLED" => v.au \in Settled)

LEMMA WriteInv ==
    ASSUME TradeInv, NEW q \in Tasks, NEW s \in Signals, NEW v, NEW x,
           WriteStep(q, s, v, x), Entry(s)', FirstEntry(s)'
    PROVE  TradeInv'
  <1>1. /\ TypeOK' /\ recon' \in [Signals -> ReconRecord]
        /\ audit' \in [Signals -> Statuses] /\ mirror' \subseteq Events
        /\ orphan' \in [Signals -> SignalRecord]
        /\ \A u \in Signals : u # s =>
             /\ sigs'[u] = sigs[u] /\ recon'[u] = recon[u] /\ audit'[u] = audit[u]
             /\ u \in retired' <=> u \in retired
             /\ \A e \in mirror' : e.sig = u => e \in mirror
        /\ sigs'[s] = IF v.in THEN v.r ELSE Absent
        /\ recon'[s] = v.rc /\ audit'[s] = v.au
        /\ retired' = IF v.in THEN retired ELSE retired \cup {s}
        /\ \A e \in mirror' : e.sig = s => e \in mirror \/ e \in v.ev
    BY CommitWrites DEF WriteStep
  <1>2. /\ task' \in [Tasks -> TaskRecord] /\ \A r \in Tasks : LocalsSound(task'[r])
        /\ task'[q] = x /\ \A r \in Tasks : r # q => task'[r] = task[r]
        /\ \A r \in Tasks, u \in Signals, pcs \in SUBSET Suspended :
             u # s /\ On(r, u, pcs)' => On(r, u, pcs)
    BY OnlyTask DEF WriteStep
  <1>3. Life(s) /\ Unborn(s) /\ Residual(s) /\ Exits(s)
    BY AtSignal
  <1>4. Here(s)' <=> v.in
    BY <1>1, AbsentFacts DEF Here, WriteStep, Sound
  <1>5. TradeType'
    BY <1>1, <1>2 DEF TradeType, WriteStep
  <1>6. Life(s)'
    BY <1>1, <1>3, <1>4 DEF Life, WriteStep, Sound
  <1>7. Unborn(s)'
    BY <1>1, <1>4 DEF Unborn
  <1>8. Residual(s)'
    BY <1>1, <1>4 DEF Residual, WriteStep, Sound
  <1>9. Exits(s)'
    <2>1. Here(s)' /\ sigs'[s].paper => Paid(s)'
      BY <1>1, <1>4 DEF WriteStep
    <2>1a. Here(s)' /\ intent'[s].st = "FILLED" => sigs'[s].paper
      BY <1>1, <1>4 DEF WriteStep
    <2>2. sigs'[s].st \in {"CONFIRMED", "TARGET_1_HIT"} => sigs'[s].paper
      BY <1>1, AbsentFacts DEF WriteStep, Sound
    <2>3. ASSUME NEW r \in Tasks, On(r, s, Closing)' PROVE Paid(s)'
      BY <1>2, <1>3, <2>3 DEF Exits, On, WriteStep
    <2>4. sigs'[s].st \in Won => Paid(s)' /\ (intent'[s].st = "FILLED" => audit'[s] \in Settled)
      BY <1>1, AbsentFacts DEF WriteStep
    <2> QED
      BY <2>1, <2>1a, <2>2, <2>3, <2>4 DEF Exits, Won
  <1>10. ASSUME NEW u \in Signals, u # s
         PROVE  Life(u)' /\ Unborn(u)' /\ Residual(u)' /\ Entry(u)' /\ Exits(u)' /\ FirstEntry(u)'
    <2>1. \A r \in Tasks : /\ On(r, u, Suspended)' => On(r, u, Suspended)
                           /\ On(r, u, Ordering)' => On(r, u, Ordering)
                           /\ On(r, u, Closing)' => On(r, u, Closing)
                           /\ On(r, u, {"order"})' => On(r, u, {"order"})
      BY <1>2, <1>10 DEF Suspended, Ordering
    <2>2. \A r \in Tasks : On(r, u, {"order"})' => task'[r].n = task[r].n
      BY <1>2, <1>10 DEF On, WriteStep, Resumes, Suspended, Ordering
    <2>3. intent'[u] = intent[u] /\ bought'[u] = bought[u]
      BY <1>10 DEF WriteStep
    <2> QED
      BY <1>1, <1>10, <2>1, <2>2, <2>3, OthersKept
  <1> QED
    BY <1>5, <1>6, <1>7, <1>8, <1>9, <1>10 DEF TradeInv

\* Why nobody who waits for the first entry is disturbed: the step neither
\* closes nor settles, or the trade was entered, or the wait is over.
Calm(s, v, x) ==
    /\ x.pc \notin Closing
    /\ v.au \in Settled => audit[s] \in Settled
    /\ \A e \in v.ev : e.state # "CLOSED"
    /\ v.in /\ v.r.paper => sigs[s].paper
Busy(s) == sigs[s].paper \/ \E r \in Tasks : On(r, s, Closing)
Over(q, v) == q = "tick" /\ (v.in => v.r.st \notin Early)

LEMMA FirstKept ==
    ASSUME TradeInv, NEW q \in Tasks, NEW s \in Signals, NEW v, NEW x, WriteStep(q, s, v, x),
           v.in /\ v.r.st \in Early => sigs[s].st \in Early,
           x.pc \in Ordering => Calm(s, v, x) /\ Over(q, v) /\ sigs[s].st \in Early,
           "execute" \notin Acts => Calm(s, v, x) \/ Busy(s) \/ (Over(q, v) /\ x.pc \notin Ordering)
    PROVE  FirstEntry(s)'
  <1> SUFFICES ASSUME "execute" \notin Acts
               PROVE  /\ \A r \in Tasks : On(r, s, Ordering)' => r = "tick" /\ sigs'[s].st \notin Early
                      /\ sigs'[s].st \in Early \/ On("tick", s, Ordering)' => Unpaid(s)'
    BY DEF FirstEntry
  <1>1. /\ sigs'[s] = IF v.in THEN v.r ELSE Absent
        /\ audit'[s] = v.au
        /\ \A e \in mirror' : e.sig = s => e \in mirror \/ e \in v.ev
    BY CommitWrites DEF WriteStep
  <1>2. task'[q] = x /\ \A r \in Tasks : r # q => task'[r] = task[r]
    BY OnlyTask DEF WriteStep
  <1>3. FirstEntry(s) /\ "tick" \in Tasks
    BY AtSignal DEF Tasks
  <1>4. sigs'[s].st \in Early => v.in /\ sigs[s].st \in Early
    BY <1>1, AbsentFacts
  <1>5. ASSUME NEW r \in Tasks, On(r, s, Ordering)'
        PROVE  r = "tick" /\ sigs'[s].st \notin Early
    <2>1. CASE r # q
      <3>1. On(r, s, Ordering)
        BY <1>2, <1>5, <2>1 DEF On
      <3> QED
        BY <1>3, <1>4, <3>1 DEF FirstEntry
    <2>2. CASE r = q
      <3>1. x.pc \in Ordering
        BY <1>2, <1>5, <2>2 DEF On
      <3> QED
        BY <1>1, <2>2, <3>1, AbsentFacts DEF Over
    <2> QED
      BY <2>1, <2>2
  <1>6. ASSUME sigs'[s].st \in Early \/ On("tick", s, Ordering)'
        PROVE  Unpaid(s)'
    <2>1. Unpaid(s) /\ Calm(s, v, x)
      <3>1. CASE x.pc \in Ordering
        BY <1>3, <3>1 DEF FirstEntry
      <3>2. CASE x.pc \notin Ordering
        <4>1. On("tick", s, Ordering)' => On("tick", s, Ordering) /\ q # "tick"
          BY <1>2, <1>3, <3>2 DEF On
        <4>2. Unpaid(s)
          BY <1>3, <1>4, <1>6, <4>1 DEF FirstEntry
        <4>3. ~Busy(s)
          BY <4>2 DEF Busy, Unpaid
        <4>4. ~Over(q, v)
          BY <1>1, <1>4, <1>6, <4>1 DEF Over
        <4> QED
          BY <3>2, <4>2, <4>3, <4>4
      <3> QED
        BY <3>1, <3>2
    <2>2. ~sigs'[s].paper
      BY <1>1, <2>1, AbsentFacts DEF Unpaid, Calm
    <2>3. audit'[s] \notin Settled
      BY <1>1, <2>1 DEF Unpaid, Calm
    <2>4. \A r \in Tasks : ~On(r, s, Closing)'
      BY <1>2, <2>1 DEF Unpaid, Calm, On
    <2>5. \A e \in mirror' : e.sig = s => e.state # "CLOSED"
      BY <1>1, <2>1 DEF Unpaid, Calm
    <2> QED
      BY <2>2, <2>3, <2>4, <2>5 DEF Unpaid
  <1> QED
    BY <1>5, <1>6

LEMMA EntryKept ==
    ASSUME TradeInv, NEW q \in Tasks, NEW s \in Signals, NEW x, Resumes(q, s, x),
           x.pc # "order", recon'[s].qty = recon[s].qty,
           intent'[s] = intent[s], bought'[s] = bought[s]
    PROVE  Entry(s)'
  <1>1. Entry(s)
    BY AtSignal
  <1>2. task'[q] = x /\ \A r \in Tasks : r # q => task'[r] = task[r]
    BY OnlyTask
  <1>3. \A r \in Tasks : On(r, s, {"order"})' => On(r, s, {"order"}) /\ task'[r] = task[r]
    BY <1>2 DEF On
  <1> QED
    BY <1>1, <1>3 DEF Entry

KeepsSettled ==
    \A s \in Signals : audit[s] \in Settled => audit'[s] \in {audit[s], "NONE"}

\* The steps that write what follows from the signal as it was.
LEMMA FollowInv ==
    ASSUME TradeInv, NEW q \in Tasks, NEW s \in Signals, NEW v, NEW x,
           Sound(s, v), Follows(World(s), v), Commit(s, v), Resumes(q, s, x), x.pc # "order",
           pos' \in [Symbols -> Int], sold' \in [Signals -> Int],
           UNCHANGED <<intent, bought>>,
           x.pc \in Closing => Paid(s),
           v.in /\ v.r.st \in Won => sigs[s].st \in Won \/ Paid(s),
           x.pc \in Ordering => Calm(s, v, x) /\ Over(q, v) /\ sigs[s].st \in Early,
           Calm(s, v, x) \/ Busy(s)
    PROVE  TradeInv' /\ KeepsSettled
  <1>1. /\ Sound(s, World(s)) /\ World(s).rc = recon[s] /\ World(s).au = audit[s]
        /\ World(s).in <=> Here(s)
        /\ Here(s) => World(s).r = sigs[s]
    BY WorldSound
  <1>2. Exits(s) /\ Life(s)
    BY AtSignal
  <1>3. Paid(s)' <=> Paid(s)
    BY DEF Paid
  <1>4. intent' \in [Signals -> IntentRecord] /\ bought' \in [Signals -> Nat]
    BY DEF TradeInv, TradeType
  <1>5. v.in => Here(s) /\ (v.r.paper <=> sigs[s].paper)
    BY <1>1 DEF Follows
  <1>6. v.in /\ v.r.st \in Won => Paid(s) /\ (intent[s].st = "FILLED" => v.au \in Settled)
    <2> SUFFICES ASSUME v.in, v.r.st \in Won
                 PROVE  Paid(s) /\ (intent[s].st = "FILLED" => v.au \in Settled)
      OBVIOUS
    <2>1. v.au # "NONE"
      BY DEF Sound
    <2>2. CASE sigs[s].st \in Won
      BY <1>1, <1>2, <2>1, <2>2 DEF Exits, Won, Follows
    <2>3. CASE sigs[s].st \notin Won
      BY <1>1, <1>5, <2>3 DEF Follows
    <2> QED
      BY <2>2, <2>3
  <1>7. WriteStep(q, s, v, x)
    BY <1>2, <1>3, <1>4, <1>5, <1>6 DEF WriteStep, Exits
  <1>8. recon'[s] = v.rc
    BY CommitWrites
  <1>9. Entry(s)'
    BY <1>1, <1>8, EntryKept DEF Follows
  <1>10. v.in /\ v.r.st \in Early => sigs[s].st \in Early
    BY <1>1 DEF Follows
  <1>11. FirstEntry(s)'
    BY <1>7, <1>10, FirstKept
  <1>12. KeepsSettled
    BY <1>1, CommitWrites DEF KeepsSettled, Follows
  <1> QED
    BY <1>7, <1>9, <1>11, <1>12, WriteInv

\* The steps that leave the signals and their records alone.
LEMMA TaskInv ==
    ASSUME TradeInv, NEW q \in Tasks, NEW s \in Signals, NEW x, Resumes(q, s, x),
           UNCHANGED <<sigs, intents, retired, now, recon, audit, mirror, orphan, bought>>,
           pos' \in [Symbols -> Int], sold' \in [Signals -> Int],
           intent' \in [Signals -> IntentRecord],
           \A u \in Signals : u # s => intent'[u] = intent[u],
           Entry(s)', Paid(s)' <=> Paid(s),
           intent'[s].st = "FILLED" => intent[s].st = "FILLED",
           x.pc \in Suspended => Here(s) \/ s \in retired,
           x.pc \in Suspended \/ intent'[s] = intent[s],
           x.pc \in Closing => Busy(s) /\ Paid(s),
           x.pc \in Ordering => On(q, s, Ordering) \/ "execute" \in Acts
    PROVE  TradeInv' /\ KeepsSettled
  <1>1. /\ task' \in [Tasks -> TaskRecord] /\ \A r \in Tasks : LocalsSound(task'[r])
        /\ task'[q] = x /\ \A r \in Tasks : r # q => task'[r] = task[r]
        /\ \A r \in Tasks, u \in Signals, pcs \in SUBSET Suspended :
             u # s /\ On(r, u, pcs)' => On(r, u, pcs)
    BY OnlyTask
  <1>2. TradeType'
    BY <1>1 DEF TradeInv, TradeType, TypeOK
  <1>3. Life(s) /\ Unborn(s) /\ Residual(s) /\ Exits(s) /\ FirstEntry(s) /\ "tick" \in Tasks
    BY AtSignal DEF Tasks
  <1>4. Life(s)' /\ Residual(s)'
    BY <1>3 DEF Life, Residual, Here
  <1>5. Unborn(s)'
    BY <1>1, <1>3 DEF Unborn, Here, On
  <1>6. Exits(s)'
    BY <1>1, <1>3 DEF Exits, Here, On
  <1>7. FirstEntry(s)'
    <2> SUFFICES ASSUME "execute" \notin Acts
                 PROVE  /\ \A r \in Tasks : On(r, s, Ordering)' => r = "tick" /\ sigs[s].st \notin Early
                        /\ sigs[s].st \in Early \/ On("tick", s, Ordering)' => Unpaid(s)'
      BY DEF FirstEntry
    <2>1. \A r \in Tasks : On(r, s, Ordering)' => On(r, s, Ordering)
      BY <1>1 DEF On
    <2>2. Unpaid(s) => ~Busy(s)
      BY DEF Unpaid, Busy
    <2>3. Unpaid(s) => Unpaid(s)'
      BY <1>1, <2>2 DEF Unpaid, On
    <2> QED
      BY <1>3, <2>1, <2>3 DEF FirstEntry
  <1>8. ASSUME NEW u \in Signals, u # s
        PROVE  Life(u)' /\ Unborn(u)' /\ Residual(u)' /\ Entry(u)' /\ Exits(u)' /\ FirstEntry(u)'
    <2>1. \A r \in Tasks : /\ On(r, u, Suspended)' => On(r, u, Suspended)
                           /\ On(r, u, Ordering)' => On(r, u, Ordering)
                           /\ On(r, u, Closing)' => On(r, u, Closing)
                           /\ On(r, u, {"order"})' => On(r, u, {"order"})
      BY <1>1, <1>8 DEF Suspended, Ordering
    <2>2. \A r \in Tasks : On(r, u, {"order"})' => task'[r].n = task[r].n
      BY <1>1, <1>8 DEF On, Resumes, Suspended, Ordering
    <2>3. intent'[u] = intent[u] /\ bought'[u] = bought[u]
      BY <1>8
    <2> QED
      BY <1>8, <2>1, <2>2, <2>3, OthersKept
  <1>9. KeepsSettled
    BY DEF KeepsSettled
  <1> QED
    BY <1>2, <1>4, <1>5, <1>6, <1>7, <1>8, <1>9 DEF TradeInv

\* The same with no new suspension at all.
LEMMA QuietInv ==
    ASSUME TradeInv, NEW q \in Tasks, NEW x, x.pc \notin Suspended, LocalsSound(x),
           task' = [task EXCEPT ![q] = x] \/ UNCHANGED task,
           \A u \in Signals : /\ sigs'[u].st = sigs[u].st /\ sigs'[u].paper = sigs[u].paper
                              /\ sigs'[u].rem = sigs[u].rem,
           TypeOK', UNCHANGED <<retired, recon, audit, mirror, intent, bought, orphan>>,
           pos' \in [Symbols -> Int], sold' \in [Signals -> Int]
    PROVE  TradeInv' /\ KeepsSettled
  <1>1. task \in [Tasks -> TaskRecord] /\ \A r \in Tasks : LocalsSound(task[r])
    BY DEF TradeInv, TradeType
  <1>2. /\ task' \in [Tasks -> TaskRecord] /\ \A r \in Tasks : LocalsSound(task'[r])
        /\ \A r \in Tasks : task'[r] = task[r] \/ task'[r].pc \notin Suspended
    BY <1>1 DEF LocalsSound
  <1>3. TradeType'
    BY <1>2 DEF TradeInv, TradeType
  <1>4. ASSUME NEW u \in Signals
        PROVE  Life(u)' /\ Unborn(u)' /\ Residual(u)' /\ Entry(u)' /\ Exits(u)' /\ FirstEntry(u)'
    <2>1. \A r \in Tasks : /\ On(r, u, Suspended)' => On(r, u, Suspended)
                           /\ On(r, u, Ordering)' => On(r, u, Ordering)
                           /\ On(r, u, Closing)' => On(r, u, Closing)
                           /\ On(r, u, {"order"})' => On(r, u, {"order"}) /\ task'[r].n = task[r].n
      BY <1>2 DEF On, Suspended, Ordering, Closing
    <2> QED
      BY <2>1, OthersKept
  <1>5. KeepsSettled
    BY DEF KeepsSettled
  <1> QED
    BY <1>3, <1>4, <1>5 DEF TradeInv

LEMMA IdleSound == LocalsSound(Idle) /\ Idle.pc = "idle" /\ Idle.todo = {}
  BY DEF Idle, LocalsSound, TaskRecord, Suspended, Ordering, Closing, Actions

LEMMA AfterSound ==
    ASSUME TradeInv, NEW q \in Tasks
    PROVE  LocalsSound(After(q)) /\ After(q).pc \notin Suspended
  <1>1. task[q] \in TaskRecord /\ (task[q].todo # {} => task[q].op \in {"tick", "eod"})
    BY DEF TradeInv, TradeType, LocalsSound
  <1> DEFINE x == [Idle EXCEPT !.pc = "loop", !.op = task[q].op, !.todo = task[q].todo \ {task[q].s},
                               !.p = task[q].p]
  <1>2. x \in TaskRecord /\ x.pc = "loop" /\ ~x.part
          /\ (x.todo # {} => x.op \in {"tick", "eod"})
    BY <1>1, IdleSound DEF LocalsSound, TaskRecord, Idle
  <1>3. After(q) = x \/ After(q) = Idle
    BY DEF After
  <1> HIDE DEF x
  <1> QED
    BY <1>2, <1>3, IdleSound DEF LocalsSound, Suspended, Ordering, Closing

LEMMA Next1Sound ==
    ASSUME TradeInv, NEW q \in Tasks, NEW s, At(q, "loop")
    PROVE  LocalsSound(Next1(q, s)) /\ Next1(q, s).pc \notin Suspended
  <1>1. LocalsSound(task[q]) /\ task[q].pc = "loop"
    BY DEF TradeInv, TradeType, At
  <1> DEFINE x == [task[q] EXCEPT !.todo = task[q].todo \ {s}]
  <1>2. x \in TaskRecord /\ x.pc = "loop" /\ ~x.part
          /\ (x.todo # {} => x.op \in {"tick", "eod"})
    BY <1>1 DEF LocalsSound, TaskRecord
  <1>3. Next1(q, s) = x \/ Next1(q, s) = Idle
    BY DEF Next1
  <1> HIDE DEF x
  <1> QED
    BY <1>1, <1>2, <1>3, IdleSound DEF LocalsSound, Suspended, Ordering, Closing

\* The locals a tick or a square-off starts a signal with.
LEMMA LocalsRecord ==
    ASSUME TradeInv, NEW q \in Tasks, NEW s \in Signals, At(q, "loop"),
           NEW x, x = Locals(q, s)
    PROVE  x \in TaskRecord /\ x.s = s /\ x.pc = "loop" /\ x.op = task[q].op
             /\ ~x.part /\ x.todo \subseteq Signals /\ (x.todo # {} => x.op \in {"tick", "eod"})
  <1>1. LocalsSound(task[q]) /\ task[q].pc = "loop" /\ sigs[s] \in SignalRecord
    BY DEF TradeInv, TradeType, TypeOK, At
  <1>2. sigs[s].st \in Actions
    BY <1>1 DEF SignalRecord, Actions
  <1> QED
    BY <1>1, <1>2 DEF Locals, LocalsSound, TaskRecord

-----------------------------------------------------------------------------
(* The actions: execute_signal *)

LEMMA GoFollows ==
    ASSUME TradeInv, NEW s \in Signals, NEW w, Sound(s, w), NEW to \in States \ (Early \cup Won),
           w.in /\ to = "CONFIRMED" => w.r.paper, NEW v, v = Go(s, w, to)
    PROVE  /\ Sound(s, v) /\ Follows(w, v)
           /\ v.in = w.in /\ v.rc = w.rc /\ v.au = w.au /\ v.r.paper = w.r.paper
           /\ v.r.st = w.r.st \/ v.r.st = to
           /\ \A e \in v.ev : e \in w.ev \/ e.state = to
  <1>1. now \in Nat
    BY AtSignal
  <1>2. /\ Sound(s, v)
        /\ v.in = w.in /\ v.rc = w.rc /\ v.au = w.au /\ v.r.paper = w.r.paper
        /\ v.r.st = w.r.st \/ v.r.st = to
        /\ \A e \in v.ev : e \in w.ev \/ e.state = to
    BY <1>1, GoSound
  <1> QED
    BY <1>2 DEF Follows

LEMMA AtTask ==
    ASSUME TradeInv, NEW q \in Tasks, task[q].pc \in Suspended
    PROVE  /\ task[q].s \in Signals /\ On(q, task[q].s, {task[q].pc})
           /\ LocalsSound(task[q])
           /\ pos \in [Symbols -> Int] /\ sold \in [Signals -> Int]
           /\ intent \in [Signals -> IntentRecord] /\ bought \in [Signals -> Nat]
           /\ Here(task[q].s) \/ task[q].s \in retired
  <1>1. LocalsSound(task[q])
    BY DEF TradeInv, TradeType
  <1>2. task[q].s \in Signals
    BY <1>1 DEF LocalsSound
  <1>3. Unborn(task[q].s)
    BY <1>2, AtSignal
  <1> QED
    BY <1>1, <1>2, <1>3 DEF On, Unborn, TradeInv, TradeType

\* What a failed execution writes.
FailedWorld(t) ==
    IF t.op = "tick" THEN Go(t.s, World(t.s), "INVALIDATED") ELSE World(t.s)

LEMMA FailedSound ==
    ASSUME TradeInv, NEW q \in Tasks, task[q].pc \in Suspended,
           NEW v, v = FailedWorld(task[q]), NEW x, x.pc \notin Suspended
    PROVE  /\ Sound(task[q].s, v) /\ Follows(World(task[q].s), v)
           /\ v.in /\ v.r.st \in Won => sigs[task[q].s].st \in Won
           /\ v.in => Here(task[q].s)
           /\ Calm(task[q].s, v, x)
  <1> DEFINE s == task[q].s
             w == World(s)
  <1>1. s \in Signals
    BY AtTask
  <1>2. /\ Sound(s, w) /\ w.ev = {} /\ w.au = audit[s] /\ (w.in <=> Here(s))
        /\ Here(s) => w.r = sigs[s]
    BY <1>1, WorldSound
  <1>3. "INVALIDATED" \in States \ (Early \cup Won)
    BY DEF States, Terminal, PreTrigger, Early, Won
  <1>4. v = w \/ v = Go(s, w, "INVALIDATED")
    BY DEF FailedWorld
  <1> HIDE DEF w, s
  <1>5. /\ Sound(s, v) /\ Follows(w, v)
        /\ v.in = w.in /\ v.au = w.au /\ v.r.paper = w.r.paper
        /\ v.r.st = w.r.st \/ v.r.st = "INVALIDATED"
        /\ \A e \in v.ev : e \in w.ev \/ e.state = "INVALIDATED"
    BY <1>1, <1>2, <1>3, <1>4, GoFollows, FollowsReflexive
  <1>6. Calm(s, v, x)
    BY <1>2, <1>5 DEF Calm, Suspended, Closing
  <1> QED
    BY <1>2, <1>3, <1>5, <1>6 DEF w, s

LEMMA FailedInv ==
    ASSUME TradeInv, NEW q \in Tasks, task[q].pc \in Suspended, ExecFailed(q),
           UNCHANGED <<pos, intent, bought, sold>>
    PROVE  TradeInv' /\ KeepsSettled
  <1> DEFINE s == task[q].s
             v == FailedWorld(task[q])
             x == After(q)
  <1>1. /\ s \in Signals /\ pos' \in [Symbols -> Int] /\ sold' \in [Signals -> Int]
    BY AtTask
  <1>2. LocalsSound(x) /\ x.pc \notin Suspended
    BY AfterSound
  <1>3. Commit(s, v) /\ Resumes(q, s, x)
    BY <1>2 DEF ExecFailed, FailedWorld, Resumes
  <1>4. /\ Sound(s, v) /\ Follows(World(s), v)
        /\ v.in /\ v.r.st \in Won => sigs[s].st \in Won
        /\ Calm(s, v, x)
    BY <1>2, FailedSound
  <1>5. x.pc \notin Ordering \cup Closing \cup {"order"}
    BY <1>2 DEF Suspended, Ordering
  <1> HIDE DEF s, v, x
  <1> QED
    BY <1>1, <1>3, <1>4, <1>5, FollowInv

LEMMA RefuseInv ==
    ASSUME TradeInv, NEW q \in Tasks, ExecRefuse(q) \/ ExecReject(q)
    PROVE  TradeInv' /\ KeepsSettled
  <1>1. task[q].pc \in Suspended
    BY DEF ExecRefuse, ExecReject, At, Suspended, Ordering
  <1> QED
    BY <1>1, FailedInv DEF ExecRefuse, ExecReject

LEMMA SubmitInv ==
    ASSUME TradeInv, NEW q \in Tasks, ExecSubmit(q)
    PROVE  TradeInv' /\ KeepsSettled
  <1>1. At(q, "gate") /\ task[q].pc = "gate" /\ task[q].pc \in Suspended
    BY DEF ExecSubmit, At, Suspended, Ordering
  <1> SUFFICES ASSUME NEW s \in Signals, s = task[q].s, NEW t \in TaskRecord, t = task[q]
               PROVE  TradeInv' /\ KeepsSettled
    BY <1>1, AtTask DEF LocalsSound
  <1> DEFINE x == [t EXCEPT !.pc = "order"]
             i == IF intent[s].st = "REJECTED" THEN intent[s]
                  ELSE [n |-> t.n, st |-> "SUBMITTED"]
  <1>2. /\ On(q, s, {"gate"}) /\ LocalsSound(t)
        /\ pos \in [Symbols -> Int] /\ sold \in [Signals -> Int]
        /\ intent \in [Signals -> IntentRecord]
        /\ Here(s) \/ s \in retired
    BY <1>1, AtTask
  <1>3. t.n \in Nat \ {0} /\ ~t.part
    BY <1>1, <1>2 DEF LocalsSound, Ordering
  <1>4. x \in TaskRecord /\ x.pc = "order" /\ x.s = s /\ x.n = t.n /\ x.op = t.op
          /\ x.part = t.part /\ x.todo = t.todo
    BY <1>3 DEF TaskRecord, Suspended, Ordering
  <1>5. LocalsSound(x)
    BY <1>2, <1>3, <1>4 DEF LocalsSound, Ordering, Closing
  <1>6. task' = [task EXCEPT ![q] = x]
    BY <1>3 DEF ExecSubmit, TradeInv, TradeType
  <1>7. Resumes(q, s, x)
    BY <1>4, <1>5, <1>6 DEF Resumes
  <1>8. /\ intent' = [intent EXCEPT ![s] = i]
        /\ intent[s].n = 0 \/ intent[s].n = t.n
        /\ intent[s].n = t.n => intent[s].st \notin {"SUBMITTED", "FILLED"}
    BY DEF ExecSubmit, Owns
  <1>9. i \in IntentRecord
    BY <1>2, <1>3 DEF IntentRecord
  <1>10. Entry(s) /\ intent[s] \in IntentRecord
    BY AtSignal
  <1>11. intent[s].st \in {"NONE", "REJECTED"}
    BY <1>8, <1>10 DEF Entry, IntentRecord
  <1>12. \/ intent[s].st = "REJECTED" /\ i = intent[s]
         \/ intent[s].st = "NONE" /\ i.st = "SUBMITTED" /\ i.n = t.n
    BY <1>11
  <1> HIDE DEF x, i
  <1>13. /\ intent'[s] = i /\ \A u \in Signals : u # s => intent'[u] = intent[u]
         /\ intent' \in [Signals -> IntentRecord]
    BY <1>2, <1>8, <1>9
  <1>14. UNCHANGED <<sigs, intents, retired, now, recon, audit, mirror, orphan, bought, pos, sold>>
    BY DEF ExecSubmit, vars
  <1>15. task'[q] = x /\ \A r \in Tasks : r # q => task'[r] = task[r]
    BY <1>7, OnlyTask
  <1>16. Entry(s)'
    <2>1. CASE intent[s].st = "REJECTED"
      BY <1>10, <1>11, <1>12, <1>13, <1>14, <2>1 DEF Entry
    <2>2. CASE intent[s].st = "NONE" /\ i.st = "SUBMITTED" /\ i.n = t.n
      <3>1. \A r \in Tasks : On(r, s, {"order"})' => r = q
        BY <1>10, <1>15, <2>2 DEF Entry, On
      <3> QED
        BY <1>3, <1>4, <1>10, <1>13, <1>14, <1>15, <2>2, <3>1 DEF Entry
    <2> QED
      BY <1>11, <1>12, <2>1, <2>2
  <1>17. (Paid(s)' <=> Paid(s)) /\ (intent'[s].st = "FILLED" => intent[s].st = "FILLED")
    BY <1>11, <1>12, <1>13 DEF Paid
  <1>18. On(q, s, Ordering) /\ x.pc \notin Closing /\ x.pc \in Suspended
    BY <1>2, <1>4 DEF On, Ordering, Closing, Suspended
  <1> QED
    BY <1>2, <1>7, <1>13, <1>14, <1>16, <1>17, <1>18, TaskInv

LEMMA ReplayInv ==
    ASSUME TradeInv, NEW q \in Tasks, ExecReplay(q)
    PROVE  TradeInv' /\ KeepsSettled
  <1>1. At(q, "gate") /\ task[q].pc = "gate" /\ task[q].pc \in Suspended
    BY DEF ExecReplay, At, Suspended, Ordering
  <1> SUFFICES ASSUME NEW s \in Signals, s = task[q].s, NEW t \in TaskRecord, t = task[q]
               PROVE  TradeInv' /\ KeepsSettled
    BY <1>1, AtTask DEF LocalsSound
  <1> DEFINE w == World(s)
             g == Go(s, w, "CONFIRMED")
             v == IF t.op = "tick" THEN BookEntry(g, t.n) ELSE w
             x == After(q)
  <1>2. /\ LocalsSound(t) /\ t.n \in Nat
        /\ pos' \in [Symbols -> Int] /\ sold' \in [Signals -> Int]
    BY <1>1, AtTask DEF LocalsSound, Ordering, ExecReplay
  <1>3. Commit(s, v) /\ task' = [task EXCEPT ![q] = x] /\ UNCHANGED <<intent, bought>>
          /\ intent[s] = [n |-> t.n, st |-> "FILLED"]
    BY DEF ExecReplay
  <1>4. /\ recon[s].qty = t.n /\ (Here(s) => sigs[s].paper)
    BY <1>3, AtSignal DEF Entry, Exits
  <1>5. LocalsSound(x) /\ x.pc \notin Suspended
    BY AfterSound
  <1>6. Resumes(q, s, x)
    BY <1>3, <1>5 DEF Resumes
  <1>7. /\ Sound(s, w) /\ w.ev = {} /\ w.rc = recon[s] /\ w.au = audit[s] /\ (w.in <=> Here(s))
        /\ Here(s) => w.r = sigs[s]
    BY WorldSound
  <1> HIDE DEF w, x
  <1>8. CASE t.op = "tick"
    <2>1. "CONFIRMED" \in States \ (Early \cup Won)
      BY DEF States, Terminal, PreTrigger, Early, Won
    <2>2. /\ Sound(s, g) /\ Follows(w, g)
          /\ g.in = w.in /\ g.rc = w.rc /\ g.au = w.au
          /\ g.r.st = w.r.st \/ g.r.st = "CONFIRMED"
          /\ \A e \in g.ev : e.state = "CONFIRMED"
      BY <1>4, <1>7, <2>1, GoFollows
    <2> HIDE DEF g
    <2>3. /\ Sound(s, v) /\ v.in = g.in /\ v.rc.qty = t.n /\ v.au = g.au /\ v.ev = g.ev
          /\ v.r.paper /\ v.r.st = g.r.st
      BY <1>2, <1>8, <2>2, BookEntrySound
    <2> HIDE DEF v
    <2>4. Follows(w, v)
      BY <1>4, <1>7, <2>2, <2>3 DEF Follows
    <2>5. Calm(s, v, x)
      BY <1>4, <1>5, <1>7, <2>2, <2>3 DEF Calm, Suspended
    <2>6. v.in /\ v.r.st \in Won => sigs[s].st \in Won
      BY <1>7, <2>1, <2>2, <2>3
    <2> QED
      BY <1>2, <1>3, <1>5, <1>6, <1>7, <2>3, <2>4, <2>5, <2>6, FollowInv DEF w, Suspended, Ordering
  <1>9. CASE t.op # "tick"
    <2>1. v = w
      BY <1>9
    <2>2. Follows(w, v) /\ Calm(s, v, x)
      BY <1>5, <1>7, <2>1, FollowsReflexive DEF Calm, Suspended
    <2> QED
      BY <1>2, <1>3, <1>5, <1>6, <1>7, <2>1, <2>2, FollowInv DEF w, Suspended, Ordering
  <1> QED
    BY <1>8, <1>9

\* What the fill of the entry writes, over the world w that already books it.
FilledWorld(s, w) ==
    LET v == IF w.r.st \in PreTrigger THEN Go(s, w, "TRIGGERED") ELSE w
        u == IF v.r.st = "TRIGGERED" THEN Go(s, v, "CONFIRMED") ELSE v
    IN  [u EXCEPT !.au = "EXECUTED"]

LEMMA FilledSound ==
    ASSUME TradeInv, NEW s \in Signals, NEW w, Sound(s, w), w.r.paper,
           NEW y, y = FilledWorld(s, w)
    PROVE  /\ Sound(s, y) /\ y.in = w.in /\ y.rc = w.rc /\ y.r.paper
           /\ y.r.st \in Won => w.r.st \in Won
           /\ y.r.st \in Early => w.r.st \in Early
           /\ y.au = "EXECUTED"
  <1> DEFINE v == IF w.r.st \in PreTrigger THEN Go(s, w, "TRIGGERED") ELSE w
             u == IF v.r.st = "TRIGGERED" THEN Go(s, v, "CONFIRMED") ELSE v
  <1>1. now \in Nat /\ {"TRIGGERED", "CONFIRMED"} \cap (Won \cup Early) = {}
          /\ "EXECUTED" \in Statuses /\ "EXECUTED" # "NONE"
    BY AtSignal, StateFacts DEF Won, Early, PreTrigger
  <1>2. /\ Sound(s, v) /\ v.in = w.in /\ v.rc = w.rc /\ v.r.paper
        /\ v.r.st = w.r.st \/ v.r.st = "TRIGGERED"
    BY <1>1, GoSound
  <1> HIDE DEF v
  <1>3. /\ Sound(s, u) /\ u.in = v.in /\ u.rc = v.rc /\ u.r.paper
        /\ u.r.st = v.r.st \/ u.r.st = "CONFIRMED"
    BY <1>1, <1>2, GoSound
  <1>4. y = [u EXCEPT !.au = "EXECUTED"]
    BY DEF FilledWorld, v
  <1> HIDE DEF u
  <1>5. Sound(s, y) /\ y.in = u.in /\ y.rc = u.rc /\ y.r = u.r /\ y.au = "EXECUTED"
    BY <1>1, <1>3, <1>4, AuditSound
  <1> QED
    BY <1>1, <1>2, <1>3, <1>5

LEMMA FillInv ==
    ASSUME TradeInv, TrackerConstants, NEW q \in Tasks, ExecFill(q)
    PROVE  TradeInv' /\ ("execute" \notin Acts => KeepsSettled)
  <1>1. At(q, "order") /\ task[q].pc = "order" /\ task[q].pc \in Suspended
    BY DEF ExecFill, At, Suspended, Ordering
  <1> SUFFICES ASSUME NEW s \in Signals, s = task[q].s, NEW t \in TaskRecord, t = task[q]
               PROVE  TradeInv' /\ ("execute" \notin Acts => KeepsSettled)
    BY <1>1, AtTask DEF LocalsSound
  <1> DEFINE n == IF intent[s].st = "REJECTED" THEN 0 ELSE t.n
             w == BookEntry(World(s), t.n)
             v == FilledWorld(s, w)
             x == After(q)
             i == [intent[s] EXCEPT !.st = IF intent[s].st = "REJECTED" THEN @ ELSE "FILLED"]
  <1>2. /\ On(q, s, {"order"}) /\ LocalsSound(t) /\ t.n \in Nat \ {0}
        /\ pos \in [Symbols -> Int] /\ sold \in [Signals -> Int]
        /\ intent \in [Signals -> IntentRecord] /\ bought \in [Signals -> Nat]
        /\ intent[s] \in IntentRecord
    BY <1>1, AtTask DEF LocalsSound, Ordering
  <1>3. /\ Commit(s, v) /\ task' = [task EXCEPT ![q] = x]
        /\ pos' = [pos EXCEPT ![Symbol[s]] = @ + n]
        /\ bought' = [bought EXCEPT ![s] = @ + n]
        /\ UNCHANGED sold
    BY DEF ExecFill, FilledWorld
  <1>4. intent' = [intent EXCEPT ![s] = i]
    BY <1>2 DEF ExecFill, IntentRecord
  <1>5. LocalsSound(x) /\ x.pc \notin Suspended
    BY AfterSound
  <1>6. Resumes(q, s, x)
    BY <1>3, <1>5 DEF Resumes
  <1>7. /\ Sound(s, World(s)) /\ World(s).ev = {} /\ (World(s).in <=> Here(s))
        /\ Here(s) => World(s).r = sigs[s]
    BY WorldSound
  <1>8. /\ Sound(s, w) /\ w.in = World(s).in /\ w.rc.qty = t.n /\ w.r.paper
        /\ w.r.st = World(s).r.st
    BY <1>2, <1>7, BookEntrySound
  <1> HIDE DEF w
  <1>9. /\ Sound(s, v) /\ v.in = w.in /\ v.rc = w.rc /\ v.r.paper
        /\ v.r.st \in Won => w.r.st \in Won
        /\ v.r.st \in Early => w.r.st \in Early
        /\ v.au = "EXECUTED"
    BY <1>8, FilledSound
  <1> HIDE DEF v
  <1>10. Entry(s) /\ Exits(s) /\ FirstEntry(s)
    BY AtSignal
  <1>11. /\ intent[s].st \in {"SUBMITTED", "REJECTED"}
         /\ intent[s].st = "SUBMITTED" =>
              /\ t.n = intent[s].n /\ bought[s] = 0
              /\ \A r \in Tasks : On(r, s, {"order"}) => r = q
    BY <1>2, <1>10 DEF Entry
  <1>12. /\ i \in IntentRecord /\ i.n = intent[s].n
         /\ i.st = IF intent[s].st = "REJECTED" THEN "REJECTED" ELSE "FILLED"
    BY <1>2 DEF IntentRecord
  <1>13. n \in Nat /\ (intent[s].st = "SUBMITTED" => n = t.n) /\ Symbol[s] \in Symbols
    BY <1>2, <1>11 DEF Symbols
  <1> HIDE DEF i, n, x
  <1>14. /\ intent'[s] = i /\ \A u \in Signals : u # s => intent'[u] = intent[u]
         /\ intent' \in [Signals -> IntentRecord]
    BY <1>2, <1>4, <1>12
  <1>15. /\ bought'[s] = bought[s] + n /\ \A u \in Signals : u # s => bought'[u] = bought[u]
         /\ bought' \in [Signals -> Nat]
    BY <1>2, <1>3, <1>13
  <1>16. pos' \in [Symbols -> Int] /\ sold' \in [Signals -> Int]
    BY <1>2, <1>3, <1>13
  <1>17. Paid(s)' /\ (intent'[s].st = "FILLED" => intent[s].st = "SUBMITTED")
    BY <1>11, <1>12, <1>14 DEF Paid
  <1>18. v.in => Here(s) /\ v.in /\ (v.r.st \in Won => sigs[s].st \in Won)
                   /\ (v.r.st \in Early => sigs[s].st \in Early)
    BY <1>7, <1>8, <1>9
  <1>19. v.in /\ v.r.st \in Won => intent'[s].st # "FILLED"
    BY <1>10, <1>17, <1>18 DEF Exits, Won, Paid
  <1>20. WriteStep(q, s, v, x)
    BY <1>3, <1>5, <1>6, <1>9, <1>14, <1>15, <1>16, <1>17, <1>18, <1>19 DEF WriteStep, Suspended
  <1>21. recon'[s].qty = t.n
    BY <1>3, <1>8, <1>9, CommitWrites
  <1>22. task'[q] = x /\ \A r \in Tasks : r # q => task'[r] = task[r]
    BY <1>6, OnlyTask
  <1>23. Entry(s)'
    <2>1. CASE intent[s].st = "REJECTED"
      BY <1>12, <1>14, <2>1 DEF Entry
    <2>2. CASE intent[s].st = "SUBMITTED"
      <3>1. \A r \in Tasks : ~On(r, s, {"order"})'
        BY <1>5, <1>11, <1>22, <2>2 DEF On, Suspended, Ordering
      <3> QED
        BY <1>2, <1>11, <1>12, <1>13, <1>14, <1>15, <1>21, <2>2, <3>1 DEF Entry
    <2> QED
      BY <1>11, <2>1, <2>2
  <1>24. "execute" \notin Acts => q = "tick" /\ sigs[s].st \notin Early /\ audit[s] \notin Settled
    BY <1>2, <1>10 DEF FirstEntry, On, Ordering, Unpaid
  <1>25. FirstEntry(s)'
    BY <1>5, <1>18, <1>20, <1>24, FirstKept DEF Over, Suspended
  <1>26. "execute" \notin Acts => KeepsSettled
    BY <1>3, <1>9, <1>24, CommitWrites DEF KeepsSettled
  <1> QED
    BY <1>20, <1>23, <1>25, <1>26, WriteInv

LEMMA OffDomainInv ==
    ASSUME TradeInv, NEW q \in Tasks, ExecOffDomain(q)
    PROVE  TradeInv' /\ KeepsSettled
  <1>1. At(q, "order") /\ task[q].pc = "order" /\ task[q].pc \in Suspended
    BY DEF ExecOffDomain, At, Suspended, Ordering
  <1> SUFFICES ASSUME NEW s \in Signals, s = task[q].s, NEW t \in TaskRecord, t = task[q]
               PROVE  TradeInv' /\ KeepsSettled
    BY <1>1, AtTask DEF LocalsSound
  <1> DEFINE v == FailedWorld(t)
             x == After(q)
             i == [intent[s] EXCEPT !.st = "REJECTED"]
  <1>2. /\ pos \in [Symbols -> Int] /\ sold \in [Signals -> Int]
        /\ intent \in [Signals -> IntentRecord] /\ bought \in [Signals -> Nat]
    BY <1>1, AtTask
  <1>3. /\ Commit(s, v) /\ task' = [task EXCEPT ![q] = x]
        /\ pos' = [pos EXCEPT ![Symbol[s]] = 0] /\ intent' = [intent EXCEPT ![s] = i]
        /\ UNCHANGED <<bought, sold>>
    BY <1>2 DEF ExecOffDomain, ExecFailed, FailedWorld, IntentRecord
  <1>4. LocalsSound(x) /\ x.pc \notin Suspended
    BY AfterSound
  <1>5. Resumes(q, s, x)
    BY <1>3, <1>4 DEF Resumes
  <1>6. /\ Sound(s, v) /\ Follows(World(s), v) /\ (v.in => Here(s)) /\ Calm(s, v, x)
    BY <1>1, <1>4, FailedSound
  <1>7. /\ World(s).au = audit[s] /\ (World(s).in <=> Here(s)) /\ (Here(s) => World(s).r = sigs[s])
    BY WorldSound
  <1>8. i \in IntentRecord /\ i.st = "REJECTED"
    BY <1>2 DEF IntentRecord
  <1> HIDE DEF v, x, i
  <1>9. /\ intent'[s].st = "REJECTED" /\ \A u \in Signals : u # s => intent'[u] = intent[u]
        /\ intent' \in [Signals -> IntentRecord] /\ pos' \in [Symbols -> Int]
        /\ bought' = bought /\ bought' \in [Signals -> Nat] /\ sold' \in [Signals -> Int]
    <2>1. intent'[s].st = "REJECTED" /\ \A u \in Signals : u # s => intent'[u] = intent[u]
      BY <1>2, <1>3, <1>8
    <2>2. intent' \in [Signals -> IntentRecord]
      BY <1>2, <1>3, <1>8
    <2>3. pos' \in [Symbols -> Int]
      <3>1. pos \in [Symbols -> Int] /\ pos' = [pos EXCEPT ![Symbol[s]] = 0]
        BY <1>2, <1>3
      <3>2. Symbol[s] \in Symbols
        BY DEF Symbols
      <3> QED
        BY <3>1, <3>2, 0 \in Int
    <2> QED
      BY <1>2, <1>3, <2>1, <2>2, <2>3
  <1>10. Paid(s)'
    BY <1>9 DEF Paid
  <1>11. WriteStep(q, s, v, x)
    BY <1>3, <1>4, <1>5, <1>6, <1>9, <1>10 DEF WriteStep, Suspended
  <1>12. Entry(s)'
    BY <1>9 DEF Entry
  <1>13. v.in /\ v.r.st \in Early => sigs[s].st \in Early
    BY <1>6, <1>7 DEF Follows
  <1>14. FirstEntry(s)'
    BY <1>4, <1>6, <1>11, <1>13, FirstKept DEF Suspended
  <1>15. KeepsSettled
    BY <1>3, <1>6, <1>7, CommitWrites DEF KeepsSettled, Follows
  <1> QED
    BY <1>11, <1>12, <1>14, <1>15, WriteInv

-----------------------------------------------------------------------------
(* The actions: the tick, up to the close of a trade *)

LEMMA TriggerInv ==
    ASSUME TradeInv, TrackerConstants, NEW s \in Signals, TickTrigger(s)
    PROVE  TradeInv' /\ KeepsSettled
  <1> DEFINE w == Go(s, World(s), "TRIGGERED")
             l == Locals("tick", s)
             x == [l EXCEPT !.pc = "gate", !.n = TickLots]
             v == Go(s, w, "INVALIDATED")
             y == Next1("tick", s)
  <1>1. /\ "tick" \in Tasks /\ At("tick", "loop") /\ sigs[s].st \in {"VALIDATED", "ARMED"}
        /\ sigs[s].st \in Early
    BY DEF Tasks, TickTrigger, Visit, Triggered, Early, PreTrigger
  <1>2. /\ pos' \in [Symbols -> Int] /\ sold' \in [Signals -> Int] /\ UNCHANGED <<intent, bought>>
    BY DEF TickTrigger, TradeInv, TradeType
  <1>3. /\ Sound(s, World(s)) /\ World(s).ev = {} /\ World(s).au = audit[s]
        /\ (World(s).in <=> Here(s)) /\ (Here(s) => World(s).r = sigs[s])
    BY WorldSound
  <1>4. {"TRIGGERED", "INVALIDATED"} \subseteq States \ (Early \cup Won)
    BY DEF States, Terminal, PreTrigger, Early, Won
  <1>5. /\ Sound(s, w) /\ Follows(World(s), w) /\ w.in = World(s).in /\ w.au = World(s).au
        /\ w.r.paper = World(s).r.paper
        /\ w.r.st = World(s).r.st \/ w.r.st = "TRIGGERED"
        /\ \A e \in w.ev : e.state = "TRIGGERED"
    BY <1>3, <1>4, GoFollows
  <1>6. /\ l \in TaskRecord /\ l.s = s /\ ~l.part /\ (l.todo # {} => l.op \in {"tick", "eod"})
    BY <1>1, LocalsRecord
  <1>7. CASE w.r.st = "TRIGGERED"
    <2>1. Commit(s, w) /\ task' = [task EXCEPT !["tick"] = x]
      BY <1>7 DEF TickTrigger
    <2> HIDE DEF w, l
    <2>2. TickLots \in Nat \ {0}
      BY DEF TrackerConstants
    <2>2a. TickLots \in Int
      BY <2>2
    <2>3. x \in TaskRecord /\ x.s = s /\ x.pc = "gate" /\ x.n = TickLots /\ ~x.part
            /\ (x.todo # {} => x.op \in {"tick", "eod"})
      BY <1>6, <2>2a DEF TaskRecord, Suspended, Ordering
    <2> HIDE DEF x
    <2>4. LocalsSound(x) /\ Resumes("tick", s, x)
      BY <2>1, <2>2, <2>3 DEF LocalsSound, Resumes, Closing
    <2>5. Calm(s, w, x) /\ Over("tick", w)
      BY <1>3, <1>4, <1>5, <1>7, <2>3 DEF Calm, Over, Closing
    <2> QED
      BY <1>1, <1>2, <1>4, <1>5, <1>7, <2>1, <2>3, <2>4, <2>5, FollowInv DEF Closing
  <1>8. CASE w.r.st # "TRIGGERED"
    <2>1. Commit(s, v) /\ task' = [task EXCEPT !["tick"] = y]
      BY <1>8 DEF TickTrigger
    <2>2. LocalsSound(y) /\ y.pc \notin Suspended
      BY <1>1, Next1Sound
    <2> HIDE DEF w, l, y
    <2>3. /\ Sound(s, v) /\ Follows(w, v) /\ v.in = w.in /\ v.au = w.au
          /\ v.r.paper = w.r.paper
          /\ v.r.st = w.r.st \/ v.r.st = "INVALIDATED"
          /\ \A e \in v.ev : e.state \in {"TRIGGERED", "INVALIDATED"}
          /\ v.rc = w.rc
      BY <1>4, <1>5, GoFollows
    <2> HIDE DEF v
    <2>4. Resumes("tick", s, y)
      BY <2>1, <2>2 DEF Resumes
    <2>5. Follows(World(s), v)
      BY <1>4, <1>5, <1>8, <2>3 DEF Follows
    <2>6. Calm(s, v, y)
      BY <1>3, <1>5, <2>2, <2>3 DEF Calm, Suspended
    <2>7. v.in /\ v.r.st \in Won => sigs[s].st \in Won
      BY <1>3, <1>4, <1>5, <2>3
    <2> QED
      BY <1>1, <1>2, <2>1, <2>2, <2>3, <2>4, <2>5, <2>6, <2>7, FollowInv DEF Suspended, Ordering
  <1> QED
    BY <1>7, <1>8

LEMMA BookedInv ==
    ASSUME TradeInv, NEW s \in Signals, TickBooked(s)
    PROVE  TradeInv' /\ KeepsSettled
  <1> DEFINE v == Go(s, World(s), "CLOSED")
             y == Next1("tick", s)
  <1>1. "tick" \in Tasks /\ At("tick", "loop") /\ sigs[s].paper
    BY DEF Tasks, TickBooked, Visit, FullyBooked
  <1>2. /\ pos' \in [Symbols -> Int] /\ sold' \in [Signals -> Int] /\ UNCHANGED <<intent, bought>>
        /\ Commit(s, v) /\ task' = [task EXCEPT !["tick"] = y]
    BY DEF TickBooked, TradeInv, TradeType
  <1>3. /\ Sound(s, World(s)) /\ World(s).ev = {} /\ World(s).au = audit[s]
        /\ (World(s).in <=> Here(s)) /\ (Here(s) => World(s).r = sigs[s])
    BY WorldSound
  <1>4. "CLOSED" \in States \ (Early \cup Won)
    BY DEF States, Terminal, PreTrigger, Early, Won
  <1>5. LocalsSound(y) /\ y.pc \notin Suspended
    BY <1>1, Next1Sound
  <1>6. /\ Sound(s, v) /\ Follows(World(s), v) /\ v.in = World(s).in
        /\ v.r.st = World(s).r.st \/ v.r.st = "CLOSED"
    BY <1>3, <1>4, GoFollows
  <1> HIDE DEF v, y
  <1>7. Resumes("tick", s, y)
    BY <1>2, <1>5 DEF Resumes
  <1>8. Busy(s)
    BY <1>1 DEF Busy
  <1>9. v.in /\ v.r.st \in Won => sigs[s].st \in Won
    BY <1>3, <1>4, <1>6
  <1> QED
    BY <1>1, <1>2, <1>5, <1>6, <1>7, <1>8, <1>9, FollowInv DEF Suspended, Ordering

\* A signal's next move is one of the manager's states, a ratchet or none.
LEMMA ActionType ==
    ASSUME TradeInv, NEW s \in Signals
    PROVE  Action(s) \in States \cup {"HOLD", "BE"} /\ (Action(s) # "HOLD" => Here(s))
  <1>1. sigs[s] \in SignalRecord
    BY AtSignal
  <1>2. {"RUNNER_TIME_STOP_HIT", "TIME_STOP_HIT", "STOP_LOSS_HIT", "TARGET_1_HIT", "TARGET_2_HIT"}
          \subseteq States
    BY DEF States, Terminal
  <1> QED
    BY <1>1, <1>2 DEF Action, PreEmpted, Verdict, Here

LEMMA ActInv ==
    ASSUME TradeInv, NEW s \in Signals, TickAct(s)
    PROVE  TradeInv' /\ KeepsSettled
  <1> DEFINE l == Locals("tick", s)
             x == [l EXCEPT !.pc = "mark", !.act = Action(s)]
  <1>1. "tick" \in Tasks /\ At("tick", "loop") /\ s \in task["tick"].todo
          /\ task' = [task EXCEPT !["tick"] = x]
    BY DEF Tasks, TickAct, Visit
  <1>2. /\ l \in TaskRecord /\ l.s = s /\ ~l.part /\ l.todo \subseteq Signals
        /\ l.op = task["tick"].op
    BY <1>1, LocalsRecord
  <1>3. task["tick"].op \in {"tick", "eod"}
    BY <1>1 DEF TradeInv, TradeType, LocalsSound
  <1>4. Action(s) \in Actions /\ Here(s)
    BY ActionType DEF TickAct, Actions
  <1> HIDE DEF l
  <1>5. x \in TaskRecord /\ x.s = s /\ x.pc = "mark" /\ x.op = l.op /\ ~x.part
    BY <1>2, <1>4 DEF TaskRecord, Suspended
  <1> HIDE DEF x
  <1>6. LocalsSound(x) /\ Resumes("tick", s, x) /\ x.pc \notin Ordering \cup Closing
    BY <1>1, <1>2, <1>3, <1>5 DEF LocalsSound, Resumes, Ordering, Closing
  <1>7. /\ UNCHANGED <<sigs, intents, retired, now, recon, audit, mirror, orphan, bought, pos, sold, intent>>
        /\ pos \in [Symbols -> Int] /\ sold \in [Signals -> Int] /\ intent \in [Signals -> IntentRecord]
    BY DEF TickAct, vars, books, TradeInv, TradeType
  <1>8. Entry(s)' /\ (Paid(s)' <=> Paid(s))
    BY <1>1, <1>5, <1>6, <1>7, EntryKept DEF Paid
  <1> QED
    BY <1>1, <1>4, <1>5, <1>6, <1>7, <1>8, TaskInv

\* A task moves on to its next signal and writes nothing.
LEMMA SkipInv ==
    ASSUME TradeInv, NEW q \in Tasks, NEW s \in Signals, At(q, "loop"), Skip(q, s)
    PROVE  TradeInv' /\ KeepsSettled
  <1>1. task' = [task EXCEPT ![q] = Next1(q, s)]
    BY DEF Skip, Next1, TradeInv, TradeType
  <1>2. LocalsSound(Next1(q, s)) /\ Next1(q, s).pc \notin Suspended
    BY Next1Sound
  <1>3. UNCHANGED <<sigs, intents, retired, now, recon, audit, mirror, intent, bought, orphan, pos, sold>>
    BY DEF Skip, vars, books
  <1>4. TypeOK' /\ pos' \in [Symbols -> Int] /\ sold' \in [Signals -> Int]
    BY <1>3 DEF TradeInv, TradeType, TypeOK
  <1> QED
    BY <1>1, <1>2, <1>3, <1>4, QuietInv

LEMMA RatchetInv ==
    ASSUME TradeInv, TickRatchet
    PROVE  TradeInv' /\ KeepsSettled
  <1>1. "tick" \in Tasks /\ task["tick"].pc \in Suspended /\ task' = [task EXCEPT !["tick"] = After("tick")]
    BY DEF Tasks, TickRatchet, At, Suspended
  <1> SUFFICES ASSUME NEW s \in Signals, s = task["tick"].s, NEW p \in Int, p = task["tick"].p
               PROVE  TradeInv' /\ KeepsSettled
    BY <1>1, AtTask DEF LocalsSound, TaskRecord
  <1>2. LocalsSound(After("tick")) /\ After("tick").pc \notin Suspended
    BY <1>1, AfterSound
  <1>3. UNCHANGED <<recon, audit, mirror, intent, bought, orphan, pos, sold>>
    BY DEF TickRatchet, books
  <1>4. Ratchet(s, p) \/ UNCHANGED vars
    BY DEF TickRatchet
  <1>5. TypeOK /\ pos' \in [Symbols -> Int] /\ sold' \in [Signals -> Int]
    BY <1>3 DEF TradeInv, TradeType
  <1>6. TypeOK'
    BY <1>4, <1>5, RatchetType DEF vars, TypeOK
  <1>7. UNCHANGED retired
    BY <1>4 DEF Ratchet, vars
  <1>8. ASSUME NEW u \in Signals
        PROVE  sigs'[u].st = sigs[u].st /\ sigs'[u].paper = sigs[u].paper /\ sigs'[u].rem = sigs[u].rem
    <2>1. sigs \in [Signals -> SignalRecord]
      BY <1>5 DEF TypeOK
    <2>2. CASE Ratchet(s, p)
      BY <2>1, <2>2 DEF Ratchet, SignalRecord
    <2> QED
      BY <1>4, <2>2 DEF vars
  <1> QED
    BY <1>1, <1>2, <1>3, <1>5, <1>6, <1>7, <1>8, QuietInv

LEMMA RequestExecuteInv ==
    ASSUME TradeInv, TrackerConstants, NEW q \in Requests, NEW s \in Signals, NEW n \in Lots,
           RequestExecute(q, s, n)
    PROVE  TradeInv' /\ KeepsSettled
  <1> DEFINE x == [Idle EXCEPT !.pc = "gate", !.op = "execute", !.s = s, !.n = n]
  <1>1. q \in Tasks /\ n \in Nat \ {0} /\ Here(s) /\ "execute" \in Acts
          /\ task' = [task EXCEPT ![q] = x]
    BY DEF Tasks, RequestExecute, TrackerConstants
  <1>2. Idle \in TaskRecord /\ ~Idle.part /\ Idle.todo = {}
    BY IdleSound DEF LocalsSound, Idle
  <1>2a. n \in Int
    BY <1>1
  <1>3. x \in TaskRecord /\ x.pc = "gate" /\ x.s = s /\ x.n = n /\ x.todo = {} /\ ~x.part
    BY <1>2, <1>2a DEF TaskRecord, Suspended, Ordering
  <1> HIDE DEF x
  <1>4. LocalsSound(x) /\ Resumes(q, s, x) /\ x.pc \notin Closing
    BY <1>1, <1>3 DEF LocalsSound, Resumes, Closing
  <1>5. /\ UNCHANGED <<sigs, intents, retired, now, recon, audit, mirror, orphan, bought, pos, sold, intent>>
        /\ pos \in [Symbols -> Int] /\ sold \in [Signals -> Int] /\ intent \in [Signals -> IntentRecord]
    BY DEF RequestExecute, vars, books, TradeInv, TradeType
  <1>6. Entry(s)' /\ (Paid(s)' <=> Paid(s))
    BY <1>1, <1>3, <1>4, <1>5, EntryKept DEF Paid
  <1> QED
    BY <1>1, <1>4, <1>5, <1>6, TaskInv

LEMMA DeskInv ==
    ASSUME TradeInv, NEW k \in DOMAIN pos, SquareOffDesk(k)
    PROVE  TradeInv' /\ KeepsSettled
  <1>1. pos \in [Symbols -> Int] /\ k \in Symbols /\ sold \in [Signals -> Int] /\ TypeOK
    BY DEF TradeInv, TradeType
  <1>2. pos' \in [Symbols -> Int]
    BY <1>1, 0 \in Int DEF SquareOffDesk
  <1>3. UNCHANGED <<sigs, intents, retired, now, recon, audit, mirror, intent, bought, sold, orphan, task>>
    BY DEF SquareOffDesk, vars
  <1>4. TypeOK'
    BY <1>1, <1>3 DEF TypeOK
  <1>5. "tick" \in Tasks /\ "idle" \notin Suspended
    BY DEF Tasks, Suspended, Ordering, Closing
  <1> QED
    BY <1>1, <1>2, <1>3, <1>4, <1>5, IdleSound, QuietInv

LEMMA WaitInv ==
    ASSUME TradeInv, Wait
    PROVE  TradeInv' /\ KeepsSettled
  <1>1. pos \in [Symbols -> Int] /\ sold \in [Signals -> Int] /\ TypeOK
    BY DEF TradeInv, TradeType
  <1>2. UNCHANGED <<sigs, intents, retired, recon, audit, mirror, intent, bought, sold, orphan, pos, task>>
    BY DEF Wait, ClockTick, books
  <1>3. TypeOK'
    BY <1>1, <1>2 DEF TypeOK, Wait, ClockTick
  <1>4. "tick" \in Tasks /\ "idle" \notin Suspended
    BY DEF Tasks, Suspended, Ordering, Closing
  <1> QED
    BY <1>1, <1>2, <1>3, <1>4, IdleSound, QuietInv

-----------------------------------------------------------------------------
(* The actions: close_signal_position, called by the tick, the square-off  *)
(* and a deletion                                                          *)

LEMMA FollowsTransitive ==
    ASSUME NEW a, NEW b, NEW c, Follows(a, b), Follows(b, c),
           a.au \in Settled => b.au = a.au,
           b.r.st \in Won => a.r.st \in Won
    PROVE  Follows(a, c)
  BY DEF Follows

\* The world a close starts from: the signal as it was or at its first target.
Opens(s, w) ==
    /\ Sound(s, w) /\ Follows(World(s), w)
    /\ w.in = World(s).in /\ w.au = audit[s] /\ (w.in => w.r.paper = sigs[s].paper)
    /\ w.r.st \in Won => World(s).r.st \in Won
    /\ \A e \in w.ev : e.state \in States \ {"CLOSED"}

LEMMA UntouchedOpens ==
    ASSUME TradeInv, NEW s \in Signals PROVE Opens(s, World(s))
  BY WorldSound, FollowsReflexive DEF Opens

LEMMA StartCloseInv ==
    ASSUME TradeInv, NEW q \in Tasks, NEW s \in Signals, NEW w, Opens(s, w),
           NEW t \in TaskRecord, t.s = s, t.op \in {"tick", "eod", "delete"}, ~t.part,
           t.act # "CONFIRMED", t.todo # {} => t.op \in {"tick", "eod"},
           StartClose(q, t, w),
           UNCHANGED <<pos, intent, bought, sold>>
    PROVE  TradeInv' /\ KeepsSettled
  <1>1. /\ pos' \in [Symbols -> Int] /\ sold' \in [Signals -> Int] /\ now \in Nat
    BY DEF TradeInv, TradeType, TypeOK
  <1>2. Exits(s) /\ (World(s).in <=> Here(s)) /\ (Here(s) => World(s).r = sigs[s])
          /\ World(s).au = audit[s]
    BY AtSignal, WorldSound
  <1>3. w.in /\ w.r.paper => Busy(s) /\ Paid(s)
    BY <1>2 DEF Opens, Busy, Exits
  <1>4. CASE w.in /\ w.r.paper /\ w.au \notin Settled
    <2> DEFINE x == [t EXCEPT !.pc = "snap"]
    <2>1. Commit(s, w) /\ task' = [task EXCEPT ![q] = x]
      BY <1>4 DEF StartClose
    <2>2. x \in TaskRecord /\ x.pc = "snap" /\ x.s = s /\ x.op = t.op /\ x.act = t.act
            /\ ~x.part /\ x.todo = t.todo
      BY DEF TaskRecord, Suspended, Closing
    <2> HIDE DEF x
    <2>3. LocalsSound(x) /\ Resumes(q, s, x) /\ x.pc \notin Ordering \cup {"order"}
      BY <2>1, <2>2 DEF LocalsSound, Resumes, Ordering
    <2>4. w.in /\ w.r.st \in Won => sigs[s].st \in Won
      BY <1>2 DEF Opens
    <2> QED
      BY <1>1, <1>3, <1>4, <2>1, <2>3, <2>4, FollowInv DEF Opens
  <1>5. CASE ~(w.in /\ w.r.paper /\ w.au \notin Settled)
    <2> DEFINE res == IF w.in /\ w.r.paper THEN "ok" ELSE "none"
               v   == Finish(t, w, res)
               x   == After(q)
    <2>1. Commit(s, v) /\ task' = [task EXCEPT ![q] = x]
      BY <1>5 DEF StartClose
    <2>2. LocalsSound(x) /\ x.pc \notin Suspended
      BY AfterSound
    <2>3. res = "ok" => w.in /\ w.r.paper /\ w.au \in Settled
      BY <1>5
    <2>4. res # "ok" => ~(w.in /\ w.r.paper)
      OBVIOUS
    <2> HIDE DEF res, x
    <2>5. /\ Sound(s, v) /\ Follows(w, v)
          /\ res # "ok" => v.au \in {w.au, "NONE"} /\ \A e \in v.ev : e \in w.ev \/ e.state = "DELETED"
          /\ v.in => res = "ok" \/ v.r.st = w.r.st
      BY <1>1, <2>3, FinishSound DEF Opens
    <2> HIDE DEF v
    <2>6. Resumes(q, s, x) /\ x.pc \notin Closing \cup Ordering \cup {"order"}
      BY <2>1, <2>2 DEF Resumes, Suspended, Ordering
    <2>7. Follows(World(s), v)
      BY <1>2, <2>5, FollowsTransitive DEF Opens
    <2>8. Calm(s, v, x) \/ Busy(s)
      <3>1. CASE res = "ok"
        BY <1>3, <2>3, <3>1
      <3>2. CASE res # "ok"
        <4>1. v.in /\ v.r.paper => sigs[s].paper
          BY <1>2, <2>7 DEF Follows
        <4>2. v.au \in Settled => audit[s] \in Settled
          BY <2>5, <3>2, StateFacts DEF Opens
        <4>3. \A e \in v.ev : e.state # "CLOSED"
          BY <2>5, <3>2 DEF Opens
        <4> QED
          BY <2>6, <4>1, <4>2, <4>3 DEF Calm
      <3> QED
        BY <3>1, <3>2
    <2>9. v.in /\ v.r.st \in Won => sigs[s].st \in Won \/ Paid(s)
      BY <1>2, <1>3, <2>3, <2>5, <2>7 DEF Opens, Follows
    <2> QED
      BY <1>1, <2>1, <2>5, <2>6, <2>7, <2>8, <2>9, FollowInv
  <1> QED
    BY <1>4, <1>5

LEMMA Target1Inv ==
    ASSUME TradeInv, NEW mark \in BOOLEAN, TickTarget1(mark)
    PROVE  TradeInv' /\ KeepsSettled
  <1>1. "tick" \in Tasks /\ task["tick"].pc = "mark" /\ task["tick"].pc \in Suspended
    BY DEF Tasks, TickTarget1, At, Suspended
  <1> SUFFICES ASSUME NEW s \in Signals, s = task["tick"].s, NEW t \in TaskRecord, t = task["tick"]
               PROVE  TradeInv' /\ KeepsSettled
    BY <1>1, AtTask DEF LocalsSound
  <1> DEFINE w == Go(s, World(s), "TARGET_1_HIT")
             b == BookT1(w)
             x == [t EXCEPT !.n = T1Lots(b.rc.qty)]
  <1>2. /\ t.op \in {"tick", "eod", "delete"} /\ ~t.part /\ t.act = "TARGET_1_HIT"
        /\ t.todo # {} => t.op \in {"tick", "eod"}
    BY <1>1, AtTask DEF LocalsSound, TickTarget1
  <1>3. UNCHANGED <<pos, intent, bought, sold>>
          /\ pos' \in [Symbols -> Int] /\ sold' \in [Signals -> Int]
    BY DEF TickTarget1, TradeInv, TradeType
  <1>4. /\ Sound(s, World(s)) /\ World(s).ev = {} /\ World(s).au = audit[s]
        /\ (World(s).in <=> Here(s)) /\ (Here(s) => World(s).r = sigs[s])
    BY WorldSound
  <1>5. "TARGET_1_HIT" \in States \ (Early \cup Won \cup {"CLOSED"})
    BY DEF States, Terminal, PreTrigger, Early, Won
  <1>6. /\ Sound(s, w) /\ Follows(World(s), w) /\ w.in = World(s).in /\ w.au = World(s).au
        /\ w.r.paper = World(s).r.paper /\ w.rc = World(s).rc
        /\ w.r.st = World(s).r.st \/ w.r.st = "TARGET_1_HIT"
        /\ \A e \in w.ev : e.state = "TARGET_1_HIT"
    BY <1>4, <1>5, GoFollows
  <1> HIDE DEF w
  <1>7. CASE mark
    <2>1. StartClose("tick", x, b)
      BY <1>7 DEF TickTarget1, w
    <2>2. /\ Sound(s, b) /\ b.in = w.in /\ b.rc.qty = w.rc.qty /\ b.au = w.au /\ b.ev = w.ev
          /\ b.r.paper = w.r.paper /\ b.r.st = w.r.st
      BY <1>6, BookT1Sound
    <2> HIDE DEF b
    <2>3. Follows(World(s), b)
      BY <1>6, <2>2 DEF Follows
    <2>4. Opens(s, b)
      BY <1>4, <1>5, <1>6, <2>2, <2>3 DEF Opens
    <2>5. b.rc.qty \in Nat
      BY <2>2 DEF Sound, WorldRecord, ReconRecord
    <2>6. T1Lots(b.rc.qty) \in Int
      BY <2>5 DEF T1Lots
    <2>7. x \in TaskRecord /\ x.s = s /\ x.op = t.op /\ x.act = t.act /\ x.part = t.part
            /\ x.todo = t.todo
      BY <2>6 DEF TaskRecord
    <2> HIDE DEF x
    <2> QED
      BY <1>1, <1>2, <1>3, <2>1, <2>4, <2>7, StartCloseInv
  <1>8. CASE ~mark
    <2> DEFINE y == After("tick")
    <2>1. Commit(s, w) /\ task' = [task EXCEPT !["tick"] = y]
      BY <1>8 DEF TickTarget1, w
    <2>2. LocalsSound(y) /\ y.pc \notin Suspended
      BY <1>1, AfterSound
    <2> HIDE DEF y
    <2>3. Resumes("tick", s, y) /\ y.pc \notin Closing \cup Ordering \cup {"order"}
      BY <2>1, <2>2 DEF Resumes, Suspended, Ordering
    <2>4. Calm(s, w, y)
      BY <1>4, <1>5, <1>6, <2>3 DEF Calm
    <2>5. w.in /\ w.r.st \in Won => sigs[s].st \in Won
      BY <1>4, <1>5, <1>6
    <2> QED
      BY <1>1, <1>3, <1>6, <2>1, <2>3, <2>4, <2>5, FollowInv
  <1> QED
    BY <1>7, <1>8

LEMMA FinalInv ==
    ASSUME TradeInv, NEW mark \in BOOLEAN, TickFinal(mark)
    PROVE  TradeInv' /\ KeepsSettled
  <1>1. "tick" \in Tasks /\ task["tick"].pc = "mark" /\ task["tick"].pc \in Suspended
    BY DEF Tasks, TickFinal, At, Suspended
  <1> SUFFICES ASSUME NEW s \in Signals, s = task["tick"].s, NEW t \in TaskRecord, t = task["tick"]
               PROVE  TradeInv' /\ KeepsSettled
    BY <1>1, AtTask DEF LocalsSound
  <1> DEFINE x == [t EXCEPT !.mark = mark]
  <1>2. /\ t.op \in {"tick", "eod", "delete"} /\ ~t.part /\ t.act # "CONFIRMED"
        /\ t.todo # {} => t.op \in {"tick", "eod"}
    BY <1>1, AtTask DEF LocalsSound, TickFinal, Terminal
  <1>3. x \in TaskRecord /\ x.s = s /\ x.op = t.op /\ x.act = t.act /\ x.part = t.part
          /\ x.todo = t.todo
    BY DEF TaskRecord
  <1>4. StartClose("tick", x, World(s)) /\ UNCHANGED <<pos, intent, bought, sold>>
    BY DEF TickFinal
  <1> HIDE DEF x
  <1> QED
    BY <1>1, <1>2, <1>3, <1>4, UntouchedOpens, StartCloseInv

LEMMA EodInv ==
    ASSUME TradeInv, NEW s \in Signals, EodVisit(s)
    PROVE  TradeInv' /\ KeepsSettled
  <1>1. "eod" \in Tasks /\ At("eod", "loop") /\ s \in task["eod"].todo
    BY DEF Tasks, EodVisit, Visit
  <1>2. CASE EodOpen(sigs[s])
    <2> DEFINE l == Locals("eod", s)
               x == [l EXCEPT !.act = "EOD_SQUAREOFF"]
    <2>1. /\ l \in TaskRecord /\ l.s = s /\ l.op = task["eod"].op
          /\ ~l.part /\ (l.todo # {} => l.op \in {"tick", "eod"})
      BY <1>1, LocalsRecord
    <2>2. task["eod"].op \in {"tick", "eod"}
      BY <1>1 DEF TradeInv, TradeType, LocalsSound
    <2> HIDE DEF l
    <2>3. x \in TaskRecord /\ x.s = s /\ x.op = l.op /\ x.act = "EOD_SQUAREOFF" /\ ~x.part
            /\ x.todo = l.todo
      BY <2>1 DEF TaskRecord, Actions
    <2>4. StartClose("eod", x, World(s)) /\ UNCHANGED <<pos, intent, bought, sold>>
      BY <1>2 DEF EodVisit, l
    <2> HIDE DEF x
    <2> QED
      BY <1>1, <2>1, <2>2, <2>3, <2>4, UntouchedOpens, StartCloseInv
  <1>3. CASE ~EodOpen(sigs[s])
    BY <1>1, <1>3, SkipInv DEF EodVisit
  <1> QED
    BY <1>2, <1>3

LEMMA DeleteInv ==
    ASSUME TradeInv, NEW q \in Requests, NEW s \in Signals, RequestDelete(q, s)
    PROVE  TradeInv' /\ KeepsSettled
  <1>1. q \in Tasks /\ task[q].pc = "idle" /\ UNCHANGED <<pos, intent, bought, sold>>
    BY DEF Tasks, RequestDelete, At
  <1>2. CASE audit[s] \in {"ARMED", "CONFIRMED", "EXECUTED"}
    <2> DEFINE t == [Idle EXCEPT !.op = "delete", !.s = s, !.act = "DELETED_BY_USER"]
    <2>1. Idle \in TaskRecord /\ ~Idle.part /\ Idle.todo = {}
      BY IdleSound DEF LocalsSound, Idle
    <2>2. t \in TaskRecord /\ t.op = "delete" /\ t.s = s /\ t.act = "DELETED_BY_USER" /\ ~t.part
            /\ t.todo = {}
      BY <2>1 DEF TaskRecord, Actions
    <2>3. StartClose(q, t, World(s))
      BY <1>2 DEF RequestDelete
    <2> HIDE DEF t
    <2> QED
      BY <1>1, <2>2, <2>3, UntouchedOpens, StartCloseInv
  <1>3. CASE audit[s] \notin {"ARMED", "CONFIRMED", "EXECUTED"}
    <2> DEFINE v == Buried(s, World(s))
    <2> SUFFICES ASSUME NEW x, x = task[q]
                 PROVE  TradeInv' /\ KeepsSettled
      OBVIOUS
    <2>1. Commit(s, v) /\ UNCHANGED task
      BY <1>3 DEF RequestDelete
    <2>2. /\ task \in [Tasks -> TaskRecord] /\ LocalsSound(x) /\ x.pc \notin Suspended
          /\ pos' \in [Symbols -> Int] /\ sold' \in [Signals -> Int] /\ now \in Nat
      BY <1>1 DEF TradeInv, TradeType, TypeOK, Suspended, Ordering, Closing
    <2>3. task' = [task EXCEPT ![q] = x]
      BY <1>1, <2>1, <2>2
    <2>4. /\ Sound(s, World(s)) /\ World(s).ev = {}
      BY WorldSound
    <2>5. /\ Sound(s, v) /\ Follows(World(s), v) /\ ~v.in
          /\ v.au = "NONE" /\ \A e \in v.ev : e.state = "DELETED"
      BY <2>2, <2>4, BuriedSound
    <2> HIDE DEF v
    <2>6. Resumes(q, s, x) /\ x.pc \notin Closing \cup Ordering \cup {"order"}
      BY <2>2, <2>3 DEF Resumes, Suspended, Ordering
    <2>7. Calm(s, v, x)
      BY <2>5, <2>6, StateFacts DEF Calm
    <2> QED
      BY <1>1, <2>1, <2>2, <2>5, <2>6, <2>7, FollowInv
  <1> QED
    BY <1>2, <1>3

\* The end of a close: the exit is on record, and its caller goes on.
LEMMA CloseEndInv ==
    ASSUME TradeInv, NEW q \in Tasks, NEW s \in Signals, On(q, s, Closing),
           NEW t, t.s = s, t.op = task[q].op, t.act = task[q].act, t.part \in BOOLEAN, t.part => t.act = "TARGET_1_HIT",
           NEW w, NEW res, \/ w = Recorded(t, World(s)) /\ res = RecordedResult(w)
                           \/ w = World(s) /\ res = "fail",
           Commit(s, Finish(t, w, res)),
           task' = [task EXCEPT ![q] = After(q)],
           pos' \in [Symbols -> Int], sold' \in [Signals -> Int], UNCHANGED <<intent, bought>>
    PROVE  TradeInv' /\ KeepsSettled
  <1> DEFINE v == Finish(t, w, res)
             x == After(q)
  <1>1. /\ now \in Nat /\ Exits(s) /\ LocalsSound(task[q])
    BY AtSignal DEF TradeInv, TradeType
  <1>2. t.op \in {"tick", "eod", "delete"} /\ t.act # "CONFIRMED"
    BY <1>1 DEF LocalsSound, On
  <1>3. LocalsSound(x) /\ x.pc \notin Suspended
    BY AfterSound
  <1>4. /\ Sound(s, World(s)) /\ World(s).ev = {} /\ World(s).au = audit[s]
        /\ (World(s).in <=> Here(s)) /\ (Here(s) => World(s).r = sigs[s])
    BY WorldSound
  <1>5. /\ Sound(s, w) /\ Follows(World(s), w)
        /\ World(s).au \in Settled => w.au = World(s).au
        /\ w.r.st = World(s).r.st
        /\ res = "ok" => w.au \in Settled \/ t.part
    <2>1. CASE w = Recorded(t, World(s)) /\ res = RecordedResult(w)
      <3>1. /\ Sound(s, w) /\ w.in = World(s).in /\ w.rc.qty = World(s).rc.qty
            /\ w.r.paper = World(s).r.paper /\ w.r.st = World(s).r.st
            /\ World(s).au \in Settled => w.au = World(s).au
            /\ RecordedResult(w) = "ok" => t.part \/ w.au \in Settled
        <4>1. w = Recorded(t, World(s)) /\ Sound(s, World(s))
          BY <1>4, <2>1
        <4> QED
          BY <4>1, RecordedSound
      <3> QED
        BY <2>1, <3>1 DEF Follows
    <2>2. CASE w = World(s) /\ res = "fail"
      BY <1>4, <2>2, FollowsReflexive
    <2> QED
      BY <2>1, <2>2
  <1>6. Sound(s, v) /\ Follows(w, v)
    BY <1>1, <1>2, <1>5, FinishSound
  <1>7. Follows(World(s), v)
    BY <1>5, <1>6, FollowsTransitive
  <1>8. Busy(s) /\ Paid(s)
    BY <1>1 DEF Busy, Exits
  <1> HIDE DEF v, x
  <1>9. Resumes(q, s, x) /\ x.pc \notin Closing \cup Ordering \cup {"order"}
    BY <1>3 DEF Resumes, Suspended, Ordering, x
  <1> QED
    BY <1>6, <1>7, <1>8, <1>9, FollowInv DEF v

LEMMA CloseInv ==
    ASSUME TradeInv, NEW q \in Tasks, Close(q)
    PROVE  TradeInv' /\ KeepsSettled
  <1>1. task[q].pc \in Closing /\ task[q].pc \in Suspended
    BY DEF Close, CloseSnap, ExitFill, ExitReject, At, Closing, Suspended
  <1> SUFFICES ASSUME NEW s \in Signals, s = task[q].s, NEW t \in TaskRecord, t = task[q]
               PROVE  TradeInv' /\ KeepsSettled
    BY <1>1, AtTask DEF LocalsSound
  <1>2. /\ On(q, s, Closing) /\ LocalsSound(t) /\ t.n \in Int /\ t.todo \subseteq Signals
        /\ pos \in [Symbols -> Int] /\ sold \in [Signals -> Int] /\ intent \in [Signals -> IntentRecord]
        /\ Here(s) \/ s \in retired
        /\ Symbol[s] \in Symbols
    BY <1>1, AtTask DEF On, TaskRecord, Symbols
  <1>3. (t.part => t.act = "TARGET_1_HIT") /\ t.part \in BOOLEAN
    BY <1>2 DEF LocalsSound, TaskRecord
  <1>4. ASSUME CloseSnap(q), pos[Symbol[s]] = 0
        PROVE  TradeInv' /\ KeepsSettled
    <2> DEFINE p == t.act = "TARGET_1_HIT" /\ t.n # 0 /\ t.n < bought[s]
               u == [t EXCEPT !.part = p]
               w == Recorded(u, World(s))
    <2>1. Commit(s, Finish(u, w, RecordedResult(w)))
            /\ task' = [task EXCEPT ![q] = After(q)] /\ UNCHANGED <<pos, intent, bought, sold>>
      BY <1>4 DEF CloseSnap
    <2>2. u.s = s /\ u.op = task[q].op /\ u.act = task[q].act /\ (u.part => u.act = "TARGET_1_HIT")
            /\ u.part \in BOOLEAN
      BY DEF TaskRecord
    <2> HIDE DEF u
    <2> QED
      BY <1>2, <2>1, <2>2, CloseEndInv
  <1>5. ASSUME CloseSnap(q), pos[Symbol[s]] # 0
        PROVE  TradeInv' /\ KeepsSettled
    <2> DEFINE k == Symbol[s]
               n == IF t.n # 0 /\ t.n <= Size(k) THEN t.n ELSE Size(k)
               m == IF pos[k] > 0 THEN n ELSE -n
               p == t.act = "TARGET_1_HIT" /\ n < Size(k)
    <2> SUFFICES ASSUME NEW x, x = [t EXCEPT !.pc = "exit", !.n = m, !.part = p]
                 PROVE  TradeInv' /\ KeepsSettled
      OBVIOUS
    <2>1. /\ task' = [task EXCEPT ![q] = x]
          /\ UNCHANGED <<sigs, intents, retired, now, recon, audit, mirror, orphan, pos, intent, bought, sold>>
      BY <1>5 DEF CloseSnap, vars, TradeInv, TradeType
    <2>2. m \in Int /\ p \in BOOLEAN /\ (p => t.act = "TARGET_1_HIT")
      <3>1. pos[k] \in Int /\ t.n \in Int
        BY <1>2 DEF TaskRecord
      <3>2. Size(k) \in Int
        BY <3>1 DEF Size
      <3>3. n \in Int
        BY <3>1, <3>2
      <3>4. m \in Int
        <4> HIDE DEF n
        <4> QED
          BY <3>3
      <3> QED
        BY <3>4
    <2> HIDE DEF m, p
    <2>3. x \in TaskRecord /\ x.pc = "exit" /\ x.s = s /\ x.op = t.op /\ x.act = t.act
            /\ x.todo = t.todo /\ (x.part => t.act = "TARGET_1_HIT")
      BY <2>2 DEF TaskRecord, Suspended, Closing
    <2>4. LocalsSound(x) /\ Resumes(q, s, x) /\ x.pc \notin Ordering \cup {"order"} /\ x.pc \in Suspended
      BY <1>1, <1>2, <2>1, <2>3 DEF LocalsSound, Resumes, Ordering, Closing, Suspended
    <2>5. Busy(s) /\ Paid(s)
      BY <1>2, AtSignal DEF Busy, Exits
    <2>6. Entry(s)' /\ (Paid(s)' <=> Paid(s))
      BY <2>1, <2>4, EntryKept DEF Paid
    <2> QED
      BY <1>2, <2>1, <2>4, <2>5, <2>6, TaskInv
  <1>6. ASSUME ExitFill(q)
        PROVE  TradeInv' /\ KeepsSettled
    <2> DEFINE w == Recorded(t, World(s))
    <2>1. /\ pos' = [pos EXCEPT ![Symbol[s]] = @ - t.n] /\ sold' = [sold EXCEPT ![s] = @ + t.n]
          /\ Commit(s, Finish(t, w, RecordedResult(w)))
          /\ task' = [task EXCEPT ![q] = After(q)] /\ UNCHANGED <<intent, bought>>
      BY <1>6 DEF ExitFill
    <2>2. pos' \in [Symbols -> Int] /\ sold' \in [Signals -> Int]
      BY <1>2, <2>1
    <2> QED
      BY <1>2, <1>3, <2>1, <2>2, CloseEndInv
  <1>7. ASSUME ExitReject(q)
        PROVE  TradeInv' /\ KeepsSettled
    <2>1. Commit(s, Finish(t, World(s), "fail"))
            /\ task' = [task EXCEPT ![q] = After(q)] /\ UNCHANGED <<pos, intent, bought, sold>>
      BY <1>7 DEF ExitReject
    <2> QED
      BY <1>2, <1>3, <2>1, CloseEndInv
  <1> QED
    BY <1>4, <1>5, <1>6, <1>7 DEF Close

-----------------------------------------------------------------------------
(* The actions: readers' sweep, bus, ledger endpoint, births *)

\* A sweep moves signals over edges of the table, and closes only trades that
\* were entered.
LEMMA SweptSound ==
    ASSUME TradeInv, NEW u \in Signals, NEW to, to = SweepTarget(sigs[u], now), to # sigs[u].st
    PROVE  /\ to \in Terminal \ (Early \cup Won) /\ Here(u) /\ (to = "CLOSED" => sigs[u].paper)
           /\ Moved(u, sigs[u], to, now).st = to
           /\ Moved(u, sigs[u], to, now).rem = sigs[u].rem
           /\ Moved(u, sigs[u], to, now).paper = sigs[u].paper
  <1>1. sigs[u] \in SignalRecord /\ Exits(u) /\ now \in Nat
    BY AtSignal
  <1>2. Here(u)
    BY AbsentNotSwept DEF Here
  <1>3. to \in Terminal \ (Early \cup Won) /\ (to = "CLOSED" => sigs[u].paper)
    BY <1>1 DEF SweepTarget, Terminal, PreTrigger, Early, Won, Exits
  <1>4. to \in States
    BY <1>3, StateFacts
  <1> QED
    BY <1>1, <1>2, <1>3, <1>4, MovedKeeps

LEMMA SweepInv ==
    ASSUME TradeInv, SweepNow, NEW q \in Tasks, NEW x, x.pc \notin Suspended, LocalsSound(x),
           task' = [task EXCEPT ![q] = x] \/ UNCHANGED task,
           UNCHANGED <<pos, recon, audit, intent, bought, sold, orphan>>
    PROVE  TradeInv' /\ KeepsSettled
  <1>1. PICK P \in PruneSets(Swept(sigs, now)) :
          /\ sigs' = [s \in Signals |-> IF s \in P THEN Absent ELSE Swept(sigs, now)[s]]
          /\ retired' = retired \cup P
          /\ now' = now
    BY DEF SweepNow, Sweep
  <1>2. /\ TradeType /\ TypeOK /\ task \in [Tasks -> TaskRecord]
        /\ \A r \in Tasks : LocalsSound(task[r])
    BY DEF TradeInv, TradeType
  <1>3. TypeOK'
    BY <1>2, SweepType DEF SweepNow
  <1>4. /\ task' \in [Tasks -> TaskRecord] /\ \A r \in Tasks : LocalsSound(task'[r])
        /\ \A r \in Tasks : task'[r] = task[r] \/ task'[r].pc \notin Suspended
    BY <1>2 DEF LocalsSound
  <1>5. \A e \in SweepIntents(sigs, now) :
          /\ e \in Events /\ e.state # "DELETED"
          /\ e.sig \in Signals /\ SweepTarget(sigs[e.sig], now) # sigs[e.sig].st
          /\ e.state = SweepTarget(sigs[e.sig], now)
    <2> SUFFICES ASSUME NEW e \in SweepIntents(sigs, now)
                 PROVE  /\ e \in Events /\ e.state # "DELETED"
                        /\ e.sig \in Signals /\ SweepTarget(sigs[e.sig], now) # sigs[e.sig].st
                        /\ e.state = SweepTarget(sigs[e.sig], now)
      OBVIOUS
    <2>1. PICK u \in Signals : /\ SweepTarget(sigs[u], now) # sigs[u].st
                               /\ e \in SettlementOf(u, sigs[u], SweepTarget(sigs[u], now))
      BY DEF SweepIntents
    <2>2. /\ e = [sig |-> u, ver |-> sigs[u].ver + 1, state |-> SweepTarget(sigs[u], now)]
          /\ SweepTarget(sigs[u], now) \in Terminal
      BY <2>1 DEF SettlementOf
    <2>3. sigs[u].ver + 1 \in Nat
      BY <1>2 DEF TypeOK, SignalRecord
    <2> QED
      BY <2>1, <2>2, <2>3, StateFacts DEF Events
  <1>6. TradeType'
    BY <1>2, <1>3, <1>4, <1>5 DEF TradeType, SweepNow
  <1>7. ASSUME NEW u \in Signals
        PROVE  Life(u)' /\ Unborn(u)' /\ Residual(u)' /\ Entry(u)' /\ Exits(u)' /\ FirstEntry(u)'
    <2>1. Life(u) /\ Unborn(u) /\ Residual(u) /\ Entry(u) /\ Exits(u) /\ FirstEntry(u)
      BY AtSignal
    <2>2. /\ \A pcs \in SUBSET Suspended, r \in Tasks : On(r, u, pcs)' => On(r, u, pcs)
          /\ \A r \in Tasks : On(r, u, {"order"})' => task'[r] = task[r]
      BY <1>4 DEF On, Suspended, Ordering
    <2>3. \/ /\ u \in P /\ sigs'[u] = Absent
          \/ /\ u \notin P /\ sigs'[u] = sigs[u] /\ SweepTarget(sigs[u], now) = sigs[u].st
          \/ /\ u \notin P /\ SweepTarget(sigs[u], now) # sigs[u].st
             /\ sigs'[u] = Moved(u, sigs[u], SweepTarget(sigs[u], now), now)
      BY <1>1 DEF Swept
    <2>4. \A e \in mirror' : e.sig = u =>
            e \in mirror \/ (SweepTarget(sigs[u], now) # sigs[u].st /\ e.state # "DELETED"
                               /\ e.state = SweepTarget(sigs[u], now))
      BY <1>5 DEF SweepNow
    <2> SUFFICES ASSUME NEW to, to = SweepTarget(sigs[u], now)
                 PROVE  Life(u)' /\ Unborn(u)' /\ Residual(u)' /\ Entry(u)' /\ Exits(u)' /\ FirstEntry(u)'
      OBVIOUS
    <2>5. \/ u \in retired' /\ sigs'[u] = Absent
          \/ sigs'[u] = sigs[u] /\ (u \in retired' <=> u \in retired)
          \/ /\ to # sigs[u].st /\ Here(u) /\ (u \in retired' <=> u \in retired)
             /\ to \in Terminal \ (Early \cup Won)
             /\ sigs'[u].st = to /\ sigs'[u].rem = sigs[u].rem /\ sigs'[u].paper = sigs[u].paper
      BY <1>1, <2>3, SweptSound
    <2>6. \A e \in mirror' : e.sig = u =>
            e \in mirror \/ (Here(u) /\ e.state # "DELETED" /\ (e.state = "CLOSED" => sigs[u].paper))
      BY <2>4, SweptSound
    <2>7. /\ "ABSENT" \notin Terminal /\ "CONFIRMED" \notin Terminal /\ "TARGET_1_HIT" \notin Terminal
          /\ Absent.st = "ABSENT" /\ ~Absent.paper
      BY DEF Terminal, Absent
    <2>8. (Paid(u)' <=> Paid(u)) /\ (Here(u)' => Here(u))
      BY <2>5, <2>7 DEF Paid, Here
    <2>9. Life(u)'
      BY <2>1, <2>5, <2>6, <2>7, <2>8 DEF Life, Here
    <2>10. Unborn(u)'
      BY <2>1, <2>2, <2>5, <2>6, <2>7 DEF Unborn, Here
    <2>11. Residual(u)'
      BY <2>1, <2>5, <2>7, <2>8 DEF Residual, Here
    <2>12. Entry(u)'
      BY <2>1, <2>2 DEF Entry, Suspended, Ordering
    <2>13. Exits(u)'
      <3>1. \A r \in Tasks : On(r, u, Closing)' => On(r, u, Closing)
        BY <2>2 DEF Suspended
      <3>2. sigs'[u].st \in Won => sigs'[u] = sigs[u]
        BY <2>5, <2>7, AbsentFacts
      <3>3. sigs'[u].st \in {"CONFIRMED", "TARGET_1_HIT"} => sigs'[u].paper
        BY <2>1, <2>5, <2>7 DEF Exits
      <3>4. /\ Here(u)' /\ sigs'[u].paper => Paid(u)
            /\ Here(u)' /\ intent[u].st = "FILLED" => sigs'[u].paper
        BY <2>1, <2>5, <2>7, <2>8 DEF Exits, Here
      <3>5. sigs'[u].st \in {"TARGET_2_HIT", "STOP_LOSS_HIT"} =>
              Paid(u) /\ (intent[u].st = "FILLED" => audit[u] \in Settled)
        BY <2>1, <3>2 DEF Exits, Won
      <3> QED
        BY <2>1, <2>8, <3>1, <3>3, <3>4, <3>5 DEF Exits
    <2>14. FirstEntry(u)'
      <3> SUFFICES ASSUME "execute" \notin Acts
                   PROVE  /\ \A r \in Tasks : On(r, u, Ordering)' => r = "tick" /\ sigs'[u].st \notin Early
                          /\ sigs'[u].st \in Early \/ On("tick", u, Ordering)' => Unpaid(u)'
        BY DEF FirstEntry
      <3>1. sigs'[u].st \in Early => sigs[u].st \in Early
        BY <2>5, AbsentFacts
      <3>2. \A r \in Tasks : /\ On(r, u, Ordering)' => On(r, u, Ordering)
                             /\ On(r, u, Closing)' => On(r, u, Closing)
        BY <2>2 DEF Suspended
      <3>3. "tick" \in Tasks
        BY DEF Tasks
      <3>4. ~sigs[u].paper => ~sigs'[u].paper
        BY <2>5, <2>7
      <3>5. Unpaid(u) => Unpaid(u)'
        BY <2>6, <3>2, <3>4 DEF Unpaid
      <3> QED
        BY <2>1, <3>1, <3>2, <3>3, <3>5 DEF FirstEntry
    <2> QED
      BY <2>9, <2>10, <2>11, <2>12, <2>13, <2>14
  <1>8. KeepsSettled
    BY DEF KeepsSettled
  <1> QED
    BY <1>6, <1>7, <1>8 DEF TradeInv

\* The steps that write audit records only.
LEMMA AuditInv ==
    ASSUME TradeInv, audit' \in [Signals -> Statuses], mirror' \subseteq mirror,
           UNCHANGED <<sigs, intents, retired, now, pos, recon, intent, bought, sold, orphan, task>>,
           \A u \in Signals :
             /\ audit[u] \in Settled => audit'[u] = audit[u] \/ (audit'[u] = "NONE" /\ u \in retired)
             /\ Here(u) => audit'[u] # "NONE"
             /\ ~Here(u) /\ u \notin retired => audit'[u] = "NONE"
             /\ Unpaid(u) => audit'[u] \notin Settled
    PROVE  TradeInv' /\ KeepsSettled
  <1>1. TradeType'
    BY DEF TradeInv, TradeType, TypeOK, LocalsSound
  <1>2. ASSUME NEW u \in Signals
        PROVE  Life(u)' /\ Unborn(u)' /\ Residual(u)' /\ Entry(u)' /\ Exits(u)' /\ FirstEntry(u)'
    <2>1. Life(u) /\ Unborn(u) /\ Residual(u) /\ Entry(u) /\ Exits(u) /\ FirstEntry(u)
      BY AtSignal
    <2>2. Life(u)'
      BY <2>1 DEF Life, Here
    <2>3. Unborn(u)'
      BY <2>1 DEF Unborn, Here, On
    <2>4. Residual(u)' /\ Entry(u)'
      BY <2>1 DEF Residual, Entry, Here, On
    <2>5. Exits(u)'
      BY <2>1 DEF Exits, Life, Here, On, Paid
    <2>6. Unpaid(u) => Unpaid(u)'
      BY DEF Unpaid, On
    <2>7. FirstEntry(u)'
      BY <2>1, <2>6 DEF FirstEntry, On
    <2> QED
      BY <2>2, <2>3, <2>4, <2>5, <2>7
  <1>3. KeepsSettled
    BY DEF KeepsSettled
  <1> QED
    BY <1>1, <1>2, <1>3 DEF TradeInv

LEMMA DeliverInv ==
    ASSUME TradeInv, NEW e \in mirror, Deliver(e)
    PROVE  TradeInv' /\ KeepsSettled
  <1>1. /\ audit \in [Signals -> Statuses] /\ e \in Events
    BY DEF TradeInv, TradeType
  <1> DEFINE au == IF e.state = "DELETED" THEN "NONE" ELSE Mirrored(audit[e.sig], e.state)
  <1>2. e.sig \in Signals /\ e.state \in States \cup {"DELETED"}
    BY <1>1 DEF Events
  <1>3. audit' = [audit EXCEPT ![e.sig] = au] /\ mirror' = mirror \ {e}
    BY DEF Deliver
  <1>4. UNCHANGED <<sigs, intents, retired, now, pos, recon, intent, bought, sold, orphan, task>>
    BY DEF Deliver, vars
  <1>5. au \in Statuses
    BY <1>1, <1>2, StateFacts DEF Mirrored
  <1>6. Life(e.sig) /\ Unborn(e.sig)
    BY <1>2, AtSignal
  <1>7. /\ e.state = "DELETED" => e.sig \in retired /\ ~Here(e.sig)
        /\ Here(e.sig) \/ e.sig \in retired
        /\ Here(e.sig) => audit[e.sig] # "NONE"
    BY <1>6 DEF Life, Unborn
  <1>8. /\ audit[e.sig] \in Settled => au = audit[e.sig] \/ (au = "NONE" /\ e.sig \in retired)
        /\ Here(e.sig) => au # "NONE"
    BY <1>2, <1>7, StateFacts DEF Mirrored
  <1>9. Unpaid(e.sig) => au \notin Settled
    BY <1>2, StateFacts DEF Unpaid, Mirrored, Settled
  <1> HIDE DEF au
  <1>10. audit' \in [Signals -> Statuses] /\ audit'[e.sig] = au
           /\ \A u \in Signals : u # e.sig => audit'[u] = audit[u]
    BY <1>1, <1>2, <1>3, <1>5
  <1>11. ASSUME NEW u \in Signals
         PROVE  /\ audit[u] \in Settled => audit'[u] = audit[u] \/ (audit'[u] = "NONE" /\ u \in retired)
                /\ Here(u) => audit'[u] # "NONE"
                /\ ~Here(u) /\ u \notin retired => audit'[u] = "NONE"
                /\ Unpaid(u) => audit'[u] \notin Settled
    <2>1. Life(u) /\ Unborn(u)
      BY AtSignal
    <2>2. CASE u = e.sig
      BY <1>7, <1>8, <1>9, <1>10, <2>2
    <2>3. CASE u # e.sig
      BY <1>10, <2>1, <2>3 DEF Life, Unborn, Unpaid
    <2> QED
      BY <2>2, <2>3
  <1> QED
    BY <1>3, <1>4, <1>10, <1>11, AuditInv

LEMMA SyncInv ==
    ASSUME TradeInv, SyncAudit
    PROVE  TradeInv' /\ KeepsSettled
  <1> DEFINE filled == [s \in Signals |->
                          IF ~Here(s) \/ audit[s] # "NONE" THEN audit[s]
                          ELSE IF sigs[s].paper THEN "EXECUTED"
                          ELSE IF sigs[s].st = "CONFIRMED" THEN "CONFIRMED" ELSE "ARMED"]
             open(k) == {s \in Signals : Symbol[s] = k /\ filled[s] \in
                           {"CONFIRMED", "EXECUTED", "TRIGGERED", "TARGET_1_HIT"}}
  <1>1. audit' = [s \in Signals |->
                    IF pos[Symbol[s]] # 0 /\ open(Symbol[s]) = {s} THEN "EXECUTED" ELSE filled[s]]
    BY DEF SyncAudit
  <1>2. UNCHANGED <<sigs, intents, retired, now, pos, recon, mirror, intent, bought, sold, orphan, task>>
    BY DEF SyncAudit, vars
  <1>3. ASSUME NEW u \in Signals
        PROVE  filled[u] = audit[u]
    <2>1. Life(u)
      BY AtSignal
    <2> QED
      BY <2>1 DEF Life
  <1>4. ASSUME NEW u \in Signals
        PROVE  \/ audit'[u] = audit[u]
               \/ /\ audit'[u] = "EXECUTED"
                  /\ audit[u] \in {"CONFIRMED", "EXECUTED", "TRIGGERED", "TARGET_1_HIT"}
    BY <1>1, <1>3
  <1> HIDE DEF filled, open
  <1>5. audit' \in [Signals -> Statuses]
    <2>1. DOMAIN audit' = Signals /\ audit' = [s \in Signals |-> audit'[s]]
      BY <1>1
    <2>2. \A u \in Signals : audit'[u] \in Statuses
      BY <1>4, StateFacts DEF TradeInv, TradeType
    <2> QED
      BY <2>1, <2>2
  <1>6. ASSUME NEW u \in Signals
        PROVE  /\ audit[u] \in Settled => audit'[u] = audit[u] \/ (audit'[u] = "NONE" /\ u \in retired)
               /\ Here(u) => audit'[u] # "NONE"
               /\ ~Here(u) /\ u \notin retired => audit'[u] = "NONE"
               /\ Unpaid(u) => audit'[u] \notin Settled
    <2>1. Life(u) /\ Unborn(u)
      BY AtSignal
    <2> QED
      BY <1>4, <2>1 DEF Life, Unborn, Unpaid, Settled
  <1> QED
    BY <1>2, <1>5, <1>6, AuditInv

LEMMA BornInv ==
    ASSUME TradeInv, TrackerConstants, NEW s \in Signals, NEW birth \in Births,
           NEW degraded \in Degraded, Born(s, birth, degraded)
    PROVE  TradeInv' /\ KeepsSettled
  <1> DEFINE r == [Absent EXCEPT !.st = birth, !.ver = 1, !.born = now, !.exp = now + Ttl,
                                 !.upd = now, !.sl = Level[s].stop, !.fno = degraded, !.hist = birth]
  <1>1. /\ ~Here(s) /\ s \notin retired /\ sigs' = [sigs EXCEPT ![s] = r]
        /\ audit' = [audit EXCEPT ![s] = "ARMED"]
        /\ UNCHANGED <<intents, retired, now, pos, recon, mirror, intent, bought, sold, orphan, task>>
    BY DEF Born, Register
  <1>2. /\ TradeType /\ TypeOK /\ now \in Nat
    BY DEF TradeInv, TradeType, TypeOK
  <1>3. birth \in {"DETECTED", "VALIDATED", "ARMED"} /\ degraded \in BOOLEAN
          /\ Level[s].stop \in Int /\ Ttl \in Nat
    BY ConstantTypes DEF TrackerConstants
  <1>3a. birth \in Early
    BY <1>3 DEF Early, PreTrigger
  <1>4. r \in SignalRecord /\ r.st = birth /\ r.rem = 0 /\ r.paper = FALSE
    <2>1. now \in Times /\ now + Ttl \in Times /\ birth \in States \cup {"ABSENT"} /\ 1 \in Nat
      BY <1>2, <1>3, <1>3a, StateFacts DEF Times
    <2>2. Absent \in SignalRecord /\ Absent.rem = 0 /\ Absent.paper = FALSE
      BY AbsentType DEF Absent
    <2>3. Level[s].stop \in Int /\ degraded \in BOOLEAN
      BY <1>3
    <2> QED
      BY <2>1, <2>2, <2>3 DEF SignalRecord
  <1> HIDE DEF r
  <1>5. /\ sigs'[s] = r /\ audit'[s] = "ARMED"
        /\ \A u \in Signals : u # s => sigs'[u] = sigs[u] /\ audit'[u] = audit[u]
        /\ TypeOK' /\ audit' \in [Signals -> Statuses]
    BY <1>1, <1>2, <1>4, StateFacts DEF TypeOK, TradeType
  <1>6. TradeType'
    BY <1>1, <1>2, <1>5 DEF TradeType, LocalsSound
  <1>7. Life(s) /\ Unborn(s) /\ Residual(s) /\ Entry(s) /\ Exits(s) /\ FirstEntry(s)
    BY AtSignal
  <1>8. /\ recon[s].rem = 0 /\ intent[s].st = "NONE"
        /\ \A e \in mirror : e.sig # s
        /\ \A q \in Tasks : ~On(q, s, Suspended)
    BY <1>1, <1>7 DEF Unborn
  <1>9. \A q \in Tasks : ~On(q, s, Ordering) /\ ~On(q, s, Closing)
    BY <1>8 DEF On, Suspended
  <1>10. Life(s)' /\ Unborn(s)' /\ Residual(s)'
    BY <1>1, <1>4, <1>5, <1>7, <1>8, <1>3 DEF Life, Unborn, Residual, Here
  <1>11. Entry(s)'
    BY <1>1, <1>7 DEF Entry, On
  <1>12. Exits(s)'
    BY <1>1, <1>3, <1>4, <1>5, <1>8, <1>9 DEF Exits, Here, On, Paid
  <1>13. FirstEntry(s)'
    <2>1. Unpaid(s)'
      BY <1>1, <1>4, <1>5, <1>8, <1>9, StateFacts DEF Unpaid, On, Settled
    <2> QED
      BY <1>1, <1>9, <2>1 DEF FirstEntry, On
  <1>14. ASSUME NEW u \in Signals, u # s
         PROVE  Life(u)' /\ Unborn(u)' /\ Residual(u)' /\ Entry(u)' /\ Exits(u)' /\ FirstEntry(u)'
    BY <1>1, <1>5, <1>14, OthersKept DEF On
  <1>15. KeepsSettled
    <2>1. audit[s] = "NONE"
      BY <1>1, <1>7 DEF Unborn
    <2> QED
      BY <1>5, <2>1, StateFacts DEF KeepsSettled
  <1> QED
    BY <1>6, <1>10, <1>11, <1>12, <1>13, <1>14, <1>15 DEF TradeInv

-----------------------------------------------------------------------------
(* The invariant of the specification *)

LEMMA InitInv ==
    ASSUME TrackerInit
    PROVE  TradeInv
  <1>1. Idle \in TaskRecord /\ LocalsSound(Idle) /\ Idle.pc = "idle" /\ "idle" \notin Suspended
    BY IdleSound DEF LocalsSound, Suspended, Ordering, Closing
  <1>2. TypeOK
    BY AbsentType DEF TrackerInit, Init, TypeOK
  <1>3. TradeType
    <2>1. pos \in [Symbols -> Int]
      BY 0 \in Int DEF TrackerInit, Symbols
    <2>2. recon \in [Signals -> ReconRecord]
      BY 0 \in Nat DEF TrackerInit, ReconRecord
    <2>3. audit \in [Signals -> Statuses] /\ mirror \subseteq Events
      BY StateFacts DEF TrackerInit
    <2>4. intent \in [Signals -> IntentRecord]
      BY 0 \in Nat DEF TrackerInit, IntentRecord
    <2>5. bought \in [Signals -> Nat] /\ sold \in [Signals -> Int]
      BY 0 \in Nat, 0 \in Int DEF TrackerInit
    <2>6. orphan \in [Signals -> SignalRecord]
      BY AbsentType DEF TrackerInit
    <2>7. task \in [Tasks -> TaskRecord] /\ \A q \in Tasks : LocalsSound(task[q])
      BY <1>1 DEF TrackerInit
    <2> QED
      BY <1>2, <2>1, <2>2, <2>3, <2>4, <2>5, <2>6, <2>7 DEF TradeType
  <1>4. ASSUME NEW s \in Signals
        PROVE  Life(s) /\ Unborn(s) /\ Residual(s) /\ Entry(s) /\ Exits(s) /\ FirstEntry(s)
    <2>1. /\ sigs[s] = Absent /\ retired = {} /\ mirror = {} /\ audit[s] = "NONE"
          /\ intent[s] = [n |-> 0, st |-> "NONE"] /\ bought[s] = 0
          /\ recon[s] = [qty |-> 0, rem |-> 0, t1 |-> 0, fin |-> 0, done |-> FALSE]
          /\ \A q \in Tasks : task[q] = Idle
      BY DEF TrackerInit, Init
    <2>2. \A q \in Tasks : ~On(q, s, Suspended) /\ ~On(q, s, Ordering) /\ ~On(q, s, Closing)
                             /\ ~On(q, s, {"order"})
      BY <1>1, <2>1 DEF On, Suspended, Ordering
    <2>3. ~Here(s) /\ "tick" \in Tasks
      BY <2>1, AbsentFacts DEF Here, Tasks
    <2>4. Life(s) /\ Unborn(s) /\ Residual(s)
      BY <2>1, <2>2, <2>3 DEF Life, Unborn, Residual
    <2>5. Entry(s)
      BY <2>1, <2>2 DEF Entry
    <2>6. Exits(s)
      BY <2>1, <2>2, <2>3, AbsentFacts DEF Exits, Won
    <2>7. FirstEntry(s)
      BY <2>1, <2>2, <2>3, AbsentFacts DEF FirstEntry
    <2> QED
      BY <2>4, <2>5, <2>6, <2>7
  <1> QED
    BY <1>3, <1>4 DEF TradeInv

LEMMA TickStartInv ==
    ASSUME TradeInv, NEW p \in Prices, TickStart(p)
    PROVE  TradeInv' /\ KeepsSettled
  <1> DEFINE present == {s \in Signals : Here(s)}
             y == [Idle EXCEPT !.pc = "loop", !.op = "tick", !.todo = present, !.p = p]
             x == IF present = {} THEN Idle ELSE y
  <1>1. /\ SweepNow /\ task' = [task EXCEPT !["tick"] = x] /\ "tick" \in Tasks
        /\ UNCHANGED <<pos, recon, audit, intent, bought, sold, orphan>>
    BY DEF TickStart, Tasks
  <1>2. Idle \in TaskRecord /\ ~Idle.part /\ present \in SUBSET Signals /\ p \in Int
    BY IdleSound, ConstantTypes DEF LocalsSound, Idle
  <1> HIDE DEF present
  <1>3. y \in TaskRecord /\ y.pc = "loop" /\ y.op = "tick" /\ ~y.part
    BY <1>2 DEF TaskRecord
  <1> HIDE DEF y
  <1>4. LocalsSound(x) /\ x.pc \notin Suspended
    BY <1>3, IdleSound DEF LocalsSound, Suspended, Ordering, Closing
  <1> HIDE DEF x
  <1> QED
    BY <1>1, <1>4, SweepInv

LEMMA SessionClosedInv ==
    ASSUME TradeInv, SessionClosed
    PROVE  TradeInv' /\ KeepsSettled
  <1> DEFINE present == {s \in Signals : Here(s)}
             y == [Idle EXCEPT !.pc = "loop", !.op = "eod", !.todo = present]
             x == IF present = {} THEN Idle ELSE y
  <1>1. /\ SweepNow /\ task' = [task EXCEPT !["eod"] = x] /\ "eod" \in Tasks
        /\ UNCHANGED <<pos, recon, audit, intent, bought, sold, orphan>>
    BY DEF SessionClosed, Tasks
  <1>2. Idle \in TaskRecord /\ ~Idle.part /\ present \in SUBSET Signals
    BY IdleSound DEF LocalsSound, Idle
  <1> HIDE DEF present
  <1>3. y \in TaskRecord /\ y.pc = "loop" /\ y.op = "eod" /\ ~y.part
    BY <1>2 DEF TaskRecord
  <1> HIDE DEF y
  <1>4. LocalsSound(x) /\ x.pc \notin Suspended
    BY <1>3, IdleSound DEF LocalsSound, Suspended, Ordering, Closing
  <1> HIDE DEF x
  <1> QED
    BY <1>1, <1>4, SweepInv

LEMMA ReadInv ==
    ASSUME TradeInv, Read
    PROVE  TradeInv' /\ KeepsSettled
  <1>1. "tick" \in Tasks /\ Idle.pc \notin Suspended
    BY IdleSound DEF Tasks, Suspended, Ordering, Closing
  <1> QED
    BY <1>1, IdleSound, SweepInv DEF Read

LEMMA TrackerStep ==
    ASSUME TradeInv, TrackerConstants, [TrackerNext]_trackerVars
    PROVE  TradeInv' /\ ("execute" \notin Acts => KeepsSettled)
  <1>1. ASSUME Tick PROVE TradeInv' /\ KeepsSettled
    <2>1. ASSUME NEW s \in Signals, TickSkip(s) PROVE TradeInv' /\ KeepsSettled
      BY <2>1, SkipInv DEF TickSkip, Visit, Tasks
    <2> QED
      BY <1>1, <2>1, TickStartInv, TriggerInv, BookedInv, ActInv, RatchetInv, Target1Inv, FinalInv
         DEF Tick
  <1>2. ASSUME NEW q \in Tasks, Execute(q)
        PROVE  TradeInv' /\ ("execute" \notin Acts => KeepsSettled)
    BY <1>2, RefuseInv, SubmitInv, ReplayInv, FillInv, OffDomainInv DEF Execute
  <1>3. ASSUME NEW q \in Tasks, Close(q) PROVE TradeInv' /\ KeepsSettled
    BY <1>3, CloseInv
  <1>4. ASSUME Desk PROVE TradeInv' /\ KeepsSettled
    BY <1>4, DeleteInv, RequestExecuteInv, DeskInv, SyncInv DEF Desk
  <1>5. ASSUME UNCHANGED trackerVars PROVE TradeInv' /\ KeepsSettled
    <2>1. UNCHANGED <<sigs, intents, retired, now, pos, recon, audit, mirror, intent, bought, sold,
                      orphan, task>>
      BY <1>5 DEF trackerVars, vars, books
    <2>2. \A u \in Signals : Life(u) /\ Unborn(u)
      BY AtSignal
    <2> QED
      BY <2>1, <2>2, AuditInv DEF Life, Unborn, Unpaid, TradeInv, TradeType
  <1> QED
    BY <1>1, <1>2, <1>3, <1>4, <1>5, SessionClosedInv, EodInv, DeliverInv, ReadInv, WaitInv, BornInv
       DEF TrackerNext

\* The copies of a trade that the manager, the reconciler, the audit ledger, the
\* intent ledger, the bus and the suspended tasks hold stay related as TradeInv says.
THEOREM TradesAreConsistent == TrackerSpec => []TradeInv
  <1>1. TrackerInit => TradeInv
    BY InitInv
  <1>2. TradeInv /\ [TrackerNext]_trackerVars => TradeInv'
    BY TrackerStep, TrackerConstants
  <1> QED
    BY <1>1, <1>2, PTL DEF TrackerSpec

\* Every variable of a trade's life stays in its domain, the status of its audit
\* record and the quantities of its reconciliation included.
THEOREM TrackerTypeInvariant == TrackerSpec => []TrackerTypeOK
  <1>1. TradeInv => TrackerTypeOK
    BY DEF TradeInv, TradeType, TrackerTypeOK, ReconRecord, IntentRecord
  <1> QED
    BY <1>1, TradesAreConsistent, PTL

\* However the tick and the requests race in execute_signal, the reconciler holds
\* what the order book bought, unless the fill was rolled back.
THEOREM EntriesAreReconciled == TrackerSpec => []EntriesReconciled
  <1>1. TradeInv => EntriesReconciled
    <2> SUFFICES ASSUME TradeInv, NEW s \in Signals, ~RolledBack(s)
                 PROVE  recon[s].qty = bought[s]
      BY DEF EntriesReconciled
    <2>1. Entry(s) /\ intent[s] \in IntentRecord
      BY AtSignal
    <2> QED
      BY <2>1 DEF Entry, IntentRecord, RolledBack
  <1> QED
    BY <1>1, TradesAreConsistent, PTL

\* The residual is the same in the signal and in option_fill_reconciler, and is
\* the entry less the booked legs, whatever closes run at once.
THEOREM ResidualsAlwaysAgree == TrackerSpec => []ResidualsAgree
  <1>1. TradeInv => ResidualsAgree
    BY DEF TradeInv, Residual, ResidualsAgree
  <1> QED
    BY <1>1, TradesAreConsistent, PTL

\* The tick settles first and then writes the outcome: a trade is settled before its
\* signal shows its second target or its stop, unless its fill was rolled back.
THEOREM TargetsAreSettled == TrackerSpec => []TargetIsSettled
  <1>1. TradeInv => TargetIsSettled
    <2> SUFFICES ASSUME TradeInv, NEW s \in Signals, ~RolledBack(s),
                        sigs[s].st \in {"TARGET_2_HIT", "STOP_LOSS_HIT"}
                 PROVE  audit[s] \in Settled
      BY DEF TargetIsSettled
    <2>1. Exits(s)
      BY AtSignal
    <2> QED
      BY <2>1 DEF Exits, Paid, RolledBack
  <1> QED
    BY <1>1, TradesAreConsistent, PTL

\* Where only the tick executes signals, nothing that reaches the audit ledger
\* after a trade was settled - a late event, a second close, a sync - changes its
\* record.
THEOREM SettledRecordsAreFinal ==
    ASSUME "execute" \notin Acts
    PROVE  TrackerSpec => SettledIsFinal
  <1>1. TradeInv /\ [TrackerNext]_trackerVars =>
          [\A s \in Signals : audit[s] \in Settled => audit'[s] \in {audit[s], "NONE"}]_trackerVars
    BY TrackerStep, TrackerConstants DEF KeepsSettled
  <1> QED
    BY <1>1, TradesAreConsistent, PTL DEF TrackerSpec, SettledIsFinal
=============================================================================
