--------------------------- MODULE PaperBookProofs ---------------------------
(***************************************************************************)
(* Theorems of PaperBook, for every set of contracts, clients and orders,  *)
(* every limit of the risk gate and every sequence of restarts and resets. *)
(***************************************************************************)
EXTENDS PaperBook, FiniteSetTheorems, WellFoundedInduction, TLAPS

-----------------------------------------------------------------------------
(* The inductive invariant *)

PosRecord == [side : {1, -1}, qty : Int, avg : Int, ltp : Int, margin : Nat]

\* A position of the book or of the database: within the exposure limit, and
\* without margin once it is flat.
Sound(x) == x \in PosRecord /\ (x.qty = 0 => x.margin = 0) /\ Size(x.qty) <= MaxPerSymbol

TaskRecord ==
    [pc : {"idle", "quote", "exit", "save", "loop", "mark"}, k : Contracts \cup {"none"}, n : Int,
     limit : BOOLEAN, cid : Ids \cup {NoId}, real : Int, obj : Nat, ord : Nat, done : 0..2,
     todo : SUBSET Nat]

Filled(list, i) == i \in DOMAIN list /\ list[i].st = "FILLED"

\* What the exposure check established before the quote was awaited.
Checked(k, n) ==
    /\ k \in Contracts /\ n # 0 /\ Size(n) <= MaxSingle
    /\ k \in Open /\ ~Opposed(Pos(k).qty, n) => Size(Pos(k).qty + n) <= MaxPerSymbol

TaskSound(q) ==
    /\ task[q] \in TaskRecord
    /\ q \in Clients => task[q].pc \notin {"loop", "mark"}
    /\ q = "worker" => task[q].pc \in {"idle", "loop", "save", "mark"}
    /\ task[q].pc = "quote" => Checked(task[q].k, task[q].n)
    /\ task[q].pc = "exit" => task[q].k \in Open
    /\ task[q].pc = "save" => task[q].k \in Contracts /\ task[q].obj \in 1..Len(heap)
    /\ task[q].pc \in {"save", "mark"} => Filled(orders, task[q].ord)
    /\ q = "worker" /\ task[q].pc = "save" => Filled(orders, orders[task[q].ord].of)
    /\ task[q].pc # "save" => task[q].done = 0
    /\ task[q].pc = "loop" => task[q].todo # {}
    /\ task[q].todo \subseteq DOMAIN orders

OrderRecord == [k : Contracts, n : Int \ {0}, cid : Ids \cup {NoId},
                st : {"PENDING", "FILLED", "CANCELLED", "LOST"}, of : Nat,
                here : BOOLEAN, torn : BOOLEAN, row : {"NONE", "PENDING", "FILLED", "CANCELLED"}]

SoundHeap(h) == h \in Seq(PosRecord) /\ \A i \in DOMAIN h : Sound(h[i])

HeapSound ==
    /\ SoundHeap(heap)
    /\ book \in [Contracts -> 0..Len(heap)]

RowsSound ==
    /\ rows \in [pos : [Contracts -> PosRecord], known : SUBSET Contracts, real : Int,
                  obj : [Contracts -> Nat]]
    /\ \A k \in Contracts : Sound(rows.pos[k])

TasksSound == task \in [Tasks -> TaskRecord] /\ \A q \in Tasks : TaskSound(q)

\* The lock's holder is the one request inside place_order or
\* square_off_position, so nobody else changes what it has checked.
LockSound ==
    /\ lock \in Clients \cup {"none"}
    /\ \A q \in Clients : task[q].pc \in {"quote", "exit", "save"} <=> lock = q

Sums == realized \in Int /\ orders \in Seq(OrderRecord) /\ seen \in [Ids -> Nat]

BookInv == HeapSound /\ RowsSound /\ TasksSound /\ LockSound /\ Sums

\* What a step must leave of the orders for the coroutines that save them.
KeepsFilled ==
    /\ DOMAIN orders \subseteq DOMAIN orders'
    /\ \A i \in DOMAIN orders : orders[i].st = "FILLED" =>
         orders'[i].st = "FILLED" /\ orders'[i].of = orders[i].of

LEMMA SameOrders == ASSUME orders' = orders PROVE KeepsFilled
  BY DEF KeepsFilled

-----------------------------------------------------------------------------
(* Arithmetic of margins *)

LEMMA SizeType == ASSUME NEW n \in Int PROVE Size(n) \in Nat /\ (n # 0 => Size(n) # 0)
  BY DEF Size

LEMMA ProductType == ASSUME NEW a \in Nat, NEW b \in Nat PROVE a * b \in Nat
  OBVIOUS

LEMMA QuotientType == ASSUME NEW a \in Nat, NEW b \in Nat \ {0} PROVE a \div b \in Nat
  OBVIOUS

LEMMA MarginType == ASSUME NEW n \in Int, NEW p \in Prices PROVE Margin(n, p) \in Nat
  <1>1. p \in Nat /\ ShortMargin \in Nat
    BY BookConstants
  <1>2. CASE n > 0
    BY <1>1, <1>2, ProductType DEF Margin
  <1>3. CASE ~(n > 0)
    <2>1. -n \in Nat
      BY <1>3
    <2> QED
      BY <1>1, <1>3, <2>1, ProductType DEF Margin
  <1> QED
    BY <1>2, <1>3

-----------------------------------------------------------------------------
(* Positions *)

LEMMA FlatSound == Sound(Flat)
  <1>1. Flat \in PosRecord
    BY DEF Flat, PosRecord
  <1> QED
    BY <1>1, BookConstants DEF Sound, Flat, Size

LEMMA PosSound == ASSUME HeapSound, NEW k \in Contracts PROVE Sound(Pos(k))
  BY FlatSound DEF HeapSound, SoundHeap, Pos

LEMMA OpenedSound ==
    ASSUME NEW n \in Int \ {0}, NEW p \in Prices, Size(n) <= MaxPerSymbol
    PROVE  Sound(Opened(n, p))
  <1>1. Margin(n, p) \in Nat /\ p \in Int
    <2>1. p \in Int
      BY BookConstants
    <2>2. Margin(n, p) \in Nat
      BY MarginType
    <2> QED
      BY <2>1, <2>2
  <1> DEFINE side == Side(n)
  <1>3. side \in {1, -1}
    BY DEF Side
  <1> HIDE DEF side
  <1>2. Opened(n, p) \in PosRecord
    BY <1>1, <1>3 DEF Opened, PosRecord, side
  <1> QED
    BY <1>2 DEF Sound, Opened

LEMMA AddedSound ==
    ASSUME NEW x, Sound(x), NEW n \in Int \ {0}, NEW p \in Prices, x.qty # 0,
           ~Opposed(x.qty, n), Size(x.qty + n) <= MaxPerSymbol
    PROVE  Sound(Added(x, n, p))
  <1>1. x.qty \in Int /\ x.avg \in Int /\ x.margin \in Nat /\ x.side \in {1, -1} /\ p \in Nat
    BY BookConstants DEF Sound, PosRecord
  <1>2. x.qty + n \in Int /\ x.qty + n # 0
    BY <1>1 DEF Opposed
  <1>3. Size(x.qty + n) \in Nat \ {0} /\ Size(x.qty) \in Nat /\ Size(n) \in Nat
    BY <1>1, <1>2, SizeType
  <1>4. Size(x.qty) * x.avg + Size(n) * p \in Int
    BY <1>1, <1>3
  <1>5. (Size(x.qty) * x.avg + Size(n) * p) \div Size(x.qty + n) \in Int
    BY <1>3, <1>4
  <1>6. x.margin + Margin(n, p) \in Nat
    BY <1>1, MarginType
  <1> QED
    BY <1>1, <1>2, <1>5, <1>6 DEF Sound, Added, PosRecord

LEMMA ReducedSound ==
    ASSUME NEW x, Sound(x), NEW n \in Int \ {0}, NEW p \in Prices, Opposed(x.qty, n),
           Size(n) < Size(x.qty)
    PROVE  Sound(Reduced(x, n, p))
  <1>1. x \in PosRecord /\ x.qty \in Int /\ x.margin \in Nat /\ p \in Nat
        /\ Size(x.qty) <= MaxPerSymbol /\ MaxPerSymbol \in Nat
    BY BookConstants DEF Sound, PosRecord
  <1>2. x.qty + n \in Int /\ x.qty + n # 0 /\ Size(x.qty + n) <= MaxPerSymbol
    BY <1>1 DEF Opposed, Size
  <1>3. Size(x.qty + n) \in Nat /\ Size(x.qty) \in Nat \ {0}
    BY <1>1, <1>2, SizeType DEF Opposed
  <1>4. (x.margin * Size(x.qty + n)) \div Size(x.qty) \in Nat
    BY <1>1, <1>3, ProductType, QuotientType
  <1> DEFINE m == (x.margin * Size(x.qty + n)) \div Size(x.qty)
             q == x.qty + n
  <1>5. Reduced(x, n, p) = [x EXCEPT !.qty = q, !.ltp = p, !.margin = m]
    BY DEF Reduced
  <1>6. m \in Nat /\ q \in Int /\ p \in Int /\ q # 0 /\ Size(q) <= MaxPerSymbol
    BY <1>1, <1>2, <1>4
  <1> HIDE DEF m, q
  <1>7. [x EXCEPT !.qty = q, !.ltp = p, !.margin = m] \in PosRecord
    BY <1>1, <1>6 DEF PosRecord
  <1>8. [x EXCEPT !.qty = q, !.ltp = p, !.margin = m].qty = q
    BY <1>1 DEF PosRecord
  <1> QED
    BY <1>5, <1>6, <1>7, <1>8 DEF Sound

LEMMA ClosedSound ==
    ASSUME NEW x, Sound(x), NEW p \in Prices
    PROVE  Sound(Closed(x, p)) /\ Closed(x, p).qty = 0
  <1>1. x \in PosRecord /\ p \in Int /\ 0 <= MaxPerSymbol
    BY BookConstants DEF Sound
  <1>2. Closed(x, p) \in PosRecord
    <2> DEFINE zero == 0
    <2>1. Closed(x, p) = [x EXCEPT !.qty = zero, !.ltp = p, !.margin = zero]
      BY DEF Closed
    <2>2. zero \in Nat /\ zero \in Int
      OBVIOUS
    <2> HIDE DEF zero
    <2> QED
      BY <1>1, <2>1, <2>2 DEF PosRecord
  <1>3. Closed(x, p).qty = 0 /\ Closed(x, p).margin = 0
    BY <1>1 DEF Closed, PosRecord
  <1> QED
    BY <1>1, <1>2, <1>3 DEF Sound, Size

LEMMA GainType ==
    ASSUME NEW x, Sound(x), NEW n \in Int, NEW p \in Prices
    PROVE  Gain(x, n, p) \in Int
  <1>1. x.qty \in Int /\ x.avg \in Int /\ p \in Int
    BY BookConstants DEF Sound, PosRecord
  <1> DEFINE c == IF Size(n) < Size(x.qty) THEN n ELSE -x.qty
  <1>2. c \in Int /\ x.avg - p \in Int
    BY <1>1
  <1>3. Gain(x, n, p) = IF Opposed(x.qty, n) THEN (x.avg - p) * c ELSE 0
    BY DEF Gain
  <1> HIDE DEF c
  <1> QED
    BY <1>2, <1>3

-----------------------------------------------------------------------------
(* Fills *)

LEMMA PutSound ==
    ASSUME NEW h, SoundHeap(h), NEW i \in 1..Len(h), NEW y, Sound(y)
    PROVE  SoundHeap([h EXCEPT ![i] = y]) /\ Len([h EXCEPT ![i] = y]) = Len(h)
  <1>1. y \in PosRecord
    BY DEF Sound
  <1> QED
    BY <1>1 DEF SoundHeap

LEMMA AppendSound ==
    ASSUME NEW h, SoundHeap(h), NEW y, Sound(y)
    PROVE  SoundHeap(Append(h, y)) /\ Len(Append(h, y)) = Len(h) + 1
  <1>1. y \in PosRecord
    BY DEF Sound
  <1> QED
    BY <1>1 DEF SoundHeap

\* The object of a contract that is held.
LEMMA HeldType ==
    ASSUME HeapSound, NEW k \in Contracts, Pos(k).qty # 0
    PROVE  book[k] \in 1..Len(heap)
  BY DEF HeapSound, Pos, Flat

LEMMA SameHeap ==
    ASSUME HeapSound, UNCHANGED <<heap, book>>
    PROVE  HeapSound' /\ Len(heap) <= Len(heap')
  BY DEF HeapSound, SoundHeap

\* The checks before the quote give what the fill needs.
LEMMA RefusedChecks ==
    ASSUME HeapSound, NEW k \in Contracts, NEW n \in Int \ {0}, ~Refused(k, n)
    PROVE  Checked(k, n)
  <1>1. Pos(k).qty \in Int
    BY PosSound DEF Sound, PosRecord
  <1> QED
    BY <1>1, SizeType, BookConstants DEF Refused, Checked

\* Whatever a fill does to a position, add, reduce, close or reverse, the
\* objects stay sound.
LEMMA FillSound ==
    ASSUME HeapSound, NEW k, NEW n \in Int, NEW p \in Prices, Checked(k, n)
    PROVE  /\ SoundHeap(Fill(k, n, p).heap)
           /\ Fill(k, n, p).at \in 1..Len(Fill(k, n, p).heap)
           /\ Len(heap) <= Len(Fill(k, n, p).heap)
  <1> DEFINE x == Pos(k)
  <1>1. k \in Contracts /\ n # 0 /\ Sound(x) /\ x.qty \in Int
    BY PosSound DEF Checked, Sound, PosRecord
  <1>2. Size(n) <= MaxSingle /\ MaxSingle <= MaxPerSymbol /\ MaxSingle \in Nat
        /\ MaxPerSymbol \in Nat
    BY BookLimits, BookConstants DEF Checked
  <1>3. SoundHeap(heap) /\ Len(heap) \in Nat
    BY DEF HeapSound, SoundHeap
  <1>4. CASE x.qty = 0
    <2>1. Fill(k, n, p) = [heap |-> Append(heap, Opened(n, p)), at |-> Len(heap) + 1]
      BY <1>4 DEF Fill
    <2>2. Sound(Opened(n, p))
      BY <1>1, <1>2, OpenedSound, SizeType
    <2> QED
      BY <1>3, <2>1, <2>2, AppendSound
  <1>5. ASSUME x.qty # 0, NEW y, Sound(y)
        PROVE  /\ SoundHeap([heap EXCEPT ![book[k]] = y])
               /\ Len([heap EXCEPT ![book[k]] = y]) = Len(heap)
               /\ book[k] \in 1..Len(heap)
    BY <1>1, <1>3, <1>5, HeldType, PutSound
  <1>6. CASE x.qty # 0 /\ ~Opposed(x.qty, n)
    <2> DEFINE h == [heap EXCEPT ![book[k]] = Added(x, n, p)]
    <2>1. Fill(k, n, p) = [heap |-> h, at |-> book[k]]
      BY <1>6 DEF Fill
    <2>2. Sound(Added(x, n, p))
      BY <1>1, <1>6, AddedSound DEF Checked, Open
    <2>3. SoundHeap(h) /\ Len(h) = Len(heap) /\ book[k] \in 1..Len(heap)
      BY <1>5, <1>6, <2>2
    <2> HIDE DEF h
    <2> QED
      BY <1>3, <2>1, <2>3
  <1>7. CASE x.qty # 0 /\ Opposed(x.qty, n) /\ Size(n) < Size(x.qty)
    <2> DEFINE h == [heap EXCEPT ![book[k]] = Reduced(x, n, p)]
    <2>1. Fill(k, n, p) = [heap |-> h, at |-> book[k]]
      BY <1>7 DEF Fill
    <2>2. Sound(Reduced(x, n, p))
      BY <1>1, <1>7, ReducedSound
    <2>3. SoundHeap(h) /\ Len(h) = Len(heap) /\ book[k] \in 1..Len(heap)
      BY <1>5, <1>7, <2>2
    <2> HIDE DEF h
    <2> QED
      BY <1>3, <2>1, <2>3
  <1>8. Sound(Closed(x, p))
    BY <1>1, ClosedSound
  <1>9. CASE x.qty # 0 /\ Opposed(x.qty, n) /\ Size(n) = Size(x.qty)
    <2> DEFINE h == [heap EXCEPT ![book[k]] = Closed(x, p)]
    <2>1. Fill(k, n, p) = [heap |-> h, at |-> book[k]]
      BY <1>1, <1>9, SizeType DEF Fill
    <2>3. SoundHeap(h) /\ Len(h) = Len(heap) /\ book[k] \in 1..Len(heap)
      BY <1>5, <1>9, <1>8
    <2> HIDE DEF h
    <2> QED
      BY <1>3, <2>1, <2>3
  <1>10. CASE x.qty # 0 /\ Opposed(x.qty, n) /\ ~(Size(n) < Size(x.qty)) /\ Size(n) # Size(x.qty)
    <2> DEFINE h == [heap EXCEPT ![book[k]] = Closed(x, p)]
               y == Opened(x.qty + n, p)
    <2>1. Fill(k, n, p) = [heap |-> Append(h, y), at |-> Len(h) + 1]
      BY <1>10 DEF Fill
    <2>2. SoundHeap(h) /\ Len(h) = Len(heap)
      BY <1>5, <1>8, <1>10
    <2>3. x.qty + n \in Int \ {0} /\ Size(x.qty + n) <= MaxPerSymbol
      BY <1>1, <1>2, <1>10 DEF Opposed, Size
    <2>4. Sound(y)
      BY <2>3, OpenedSound
    <2> HIDE DEF h, y
    <2> QED
      BY <1>3, <2>1, <2>2, <2>4, AppendSound
  <1> QED
    BY <1>1, <1>4, <1>6, <1>7, <1>9, <1>10

\* The heap, the dictionary and the realized P&L after a fill.
LEMMA FilledHeap ==
    ASSUME HeapSound, realized \in Int, NEW k, NEW n \in Int, NEW p \in Prices, Checked(k, n),
           heap' = Fill(k, n, p).heap,
           book' = [book EXCEPT ![k] = Fill(k, n, p).at],
           realized' = realized + Gain(Pos(k), n, p)
    PROVE  /\ HeapSound'
           /\ Fill(k, n, p).at \in 1..Len(heap') /\ Fill(k, n, p).at \in Nat
           /\ Len(heap) <= Len(heap')
           /\ realized' \in Int /\ realized + Gain(Pos(k), n, p) \in Int
  <1>1. k \in Contracts /\ Sound(Pos(k))
    BY PosSound DEF Checked
  <1>2. Gain(Pos(k), n, p) \in Int
    BY <1>1, GainType
  <1> DEFINE at == Fill(k, n, p).at
  <1>3. SoundHeap(heap') /\ at \in 1..Len(heap') /\ Len(heap) <= Len(heap')
    BY FillSound
  <1>4. Len(heap) \in Nat /\ Len(heap') \in Nat
    BY <1>3 DEF HeapSound, SoundHeap
  <1>5. at \in 0..Len(heap') /\ 0..Len(heap) \subseteq 0..Len(heap')
    BY <1>3, <1>4
  <1>6. book' = [book EXCEPT ![k] = at] /\ book \in [Contracts -> 0..Len(heap)]
    BY DEF HeapSound
  <1> HIDE DEF at
  <1>7. book' \in [Contracts -> 0..Len(heap')]
    BY <1>5, <1>6
  <1> QED
    BY <1>2, <1>3, <1>4, <1>7 DEF HeapSound, at

-----------------------------------------------------------------------------
(* Coroutines *)

LEMMA IdleType == Idle \in TaskRecord /\ Idle.pc = "idle" /\ Idle.todo = {} /\ Idle.done = 0
  BY DEF Idle, TaskRecord

LEMMA IdleSound ==
    ASSUME NEW q \in Tasks, task'[q] = Idle
    PROVE  TaskSound(q)'
  BY IdleType DEF TaskSound

\* A coroutine that a step leaves alone: a position may only change under it
\* when it is not between the check and the fill.
LEMMA Bystander ==
    ASSUME NEW q \in Tasks, TaskSound(q), task'[q] = task[q],
           HeapSound, HeapSound', Len(heap) <= Len(heap'),
           KeepsFilled,
           task[q].pc \in {"quote", "exit"} => heap' = heap /\ book' = book
    PROVE  TaskSound(q)'
  <1>1. TaskRecord' = TaskRecord
    BY DEF TaskRecord, Ids
  <1>2. task[q].pc \in {"quote", "exit"} =>
          (\A k \in Contracts : Pos(k)' = Pos(k)) /\ Open' = Open
    BY DEF Open, Pos, Flat
  <1>3. task[q].obj \in 1..Len(heap) => task[q].obj \in 1..Len(heap')
    BY DEF HeapSound, SoundHeap
  <1>5. task[q].todo \subseteq DOMAIN orders => task[q].todo \subseteq DOMAIN orders'
    BY DEF KeepsFilled
  <1>6. task[q].pc \in {"save", "mark"} =>
          Filled(orders', task'[q].ord) /\ (q = "worker" /\ task[q].pc = "save" => Filled(orders', orders'[task'[q].ord].of))
    BY DEF TaskSound, KeepsFilled, Filled
  <1>4. task[q].pc = "quote" => Checked(task[q].k, task[q].n)'
    <2> SUFFICES ASSUME task[q].pc = "quote" PROVE Checked(task[q].k, task[q].n)'
      OBVIOUS
    <2>1. Checked(task[q].k, task[q].n)
      BY DEF TaskSound
    <2>2. task[q].k \in Contracts /\ Pos(task[q].k)' = Pos(task[q].k)
      BY <1>2, <2>1 DEF Checked, Pos, Flat
    <2> QED
      BY <1>2, <2>1, <2>2 DEF Checked
  <1> QED
    BY <1>2, <1>3, <1>4, <1>5, <1>6 DEF TaskSound

\* The worker, and a client that does not hold the lock, are not between the
\* check and the fill.
LEMMA OnlyHolder ==
    ASSUME LockSound, NEW q \in Tasks, TaskSound(q), lock # q
    PROVE  task[q].pc \notin {"quote", "exit"} /\ (q \in Clients => task[q].pc \notin {"quote", "exit", "save"})
  BY DEF LockSound, TaskSound, Tasks

-----------------------------------------------------------------------------
(* The steps of a request *)

LEMMA PlaceInv ==
    ASSUME BookInv, NEW q \in Clients, NEW o \in Payloads, Place(q, o)
    PROVE  BookInv'
  <1> USE DEF BookInv
  <1>1. o.k \in Contracts /\ o.n \in Int \ {0} /\ o.limit \in BOOLEAN /\ o.cid \in Ids \cup {NoId}
    BY BookConstants
  <1>2. q \in Tasks /\ q # "worker" /\ q # "none"
    BY BookConstants DEF Tasks
  <1> DEFINE t == [Idle EXCEPT !.pc = "quote", !.k = o.k, !.n = o.n, !.limit = o.limit,
                               !.cid = o.cid, !.real = realized]
  <1>3. t \in TaskRecord /\ t.pc = "quote" /\ t.k = o.k /\ t.n = o.n /\ t.todo = {} /\ t.done = 0
    <2>1. Idle \in TaskRecord /\ Idle.todo = {} /\ Idle.done = 0 /\ realized \in Int
      BY IdleType DEF Sums
    <2> QED
      BY <1>1, <2>1 DEF TaskRecord
  <1>4. task' = [task EXCEPT ![q] = t] /\ lock = "none" /\ lock' = q /\ ~Refused(o.k, o.n)
    BY DEF Place, Free
  <1> HIDE DEF t
  <1>5. UNCHANGED <<heap, book, orders, seen, realized, rows>>
    BY DEF Place
  <1>6. HeapSound' /\ RowsSound' /\ Sums'
    BY <1>5 DEF HeapSound, RowsSound, Sums, OrderRecord, Ids
  <1>7. Checked(o.k, o.n)
    BY <1>1, <1>4, RefusedChecks
  <1>8. Checked(o.k, o.n)'
    BY <1>5, <1>7 DEF Checked, Open, Pos, Flat
  <1>9. TasksSound'
    <2>1. task' \in [Tasks -> TaskRecord] /\ task'[q] = t
      BY <1>2, <1>3, <1>4 DEF TasksSound
    <2>2. TaskSound(q)'
      BY <1>2, <1>3, <1>8, <2>1 DEF TaskSound
    <2>3. ASSUME NEW r \in Tasks, r # q PROVE TaskSound(r)'
      BY <1>4, <1>5, <1>6, <2>3, SameOrders, Bystander DEF TasksSound, HeapSound, SoundHeap
    <2> QED
      BY <2>1, <2>2, <2>3 DEF TasksSound
  <1>10. LockSound'
    <2>1. task'[q].pc = "quote" /\ lock' = q /\ q \in Clients
      BY <1>2, <1>3, <1>4 DEF TasksSound
    <2>2. ASSUME NEW r \in Clients, r # q
          PROVE  task'[r].pc \notin {"quote", "exit", "save"} /\ lock' # r
      BY <1>4, <2>1, <2>2, BookConstants DEF LockSound
    <2> QED
      BY <2>1, <2>2 DEF LockSound
  <1> QED
    BY <1>6, <1>9, <1>10

\* Requests that end without touching a position.
LEMMA ReleaseInv ==
    ASSUME BookInv, NEW q \in Clients, task[q].pc \in {"quote", "exit", "save"}, Release(q),
           HeapSound', RowsSound', Sums', Len(heap) <= Len(heap'),
           KeepsFilled
    PROVE  BookInv'
  <1> USE DEF BookInv
  <1>1. q \in Tasks /\ q # "worker" /\ lock = q
    BY BookConstants DEF Tasks, LockSound
  <1>2. task' = [task EXCEPT ![q] = Idle] /\ lock' = "none"
    BY DEF Release
  <1>3. task' \in [Tasks -> TaskRecord] /\ task'[q] = Idle
    BY <1>1, <1>2, IdleType DEF TasksSound
  <1>4. ASSUME NEW r \in Tasks, r # q
        PROVE  TaskSound(r)' /\ (r \in Clients => task'[r].pc \notin {"quote", "exit", "save"})
    <2>1. TaskSound(r) /\ task'[r] = task[r] /\ lock # r
      BY <1>1, <1>2, <1>4 DEF TasksSound
    <2> QED
      BY <1>4, <2>1, OnlyHolder, Bystander
  <1>5. TasksSound'
    BY <1>1, <1>3, <1>4, IdleSound DEF TasksSound
  <1>6. LockSound'
    BY <1>2, <1>3, <1>4, IdleType, BookConstants DEF LockSound, Tasks
  <1> QED
    BY <1>5, <1>6

LEMMA OrderType ==
    ASSUME NEW k \in Contracts, NEW n \in Int \ {0}, NEW cid \in Ids \cup {NoId},
           NEW st \in {"PENDING", "FILLED"}, NEW of \in Nat
    PROVE  Order(k, n, cid, st, of) \in OrderRecord
  BY DEF Order, OrderRecord

LEMMA OwnType ==
    ASSUME Sums, NEW cid, NEW st
    PROVE  Own \in Nat /\ Remember(cid, st) \in [Ids -> Nat]
  <1>1. Own \in Nat
    BY DEF Sums, Own
  <1> QED
    BY <1>1 DEF Sums, Remember

LEMMA AppendOrder ==
    ASSUME Sums, NEW ord \in OrderRecord, orders' = Append(orders, ord),
           seen' \in [Ids -> Nat], realized' \in Int
    PROVE  /\ Sums' /\ KeepsFilled
           /\ Own \in DOMAIN orders' /\ orders'[Own] = ord
  <1>1. orders \in Seq(OrderRecord) /\ Len(orders) \in Nat
    BY DEF Sums
  <1>2. /\ orders' \in Seq(OrderRecord) /\ DOMAIN orders \subseteq DOMAIN orders'
        /\ \A i \in DOMAIN orders : orders'[i] = orders[i]
        /\ Own \in DOMAIN orders' /\ orders'[Own] = ord
    BY <1>1 DEF Own
  <1> QED
    BY <1>2 DEF Sums, OrderRecord, Ids, KeepsFilled

LEMMA RejectInv ==
    ASSUME BookInv, NEW q \in Clients, Reject(q)
    PROVE  BookInv'
  <1>1. HeapSound' /\ RowsSound' /\ Sums' /\ Len(heap) <= Len(heap')
        /\ KeepsFilled
    BY SameOrders DEF Reject, BookInv, HeapSound, SoundHeap, RowsSound, Sums, OrderRecord, Ids
  <1> QED
    BY <1>1, ReleaseInv DEF Reject

LEMMA RestInv ==
    ASSUME BookInv, NEW q \in Clients, Rest(q)
    PROVE  BookInv'
  <1>1. q \in Tasks /\ TaskSound(q) /\ Sums /\ HeapSound /\ RowsSound
    BY DEF BookInv, TasksSound, Tasks
  <1>2. task[q].k \in Contracts /\ task[q].n \in Int \ {0} /\ task[q].cid \in Ids \cup {NoId}
    BY <1>1 DEF Rest, TaskSound, TaskRecord, Checked
  <1>3. Order(task[q].k, task[q].n, task[q].cid, "PENDING", 0) \in OrderRecord
    BY <1>2, OrderType
  <1>4. Sums' /\ KeepsFilled
    <2>1. realized' \in Int /\ seen' \in [Ids -> Nat]
      BY <1>1, OwnType DEF Rest, Sums
    <2> QED
      BY <1>1, <1>3, <2>1, AppendOrder DEF Rest
  <1>5. HeapSound' /\ RowsSound' /\ Len(heap) <= Len(heap')
    BY <1>1 DEF Rest, HeapSound, SoundHeap, RowsSound
  <1> QED
    BY <1>4, <1>5, ReleaseInv DEF Rest

\* The holder of the lock fills what was checked before its quote was awaited.
LEMMA ExecuteInv ==
    ASSUME BookInv, NEW q \in Clients, task[q].pc \in {"quote", "exit"},
           NEW k, NEW n \in Int, NEW p \in Prices, Checked(k, n), Execute(q, k, n, p),
           NEW ord \in OrderRecord, ord.st = "FILLED", orders' = Append(orders, ord),
           seen' \in [Ids -> Nat], UNCHANGED <<lock, rows>>
    PROVE  BookInv'
  <1>1. q \in Tasks /\ q # "worker" /\ lock = q /\ HeapSound /\ RowsSound /\ LockSound /\ Sums
        /\ realized \in Int /\ task[q] \in TaskRecord /\ task \in [Tasks -> TaskRecord]
    BY BookConstants DEF BookInv, Tasks, LockSound, Sums, TasksSound
  <1> DEFINE at == Fill(k, n, p).at
             re == realized + Gain(Pos(k), n, p)
             own == Own
             t == [task[q] EXCEPT !.pc = "save", !.k = k, !.obj = at, !.ord = own, !.real = re]
  <1>2. HeapSound' /\ at \in 1..Len(heap') /\ at \in Nat /\ Len(heap) <= Len(heap')
        /\ realized' \in Int /\ re \in Int
    BY <1>1, FilledHeap DEF Execute
  <1>3. task' = [task EXCEPT ![q] = t]
    BY <1>1 DEF Execute, Saving
  <1>4. k \in Contracts /\ own \in Nat
    BY <1>1, OwnType DEF Checked
  <1>7. Sums' /\ KeepsFilled /\ own \in DOMAIN orders' /\ orders'[own].st = "FILLED"
    BY <1>1, <1>2, AppendOrder
  <1> HIDE DEF at, re, own
  <1>5. t \in TaskRecord
    BY <1>1, <1>2, <1>4 DEF TaskRecord
  <1>6. t.pc = "save" /\ t.k = k /\ t.obj = at /\ t.todo = task[q].todo /\ t.ord = own
    BY <1>1 DEF TaskRecord
  <1> HIDE DEF t
  <1>8. RowsSound'
    BY <1>1 DEF RowsSound
  <1>9. task' \in [Tasks -> TaskRecord] /\ task'[q] = t
    BY <1>1, <1>3, <1>5
  <1>10. TaskSound(q)'
    <2>1. task[q].todo \subseteq DOMAIN orders'
      BY <1>1, <1>7 DEF BookInv, TasksSound, TaskSound, KeepsFilled
    <2>2. Filled(orders', own)
      BY <1>7 DEF Filled
    <2> QED
      BY <1>1, <1>2, <1>4, <1>5, <1>6, <1>9, <2>1, <2>2 DEF TaskSound
  <1>11. ASSUME NEW r \in Tasks, r # q
         PROVE  TaskSound(r)' /\ task'[r] = task[r]
    <2>1. TaskSound(r) /\ task'[r] = task[r] /\ lock # r
      BY <1>1, <1>3, <1>11 DEF BookInv, TasksSound
    <2> QED
      BY <1>1, <1>2, <1>7, <2>1, OnlyHolder, Bystander
  <1>12. TasksSound'
    BY <1>9, <1>10, <1>11 DEF TasksSound
  <1>13. LockSound'
    BY <1>1, <1>6, <1>9, <1>11 DEF LockSound, Tasks
  <1> QED
    BY <1>2, <1>7, <1>8, <1>12, <1>13 DEF BookInv

LEMMA FillNowInv ==
    ASSUME BookInv, NEW q \in Clients, NEW p \in Prices, FillNow(q, p)
    PROVE  BookInv'
  <1>1. q \in Tasks /\ TaskSound(q) /\ Sums /\ task[q].pc = "quote"
    BY DEF BookInv, TasksSound, Tasks, FillNow
  <1> DEFINE k == task[q].k
             n == task[q].n
             cid == task[q].cid
             ord == Order(k, n, cid, "FILLED", Own)
  <1>2. k \in Contracts /\ n \in Int \ {0} /\ cid \in Ids \cup {NoId} /\ Checked(k, n)
    BY <1>1 DEF TaskSound, TaskRecord, Checked
  <1>3. Own \in Nat /\ Remember(cid, "FILLED") \in [Ids -> Nat]
    BY <1>1, OwnType
  <1>4. ord \in OrderRecord /\ ord.st = "FILLED"
    BY <1>2, <1>3, OrderType DEF Order
  <1>5. Execute(q, k, n, p) /\ orders' = Append(orders, ord) /\ seen' = Remember(cid, "FILLED")
        /\ UNCHANGED <<lock, rows>>
    BY DEF FillNow
  <1> HIDE DEF k, n, cid, ord
  <1> QED
    BY <1>1, <1>2, <1>3, <1>4, <1>5, ExecuteInv

LEMMA SquareOffInv ==
    ASSUME BookInv, NEW q \in Clients, NEW k \in Contracts, SquareOff(q, k)
    PROVE  BookInv'
  <1>1. q \in Tasks /\ q # "worker" /\ q # "none" /\ HeapSound /\ RowsSound /\ LockSound /\ Sums
    BY BookConstants DEF BookInv, Tasks
  <1> DEFINE t == [Idle EXCEPT !.pc = "exit", !.k = k]
  <1>2. t \in TaskRecord /\ t.pc = "exit" /\ t.k = k /\ t.todo = {} /\ t.done = 0
    BY IdleType DEF TaskRecord
  <1>3. task' = [task EXCEPT ![q] = t] /\ lock = "none" /\ lock' = q /\ k \in Open
    BY DEF SquareOff, Free
  <1> HIDE DEF t
  <1>4. UNCHANGED <<heap, book, orders, seen, realized, rows>>
    BY DEF SquareOff
  <1>5. HeapSound' /\ RowsSound' /\ Sums' /\ Open' = Open
    BY <1>1, <1>4 DEF HeapSound, SoundHeap, RowsSound, Sums, Open, Pos
  <1>6. task' \in [Tasks -> TaskRecord] /\ task'[q] = t
    BY <1>1, <1>2, <1>3 DEF BookInv, TasksSound
  <1>7. TaskSound(q)'
    BY <1>1, <1>2, <1>3, <1>5, <1>6 DEF TaskSound
  <1>8. ASSUME NEW r \in Tasks, r # q
        PROVE  TaskSound(r)' /\ task'[r] = task[r]
    BY <1>1, <1>3, <1>4, <1>5, <1>8, SameOrders, Bystander DEF BookInv, TasksSound, HeapSound, SoundHeap
  <1>9. LockSound'
    <2>1. ASSUME NEW r \in Clients, r # q
          PROVE  task'[r].pc \notin {"quote", "exit", "save"} /\ lock' # r
      BY <1>1, <1>3, <1>8, <2>1, BookConstants DEF LockSound, Tasks
    <2> QED
      BY <1>2, <1>3, <1>6, <2>1 DEF LockSound
  <1> QED
    BY <1>5, <1>6, <1>7, <1>8, <1>9 DEF BookInv, TasksSound

\* An exit is the whole position: it is within the limits its entry was in.
LEMMA ExitInv ==
    ASSUME BookInv, NEW q \in Clients, NEW p \in Prices, Exit(q, p)
    PROVE  BookInv'
  <1> DEFINE k == task[q].k
             n == -Pos(k).qty
             ord == Order(k, n, NoId, "FILLED", Own)
  <1>1. q \in Tasks /\ TaskSound(q) /\ Sums /\ HeapSound /\ RowsSound /\ task[q].pc = "exit"
    BY DEF BookInv, TasksSound, Tasks, Exit
  <1>2. k \in Contracts /\ Pos(k).qty # 0 /\ Sound(Pos(k)) /\ Pos(k) \in PosRecord
        /\ n \in Int \ {0}
    <2>1. k \in Contracts /\ Pos(k).qty # 0
      BY <1>1 DEF TaskSound, Open
    <2> QED
      BY <1>1, <2>1, PosSound DEF Sound, PosRecord
  <1>3. CASE Refused(k, n)
    <2>1. Release(q) /\ heap' = [heap EXCEPT ![book[k]].ltp = p]
          /\ UNCHANGED <<book, realized, orders, seen, rows>>
      BY <1>3 DEF Exit
    <2> DEFINE y == [heap[book[k]] EXCEPT !.ltp = p]
    <2>2. book[k] \in 1..Len(heap) /\ Sound(heap[book[k]])
      BY <1>1, <1>2, HeldType DEF HeapSound, SoundHeap
    <2>3. Sound(y)
      <3>1. p \in Int /\ heap[book[k]] \in PosRecord
        BY <2>2, BookConstants DEF Sound
      <3>2. y \in PosRecord /\ y.qty = heap[book[k]].qty /\ y.margin = heap[book[k]].margin
        BY <3>1 DEF PosRecord
      <3> QED
        BY <2>2, <3>2 DEF Sound
    <2>4. heap' = [heap EXCEPT ![book[k]] = y]
      BY <2>1, <2>2
    <2> HIDE DEF y
    <2>5. SoundHeap(heap') /\ Len(heap') = Len(heap) /\ Len(heap) \in Nat
      BY <1>1, <2>2, <2>3, <2>4, PutSound DEF HeapSound, SoundHeap
    <2>6. HeapSound' /\ RowsSound' /\ Sums' /\ Len(heap) <= Len(heap')
          /\ KeepsFilled
      BY <1>1, <2>1, <2>5, SameOrders DEF HeapSound, RowsSound, Sums
    <2> HIDE DEF k, n
    <2> QED
      BY <1>1, <2>1, <2>6, ReleaseInv
  <1>4. CASE ~Refused(k, n)
    <2>1. Execute(q, k, n, p) /\ orders' = Append(orders, ord) /\ UNCHANGED <<lock, seen, rows>>
      BY <1>4 DEF Exit
    <2>2. Own \in Nat
      BY <1>1, OwnType
    <2>3. ord \in OrderRecord /\ ord.st = "FILLED"
      BY <1>2, <2>2, OrderType DEF Order
    <2>4. Checked(k, n)
      BY <1>1, <1>2, <1>4, RefusedChecks
    <2>5. seen' \in [Ids -> Nat]
      BY <1>1, <2>1 DEF Sums
    <2> HIDE DEF k, n, ord
    <2> QED
      BY <1>1, <1>2, <2>1, <2>3, <2>4, <2>5, ExecuteInv
  <1> QED
    BY <1>3, <1>4

-----------------------------------------------------------------------------
(* Saving, cancelling, resetting *)

\* The row keeps its side and takes the size of the object, so the exposure
\* limit holds of it whichever way it points.
LEMMA SavedSound ==
    ASSUME HeapSound, RowsSound, NEW k \in Contracts, NEW i \in 1..Len(heap), rows' = Saved(k, i)
    PROVE  RowsSound'
  <1> DEFINE x == heap[i]
             row == IF k \in rows.known THEN rows.pos[k] ELSE x
             side == row.side
             qty == side * Size(x.qty)
             y == [x EXCEPT !.side = side, !.qty = qty]
             pos == [rows.pos EXCEPT ![k] = y]
             obj == [rows.obj EXCEPT ![k] = i]
  <1>1. Sound(x) /\ x \in PosRecord /\ x.qty \in Int /\ x.margin \in Nat
        /\ (x.qty = 0 => x.margin = 0) /\ Size(x.qty) <= MaxPerSymbol
    BY DEF HeapSound, SoundHeap, Sound, PosRecord
  <1>2. row \in PosRecord /\ side \in {1, -1}
    BY <1>1 DEF RowsSound, PosRecord
  <1>3. Size(x.qty) \in Nat
    BY <1>1, SizeType
  <1>4. qty \in Int /\ Size(qty) = Size(x.qty) /\ (qty = 0 => x.qty = 0)
    BY <1>1, <1>2, <1>3 DEF Size
  <1>5. rows' = [rows EXCEPT !.known = @ \cup {k}, !.obj[k] = i, !.pos[k] = y]
    BY DEF Saved
  <1> HIDE DEF row, side, qty, x
  <1>6. y \in PosRecord /\ y.qty = qty /\ y.margin = x.margin
    BY <1>1, <1>2, <1>4 DEF PosRecord
  <1>7. Sound(y)
    BY <1>1, <1>4, <1>6 DEF Sound
  <1> HIDE DEF y
  <1>8. i \in Nat
    BY DEF HeapSound, SoundHeap
  <1>9. /\ pos \in [Contracts -> PosRecord] /\ obj \in [Contracts -> Nat]
        /\ \A c \in Contracts : Sound(pos[c])
    BY <1>6, <1>7, <1>8 DEF RowsSound
  <1>10. rows' = [rows EXCEPT !.known = rows.known \cup {k}, !.obj = obj, !.pos = pos]
    BY <1>5
  <1> HIDE DEF pos, obj
  <1>11. rows.known \cup {k} \in SUBSET Contracts
    BY DEF RowsSound
  <1> QED
    BY <1>9, <1>10, <1>11 DEF RowsSound

\* A saving coroutine takes its own next step: nothing it may see moves.
LEMMA OwnStep ==
    ASSUME BookInv, NEW q \in Tasks, NEW t \in TaskRecord, task' = [task EXCEPT ![q] = t],
           TaskSound(q)', q = "worker" \/ (t.pc = "save" /\ task[q].pc = "save"),
           UNCHANGED <<heap, book, lock>>, RowsSound', Sums', KeepsFilled
    PROVE  BookInv'
  <1>1. task \in [Tasks -> TaskRecord] /\ HeapSound /\ LockSound /\ TasksSound
    BY DEF BookInv, TasksSound
  <1>2. task' \in [Tasks -> TaskRecord] /\ task'[q] = t
    BY <1>1
  <1>3. HeapSound' /\ Len(heap) <= Len(heap')
    BY <1>1, SameHeap
  <1>4. ASSUME NEW r \in Tasks, r # q
        PROVE  TaskSound(r)' /\ task'[r] = task[r]
    BY <1>1, <1>3, <1>4, Bystander DEF TasksSound
  <1>5. LockSound'
    BY <1>1, <1>2, <1>4, BookConstants DEF LockSound, Tasks
  <1> QED
    BY <1>2, <1>3, <1>4, <1>5 DEF BookInv, TasksSound

LEMMA SaveOrderInv ==
    ASSUME BookInv, NEW q \in Tasks, SaveOrder(q)
    PROVE  BookInv'
  <1>1. TaskSound(q) /\ Sums /\ HeapSound /\ RowsSound /\ task[q].pc = "save"
        /\ task \in [Tasks -> TaskRecord] /\ task[q] \in TaskRecord
    BY DEF BookInv, TasksSound, SaveOrder
  <1> DEFINE i == task[q].ord
             o == [orders[i] EXCEPT !.row = "FILLED"]
             t == [task[q] EXCEPT !.done = 1]
  <1>2. i \in DOMAIN orders /\ orders[i].st = "FILLED" /\ orders[i] \in OrderRecord
    BY <1>1 DEF TaskSound, Filled, Sums
  <1>3. o \in OrderRecord /\ o.st = orders[i].st /\ o.of = orders[i].of
    BY <1>2 DEF OrderRecord
  <1>4. orders' = [orders EXCEPT ![i] = o] /\ task' = [task EXCEPT ![q] = t]
        /\ UNCHANGED <<heap, book, seen, realized, lock, rows>>
    BY <1>2 DEF SaveOrder
  <1> HIDE DEF i, o
  <1>5. Sums' /\ KeepsFilled
    BY <1>1, <1>2, <1>3, <1>4 DEF Sums, KeepsFilled
  <1>6. t \in TaskRecord /\ t.pc = "save" /\ t.k = task[q].k /\ t.obj = task[q].obj
        /\ t.ord = task[q].ord /\ t.todo = task[q].todo
    BY <1>1 DEF TaskRecord
  <1> HIDE DEF t
  <1>7. TaskSound(q)'
    <2>1. task'[q] = t /\ Len(heap') = Len(heap)
      BY <1>1, <1>4
    <2>2. Filled(orders', t.ord) /\ (q = "worker" => Filled(orders', orders'[t.ord].of))
      BY <1>1, <1>5, <1>6 DEF TaskSound, Filled, KeepsFilled
    <2>3. t.todo \subseteq DOMAIN orders'
      BY <1>1, <1>5, <1>6 DEF TaskSound, KeepsFilled
    <2> QED
      BY <1>1, <1>6, <2>1, <2>2, <2>3 DEF TaskSound
  <1>8. RowsSound'
    BY <1>1, <1>4 DEF RowsSound
  <1> QED
    BY <1>1, <1>4, <1>5, <1>6, <1>7, <1>8, OwnStep

LEMMA SavePositionInv ==
    ASSUME BookInv, NEW q \in Tasks, SavePosition(q)
    PROVE  BookInv'
  <1>1. TaskSound(q) /\ Sums /\ HeapSound /\ RowsSound /\ task[q].pc = "save"
        /\ task \in [Tasks -> TaskRecord] /\ task[q] \in TaskRecord
    BY DEF BookInv, TasksSound, SavePosition
  <1> DEFINE t == [task[q] EXCEPT !.done = 2]
  <1>2. task[q].k \in Contracts /\ task[q].obj \in 1..Len(heap)
    BY <1>1 DEF TaskSound
  <1>3. rows' = Saved(task[q].k, task[q].obj) /\ task' = [task EXCEPT ![q] = t]
        /\ UNCHANGED <<heap, book, orders, seen, realized, lock>>
    BY DEF SavePosition
  <1>4. RowsSound'
    BY <1>1, <1>2, <1>3, SavedSound
  <1>5. Sums' /\ KeepsFilled
    BY <1>1, <1>3, SameOrders DEF Sums
  <1>6. t \in TaskRecord /\ t.pc = "save" /\ t.k = task[q].k /\ t.obj = task[q].obj
        /\ t.ord = task[q].ord /\ t.todo = task[q].todo
    BY <1>1 DEF TaskRecord
  <1> HIDE DEF t
  <1>7. TaskSound(q)'
    <2>1. task'[q] = t
      BY <1>1, <1>3
    <2> QED
      BY <1>1, <1>3, <1>6, <2>1 DEF TaskSound, Filled
  <1> QED
    BY <1>1, <1>3, <1>4, <1>5, <1>6, <1>7, OwnStep

LEMMA SavePortfolioInv ==
    ASSUME BookInv, NEW q \in Tasks, SavePortfolio(q)
    PROVE  BookInv'
  <1>1. TaskSound(q) /\ Sums /\ HeapSound /\ RowsSound /\ task[q].pc = "save"
        /\ task \in [Tasks -> TaskRecord] /\ task[q] \in TaskRecord
    BY DEF BookInv, TasksSound, SavePortfolio
  <1>2. rows' = [rows EXCEPT !.real = task[q].real] /\ UNCHANGED <<heap, book, orders, seen, realized>>
    BY DEF SavePortfolio
  <1>3. task[q].real \in Int
    BY <1>1 DEF TaskRecord
  <1>4. RowsSound'
    BY <1>1, <1>2, <1>3 DEF RowsSound
  <1>5. Sums' /\ KeepsFilled /\ HeapSound' /\ Len(heap) <= Len(heap')
    BY <1>1, <1>2, SameOrders, SameHeap DEF Sums
  <1>6. CASE q # "worker"
    <2>1. q \in Clients /\ Release(q)
      BY <1>6 DEF SavePortfolio, Tasks
    <2> QED
      BY <1>1, <1>4, <1>5, <2>1, ReleaseInv
  <1>7. CASE q = "worker"
    <2> DEFINE of == orders[task[q].ord].of
               t == [task[q] EXCEPT !.pc = "mark", !.ord = of, !.done = 0]
    <2>1. task' = [task EXCEPT ![q] = t] /\ lock' = lock
      BY <1>7 DEF SavePortfolio
    <2>2. Filled(orders, of) /\ of \in Nat
      <3>1. Filled(orders, of) /\ task[q].ord \in DOMAIN orders
        BY <1>1, <1>7 DEF TaskSound, Filled
      <3>2. orders[task[q].ord] \in OrderRecord
        BY <1>1, <3>1 DEF Sums
      <3>3. of \in Nat
        BY <3>2 DEF OrderRecord
      <3> QED
        BY <3>1, <3>3
    <2> HIDE DEF of
    <2>3. t \in TaskRecord /\ t.pc = "mark" /\ t.ord = of /\ t.done = 0 /\ t.todo = task[q].todo
      <3>1. task[q] \in TaskRecord /\ of \in Nat
        BY <1>1, <2>2
      <3> DEFINE u == [task[q] EXCEPT !.pc = "mark", !.ord = of]
      <3>2. u \in TaskRecord /\ u.pc = "mark" /\ u.ord = of /\ u.todo = task[q].todo
        BY <3>1 DEF TaskRecord
      <3>3. t = [u EXCEPT !.done = 0]
        BY <3>1 DEF TaskRecord
      <3> HIDE DEF u, t
      <3>4. [u EXCEPT !.done = 0] \in TaskRecord
        BY <3>2 DEF TaskRecord
      <3>5. t.pc = u.pc /\ t.ord = u.ord /\ t.done = 0 /\ t.todo = u.todo
        BY <3>2, <3>3 DEF TaskRecord
      <3> QED
        BY <3>2, <3>3, <3>4, <3>5
    <2> HIDE DEF t
    <2>4. TaskSound(q)'
      <3>1. task'[q] = t /\ q \notin Clients
        BY <1>1, <1>7, <2>1, BookConstants
      <3> QED
        BY <1>1, <1>2, <2>2, <2>3, <3>1 DEF TaskSound, Filled
    <2> QED
      BY <1>2, <1>4, <1>5, <1>7, <2>1, <2>3, <2>4, OwnStep
  <1> QED
    BY <1>6, <1>7

LEMMA SaveTouchedInv ==
    ASSUME BookInv, SaveTouched
    PROVE  BookInv'
  <1> DEFINE q == "worker"
             i == task[q].ord
             o == [orders[i] EXCEPT !.row = "FILLED"]
             t == [task[q] EXCEPT !.pc = "loop"]
             u == IF task[q].todo = {} THEN Idle ELSE t
  <1>1. q \in Tasks /\ q \notin Clients /\ TaskSound(q) /\ Sums /\ HeapSound /\ RowsSound
        /\ task[q].pc = "mark" /\ task \in [Tasks -> TaskRecord] /\ task[q] \in TaskRecord
    BY BookConstants DEF BookInv, TasksSound, SaveTouched, Tasks
  <1>2. i \in DOMAIN orders /\ orders[i].st = "FILLED" /\ orders[i] \in OrderRecord
    BY <1>1 DEF TaskSound, Filled, Sums
  <1>3. o \in OrderRecord /\ o.st = orders[i].st /\ o.of = orders[i].of
    BY <1>2 DEF OrderRecord
  <1>4. orders' = [orders EXCEPT ![i] = o] /\ task' = [task EXCEPT ![q] = u]
        /\ UNCHANGED <<heap, book, seen, realized, lock, rows>>
    BY <1>2 DEF SaveTouched
  <1> HIDE DEF i, o
  <1>5. Sums' /\ KeepsFilled
    BY <1>1, <1>2, <1>3, <1>4 DEF Sums, KeepsFilled
  <1>6. t \in TaskRecord /\ t.pc = "loop" /\ t.todo = task[q].todo /\ t.done = task[q].done
        /\ task[q].done = 0
    BY <1>1 DEF TaskRecord, TaskSound
  <1> HIDE DEF t
  <1>7. u \in TaskRecord /\ task'[q] = u
    BY <1>1, <1>4, <1>6, IdleType
  <1>8. TaskSound(q)'
    <2>1. CASE task[q].todo = {}
      BY <1>1, <1>7, <2>1, IdleSound
    <2>2. CASE task[q].todo # {}
      <3>1. task'[q] = t /\ t.todo \subseteq DOMAIN orders'
        BY <1>1, <1>5, <1>6, <1>7, <2>2 DEF TaskSound, KeepsFilled
      <3> QED
        BY <1>1, <1>6, <2>2, <3>1 DEF TaskSound
    <2> QED
      BY <2>1, <2>2
  <1>9. RowsSound'
    BY <1>1, <1>4 DEF RowsSound
  <1> HIDE DEF u
  <1> QED
    BY <1>1, <1>4, <1>5, <1>7, <1>8, <1>9, OwnStep

\* Steps of no coroutine: nobody holds the lock, the tasks stay as they are.
LEMMA OutsideInv ==
    ASSUME BookInv, Free, UNCHANGED <<task, lock>>, HeapSound', RowsSound', Sums',
           Len(heap) <= Len(heap'), KeepsFilled
    PROVE  BookInv'
  <1>1. ASSUME NEW r \in Tasks PROVE TaskSound(r)'
    <2>1. TaskSound(r) /\ LockSound /\ HeapSound
      BY DEF BookInv, TasksSound
    <2>2. lock # r
      BY BookConstants DEF Free, Tasks
    <2> QED
      BY <2>1, <2>2, OnlyHolder, Bystander
  <1>2. LockSound' /\ task' \in [Tasks -> TaskRecord]
    BY DEF BookInv, LockSound, TasksSound
  <1> QED
    BY <1>1, <1>2 DEF BookInv, TasksSound

LEMMA CancelInv ==
    ASSUME BookInv, NEW i \in DOMAIN orders, Cancel(i)
    PROVE  BookInv'
  <1>1. HeapSound /\ RowsSound /\ Sums /\ orders \in Seq(OrderRecord)
    BY DEF BookInv, Sums
  <1>2. orders[i] \in OrderRecord /\ orders[i].st = "PENDING"
    BY <1>1 DEF Cancel
  <1> DEFINE o == [orders[i] EXCEPT !.st = "CANCELLED", !.row = "CANCELLED"]
  <1>3. o \in OrderRecord
    BY <1>2 DEF OrderRecord
  <1>4. orders' = [orders EXCEPT ![i] = o]
    BY DEF Cancel
  <1> HIDE DEF o
  <1>5. orders' \in Seq(OrderRecord) /\ KeepsFilled
    BY <1>1, <1>2, <1>3, <1>4 DEF KeepsFilled
  <1>6. HeapSound' /\ Len(heap) <= Len(heap')
    BY <1>1, SameHeap DEF Cancel
  <1>7. RowsSound'
    BY <1>1 DEF Cancel, RowsSound
  <1>8. Sums'
    BY <1>1, <1>5 DEF Cancel, Sums
  <1> QED
    BY <1>5, <1>6, <1>7, <1>8, OutsideInv DEF Cancel

LEMMA NoRowsSound == ASSUME rows' = NoRows PROVE RowsSound'
  <1>1. Flat \in PosRecord /\ Sound(Flat)
    BY FlatSound DEF Sound
  <1> QED
    BY <1>1 DEF NoRows, RowsSound

LEMMA ResetInv ==
    ASSUME BookInv, Reset
    PROVE  BookInv'
  <1>1. HeapSound /\ RowsSound /\ Sums /\ orders \in Seq(OrderRecord)
    BY DEF BookInv, Sums
  <1>2. SoundHeap(heap) /\ Len(heap) \in Nat /\ heap' = heap
    BY <1>1 DEF Reset, HeapSound, SoundHeap
  <1>3. book' \in [Contracts -> 0..Len(heap)]
    BY <1>2 DEF Reset
  <1>4. HeapSound' /\ Len(heap) <= Len(heap')
    BY <1>2, <1>3 DEF HeapSound, SoundHeap
  <1>6. RowsSound'
    BY NoRowsSound DEF Reset
  <1>7. /\ orders' \in [1..Len(orders) -> OrderRecord] /\ Len(orders) \in Nat
        /\ \A i \in DOMAIN orders : orders'[i].st = orders[i].st /\ orders'[i].of = orders[i].of
    <2>1. ASSUME NEW i \in DOMAIN orders
          PROVE  /\ [orders[i] EXCEPT !.here = FALSE] \in OrderRecord
                 /\ [orders[i] EXCEPT !.here = FALSE].st = orders[i].st
                 /\ [orders[i] EXCEPT !.here = FALSE].of = orders[i].of
      <3>1. orders[i] \in OrderRecord
        BY <1>1, <2>1
      <3> QED
        BY <3>1 DEF OrderRecord
    <2>2. DOMAIN orders = 1..Len(orders) /\ Len(orders) \in Nat
      BY <1>1
    <2> QED
      BY <2>1, <2>2 DEF Reset
  <1>8. orders' \in Seq(OrderRecord) /\ KeepsFilled
    BY <1>1, <1>7 DEF KeepsFilled
  <1>9. Sums'
    BY <1>8 DEF Reset, Sums
  <1> QED
    BY <1>4, <1>6, <1>8, <1>9, OutsideInv DEF Reset

LEMMA MarkInv ==
    ASSUME BookInv, NEW k \in Contracts, NEW p \in Prices, Mark(k, p)
    PROVE  BookInv'
  <1>1. HeapSound /\ RowsSound /\ Sums
    BY DEF BookInv
  <1> DEFINE y == [heap[book[k]] EXCEPT !.ltp = p]
  <1>2. book[k] \in 1..Len(heap) /\ Sound(heap[book[k]])
    BY <1>1, HeldType DEF Mark, Open, HeapSound, SoundHeap
  <1>3. Sound(y)
    <2>1. p \in Int /\ heap[book[k]] \in PosRecord
      BY <1>2, BookConstants DEF Sound
    <2>2. y \in PosRecord /\ y.qty = heap[book[k]].qty /\ y.margin = heap[book[k]].margin
      BY <2>1 DEF PosRecord
    <2> QED
      BY <1>2, <2>2 DEF Sound
  <1>4. heap' = [heap EXCEPT ![book[k]] = y]
    BY <1>2 DEF Mark
  <1> HIDE DEF y
  <1>5. SoundHeap(heap') /\ Len(heap') = Len(heap) /\ Len(heap) \in Nat
    BY <1>1, <1>2, <1>3, <1>4, PutSound DEF HeapSound, SoundHeap
  <1>6. HeapSound' /\ Len(heap) <= Len(heap')
    BY <1>1, <1>5 DEF Mark, HeapSound
  <1>7. RowsSound' /\ Sums' /\ KeepsFilled
    BY <1>1, SameOrders DEF Mark, RowsSound, Sums
  <1> QED
    BY <1>6, <1>7, OutsideInv DEF Mark

-----------------------------------------------------------------------------
(* The worker's evaluation of resting orders *)

\* A step of the worker that leaves positions and the lock alone, or finds
\* the lock free.
LEMMA WorkerInv ==
    ASSUME BookInv, NEW t \in TaskRecord, task' = [task EXCEPT !["worker"] = t],
           t.pc \in {"idle", "loop", "save", "mark"}, t.pc # "save" => t.done = 0,
           t.pc = "save" => t.k \in Contracts /\ t.obj \in 1..Len(heap') /\ Filled(orders', orders'[t.ord].of),
           t.pc \in {"save", "mark"} => Filled(orders', t.ord),
           t.pc = "loop" => t.todo # {}, t.todo \subseteq DOMAIN orders',
           lock' = lock, UNCHANGED <<heap, book>> \/ Free,
           HeapSound', RowsSound', Sums', Len(heap) <= Len(heap'),
           KeepsFilled
    PROVE  BookInv'
  <1>1. "worker" \in Tasks /\ "worker" \notin Clients /\ task \in [Tasks -> TaskRecord]
        /\ HeapSound /\ LockSound /\ TasksSound
    BY BookConstants DEF Tasks, BookInv, TasksSound
  <1>2. task' \in [Tasks -> TaskRecord] /\ task'["worker"] = t
    BY <1>1
  <1>3. TaskSound("worker")'
    BY <1>1, <1>2 DEF TaskSound
  <1>4. ASSUME NEW r \in Tasks, r # "worker"
        PROVE  TaskSound(r)' /\ task'[r] = task[r]
    <2>1. TaskSound(r) /\ task'[r] = task[r]
      BY <1>1, <1>4 DEF TasksSound
    <2>2. Free => lock # r
      BY BookConstants DEF Free, Tasks
    <2> QED
      BY <1>1, <2>1, <2>2, OnlyHolder, Bystander
  <1>5. LockSound'
    BY <1>1, <1>4, BookConstants DEF LockSound, Tasks
  <1> QED
    BY <1>2, <1>3, <1>4, <1>5 DEF BookInv, TasksSound

LEMMA TouchStartInv ==
    ASSUME BookInv, NEW k \in Contracts, TouchStart(k)
    PROVE  BookInv'
  <1> DEFINE todo == {i \in DOMAIN orders :
                        orders[i].st = "PENDING" /\ orders[i].here /\ orders[i].k = k}
             t == [Idle EXCEPT !.pc = "loop", !.todo = todo]
  <1>1. HeapSound /\ RowsSound /\ Sums /\ orders \in Seq(OrderRecord)
    BY DEF BookInv, Sums
  <1>2. todo \subseteq DOMAIN orders /\ todo \in SUBSET Nat
    BY <1>1
  <1>3. todo # {} /\ task' = [task EXCEPT !["worker"] = t]
        /\ UNCHANGED <<heap, book, orders, seen, realized, lock, rows>>
    BY DEF TouchStart
  <1> HIDE DEF todo
  <1>4. t \in TaskRecord /\ t.pc = "loop" /\ t.todo = todo /\ t.done = 0
    BY <1>2, IdleType DEF TaskRecord
  <1> HIDE DEF t
  <1>5. HeapSound' /\ RowsSound' /\ Sums' /\ Len(heap) <= Len(heap')
    BY <1>1, <1>3, SameHeap DEF RowsSound, Sums
  <1> QED
    BY <1>2, <1>3, <1>4, <1>5, SameOrders, WorkerInv

\* The worker's next candidate, or the end of its tick.
LEMMA NextCandidate ==
    ASSUME BookInv, task["worker"].pc = "loop", Next1
    PROVE  \E u \in TaskRecord :
             /\ task' = [task EXCEPT !["worker"] = u]
             /\ u.pc \in {"idle", "loop"} /\ (u.pc = "loop" => u.todo # {}) /\ u.done = 0
             /\ u.todo \subseteq DOMAIN orders
  <1> DEFINE w == task["worker"]
             rest == w.todo \ {Candidate}
             t == [w EXCEPT !.todo = rest]
             u == IF rest = {} THEN Idle ELSE t
  <1>1. w \in TaskRecord /\ w.pc = "loop" /\ w.todo \subseteq DOMAIN orders /\ w.done = 0
        /\ task \in [Tasks -> TaskRecord] /\ "worker" \in Tasks
    BY DEF BookInv, TasksSound, TaskSound, Tasks
  <1>2. task' = [task EXCEPT !["worker"] = u]
    BY <1>1 DEF Next1
  <1>3. rest \in SUBSET Nat /\ rest \subseteq DOMAIN orders
    BY <1>1 DEF TaskRecord
  <1> HIDE DEF rest
  <1>4. t \in TaskRecord /\ t.pc = "loop" /\ t.todo = rest /\ t.done = 0
    BY <1>1, <1>3 DEF TaskRecord
  <1> HIDE DEF t, w
  <1>5. u \in TaskRecord /\ u.pc \in {"idle", "loop"} /\ (u.pc = "loop" => u.todo # {})
        /\ u.done = 0 /\ u.todo \subseteq DOMAIN orders
    BY <1>3, <1>4, IdleType
  <1> HIDE DEF u
  <1> QED
    BY <1>2, <1>5

LEMMA TouchSkipInv ==
    ASSUME BookInv, TouchSkip
    PROVE  BookInv'
  <1>1. HeapSound /\ RowsSound /\ Sums
    BY DEF BookInv
  <1>2. task["worker"].pc = "loop" /\ Next1
        /\ UNCHANGED <<heap, book, orders, seen, realized, lock, rows>>
    BY DEF TouchSkip
  <1>3. HeapSound' /\ RowsSound' /\ Sums' /\ Len(heap) <= Len(heap')
    BY <1>1, <1>2, SameHeap DEF RowsSound, Sums
  <1>4. PICK u \in TaskRecord :
          /\ task' = [task EXCEPT !["worker"] = u]
          /\ u.pc \in {"idle", "loop"} /\ (u.pc = "loop" => u.todo # {}) /\ u.done = 0
          /\ u.todo \subseteq DOMAIN orders
    BY <1>2, NextCandidate
  <1> QED
    BY <1>2, <1>3, <1>4, SameOrders, WorkerInv

\* A set of positions of a sequence has a largest one: what remains to its
\* end has a smallest, since < is well founded.
LEMMA MaxType ==
    ASSUME NEW n \in Nat, NEW S \in SUBSET (1..n), S # {}
    PROVE  Max(S) \in S
  <1> DEFINE T == {n - i : i \in S}
             R == OpToRel(<, Nat)
  <1>1. T \subseteq Nat /\ T # {}
    <2>1. \A i \in S : i \in Nat /\ i <= n /\ n - i \in Nat
      OBVIOUS
    <2> QED
      BY <2>1
  <1>2. PICK x \in T : \A y \in T : ~(<<y, x>> \in R)
    <2>1. IsWellFoundedOn(R, Nat)
      BY NatLessThanWellFounded
    <2> HIDE DEF R, T
    <2> QED
      BY <1>1, <2>1, WFMin
  <1>3. \A y \in T : ~(y < x)
    BY <1>1, <1>2 DEF OpToRel
  <1>4. PICK m \in S : x = n - m
    BY <1>2
  <1>5. \A i \in S : m >= i
    <2> SUFFICES ASSUME NEW i \in S PROVE m >= i
      OBVIOUS
    <2>1. ~(n - i < n - m)
      BY <1>3, <1>4
    <2> QED
      BY <2>1
  <1> QED
    BY <1>4, <1>5 DEF Max

LEMMA CandidateType ==
    ASSUME BookInv, task["worker"].pc = "loop"
    PROVE  /\ Candidate \in DOMAIN orders /\ Candidate \in Nat
           /\ orders[Candidate] \in OrderRecord
           /\ task["worker"] \in TaskRecord /\ task["worker"].done = 0
           /\ task["worker"].todo \subseteq DOMAIN orders
  <1>1. orders \in Seq(OrderRecord) /\ DOMAIN orders = 1..Len(orders) /\ Len(orders) \in Nat
    BY DEF BookInv, Sums
  <1>2. task["worker"].todo \subseteq DOMAIN orders /\ task["worker"].todo # {}
        /\ task["worker"] \in TaskRecord /\ task["worker"].done = 0
    BY DEF BookInv, TasksSound, TaskSound, Tasks
  <1>3. Candidate \in DOMAIN orders
    BY <1>1, <1>2, MaxType DEF Candidate
  <1> QED
    BY <1>1, <1>2, <1>3

LEMMA TouchInv ==
    ASSUME BookInv, NEW p \in Prices, Touch(p)
    PROVE  BookInv'
  <1> DEFINE i == Candidate
             o == orders[i]
             w == task["worker"]
             rest == w.todo \ {i}
             filled == [o EXCEPT !.st = "FILLED"]
             kept == [orders EXCEPT ![i] = filled]
  <1>1. HeapSound /\ RowsSound /\ Sums /\ orders \in Seq(OrderRecord) /\ realized \in Int
        /\ w.pc = "loop" /\ Free /\ o.st = "PENDING"
    BY DEF BookInv, Sums, Touch, StillPending
  <1>2. i \in DOMAIN orders /\ i \in Nat /\ o \in OrderRecord /\ w \in TaskRecord
        /\ w.todo \subseteq DOMAIN orders /\ w.done = 0
    BY <1>1, CandidateType
  <1>3. o.k \in Contracts /\ o.n \in Int \ {0} /\ o.cid \in Ids \cup {NoId}
    BY <1>2 DEF OrderRecord
  <1>4. filled \in OrderRecord /\ filled.st = "FILLED"
    BY <1>2 DEF OrderRecord
  <1>5. [orders EXCEPT ![i].st = "FILLED"] = kept /\ "worker" \in DOMAIN task
    BY DEF BookInv, TasksSound, Tasks
  <1>6. UNCHANGED <<seen, lock, rows>>
    BY DEF Touch
  <1>7. RowsSound'
    BY <1>1, <1>6 DEF RowsSound
  <1>10. rest \subseteq DOMAIN orders /\ rest \in SUBSET Nat
    BY <1>2 DEF TaskRecord
  <1> HIDE DEF filled
  <1>11. /\ kept \in Seq(OrderRecord) /\ Len(kept) = Len(orders) /\ DOMAIN kept = DOMAIN orders
         /\ kept[i] = filled /\ \A j \in DOMAIN orders : j # i => kept[j] = orders[j]
    BY <1>1, <1>2, <1>4
  <1>8. CASE Refused(o.k, o.n) \/ ~Covered(o.k, o.n, p, realized)
    <2> DEFINE t == [w EXCEPT !.pc = "mark", !.ord = i, !.todo = rest]
    <2>1. orders' = kept /\ task' = [task EXCEPT !["worker"] = t] /\ UNCHANGED <<heap, book, realized>>
      BY <1>5, <1>8 DEF Touch
    <2>2. KeepsFilled /\ Filled(orders', i)
      BY <1>1, <1>2, <1>4, <1>11, <2>1 DEF KeepsFilled, Filled
    <2> HIDE DEF i, o, w, kept, rest
    <2>3. HeapSound' /\ Len(heap) <= Len(heap')
      BY <1>1, <2>1, SameHeap
    <2>4. Sums'
      BY <1>1, <1>6, <1>11, <2>1 DEF Sums
    <2>5. t \in TaskRecord /\ t.pc = "mark" /\ t.ord = i /\ t.todo = rest /\ t.done = 0
      BY <1>2, <1>10 DEF TaskRecord
    <2> HIDE DEF t
    <2> QED
      BY <1>1, <1>6, <1>7, <1>10, <1>11, <2>1, <2>2, <2>3, <2>4, <2>5, WorkerInv
  <1>9. CASE ~(Refused(o.k, o.n) \/ ~Covered(o.k, o.n, p, realized))
    <2> DEFINE leg == Order(o.k, o.n, NoId, "FILLED", i)
               at == Fill(o.k, o.n, p).at
               re == realized + Gain(Pos(o.k), o.n, p)
               own == Own
               t == [w EXCEPT !.pc = "save", !.k = o.k, !.obj = at, !.ord = own, !.real = re,
                              !.todo = rest]
    <2>1. /\ orders' = Append(kept, leg)
          /\ heap' = Fill(o.k, o.n, p).heap
          /\ book' = [book EXCEPT ![o.k] = at]
          /\ realized' = re
      BY <1>5, <1>9 DEF Touch
    <2>12. task' = [task EXCEPT !["worker"] = t]
      BY <1>5, <1>9 DEF Touch, Saving
    <2>2. Checked(o.k, o.n)
      BY <1>1, <1>3, <1>9, RefusedChecks
    <2>3. leg \in OrderRecord /\ leg.st = "FILLED" /\ leg.of = i
      BY <1>2, <1>3, OrderType DEF Order
    <2>5. HeapSound' /\ at \in 1..Len(heap') /\ at \in Nat /\ Len(heap) <= Len(heap')
          /\ realized' \in Int /\ re \in Int
      BY <1>1, <1>3, <2>1, <2>2, FilledHeap
    <2>6. own \in Nat /\ own = Len(orders) + 1 /\ Len(orders) \in Nat
      BY <1>1 DEF Own
    <2> HIDE DEF kept, leg, own
    <2>7. /\ orders' \in Seq(OrderRecord) /\ DOMAIN orders \subseteq DOMAIN orders'
          /\ \A j \in DOMAIN orders : orders'[j] = kept[j]
          /\ own \in DOMAIN orders' /\ orders'[own] = leg
      BY <1>1, <1>11, <2>1, <2>3, <2>6
    <2>8. Sums'
      BY <1>1, <1>6, <2>5, <2>7 DEF Sums
    <2>11. KeepsFilled /\ Filled(orders', own) /\ Filled(orders', orders'[own].of)
      <3>1. orders'[i] = filled
        BY <1>2, <1>11, <2>7
      <3> QED
        BY <1>1, <1>2, <1>4, <1>11, <2>3, <2>7, <3>1 DEF KeepsFilled, Filled
    <2> HIDE DEF i, o, w, at, re, rest
    <2>9. t \in TaskRecord
      BY <1>2, <1>3, <1>10, <2>5, <2>6 DEF TaskRecord
    <2>10. t.pc = "save" /\ t.k = o.k /\ t.obj = at /\ t.todo = rest /\ t.ord = own
      BY <1>2 DEF TaskRecord
    <2> HIDE DEF t
    <2>13. t.todo \subseteq DOMAIN orders'
      BY <1>10, <2>7, <2>10
    <2> QED
      BY <1>1, <1>3, <1>6, <1>7, <2>5, <2>8, <2>9, <2>10, <2>11, <2>12, <2>13, WorkerInv
  <1> QED
    BY <1>8, <1>9

-----------------------------------------------------------------------------
(* Restart and reading back *)

\* The rows of a finite set of contracts can be numbered.
LEMMA RowOrder ==
    ASSUME NEW ks \in SUBSET Contracts
    PROVE  /\ Cardinality(ks) \in Nat
           /\ \E f \in [1..Cardinality(ks) -> ks] :
                \A k \in ks : \E i \in 1..Cardinality(ks) : f[i] = k
  <1>1. IsFiniteSet(ks)
    BY FS_Subset, BookConstants
  <1>2. Cardinality(ks) \in Nat /\ ExistsBijection(1..Cardinality(ks), ks)
    BY <1>1, FS_CardinalityType
  <1> QED
    BY <1>2 DEF ExistsBijection, Bijection, Surjection

\* What a read of the rows puts behind the objects that are there.
LEMMA LoadedSound ==
    ASSUME RowsSound, NEW h, SoundHeap(h)
    PROVE  /\ SoundHeap(Loaded(h).heap) /\ Len(h) <= Len(Loaded(h).heap)
           /\ Loaded(h).book \in [Contracts -> 0..Len(Loaded(h).heap)]
  <1> DEFINE ks == rows.known
             n == Cardinality(ks)
             row == CHOOSE f \in [1..n -> ks] : \A k \in ks : \E i \in 1..n : f[i] = k
             new == [i \in 1..n |-> rows.pos[row[i]]]
             all == h \o new
             map == [k \in Contracts |->
                       IF k \in ks THEN Len(h) + (CHOOSE i \in 1..n : row[i] = k) ELSE 0]
  <1>1. ks \in SUBSET Contracts
    BY DEF RowsSound
  <1>2. n \in Nat /\ row \in [1..n -> ks] /\ \A k \in ks : \E i \in 1..n : row[i] = k
    BY <1>1, RowOrder
  <1>3. Loaded(h).heap = all /\ Loaded(h).book = map
    BY DEF Loaded
  <1> HIDE DEF row
  <1>4. \A k \in ks : (CHOOSE i \in 1..n : row[i] = k) \in 1..n
    BY <1>2
  <1>5. \A i \in 1..n : row[i] \in Contracts /\ Sound(rows.pos[row[i]]) /\ rows.pos[row[i]] \in PosRecord
    BY <1>1, <1>2 DEF RowsSound
  <1>6. new \in Seq(PosRecord) /\ Len(new) = n /\ \A i \in 1..n : Sound(new[i])
    BY <1>2, <1>5
  <1> HIDE DEF ks, n, new
  <1>7. h \in Seq(PosRecord) /\ Len(h) \in Nat /\ \A i \in 1..Len(h) : Sound(h[i])
    BY DEF SoundHeap
  <1>8. all \in Seq(PosRecord) /\ Len(all) = Len(h) + n
    BY <1>2, <1>6, <1>7
  <1>9. \A i \in DOMAIN all : Sound(all[i])
    <2> SUFFICES ASSUME NEW i \in DOMAIN all PROVE Sound(all[i])
      OBVIOUS
    <2>1. i \in 1..(Len(h) + n)
      BY <1>8
    <2>2. CASE i <= Len(h)
      <3>1. all[i] = h[i] /\ i \in 1..Len(h)
        BY <1>2, <1>6, <1>7, <2>1, <2>2
      <3> QED
        BY <1>7, <3>1
    <2>3. CASE ~(i <= Len(h))
      <3>1. all[i] = new[i - Len(h)] /\ i - Len(h) \in 1..n
        BY <1>2, <1>6, <1>7, <2>1, <2>3
      <3> QED
        BY <1>6, <3>1
    <2> QED
      BY <2>2, <2>3
  <1> HIDE DEF all
  <1>10. map \in [Contracts -> 0..Len(all)]
    <2>1. \A k \in ks : Len(h) + (CHOOSE i \in 1..n : row[i] = k) \in 0..Len(all)
      BY <1>2, <1>4, <1>7, <1>8
    <2>2. 0 \in 0..Len(all)
      BY <1>2, <1>7, <1>8
    <2> QED
      BY <2>1, <2>2
  <1> HIDE DEF map
  <1>11. Len(h) <= Len(all) /\ SoundHeap(all)
    BY <1>2, <1>7, <1>8, <1>9 DEF SoundHeap
  <1> QED
    BY <1>3, <1>10, <1>11

\* A read leaves the rows and notes which objects were made of them.
LEMMA ReadRows ==
    ASSUME RowsSound, HeapSound', rows' = [rows EXCEPT !.obj = book']
    PROVE  RowsSound'
  <1>1. book' \in [Contracts -> Nat]
    BY DEF HeapSound, SoundHeap
  <1> QED
    BY <1>1 DEF RowsSound

LEMMA RebornType ==
    ASSUME Sums, NEW i \in DOMAIN orders, NEW listed \in BOOLEAN
    PROVE  Reborn(i, listed) \in OrderRecord
  <1> DEFINE o == orders[i]
             st == IF o.row = "NONE" THEN "LOST" ELSE o.row
             legSaved == \E j \in DOMAIN orders : j # i /\ orders[j].of = i /\ orders[j].row = "FILLED"
             here == listed /\ o.row # "NONE"
             torn == o.torn \/ (o.row = "PENDING" /\ legSaved)
  <1>1. o \in OrderRecord
    BY DEF Sums
  <1>2. Reborn(i, listed) = [o EXCEPT !.st = st, !.here = here, !.torn = torn]
    BY DEF Reborn
  <1>3. st \in {"PENDING", "FILLED", "CANCELLED", "LOST"} /\ here \in BOOLEAN /\ torn \in BOOLEAN
    BY <1>1 DEF OrderRecord
  <1> HIDE DEF o, st, here, torn
  <1> QED
    BY <1>1, <1>2, <1>3 DEF OrderRecord

LEMMA RestartInv ==
    ASSUME BookInv, Restart
    PROVE  BookInv'
  <1>1. RowsSound /\ Sums /\ orders \in Seq(OrderRecord)
    BY DEF BookInv, Sums
  <1>2. PICK positions \in BOOLEAN, portfolio \in BOOLEAN, list \in BOOLEAN :
          /\ heap' = IF positions THEN Loaded(<<>>).heap ELSE <<>>
          /\ book' = IF positions THEN Loaded(<<>>).book ELSE [k \in Contracts |-> 0]
          /\ realized' = IF portfolio THEN rows.real ELSE 0
          /\ orders' = [i \in DOMAIN orders |-> Reborn(i, list)]
    BY DEF Restart
  <1>10. rows' = [rows EXCEPT !.obj = book'] /\ seen' = [c \in Ids |-> 0]
         /\ task' = [q \in Tasks |-> Idle] /\ lock' = "none"
    BY DEF Restart
  <1>3. HeapSound'
    <2>1. SoundHeap(<<>>)
      BY DEF SoundHeap
    <2>2. CASE positions
      BY <1>1, <1>2, <2>1, <2>2, LoadedSound DEF HeapSound, SoundHeap
    <2>3. CASE ~positions
      BY <1>2, <2>1, <2>3 DEF HeapSound
    <2> QED
      BY <2>2, <2>3
  <1>4. RowsSound'
    BY <1>1, <1>3, <1>10, ReadRows
  <1>5. orders' \in Seq(OrderRecord)
    <2>1. ASSUME NEW i \in DOMAIN orders PROVE Reborn(i, list) \in OrderRecord
      BY <1>1, RebornType
    <2>2. DOMAIN orders = 1..Len(orders) /\ Len(orders) \in Nat
      BY <1>1
    <2>3. orders' \in [DOMAIN orders -> OrderRecord]
      BY <1>2, <2>1
    <2> QED
      BY <2>2, <2>3
  <1>6. Sums'
    <2>1. realized' \in Int
      BY <1>1, <1>2 DEF RowsSound
    <2> QED
      BY <1>5, <1>10, <2>1 DEF Sums
  <1>7. task' \in [Tasks -> TaskRecord]
    BY <1>10, IdleType
  <1>8. ASSUME NEW q \in Tasks PROVE TaskSound(q)' /\ task'[q] = Idle
    BY <1>10, <1>8, IdleSound
  <1>9. LockSound'
    BY <1>8, <1>10, IdleType, BookConstants DEF LockSound, Tasks
  <1> QED
    BY <1>3, <1>4, <1>6, <1>7, <1>8, <1>9 DEF BookInv, TasksSound

LEMMA HydrateInv ==
    ASSUME BookInv, Hydrate
    PROVE  BookInv'
  <1>1. RowsSound /\ Sums /\ HeapSound /\ SoundHeap(heap) /\ rows.real \in Int
    BY DEF BookInv, RowsSound, HeapSound
  <1>2. /\ heap' = Loaded(heap).heap /\ book' = Loaded(heap).book
        /\ realized' \in {realized, rows.real} /\ rows' = [rows EXCEPT !.obj = book']
        /\ Free /\ UNCHANGED <<orders, seen, lock, task>>
    BY DEF Hydrate
  <1>3. HeapSound' /\ Len(heap) <= Len(heap')
    BY <1>1, <1>2, LoadedSound DEF HeapSound, SoundHeap
  <1>4. RowsSound'
    BY <1>1, <1>2, <1>3, ReadRows
  <1>5. Sums' /\ KeepsFilled
    BY <1>1, <1>2, SameOrders DEF Sums
  <1> QED
    BY <1>2, <1>3, <1>4, <1>5, OutsideInv

-----------------------------------------------------------------------------
(* The theorems *)

LEMMA InitInv == BookInit => BookInv
  <1> SUFFICES ASSUME BookInit PROVE BookInv
    OBVIOUS
  <1>1. HeapSound
    BY DEF BookInit, HeapSound, SoundHeap
  <1>2. Flat \in PosRecord
    BY FlatSound DEF Sound
  <1>3. RowsSound
    BY <1>2, FlatSound DEF BookInit, NoRows, RowsSound
  <1>4. task = [q \in Tasks |-> Idle] /\ lock = "none"
    BY DEF BookInit
  <1>5. TasksSound
    BY <1>4, IdleType DEF TasksSound, TaskSound
  <1>6. LockSound
    BY <1>4, IdleType, BookConstants DEF LockSound, Tasks
  <1>7. Sums
    BY DEF BookInit, Sums
  <1> QED
    BY <1>1, <1>3, <1>5, <1>6, <1>7 DEF BookInv

\* Every step of every coroutine keeps the book sound.
LEMMA StepInv == BookInv /\ [BookNext]_bookVars => BookInv'
  <1> SUFFICES ASSUME BookInv, [BookNext]_bookVars PROVE BookInv'
    OBVIOUS
  <1>1. ASSUME NEW q \in Clients, NEW o \in Payloads, Place(q, o) PROVE BookInv'
    BY <1>1, PlaceInv
  <1>2. ASSUME NEW q \in Clients, Reject(q) \/ Rest(q) PROVE BookInv'
    BY <1>2, RejectInv, RestInv
  <1>3. ASSUME NEW q \in Clients, NEW k \in Contracts, SquareOff(q, k) PROVE BookInv'
    BY <1>3, SquareOffInv
  <1>4. ASSUME NEW q \in Clients, NEW p \in Prices, FillNow(q, p) \/ Exit(q, p) PROVE BookInv'
    BY <1>4, FillNowInv, ExitInv
  <1>5. ASSUME NEW q \in Tasks, SaveOrder(q) \/ SavePosition(q) \/ SavePortfolio(q) PROVE BookInv'
    BY <1>5, SaveOrderInv, SavePositionInv, SavePortfolioInv
  <1>6. ASSUME NEW i \in DOMAIN orders, Cancel(i) PROVE BookInv'
    BY <1>6, CancelInv
  <1>7. ASSUME Reset \/ Restart \/ Hydrate PROVE BookInv'
    BY <1>7, ResetInv, RestartInv, HydrateInv
  <1>8. ASSUME NEW k \in Contracts, TouchStart(k) PROVE BookInv'
    BY <1>8, TouchStartInv
  <1>9. ASSUME NEW k \in Contracts, NEW p \in Prices, Mark(k, p) PROVE BookInv'
    BY <1>9, MarkInv
  <1>10. ASSUME TouchSkip \/ SaveTouched PROVE BookInv'
    BY <1>10, TouchSkipInv, SaveTouchedInv
  <1>11. ASSUME NEW p \in Prices, Touch(p) PROVE BookInv'
    BY <1>11, TouchInv
  <1>12. CASE UNCHANGED bookVars
    BY <1>12 DEF bookVars, BookInv, HeapSound, SoundHeap, RowsSound, TasksSound, TaskSound,
                 LockSound, Sums, Checked, Open, Pos, Filled
  <1> QED
    BY <1>1, <1>2, <1>3, <1>4, <1>5, <1>6, <1>7, <1>8, <1>9, <1>10, <1>11, <1>12 DEF BookNext

LEMMA BookInvariant == BookSpec => []BookInv
  BY InitInv, StepInv, PTL DEF BookSpec

\* Margin is never negative nor locked by a flat position, and the lock is held
\* by exactly the request inside place_order or square_off_position.
THEOREM BookIsSound == BookSpec => []BookTypeOK
  <1>1. BookInv => BookTypeOK
    BY DEF BookInv, HeapSound, SoundHeap, Sound, PosRecord, LockSound, BookTypeOK
  <1> QED
    BY <1>1, BookInvariant, PTL

\* No contract is held beyond the exposure limit, although the limit is checked
\* before the quote is awaited and rows come back from the database.
THEOREM ExposureIsBounded == BookSpec => []ExposureBounded
  <1>1. BookInv => ExposureBounded
    BY PosSound DEF BookInv, Sound, ExposureBounded
  <1> QED
    BY <1>1, BookInvariant, PTL
=============================================================================
