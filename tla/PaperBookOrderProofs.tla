------------------------ MODULE PaperBookOrderProofs ------------------------
(***************************************************************************)
(* Theorems of PaperBook about its orders, the number of its positions,    *)
(* the margin they lock, the legs they are the net of and the rows they    *)
(* are read back from.  They rest on BookInv, the inductive invariant of   *)
(* PaperBookProofs.                                                        *)
(***************************************************************************)
EXTENDS PaperBookProofs, FiniteSums

-----------------------------------------------------------------------------
(* The inductive invariant *)

Live(o) == o.cid # NoId /\ o.here /\ o.st \in {"PENDING", "FILLED"}

\* The shard remembers the order of a client id, and none yet for the id of
\* an order that waits for its quote.
IdsSound ==
    "restart" \notin Acts =>
        /\ \A i \in DOMAIN orders : Live(orders[i]) => seen[orders[i].cid] = i
        /\ \A q \in Clients : task[q].pc = "quote" /\ task[q].cid # NoId => seen[task[q].cid] = 0

Empty == \A k \in Contracts : book[k] = 0

\* A place is left for the position an awaited quote will open, and the rows
\* an empty shard is read back from hold what the worker saved after a reset.
OpenSound ==
    "restart" \notin Acts /\ MaxOpen # 0 =>
        /\ Cardinality(Open) <= MaxOpen
        /\ \A q \in Clients : task[q].pc = "quote" /\ task[q].k \notin Open =>
             Cardinality(Open) < MaxOpen
        /\ \A q \in Clients : task[q].pc = "save" => ~Empty
        /\ Empty => Cardinality(rows.known) <= 1
        /\ Empty /\ task["worker"].pc = "save" /\ task["worker"].done < 2 => rows.known = {}

OrderInv == IdsSound /\ OpenSound

-----------------------------------------------------------------------------
(* What a step makes of the open positions *)

LEMMA OpenFinite ==
    /\ IsFiniteSet(Open) /\ Cardinality(Open) \in Nat
    /\ \A S \in SUBSET Open : Cardinality(S) \in Nat /\ Cardinality(S) <= Cardinality(Open)
    /\ \A k : Cardinality(Open \cup {k}) <= Cardinality(Open) + 1
  <1>1. IsFiniteSet(Open)
    BY FS_Subset, BookConstants DEF Open
  <1>2. Cardinality(Open) \in Nat
    BY <1>1, FS_CardinalityType
  <1>3. ASSUME NEW S \in SUBSET Open
        PROVE  Cardinality(S) \in Nat /\ Cardinality(S) <= Cardinality(Open)
    BY <1>1, FS_Subset, FS_CardinalityType
  <1>4. ASSUME NEW k PROVE Cardinality(Open \cup {k}) <= Cardinality(Open) + 1
    BY <1>1, <1>2, FS_AddElement
  <1> QED
    BY <1>1, <1>2, <1>3, <1>4

\* A fill opens its own contract at most, and none where it had a position:
\* objects that change were open before, whoever else refers to them.
LEMMA FillOpens ==
    ASSUME HeapSound, NEW k \in Contracts, NEW n \in Int \ {0}, NEW p \in Prices,
           heap' = Fill(k, n, p).heap, book' = [book EXCEPT ![k] = Fill(k, n, p).at]
    PROVE  /\ Open' \subseteq Open \cup {k}
           /\ k \in Open => Open' \subseteq Open
           /\ book'[k] # 0
  <1>0. Size(Pos(k).qty) \in Int /\ Size(n) \in Int
    BY PosSound, SizeType DEF Sound, PosRecord
  <1> DEFINE x == Pos(k)
             f == Fill(k, n, p)
             Kept(h) == h = heap \/ (x.qty # 0 /\ \E z : h = [heap EXCEPT ![book[k]] = z])
  <1>1. /\ x.qty \in Int /\ Sound(x) /\ Len(heap) \in Nat /\ heap \in Seq(PosRecord)
        /\ book \in [Contracts -> 0..Len(heap)] /\ n \in Int
    BY PosSound DEF HeapSound, SoundHeap, Sound, PosRecord
  <1>2. book'[k] = f.at /\ \A j \in Contracts \ {k} : book'[j] = book[j]
    BY <1>1
  <1>3. x.qty # 0 => book[k] \in 1..Len(heap) /\ x = heap[book[k]]
    BY HeldType DEF Pos, Flat
  <1>4. ASSUME NEW y, f = [heap |-> [heap EXCEPT ![book[k]] = y], at |-> book[k]], x.qty # 0
        PROVE  /\ f.at # 0
               /\ \A j \in Contracts \ {k} : Pos(j)' = Pos(j) \/ Pos(j) = x
    <2>1. f.at = book[k] /\ heap' = [heap EXCEPT ![book[k]] = y]
      BY <1>4
    <2>2. ASSUME NEW j \in Contracts \ {k} PROVE Pos(j)' = Pos(j) \/ Pos(j) = x
      <3>1. book'[j] = book[j] /\ book[j] \in 0..Len(heap)
        BY <1>1, <1>2
      <3> QED
        BY <1>1, <1>3, <1>4, <2>1, <3>1 DEF Pos
    <2> QED
      BY <1>3, <1>4, <2>1, <2>2
  <1>5. ASSUME NEW h \in Seq(PosRecord), NEW y, Len(h) = Len(heap),
               f = [heap |-> Append(h, y), at |-> Len(h) + 1],
               Kept(h)
        PROVE  /\ f.at # 0
               /\ \A j \in Contracts \ {k} : Pos(j)' = Pos(j) \/ (x.qty # 0 /\ Pos(j) = x)
    <2>1. f.at = Len(heap) + 1 /\ heap' = Append(h, y)
      BY <1>5
    <2>2. ASSUME NEW j \in Contracts \ {k}
          PROVE  Pos(j)' = Pos(j) \/ (x.qty # 0 /\ Pos(j) = x)
      <3>1. book'[j] = book[j] /\ book[j] \in 0..Len(heap)
        BY <1>1, <1>2
      <3>2. CASE book[j] = 0
        BY <3>1, <3>2 DEF Pos
      <3>3. CASE book[j] # 0
        <4>1. heap'[book[j]] = h[book[j]] /\ Pos(j)' = h[book[j]] /\ Pos(j) = heap[book[j]]
          BY <1>1, <1>5, <2>1, <3>1, <3>3 DEF Pos
        <4> QED
          BY <1>1, <1>3, <1>5, <3>1, <3>3, <4>1
      <3> QED
        BY <3>2, <3>3
    <2> QED
      BY <1>1, <2>1, <2>2
  <1>6. /\ f.at # 0
        /\ \A j \in Contracts \ {k} : Pos(j)' = Pos(j) \/ (x.qty # 0 /\ Pos(j) = x)
    <2>1. CASE x.qty = 0
      <3>1. f = [heap |-> Append(heap, Opened(n, p)), at |-> Len(heap) + 1]
        BY <2>1 DEF Fill
      <3>2. Kept(heap)
        OBVIOUS
      <3> HIDE DEF f, x, Kept
      <3> QED
        BY <1>1, <1>5, <3>1, <3>2
    <2>2. CASE x.qty # 0 /\ Opposed(x.qty, n) /\ Size(n) > Size(x.qty)
      <3> DEFINE h == [heap EXCEPT ![book[k]] = Closed(x, p)]
      <3>1. Size(x.qty) \in Int /\ Size(n) \in Int
        BY <1>0
      <3>2. f = [heap |-> Append(h, Opened(x.qty + n, p)), at |-> Len(h) + 1]
        BY <2>2, <3>1 DEF Fill
      <3>3. h \in Seq(PosRecord) /\ Len(h) = Len(heap)
        BY <1>1, <1>3, <2>2, ClosedSound, PutSound DEF HeapSound, SoundHeap
      <3>4. Kept(h)
        BY <2>2
      <3> HIDE DEF f, x, h, Kept
      <3> QED
        BY <1>1, <1>5, <3>2, <3>3, <3>4
    <2>3. CASE x.qty # 0 /\ ~(Opposed(x.qty, n) /\ Size(n) > Size(x.qty))
      <3>1. Size(x.qty) \in Int /\ Size(n) \in Int
        BY <1>0
      <3>2. \E y : f = [heap |-> [heap EXCEPT ![book[k]] = y], at |-> book[k]]
        <4>1. CASE ~Opposed(x.qty, n)
          BY <2>3, <4>1 DEF Fill
        <4>2. CASE Opposed(x.qty, n) /\ Size(n) < Size(x.qty)
          BY <2>3, <4>2 DEF Fill
        <4>3. CASE Opposed(x.qty, n) /\ Size(n) = Size(x.qty)
          BY <2>3, <4>3, <3>1 DEF Fill
        <4> QED
          BY <2>3, <3>1, <4>1, <4>2, <4>3
      <3> HIDE DEF f, x
      <3> QED
        BY <1>4, <2>3, <3>2
    <2> QED
      BY <2>1, <2>2, <2>3
  <1> HIDE DEF f
  <1> QED
    BY <1>2, <1>6 DEF Open

\* Marking an object with a price moves, opens and closes nothing.
LEMMA MarkMoves ==
    ASSUME HeapSound, NEW i, NEW p, heap' = [heap EXCEPT ![i].ltp = p], book' = book
    PROVE  \A k \in Contracts : Pos(k)'.qty = Pos(k).qty
  <1>1. heap \in Seq(PosRecord) /\ book \in [Contracts -> 0..Len(heap)]
    BY DEF HeapSound, SoundHeap
  <1>2. ASSUME NEW k \in Contracts PROVE Pos(k)'.qty = Pos(k).qty
    <2>1. CASE book[k] = 0
      BY <2>1 DEF Pos
    <2>2. CASE book[k] # 0
      <3>1. book[k] \in DOMAIN heap /\ Pos(k)' = heap'[book[k]] /\ Pos(k) = heap[book[k]]
            /\ heap[book[k]] \in PosRecord
        BY <1>1, <2>2 DEF Pos
      <3>2. heap'[book[k]] = IF book[k] = i THEN [heap[i] EXCEPT !.ltp = p] ELSE heap[book[k]]
        BY <1>1, <3>1
      <3> QED
        BY <3>1, <3>2 DEF PosRecord
    <2> QED
      BY <2>1, <2>2
  <1> QED
    BY <1>2

LEMMA MarkOpens ==
    ASSUME HeapSound, NEW i, NEW p, heap' = [heap EXCEPT ![i].ltp = p], book' = book
    PROVE  Open' = Open
  BY MarkMoves DEF Open

LEMMA SameOpen == ASSUME UNCHANGED <<heap, book>> PROVE Open' = Open
  BY DEF Open, Pos

-----------------------------------------------------------------------------
(* Who is inside place_order or square_off_position *)

Inside == {"quote", "exit", "save"}

LEMMA NobodyInside ==
    ASSUME BookInv, Free
    PROVE  \A q \in Clients : task[q].pc \notin Inside
  BY BookConstants DEF BookInv, LockSound, Free, Inside, Tasks

LEMMA AloneInside ==
    ASSUME BookInv, NEW q \in Clients, task[q].pc \in Inside
    PROVE  \A r \in Clients \ {q} : task[r].pc \notin Inside
  BY DEF BookInv, LockSound, Inside

LEMMA Released ==
    ASSUME BookInv, NEW q \in Clients, task[q].pc \in Inside, Release(q)
    PROVE  /\ \A r \in Clients : task'[r].pc \notin Inside
           /\ task'["worker"] = task["worker"]
  <1>1. task \in [Tasks -> TaskRecord] /\ q \in Tasks /\ q # "worker" /\ "worker" \in Tasks
    BY BookConstants DEF BookInv, TasksSound, Tasks
  <1>2. task' = [task EXCEPT ![q] = Idle]
    BY DEF Release
  <1> QED
    BY <1>1, <1>2, AloneInside, IdleType DEF Tasks, Inside

LEMMA CidType ==
    ASSUME BookInv
    PROVE  /\ \A q \in Clients : task[q].cid \in Ids \cup {NoId} /\ task[q].pc # "loop"
           /\ \A q \in Clients : task[q].pc = "quote" =>
                task[q].k \in Contracts /\ task[q].n \in Int \ {0} /\ Checked(task[q].k, task[q].n)
           /\ \A q \in Clients : task[q].pc = "exit" => task[q].k \in Open
           /\ orders \in Seq(OrderRecord) /\ Len(orders) \in Nat /\ DOMAIN orders = 1..Len(orders)
           /\ seen \in [Ids -> Nat] /\ HeapSound /\ realized \in Int
           /\ rows.known \in SUBSET Contracts
           /\ task \in [Tasks -> TaskRecord] /\ Clients \subseteq Tasks /\ "worker" \in Tasks
           /\ "worker" \notin Clients
  <1>1. Clients \subseteq Tasks /\ "worker" \in Tasks /\ "worker" \notin Clients
    BY BookConstants DEF Tasks
  <1>2. task \in [Tasks -> TaskRecord] /\ \A q \in Tasks : TaskSound(q)
    BY DEF BookInv, TasksSound
  <1>3. ASSUME NEW q \in Clients
        PROVE  /\ task[q].cid \in Ids \cup {NoId} /\ task[q].pc # "loop" /\ task[q].n \in Int
               /\ task[q].pc = "quote" => Checked(task[q].k, task[q].n)
               /\ task[q].pc = "exit" => task[q].k \in Open
    BY <1>1, <1>2 DEF TaskSound, TaskRecord
  <1>4. ASSUME NEW q \in Clients, task[q].pc = "quote"
        PROVE  task[q].k \in Contracts /\ task[q].n \in Int \ {0}
    BY <1>3, <1>4 DEF Checked
  <1>5. orders \in Seq(OrderRecord) /\ Len(orders) \in Nat /\ DOMAIN orders = 1..Len(orders)
    BY DEF BookInv, Sums
  <1>6. /\ seen \in [Ids -> Nat] /\ HeapSound /\ realized \in Int
        /\ rows.known \in SUBSET Contracts
    BY DEF BookInv, Sums, RowsSound
  <1> QED
    BY <1>1, <1>2, <1>3, <1>4, <1>5, <1>6

\* No room was needed, or the room that the check found is still there.
LEMMA RoomForOne ==
    ASSUME NEW k, Open' \subseteq Open \cup {k}, k \in Open => Open' \subseteq Open,
           Cardinality(Open) <= MaxOpen, k \notin Open => Cardinality(Open) < MaxOpen
    PROVE  Cardinality(Open') <= MaxOpen
  <1>1. MaxOpen \in Nat /\ Cardinality(Open) \in Nat /\ IsFiniteSet(Open)
    BY BookConstants, OpenFinite
  <1>2. CASE k \in Open
    <2>1. Cardinality(Open') \in Nat /\ Cardinality(Open') <= Cardinality(Open)
      BY <1>2, OpenFinite
    <2> QED
      BY <1>1, <2>1
  <1>3. CASE k \notin Open
    <2>1. IsFiniteSet(Open \cup {k}) /\ Cardinality(Open \cup {k}) = Cardinality(Open) + 1
      BY <1>1, <1>3, FS_AddElement
    <2>2. Cardinality(Open') \in Nat /\ Cardinality(Open') <= Cardinality(Open \cup {k})
      BY <2>1, FS_Subset, FS_CardinalityType
    <2> QED
      BY <1>1, <1>3, <2>1, <2>2
  <1> QED
    BY <1>2, <1>3

\* An order that is added is the one its client id now stands for.
LEMMA AddedOrder ==
    ASSUME BookInv, IdsSound, NEW o \in OrderRecord, NEW kept \in Seq(OrderRecord),
           Len(kept) = Len(orders), orders' = Append(kept, o),
           \A i \in DOMAIN orders : Live(kept[i]) => Live(orders[i]) /\ kept[i].cid = orders[i].cid,
           o.cid # NoId => seen[o.cid] = 0,
           seen' = IF o.cid = NoId THEN seen ELSE [seen EXCEPT ![o.cid] = Own]
    PROVE  "restart" \notin Acts =>
             \A i \in DOMAIN orders' : Live(orders'[i]) => seen'[orders'[i].cid] = i
  <1> SUFFICES ASSUME "restart" \notin Acts, NEW i \in DOMAIN orders', Live(orders'[i])
               PROVE  seen'[orders'[i].cid] = i
    OBVIOUS
  <1>1. /\ orders \in Seq(OrderRecord) /\ Len(orders) \in Nat /\ DOMAIN orders = 1..Len(orders)
        /\ seen \in [Ids -> Nat] /\ Own = Len(orders) + 1
    BY CidType DEF Own
  <1>2. DOMAIN orders' = 1..(Len(orders) + 1) /\ i \in Nat
    BY <1>1
  <1>3. CASE i = Len(orders) + 1
    <2>0. orders'[i] = o
      BY <1>1, <1>3
    <2>1. o.cid # NoId /\ o.cid \in Ids
      BY <2>0 DEF Live, OrderRecord
    <2> QED
      BY <1>1, <1>3, <2>0, <2>1
  <1>4. CASE i # Len(orders) + 1
    <2>1. i \in DOMAIN orders /\ orders'[i] = kept[i]
      BY <1>1, <1>2, <1>4
    <2>2. Live(orders[i]) /\ kept[i].cid = orders[i].cid /\ seen[orders[i].cid] = i
      BY <2>1 DEF IdsSound
    <2>3. orders[i] \in OrderRecord /\ i # 0
      BY <1>1, <2>1
    <2>4. orders[i].cid \in Ids
      BY <2>2, <2>3 DEF Live, OrderRecord
    <2>5. o.cid # NoId => orders[i].cid # o.cid
      BY <2>2, <2>3
    <2> QED
      BY <1>1, <2>1, <2>2, <2>4, <2>5
  <1> QED
    BY <1>3, <1>4

-----------------------------------------------------------------------------
(* The steps of a request *)

LEMMA PlaceOrder ==
    ASSUME BookInv, OrderInv, NEW q \in Clients, NEW o \in Payloads, Place(q, o)
    PROVE  OrderInv'
  <1>1. /\ task[q].pc = "idle" /\ Free /\ ~Refused(o.k, o.n)
        /\ o.cid # NoId => seen[o.cid] = 0
        /\ UNCHANGED <<heap, book, orders, seen, realized, rows>>
    BY DEF Place
  <1>2. /\ task'[q].pc = "quote" /\ task'[q].k = o.k /\ task'[q].cid = o.cid
        /\ \A r \in Tasks \ {q} : task'[r] = task[r]
        /\ q # "worker" /\ "worker" \in Tasks /\ Clients \subseteq Tasks
    BY CidType DEF Place, Idle
  <1>3. \A r \in Clients : task[r].pc \notin Inside
    BY <1>1, NobodyInside
  <1>5. IdsSound'
    BY <1>1, <1>2, <1>3 DEF OrderInv, IdsSound, Inside
  <1>6. Open' = Open
    BY <1>1, SameOpen
  <1>7. o.k \notin Open => Cardinality(Open) < MaxOpen
    BY <1>1, OpenFinite, BookConstants DEF Refused
  <1>8. OpenSound'
    BY <1>1, <1>2, <1>3, <1>6, <1>7 DEF OrderInv, OpenSound, Empty, Inside
  <1> QED
    BY <1>5, <1>8 DEF OrderInv

LEMMA ReleaseOrder ==
    ASSUME BookInv, OrderInv, NEW q \in Clients, task[q].pc \in {"quote", "exit"}, Release(q),
           UNCHANGED <<book, rows>>, Open' = Open, IdsSound'
    PROVE  OrderInv'
  <1>1. /\ \A r \in Clients : task'[r].pc \notin Inside
        /\ task'["worker"] = task["worker"]
    BY Released DEF Inside
  <1>3. OpenSound'
    BY <1>1 DEF OrderInv, OpenSound, Empty, Inside
  <1> QED
    BY <1>3 DEF OrderInv

LEMMA RejectOrder ==
    ASSUME BookInv, OrderInv, NEW q \in Clients, Reject(q)
    PROVE  OrderInv'
  <1>1. task[q].pc = "quote" /\ Release(q) /\ UNCHANGED <<heap, book, orders, seen, realized, rows>>
    BY DEF Reject
  <1>2. \A r \in Clients : task'[r].pc \notin Inside
    BY <1>1, Released DEF Inside
  <1>3. IdsSound'
    BY <1>1, <1>2 DEF OrderInv, IdsSound, Inside
  <1> QED
    BY <1>1, <1>3, SameOpen, ReleaseOrder

LEMMA RestOrder ==
    ASSUME BookInv, OrderInv, NEW q \in Clients, Rest(q)
    PROVE  OrderInv'
  <1> DEFINE t == task[q]
             o == Order(t.k, t.n, t.cid, "PENDING", 0)
  <1>1. /\ t.pc = "quote" /\ Release(q) /\ UNCHANGED <<heap, book, realized, rows>>
        /\ orders' = Append(orders, o) /\ seen' = Remember(t.cid, "PENDING")
    BY DEF Rest
  <1>2. \A r \in Clients : task'[r].pc \notin Inside
    BY <1>1, Released DEF Inside
  <1>3. o \in OrderRecord /\ o.cid = t.cid /\ orders \in Seq(OrderRecord)
    BY <1>1, CidType, OrderType DEF Order
  <1>4. "restart" \notin Acts =>
          \A i \in DOMAIN orders' : Live(orders'[i]) => seen'[orders'[i].cid] = i
    <2>1. "restart" \notin Acts /\ o.cid # NoId => seen[o.cid] = 0
      BY <1>1, <1>3 DEF OrderInv, IdsSound
    <2>2. seen' = IF o.cid = NoId THEN seen ELSE [seen EXCEPT ![o.cid] = Own]
      BY <1>1, <1>3 DEF Remember
    <2>3. CASE "restart" \notin Acts
      <3> HIDE DEF o
      <3> QED
        BY <1>1, <1>3, <2>1, <2>2, <2>3, AddedOrder DEF OrderInv
    <2> QED
      BY <2>3
  <1>5. IdsSound'
    BY <1>2, <1>4 DEF IdsSound, Inside
  <1> QED
    BY <1>1, <1>5, SameOpen, ReleaseOrder

\* A fill of the request's own order or of its exit.
LEMMA ExecuteOrder ==
    ASSUME BookInv, OrderInv, NEW q \in Clients, task[q].pc \in {"quote", "exit"},
           NEW k \in Contracts, NEW n \in Int \ {0}, NEW p \in Prices,
           k = task[q].k, Execute(q, k, n, p), UNCHANGED rows,
           NEW o \in OrderRecord, o.st = "FILLED", orders' = Append(orders, o),
           o.cid # NoId => task[q].pc = "quote" /\ o.cid = task[q].cid,
           seen' = IF o.cid = NoId THEN seen ELSE [seen EXCEPT ![o.cid] = Own]
    PROVE  OrderInv'
  <1>1. /\ heap' = Fill(k, n, p).heap /\ book' = [book EXCEPT ![k] = Fill(k, n, p).at]
        /\ task'[q].pc = "save"
        /\ \A r \in Tasks \ {q} : task'[r] = task[r]
        /\ q # "worker" /\ "worker" \in Tasks /\ Clients \subseteq Tasks
    BY CidType DEF Execute, Saving
  <1>2. \A r \in Clients \ {q} : task'[r].pc \notin Inside
    BY <1>1, AloneInside DEF Inside
  <1>4. IdsSound'
    <2>1. CASE "restart" \notin Acts
      <3>1. o.cid # NoId => seen[o.cid] = 0
        BY <2>1 DEF OrderInv, IdsSound
      <3>2. \A i \in DOMAIN orders' : Live(orders'[i]) => seen'[orders'[i].cid] = i
        BY <2>1, <3>1, CidType, AddedOrder DEF OrderInv
      <3> QED
        BY <1>1, <1>2, <3>2 DEF IdsSound, Inside
    <2> QED
      BY <2>1 DEF IdsSound
  <1>5. Open' \subseteq Open \cup {k} /\ (k \in Open => Open' \subseteq Open) /\ ~Empty'
    BY <1>1, CidType, FillOpens DEF Empty
  <1>6. OpenSound'
    <2>1. CASE "restart" \notin Acts /\ MaxOpen # 0
      <3>1. Cardinality(Open) <= MaxOpen /\ (k \notin Open => Cardinality(Open) < MaxOpen)
        BY <2>1, CidType DEF OrderInv, OpenSound
      <3>2. Cardinality(Open') <= MaxOpen
        BY <1>5, <3>1, RoomForOne
      <3> QED
        BY <1>1, <1>2, <1>5, <3>2 DEF OpenSound, Inside
    <2> QED
      BY <2>1 DEF OpenSound
  <1> QED
    BY <1>4, <1>6 DEF OrderInv

LEMMA FillNowOrder ==
    ASSUME BookInv, OrderInv, NEW q \in Clients, NEW p \in Prices, FillNow(q, p)
    PROVE  OrderInv'
  <1> DEFINE t == task[q]
             o == Order(t.k, t.n, t.cid, "FILLED", Own)
  <1>1. /\ t.pc = "quote" /\ Execute(q, t.k, t.n, p) /\ UNCHANGED rows
        /\ orders' = Append(orders, o) /\ seen' = Remember(t.cid, "FILLED")
    BY DEF FillNow
  <1>2. t.k \in Contracts /\ t.n \in Int \ {0} /\ t.cid \in Ids \cup {NoId} /\ Own \in Nat
    BY <1>1, CidType DEF Own
  <1>3. o \in OrderRecord /\ o.cid = t.cid /\ o.st = "FILLED"
    BY <1>2, OrderType DEF Order
  <1>4. seen' = IF o.cid = NoId THEN seen ELSE [seen EXCEPT ![o.cid] = Own]
    BY <1>1, <1>3 DEF Remember
  <1> HIDE DEF o
  <1> QED
    BY <1>1, <1>2, <1>3, <1>4, ExecuteOrder

LEMMA SquareOffOrder ==
    ASSUME BookInv, OrderInv, NEW q \in Clients, NEW k \in Contracts, SquareOff(q, k)
    PROVE  OrderInv'
  <1>1. Free /\ UNCHANGED <<heap, book, orders, seen, realized, rows>>
    BY DEF SquareOff
  <1>2. /\ task'[q].pc = "exit"
        /\ \A r \in Tasks \ {q} : task'[r] = task[r]
        /\ q # "worker" /\ "worker" \in Tasks /\ Clients \subseteq Tasks
    BY CidType DEF SquareOff, Idle
  <1>3. \A r \in Clients : task[r].pc \notin Inside
    BY <1>1, NobodyInside
  <1>5. IdsSound'
    BY <1>1, <1>2, <1>3 DEF OrderInv, IdsSound, Inside
  <1>6. OpenSound'
    BY <1>1, <1>2, <1>3, SameOpen DEF OrderInv, OpenSound, Empty, Inside
  <1> QED
    BY <1>5, <1>6 DEF OrderInv

LEMMA ExitOrder ==
    ASSUME BookInv, OrderInv, NEW q \in Clients, NEW p \in Prices, Exit(q, p)
    PROVE  OrderInv'
  <1> DEFINE k == task[q].k
             n == -Pos(k).qty
             o == Order(k, n, NoId, "FILLED", Own)
  <1>1. task[q].pc = "exit" /\ UNCHANGED <<seen, rows>>
    BY DEF Exit
  <1>2. k \in Open /\ k \in Contracts /\ HeapSound
    BY <1>1, CidType DEF Open
  <1>3. n \in Int \ {0} /\ Own \in Nat
    <2>1. Pos(k).qty \in Int /\ Pos(k).qty # 0
      BY <1>2, PosSound DEF Open, Sound, PosRecord
    <2> QED
      BY <2>1, CidType DEF Own
  <1>4. CASE Refused(k, n)
    <2>1. Release(q) /\ heap' = [heap EXCEPT ![book[k]].ltp = p] /\ UNCHANGED <<book, realized, orders>>
      BY <1>4 DEF Exit
    <2>2. Open' = Open
      BY <1>2, <2>1, MarkOpens
    <2>3. \A r \in Clients : task'[r].pc \notin Inside
      BY <1>1, <2>1, Released DEF Inside
    <2>4. IdsSound'
      BY <1>1, <2>1, <2>3 DEF OrderInv, IdsSound, Inside
    <2> QED
      BY <1>1, <2>1, <2>2, <2>4, ReleaseOrder
  <1>5. CASE ~Refused(k, n)
    <2>1. Execute(q, k, n, p) /\ orders' = Append(orders, o)
      BY <1>5 DEF Exit
    <2>2. NoId \in Ids \cup {NoId}
      OBVIOUS
    <2>3. o \in OrderRecord /\ o.cid = NoId /\ o.st = "FILLED"
      BY <1>2, <1>3, <2>2, OrderType DEF Order
    <2> HIDE DEF o, n
    <2> QED
      BY <1>1, <1>2, <1>3, <2>1, <2>3, ExecuteOrder
  <1> QED
    BY <1>4, <1>5

\* A save changes no status, and the position it writes is no other than the
\* one row an empty shard may have.
LEMMA SavesOrder ==
    ASSUME BookInv, OrderInv, NEW q \in Tasks, task[q].pc = "save",
           UNCHANGED <<heap, book, seen>>, DOMAIN orders' = DOMAIN orders,
           \A i \in DOMAIN orders : Live(orders'[i]) => Live(orders[i]) /\ orders'[i].cid = orders[i].cid,
           \A r \in Tasks \ {q} : task'[r] = task[r],
           task'[q].pc \in {"idle", "mark"} \/ (task'[q].pc = "save" /\ task'[q].done \in 1..2),
           q \in Clients => task'[q].pc # "mark",
           \/ rows'.known = rows.known
           \/ /\ task[q].done < 2 /\ rows'.known = rows.known \cup {task[q].k}
              /\ task'[q].pc = "save" /\ task'[q].done = 2,
           task'[q].pc = "save" /\ task'[q].done < 2 => task[q].done < 2 /\ rows'.known = rows.known
    PROVE  OrderInv'
  <1>1. Open' = Open /\ Clients \subseteq Tasks /\ "worker" \in Tasks /\ "worker" \notin Clients
    BY SameOpen, CidType
  <1>2. IdsSound'
    <2>1. \A r \in Clients : task'[r].pc = "quote" => task'[r] = task[r]
      BY <1>1
    <2> QED
      BY <2>1 DEF OrderInv, IdsSound
  <1>3. OpenSound'
    <2> SUFFICES ASSUME "restart" \notin Acts, MaxOpen # 0 PROVE OpenSound'
      BY DEF OpenSound
    <2>1. \A r \in Clients : task'[r].pc = "quote" => task'[r] = task[r]
      BY <1>1
    <2>2. \A r \in Clients : task'[r].pc = "save" => task[r].pc = "save"
      BY <1>1
    <2>3. Empty' = Empty
      BY DEF Empty
    <2>4. CASE Empty
      <3>1. q = "worker"
        BY <2>4 DEF OrderInv, OpenSound, Tasks
      <3>2. Cardinality(rows.known) <= 1 /\ (task[q].done < 2 => rows.known = {})
        BY <2>4, <3>1 DEF OrderInv, OpenSound
      <3>3. Cardinality({task[q].k}) = 1
        BY FS_Singleton
      <3>4. CASE rows'.known = rows.known
        BY <1>1, <2>1, <2>2, <2>3, <2>4, <3>1, <3>2, <3>4 DEF OrderInv, OpenSound
      <3>5. CASE rows'.known # rows.known
        <4>1. rows'.known = {task[q].k} /\ ~(task'[q].done < 2)
          BY <3>2, <3>5
        <4> QED
          BY <1>1, <2>1, <2>2, <2>3, <2>4, <3>1, <3>3, <4>1 DEF OrderInv, OpenSound
      <3> QED
        BY <3>4, <3>5
    <2>5. CASE ~Empty
      BY <1>1, <2>1, <2>2, <2>3, <2>5 DEF OrderInv, OpenSound
    <2> QED
      BY <2>4, <2>5
  <1> QED
    BY <1>2, <1>3 DEF OrderInv

\* The status of a row is not looked at.
LEMMA RowLives ==
    ASSUME BookInv, NEW i \in DOMAIN orders, NEW st, orders' = [orders EXCEPT ![i].row = st]
    PROVE  /\ DOMAIN orders' = DOMAIN orders
           /\ \A j \in DOMAIN orders : Live(orders'[j]) => Live(orders[j]) /\ orders'[j].cid = orders[j].cid
  <1>1. orders \in Seq(OrderRecord) /\ \A j \in DOMAIN orders : orders[j] \in OrderRecord
    BY CidType
  <1>2. DOMAIN orders' = DOMAIN orders
    BY <1>1
  <1>3. ASSUME NEW j \in DOMAIN orders
        PROVE  /\ orders'[j].here = orders[j].here /\ orders'[j].st = orders[j].st
               /\ orders'[j].cid = orders[j].cid
    BY <1>1, <1>3 DEF OrderRecord
  <1> QED
    BY <1>2, <1>3 DEF Live

LEMMA SavingOrder ==
    ASSUME BookInv, OrderInv, NEW q \in Tasks, SaveOrder(q) \/ SavePosition(q) \/ SavePortfolio(q)
    PROVE  OrderInv'
  <1>1. /\ task[q] \in TaskRecord /\ TaskSound(q) /\ task \in [Tasks -> TaskRecord]
        /\ rows \in [pos : [Contracts -> PosRecord], known : SUBSET Contracts, real : Int,
                      obj : [Contracts -> Nat]]
    BY DEF BookInv, TasksSound, RowsSound
  <1>2. CASE SaveOrder(q)
    <2>1. /\ task[q].pc = "save" /\ task[q].done = 0 /\ task' = [task EXCEPT ![q].done = 1]
          /\ orders' = [orders EXCEPT ![task[q].ord].row = orders[task[q].ord].st]
          /\ UNCHANGED <<heap, book, seen, rows>>
      BY <1>2 DEF SaveOrder
    <2>2. task[q].ord \in DOMAIN orders
      BY <1>1, <2>1 DEF TaskSound, Filled
    <2>3. task'[q].pc = "save" /\ task'[q].done = 1 /\ \A r \in Tasks \ {q} : task'[r] = task[r]
      BY <1>1, <2>1 DEF TaskRecord
    <2>4. /\ DOMAIN orders' = DOMAIN orders
          /\ \A i \in DOMAIN orders :
               Live(orders'[i]) => Live(orders[i]) /\ orders'[i].cid = orders[i].cid
      BY <2>1, <2>2, RowLives
    <2>5. task'[q].pc # "mark" /\ rows'.known = rows.known
      BY <2>1, <2>3
    <2> QED
      BY <2>1, <2>3, <2>4, <2>5, SavesOrder
  <1>3. CASE SavePosition(q)
    <2>1. /\ task[q].pc = "save" /\ task[q].done = 1 /\ task' = [task EXCEPT ![q].done = 2]
          /\ rows' = Saved(task[q].k, task[q].obj)
          /\ UNCHANGED <<heap, book, seen, orders>>
      BY <1>3 DEF SavePosition
    <2>2. rows'.known = rows.known \cup {task[q].k}
      BY <1>1, <2>1 DEF Saved
    <2>3. task'[q].pc = "save" /\ task'[q].done = 2 /\ \A r \in Tasks \ {q} : task'[r] = task[r]
      BY <1>1, <2>1 DEF TaskRecord
    <2> QED
      BY <2>1, <2>2, <2>3, SavesOrder
  <1>4. CASE SavePortfolio(q)
    <2>1. /\ task[q].pc = "save" /\ rows' = [rows EXCEPT !.real = task[q].real]
          /\ UNCHANGED <<heap, book, seen, orders>>
      BY <1>4 DEF SavePortfolio
    <2>2. rows'.known = rows.known
      BY <1>1, <2>1
    <2>3. /\ task'[q].pc \in {"idle", "mark"} /\ (q \in Clients => task'[q].pc # "mark")
          /\ \A r \in Tasks \ {q} : task'[r] = task[r]
      <3>1. CASE q = "worker"
        <4> DEFINE t == [task[q] EXCEPT !.pc = "mark", !.ord = orders[task[q].ord].of, !.done = 0]
        <4>1. task' = [task EXCEPT ![q] = t] /\ t.pc = "mark"
          BY <1>1, <1>4, <3>1 DEF SavePortfolio, TaskRecord
        <4> HIDE DEF t
        <4> QED
          BY <1>1, <3>1, <4>1, CidType
      <3>2. CASE q # "worker"
        BY <1>1, <1>4, <3>2, IdleType DEF SavePortfolio, Release
      <3> QED
        BY <3>1, <3>2
    <2> QED
      BY <2>1, <2>2, <2>3, SavesOrder
  <1> QED
    BY <1>2, <1>3, <1>4

-----------------------------------------------------------------------------
(* Cancels, resets, the worker, restarts and the readers *)

\* Steps that leave the coroutines of the clients alone.
LEMMA CancelOrder ==
    ASSUME BookInv, OrderInv, NEW i \in DOMAIN orders, Cancel(i)
    PROVE  OrderInv'
  <1>1. /\ Free /\ orders' = [orders EXCEPT ![i].st = "CANCELLED", ![i].row = "CANCELLED"]
        /\ Open' = Open /\ UNCHANGED <<heap, book, seen, realized, lock, task, rows>>
    BY SameOpen DEF Cancel
  <1>3. ASSUME NEW j \in DOMAIN orders', Live(orders'[j])
        PROVE  j \in DOMAIN orders /\ Live(orders[j]) /\ orders'[j].cid = orders[j].cid
    <2>1. j \in DOMAIN orders /\ orders[j] \in OrderRecord
      BY <1>1, CidType
    <2>2. CASE j = i
      <3>1. orders'[j].st = "CANCELLED"
        BY <1>1, <2>1, <2>2 DEF OrderRecord
      <3> QED
        BY <1>3, <3>1 DEF Live
    <2>3. CASE j # i
      BY <1>1, <1>3, <2>1, <2>3
    <2> QED
      BY <2>2, <2>3
  <1>4. IdsSound'
    BY <1>1, <1>3 DEF OrderInv, IdsSound
  <1>5. OpenSound'
    BY <1>1 DEF OrderInv, OpenSound, Empty
  <1> QED
    BY <1>4, <1>5 DEF OrderInv

LEMMA ResetOrder ==
    ASSUME BookInv, OrderInv, Reset
    PROVE  OrderInv'
  <1>1. /\ Free /\ book' = [k \in Contracts |-> 0] /\ UNCHANGED <<heap, lock, task>>
        /\ orders' = [i \in DOMAIN orders |-> [orders[i] EXCEPT !.here = FALSE]]
        /\ rows'.known = {}
    BY DEF Reset, NoRows
  <1>2. \A q \in Clients : task'[q].pc \notin Inside
    BY <1>1, NobodyInside
  <1>4. \A i \in DOMAIN orders' : ~Live(orders'[i])
    <2> TAKE i \in DOMAIN orders'
    <2>1. i \in DOMAIN orders /\ orders[i] \in OrderRecord
      BY <1>1, CidType
    <2>2. ~orders'[i].here
      BY <1>1, <2>1 DEF OrderRecord
    <2> QED
      BY <2>2 DEF Live
  <1>5. IdsSound'
    BY <1>2, <1>4 DEF IdsSound, Inside
  <1>6. Open' = {}
    BY <1>1 DEF Open, Pos, Flat
  <1>7. Cardinality({}) = 0
    BY FS_EmptySet
  <1>8. MaxOpen \in Nat
    BY BookConstants
  <1>9. OpenSound'
    BY <1>1, <1>2, <1>6, <1>7, <1>8 DEF OpenSound, Inside
  <1> QED
    BY <1>5, <1>9 DEF OrderInv

\* The worker goes on with the next candidate, or has none left.
LEMMA LoopOrder ==
    ASSUME BookInv, OrderInv, UNCHANGED <<heap, book, rows>>,
           \A q \in Clients : task'[q] = task[q], task'["worker"].pc # "save", IdsSound'
    PROVE  OrderInv'
  <1>1. Open' = Open
    BY SameOpen
  <1>2. OpenSound'
    BY <1>1 DEF OrderInv, OpenSound, Empty
  <1> QED
    BY <1>2 DEF OrderInv

LEMMA TouchStartOrder ==
    ASSUME BookInv, OrderInv, NEW k \in Contracts, TouchStart(k)
    PROVE  OrderInv'
  <1>1. UNCHANGED <<heap, book, orders, seen, realized, lock, rows>>
    BY DEF TouchStart
  <1>2. (\A q \in Clients : task'[q] = task[q]) /\ task'["worker"].pc = "loop"
    BY CidType DEF TouchStart, Idle
  <1>3. IdsSound'
    BY <1>1, <1>2 DEF OrderInv, IdsSound
  <1> QED
    BY <1>1, <1>2, <1>3, LoopOrder

LEMMA NextStays ==
    ASSUME BookInv, task["worker"].pc = "loop", Next1
    PROVE  /\ \A q \in Clients : task'[q] = task[q]
           /\ task'["worker"].pc # "save"
  <1>1. PICK u \in TaskRecord :
          task' = [task EXCEPT !["worker"] = u] /\ u.pc \in {"idle", "loop"}
    BY NextCandidate
  <1> QED
    BY <1>1, CidType

LEMMA TouchSkipOrder ==
    ASSUME BookInv, OrderInv, TouchSkip
    PROVE  OrderInv'
  <1>1. /\ task["worker"].pc = "loop" /\ Next1
        /\ UNCHANGED <<heap, book, orders, seen, realized, lock, rows>>
    BY DEF TouchSkip
  <1>2. \A q \in Clients : task'[q] = task[q]
    BY <1>1, NextStays
  <1>3. IdsSound'
    BY <1>1, <1>2 DEF OrderInv, IdsSound
  <1> QED
    BY <1>1, <1>2, <1>3, NextStays, LoopOrder

\* The resting order's own row is saved.
LEMMA SaveTouchedOrder ==
    ASSUME BookInv, OrderInv, SaveTouched
    PROVE  OrderInv'
  <1>1. /\ task["worker"].pc = "mark" /\ UNCHANGED <<heap, book, seen, realized, lock, rows>>
        /\ orders' = [orders EXCEPT ![task["worker"].ord].row = orders[task["worker"].ord].st]
    BY DEF SaveTouched
  <1>2. task["worker"].ord \in DOMAIN orders /\ task["worker"] \in TaskRecord
    BY <1>1 DEF BookInv, TasksSound, TaskSound, Filled, Tasks
  <1>3. (\A q \in Clients : task'[q] = task[q]) /\ task'["worker"].pc # "save"
    BY <1>2, CidType, IdleType DEF SaveTouched, TaskRecord
  <1>4. IdsSound'
    BY <1>1, <1>2, <1>3, RowLives DEF OrderInv, IdsSound
  <1> QED
    BY <1>1, <1>3, <1>4, LoopOrder

\* The candidate becomes FILLED: it was live before if it is now.
LEMMA FilledCandidate ==
    ASSUME BookInv, NEW i \in DOMAIN orders, StillPending(i),
           NEW kept, kept = [orders EXCEPT ![i].st = "FILLED"]
    PROVE  /\ kept \in Seq(OrderRecord) /\ Len(kept) = Len(orders)
           /\ \A j \in DOMAIN orders : Live(kept[j]) => Live(orders[j]) /\ kept[j].cid = orders[j].cid
  <1>1. orders \in Seq(OrderRecord) /\ orders[i] \in OrderRecord /\ orders[i].st = "PENDING"
    BY CidType DEF StillPending
  <1>2. [orders[i] EXCEPT !.st = "FILLED"] \in OrderRecord
    BY <1>1 DEF OrderRecord
  <1>3. kept \in Seq(OrderRecord) /\ Len(kept) = Len(orders)
    BY <1>1, <1>2
  <1>4. ASSUME NEW j \in DOMAIN orders, Live(kept[j])
        PROVE  Live(orders[j]) /\ kept[j].cid = orders[j].cid
    <2>1. CASE j = i
      <3>1. kept[j].cid = orders[j].cid /\ kept[j].here = orders[j].here
        BY <1>1, <2>1 DEF OrderRecord
      <3> QED
        BY <1>1, <1>4, <2>1, <3>1 DEF Live
    <2>2. CASE j # i
      BY <1>1, <1>4, <2>2
    <2> QED
      BY <2>1, <2>2
  <1> QED
    BY <1>3, <1>4

LEMMA TouchOrder ==
    ASSUME BookInv, OrderInv, NEW p \in Prices, Touch(p)
    PROVE  OrderInv'
  <1> DEFINE i == Candidate
             o == orders[i]
             kept == [orders EXCEPT ![i].st = "FILLED"]
  <1>1. task["worker"].pc = "loop" /\ Free /\ StillPending(i) /\ UNCHANGED <<seen, lock, rows>>
    BY DEF Touch
  <1>2. i \in DOMAIN orders /\ o \in OrderRecord
    BY <1>1, CandidateType
  <1>3. /\ kept \in Seq(OrderRecord) /\ Len(kept) = Len(orders)
        /\ \A j \in DOMAIN orders : Live(kept[j]) => Live(orders[j]) /\ kept[j].cid = orders[j].cid
    BY <1>1, <1>2, FilledCandidate
  <1>4. \A q \in Clients : task[q].pc \notin Inside
    BY <1>1, NobodyInside
  <1>5. CASE Refused(o.k, o.n) \/ ~Covered(o.k, o.n, p, realized)
    <2>1. orders' = kept /\ UNCHANGED <<heap, book, realized>>
      BY <1>5 DEF Touch
    <2>2. (\A q \in Clients : task'[q] = task[q]) /\ task'["worker"].pc = "mark"
      <3> DEFINE t == [task["worker"] EXCEPT !.pc = "mark", !.ord = i,
                                             !.todo = task["worker"].todo \ {i}]
      <3>1. task' = [task EXCEPT !["worker"] = t] /\ t.pc = "mark"
        BY <1>1, <1>5, CandidateType DEF Touch, TaskRecord
      <3> HIDE DEF t
      <3> QED
        BY <3>1, CidType
    <2> HIDE DEF kept, i, o
    <2>3. DOMAIN orders' = DOMAIN orders
      BY <1>3, <2>1, CidType
    <2>4. IdsSound'
      BY <1>1, <1>2, <1>3, <2>1, <2>2, <2>3 DEF OrderInv, IdsSound
    <2> QED
      BY <1>1, <1>2, <2>1, <2>2, <2>4, LoopOrder
  <1>6. CASE ~(Refused(o.k, o.n) \/ ~Covered(o.k, o.n, p, realized))
    <2> DEFINE leg == Order(o.k, o.n, NoId, "FILLED", i)
    <2>1. /\ orders' = Append(kept, leg)
          /\ heap' = Fill(o.k, o.n, p).heap
          /\ book' = [book EXCEPT ![o.k] = Fill(o.k, o.n, p).at]
          /\ \A q \in Clients : task'[q] = task[q]
      BY <1>6, CidType DEF Touch
    <2>2. o.k \in Contracts /\ o.n \in Int \ {0} /\ i \in Nat
      BY <1>1, <1>2, CandidateType DEF OrderRecord
    <2>3. leg \in OrderRecord /\ leg.cid = NoId
      BY <2>2, OrderType DEF Order
    <2>4. seen' = IF leg.cid = NoId THEN seen ELSE [seen EXCEPT ![leg.cid] = Own]
      BY <1>1, <2>3
    <2>5. "restart" \notin Acts =>
            \A j \in DOMAIN orders' : Live(orders'[j]) => seen'[orders'[j].cid] = j
      <3> HIDE DEF kept, leg, i, o
      <3> QED
        BY <1>2, <1>3, <2>1, <2>3, <2>4, AddedOrder DEF OrderInv
    <2>6. IdsSound'
      BY <1>4, <2>1, <2>5 DEF IdsSound, Inside
    <2>7. Open' \subseteq Open \cup {o.k} /\ (o.k \in Open => Open' \subseteq Open) /\ ~Empty'
      BY <2>1, <2>2, CidType, FillOpens DEF Empty
    <2>8. OpenSound'
      <3>1. CASE "restart" \notin Acts /\ MaxOpen # 0
        <4>1. o.k \notin Open => Cardinality(Open) < MaxOpen
          BY <1>6, OpenFinite, BookConstants DEF Refused
        <4>2. Cardinality(Open') <= MaxOpen
          BY <1>2, <2>7, <3>1, <4>1, RoomForOne DEF OrderInv, OpenSound
        <4> QED
          BY <1>4, <2>1, <2>7, <4>2 DEF OpenSound, Inside
      <3> QED
        BY <3>1 DEF OpenSound
    <2> QED
      BY <2>6, <2>8 DEF OrderInv
  <1> QED
    BY <1>5, <1>6

LEMMA MarkOrder ==
    ASSUME BookInv, OrderInv, NEW k \in Contracts, NEW p \in Prices, Mark(k, p)
    PROVE  OrderInv'
  <1>1. /\ heap' = [heap EXCEPT ![book[k]].ltp = p]
        /\ UNCHANGED <<book, orders, seen, realized, lock, task, rows>>
    BY DEF Mark
  <1>2. Open' = Open
    BY <1>1, CidType, MarkOpens
  <1> QED
    BY <1>1, <1>2 DEF OrderInv, IdsSound, OpenSound, Empty

LEMMA RestartOrder ==
    ASSUME BookInv, OrderInv, Restart
    PROVE  OrderInv'
  <1>1. "restart" \in Acts
    BY DEF Restart
  <1> QED
    BY <1>1 DEF OrderInv, IdsSound, OpenSound

LEMMA HydrateOrder ==
    ASSUME BookInv, OrderInv, Hydrate
    PROVE  OrderInv'
  <1>1. /\ Free /\ Empty /\ rows.known # {} /\ UNCHANGED <<orders, seen, lock, task>>
        /\ rows'.known = rows.known
    <2>1. rows' = [rows EXCEPT !.obj = book']
      BY DEF Hydrate
    <2>2. rows'.known = rows.known
      BY <2>1 DEF BookInv, RowsSound
    <2> QED
      BY <2>2 DEF Hydrate, Empty
  <1>2. \A q \in Clients : task'[q].pc \notin Inside
    BY <1>1, NobodyInside
  <1>3. IdsSound'
    BY <1>1, <1>2 DEF OrderInv, IdsSound, Inside
  <1>4. Open' \subseteq rows.known /\ ~Empty'
    <2> DEFINE ks == rows.known
               n == Cardinality(ks)
               row == CHOOSE f \in [1..n -> ks] : \A k \in ks : \E i \in 1..n : f[i] = k
    <2>1. book' = [k \in Contracts |->
                     IF k \in ks THEN Len(heap) + (CHOOSE i \in 1..n : row[i] = k) ELSE 0]
      BY DEF Hydrate, Loaded
    <2>2. ks \in SUBSET Contracts /\ n \in Nat
      BY CidType, RowOrder
    <2>3. \E f \in [1..n -> ks] : \A k \in ks : \E i \in 1..n : f[i] = k
      BY <2>2, RowOrder
    <2>4. \A k \in ks : \E i \in 1..n : row[i] = k
      BY <2>3
    <2> HIDE DEF row, ks, n
    <2>5. \A k \in ks : (CHOOSE i \in 1..n : row[i] = k) \in 1..n
      BY <2>4
    <2>6. Len(heap) \in Nat
      BY CidType DEF HeapSound, SoundHeap
    <2>7. ASSUME NEW k \in Contracts
          PROVE  IF k \in ks THEN book'[k] # 0 ELSE book'[k] = 0
      <3>1. book'[k] = IF k \in ks THEN Len(heap) + (CHOOSE i \in 1..n : row[i] = k) ELSE 0
        BY <2>1
      <3>2. k \in ks => (CHOOSE i \in 1..n : row[i] = k) \in 1..n
        BY <2>5
      <3> QED
        BY <2>2, <2>6, <3>1, <3>2
    <2>8. Open' \subseteq ks
      BY <2>7 DEF Open, Pos, Flat
    <2>9. ~Empty'
      BY <1>1, <2>2, <2>7 DEF Empty, ks
    <2> QED
      BY <2>8, <2>9 DEF ks
  <1>5. OpenSound'
    <2>1. CASE "restart" \notin Acts /\ MaxOpen # 0
      <3>1. Cardinality(rows.known) <= 1 /\ IsFiniteSet(rows.known)
        BY <1>1, <2>1, CidType, FS_Subset, BookConstants DEF OrderInv, OpenSound
      <3>2. Cardinality(rows.known) \in Nat /\ Cardinality(Open') \in Nat
            /\ Cardinality(Open') <= Cardinality(rows.known)
        BY <1>4, <3>1, FS_Subset, FS_CardinalityType
      <3>3. Cardinality(Open') <= MaxOpen
        BY <2>1, <3>1, <3>2, BookConstants
      <3> QED
        BY <1>2, <1>4, <3>3 DEF OpenSound, Inside
    <2> QED
      BY <2>1 DEF OpenSound
  <1> QED
    BY <1>3, <1>5 DEF OrderInv

-----------------------------------------------------------------------------
(* What a step makes of the orders before it *)

Legs(list, i) == {j \in DOMAIN list : j # i /\ list[j].of = i /\ list[j].st # "LOST"}

\* A cancelled order is cancelled in its row too, so that a restart reads it
\* back as cancelled; a pending one has no leg yet, unless a crash tore the
\* two saves apart; a leg has filled, or is lost with the process.
RestingSound(list) ==
    \A i \in DOMAIN list :
        /\ list[i].st = "CANCELLED" => list[i].row = "CANCELLED"
        /\ list[i].st = "PENDING" /\ ~list[i].torn => Legs(list, i) = {}
        /\ list[i].of # 0 => list[i].st \in {"FILLED", "LOST"} /\ list[i].row \in {"NONE", "FILLED"}
        /\ list[i].of \in 0..Len(list)

RestingInv == RestingSound(orders)

KeepsOrders ==
    \A i \in DOMAIN orders :
        /\ orders[i].st = "CANCELLED" => orders'[i].st = "CANCELLED"
        /\ Len(orders') > Len(orders) /\ orders'[Len(orders')].of = i =>
             orders[i].st = "PENDING" /\ (orders[i].torn \/ LegsOfResting(i) = {})

\* What a step may do to an order that is there: fill or cancel a pending one,
\* write a row, clear the list.
Restamped(a, b) ==
    /\ b.of = a.of /\ b.torn = a.torn
    /\ a.st = "CANCELLED" => b.st = "CANCELLED"
    /\ b.st = "CANCELLED" => b.row = "CANCELLED"
    /\ b.st = "PENDING" => a.st = "PENDING"
    /\ a.st = "LOST" => b.st = "LOST"
    /\ b.of # 0 => b.st \in {"FILLED", "LOST"} /\ b.row \in {"NONE", "FILLED"}

LEMMA RestampedSound ==
    ASSUME NEW a \in Seq(OrderRecord), NEW b \in Seq(OrderRecord), Len(b) = Len(a), RestingSound(a),
           \A i \in DOMAIN a : Restamped(a[i], b[i])
    PROVE  RestingSound(b)
  <1>1. DOMAIN a = DOMAIN b
    OBVIOUS
  <1>2. ASSUME NEW i \in DOMAIN a PROVE Legs(b, i) \subseteq Legs(a, i)
    BY <1>1 DEF Legs, Restamped
  <1> QED
    BY <1>1, <1>2 DEF RestingSound, Restamped

\* An order that is added is a leg of its own, of no order, or of one that is
\* not pending any more.
LEMMA AddedResting ==
    ASSUME NEW a \in Seq(OrderRecord), RestingSound(a), NEW o \in OrderRecord,
           o.of \in 0..(Len(a) + 1), o.st # "CANCELLED",
           o.of # 0 => o.st = "FILLED" /\ o.row = "NONE",
           o.of \in DOMAIN a => a[o.of].st # "PENDING"
    PROVE  RestingSound(Append(a, o))
  <1> DEFINE b == Append(a, o)
  <1>1. /\ Len(a) \in Nat /\ DOMAIN a = 1..Len(a) /\ DOMAIN b = 1..(Len(a) + 1) /\ Len(b) = Len(a) + 1
        /\ b[Len(a) + 1] = o /\ \A i \in DOMAIN a : b[i] = a[i]
    OBVIOUS
  <1> HIDE DEF b
  <1>2. ASSUME NEW i \in DOMAIN a, a[i].st = "PENDING", ~a[i].torn PROVE Legs(b, i) = {}
    BY <1>1, <1>2 DEF RestingSound, Legs
  <1>3. ASSUME o.st = "PENDING" PROVE Legs(b, Len(a) + 1) = {}
    <2>1. ASSUME NEW j \in DOMAIN b, j # Len(a) + 1 PROVE b[j].of # Len(a) + 1
      <3>1. j \in DOMAIN a /\ a[j].of \in 0..Len(a)
        BY <1>1, <2>1 DEF RestingSound
      <3> QED
        BY <1>1, <3>1
    <2> QED
      BY <2>1 DEF Legs
  <1>4. ASSUME NEW i \in DOMAIN a
        PROVE  /\ b[i].st = "CANCELLED" => b[i].row = "CANCELLED"
               /\ b[i].st = "PENDING" /\ ~b[i].torn => Legs(b, i) = {}
               /\ b[i].of # 0 => b[i].st \in {"FILLED", "LOST"} /\ b[i].row \in {"NONE", "FILLED"}
               /\ b[i].of \in 0..Len(b)
    BY <1>1, <1>2 DEF RestingSound
  <1>5. RestingSound(b)
    BY <1>1, <1>3, <1>4 DEF RestingSound
  <1> QED
    BY <1>5 DEF b

\* Steps that add no order.
LEMMA KeptOrders ==
    ASSUME BookInv, RestingInv, orders' \in Seq(OrderRecord), Len(orders') = Len(orders),
           \A i \in DOMAIN orders : Restamped(orders[i], orders'[i])
    PROVE  RestingInv' /\ KeepsOrders
  <1>1. orders \in Seq(OrderRecord) /\ Len(orders) \in Nat
    BY CidType
  <1>2. RestingSound(orders')
    BY <1>1, RestampedSound DEF RestingInv
  <1> QED
    BY <1>1, <1>2 DEF RestingInv, KeepsOrders, Restamped

LEMMA SameKeeps == ASSUME BookInv, RestingInv, orders' = orders PROVE RestingInv' /\ KeepsOrders
  <1>1. Len(orders) \in Nat
    BY CidType
  <1> QED
    BY <1>1 DEF RestingInv, RestingSound, Legs, KeepsOrders

\* An order that is a leg of its own, or none.
LEMMA AppendKeeps ==
    ASSUME BookInv, RestingInv, NEW o \in OrderRecord, o.st # "CANCELLED",
           o.of = 0 \/ (o.of = Own /\ o.st = "FILLED" /\ o.row = "NONE"), orders' = Append(orders, o)
    PROVE  RestingInv' /\ KeepsOrders
  <1>1. orders \in Seq(OrderRecord) /\ Len(orders) \in Nat /\ DOMAIN orders = 1..Len(orders)
        /\ Own = Len(orders) + 1
    BY CidType DEF Own
  <1>2. orders'[Len(orders')] = o /\ \A i \in DOMAIN orders : orders'[i] = orders[i]
    BY <1>1
  <1>3. o.of \in 0..(Len(orders) + 1) /\ o.of \notin DOMAIN orders
    BY <1>1
  <1>4. o.of # 0 => o.st = "FILLED" /\ o.row = "NONE"
    OBVIOUS
  <1>5. RestingSound(Append(orders, o))
    BY <1>1, <1>3, <1>4, AddedResting DEF RestingInv
  <1>6. RestingInv'
    BY <1>5 DEF RestingInv
  <1> QED
    BY <1>1, <1>2, <1>3, <1>6 DEF KeepsOrders

\* A step that writes a row writes FILLED into it.
LEMMA RowKeeps ==
    ASSUME BookInv, RestingInv, NEW i, Filled(orders, i),
           orders' = [orders EXCEPT ![i].row = orders[i].st]
    PROVE  RestingInv' /\ KeepsOrders
  <1> DEFINE o == [orders[i] EXCEPT !.row = "FILLED"]
  <1>1. /\ orders \in Seq(OrderRecord) /\ i \in DOMAIN orders /\ orders[i] \in OrderRecord
        /\ orders[i].st = "FILLED"
    BY CidType DEF Filled
  <1>2. /\ o \in OrderRecord /\ o.of = orders[i].of /\ o.torn = orders[i].torn
        /\ o.st = "FILLED" /\ o.row = "FILLED"
    BY <1>1 DEF OrderRecord
  <1>3. orders' = [orders EXCEPT ![i] = o]
    BY <1>1
  <1> HIDE DEF o
  <1>4. orders' \in Seq(OrderRecord) /\ Len(orders') = Len(orders)
    BY <1>1, <1>2, <1>3
  <1>5. ASSUME NEW j \in DOMAIN orders PROVE Restamped(orders[j], orders'[j])
    <2>1. CASE j = i
      BY <1>1, <1>2, <1>3, <2>1 DEF Restamped
    <2>2. CASE j # i
      BY <1>1, <1>3, <2>2 DEF Restamped, RestingInv, RestingSound
    <2> QED
      BY <2>1, <2>2
  <1> QED
    BY <1>4, <1>5, KeptOrders

LEMMA CancelKeeps ==
    ASSUME BookInv, RestingInv, NEW i \in DOMAIN orders, Cancel(i)
    PROVE  RestingInv' /\ KeepsOrders
  <1> DEFINE o == [orders[i] EXCEPT !.st = "CANCELLED", !.row = "CANCELLED"]
  <1>1. /\ orders \in Seq(OrderRecord) /\ orders[i] \in OrderRecord /\ orders[i].st = "PENDING"
        /\ orders' = [orders EXCEPT ![i] = o]
    <2>1. orders \in Seq(OrderRecord) /\ orders[i] \in OrderRecord /\ orders[i].st = "PENDING"
      BY CidType DEF Cancel
    <2>2. orders' = [orders EXCEPT ![i].st = "CANCELLED", ![i].row = "CANCELLED"]
      BY DEF Cancel
    <2>3. DOMAIN orders' = DOMAIN orders /\ orders'[i] = o
      BY <2>1, <2>2 DEF OrderRecord
    <2>4. \A j \in DOMAIN orders \ {i} : orders'[j] = orders[j]
      BY <2>2
    <2> HIDE DEF o
    <2> QED
      BY <2>1, <2>2, <2>3, <2>4
  <1>2. /\ o \in OrderRecord /\ o.of = orders[i].of /\ o.torn = orders[i].torn
        /\ o.st = "CANCELLED" /\ o.row = "CANCELLED"
    BY <1>1 DEF OrderRecord
  <1>3. orders[i].of = 0
    BY <1>1 DEF RestingInv, RestingSound
  <1> HIDE DEF o
  <1>4. orders' \in Seq(OrderRecord) /\ Len(orders') = Len(orders)
    BY <1>1, <1>2
  <1>5. ASSUME NEW j \in DOMAIN orders PROVE Restamped(orders[j], orders'[j])
    <2>1. CASE j = i
      BY <1>1, <1>2, <1>3, <2>1 DEF Restamped
    <2>2. CASE j # i
      BY <1>1, <2>2 DEF Restamped, RestingInv, RestingSound
    <2> QED
      BY <2>1, <2>2
  <1> QED
    BY <1>4, <1>5, KeptOrders

LEMMA ResetKeeps ==
    ASSUME BookInv, RestingInv, Reset
    PROVE  RestingInv' /\ KeepsOrders
  <1>1. /\ orders \in Seq(OrderRecord) /\ Len(orders) \in Nat /\ DOMAIN orders = 1..Len(orders)
        /\ orders' = [i \in DOMAIN orders |-> [orders[i] EXCEPT !.here = FALSE]]
    BY CidType DEF Reset
  <1>2. orders' \in Seq(OrderRecord) /\ DOMAIN orders' = 1..Len(orders)
    <2>1. orders' \in Seq(OrderRecord')
      BY ResetInv DEF BookInv, Sums
    <2> QED
      BY <1>1, <2>1 DEF OrderRecord, Ids
  <1>3. Len(orders') = Len(orders)
    BY <1>1, <1>2
  <1>4. ASSUME NEW j \in DOMAIN orders PROVE Restamped(orders[j], orders'[j])
    <2>1. orders[j] \in OrderRecord /\ orders'[j] = [orders[j] EXCEPT !.here = FALSE]
      BY <1>1
    <2>2. /\ orders'[j].of = orders[j].of /\ orders'[j].torn = orders[j].torn
          /\ orders'[j].st = orders[j].st /\ orders'[j].row = orders[j].row
      BY <2>1 DEF OrderRecord
    <2> QED
      BY <2>2 DEF Restamped, RestingInv, RestingSound
  <1> QED
    BY <1>2, <1>3, <1>4, KeptOrders

\* A restart takes every order from its row: a cancelled one comes back
\* cancelled, and a pending one that has a saved leg is torn.
LEMMA RestartKeeps ==
    ASSUME BookInv, RestingInv, Restart
    PROVE  RestingInv' /\ KeepsOrders
  <1>1. /\ orders \in Seq(OrderRecord) /\ Len(orders) \in Nat /\ DOMAIN orders = 1..Len(orders)
    BY CidType
  <1>2. PICK list \in BOOLEAN : orders' = [i \in DOMAIN orders |-> Reborn(i, list)]
    BY DEF Restart
  <1>3. /\ DOMAIN orders' = DOMAIN orders /\ Len(orders') = Len(orders)
    <2>1. orders' \in Seq(OrderRecord')
      BY RestartInv DEF BookInv, Sums
    <2> QED
      BY <1>1, <1>2, <2>1
  <1> DEFINE LegSaved(i) == \E j \in DOMAIN orders : j # i /\ orders[j].of = i /\ orders[j].row = "FILLED"
  <1>4. ASSUME NEW i \in DOMAIN orders
        PROVE  /\ orders'[i].of = orders[i].of /\ orders'[i].row = orders[i].row
               /\ orders'[i].st = IF orders[i].row = "NONE" THEN "LOST" ELSE orders[i].row
               /\ orders'[i].torn = (orders[i].torn \/ (orders[i].row = "PENDING" /\ LegSaved(i)))
    <2>1. orders[i] \in OrderRecord /\ orders'[i] = Reborn(i, list)
      BY <1>1, <1>2
    <2> DEFINE st == IF orders[i].row = "NONE" THEN "LOST" ELSE orders[i].row
               here == list /\ orders[i].row # "NONE"
               torn == orders[i].torn \/ (orders[i].row = "PENDING" /\ LegSaved(i))
    <2>2. Reborn(i, list) = [orders[i] EXCEPT !.st = st, !.here = here, !.torn = torn]
      BY DEF Reborn
    <2> HIDE DEF st, here, torn
    <2>3. /\ orders'[i].of = orders[i].of /\ orders'[i].row = orders[i].row
          /\ orders'[i].st = st /\ orders'[i].torn = torn
      BY <2>1, <2>2 DEF OrderRecord
    <2> QED
      BY <2>3 DEF st, torn
  <1>5. ASSUME NEW i \in DOMAIN orders, orders'[i].st = "PENDING", ~orders'[i].torn
        PROVE  Legs(orders', i) = {}
    <2>1. orders[i].row = "PENDING" /\ ~LegSaved(i)
      BY <1>4, <1>5
    <2>2. ASSUME NEW j \in DOMAIN orders', j # i, orders'[j].of = i PROVE orders'[j].st = "LOST"
      <3>1. j \in DOMAIN orders /\ orders[j].of = i /\ i # 0 /\ orders[j].row # "FILLED"
        BY <1>1, <1>3, <1>4, <2>1, <2>2
      <3>2. orders[j].row = "NONE"
        BY <3>1 DEF RestingInv, RestingSound
      <3> QED
        BY <1>4, <3>1, <3>2
    <2> QED
      BY <2>2 DEF Legs
  <1>6. RestingInv'
    <2>1. ASSUME NEW i \in DOMAIN orders'
          PROVE  /\ orders'[i].st = "CANCELLED" => orders'[i].row = "CANCELLED"
                 /\ orders'[i].st = "PENDING" /\ ~orders'[i].torn => Legs(orders', i) = {}
                 /\ orders'[i].of # 0 =>
                      orders'[i].st \in {"FILLED", "LOST"} /\ orders'[i].row \in {"NONE", "FILLED"}
                 /\ orders'[i].of \in 0..Len(orders')
      <3> HIDE DEF LegSaved
      <3> QED
        BY <1>3, <1>4, <1>5 DEF RestingInv, RestingSound
    <2> QED
      BY <2>1 DEF RestingInv, RestingSound
  <1>7. ASSUME NEW i \in DOMAIN orders, orders[i].st = "CANCELLED"
        PROVE  orders'[i].st = "CANCELLED"
    <2>1. orders[i].row = "CANCELLED"
      BY <1>7 DEF RestingInv, RestingSound
    <2> QED
      BY <1>4, <2>1
  <1> QED
    BY <1>1, <1>3, <1>6, <1>7 DEF KeepsOrders

LEMMA TouchKeeps ==
    ASSUME BookInv, RestingInv, NEW p \in Prices, Touch(p)
    PROVE  RestingInv' /\ KeepsOrders
  <1> DEFINE i == Candidate
             c == orders[i]
             kept == [orders EXCEPT ![i].st = "FILLED"]
             leg == Order(c.k, c.n, NoId, "FILLED", i)
  <1>1. /\ orders \in Seq(OrderRecord) /\ Len(orders) \in Nat /\ DOMAIN orders = 1..Len(orders)
        /\ i \in DOMAIN orders /\ i \in Nat /\ c \in OrderRecord /\ c.st = "PENDING"
        /\ StillPending(i)
    BY CidType, CandidateType DEF Touch, StillPending
  <1>2. orders' = kept \/ orders' = Append(kept, leg)
    BY DEF Touch
  <1>3. kept \in Seq(OrderRecord) /\ Len(kept) = Len(orders)
    BY <1>1, FilledCandidate
  <1>4. c.of = 0 /\ (c.torn \/ LegsOfResting(i) = {})
    BY <1>1 DEF RestingInv, RestingSound, LegsOfResting, Legs
  <1>5. ASSUME NEW j \in DOMAIN orders PROVE Restamped(orders[j], kept[j])
    <2>1. CASE j = i
      <3>1. kept[j] = [c EXCEPT !.st = "FILLED"]
        BY <1>1, <2>1
      <3>2. /\ kept[j].of = c.of /\ kept[j].torn = c.torn /\ kept[j].st = "FILLED"
        BY <1>1, <3>1 DEF OrderRecord
      <3> QED
        BY <1>1, <1>4, <2>1, <3>2 DEF Restamped
    <2>2. CASE j # i
      BY <1>1, <2>2 DEF Restamped, RestingInv, RestingSound
    <2> QED
      BY <2>1, <2>2
  <1>6. RestingSound(kept) /\ kept[i].st = "FILLED"
    <2>1. kept[i] = [c EXCEPT !.st = "FILLED"]
      BY <1>1
    <2>2. kept[i].st = "FILLED"
      BY <1>1, <2>1 DEF OrderRecord
    <2> QED
      BY <1>1, <1>3, <1>5, <2>2, RestampedSound DEF RestingInv
  <1>7. leg \in OrderRecord /\ leg.of = i /\ leg.st = "FILLED" /\ leg.row = "NONE"
    BY <1>1, OrderType DEF Order, OrderRecord
  <1> HIDE DEF kept, leg, i, c
  <1>8. CASE orders' = kept
    BY <1>3, <1>5, <1>8, KeptOrders
  <1>9. CASE orders' = Append(kept, leg)
    <2>1. RestingSound(Append(kept, leg))
      BY <1>1, <1>3, <1>6, <1>7, AddedResting
    <2>2. /\ orders'[Len(orders')] = leg /\ \A j \in DOMAIN orders : orders'[j] = kept[j]
      BY <1>1, <1>3, <1>9
    <2>3. orders[i].st = "PENDING" /\ (orders[i].torn \/ LegsOfResting(i) = {})
      BY <1>1, <1>4 DEF c
    <2>4. \A j \in DOMAIN orders : orders[j].st = "CANCELLED" => orders'[j].st = "CANCELLED"
      BY <1>5, <2>2 DEF Restamped
    <2>5. orders'[Len(orders')].of = i
      BY <1>7, <2>2
    <2>6. KeepsOrders
      BY <2>3, <2>4, <2>5 DEF KeepsOrders
    <2> QED
      BY <1>9, <2>1, <2>6 DEF RestingInv
  <1> QED
    BY <1>2, <1>8, <1>9

LEMMA RestingStep ==
    ASSUME BookInv, RestingInv, [BookNext]_bookVars
    PROVE  RestingInv' /\ KeepsOrders
  <1> DEFINE Goal == RestingInv' /\ KeepsOrders
  <1>1. ASSUME orders' = orders PROVE Goal
    BY <1>1, SameKeeps
  <1>2. Own \in Nat /\ Own = Len(orders) + 1 /\ NoId \in Ids \cup {NoId}
    BY CidType DEF Own
  <1>3. ASSUME NEW q \in Clients, NEW o \in Payloads, Place(q, o) PROVE Goal
    BY <1>1, <1>3 DEF Place
  <1>4. ASSUME NEW q \in Clients, Reject(q) PROVE Goal
    BY <1>1, <1>4 DEF Reject
  <1>5. ASSUME NEW q \in Clients, Rest(q) PROVE Goal
    <2> DEFINE o == Order(task[q].k, task[q].n, task[q].cid, "PENDING", 0)
    <2>1. orders' = Append(orders, o) /\ task[q].pc = "quote"
      BY <1>5 DEF Rest
    <2>2. o \in OrderRecord /\ o.st = "PENDING" /\ o.of = 0
      BY <2>1, CidType, OrderType DEF Order
    <2> HIDE DEF o
    <2> QED
      BY <2>1, <2>2, AppendKeeps
  <1>6. ASSUME NEW q \in Clients, NEW k \in Contracts, SquareOff(q, k) PROVE Goal
    BY <1>1, <1>6 DEF SquareOff
  <1>7. ASSUME NEW q \in Clients, NEW p \in Prices, FillNow(q, p) PROVE Goal
    <2> DEFINE o == Order(task[q].k, task[q].n, task[q].cid, "FILLED", Own)
    <2>1. orders' = Append(orders, o) /\ task[q].pc = "quote"
      BY <1>7 DEF FillNow
    <2>2. o \in OrderRecord /\ o.st = "FILLED" /\ o.of = Own /\ o.row = "NONE"
      BY <1>2, <2>1, CidType, OrderType DEF Order
    <2> HIDE DEF o
    <2> QED
      BY <2>1, <2>2, AppendKeeps
  <1>8. ASSUME NEW q \in Clients, NEW p \in Prices, Exit(q, p) PROVE Goal
    <2> DEFINE k == task[q].k
               n == -Pos(k).qty
               o == Order(k, n, NoId, "FILLED", Own)
    <2>1. task[q].pc = "exit" /\ (orders' = orders \/ orders' = Append(orders, o))
      BY <1>8 DEF Exit
    <2>2. k \in Contracts /\ n \in Int \ {0}
      <3>1. k \in Open /\ HeapSound
        BY <2>1, CidType
      <3>2. Pos(k).qty \in Int /\ Pos(k).qty # 0 /\ k \in Contracts
        BY <3>1, PosSound DEF Open, Sound, PosRecord
      <3> QED
        BY <3>2
    <2>3. o \in OrderRecord /\ o.st = "FILLED" /\ o.of = Own /\ o.row = "NONE"
      BY <1>2, <2>2, OrderType DEF Order
    <2> HIDE DEF o
    <2> QED
      BY <1>1, <2>1, <2>3, AppendKeeps
  <1>9. ASSUME NEW q \in Tasks, SaveOrder(q) \/ SavePosition(q) \/ SavePortfolio(q) PROVE Goal
    <2>1. CASE SaveOrder(q)
      <3>1. Filled(orders, task[q].ord)
        BY <2>1 DEF SaveOrder, BookInv, TasksSound, TaskSound
      <3> QED
        BY <2>1, <3>1, RowKeeps DEF SaveOrder
    <2>2. CASE SavePosition(q) \/ SavePortfolio(q)
      BY <1>1, <2>2 DEF SavePosition, SavePortfolio
    <2> QED
      BY <1>9, <2>1, <2>2
  <1>10. ASSUME NEW i \in DOMAIN orders, Cancel(i) PROVE Goal
    BY <1>10, CancelKeeps
  <1>11. ASSUME Reset \/ Restart PROVE Goal
    BY <1>11, ResetKeeps, RestartKeeps
  <1>12. ASSUME SaveTouched PROVE Goal
    <2>1. Filled(orders, task["worker"].ord)
      BY <1>12 DEF SaveTouched, BookInv, TasksSound, TaskSound, Tasks
    <2> QED
      BY <1>12, <2>1, RowKeeps DEF SaveTouched
  <1>13. ASSUME Hydrate \/ TouchSkip PROVE Goal
    BY <1>1, <1>13 DEF Hydrate, TouchSkip
  <1>14. ASSUME NEW k \in Contracts, TouchStart(k) PROVE Goal
    BY <1>1, <1>14 DEF TouchStart
  <1>15. ASSUME NEW k \in Contracts, NEW p \in Prices, Mark(k, p) PROVE Goal
    BY <1>1, <1>15 DEF Mark
  <1>16. ASSUME NEW p \in Prices, Touch(p) PROVE Goal
    BY <1>16, TouchKeeps
  <1>17. CASE UNCHANGED bookVars
    BY <1>1, <1>17 DEF bookVars
  <1> QED
    BY <1>3, <1>4, <1>5, <1>6, <1>7, <1>8, <1>9, <1>10, <1>11, <1>12, <1>13, <1>14, <1>15,
       <1>16, <1>17 DEF BookNext

-----------------------------------------------------------------------------
(* The theorems *)

LEMMA InitOrder == BookInit => OrderInv
  <1> SUFFICES ASSUME BookInit PROVE OrderInv
    OBVIOUS
  <1>1. \A q \in Tasks : task[q].pc = "idle"
    BY DEF BookInit, Idle
  <1>2. "worker" \in Tasks /\ Clients \subseteq Tasks
    BY DEF Tasks
  <1>4. IdsSound
    BY <1>1, <1>2 DEF BookInit, IdsSound
  <1>5. Open = {} /\ rows.known = {}
    BY DEF BookInit, NoRows, Open, Pos, Flat
  <1>6. Cardinality({}) = 0 /\ MaxOpen \in Nat
    BY FS_EmptySet, BookConstants
  <1>7. OpenSound
    BY <1>1, <1>2, <1>5, <1>6 DEF OpenSound
  <1> QED
    BY <1>4, <1>7 DEF OrderInv

LEMMA StepOrder == BookInv /\ OrderInv /\ [BookNext]_bookVars => OrderInv'
  <1> SUFFICES ASSUME BookInv, OrderInv, [BookNext]_bookVars PROVE OrderInv'
    OBVIOUS
  <1>1. ASSUME NEW q \in Clients, NEW o \in Payloads, Place(q, o) PROVE OrderInv'
    BY <1>1, PlaceOrder
  <1>2. ASSUME NEW q \in Clients, Reject(q) \/ Rest(q) PROVE OrderInv'
    BY <1>2, RejectOrder, RestOrder
  <1>3. ASSUME NEW q \in Clients, NEW k \in Contracts, SquareOff(q, k) PROVE OrderInv'
    BY <1>3, SquareOffOrder
  <1>4. ASSUME NEW q \in Clients, NEW p \in Prices, FillNow(q, p) \/ Exit(q, p) PROVE OrderInv'
    BY <1>4, FillNowOrder, ExitOrder
  <1>5. ASSUME NEW q \in Tasks, SaveOrder(q) \/ SavePosition(q) \/ SavePortfolio(q) PROVE OrderInv'
    BY <1>5, SavingOrder
  <1>6. ASSUME NEW i \in DOMAIN orders, Cancel(i) PROVE OrderInv'
    BY <1>6, CancelOrder
  <1>7. ASSUME Reset \/ Restart \/ Hydrate PROVE OrderInv'
    BY <1>7, ResetOrder, RestartOrder, HydrateOrder
  <1>8. ASSUME NEW k \in Contracts, TouchStart(k) PROVE OrderInv'
    BY <1>8, TouchStartOrder
  <1>9. ASSUME NEW k \in Contracts, NEW p \in Prices, Mark(k, p) PROVE OrderInv'
    BY <1>9, MarkOrder
  <1>10. ASSUME TouchSkip \/ SaveTouched PROVE OrderInv'
    BY <1>10, TouchSkipOrder, SaveTouchedOrder
  <1>11. ASSUME NEW p \in Prices, Touch(p) PROVE OrderInv'
    BY <1>11, TouchOrder
  <1>12. CASE UNCHANGED bookVars
    BY <1>12, SameOpen DEF bookVars, OrderInv, IdsSound, OpenSound, Empty
  <1> QED
    BY <1>1, <1>2, <1>3, <1>4, <1>5, <1>6, <1>7, <1>8, <1>9, <1>10, <1>11, <1>12 DEF BookNext

LEMMA OrderInvariant == BookSpec => [](BookInv /\ OrderInv)
  BY BookInvariant, InitOrder, StepOrder, PTL DEF BookSpec

LEMMA InitResting == BookInit => RestingInv
  BY DEF BookInit, RestingInv, RestingSound

LEMMA RestingInvariant == BookSpec => [](BookInv /\ RestingInv)
  <1>1. BookInv /\ RestingInv /\ [BookNext]_bookVars => RestingInv'
    BY RestingStep
  <1> QED
    BY <1>1, BookInvariant, InitResting, PTL DEF BookSpec

\* "Another tick may have filled it": no sequence of cancels, resets, ticks and
\* restarts that read the pending orders back fills a cancelled resting order,
\* or fills one twice, except one that is torn: whose leg was saved, and whose
\* own status was not, when the process died.
THEOREM RestingOrdersFillOnce == BookSpec => RestingFillsOnce
  <1>1. BookInv /\ RestingInv /\ [BookNext]_bookVars => [KeepsOrders]_bookVars
    BY RestingStep
  <1>2. BookSpec => [][KeepsOrders]_bookVars
    BY <1>1, RestingInvariant, PTL DEF BookSpec
  <1>3. RestingFillsOnce <=> [][KeepsOrders]_bookVars
    BY DEF RestingFillsOnce, KeepsOrders
  <1> QED
    BY <1>2, <1>3

\* A client id stands for one order that rests or has filled, however often it
\* is submitted, cancelled and filled by the worker: within a process, since a
\* restart forgets the ids.
THEOREM ClientIdsAreUnique ==
    ASSUME "restart" \notin Acts
    PROVE  BookSpec => []OneOrderPerClientId
  <1>1. OrderInv => OneOrderPerClientId
    BY DEF OrderInv, IdsSound, Live, OneOrderPerClientId
  <1> QED
    BY <1>1, OrderInvariant, PTL

\* No more positions are open than allowed, although the count is taken before
\* the quote is awaited and the worker fills without the lock: within a process,
\* since an order placed after a restart does not count the positions that were
\* not yet read back.
THEOREM PositionsAreBounded ==
    ASSUME "restart" \notin Acts, MaxOpen # 0
    PROVE  BookSpec => []OpenBounded
  <1>1. OrderInv => OpenBounded
    BY DEF OrderInv, OpenSound, OpenBounded
  <1> QED
    BY <1>1, OrderInvariant, PTL

-----------------------------------------------------------------------------
(* Fills and the objects of positions *)

\* No two contracts refer to one position object.
Distinct == \A j, k \in Contracts : j # k /\ book[j] # 0 => book[j] # book[k]

LEMMA DistinctKept == ASSUME Distinct, book' = book PROVE Distinct'
  BY DEF Distinct

\* The object of a contract is changed in place.
LEMMA PutHere ==
    ASSUME HeapSound, Distinct, NEW k \in Contracts, book[k] # 0, NEW y,
           heap' = [heap EXCEPT ![book[k]] = y], book' = book
    PROVE  Pos(k)' = y /\ \A j \in Contracts \ {k} : Pos(j)' = Pos(j)
  <1>1. heap \in Seq(PosRecord) /\ Len(heap) \in Nat /\ book \in [Contracts -> 0..Len(heap)]
    BY DEF HeapSound, SoundHeap
  <1>2. Pos(k)' = y
    BY <1>1 DEF Pos
  <1>3. ASSUME NEW j \in Contracts \ {k} PROVE Pos(j)' = Pos(j)
    <2>1. CASE book[j] = 0
      BY <2>1 DEF Pos
    <2>2. CASE book[j] # 0
      <3>1. book[j] # book[k] /\ book[j] \in 1..Len(heap)
        BY <1>1, <2>2 DEF Distinct
      <3> QED
        BY <1>1, <2>2, <3>1 DEF Pos
    <2> QED
      BY <2>1, <2>2
  <1> QED
    BY <1>2, <1>3

\* A contract gets a new object; only its old one may have changed.
LEMMA PutFresh ==
    ASSUME HeapSound, Distinct, NEW k \in Contracts, NEW h \in Seq(PosRecord),
           Len(h) = Len(heap), \A i \in DOMAIN heap : i # book[k] => h[i] = heap[i],
           NEW y \in PosRecord, heap' = Append(h, y), book' = [book EXCEPT ![k] = Len(h) + 1]
    PROVE  Pos(k)' = y /\ (\A j \in Contracts \ {k} : Pos(j)' = Pos(j)) /\ Distinct'
  <1>1. heap \in Seq(PosRecord) /\ Len(heap) \in Nat /\ book \in [Contracts -> 0..Len(heap)]
    BY DEF HeapSound, SoundHeap
  <1>2. book'[k] = Len(heap) + 1 /\ \A j \in Contracts \ {k} : book'[j] = book[j]
    BY <1>1
  <1>3. heap'[Len(heap) + 1] = y /\ \A i \in 1..Len(heap) : heap'[i] = h[i]
    BY <1>1
  <1>4. Pos(k)' = y
    BY <1>1, <1>2, <1>3 DEF Pos
  <1>5. ASSUME NEW j \in Contracts \ {k} PROVE Pos(j)' = Pos(j)
    <2>1. CASE book[j] = 0
      BY <1>2, <2>1 DEF Pos
    <2>2. CASE book[j] # 0
      <3>1. book[j] # book[k] /\ book[j] \in 1..Len(heap) /\ book[j] \in DOMAIN heap
        BY <1>1, <2>2 DEF Distinct
      <3>2. heap'[book[j]] = heap[book[j]]
        BY <1>3, <3>1
      <3> QED
        BY <1>2, <2>2, <3>2 DEF Pos
    <2> QED
      BY <2>1, <2>2
  <1>6. Distinct'
    BY <1>1, <1>2 DEF Distinct
  <1> QED
    BY <1>4, <1>5, <1>6

\* What an order of n does to a position.
MovedBy(x, y, n, p) ==
    /\ y.qty = x.qty + n
    /\ ~Opposed(x.qty, n) => y.margin = x.margin + Margin(n, p)

\* A fill moves its own contract by the order, and no other.
LEMMA FillMoves ==
    ASSUME HeapSound, Distinct, NEW k \in Contracts, NEW n \in Int \ {0}, NEW p \in Prices,
           heap' = Fill(k, n, p).heap, book' = [book EXCEPT ![k] = Fill(k, n, p).at]
    PROVE  /\ MovedBy(Pos(k), Pos(k)', n, p)
           /\ \A j \in Contracts \ {k} : Pos(j)' = Pos(j)
           /\ book'[k] # 0 /\ \A j \in Contracts \ {k} : book'[j] = book[j]
           /\ Distinct'
  <1> DEFINE x == Pos(k)
             f == Fill(k, n, p)
  <1>0. Sound(x) /\ x \in PosRecord /\ x.qty \in Int
    BY PosSound DEF Sound, PosRecord
  <1>1. /\ heap \in Seq(PosRecord) /\ Len(heap) \in Nat /\ SoundHeap(heap)
        /\ book \in [Contracts -> 0..Len(heap)]
        /\ n \in Int /\ Size(n) \in Nat /\ Size(x.qty) \in Nat
        /\ p \in Int /\ Margin(n, p) \in Nat
    <2> HIDE DEF f, x
    <2>1. SoundHeap(heap) /\ heap \in Seq(PosRecord) /\ book \in [Contracts -> 0..Len(heap)]
      BY DEF HeapSound, SoundHeap
    <2>2. n \in Int /\ Size(n) \in Nat /\ Size(x.qty) \in Nat
      BY <1>0, SizeType
    <2>3. p \in Int
      BY BookConstants
    <2>4. Margin(n, p) \in Nat
      BY <2>2, MarginType
    <2> QED
      BY <2>1, <2>2, <2>3, <2>4
  <1>2. x.qty # 0 => book[k] \in 1..Len(heap) /\ x = heap[book[k]]
    BY HeldType DEF Pos, Flat
  <1>3. book'[k] = f.at /\ \A j \in Contracts \ {k} : book'[j] = book[j]
    BY <1>1
  <1> SUFFICES /\ MovedBy(x, Pos(k)', n, p) /\ \A j \in Contracts \ {k} : Pos(j)' = Pos(j)
               /\ book'[k] # 0 /\ Distinct'
    <2> HIDE DEF f
    <2> QED
      BY <1>3
  <1>4. ASSUME NEW y, MovedBy(x, y, n, p), x.qty # 0,
               f = [heap |-> [heap EXCEPT ![book[k]] = y], at |-> book[k]]
        PROVE  /\ MovedBy(x, Pos(k)', n, p) /\ \A j \in Contracts \ {k} : Pos(j)' = Pos(j)
               /\ book'[k] # 0 /\ Distinct'
    <2>1. book[k] # 0 /\ heap' = [heap EXCEPT ![book[k]] = y] /\ book' = book
      BY <1>1, <1>2, <1>4
    <2> HIDE DEF f, x
    <2> QED
      BY <1>4, <2>1, PutHere, DistinctKept
  <1>5. ASSUME NEW h \in Seq(PosRecord), Len(h) = Len(heap),
               \A i \in DOMAIN heap : i # book[k] => h[i] = heap[i],
               NEW y \in PosRecord, MovedBy(x, y, n, p),
               f = [heap |-> Append(h, y), at |-> Len(h) + 1]
        PROVE  /\ MovedBy(x, Pos(k)', n, p) /\ \A j \in Contracts \ {k} : Pos(j)' = Pos(j)
               /\ book'[k] # 0 /\ Distinct'
    <2>1. heap' = Append(h, y) /\ book' = [book EXCEPT ![k] = Len(h) + 1]
      BY <1>5
    <2>2. book'[k] # 0
      BY <1>1, <1>5, <2>1
    <2> HIDE DEF f, x
    <2> QED
      BY <1>5, <2>1, <2>2, PutFresh
  <1>6. CASE x.qty = 0
    <2> DEFINE y == Opened(n, p)
    <2>1. f = [heap |-> Append(heap, y), at |-> Len(heap) + 1]
      BY <1>6 DEF Fill
    <2>2. y \in PosRecord
      BY <1>0, <1>1 DEF Opened, PosRecord, Side
    <2>3. y.qty = x.qty + n /\ y.margin = Margin(n, p) /\ x.margin = 0
      BY <1>0, <1>1, <1>6 DEF Opened, Sound
    <2>4. MovedBy(x, y, n, p)
      BY <1>0, <1>1, <2>3 DEF MovedBy
    <2> HIDE DEF f, x, y
    <2> QED
      BY <1>1, <1>5, <2>1, <2>2, <2>4
  <1>7. CASE x.qty # 0 /\ ~Opposed(x.qty, n)
    <2> DEFINE y == Added(x, n, p)
    <2>1. f = [heap |-> [heap EXCEPT ![book[k]] = y], at |-> book[k]]
      BY <1>7 DEF Fill
    <2>2. MovedBy(x, y, n, p)
      BY DEF Added, MovedBy
    <2> HIDE DEF f, x, y
    <2> QED
      BY <1>4, <1>7, <2>1, <2>2
  <1>8. CASE x.qty # 0 /\ Opposed(x.qty, n) /\ Size(n) < Size(x.qty)
    <2> DEFINE y == Reduced(x, n, p)
    <2>1. f = [heap |-> [heap EXCEPT ![book[k]] = y], at |-> book[k]]
      BY <1>8 DEF Fill
    <2>2. MovedBy(x, y, n, p)
      BY <1>0, <1>1, <1>8 DEF Reduced, PosRecord, MovedBy
    <2> HIDE DEF f, x, y
    <2> QED
      BY <1>4, <1>8, <2>1, <2>2
  <1>9. CASE x.qty # 0 /\ Opposed(x.qty, n) /\ Size(n) = Size(x.qty)
    <2> DEFINE y == Closed(x, p)
    <2>1. f = [heap |-> [heap EXCEPT ![book[k]] = y], at |-> book[k]]
      BY <1>0, <1>1, <1>9 DEF Fill
    <2>2. MovedBy(x, y, n, p)
      BY <1>0, <1>1, <1>9, ClosedSound DEF Opposed, Size, MovedBy
    <2> HIDE DEF f, x, y
    <2> QED
      BY <1>4, <1>9, <2>1, <2>2
  <1>10. CASE x.qty # 0 /\ Opposed(x.qty, n) /\ Size(n) > Size(x.qty)
    <2> DEFINE h == [heap EXCEPT ![book[k]] = Closed(x, p)]
               y == Opened(x.qty + n, p)
    <2>1. f = [heap |-> Append(h, y), at |-> Len(h) + 1]
      BY <1>0, <1>1, <1>10 DEF Fill
    <2>2. h \in Seq(PosRecord) /\ Len(h) = Len(heap)
          /\ \A i \in DOMAIN heap : i # book[k] => h[i] = heap[i]
      BY <1>0, <1>1, <1>2, <1>10, ClosedSound, PutSound DEF SoundHeap
    <2>3. x.qty + n \in Int
      BY <1>0, <1>1
    <2>4. y \in PosRecord
      BY <1>0, <1>1, <2>3, MarginType DEF Opened, PosRecord, Side
    <2>5. MovedBy(x, y, n, p)
      BY <1>10 DEF Opened, MovedBy
    <2> HIDE DEF f, x, h, y
    <2> QED
      BY <1>5, <2>1, <2>2, <2>4, <2>5
  <1>11. Size(n) \in Nat /\ Size(x.qty) \in Nat
    BY <1>1
  <1> HIDE DEF f, x
  <1> QED
    BY <1>6, <1>7, <1>8, <1>9, <1>10, <1>11

-----------------------------------------------------------------------------
(* What the margin check needs of the awaited quote *)

\* The realized P&L read before the await is still the account's.
RealSound == \A q \in Clients : task[q].pc = "quote" => task[q].real = realized

CoverInv == Distinct /\ RealSound

LEMMA ExecuteCover ==
    ASSUME BookInv, CoverInv, NEW q \in Clients, task[q].pc \in {"quote", "exit"},
           NEW k \in Contracts, NEW n \in Int \ {0}, NEW p \in Prices, Execute(q, k, n, p)
    PROVE  CoverInv'
  <1>1. /\ heap' = Fill(k, n, p).heap /\ book' = [book EXCEPT ![k] = Fill(k, n, p).at]
        /\ task'[q].pc = "save" /\ \A r \in Clients \ {q} : task'[r] = task[r]
        /\ HeapSound
    BY CidType DEF Execute, Saving
  <1>2. Distinct'
    BY <1>1, FillMoves DEF CoverInv
  <1>3. RealSound'
    BY <1>1, AloneInside DEF RealSound, Inside
  <1> QED
    BY <1>2, <1>3 DEF CoverInv

\* What a request holds when it fills its order or its exit.
LEMMA FillNowFacts ==
    ASSUME BookInv, NEW q \in Clients, NEW p \in Prices, FillNow(q, p)
    PROVE  /\ task[q].pc = "quote" /\ Execute(q, task[q].k, task[q].n, p)
           /\ task[q].k \in Contracts /\ task[q].n \in Int \ {0}
  BY CidType DEF FillNow

LEMMA ExitFacts ==
    ASSUME BookInv, NEW q \in Clients, NEW p \in Prices, Exit(q, p), NEW k, k = task[q].k
    PROVE  /\ task[q].pc = "exit" /\ k \in Contracts
           /\ Pos(k).qty \in Int /\ -Pos(k).qty \in Int \ {0} /\ Pos(k).qty # 0
           /\ \/ Release(q) /\ heap' = [heap EXCEPT ![book[k]].ltp = p]
                 /\ UNCHANGED <<book, orders, realized>>
              \/ Execute(q, k, -Pos(k).qty, p)
                 /\ orders' = Append(orders, Order(k, -Pos(k).qty, NoId, "FILLED", Own))
  <1>1. task[q].pc = "exit" /\ k \in Open /\ k \in Contracts /\ HeapSound
    BY CidType DEF Exit, Open
  <1>2. Pos(k).qty \in Int /\ Pos(k).qty # 0
    BY <1>1, PosSound DEF Open, Sound, PosRecord
  <1>3. CASE Refused(k, -Pos(k).qty)
    BY <1>1, <1>2, <1>3 DEF Exit
  <1>4. CASE ~Refused(k, -Pos(k).qty)
    BY <1>1, <1>2, <1>4 DEF Exit
  <1> QED
    BY <1>3, <1>4

\* What the worker holds when it evaluates a resting order.
LEMMA TouchFacts ==
    ASSUME BookInv, NEW p \in Prices, Touch(p), NEW i, i = Candidate, NEW o, o = orders[i]
    PROVE  /\ i \in DOMAIN orders /\ o \in OrderRecord /\ StillPending(i)
           /\ o.k \in Contracts /\ o.n \in Int \ {0}
           /\ \A q \in Clients : task'[q] = task[q] /\ task[q].pc \notin Inside
           /\ \/ /\ orders' = [orders EXCEPT ![i].st = "FILLED"]
                 /\ UNCHANGED <<heap, book, realized>>
                 /\ task'["worker"].pc # "save"
              \/ /\ Covered(o.k, o.n, p, realized)
                 /\ orders' = Append([orders EXCEPT ![i].st = "FILLED"],
                                     Order(o.k, o.n, NoId, "FILLED", i))
                 /\ heap' = Fill(o.k, o.n, p).heap
                 /\ book' = [book EXCEPT ![o.k] = Fill(o.k, o.n, p).at]
                 /\ task'["worker"].pc = "save" /\ task'["worker"].k = o.k
           /\ UNCHANGED <<lock, rows>>
  <1>1. task["worker"].pc = "loop" /\ Free /\ StillPending(i) /\ UNCHANGED <<lock, rows>>
    BY DEF Touch
  <1>2. i \in DOMAIN orders /\ o \in OrderRecord
    BY <1>1, CandidateType
  <1>3. o.k \in Contracts /\ o.n \in Int \ {0}
    BY <1>2 DEF OrderRecord
  <1>4. \A q \in Clients : task[q].pc \notin Inside
    BY <1>1, NobodyInside
  <1>5. CASE Refused(o.k, o.n) \/ ~Covered(o.k, o.n, p, realized)
    <2>1. /\ orders' = [orders EXCEPT ![i].st = "FILLED"]
          /\ UNCHANGED <<heap, book, realized>>
          /\ task' = [task EXCEPT !["worker"] = [@ EXCEPT !.pc = "mark", !.ord = i,
                                                         !.todo = task["worker"].todo \ {i}]]
      BY <1>5 DEF Touch
    <2>2. task'["worker"].pc # "save" /\ \A q \in Clients : task'[q] = task[q]
      BY <2>1, CidType DEF TaskRecord
    <2> QED
      BY <1>1, <1>2, <1>3, <1>4, <2>1, <2>2
  <1>6. CASE ~(Refused(o.k, o.n) \/ ~Covered(o.k, o.n, p, realized))
    <2>1. /\ orders' = Append([orders EXCEPT ![i].st = "FILLED"],
                              Order(o.k, o.n, NoId, "FILLED", i))
          /\ heap' = Fill(o.k, o.n, p).heap
          /\ book' = [book EXCEPT ![o.k] = Fill(o.k, o.n, p).at]
      BY <1>6 DEF Touch
    <2>2. PICK at, gain : task' = [task EXCEPT !["worker"] =
                            [Saving(@, o.k, at, gain) EXCEPT !.todo = task["worker"].todo \ {i}]]
      BY <1>6 DEF Touch
    <2>3. task'["worker"].pc = "save" /\ task'["worker"].k = o.k
          /\ \A q \in Clients : task'[q] = task[q]
      BY <2>2, CidType DEF Saving, TaskRecord
    <2> QED
      BY <1>1, <1>2, <1>3, <1>4, <1>6, <2>1, <2>3
  <1> QED
    BY <1>5, <1>6

\* The contracts of the rows get an object each.
LEMMA LoadedDistinct ==
    ASSUME BookInv, NEW h, Len(h) \in Nat, book' = Loaded(h).book
    PROVE  Distinct'
  <1> DEFINE ks == rows.known
             n == Cardinality(ks)
             row == CHOOSE f \in [1..n -> ks] : \A k \in ks : \E i \in 1..n : f[i] = k
             at(k) == CHOOSE i \in 1..n : row[i] = k
  <1>1. book' = [k \in Contracts |-> IF k \in ks THEN Len(h) + at(k) ELSE 0]
    BY DEF Loaded
  <1>2. ks \in SUBSET Contracts /\ n \in Nat /\ Len(h) \in Nat
    BY CidType, RowOrder
  <1>3. \E f \in [1..n -> ks] : \A k \in ks : \E i \in 1..n : f[i] = k
    BY <1>2, RowOrder
  <1>4. \A k \in ks : \E i \in 1..n : row[i] = k
    BY <1>3
  <1> HIDE DEF row, ks, n
  <1>5. \A k \in ks : at(k) \in 1..n /\ row[at(k)] = k
    BY <1>4
  <1> HIDE DEF at
  <1>6. SUFFICES ASSUME NEW j \in Contracts, NEW k \in Contracts, j # k, book'[j] # 0
                 PROVE  book'[j] # book'[k]
    BY DEF Distinct
  <1>7. j \in ks /\ book'[j] = Len(h) + at(j)
    BY <1>1, <1>6
  <1>8. CASE k \in ks
    BY <1>1, <1>2, <1>5, <1>6, <1>7, <1>8
  <1>9. CASE k \notin ks
    BY <1>1, <1>6, <1>9
  <1> QED
    BY <1>8, <1>9

\* A coroutine that saves goes on saving the same contract, or is done.
LEMMA SavingTasks ==
    ASSUME BookInv, NEW q \in Tasks, SaveOrder(q) \/ SavePosition(q) \/ SavePortfolio(q)
    PROVE  /\ task[q].pc = "save" /\ UNCHANGED <<heap, book, realized>>
           /\ \A r \in Tasks \ {q} : task'[r] = task[r]
           /\ task'[q].pc # "quote" /\ (task'[q].pc = "save" => task'[q].k = task[q].k)
           /\ rows'.known \in {rows.known, rows.known \cup {task[q].k}}
  <1>1. /\ task[q] \in TaskRecord /\ task \in [Tasks -> TaskRecord]
        /\ rows \in [pos : [Contracts -> PosRecord], known : SUBSET Contracts, real : Int,
                      obj : [Contracts -> Nat]]
    BY DEF BookInv, TasksSound, RowsSound
  <1>2. CASE SaveOrder(q) \/ SavePosition(q)
    <2>1. task[q].pc = "save" /\ UNCHANGED <<heap, book, realized>>
          /\ (task' = [task EXCEPT ![q].done = 1] \/ task' = [task EXCEPT ![q].done = 2])
      BY <1>2 DEF SaveOrder, SavePosition
    <2>2. rows' = rows \/ rows'.known = rows.known \cup {task[q].k}
      BY <1>1, <1>2 DEF SaveOrder, SavePosition, Saved
    <2> QED
      BY <1>1, <2>1, <2>2 DEF TaskRecord
  <1>3. CASE SavePortfolio(q)
    <2>1. task[q].pc = "save" /\ UNCHANGED <<heap, book, realized>> /\ rows'.known = rows.known
      BY <1>1, <1>3 DEF SavePortfolio
    <2>2. CASE q = "worker"
      <3> DEFINE t == [task[q] EXCEPT !.pc = "mark", !.ord = orders[task[q].ord].of, !.done = 0]
      <3>1. task' = [task EXCEPT ![q] = t] /\ t.pc = "mark"
        BY <1>1, <1>3, <2>2 DEF SavePortfolio, TaskRecord
      <3> HIDE DEF t
      <3> QED
        BY <1>1, <2>1, <3>1
    <2>3. CASE q # "worker"
      BY <1>1, <1>3, <2>1, <2>3, IdleType DEF SavePortfolio, Release
    <2> QED
      BY <2>2, <2>3
  <1> QED
    BY <1>2, <1>3

LEMMA SaveTouchedTasks ==
    ASSUME BookInv, SaveTouched
    PROVE  /\ task["worker"].pc = "mark" /\ UNCHANGED <<heap, book, realized, rows>>
           /\ task'["worker"].pc \in {"idle", "loop"} /\ \A q \in Clients : task'[q] = task[q]
           /\ task["worker"].ord \in DOMAIN orders
           /\ orders' = [orders EXCEPT ![task["worker"].ord].row = orders[task["worker"].ord].st]
  <1>1. task["worker"] \in TaskRecord /\ task["worker"].pc = "mark" /\ TaskSound("worker")
    BY DEF SaveTouched, BookInv, TasksSound, Tasks
  <1>2. task["worker"].ord \in DOMAIN orders
    BY <1>1 DEF TaskSound, Filled
  <1>3. task'["worker"].pc \in {"idle", "loop"} /\ \A q \in Clients : task'[q] = task[q]
    BY <1>1, CidType, IdleType DEF SaveTouched, TaskRecord
  <1> QED
    BY <1>1, <1>2, <1>3 DEF SaveTouched

LEMMA CoverStep ==
    ASSUME BookInv, CoverInv, [BookNext]_bookVars
    PROVE  CoverInv'
  <1>1. ASSUME book' = book, \A q \in Clients : task'[q].pc # "quote" PROVE CoverInv'
    BY <1>1, DistinctKept DEF CoverInv, RealSound
  <1>2. ASSUME UNCHANGED <<book, realized>>,
               \A q \in Clients : task'[q] = task[q] \/ task'[q].pc # "quote"
        PROVE  CoverInv'
    BY <1>2, DistinctKept DEF CoverInv, RealSound
  <1>3. ASSUME NEW q \in Clients, NEW o \in Payloads, Place(q, o) PROVE CoverInv'
    <2>1. /\ Free /\ UNCHANGED <<book, realized>>
          /\ task'[q].real = realized /\ \A r \in Clients \ {q} : task'[r] = task[r]
      BY <1>3, CidType DEF Place, Idle
    <2> QED
      BY <2>1, NobodyInside, DistinctKept DEF CoverInv, RealSound, Inside
  <1>4. ASSUME NEW q \in Clients, task[q].pc \in Inside, Release(q), book' = book PROVE CoverInv'
    BY <1>1, <1>4, Released DEF Inside
  <1>5. ASSUME NEW q \in Clients, Reject(q) \/ Rest(q) PROVE CoverInv'
    BY <1>4, <1>5 DEF Reject, Rest, Inside
  <1>6. ASSUME NEW q \in Clients, NEW k \in Contracts, SquareOff(q, k) PROVE CoverInv'
    <2>1. /\ Free /\ book' = book
          /\ task'[q].pc = "exit" /\ \A r \in Clients \ {q} : task'[r] = task[r]
      BY <1>6, CidType DEF SquareOff, Idle
    <2> QED
      BY <1>1, <2>1, NobodyInside DEF Inside
  <1>7. ASSUME NEW q \in Clients, NEW p \in Prices, FillNow(q, p) PROVE CoverInv'
    BY <1>7, FillNowFacts, ExecuteCover
  <1>8. ASSUME NEW q \in Clients, NEW p \in Prices, Exit(q, p) PROVE CoverInv'
    <2> DEFINE k == task[q].k
    <2>1. /\ task[q].pc = "exit" /\ k \in Contracts /\ -Pos(k).qty \in Int \ {0}
          /\ (Release(q) /\ book' = book) \/ Execute(q, k, -Pos(k).qty, p)
      BY <1>8, ExitFacts
    <2> HIDE DEF k
    <2>2. CASE Release(q) /\ book' = book
      BY <1>4, <2>1, <2>2 DEF Inside
    <2>3. CASE Execute(q, k, -Pos(k).qty, p)
      BY <2>1, <2>3, ExecuteCover
    <2> QED
      BY <2>1, <2>2, <2>3
  <1>9. ASSUME NEW q \in Tasks, SaveOrder(q) \/ SavePosition(q) \/ SavePortfolio(q) PROVE CoverInv'
    BY <1>2, <1>9, SavingTasks DEF Tasks
  <1>10. ASSUME NEW i \in DOMAIN orders, Cancel(i) PROVE CoverInv'
    BY <1>2, <1>10 DEF Cancel
  <1>11. ASSUME Reset PROVE CoverInv'
    <2>1. Free /\ book' = [k \in Contracts |-> 0] /\ task' = task
      BY <1>11 DEF Reset
    <2> QED
      BY <2>1, NobodyInside DEF CoverInv, RealSound, Distinct, Inside
  <1>12. ASSUME Restart PROVE CoverInv'
    <2>1. book' = Loaded(<<>>).book \/ book' = [k \in Contracts |-> 0]
      BY <1>12 DEF Restart
    <2>2. Distinct'
      BY <2>1, LoadedDistinct DEF Distinct
    <2>3. \A q \in Clients : task'[q].pc = "idle"
      BY <1>12, CidType DEF Restart, Idle
    <2> QED
      BY <2>2, <2>3 DEF CoverInv, RealSound
  <1>13. ASSUME Hydrate PROVE CoverInv'
    <2>1. Free /\ task' = task /\ book' = Loaded(heap).book
      BY <1>13 DEF Hydrate
    <2>2. Distinct'
      BY <2>1, CidType, LoadedDistinct DEF HeapSound, SoundHeap
    <2> QED
      BY <2>1, <2>2, NobodyInside DEF CoverInv, RealSound, Inside
  <1>14. ASSUME NEW k \in Contracts, TouchStart(k) PROVE CoverInv'
    BY <1>2, <1>14, CidType DEF TouchStart
  <1>15. ASSUME TouchSkip \/ SaveTouched PROVE CoverInv'
    <2>1. CASE TouchSkip
      BY <1>2, <2>1, NextStays DEF TouchSkip
    <2>2. CASE SaveTouched
      BY <1>2, <2>2, SaveTouchedTasks
    <2> QED
      BY <1>15, <2>1, <2>2
  <1>16. ASSUME NEW k \in Contracts, NEW p \in Prices, Mark(k, p) PROVE CoverInv'
    BY <1>2, <1>16 DEF Mark
  <1>17. ASSUME NEW p \in Prices, Touch(p) PROVE CoverInv'
    <2> DEFINE o == orders[Candidate]
    <2>1. /\ o.k \in Contracts /\ o.n \in Int \ {0} /\ HeapSound
          /\ \A q \in Clients : task'[q].pc # "quote"
          /\ \/ book' = book
             \/ heap' = Fill(o.k, o.n, p).heap /\ book' = [book EXCEPT ![o.k] = Fill(o.k, o.n, p).at]
      BY <1>17, TouchFacts, CidType DEF Inside
    <2> HIDE DEF o
    <2>2. Distinct'
      BY <2>1, FillMoves, DistinctKept DEF CoverInv
    <2> QED
      BY <2>1, <2>2 DEF CoverInv, RealSound
  <1>18. CASE UNCHANGED bookVars
    BY <1>2, <1>18 DEF bookVars
  <1> QED
    BY <1>3, <1>5, <1>6, <1>7, <1>8, <1>9, <1>10, <1>11, <1>12, <1>13, <1>14, <1>15, <1>16,
       <1>17, <1>18 DEF BookNext

LEMMA PosPrimed == ASSUME HeapSound', NEW k \in Contracts PROVE Pos(k)' \in PosRecord
  <1>1. Flat \in PosRecord
    BY FlatSound DEF Sound
  <1>2. heap' \in Seq(PosRecord) /\ book' \in [Contracts -> 0..Len(heap')]
    BY DEF HeapSound, SoundHeap
  <1>3. Pos(k)' = IF book'[k] = 0 THEN Flat ELSE heap'[book'[k]]
    BY DEF Pos, Flat
  <1> QED
    BY <1>1, <1>2, <1>3

LEMMA UsedType == ASSUME HeapSound PROVE Used \in Int
  <1> DEFINE v == [j \in Contracts |-> Pos(j).margin]
  <1>1. \A j \in DOMAIN v : v[j] \in Int
    BY PosSound DEF Sound, PosRecord
  <1>2. IsFiniteSet(DOMAIN v)
    BY BookConstants
  <1>3. Used = SumFunctionOnSet(v, DOMAIN v)
    BY DEF Used, SumFunction
  <1> HIDE DEF v
  <1> QED
    BY <1>1, <1>2, <1>3, SumType

\* The margin a fill adds to its contract is the margin the account locks.
LEMMA UsedMoves ==
    ASSUME HeapSound, HeapSound', NEW k \in Contracts, \A j \in Contracts \ {k} : Pos(j)' = Pos(j)
    PROVE  Used' = Used + (Pos(k)'.margin - Pos(k).margin)
  <1> DEFINE v == [j \in Contracts |-> Pos(j).margin]
             w == [j \in Contracts |-> Pos(j)'.margin]
  <1>1. \A j \in Contracts : v[j] \in Int /\ w[j] \in Int
    <2>1. \A j \in Contracts : Pos(j).margin \in Nat
      BY PosSound DEF Sound, PosRecord
    <2>2. \A j \in Contracts : Pos(j)'.margin \in Nat
      BY PosPrimed DEF PosRecord
    <2> QED
      BY <2>1, <2>2
  <1>2. \A j \in Contracts \ {k} : v[j] = w[j]
    OBVIOUS
  <1>3. IsFiniteSet(Contracts)
    BY BookConstants
  <1>4. DOMAIN v = Contracts /\ DOMAIN w = Contracts
        /\ v[k] = Pos(k).margin /\ w[k] = Pos(k)'.margin
    OBVIOUS
  <1>5. Used = SumFunctionOnSet(v, DOMAIN v) /\ Used' = SumFunctionOnSet(w, DOMAIN w)
    BY DEF Used, SumFunction
  <1> HIDE DEF v, w
  <1>6. SumFunctionOnSet(w, Contracts) = SumFunctionOnSet(v, Contracts) + (w[k] - v[k])
    BY <1>1, <1>2, <1>3, SumChange
  <1> QED
    BY <1>4, <1>5, <1>6

\* Raising the position of k, and of no other contract, is covered.
CoversAdds ==
    \A k \in Contracts : Executed(k) /\ ~Opposed(Pos(k).qty, Pos(k)'.qty - Pos(k).qty) =>
         Used' - Used <= Available(realized)

LEMMA FillCovers ==
    ASSUME BookInv, CoverInv, HeapSound', NEW k \in Contracts, NEW n \in Int \ {0},
           NEW p \in Prices, Covered(k, n, p, realized),
           heap' = Fill(k, n, p).heap, book' = [book EXCEPT ![k] = Fill(k, n, p).at]
    PROVE  CoversAdds
  <1> SUFFICES ASSUME NEW j \in Contracts, Pos(j)'.qty # Pos(j).qty,
                      ~Opposed(Pos(j).qty, Pos(j)'.qty - Pos(j).qty)
               PROVE  Used' - Used <= Available(realized)
    BY DEF CoversAdds, Executed
  <1>1. HeapSound /\ Distinct
    BY CidType DEF CoverInv
  <1>2. MovedBy(Pos(k), Pos(k)', n, p) /\ \A i \in Contracts \ {k} : Pos(i)' = Pos(i)
    BY <1>1, FillMoves
  <1>3. j = k
    BY <1>2
  <1>4. Pos(k).qty \in Int /\ Pos(k).margin \in Int /\ n \in Int
    BY <1>1, PosSound DEF Sound, PosRecord
  <1>5. Pos(k)'.qty - Pos(k).qty = n
    BY <1>2, <1>4 DEF MovedBy
  <1>6. ~Opposed(Pos(k).qty, n)
    BY <1>3, <1>5
  <1>7. Pos(k)'.margin = Pos(k).margin + Margin(n, p) /\ Margin(n, p) <= Available(realized)
    BY <1>2, <1>6 DEF MovedBy, Covered
  <1>8. Margin(n, p) \in Nat /\ Used \in Int
    BY <1>1, <1>4, MarginType, UsedType
  <1>9. Used' = Used + (Pos(k)'.margin - Pos(k).margin)
    BY <1>1, <1>2, UsedMoves
  <1>10. Used' - Used = Margin(n, p)
    BY <1>4, <1>7, <1>8, <1>9
  <1> QED
    BY <1>7, <1>10

LEMMA CoveredStep ==
    ASSUME BookInv, CoverInv, [BookNext]_bookVars
    PROVE  CoversAdds
  <1>1. ASSUME orders' = orders PROVE CoversAdds
    BY <1>1, CidType DEF CoversAdds, Executed
  <1>2. HeapSound' /\ BookInv'
    BY StepInv DEF BookInv
  <1>3. ASSUME NEW q \in Clients, Rest(q) PROVE CoversAdds
    <2>1. \A k \in Contracts : Pos(k)' = Pos(k)
      BY <1>3 DEF Rest, Pos
    <2> QED
      BY <2>1 DEF CoversAdds, Executed
  <1>4. ASSUME NEW q \in Clients, NEW p \in Prices, FillNow(q, p) PROVE CoversAdds
    <2> DEFINE t == task[q]
    <2>1. /\ t.pc = "quote" /\ Execute(q, t.k, t.n, p) /\ t.k \in Contracts /\ t.n \in Int \ {0}
      BY <1>4, FillNowFacts
    <2>2. Covered(t.k, t.n, p, t.real) /\ t.real = realized
      BY <1>4, <2>1 DEF FillNow, CoverInv, RealSound
    <2>3. heap' = Fill(t.k, t.n, p).heap /\ book' = [book EXCEPT ![t.k] = Fill(t.k, t.n, p).at]
      BY <2>1 DEF Execute
    <2> HIDE DEF t
    <2> QED
      BY <1>2, <2>1, <2>2, <2>3, FillCovers
  \* An exit reduces.
  <1>5. ASSUME NEW q \in Clients, NEW p \in Prices, Exit(q, p) PROVE CoversAdds
    <2>1. PICK k \in Contracts, n \in Int \ {0} :
            /\ Pos(k).qty \in Int /\ Pos(k).qty # 0 /\ n = -Pos(k).qty
            /\ orders' = orders \/ Execute(q, k, n, p)
      BY <1>5, ExitFacts
    <2>2. ASSUME Execute(q, k, n, p) PROVE CoversAdds
      <3>1. heap' = Fill(k, n, p).heap /\ book' = [book EXCEPT ![k] = Fill(k, n, p).at]
        BY <2>2 DEF Execute
      <3>2. HeapSound /\ Distinct
        BY CidType DEF CoverInv
      <3>3. Opposed(Pos(k).qty, n)
        BY <2>1 DEF Opposed
      <3>4. MovedBy(Pos(k), Pos(k)', n, p) /\ \A i \in Contracts \ {k} : Pos(i)' = Pos(i)
        BY <3>1, <3>2, FillMoves
      <3>5. Pos(k)'.qty - Pos(k).qty = n
        BY <2>1, <3>4 DEF MovedBy
      <3>6. ASSUME NEW j \in Contracts, Executed(j)
            PROVE  Opposed(Pos(j).qty, Pos(j)'.qty - Pos(j).qty)
        <4>1. j = k
          BY <3>4, <3>6 DEF Executed
        <4> QED
          BY <3>3, <3>5, <4>1
      <3> QED
        BY <3>6 DEF CoversAdds
    <2> QED
      BY <1>1, <2>1, <2>2
  <1>6. ASSUME NEW p \in Prices, Touch(p) PROVE CoversAdds
    <2> DEFINE o == orders[Candidate]
    <2>1. /\ o.k \in Contracts /\ o.n \in Int \ {0}
          /\ \/ UNCHANGED <<heap, book>>
             \/ /\ Covered(o.k, o.n, p, realized)
                /\ heap' = Fill(o.k, o.n, p).heap
                /\ book' = [book EXCEPT ![o.k] = Fill(o.k, o.n, p).at]
      BY <1>6, TouchFacts
    <2> HIDE DEF o
    <2>2. CASE UNCHANGED <<heap, book>>
      <3>1. \A k \in Contracts : Pos(k)' = Pos(k)
        BY <2>2 DEF Pos
      <3> QED
        BY <3>1 DEF CoversAdds, Executed
    <2> QED
      BY <1>2, <2>1, <2>2, FillCovers
  <1>7. ASSUME Len(orders') = Len(orders) PROVE CoversAdds
    BY <1>7, CidType DEF CoversAdds, Executed
  <1>8. ASSUME NEW i \in DOMAIN orders, Cancel(i) PROVE CoversAdds
    <2>1. Len(orders') = Len(orders)
      BY <1>8, CidType DEF Cancel
    <2> QED
      BY <1>7, <2>1
  \* A reset, a restart and a save restamp the orders.
  <1>9. ASSUME DOMAIN orders' = DOMAIN orders PROVE CoversAdds
    <2>1. DOMAIN orders' = 1..Len(orders') /\ Len(orders') \in Nat
      BY <1>2 DEF BookInv, Sums
    <2>2. Len(orders') = Len(orders)
      BY <1>9, <2>1, CidType
    <2> QED
      BY <1>7, <2>2
  <1>10. ASSUME Reset \/ Restart PROVE CoversAdds
    BY <1>9, <1>10 DEF Reset, Restart
  <1>11. ASSUME NEW q \in Clients,
                (\E o \in Payloads : Place(q, o)) \/ Reject(q) \/ (\E k \in Contracts : SquareOff(q, k))
         PROVE  CoversAdds
    BY <1>1, <1>11 DEF Place, Reject, SquareOff
  <1>12. ASSUME SaveTouched \/ \E q \in Tasks : SaveOrder(q) \/ SavePosition(q) \/ SavePortfolio(q)
         PROVE  CoversAdds
    <2>1. DOMAIN orders' = DOMAIN orders
      BY <1>12 DEF SaveTouched, SaveOrder, SavePosition, SavePortfolio
    <2> QED
      BY <1>9, <2>1
  <1>13. ASSUME Hydrate \/ TouchSkip PROVE CoversAdds
    BY <1>1, <1>13 DEF Hydrate, TouchSkip
  <1>14. ASSUME NEW k \in Contracts, TouchStart(k) \/ \E p \in Prices : Mark(k, p) PROVE CoversAdds
    BY <1>1, <1>14 DEF TouchStart, Mark
  <1>15. CASE UNCHANGED bookVars
    BY <1>1, <1>15 DEF bookVars
  <1> QED
    BY <1>3, <1>4, <1>5, <1>6, <1>8, <1>10, <1>11, <1>12, <1>13, <1>14, <1>15 DEF BookNext

LEMMA InitCover == BookInit => CoverInv
  <1> SUFFICES ASSUME BookInit PROVE CoverInv
    OBVIOUS
  <1>1. Clients \subseteq Tasks /\ Idle.pc = "idle"
    BY DEF Tasks, Idle
  <1> QED
    BY <1>1 DEF BookInit, CoverInv, Distinct, RealSound

\* A fill that does not reverse a position locks no more margin than is
\* available at that moment, for every mix of requests, worker ticks, resets
\* and restarts: the realized P&L read before the quote is awaited cannot move
\* until the fill, and no fill touches the margin of another contract.
THEOREM AddsNeverOverdraw == BookSpec => AddsAreCovered
  <1>1. BookInv /\ CoverInv /\ [BookNext]_bookVars => CoverInv' /\ [CoversAdds]_bookVars
    BY CoverStep, CoveredStep
  <1>2. BookSpec => [][CoversAdds]_bookVars
    BY <1>1, InitCover, BookInvariant, PTL DEF BookSpec
  <1>3. AddsAreCovered <=> [][CoversAdds]_bookVars
    BY DEF AddsAreCovered, CoversAdds
  <1> QED
    BY <1>2, <1>3

-----------------------------------------------------------------------------
(* Positions and the legs of the order book *)

IsLeg(o) == o.st = "FILLED" /\ o.of # 0 /\ o.here

\* A restamped order is a leg of the same contract and size, or none as before.
SameLeg(a, b) == a.k = b.k /\ a.n = b.n /\ (IsLeg(a) <=> IsLeg(b))

\* An order that waits is no leg.  Contracts that are being saved, or were, are
\* in the dictionary: the shard is never read back over its legs.
NetSound ==
    /\ \A i \in DOMAIN orders : orders[i].st = "PENDING" => orders[i].of = 0
    /\ \A k \in rows.known : book[k] # 0
    /\ \A q \in Tasks : task[q].pc = "save" => book[task[q].k] # 0
    /\ "touch" \notin Acts => task["worker"].pc = "idle"

NetInv == NetSound /\ BookIsNetOfLegs

LEMMA OrderAt ==
    ASSUME BookInv, NEW i \in DOMAIN orders
    PROVE  /\ orders[i] \in OrderRecord /\ orders[i].n \in Int /\ orders[i].k \in Contracts
           /\ i \in Nat /\ i # 0
  <1>1. i \in Nat /\ i # 0 /\ orders[i] \in OrderRecord
    BY CidType
  <1> QED
    BY <1>1 DEF OrderRecord

LEMMA LegsFinite ==
    ASSUME BookInv, NEW k
    PROVE  /\ IsFiniteSet(LegsOf(k)) /\ LegsOf(k) \subseteq DOMAIN orders
           /\ \A i \in LegsOf(k) : i \in DOMAIN orders /\ orders[i].n \in Int
           /\ Net(k) \in Int
  <1> DEFINE v == [i \in DOMAIN orders |-> orders[i].n]
  <1>1. IsFiniteSet(1..Len(orders)) /\ LegsOf(k) \subseteq 1..Len(orders)
        /\ DOMAIN orders = 1..Len(orders)
    BY CidType, FS_Interval DEF LegsOf
  <1>2. IsFiniteSet(LegsOf(k))
    BY <1>1, FS_Subset
  <1>3. \A i \in LegsOf(k) : i \in DOMAIN orders /\ orders[i].n \in Int
    BY OrderAt DEF LegsOf
  <1>4. \A i \in LegsOf(k) : v[i] \in Int
    BY <1>3
  <1>5. Net(k) = SumFunctionOnSet(v, LegsOf(k))
    BY DEF Net
  <1> HIDE DEF v
  <1> QED
    BY <1>1, <1>2, <1>3, <1>4, <1>5, SumType

\* Restamping orders leaves the net alone.
LEMMA KeptLegs ==
    ASSUME BookInv, DOMAIN orders' = DOMAIN orders,
           \A i \in DOMAIN orders : SameLeg(orders[i], orders'[i]), NEW k \in Contracts
    PROVE  Net(k)' = Net(k)
  <1> DEFINE v == [i \in DOMAIN orders |-> orders[i].n]
             w == [i \in DOMAIN orders' |-> orders'[i].n]
  <1>1. LegsOf(k)' = LegsOf(k)
    BY DEF LegsOf, SameLeg, IsLeg
  <1>2. \A i \in LegsOf(k) : v[i] = w[i]
    BY LegsFinite DEF SameLeg
  <1>3. Net(k) = SumFunctionOnSet(v, LegsOf(k)) /\ Net(k)' = SumFunctionOnSet(w, LegsOf(k)')
    BY DEF Net
  <1> HIDE DEF v, w
  <1> QED
    BY <1>1, <1>2, <1>3, LegsFinite, SumSame

\* An order that is added counts for its contract when it is a leg.
LEMMA AddedLeg ==
    ASSUME BookInv, NEW kept \in Seq(OrderRecord), Len(kept) = Len(orders),
           \A i \in DOMAIN orders : SameLeg(orders[i], kept[i]),
           NEW o \in OrderRecord, orders' = Append(kept, o), NEW k \in Contracts
    PROVE  Net(k)' = Net(k) + (IF IsLeg(o) /\ o.k = k THEN o.n ELSE 0)
  <1> DEFINE v == [i \in DOMAIN orders |-> orders[i].n]
             w == [i \in DOMAIN orders' |-> orders'[i].n]
             L == LegsOf(k)
             own == Len(orders) + 1
  <1>1. /\ DOMAIN orders = 1..Len(orders) /\ Len(orders) \in Nat
        /\ DOMAIN orders' = 1..own /\ orders'[own] = o
        /\ \A i \in DOMAIN orders : orders'[i] = kept[i]
    BY CidType
  <1>2. own \notin DOMAIN orders /\ DOMAIN orders' = DOMAIN orders \cup {own}
    BY <1>1
  <1>3. LegsOf(k)' = IF IsLeg(o) /\ o.k = k THEN L \cup {own} ELSE L
    <2>1. ASSUME NEW i \in DOMAIN orders PROVE i \in LegsOf(k)' <=> i \in L
      <3>1. SameLeg(orders[i], orders'[i]) /\ i \in DOMAIN orders'
        BY <1>1, <1>2
      <3> QED
        BY <3>1 DEF LegsOf, SameLeg, IsLeg
    <2>2. own \in LegsOf(k)' <=> IsLeg(o) /\ o.k = k
      BY <1>1, <1>2 DEF LegsOf, IsLeg
    <2>3. L \subseteq DOMAIN orders /\ LegsOf(k)' \subseteq DOMAIN orders'
      BY DEF LegsOf
    <2> DEFINE M == LegsOf(k)'
               D == DOMAIN orders
    <2>4. M \subseteq D \cup {own} /\ L \subseteq D /\ \A i \in D : i \in M <=> i \in L
      BY <1>2, <2>1, <2>3
    <2>5. own \in M <=> IsLeg(o) /\ o.k = k
      BY <2>2
    <2> HIDE DEF L, M, D, own
    <2>6. CASE IsLeg(o) /\ o.k = k
      <3>1. M = L \cup {own}
        BY <2>4, <2>5, <2>6
      <3> QED
        BY <2>6, <3>1 DEF M
    <2>7. CASE ~(IsLeg(o) /\ o.k = k)
      <3>1. M = L
        BY <2>4, <2>5, <2>7
      <3> QED
        BY <2>7, <3>1 DEF M
    <2> QED
      BY <2>6, <2>7
  <1>4. /\ IsFiniteSet(L) /\ L \subseteq DOMAIN orders
        /\ \A i \in L : orders[i].n \in Int
    BY LegsFinite
  <1>5. \A i \in L : v[i] \in Int /\ w[i] = v[i]
    <2>1. \A i \in L : i \in DOMAIN orders /\ i \in DOMAIN orders' /\ orders'[i].n = orders[i].n
      BY <1>1, <1>2, <1>4 DEF SameLeg
    <2> HIDE DEF L
    <2> QED
      BY <1>4, <2>1
  <1>6. w[own] = o.n /\ o.n \in Int /\ own \notin L
    <2>1. o.n \in Int /\ own \in DOMAIN orders'
      BY <1>2 DEF OrderRecord
    <2> HIDE DEF L, own
    <2> QED
      BY <1>1, <1>2, <1>4, <2>1
  <1>7. Net(k) = SumFunctionOnSet(v, L) /\ Net(k)' = SumFunctionOnSet(w, LegsOf(k)')
    BY DEF Net
  <1> HIDE DEF v, w, L, own
  <1>8. SumFunctionOnSet(w, L) = SumFunctionOnSet(v, L) /\ SumFunctionOnSet(v, L) \in Int
    BY <1>4, <1>5, SumSame, SumType
  <1>9. SumFunctionOnSet(w, L \cup {own}) = SumFunctionOnSet(w, L) + w[own]
    BY <1>4, <1>5, <1>6, SumAdd
  <1> QED
    BY <1>3, <1>6, <1>7, <1>8, <1>9

\* A step that fills nothing.
LEMMA NetKept ==
    ASSUME BookInv, BookIsNetOfLegs, DOMAIN orders' = DOMAIN orders,
           \A i \in DOMAIN orders : SameLeg(orders[i], orders'[i]),
           \A k \in Contracts : Pos(k)'.qty = Pos(k).qty
    PROVE  BookIsNetOfLegs'
  BY KeptLegs DEF BookIsNetOfLegs

LEMMA SamePositions ==
    ASSUME UNCHANGED <<heap, book>> PROVE \A k \in Contracts : Pos(k)'.qty = Pos(k).qty
  BY DEF Pos

\* A step that fills an order: the position and the net move by the same leg.
LEMMA NetFilled ==
    ASSUME BookInv, CoverInv, BookIsNetOfLegs, NEW k \in Contracts, NEW n \in Int \ {0},
           NEW p \in Prices,
           heap' = Fill(k, n, p).heap, book' = [book EXCEPT ![k] = Fill(k, n, p).at],
           NEW kept \in Seq(OrderRecord), Len(kept) = Len(orders),
           \A i \in DOMAIN orders : SameLeg(orders[i], kept[i]),
           NEW o \in OrderRecord, IsLeg(o), o.k = k, o.n = n, orders' = Append(kept, o)
    PROVE  BookIsNetOfLegs' /\ \A j \in Contracts : book[j] # 0 \/ j = k => book'[j] # 0
  <1>1. /\ MovedBy(Pos(k), Pos(k)', n, p) /\ \A j \in Contracts \ {k} : Pos(j)' = Pos(j)
        /\ book'[k] # 0 /\ \A j \in Contracts \ {k} : book'[j] = book[j]
    BY CidType, FillMoves DEF CoverInv
  <1>2. ASSUME NEW j \in Contracts PROVE Pos(j)'.qty = Net(j)'
    <2>1. Net(j)' = Net(j) + (IF j = k THEN n ELSE 0) /\ Net(j) \in Int
      BY AddedLeg, LegsFinite
    <2>2. Pos(j).qty = Net(j)
      BY DEF BookIsNetOfLegs
    <2> QED
      BY <1>1, <2>1, <2>2 DEF MovedBy
  <1> QED
    BY <1>1, <1>2 DEF BookIsNetOfLegs

\* What is in the dictionary stays there, and so does what is saved.
LEMMA HeldKept ==
    ASSUME BookInv, NetSound, rows' = rows,
           \A k \in Contracts : book[k] # 0 => book'[k] # 0,
           \A i \in DOMAIN orders' : orders'[i].st = "PENDING" => orders'[i].of = 0,
           \A q \in Tasks : task'[q].pc = "save" =>
               task'[q] = task[q] \/ (task'[q].k \in Contracts /\ book'[task'[q].k] # 0),
           "touch" \notin Acts => task'["worker"] = task["worker"]
    PROVE  NetSound'
  <1>1. \A q \in Tasks : task[q].pc = "save" => task[q].k \in Contracts
    BY DEF BookInv, TasksSound, TaskSound
  <1>2. rows.known \subseteq Contracts
    BY CidType
  <1>3. \A q \in Tasks : task'[q].pc = "save" => book'[task'[q].k] # 0
    BY <1>1 DEF NetSound
  <1> QED
    BY <1>2, <1>3 DEF NetSound

\* A process that is not restarted, whose worker and reset do not meet.
OneLife == "restart" \notin Acts /\ ~({"touch", "reset"} \subseteq Acts)

LEMMA SameLegRefl == \A a : SameLeg(a, a)
  BY DEF SameLeg

\* The order a request fills at once, its own or its exit.
LEMMA ExecuteNet ==
    ASSUME BookInv, CoverInv, NetInv, NEW q \in Clients,
           NEW k \in Contracts, NEW n \in Int \ {0}, NEW p \in Prices, Execute(q, k, n, p),
           NEW cid \in Ids \cup {NoId}, orders' = Append(orders, Order(k, n, cid, "FILLED", Own)),
           rows' = rows
    PROVE  NetInv'
  <1> DEFINE o == Order(k, n, cid, "FILLED", Own)
  <1>1. /\ orders \in Seq(OrderRecord) /\ Len(orders) \in Nat /\ DOMAIN orders = 1..Len(orders)
        /\ Own \in Nat /\ Own # 0
    BY CidType DEF Own
  <1>2. o \in OrderRecord /\ IsLeg(o) /\ o.k = k /\ o.n = n /\ o.st = "FILLED"
    BY <1>1, OrderType DEF Order, IsLeg
  <1>3. heap' = Fill(k, n, p).heap /\ book' = [book EXCEPT ![k] = Fill(k, n, p).at]
    BY DEF Execute
  <1>4. orders' = Append(orders, o)
    OBVIOUS
  <1> HIDE DEF o
  <1>5. BookIsNetOfLegs' /\ \A j \in Contracts : book[j] # 0 \/ j = k => book'[j] # 0
    BY <1>1, <1>2, <1>3, <1>4, NetFilled, SameLegRefl DEF NetInv
  <1>6. \A i \in DOMAIN orders' : orders'[i].st = "PENDING" => orders'[i].of = 0
    <2> TAKE i \in DOMAIN orders'
    <2>1. (i \in DOMAIN orders /\ orders'[i] = orders[i]) \/ orders'[i] = o
      BY <1>1, <1>2, <1>4
    <2> QED
      BY <1>2, <2>1 DEF NetInv, NetSound
  <1>7. \A r \in Tasks : task'[r] = task[r] \/ task'[r].k = k
    BY CidType DEF Execute, Saving, TaskRecord
  <1>8. task'["worker"] = task["worker"]
    BY CidType DEF Execute, Saving
  <1>9. NetSound'
    BY <1>5, <1>6, <1>7, <1>8, HeldKept DEF NetInv
  <1> QED
    BY <1>5, <1>9 DEF NetInv

\* A step that leaves the positions and the orders alone.
LEMMA QuietNet ==
    ASSUME BookInv, NetInv, UNCHANGED <<orders, book, rows>>,
           \A k \in Contracts : Pos(k)'.qty = Pos(k).qty,
           \A q \in Tasks : task'[q].pc = "save" => task'[q] = task[q],
           "touch" \notin Acts => task'["worker"] = task["worker"]
    PROVE  NetInv'
  <1>1. BookIsNetOfLegs'
    BY NetKept, SameLegRefl DEF NetInv
  <1>2. NetSound'
    BY HeldKept DEF NetInv, NetSound
  <1> QED
    BY <1>1, <1>2 DEF NetInv

LEMMA RestNet ==
    ASSUME BookInv, NetInv, NEW q \in Clients, Rest(q)
    PROVE  NetInv'
  <1> DEFINE t == task[q]
             o == Order(t.k, t.n, t.cid, "PENDING", 0)
  <1>1. /\ t.pc = "quote" /\ Release(q) /\ UNCHANGED <<heap, book, realized, rows>>
        /\ orders' = Append(orders, o)
    BY DEF Rest
  <1>2. o \in OrderRecord /\ o.of = 0 /\ ~IsLeg(o)
    BY <1>1, CidType, OrderType DEF Order, IsLeg
  <1>3. orders \in Seq(OrderRecord) /\ Len(orders) \in Nat /\ DOMAIN orders = 1..Len(orders)
    BY CidType
  <1>4. /\ \A r \in Clients : task'[r].pc # "save"
        /\ task'["worker"] = task["worker"]
    BY <1>1, Released DEF Inside
  <1> HIDE DEF o
  <1>5. ASSUME NEW k \in Contracts PROVE Pos(k)'.qty = Net(k)'
    <2>1. Net(k)' = Net(k) + 0 /\ Net(k) \in Int
      BY <1>1, <1>2, <1>3, SameLegRefl, AddedLeg, LegsFinite
    <2>2. Pos(k)'.qty = Pos(k).qty
      BY <1>1, SamePositions
    <2> QED
      BY <2>1, <2>2 DEF NetInv, BookIsNetOfLegs
  <1>6. \A i \in DOMAIN orders' : orders'[i].st = "PENDING" => orders'[i].of = 0
    <2> TAKE i \in DOMAIN orders'
    <2>1. (i \in DOMAIN orders /\ orders'[i] = orders[i]) \/ orders'[i] = o
      BY <1>1, <1>2, <1>3
    <2> QED
      BY <1>2, <2>1 DEF NetInv, NetSound
  <1>7. NetSound'
    BY <1>1, <1>4, <1>6, HeldKept DEF NetInv, Tasks
  <1> QED
    BY <1>5, <1>7 DEF NetInv, BookIsNetOfLegs

\* What is saved of an order is not whether it is a leg.
LEMMA RowLegs ==
    ASSUME BookInv, NetInv, NEW i \in DOMAIN orders, NEW st, orders' = [orders EXCEPT ![i].row = st]
    PROVE  /\ DOMAIN orders' = DOMAIN orders
           /\ \A j \in DOMAIN orders : SameLeg(orders[j], orders'[j])
           /\ \A j \in DOMAIN orders' : orders'[j].st = "PENDING" => orders'[j].of = 0
  <1>1. DOMAIN orders' = DOMAIN orders
    OBVIOUS
  <1>2. ASSUME NEW j \in DOMAIN orders
        PROVE  /\ orders'[j].k = orders[j].k /\ orders'[j].n = orders[j].n
               /\ orders'[j].here = orders[j].here /\ orders'[j].st = orders[j].st
               /\ orders'[j].of = orders[j].of
    BY OrderAt DEF OrderRecord
  <1> QED
    BY <1>1, <1>2 DEF SameLeg, IsLeg, NetInv, NetSound

LEMMA SavingNet ==
    ASSUME BookInv, NetInv, NEW q \in Tasks, SaveOrder(q) \/ SavePosition(q) \/ SavePortfolio(q)
    PROVE  NetInv'
  <1>1. /\ task[q].pc = "save" /\ UNCHANGED <<heap, book, realized>>
        /\ \A r \in Tasks \ {q} : task'[r] = task[r]
        /\ task'[q].pc = "save" => task'[q].k = task[q].k
        /\ rows'.known \in {rows.known, rows.known \cup {task[q].k}}
    BY SavingTasks
  <1>2. /\ DOMAIN orders' = DOMAIN orders
        /\ \A j \in DOMAIN orders : SameLeg(orders[j], orders'[j])
        /\ \A j \in DOMAIN orders' : orders'[j].st = "PENDING" => orders'[j].of = 0
    <2>1. CASE orders' = orders
      BY <2>1, SameLegRefl DEF NetInv, NetSound
    <2>2. CASE SaveOrder(q)
      <3>1. task[q].ord \in DOMAIN orders
        BY <2>2 DEF SaveOrder, BookInv, TasksSound, TaskSound, Filled
      <3> QED
        BY <2>2, <3>1, RowLegs DEF SaveOrder
    <2> QED
      BY <2>1, <2>2 DEF SavePosition, SavePortfolio
  <1>3. "touch" \notin Acts => task'["worker"].pc = "idle"
    BY <1>1, CidType DEF NetInv, NetSound
  <1>4. NetSound'
    BY <1>1, <1>2, <1>3 DEF NetInv, NetSound
  <1>5. BookIsNetOfLegs'
    BY <1>1, <1>2, NetKept, SamePositions DEF NetInv
  <1> QED
    BY <1>4, <1>5 DEF NetInv

LEMMA SaveTouchedNet ==
    ASSUME BookInv, NetInv, SaveTouched
    PROVE  NetInv'
  <1>1. /\ task["worker"].pc = "mark" /\ UNCHANGED <<heap, book, realized, rows>>
        /\ task'["worker"].pc # "save" /\ \A q \in Clients : task'[q] = task[q]
    BY SaveTouchedTasks
  <1>2. /\ DOMAIN orders' = DOMAIN orders
        /\ \A j \in DOMAIN orders : SameLeg(orders[j], orders'[j])
        /\ \A j \in DOMAIN orders' : orders'[j].st = "PENDING" => orders'[j].of = 0
    BY SaveTouchedTasks, RowLegs
  <1>3. NetSound'
    BY <1>1, <1>2, HeldKept DEF NetInv, NetSound, Tasks
  <1>4. BookIsNetOfLegs'
    BY <1>1, <1>2, NetKept, SamePositions DEF NetInv
  <1> QED
    BY <1>3, <1>4 DEF NetInv

LEMMA CancelNet ==
    ASSUME BookInv, NetInv, NEW i \in DOMAIN orders, Cancel(i)
    PROVE  NetInv'
  <1>1. /\ orders[i].st = "PENDING"
        /\ orders' = [orders EXCEPT ![i].st = "CANCELLED", ![i].row = "CANCELLED"]
        /\ UNCHANGED <<heap, book, seen, realized, lock, task, rows>>
    BY DEF Cancel
  <1>2. DOMAIN orders' = DOMAIN orders
    BY <1>1
  <1>3. ASSUME NEW j \in DOMAIN orders
        PROVE  /\ SameLeg(orders[j], orders'[j])
               /\ orders'[j].st = "PENDING" => orders'[j].of = 0
    <2>1. orders[j] \in OrderRecord
      BY OrderAt
    <2>2. CASE j = i
      <3>1. orders'[j] = [orders[j] EXCEPT !.st = "CANCELLED", !.row = "CANCELLED"]
        BY <1>1, <2>2
      <3> QED
        BY <1>1, <2>1, <2>2, <3>1 DEF SameLeg, IsLeg, OrderRecord
    <2>3. CASE j # i
      BY <1>1, <2>3, SameLegRefl DEF NetInv, NetSound
    <2> QED
      BY <2>2, <2>3
  <1>4. BookIsNetOfLegs'
    BY <1>1, <1>2, <1>3, NetKept, SamePositions DEF NetInv
  <1>5. NetSound'
    BY <1>1, <1>2, <1>3, HeldKept DEF NetInv
  <1> QED
    BY <1>4, <1>5 DEF NetInv

\* Nothing is being saved that a reset would bring back.
LEMMA ResetNet ==
    ASSUME BookInv, NetInv, OneLife, Reset
    PROVE  NetInv'
  <1>1. /\ "reset" \in Acts /\ Free /\ book' = [k \in Contracts |-> 0] /\ UNCHANGED <<heap, lock, task>>
        /\ orders' = [i \in DOMAIN orders |-> [orders[i] EXCEPT !.here = FALSE]]
        /\ rows'.known = {}
    BY DEF Reset, NoRows
  <1>2. task["worker"].pc = "idle" /\ "touch" \notin Acts
    BY <1>1 DEF OneLife, NetInv, NetSound
  <1>3. \A q \in Tasks : task'[q].pc # "save"
    BY <1>1, <1>2, NobodyInside DEF Inside, Tasks
  <1>4. ASSUME NEW i \in DOMAIN orders'
        PROVE  /\ ~orders'[i].here
               /\ orders'[i].st = "PENDING" => orders'[i].of = 0
    <2>1. i \in DOMAIN orders /\ orders[i] \in OrderRecord
      BY <1>1, OrderAt
    <2>2. orders'[i] = [orders[i] EXCEPT !.here = FALSE]
      BY <1>1, <2>1
    <2> QED
      BY <2>1, <2>2 DEF OrderRecord, NetInv, NetSound
  <1>5. ASSUME NEW k \in Contracts PROVE Pos(k)'.qty = Net(k)'
    <2>1. LegsOf(k)' = {}
      BY <1>4 DEF LegsOf
    <2>2. Net(k)' = 0
      BY <2>1, SumEmpty DEF Net
    <2>3. Pos(k)'.qty = 0
      BY <1>1 DEF Pos, Flat
    <2> QED
      BY <2>2, <2>3
  <1>6. NetSound'
    BY <1>1, <1>2, <1>3, <1>4 DEF NetSound
  <1> QED
    BY <1>5, <1>6 DEF NetInv, BookIsNetOfLegs

LEMMA TouchNet ==
    ASSUME BookInv, CoverInv, NetInv, NEW p \in Prices, Touch(p)
    PROVE  NetInv'
  <1>1. PICK i \in DOMAIN orders, o \in OrderRecord : i = Candidate /\ o = orders[i]
    BY TouchFacts
  <1> DEFINE kept == [orders EXCEPT ![i].st = "FILLED"]
             leg == Order(o.k, o.n, NoId, "FILLED", i)
  <1>2. /\ StillPending(i) /\ o.k \in Contracts /\ o.n \in Int \ {0}
        /\ \A q \in Clients : task'[q] = task[q] /\ task[q].pc \notin Inside
        /\ UNCHANGED <<lock, rows>> /\ "touch" \in Acts
    BY <1>1, TouchFacts DEF Touch, NetInv, NetSound
  <1>3. /\ orders' = kept /\ UNCHANGED <<heap, book>> /\ task'["worker"].pc # "save"
        \/ /\ orders' = Append(kept, leg)
           /\ heap' = Fill(o.k, o.n, p).heap
           /\ book' = [book EXCEPT ![o.k] = Fill(o.k, o.n, p).at]
           /\ task'["worker"].pc = "save" /\ task'["worker"].k = o.k
    BY <1>1, TouchFacts
  <1>4. /\ orders \in Seq(OrderRecord) /\ Len(orders) \in Nat /\ DOMAIN orders = 1..Len(orders)
        /\ kept \in Seq(OrderRecord) /\ Len(kept) = Len(orders) /\ DOMAIN kept = DOMAIN orders
    BY <1>2, CidType, FilledCandidate
  <1>5. ASSUME NEW j \in DOMAIN orders
        PROVE  /\ SameLeg(orders[j], kept[j])
               /\ kept[j].st = "PENDING" => kept[j].of = 0
    <2>1. orders[j] \in OrderRecord
      BY OrderAt
    <2>2. CASE j = i
      <3>1. kept[j] = [orders[j] EXCEPT !.st = "FILLED"] /\ orders[j].of = 0
        BY <1>2, <2>2 DEF StillPending, NetInv, NetSound
      <3> QED
        BY <1>2, <2>1, <2>2, <3>1 DEF SameLeg, IsLeg, OrderRecord, StillPending
    <2>3. CASE j # i
      BY <2>3, SameLegRefl DEF NetInv, NetSound
    <2> QED
      BY <2>2, <2>3
  <1>6. /\ leg \in OrderRecord /\ IsLeg(leg) /\ leg.k = o.k /\ leg.n = o.n /\ leg.st = "FILLED"
    BY <1>2, OrderAt, OrderType DEF Order, IsLeg
  <1> HIDE DEF kept, leg
  <1>7. CASE orders' = kept /\ UNCHANGED <<heap, book>> /\ task'["worker"].pc # "save"
    <2>1. BookIsNetOfLegs'
      BY <1>4, <1>5, <1>7, NetKept, SamePositions DEF NetInv
    <2>2. NetSound'
      BY <1>2, <1>4, <1>5, <1>7, HeldKept DEF NetInv, Tasks
    <2> QED
      BY <2>1, <2>2 DEF NetInv
  <1>8. CASE /\ orders' = Append(kept, leg)
             /\ heap' = Fill(o.k, o.n, p).heap
             /\ book' = [book EXCEPT ![o.k] = Fill(o.k, o.n, p).at]
             /\ task'["worker"].pc = "save" /\ task'["worker"].k = o.k
    <2>1. PICK k \in Contracts, n \in Int \ {0} : k = o.k /\ n = o.n
      BY <1>2
    <2>2. BookIsNetOfLegs' /\ \A j \in Contracts : book[j] # 0 \/ j = k => book'[j] # 0
      BY <1>4, <1>5, <1>6, <1>8, <2>1, NetFilled DEF NetInv
    <2>3. \A j \in DOMAIN orders' : orders'[j].st = "PENDING" => orders'[j].of = 0
      <3> TAKE j \in DOMAIN orders'
      <3>1. (j \in DOMAIN orders /\ orders'[j] = kept[j]) \/ orders'[j] = leg
        BY <1>4, <1>6, <1>8
      <3> QED
        BY <1>5, <1>6, <3>1
    <2>4. NetSound'
      BY <1>2, <1>8, <2>1, <2>2, <2>3, HeldKept DEF NetInv, Tasks
    <2> QED
      BY <2>2, <2>4 DEF NetInv
  <1> QED
    BY <1>3, <1>7, <1>8

LEMMA NetStep ==
    ASSUME BookInv, CoverInv, NetInv, OneLife, [BookNext]_bookVars
    PROVE  NetInv'
  <1>1. ASSUME NEW q \in Clients, NEW o \in Payloads, Place(q, o) PROVE NetInv'
    <2>1. /\ UNCHANGED <<heap, book, orders, rows>> /\ task'[q].pc = "quote"
          /\ \A r \in Tasks \ {q} : task'[r] = task[r]
          /\ q # "worker" /\ "worker" \in Tasks
      BY <1>1, CidType DEF Place, Idle
    <2> QED
      BY <2>1, QuietNet, SamePositions
  <1>2. ASSUME NEW q \in Clients, task[q].pc \in Inside, Release(q),
               UNCHANGED <<book, orders, rows>>, \A k \in Contracts : Pos(k)'.qty = Pos(k).qty
        PROVE  NetInv'
    BY <1>2, QuietNet, Released DEF Inside, Tasks
  <1>3. ASSUME NEW q \in Clients, Reject(q) \/ Rest(q) PROVE NetInv'
    <2>1. CASE Reject(q)
      BY <1>2, <2>1, SamePositions DEF Reject, Inside
    <2> QED
      BY <1>3, <2>1, RestNet
  <1>4. ASSUME NEW q \in Clients, NEW k \in Contracts, SquareOff(q, k) PROVE NetInv'
    <2>1. /\ UNCHANGED <<heap, book, orders, rows>> /\ task'[q].pc = "exit"
          /\ \A r \in Tasks \ {q} : task'[r] = task[r]
          /\ q # "worker" /\ "worker" \in Tasks
      BY <1>4, CidType DEF SquareOff, Idle
    <2> QED
      BY <2>1, QuietNet, SamePositions
  <1>5. ASSUME NEW q \in Clients, NEW p \in Prices, FillNow(q, p) PROVE NetInv'
    <2>1. PICK k \in Contracts, n \in Int \ {0}, cid \in Ids \cup {NoId} :
            k = task[q].k /\ n = task[q].n /\ cid = task[q].cid
      BY <1>5, FillNowFacts, CidType
    <2>2. /\ Execute(q, k, n, p) /\ rows' = rows
          /\ orders' = Append(orders, Order(k, n, cid, "FILLED", Own))
      BY <1>5, <2>1 DEF FillNow
    <2> QED
      BY <2>2, ExecuteNet
  <1>6. ASSUME NEW q \in Clients, NEW p \in Prices, Exit(q, p) PROVE NetInv'
    <2>1. PICK k \in Contracts, n \in Int \ {0} :
            /\ task[q].pc = "exit" /\ rows' = rows
            /\ \/ Release(q) /\ heap' = [heap EXCEPT ![book[k]].ltp = p]
                  /\ UNCHANGED <<book, orders>>
               \/ Execute(q, k, n, p) /\ orders' = Append(orders, Order(k, n, NoId, "FILLED", Own))
      BY <1>6, ExitFacts DEF Exit
    <2>2. CASE Release(q) /\ heap' = [heap EXCEPT ![book[k]].ltp = p] /\ UNCHANGED <<book, orders>>
      BY <1>2, <2>1, <2>2, CidType, MarkMoves DEF Inside
    <2>3. CASE Execute(q, k, n, p) /\ orders' = Append(orders, Order(k, n, NoId, "FILLED", Own))
      BY <2>1, <2>3, ExecuteNet
    <2> QED
      BY <2>1, <2>2, <2>3
  <1>7. ASSUME Restart \/ Hydrate PROVE NetInv'
    <2>1. \/ "restart" \in Acts
          \/ rows.known # {} /\ \A k \in Contracts : book[k] = 0
      BY <1>7 DEF Restart, Hydrate
    <2> QED
      BY <2>1, CidType DEF OneLife, NetInv, NetSound
  <1>8. ASSUME NEW k \in Contracts, TouchStart(k) PROVE NetInv'
    <2>1. /\ "touch" \in Acts /\ UNCHANGED <<heap, book, orders, rows>>
          /\ task'["worker"].pc = "loop" /\ \A q \in Clients : task'[q] = task[q]
      BY <1>8, CidType DEF TouchStart, Idle
    <2> QED
      BY <2>1, QuietNet, SamePositions DEF Tasks
  <1>9. ASSUME TouchSkip PROVE NetInv'
    <2>1. /\ "touch" \in Acts /\ UNCHANGED <<heap, book, orders, rows>>
          /\ task'["worker"].pc # "save" /\ \A q \in Clients : task'[q] = task[q]
      BY <1>9, NextStays DEF TouchSkip, NetInv, NetSound
    <2> QED
      BY <2>1, QuietNet, SamePositions DEF Tasks
  <1>10. ASSUME NEW k \in Contracts, NEW p \in Prices, Mark(k, p) PROVE NetInv'
    <2>1. heap' = [heap EXCEPT ![book[k]].ltp = p] /\ UNCHANGED <<book, orders, rows, task>>
      BY <1>10 DEF Mark
    <2> QED
      BY <2>1, CidType, MarkMoves, QuietNet
  <1>11. CASE UNCHANGED bookVars
    BY <1>11, QuietNet, SamePositions DEF bookVars
  <1>12. ASSUME SaveTouched \/ \E q \in Tasks : SaveOrder(q) \/ SavePosition(q) \/ SavePortfolio(q)
         PROVE  NetInv'
    BY <1>12, SavingNet, SaveTouchedNet
  <1>13. ASSUME NEW i \in DOMAIN orders, Cancel(i) PROVE NetInv'
    BY <1>13, CancelNet
  <1>14. ASSUME Reset PROVE NetInv'
    BY <1>14, ResetNet
  <1>15. ASSUME NEW p \in Prices, Touch(p) PROVE NetInv'
    BY <1>15, TouchNet
  <1> QED
    BY <1>1, <1>3, <1>4, <1>5, <1>6, <1>7, <1>8, <1>9, <1>10, <1>11, <1>12, <1>13, <1>14,
       <1>15 DEF BookNext

LEMMA InitNet == BookInit => NetInv
  <1> SUFFICES ASSUME BookInit PROVE NetInv
    OBVIOUS
  <1>1. \A q \in Tasks : task[q].pc = "idle"
    BY DEF BookInit, Idle
  <1>2. ASSUME NEW k \in Contracts PROVE Pos(k).qty = Net(k)
    <2>1. LegsOf(k) = {}
      BY DEF BookInit, LegsOf
    <2>2. Net(k) = 0
      BY <2>1, SumEmpty DEF Net
    <2> QED
      BY <2>2 DEF BookInit, Pos, Flat
  <1>3. NetSound
    BY <1>1 DEF BookInit, NoRows, NetSound, Tasks
  <1> QED
    BY <1>2, <1>3 DEF NetInv, BookIsNetOfLegs

\* Every position is the net of the legs in the order book, for every number
\* of clients and contracts and whatever fills, flips, cancels, square-offs and
\* resting orders interleave: within a process, and unless a reset meets the
\* worker's save, which puts a row back that the reset had deleted.
THEOREM PositionsAreTheirLegs ==
    ASSUME OneLife
    PROVE  BookSpec => []BookIsNetOfLegs
  <1>1. BookInv /\ CoverInv /\ NetInv /\ [BookNext]_bookVars => CoverInv' /\ NetInv'
    BY CoverStep, NetStep
  <1>2. BookInit => CoverInv /\ NetInv
    BY InitCover, InitNet
  <1>3. NetInv => BookIsNetOfLegs
    BY DEF NetInv
  <1> QED
    BY <1>1, <1>2, <1>3, BookInvariant, PTL DEF BookSpec

-----------------------------------------------------------------------------
(* Positions and their rows *)

\* What is being saved is the object of the contract it is saved for, or one
\* that no contract has any more.
SavesOwn ==
    \A q \in Tasks : task[q].pc = "save" =>
        \A j \in Contracts : book[j] = task[q].obj => j = task[q].k

\* Rows are written from objects that exist; a later object is another one.
RowsInv ==
    /\ Distinct /\ SavesOwn
    /\ \A k \in Contracts : rows.obj[k] <= Len(heap)
    /\ RowsFollowBook

\* Every coroutine saves what it saved, or has saved its position.
QuietTasks ==
    \A q \in Tasks :
        \/ task'[q] = task[q]
        \/ task[q].pc # "save" /\ task'[q].pc # "save"
        \/ /\ task[q].pc = "save" /\ task'[q].pc = "save"
           /\ task'[q].obj = task[q].obj /\ task'[q].k = task[q].k
           /\ task[q].done < 2 => task'[q].done < 2
        \/ task[q].pc = "save" /\ task[q].done = 2 /\ task'[q].pc # "save"

LEMMA TasksType ==
    ASSUME BookInv
    PROVE  /\ task \in [Tasks -> TaskRecord] /\ \A q \in Tasks : TaskSound(q)
           /\ \A q \in Tasks : task[q].pc = "save" =>
                task[q].k \in Contracts /\ task[q].obj \in 1..Len(heap)
           /\ HeapSound /\ SoundHeap(heap) /\ Len(heap) \in Nat
           /\ book \in [Contracts -> 0..Len(heap)]
           /\ RowsSound /\ rows.obj \in [Contracts -> Nat]
           /\ rows.pos \in [Contracts -> PosRecord]
  <1>1. HeapSound /\ SoundHeap(heap) /\ Len(heap) \in Nat /\ book \in [Contracts -> 0..Len(heap)]
    BY DEF BookInv, HeapSound, SoundHeap
  <1>2. task \in [Tasks -> TaskRecord] /\ \A q \in Tasks : TaskSound(q)
    BY DEF BookInv, TasksSound
  <1>3. \A q \in Tasks : task[q].pc = "save" =>
          task[q].k \in Contracts /\ task[q].obj \in 1..Len(heap)
    BY <1>2 DEF TaskSound
  <1>4. RowsSound /\ rows.obj \in [Contracts -> Nat] /\ rows.pos \in [Contracts -> PosRecord]
    BY DEF BookInv, RowsSound
  <1> QED
    BY <1>1, <1>2, <1>3, <1>4

\* No position, row or save has changed but for the last price.
LEMMA QuietRows ==
    ASSUME BookInv, RowsInv, QuietTasks, book' = book, Len(heap') = Len(heap),
           rows'.pos = rows.pos, rows'.obj = rows.obj,
           \A k \in Contracts : /\ Pos(k)'.qty = Pos(k).qty /\ Pos(k)'.avg = Pos(k).avg
                                /\ Pos(k)'.margin = Pos(k).margin
    PROVE  RowsInv'
  <1>1. Distinct'
    BY DistinctKept DEF RowsInv
  <1>2. SavesOwn'
    BY DEF RowsInv, SavesOwn, QuietTasks
  <1>3. \A i : BeingSaved(i) => BeingSaved(i)'
    <2> SUFFICES ASSUME NEW i, BeingSaved(i) PROVE BeingSaved(i)'
      OBVIOUS
    <2>1. PICK q \in Tasks : task[q].pc = "save" /\ task[q].done < 2 /\ task[q].obj = i
      BY DEF BeingSaved
    <2>2. task'[q].pc = "save" /\ task'[q].done < 2 /\ task'[q].obj = i
      BY <2>1 DEF QuietTasks
    <2> QED
      BY <2>2 DEF BeingSaved
  <1>4. RowsFollowBook'
    <2> SUFFICES ASSUME NEW k \in Contracts, book'[k] # 0, rows'.obj[k] = book'[k],
                        ~BeingSaved(book[k])'
                 PROVE  /\ Size(rows'.pos[k].qty) = Size(Pos(k)'.qty)
                        /\ rows'.pos[k].avg = Pos(k)'.avg /\ rows'.pos[k].margin = Pos(k)'.margin
      BY DEF RowsFollowBook
    <2>1. ~BeingSaved(book[k])
      BY <1>3 DEF BeingSaved
    <2> QED
      BY <2>1 DEF RowsInv, RowsFollowBook
  <1> QED
    BY <1>1, <1>2, <1>4 DEF RowsInv

LEMMA SameQuiet ==
    ASSUME BookInv, RowsInv, QuietTasks, UNCHANGED <<heap, book>>,
           rows'.pos = rows.pos, rows'.obj = rows.obj
    PROVE  RowsInv'
  <1>1. \A k \in Contracts : Pos(k)' = Pos(k)
    BY DEF Pos, Flat
  <1> QED
    BY <1>1, QuietRows

LEMMA MarkQuiet ==
    ASSUME BookInv, RowsInv, QuietTasks, NEW k, NEW p, book' = book, rows' = rows,
           heap' = [heap EXCEPT ![k].ltp = p]
    PROVE  RowsInv'
  <1>1. heap \in Seq(PosRecord) /\ book \in [Contracts -> 0..Len(heap)]
    BY TasksType DEF SoundHeap
  <1>2. Len(heap') = Len(heap)
    BY <1>1
  <1>3. ASSUME NEW j \in Contracts
        PROVE  /\ Pos(j)'.qty = Pos(j).qty /\ Pos(j)'.avg = Pos(j).avg
               /\ Pos(j)'.margin = Pos(j).margin
    <2>1. CASE book[j] = 0
      BY <2>1 DEF Pos
    <2>2. CASE book[j] # 0
      <3>1. book[j] \in DOMAIN heap /\ Pos(j)' = heap'[book[j]] /\ Pos(j) = heap[book[j]]
            /\ heap[book[j]] \in PosRecord
        BY <1>1, <2>2 DEF Pos
      <3>2. heap'[book[j]] = IF book[j] = k THEN [heap[k] EXCEPT !.ltp = p] ELSE heap[book[j]]
        BY <1>1, <3>1
      <3> QED
        BY <3>1, <3>2 DEF PosRecord
    <2> QED
      BY <2>1, <2>2
  <1> QED
    BY <1>2, <1>3, QuietRows

\* A fill changes the object of its contract or gives it a new one.
LEMMA FillAt ==
    ASSUME HeapSound, NEW k \in Contracts, NEW n \in Int \ {0}, NEW p \in Prices
    PROVE  Fill(k, n, p).at = book[k] \/ Fill(k, n, p).at > Len(heap)
  <1> DEFINE x == Pos(k)
             h == [heap EXCEPT ![book[k]] = Closed(x, p)]
  <1>1. SoundHeap(heap) /\ Len(heap) \in Nat
    BY DEF HeapSound, SoundHeap
  <1>2. x.qty # 0 => Len(h) = Len(heap)
    <2>1. Sound(x) /\ p \in Int
      BY PosSound, BookConstants
    <2>2. Sound(Closed(x, p))
      BY <2>1, ClosedSound
    <2> HIDE DEF x
    <2>3. x.qty # 0 => book[k] \in 1..Len(heap)
      BY HeldType DEF x
    <2> QED
      BY <1>1, <2>2, <2>3, PutSound
  <1>3. Fill(k, n, p).at \in {book[k], Len(heap) + 1}
        \/ (x.qty # 0 /\ Fill(k, n, p).at = Len(h) + 1)
    BY DEF Fill
  <1> HIDE DEF h, x
  <1> QED
    BY <1>1, <1>2, <1>3

\* The filled position is being saved, the others and their rows are as they were.
LEMMA FillRows ==
    ASSUME BookInv, RowsInv, HeapSound', NEW q \in Tasks, task[q].pc # "save",
           NEW k \in Contracts, NEW n \in Int \ {0}, NEW p \in Prices,
           Len(heap) <= Len(heap'),
           heap' = Fill(k, n, p).heap, book' = [book EXCEPT ![k] = Fill(k, n, p).at],
           task'[q].pc = "save", task'[q].done = 0, task'[q].k = k, task'[q].obj = book'[k],
           \A r \in Tasks \ {q} : task'[r] = task[r], rows' = rows
    PROVE  RowsInv'
  <1>1. /\ Distinct' /\ book'[k] # 0
        /\ \A j \in Contracts \ {k} : book'[j] = book[j] /\ Pos(j)' = Pos(j)
    <2>1. HeapSound /\ Distinct
      BY TasksType DEF RowsInv
    <2> QED
      BY <2>1, FillMoves
  <1>2. book'[k] = book[k] \/ book'[k] > Len(heap)
    BY TasksType, FillAt
  <1>3. Len(heap) \in Nat /\ Len(heap') \in Nat
    BY TasksType DEF HeapSound, SoundHeap
  <1>4. SavesOwn'
    <2> SUFFICES ASSUME NEW r \in Tasks, task'[r].pc = "save", NEW j \in Contracts,
                        book'[j] = task'[r].obj
                 PROVE  j = task'[r].k
      BY DEF SavesOwn
    <2>1. CASE r = q
      BY <1>1, <2>1 DEF Distinct
    <2>2. CASE r # q
      <3>1. task'[r] = task[r] /\ task[r].obj \in 1..Len(heap)
        BY <2>2, TasksType
      <3>2. book[j] = task[r].obj
        BY <1>1, <1>2, <1>3, <3>1
      <3> QED
        BY <3>1, <3>2 DEF RowsInv, SavesOwn
    <2> QED
      BY <2>1, <2>2
  <1>5. \A i : BeingSaved(i) => BeingSaved(i)'
    BY DEF BeingSaved
  <1>6. RowsFollowBook'
    <2> SUFFICES ASSUME NEW j \in Contracts, book'[j] # 0, rows'.obj[j] = book'[j],
                        ~BeingSaved(book[j])'
                 PROVE  /\ Size(rows'.pos[j].qty) = Size(Pos(j)'.qty)
                        /\ rows'.pos[j].avg = Pos(j)'.avg /\ rows'.pos[j].margin = Pos(j)'.margin
      BY DEF RowsFollowBook
    <2>1. j # k
      BY DEF BeingSaved
    <2>2. book'[j] = book[j] /\ Pos(j)' = Pos(j)
      BY <1>1, <2>1
    <2>3. ~BeingSaved(book[j])
      BY <1>5, <2>2 DEF BeingSaved
    <2> QED
      BY <2>2, <2>3 DEF RowsInv, RowsFollowBook
  <1>7. \A j \in Contracts : rows'.obj[j] <= Len(heap')
    BY <1>3, TasksType DEF RowsInv
  <1> QED
    BY <1>1, <1>4, <1>6, <1>7 DEF RowsInv

LEMMA ExecuteRows ==
    ASSUME BookInv, RowsInv, BookInv', NEW q \in Clients, task[q].pc \in {"quote", "exit"},
           NEW k \in Contracts, NEW n \in Int \ {0}, NEW p \in Prices, Execute(q, k, n, p),
           Len(heap) <= Len(heap'), rows' = rows
    PROVE  RowsInv'
  <1>1. q \in Tasks /\ task \in [Tasks -> TaskRecord] /\ task[q].done = 0
    BY TasksType DEF Tasks, TaskSound
  <1>2. heap' = Fill(k, n, p).heap /\ book' = [book EXCEPT ![k] = Fill(k, n, p).at]
        /\ task' = [task EXCEPT ![q] = Saving(@, k, Fill(k, n, p), Gain(Pos(k), n, p))]
    BY DEF Execute
  <1>3. /\ task'[q].pc = "save" /\ task'[q].k = k /\ task'[q].obj = Fill(k, n, p).at
        /\ task'[q].done = 0 /\ \A r \in Tasks \ {q} : task'[r] = task[r]
    BY <1>1, <1>2 DEF Saving, TaskRecord
  <1>4. book'[k] = Fill(k, n, p).at
    BY <1>2, TasksType
  <1>5. HeapSound'
    BY DEF BookInv
  <1> QED
    BY <1>1, <1>2, <1>3, <1>4, <1>5, FillRows

\* The row gets what the object holds, with the row's own sign.
LEMMA SavedMatches ==
    ASSUME BookInv, NEW k \in Contracts, NEW i \in 1..Len(heap), rows' = Saved(k, i)
    PROVE  /\ Size(rows'.pos[k].qty) = Size(heap[i].qty)
           /\ rows'.pos[k].avg = heap[i].avg /\ rows'.pos[k].margin = heap[i].margin
           /\ rows'.obj[k] = i
           /\ \A j \in Contracts \ {k} : rows'.pos[j] = rows.pos[j] /\ rows'.obj[j] = rows.obj[j]
  <1> DEFINE x == heap[i]
             row == IF k \in rows.known THEN rows.pos[k] ELSE x
             side == row.side
             qty == side * Size(x.qty)
             y == [x EXCEPT !.side = side, !.qty = qty]
             pos == [rows.pos EXCEPT ![k] = y]
             obj == [rows.obj EXCEPT ![k] = i]
  <1>0. /\ SoundHeap(heap) /\ RowsSound
        /\ rows \in [pos : [Contracts -> PosRecord], known : SUBSET Contracts, real : Int,
                     obj : [Contracts -> Nat]]
    BY TasksType DEF RowsSound
  <1>1. x \in PosRecord /\ x.qty \in Int
    <2>1. x \in PosRecord
      BY <1>0 DEF SoundHeap
    <2> QED
      BY <2>1 DEF PosRecord
  <1>2. side \in {1, -1}
    BY <1>0, <1>1 DEF PosRecord
  <1>3. Size(x.qty) \in Nat
    BY <1>1, SizeType
  <1>4. Size(qty) = Size(x.qty)
    BY <1>1, <1>2, <1>3 DEF Size
  <1>5. rows' = [rows EXCEPT !.known = rows.known \cup {k}, !.obj = obj, !.pos = pos]
    BY DEF Saved
  <1> HIDE DEF row, side, qty, x
  <1>6. y.qty = qty /\ y.avg = x.avg /\ y.margin = x.margin
    BY <1>1 DEF PosRecord
  <1> HIDE DEF y
  <1>7. rows'.pos = pos /\ rows'.obj = obj
    BY <1>0, <1>5
  <1>8. pos[k] = y /\ obj[k] = i
        /\ \A j \in Contracts \ {k} : pos[j] = rows.pos[j] /\ obj[j] = rows.obj[j]
    BY <1>0
  <1> HIDE DEF pos, obj
  <1> QED
    BY <1>4, <1>6, <1>7, <1>8 DEF x

LEMMA SavePositionRows ==
    ASSUME BookInv, RowsInv, NEW q \in Tasks, SavePosition(q)
    PROVE  RowsInv'
  <1> DEFINE c == task[q].k
             i == task[q].obj
  <1>1. /\ task[q].pc = "save" /\ rows' = Saved(c, i) /\ task' = [task EXCEPT ![q].done = 2]
        /\ UNCHANGED <<heap, book>>
    BY DEF SavePosition
  <1>2. c \in Contracts /\ i \in 1..Len(heap) /\ task[q] \in TaskRecord
    BY <1>1, TasksType
  <1>3. /\ task'[q].pc = "save" /\ task'[q].obj = i /\ task'[q].k = c
        /\ \A r \in Tasks \ {q} : task'[r] = task[r]
    BY <1>1, <1>2, TasksType DEF TaskRecord
  <1>4. /\ Size(rows'.pos[c].qty) = Size(heap[i].qty)
        /\ rows'.pos[c].avg = heap[i].avg /\ rows'.pos[c].margin = heap[i].margin
        /\ rows'.obj[c] = i
        /\ \A j \in Contracts \ {c} : rows'.pos[j] = rows.pos[j] /\ rows'.obj[j] = rows.obj[j]
    BY <1>1, <1>2, SavedMatches
  <1> HIDE DEF c
  <1>5. Distinct' /\ SavesOwn'
    BY <1>1, <1>3, DistinctKept DEF RowsInv, SavesOwn, c
  <1> HIDE DEF i
  <1>6. \A j \in Contracts : rows'.obj[j] <= Len(heap')
    <2> SUFFICES ASSUME NEW j \in Contracts PROVE rows'.obj[j] <= Len(heap)
      BY <1>1
    <2>1. CASE j = c
      BY <1>2, <1>4, <2>1, TasksType
    <2>2. CASE j # c
      BY <1>4, <2>2 DEF RowsInv
    <2> QED
      BY <2>1, <2>2
  <1>7. RowsFollowBook'
    <2> SUFFICES ASSUME NEW k \in Contracts, book[k] # 0, rows'.obj[k] = book[k],
                        ~BeingSaved(book[k])'
                 PROVE  /\ Size(rows'.pos[k].qty) = Size(heap[book[k]].qty)
                        /\ rows'.pos[k].avg = heap[book[k]].avg
                        /\ rows'.pos[k].margin = heap[book[k]].margin
      BY <1>1 DEF RowsFollowBook, Pos
    <2>1. CASE k = c
      BY <1>4, <2>1
    <2>2. CASE k # c
      <3>1. book[k] # i
        BY <1>1, <2>2 DEF RowsInv, SavesOwn, c, i
      <3>2. ~BeingSaved(book[k])
        BY <1>1, <1>3, <3>1 DEF BeingSaved, i
      <3> QED
        BY <1>4, <2>2, <3>2 DEF RowsInv, RowsFollowBook, Pos
    <2> QED
      BY <2>1, <2>2
  <1> QED
    BY <1>5, <1>6, <1>7 DEF RowsInv

LEMMA OtherSavesRows ==
    ASSUME BookInv, RowsInv, NEW q \in Tasks, SaveOrder(q) \/ SavePortfolio(q)
    PROVE  RowsInv'
  <1>1. task[q] \in TaskRecord /\ task \in [Tasks -> TaskRecord] /\ rows.obj = rows.obj
    BY TasksType
  <1>2. CASE SaveOrder(q)
    <2>1. task[q].pc = "save" /\ task' = [task EXCEPT ![q].done = 1] /\ UNCHANGED <<heap, book, rows>>
      BY <1>2 DEF SaveOrder
    <2>2. QuietTasks
      BY <1>1, <2>1 DEF QuietTasks, TaskRecord
    <2> QED
      BY <2>1, <2>2, SameQuiet
  <1>3. CASE SavePortfolio(q)
    <2>1. /\ task[q].pc = "save" /\ task[q].done = 2 /\ UNCHANGED <<heap, book>>
          /\ rows' = [rows EXCEPT !.real = task[q].real]
      BY <1>3 DEF SavePortfolio
    <2>2. task'[q].pc # "save" /\ \A r \in Tasks \ {q} : task'[r] = task[r]
      <3>1. CASE q = "worker"
        <4> DEFINE t == [task[q] EXCEPT !.pc = "mark", !.ord = orders[task[q].ord].of, !.done = 0]
        <4>1. task' = [task EXCEPT ![q] = t] /\ t.pc = "mark"
          BY <1>1, <1>3, <3>1 DEF SavePortfolio, TaskRecord
        <4> HIDE DEF t
        <4> QED
          BY <1>1, <4>1
      <3>2. CASE q # "worker"
        BY <1>1, <1>3, <3>2, IdleType DEF SavePortfolio, Release
      <3> QED
        BY <3>1, <3>2
    <2>3. QuietTasks
      BY <2>1, <2>2 DEF QuietTasks
    <2>4. rows'.pos = rows.pos /\ rows'.obj = rows.obj
      BY <2>1, TasksType DEF RowsSound
    <2> QED
      BY <2>1, <2>3, <2>4, SameQuiet
  <1> QED
    BY <1>2, <1>3

\* What was read back is in the object of its contract.
LEMMA LoadedMatches ==
    ASSUME RowsSound, NEW h \in Seq(PosRecord), NEW k \in Contracts, Loaded(h).book[k] # 0
    PROVE  Loaded(h).book[k] > Len(h) /\ Loaded(h).heap[Loaded(h).book[k]] = rows.pos[k]
  <1> DEFINE ks == rows.known
             n == Cardinality(ks)
             row == CHOOSE f \in [1..n -> ks] : \A j \in ks : \E i \in 1..n : f[i] = j
             at(j) == CHOOSE i \in 1..n : row[i] = j
             new == [i \in 1..n |-> rows.pos[row[i]]]
  <1>1. /\ Loaded(h).book = [j \in Contracts |-> IF j \in ks THEN Len(h) + at(j) ELSE 0]
        /\ Loaded(h).heap = h \o new
    BY DEF Loaded
  <1>2. ks \in SUBSET Contracts /\ n \in Nat /\ rows.pos \in [Contracts -> PosRecord]
    BY RowOrder DEF RowsSound
  <1>3. row \in [1..n -> ks] /\ \A j \in ks : \E i \in 1..n : row[i] = j
    BY <1>2, RowOrder
  <1> HIDE DEF row, ks, n
  <1>4. \A j \in ks : at(j) \in 1..n /\ row[at(j)] = j
    BY <1>3
  <1>5. new \in Seq(PosRecord) /\ Len(new) = n
    BY <1>2, <1>3
  <1>6. \A j \in ks : new[at(j)] = rows.pos[j]
    BY <1>4
  <1> HIDE DEF at, new
  <1>7. k \in ks /\ Loaded(h).book[k] = Len(h) + at(k)
    BY <1>1
  <1>8. (h \o new)[Len(h) + at(k)] = new[at(k)] /\ Len(h) + at(k) > Len(h)
    BY <1>2, <1>4, <1>5, <1>7
  <1> QED
    BY <1>1, <1>6, <1>7, <1>8

LEMMA LoadedRows ==
    ASSUME BookInv, NEW h \in Seq(PosRecord), SoundHeap(h), rows' = [rows EXCEPT !.obj = book'],
           heap' = Loaded(h).heap, book' = Loaded(h).book,
           \A q \in Tasks : task'[q].pc = "save" => task'[q].obj \in 1..Len(h)
    PROVE  RowsInv'
  <1>1. RowsSound /\ Len(h) \in Nat
    BY TasksType
  <1>2. SoundHeap(heap') /\ book' \in [Contracts -> 0..Len(heap')] /\ Len(heap') \in Nat
    BY <1>1, LoadedSound DEF SoundHeap
  <1>3. \A k \in Contracts : book'[k] # 0 =>
          book'[k] > Len(h) /\ heap'[book'[k]] = rows.pos[k]
    BY <1>1, LoadedMatches
  <1>4. Distinct'
    BY <1>1, LoadedDistinct
  <1>5. SavesOwn'
    <2> SUFFICES ASSUME NEW q \in Tasks, task'[q].pc = "save", NEW j \in Contracts,
                        book'[j] = task'[q].obj
                 PROVE  FALSE
      BY DEF SavesOwn
    <2> QED
      BY <1>1, <1>3
  <1>6. rows'.obj = book' /\ rows'.pos = rows.pos
    BY <1>1 DEF RowsSound
  <1>7. RowsFollowBook'
    BY <1>3, <1>6 DEF RowsFollowBook, Pos
  <1> QED
    BY <1>2, <1>4, <1>5, <1>6, <1>7 DEF RowsInv

LEMMA TouchRows ==
    ASSUME BookInv, BookInv', RowsInv, NEW p \in Prices, Touch(p)
    PROVE  RowsInv'
  <1> DEFINE i == Candidate
             o == orders[i]
             w == task["worker"]
             rest == w.todo \ {i}
             f == Fill(o.k, o.n, p)
             gain == Gain(Pos(o.k), o.n, p)
  <1>1. /\ w.pc = "loop" /\ w.done = 0 /\ w \in TaskRecord /\ task \in [Tasks -> TaskRecord]
        /\ "worker" \in Tasks /\ rows' = rows
        /\ o.k \in Contracts /\ o.n \in Int \ {0}
    BY TasksType, TouchFacts DEF Touch, TaskSound, Tasks
  <1>2. CASE Refused(o.k, o.n) \/ ~Covered(o.k, o.n, p, realized)
    <2>1. /\ UNCHANGED <<heap, book>>
          /\ \A q \in Clients : task'[q] = task[q]
          /\ task' = [task EXCEPT !["worker"] = [@ EXCEPT !.pc = "mark", !.ord = i, !.todo = rest]]
      BY <1>2, TouchFacts DEF Touch
    <2> HIDE DEF i, o, rest
    <2>2. task'["worker"].pc # "save"
      BY <1>1, <2>1 DEF TaskRecord
    <2>3. QuietTasks
      BY <1>1, <2>1, <2>2 DEF QuietTasks, Tasks
    <2> QED
      BY <1>1, <2>1, <2>3, SameQuiet
  <1>3. CASE ~(Refused(o.k, o.n) \/ ~Covered(o.k, o.n, p, realized))
    <2>1. /\ heap' = f.heap /\ book' = [book EXCEPT ![o.k] = f.at]
          /\ task' = [task EXCEPT !["worker"] = [Saving(@, o.k, f, gain) EXCEPT !.todo = rest]]
      BY <1>3 DEF Touch
    <2> HIDE DEF f, gain, rest, o
    <2>2. /\ task'["worker"].pc = "save" /\ task'["worker"].k = o.k /\ task'["worker"].obj = f.at
          /\ task'["worker"].done = 0 /\ \A r \in Tasks \ {"worker"} : task'[r] = task[r]
      BY <1>1, <2>1 DEF Saving, TaskRecord
    <2>3. book'[o.k] = f.at
      BY <1>1, <2>1, TasksType
    <2>4. Checked(o.k, o.n) /\ realized \in Int
      BY <1>1, <1>3, CidType, RefusedChecks DEF o
    <2>5. Len(heap) <= Len(heap') /\ HeapSound'
      BY <1>1, <2>1, <2>4, CidType, FillSound DEF f, BookInv
    <2> QED
      BY <1>1, <2>1, <2>2, <2>3, <2>5, FillRows DEF f
  <1> QED
    BY <1>2, <1>3

LEMMA RowsStep ==
    ASSUME BookInv, RowsInv, [BookNext]_bookVars
    PROVE  RowsInv'
  <1>0. BookInv'
    BY StepInv
  <1>1. ASSUME UNCHANGED <<heap, book, rows>>, QuietTasks PROVE RowsInv'
    BY <1>1, SameQuiet
  <1>2. ASSUME UNCHANGED <<heap, book, rows>>, NEW q \in Tasks, task[q].pc # "save", task'[q].pc # "save",
               \A r \in Tasks \ {q} : task'[r] = task[r]
        PROVE  RowsInv'
    BY <1>1, <1>2 DEF QuietTasks
  <1>3. task \in [Tasks -> TaskRecord] /\ Clients \subseteq Tasks /\ "worker" \in Tasks
    BY CidType
  <1>4. ASSUME NEW q \in Clients, NEW o \in Payloads, Place(q, o) PROVE RowsInv'
    <2>1. /\ UNCHANGED <<heap, book, rows>> /\ task[q].pc # "save" /\ task'[q].pc # "save"
          /\ \A r \in Tasks \ {q} : task'[r] = task[r]
      BY <1>3, <1>4 DEF Place, Idle
    <2> QED
      BY <1>2, <1>3, <2>1
  <1>5. ASSUME NEW q \in Clients, Reject(q) \/ Rest(q) PROVE RowsInv'
    <2>1. /\ UNCHANGED <<heap, book, rows>> /\ task[q].pc # "save" /\ task'[q].pc # "save"
          /\ \A r \in Tasks \ {q} : task'[r] = task[r]
      BY <1>3, <1>5, IdleType DEF Reject, Rest, Release
    <2> QED
      BY <1>2, <1>3, <2>1
  <1>6. ASSUME NEW q \in Clients, NEW k \in Contracts, SquareOff(q, k) PROVE RowsInv'
    <2>1. /\ UNCHANGED <<heap, book, rows>> /\ task[q].pc # "save" /\ task'[q].pc # "save"
          /\ \A r \in Tasks \ {q} : task'[r] = task[r]
      BY <1>3, <1>6 DEF SquareOff, Idle
    <2> QED
      BY <1>2, <1>3, <2>1
  <1>7. ASSUME NEW q \in Clients, NEW k \in Contracts, NEW n \in Int \ {0}, NEW p \in Prices,
               task[q].pc \in {"quote", "exit"}, Checked(k, n), Execute(q, k, n, p), rows' = rows
        PROVE  RowsInv'
    <2>1. Len(heap) <= Len(heap')
      BY <1>7, CidType, FillSound DEF Execute
    <2> QED
      BY <1>0, <1>7, <2>1, ExecuteRows
  <1>8. ASSUME NEW q \in Clients, NEW p \in Prices, FillNow(q, p) PROVE RowsInv'
    BY <1>7, <1>8, FillNowFacts, CidType DEF FillNow
  <1>9. ASSUME NEW q \in Clients, NEW p \in Prices, Exit(q, p) PROVE RowsInv'
    <2> DEFINE k == task[q].k
    <2>1. /\ task[q].pc = "exit" /\ k \in Contracts /\ -Pos(k).qty \in Int \ {0} /\ rows' = rows
          /\ Pos(k).qty # 0
      BY <1>9, ExitFacts DEF Exit
    <2>2. CASE Refused(k, -Pos(k).qty)
      <3>1. Release(q) /\ heap' = [heap EXCEPT ![book[k]].ltp = p] /\ book' = book
        BY <1>9, <2>2 DEF Exit
      <3>2. QuietTasks
        BY <1>3, <2>1, <3>1, IdleType DEF Release, QuietTasks
      <3> QED
        BY <2>1, <3>1, <3>2, CidType, MarkQuiet
    <2>3. CASE ~Refused(k, -Pos(k).qty)
      <3>1. Execute(q, k, -Pos(k).qty, p)
        BY <1>9, <2>3 DEF Exit
      <3>2. Checked(k, -Pos(k).qty)
        BY <2>1, <2>3, CidType, RefusedChecks
      <3> HIDE DEF k
      <3> QED
        BY <1>7, <2>1, <3>1, <3>2
    <2> QED
      BY <2>2, <2>3
  <1>10. ASSUME NEW q \in Tasks, SaveOrder(q) \/ SavePosition(q) \/ SavePortfolio(q) PROVE RowsInv'
    BY <1>10, SavePositionRows, OtherSavesRows
  <1>11. ASSUME NEW i \in DOMAIN orders, Cancel(i) PROVE RowsInv'
    BY <1>1, <1>11 DEF Cancel, QuietTasks
  <1>12. ASSUME Reset PROVE RowsInv'
    <2>1. /\ book' = [k \in Contracts |-> 0] /\ rows' = NoRows /\ UNCHANGED <<heap, task>>
      BY <1>12 DEF Reset
    <2>2. \A k \in Contracts : book'[k] = 0 /\ rows'.obj[k] = 0
      BY <2>1 DEF NoRows
    <2>3. SavesOwn'
      BY <2>1, <2>2, TasksType DEF SavesOwn
    <2>4. Distinct' /\ RowsFollowBook' /\ \A k \in Contracts : rows'.obj[k] <= Len(heap')
      BY <2>1, <2>2, TasksType DEF Distinct, RowsFollowBook
    <2> QED
      BY <2>3, <2>4 DEF RowsInv
  <1>13. ASSUME Restart PROVE RowsInv'
    <2>1. /\ rows' = [rows EXCEPT !.obj = book']
          /\ \A q \in Tasks : task'[q].pc = "idle"
          /\ \/ heap' = Loaded(<<>>).heap /\ book' = Loaded(<<>>).book
             \/ heap' = <<>> /\ book' = [k \in Contracts |-> 0]
      BY <1>13, IdleType DEF Restart
    <2>2. CASE heap' = Loaded(<<>>).heap /\ book' = Loaded(<<>>).book
      <3>1. <<>> \in Seq(PosRecord) /\ SoundHeap(<<>>)
        BY DEF SoundHeap
      <3> QED
        BY <2>1, <2>2, <3>1, LoadedRows
    <2>3. CASE heap' = <<>> /\ book' = [k \in Contracts |-> 0]
      <3>1. \A k \in Contracts : book'[k] = 0 /\ rows'.obj[k] = 0
        BY <2>1, <2>3, TasksType DEF RowsSound
      <3>2. Distinct' /\ SavesOwn' /\ RowsFollowBook' /\ \A k \in Contracts : rows'.obj[k] <= Len(heap')
        BY <2>1, <2>3, <3>1 DEF Distinct, SavesOwn, RowsFollowBook
      <3> QED
        BY <3>2 DEF RowsInv
    <2> QED
      BY <2>1, <2>2, <2>3
  <1>14. ASSUME Hydrate PROVE RowsInv'
    <2>1. /\ heap' = Loaded(heap).heap /\ book' = Loaded(heap).book
          /\ rows' = [rows EXCEPT !.obj = book'] /\ task' = task
      BY <1>14 DEF Hydrate
    <2>2. heap \in Seq(PosRecord) /\ SoundHeap(heap)
      BY TasksType DEF SoundHeap
    <2> QED
      BY <2>1, <2>2, TasksType, LoadedRows
  <1>15. ASSUME NEW k \in Contracts, TouchStart(k) PROVE RowsInv'
    <2>1. /\ UNCHANGED <<heap, book, rows>> /\ task["worker"].pc # "save" /\ task'["worker"].pc # "save"
          /\ \A r \in Tasks \ {"worker"} : task'[r] = task[r]
      BY <1>3, <1>15 DEF TouchStart, Idle
    <2> QED
      BY <1>2, <1>3, <2>1
  <1>16. ASSUME TouchSkip \/ SaveTouched PROVE RowsInv'
    <2>1. \A r \in Tasks \ {"worker"} : r \in Clients
      BY DEF Tasks
    <2>2. /\ UNCHANGED <<heap, book, rows>> /\ task["worker"].pc # "save" /\ task'["worker"].pc # "save"
          /\ \A r \in Tasks \ {"worker"} : task'[r] = task[r]
      <3>1. CASE TouchSkip
        BY <2>1, <3>1, NextStays DEF TouchSkip
      <3>2. CASE SaveTouched
        BY <2>1, <3>2, SaveTouchedTasks
      <3> QED
        BY <1>16, <3>1, <3>2
    <2> QED
      BY <1>2, <1>3, <2>2
  <1>17. ASSUME NEW k \in Contracts, NEW p \in Prices, Mark(k, p) PROVE RowsInv'
    <2>1. heap' = [heap EXCEPT ![book[k]].ltp = p] /\ book' = book /\ rows' = rows /\ QuietTasks
      BY <1>17 DEF Mark, QuietTasks
    <2> QED
      BY <2>1, MarkQuiet
  <1>18. ASSUME NEW p \in Prices, Touch(p) PROVE RowsInv'
    BY <1>0, <1>18, TouchRows
  <1>19. CASE UNCHANGED bookVars
    BY <1>1, <1>19 DEF bookVars, QuietTasks
  <1> QED
    BY <1>4, <1>5, <1>6, <1>8, <1>9, <1>10, <1>11, <1>12, <1>13, <1>14, <1>15, <1>16, <1>17,
       <1>18, <1>19 DEF BookNext

LEMMA InitRows == BookInit => RowsInv
  <1> SUFFICES ASSUME BookInit PROVE RowsInv
    OBVIOUS
  <1>1. \A k \in Contracts : book[k] = 0 /\ rows.obj[k] = 0
    BY DEF BookInit, NoRows
  <1>2. Len(heap) = 0 /\ \A q \in Tasks : task[q].pc = "idle"
    BY IdleType DEF BookInit
  <1> QED
    BY <1>1, <1>2 DEF RowsInv, Distinct, SavesOwn, RowsFollowBook

\* Through fills, flips, restarts, resets and the worker's unlocked saves: while
\* the object of a position is the one its row was last written from or read
\* into, and no save of it is under way, the row has the position's size,
\* average and margin, so that a restart then loses nothing of it.
THEOREM RowsAreThePositions == BookSpec => []RowsFollowBook
  <1>1. BookInv /\ RowsInv /\ [BookNext]_bookVars => RowsInv'
    BY RowsStep
  <1>2. RowsInv => RowsFollowBook
    BY DEF RowsInv
  <1> QED
    BY <1>1, <1>2, InitRows, BookInvariant, PTL DEF BookSpec
=============================================================================
