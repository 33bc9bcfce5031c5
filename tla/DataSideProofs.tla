--------------------------- MODULE DataSideProofs ---------------------------
(* What the four parts of the data side keep to, for any number of keys,   *)
(* requests, messages, ticks and provider objects.  Each part has an       *)
(* inductive invariant of its own (QInv, GInv, TInv, SInv):                *)
(*   quotes  the lock of a key belongs to the first in line, who alone may *)
(*           lead its flight, and an abandoned follower waits for one      *)
(*           future only;                                                  *)
(*   gate    the validator, its file and the history begin together;       *)
(*   feed    the open bar is of the minute of the last accepted tick, no   *)
(*           written tick is later, and what the deduplicator remembers    *)
(*           was written;                                                  *)
(*   stream  one restart holds the lock, and only a running provider, or   *)
(*           the one being stopped, has a poller or a socket.              *)
EXTENDS DataSide, SequenceTheorems, TLAPS

-----------------------------------------------------------------------------
(* MarketQuotes: the flights and the locks                                 *)

\* The steps of a request that holds its key's lock.
Owning == {"recheck"} \cup Leading

\* The lock is held by the first in line; those behind it wait, each once.
LinesOK ==
    \A k \in Keys : \A i \in DOMAIN line[k] :
        /\ KeyOf[line[k][i]] = k
        /\ step[line[k][i]] \in (IF i = 1 THEN Owning ELSE {"queued"})
        /\ \A j \in DOMAIN line[k] : line[k][i] = line[k][j] => i = j

OwnersFirst ==
    \A r \in Requests :
        step[r] \in Owning => line[KeyOf[r]] # <<>> /\ line[KeyOf[r]][1] = r

\* The abandoned followers wait, each for one future.
OrphansWait ==
    \A o \in orphans : \A r \in o :
        step[r] = "follow" /\ \A p \in orphans : r \in p => p = o

BreakerOK(b) ==
    /\ b \in BreakerRecord
    /\ b.state = "CLOSED" => b.failures < FailureThreshold
    /\ b.state = "HALF_OPEN" => b.successes < ProbeSuccesses

QInv == QTypeOK /\ LinesOK /\ OwnersFirst /\ OrphansWait /\ SingleFlight /\ BreakerOK(breaker)

-----------------------------------------------------------------------------
\* No event takes the breaker's counters past their thresholds.
LEMMA BreakerKeeps ==
    ASSUME NEW b, BreakerOK(b)
    PROVE  /\ BreakerOK(Probed(b)) /\ BreakerOK(OnSuccess(b)) /\ BreakerOK(OnFailure(b))
           /\ b.quiet < RecoveryTimeout => BreakerOK(Aged(b))
<1>1. /\ b \in BreakerRecord
      /\ b.failures \in Nat /\ b.failures <= FailureThreshold
      /\ b.successes \in Nat /\ b.successes <= ProbeSuccesses
      /\ b.quiet \in Nat /\ b.quiet <= RecoveryTimeout
      /\ b.state \in {"CLOSED", "OPEN", "HALF_OPEN"}
      /\ b.state = "CLOSED" => b.failures < FailureThreshold
      /\ b.state = "HALF_OPEN" => b.successes < ProbeSuccesses
  BY BreakerAssumption DEF BreakerOK, BreakerRecord
<1>2. /\ FailureThreshold \in Nat \ {0}
      /\ RecoveryTimeout \in Nat \ {0}
      /\ ProbeSuccesses \in Nat \ {0}
  BY BreakerAssumption
<1> DEFINE B(st, f, n, q) == [state |-> st, failures |-> f, successes |-> n, quiet |-> q]
<1>3. ASSUME NEW st \in {"CLOSED", "OPEN", "HALF_OPEN"},
             NEW f \in Nat, f <= FailureThreshold, NEW n \in Nat, n <= ProbeSuccesses,
             NEW q \in Nat, q <= RecoveryTimeout,
             st = "CLOSED" => f < FailureThreshold,
             st = "HALF_OPEN" => n < ProbeSuccesses
      PROVE  BreakerOK(B(st, f, n, q))
  <2>1. f \in 0..FailureThreshold /\ n \in 0..ProbeSuccesses /\ q \in 0..RecoveryTimeout
    BY <1>2, <1>3
  <2>2. B(st, f, n, q) \in BreakerRecord
    BY <2>1 DEF BreakerRecord
  <2> QED BY <1>3, <2>2 DEF BreakerOK
<1>4. ASSUME NEW c, NEW st, NEW f, NEW n, NEW q, c = B(st, f, n, q)
      PROVE  /\ \A x : [c EXCEPT !.state = x] = B(x, f, n, q)
             /\ \A x : [c EXCEPT !.failures = x] = B(st, x, n, q)
             /\ \A x : [c EXCEPT !.successes = x] = B(st, f, x, q)
             /\ \A x : [c EXCEPT !.quiet = x] = B(st, f, n, x)
             /\ c.failures = f /\ c.successes = n /\ c.quiet = q
  BY <1>4
<1>5. b = B(b.state, b.failures, b.successes, b.quiet)
  BY <1>1 DEF BreakerRecord
<1> HIDE DEF B
<1>6. \A st, n : [b EXCEPT !.state = st, !.successes = n] = B(st, b.failures, n, b.quiet)
  <2> SUFFICES ASSUME NEW st, NEW n
               PROVE  [[b EXCEPT !.state = st] EXCEPT !.successes = n] = B(st, b.failures, n, b.quiet)
    OBVIOUS
  <2> DEFINE c == [b EXCEPT !.state = st]
  <2>1. c = B(st, b.failures, b.successes, b.quiet)
    BY <1>4, <1>5
  <2> HIDE DEF c
  <2>2. [c EXCEPT !.successes = n] = B(st, b.failures, n, b.quiet)
    BY <1>4, <2>1
  <2> QED BY <2>2 DEF c
<1>7. [b EXCEPT !.state = "CLOSED", !.failures = 0, !.successes = 0] = B("CLOSED", 0, 0, b.quiet)
  <2> DEFINE c == [b EXCEPT !.state = "CLOSED"]
             d == [c EXCEPT !.failures = 0]
  <2>1. c = B("CLOSED", b.failures, b.successes, b.quiet)
    BY <1>4, <1>5
  <2>2. [b EXCEPT !.state = "CLOSED", !.failures = 0, !.successes = 0] = [d EXCEPT !.successes = 0]
    OBVIOUS
  <2> HIDE DEF c
  <2>3. d = B("CLOSED", 0, b.successes, b.quiet)
    BY <1>4, <2>1
  <2> HIDE DEF d
  <2>4. [d EXCEPT !.successes = 0] = B("CLOSED", 0, 0, b.quiet)
    BY <1>4, <2>3
  <2> QED BY <2>2, <2>4
<1>8. /\ [b EXCEPT !.quiet = 0] = B(b.state, b.failures, b.successes, 0)
      /\ [[b EXCEPT !.quiet = 0] EXCEPT !.state = "OPEN"] = B("OPEN", b.failures, b.successes, 0)
      /\ [[b EXCEPT !.quiet = 0] EXCEPT !.failures = @ + 1]
           = B(b.state, b.failures + 1, b.successes, 0)
      /\ [[b EXCEPT !.quiet = 0] EXCEPT !.state = "OPEN", !.failures = @ + 1]
           = B("OPEN", b.failures + 1, b.successes, 0)
  <2> DEFINE late == [b EXCEPT !.quiet = 0]
             c == [late EXCEPT !.state = "OPEN"]
  <2>1. late = B(b.state, b.failures, b.successes, 0) /\ late.failures = b.failures
    BY <1>4, <1>5
  <2> HIDE DEF late
  <2>2. /\ c = B("OPEN", b.failures, b.successes, 0) /\ c.failures = b.failures
        /\ [late EXCEPT !.failures = @ + 1] = B(b.state, b.failures + 1, b.successes, 0)
    BY <1>4, <2>1
  <2>3. [late EXCEPT !.state = "OPEN", !.failures = @ + 1] = [c EXCEPT !.failures = @ + 1]
    OBVIOUS
  <2> HIDE DEF c
  <2>4. [c EXCEPT !.failures = @ + 1] = B("OPEN", b.failures + 1, b.successes, 0)
    BY <1>4, <2>2
  <2> QED BY <2>1, <2>2, <2>3, <2>4 DEF late, c
<1>9. BreakerOK(Probed(b))
  <2>1. BreakerOK(B("HALF_OPEN", b.failures, 0, b.quiet))
    BY <1>1, <1>2, <1>3
  <2> QED BY <1>6, <2>1 DEF Probed
<1>10. BreakerOK(OnSuccess(b))
  <2>1. CASE b.state = "HALF_OPEN"
    <3>1. BreakerOK(B("CLOSED", 0, 0, b.quiet))
      BY <1>1, <1>2, <1>3
    <3>2. b.successes + 1 < ProbeSuccesses =>
            BreakerOK(B("HALF_OPEN", b.failures, b.successes + 1, b.quiet))
      BY <1>1, <1>2, <1>3
    <3>3. CASE b.successes + 1 >= ProbeSuccesses
      <4>1. ~(b.successes + 1 < ProbeSuccesses)
        BY <1>1, <1>2, <3>3
      <4>2. OnSuccess(b) = B("CLOSED", 0, 0, b.quiet)
        BY <1>7, <2>1, <3>3, <4>1 DEF OnSuccess
      <4> QED BY <3>1, <4>2
    <3>4. CASE b.successes + 1 < ProbeSuccesses
      <4>1. ~(b.successes + 1 >= ProbeSuccesses)
        BY <1>1, <1>2, <3>4
      <4>2. OnSuccess(b) = B("HALF_OPEN", b.failures, b.successes + 1, b.quiet)
        BY <1>4, <1>5, <2>1, <3>4, <4>1 DEF OnSuccess
      <4> QED BY <3>2, <3>4, <4>2
    <3> QED BY <1>1, <1>2, <3>3, <3>4
  <2>2. CASE b.state = "CLOSED"
    <3>1. BreakerOK(B("CLOSED", 0, b.successes, b.quiet))
      BY <1>1, <1>2, <1>3
    <3>2. OnSuccess(b) = B("CLOSED", 0, b.successes, b.quiet)
      BY <1>4, <1>5, <2>2 DEF OnSuccess
    <3> QED BY <3>1, <3>2
  <2>3. CASE b.state = "OPEN"
    <3>1. OnSuccess(b) = b
      BY <2>3 DEF OnSuccess
    <3> QED BY <3>1
  <2> QED BY <1>1, <2>1, <2>2, <2>3
<1>11. BreakerOK(OnFailure(b))
  <2>1. BreakerOK(B("OPEN", b.failures, b.successes, 0))
    BY <1>1, <1>2, <1>3
  <2>2. CASE b.state = "HALF_OPEN"
    <3>1. OnFailure(b) = B("OPEN", b.failures, b.successes, 0)
      BY <1>8, <2>2 DEF OnFailure
    <3> QED BY <2>1, <3>1
  <2>3. CASE b.state = "CLOSED"
    <3>1. BreakerOK(B("OPEN", b.failures + 1, b.successes, 0))
      BY <1>1, <1>2, <1>3, <2>3
    <3>2. b.failures + 1 < FailureThreshold =>
            BreakerOK(B("CLOSED", b.failures + 1, b.successes, 0))
      BY <1>1, <1>2, <1>3
    <3>3. CASE b.failures + 1 >= FailureThreshold
      <4>1. ~(b.failures + 1 < FailureThreshold)
        BY <1>1, <1>2, <3>3
      <4>2. OnFailure(b) = B("OPEN", b.failures + 1, b.successes, 0)
        BY <1>8, <2>3, <3>3, <4>1 DEF OnFailure
      <4> QED BY <3>1, <4>2
    <3>4. CASE b.failures + 1 < FailureThreshold
      <4>1. ~(b.failures + 1 >= FailureThreshold)
        BY <1>1, <1>2, <3>4
      <4>2. OnFailure(b) = B("CLOSED", b.failures + 1, b.successes, 0)
        BY <1>8, <2>3, <3>4, <4>1 DEF OnFailure
      <4> QED BY <3>2, <3>4, <4>2
    <3> QED BY <1>1, <1>2, <3>3, <3>4
  <2>4. CASE b.state = "OPEN"
    <3>1. OnFailure(b) = B("OPEN", b.failures, b.successes, 0)
      BY <1>8, <2>4 DEF OnFailure
    <3> QED BY <2>1, <3>1
  <2> QED BY <1>1, <2>2, <2>3, <2>4
<1>12. b.quiet < RecoveryTimeout => BreakerOK(Aged(b))
  <2> SUFFICES ASSUME b.quiet < RecoveryTimeout PROVE BreakerOK(Aged(b))
    OBVIOUS
  <2>1. BreakerOK(B(b.state, b.failures, b.successes, b.quiet + 1))
    BY <1>1, <1>2, <1>3
  <2>2. Aged(b) = B(b.state, b.failures, b.successes, b.quiet + 1)
    BY <1>4, <1>5 DEF Aged
  <2> QED BY <2>1, <2>2
<1> QED BY <1>9, <1>10, <1>11, <1>12

-----------------------------------------------------------------------------
\* The lines stay in order while nobody enters or leaves one.
LEMMA LinesStay ==
    ASSUME QInv, line' = line,
           \A q \in Requests : /\ (step'[q] \in Owning) = (step[q] \in Owning)
                               /\ (step'[q] = "queued") = (step[q] = "queued")
    PROVE  LinesOK' /\ OwnersFirst'
<1>1. \A k \in Keys : \A i \in DOMAIN line[k] : line[k][i] \in Requests
  BY LenProperties, ElementOfSeq DEF QInv, QTypeOK
<1>2. LinesOK'
  <2> SUFFICES ASSUME NEW k \in Keys, NEW i \in DOMAIN line[k]
               PROVE  step'[line[k][i]] \in (IF i = 1 THEN Owning ELSE {"queued"})
    BY DEF QInv, LinesOK
  <2> QED BY <1>1 DEF QInv, LinesOK
<1>3. OwnersFirst'
  BY DEF QInv, OwnersFirst
<1> QED BY <1>2, <1>3

\* A flight stays in order while its leader stays and no follower joins.
LEMMA FlightsStay ==
    ASSUME QInv, flight' = flight,
           \A q \in Requests : /\ (step'[q] \in Leading) = (step[q] \in Leading)
                               /\ step'[q] = "follow" /\ ~Orphaned(q)' => step[q] = "follow" /\ ~Orphaned(q)
    PROVE  SingleFlight'
BY DEF QInv, SingleFlight, Leaders, Followers

\* The holder of the lock returns, with followers, and the next in line has it.
LEMMA HandOver ==
    ASSUME QInv, NEW r \in Requests, step[r] \in Owning,
           NEW R \in SUBSET Requests, r \in R, \A q \in R \ {r} : step[q] = "follow",
           step' = HandedOn(r, Returned(R)), line' = Released(r)
    PROVE  /\ step' \in [Requests -> Steps] /\ line' \in [Keys -> Seq(Requests)]
           /\ LinesOK' /\ OwnersFirst'
           /\ \A q \in Requests : /\ step'[q] \in Leading <=> step[q] \in Leading /\ q # r
                                  /\ step'[q] = "follow" <=> step[q] = "follow" /\ q \notin R
<1> DEFINE k == KeyOf[r]
           l == line[k]
           rest == Tail(l)
           st == Returned(R)
<1> USE QuotesAssumption DEF Owning, Leading
<1>1. k \in Keys /\ l \in Seq(Requests) /\ l # <<>> /\ l[1] = r
  BY DEF QInv, QTypeOK, OwnersFirst
<1>2. /\ Len(l) \in Nat /\ Len(l) > 0 /\ DOMAIN l = 1..Len(l)
      /\ rest \in Seq(Requests) /\ Len(rest) = Len(l) - 1 /\ DOMAIN rest = 1..Len(rest)
      /\ \A i \in DOMAIN rest : rest[i] = l[i + 1] /\ i + 1 \in DOMAIN l /\ rest[i] \in Requests
  <2>1. Len(l) \in Nat /\ DOMAIN l = 1..Len(l) /\ Len(l) > 0
    BY <1>1, EmptySeq, LenProperties
  <2>2. /\ rest \in Seq(Requests) /\ Len(rest) = Len(l) - 1
        /\ \A i \in 1..Len(rest) : rest[i] = l[i + 1]
    BY <1>1, HeadTailProperties
  <2>3. DOMAIN rest = 1..Len(rest) /\ \A i \in 1..Len(rest) : rest[i] \in Requests
    BY <2>2, LenProperties, ElementOfSeq
  <2> QED BY <2>1, <2>2, <2>3
<1>3. \A i \in DOMAIN rest : KeyOf[rest[i]] = k /\ step[rest[i]] = "queued" /\ rest[i] # r
  BY <1>1, <1>2 DEF QInv, LinesOK
<1>4. /\ line' \in [Keys -> Seq(Requests)] /\ line'[k] = rest
      /\ \A h \in Keys : h # k => line'[h] = line[h]
  BY <1>1, <1>2 DEF Released, QInv, QTypeOK
<1>5. /\ st \in [Requests -> Steps]
      /\ \A q \in Requests : st[q] = IF q \in R THEN "idle" ELSE step[q]
  BY DEF Returned, QInv, QTypeOK, Steps
<1> HIDE DEF rest, st, l
<1>6. /\ step' \in [Requests -> Steps]
      /\ rest = <<>> => step' = st
      /\ rest # <<>> => /\ 1 \in DOMAIN rest /\ step'[rest[1]] = "recheck"
                        /\ \A q \in Requests : q # rest[1] => step'[q] = st[q]
  <2>1. CASE rest = <<>>
    BY <1>5, <2>1 DEF HandedOn, rest, l, st
  <2>2. CASE rest # <<>>
    <3>1. 1 \in DOMAIN rest /\ Head(rest) = rest[1] /\ rest[1] \in Requests
      <4>1. Len(rest) \in Nat \ {0}
        BY <1>2, <2>2, EmptySeq
      <4>2. 1 \in DOMAIN rest
        BY <1>2, <4>1
      <4>3. Head(rest) = rest[1]
        BY <1>2, <2>2
      <4> QED BY <1>2, <4>2, <4>3
    <3>2. step' = [st EXCEPT ![rest[1]] = "recheck"]
      BY <2>2, <3>1 DEF HandedOn, rest, l, st
    <3> QED BY <1>5, <2>2, <3>1, <3>2 DEF Steps
  <2> QED BY <2>1, <2>2
<1>7. \A q \in Requests :
        step'[q] = step[q] \/ q \in R \/ (rest # <<>> /\ q = rest[1])
  BY <1>5, <1>6
<1>8. \A i \in DOMAIN rest : rest[i] \notin R
  BY <1>3
<1>9. \A q \in R : step'[q] = "idle"
  BY <1>5, <1>6, <1>8
<1>10. \A q \in Requests : /\ step'[q] \in Leading <=> step[q] \in Leading /\ q # r
                           /\ step'[q] = "follow" <=> step[q] = "follow" /\ q \notin R
  <2> SUFFICES ASSUME NEW q \in Requests
               PROVE  /\ step'[q] \in Leading <=> step[q] \in Leading /\ q # r
                      /\ step'[q] = "follow" <=> step[q] = "follow" /\ q \notin R
    OBVIOUS
  <2>1. CASE q \in R
    BY <1>9, <2>1
  <2>2. CASE rest # <<>> /\ q = rest[1]
    BY <1>3, <1>6, <2>2
  <2>3. CASE q \notin R /\ ~(rest # <<>> /\ q = rest[1])
    BY <1>7, <2>3
  <2> QED BY <2>1, <2>2, <2>3
<1>11. LinesOK'
  <2> SUFFICES ASSUME NEW h \in Keys, NEW i \in DOMAIN line'[h]
               PROVE  /\ KeyOf[line'[h][i]] = h
                      /\ step'[line'[h][i]] \in (IF i = 1 THEN Owning ELSE {"queued"})
                      /\ \A j \in DOMAIN line'[h] : line'[h][i] = line'[h][j] => i = j
    BY DEF LinesOK
  <2>1. CASE h = k
    <3>1. line'[h] = rest /\ i \in DOMAIN rest /\ KeyOf[rest[i]] = h
      BY <1>3, <1>4, <2>1
    <3>2. \A j \in DOMAIN rest : rest[i] = rest[j] => i = j
      <4> SUFFICES ASSUME NEW j \in DOMAIN rest, rest[i] = rest[j] PROVE i = j
        OBVIOUS
      <4>1. l[i + 1] = l[j + 1] /\ i + 1 \in DOMAIN l /\ j + 1 \in DOMAIN l
        BY <1>2, <3>1
      <4>2. i + 1 = j + 1
        BY <1>1, <4>1 DEF QInv, LinesOK, l
      <4> QED BY <1>2, <3>1, <4>2
    <3>3. step'[rest[i]] \in (IF i = 1 THEN Owning ELSE {"queued"})
      <4>1. CASE i = 1
        BY <1>6, <3>1, <4>1
      <4>2. CASE i # 1
        <5>1. rest # <<>> /\ rest[i] # rest[1]
          BY <1>2, <1>6, <3>1, <3>2, <4>2
        <5> QED BY <1>2, <1>3, <1>7, <1>8, <3>1, <4>2, <5>1
      <4> QED BY <4>1, <4>2
    <3> QED BY <3>1, <3>2, <3>3
  <2>2. CASE h # k
    <3>1. line'[h] = line[h] /\ line[h] \in Seq(Requests)
      BY <1>4, <2>2 DEF QInv, QTypeOK
    <3>2. line[h][i] \in Requests
      BY <3>1, LenProperties, ElementOfSeq
    <3>3. /\ KeyOf[line[h][i]] = h
          /\ step[line[h][i]] \in (IF i = 1 THEN Owning ELSE {"queued"})
          /\ \A j \in DOMAIN line[h] : line[h][i] = line[h][j] => i = j
      BY <3>1 DEF QInv, LinesOK
    <3>4. step'[line[h][i]] = step[line[h][i]]
      <4>1. line[h][i] \notin R
        BY <2>2, <3>2, <3>3
      <4>2. ~(rest # <<>> /\ line[h][i] = rest[1])
        BY <1>3, <1>6, <2>2, <3>3
      <4> QED BY <1>7, <3>2, <4>1, <4>2
    <3> QED BY <3>1, <3>3, <3>4
  <2> QED BY <2>1, <2>2
<1>12. OwnersFirst'
  <2> SUFFICES ASSUME NEW q \in Requests, step'[q] \in Owning
               PROVE  line'[KeyOf[q]] # <<>> /\ line'[KeyOf[q]][1] = q
    BY DEF OwnersFirst
  <2>1. CASE rest # <<>> /\ q = rest[1]
    BY <1>3, <1>4, <1>6, <2>1
  <2>2. CASE ~(rest # <<>> /\ q = rest[1])
    <3>1. q \notin R /\ step'[q] = step[q]
      BY <1>7, <1>9, <2>2
    <3>2. line[KeyOf[q]] # <<>> /\ line[KeyOf[q]][1] = q /\ q # r
      BY <3>1 DEF QInv, OwnersFirst
    <3>3. KeyOf[q] # k /\ KeyOf[q] \in Keys
      BY <1>1, <3>2 DEF l
    <3> QED BY <1>4, <3>2, <3>3
  <2> QED BY <2>1, <2>2
<1> QED BY <1>4, <1>6, <1>10, <1>11, <1>12

-----------------------------------------------------------------------------
\* What a request's step leaves to show when nobody enters or leaves a line
\* and the flights, their leaders and their followers stay.
LEMMA QuietStep ==
    ASSUME QInv, UNCHANGED <<line, flight, orphans>>,
           step' \in [Requests -> Steps],
           attempt' \in [Requests -> 0..MaxRetries], fresh' \subseteq Keys, BreakerOK(breaker'),
           \A q \in Requests :
             /\ (step'[q] \in Owning) = (step[q] \in Owning)
             /\ (step'[q] \in Leading) = (step[q] \in Leading)
             /\ (step'[q] = "queued") = (step[q] = "queued")
             /\ (step'[q] = "follow") = (step[q] = "follow")
    PROVE  QInv'
<1>1. QTypeOK'
  BY DEF QInv, QTypeOK, BreakerOK
<1>2. LinesOK' /\ OwnersFirst'
  BY LinesStay
<1>3. SingleFlight'
  BY FlightsStay DEF Orphaned
<1>4. OrphansWait'
  BY DEF QInv, QTypeOK, OrphansWait
<1>5. BreakerOK(breaker)'
  BY DEF BreakerOK, BreakerRecord
<1> QED BY <1>1, <1>2, <1>3, <1>4, <1>5 DEF QInv

\* A flight that ends leaves no leader and no follower behind.
LEMMA LandedKeeps ==
    ASSUME QInv, NEW r \in Requests, step[r] \in Leading, NEW ok \in BOOLEAN, Landed(r, ok),
           BreakerOK(breaker')
    PROVE  QInv'
<1> DEFINE k == KeyOf[r]
           R == {r} \cup Followers(k)
<1>1. k \in Keys /\ R \in SUBSET Requests /\ r \in R /\ step[r] \in Owning
  BY QuotesAssumption DEF Followers, Owning
<1>2. step' = HandedOn(r, Returned(R)) /\ line' = Released(r)
  BY DEF Landed
<1>3. \A q \in R \ {r} : step[q] = "follow"
  BY DEF Followers
<1>4. /\ flight' = [flight EXCEPT ![k] = "none"] /\ fresh' \subseteq Keys
      /\ UNCHANGED <<attempt, orphans>>
  BY <1>1 DEF Landed, QInv, QTypeOK
<1> HIDE DEF R
<1>5. /\ step' \in [Requests -> Steps] /\ line' \in [Keys -> Seq(Requests)]
      /\ LinesOK' /\ OwnersFirst'
      /\ \A q \in Requests : /\ step'[q] \in Leading <=> step[q] \in Leading /\ q # r
                             /\ step'[q] = "follow" <=> step[q] = "follow" /\ q \notin R
  BY <1>1, <1>2, <1>3, HandOver
<1>6. QTypeOK'
  BY <1>4, <1>5 DEF QInv, QTypeOK, BreakerOK
<1>7. OrphansWait'
  <2> SUFFICES ASSUME NEW o \in orphans, NEW q \in o PROVE step'[q] = "follow"
    BY <1>4 DEF QInv, OrphansWait
  <2>1. q \in Requests /\ step[q] = "follow" /\ Orphaned(q)
    BY DEF QInv, QTypeOK, OrphansWait, Orphaned
  <2>2. q \notin R
    BY <2>1 DEF R, Followers, Leading
  <2> QED BY <1>5, <2>1, <2>2
<1>8. SingleFlight'
  <2> SUFFICES ASSUME NEW h \in Keys
               PROVE  /\ \A p, q \in Leaders(h)' : p = q
                      /\ flight'[h] = "none" <=> Leaders(h)' = {}
                      /\ Followers(h)' # {} => flight'[h] = "pending"
    BY DEF SingleFlight
  <2>1. \A q \in Requests : Orphaned(q)' = Orphaned(q)
    BY <1>4 DEF Orphaned
  <2>2. CASE h = k
    <3>1. Leaders(h)' = {}
      <4> SUFFICES ASSUME NEW q \in Requests, KeyOf[q] = k, step'[q] \in Leading PROVE FALSE
        BY <2>2 DEF Leaders
      <4>1. q \in Leaders(k) /\ r \in Leaders(k) /\ q # r
        BY <1>5 DEF Leaders
      <4> QED BY <1>1, <4>1 DEF QInv, SingleFlight
    <3>2. Followers(h)' = {}
      BY <1>5, <2>1, <2>2 DEF Followers, R
    <3>3. flight'[h] = "none"
      BY <1>1, <1>4, <2>2 DEF QInv, QTypeOK
    <3> QED BY <3>1, <3>2, <3>3
  <2>3. CASE h # k
    <3>1. flight'[h] = flight[h]
      BY <1>4, <2>3 DEF QInv, QTypeOK
    <3>2. Leaders(h)' = Leaders(h) /\ Followers(h)' = Followers(h)
      BY <1>5, <2>1, <2>3 DEF Leaders, Followers, R
    <3> QED BY <3>1, <3>2 DEF QInv, SingleFlight
  <2> QED BY <2>2, <2>3
<1>9. BreakerOK(breaker)'
  BY DEF BreakerOK, BreakerRecord
<1> QED BY <1>5, <1>6, <1>7, <1>8, <1>9 DEF QInv

LEMMA AttemptFailedKeeps ==
    ASSUME QInv, NEW r \in Requests, step[r] \in Leading, AttemptFailed(r), BreakerOK(breaker')
    PROVE  QInv'
<1>1. CASE attempt[r] < MaxRetries
  <2>1. /\ attempt' = [attempt EXCEPT ![r] = @ + 1] /\ step' = [step EXCEPT ![r] = "backoff"]
        /\ UNCHANGED <<fresh, line, flight, orphans>>
    BY <1>1 DEF AttemptFailed
  <2>2. attempt' \in [Requests -> 0..MaxRetries]
    BY <1>1, <2>1, QuotesAssumption DEF QInv, QTypeOK
  <2>3. step' \in [Requests -> Steps] /\ fresh' \subseteq Keys
    BY <2>1 DEF QInv, QTypeOK, Steps
  <2> QED BY <2>1, <2>2, <2>3, QuietStep DEF QInv, QTypeOK, Owning, Leading
<1>2. CASE ~(attempt[r] < MaxRetries)
  BY <1>2, LandedKeeps DEF AttemptFailed
<1> QED BY <1>1, <1>2

LEMMA FailedKeeps ==
    ASSUME QInv, NEW r \in Requests, step[r] \in Leading, Failed(r), BreakerOK(breaker')
    PROVE  QInv'
BY LandedKeeps, AttemptFailedKeeps DEF Failed

-----------------------------------------------------------------------------
LEMMA QueueKeeps == ASSUME QInv, NEW r \in Requests, Queue(r) PROVE QInv'
<1> DEFINE k == KeyOf[r]
           l == line[k]
           new == Append(l, r)
           at == IF l = <<>> THEN "recheck" ELSE "queued"
<1> USE DEF Owning, Leading
<1>1. /\ step[r] = "asked" /\ step' = [step EXCEPT ![r] = at]
      /\ line' = [line EXCEPT ![k] = new]
      /\ UNCHANGED <<attempt, fresh, flight, orphans, breaker>>
  BY DEF Queue
<1>2. k \in Keys /\ l \in Seq(Requests)
  BY QuotesAssumption DEF QInv, QTypeOK
<1>3. /\ Len(l) \in Nat /\ DOMAIN l = 1..Len(l) /\ \A i \in DOMAIN l : l[i] \in Requests
      /\ l = <<>> <=> Len(l) = 0
  BY <1>2, EmptySeq, LenProperties, ElementOfSeq
<1>4. /\ new \in Seq(Requests) /\ DOMAIN new = 1..Len(l) + 1
      /\ \A i \in DOMAIN l : new[i] = l[i]
      /\ new[Len(l) + 1] = r
  BY <1>2, <1>3, AppendProperties, LenProperties
<1>5. /\ step' \in [Requests -> Steps] /\ line' \in [Keys -> Seq(Requests)]
      /\ step'[r] = at /\ \A q \in Requests : q # r => step'[q] = step[q]
      /\ line'[k] = new /\ \A h \in Keys : h # k => line'[h] = line[h]
  BY <1>1, <1>2, <1>4 DEF QInv, QTypeOK, Steps
<1> HIDE DEF new, l, at
<1>6. \A i \in DOMAIN l : l[i] # r
  BY <1>1, <1>2 DEF QInv, LinesOK, l
<1>7. LinesOK'
  <2> SUFFICES ASSUME NEW h \in Keys, NEW i \in DOMAIN line'[h]
               PROVE  /\ KeyOf[line'[h][i]] = h
                      /\ step'[line'[h][i]] \in (IF i = 1 THEN Owning ELSE {"queued"})
                      /\ \A j \in DOMAIN line'[h] : line'[h][i] = line'[h][j] => i = j
    BY DEF LinesOK
  <2>1. CASE h # k
    <3>1. line'[h] = line[h] /\ line[h] \in Seq(Requests)
      BY <1>5, <2>1 DEF QInv, QTypeOK
    <3>2. line[h][i] \in Requests
      BY <3>1, LenProperties, ElementOfSeq
    <3>3. /\ KeyOf[line[h][i]] = h
          /\ step[line[h][i]] \in (IF i = 1 THEN Owning ELSE {"queued"})
          /\ \A j \in DOMAIN line[h] : line[h][i] = line[h][j] => i = j
      BY <3>1 DEF QInv, LinesOK
    <3> QED BY <1>5, <2>1, <3>1, <3>2, <3>3
  <2>2. CASE h = k /\ i \in DOMAIN l
    <3>1. line'[h] = new /\ new[i] = l[i] /\ l[i] \in Requests /\ l[i] # r
      BY <1>3, <1>4, <1>5, <1>6, <2>2
    <3>2. /\ KeyOf[l[i]] = k
          /\ step[l[i]] \in (IF i = 1 THEN Owning ELSE {"queued"})
          /\ \A j \in DOMAIN l : l[i] = l[j] => i = j
      BY <1>2, <2>2 DEF QInv, LinesOK, l
    <3>3. \A j \in DOMAIN new : new[i] = new[j] => i = j
      BY <1>3, <1>4, <2>2, <3>1, <3>2
    <3> QED BY <1>5, <2>2, <3>1, <3>2, <3>3
  <2>3. CASE h = k /\ i \notin DOMAIN l
    <3>1. line'[h] = new /\ i = Len(l) + 1 /\ new[i] = r
      BY <1>3, <1>4, <1>5, <2>3
    <3>2. step'[r] \in (IF i = 1 THEN Owning ELSE {"queued"})
      BY <1>3, <1>5, <3>1 DEF at
    <3>3. \A j \in DOMAIN new : new[i] = new[j] => i = j
      BY <1>3, <1>4, <1>6, <3>1
    <3> QED BY <2>3, <3>1, <3>2, <3>3
  <2> QED BY <2>1, <2>2, <2>3
<1>8. OwnersFirst'
  <2> SUFFICES ASSUME NEW q \in Requests, step'[q] \in Owning
               PROVE  line'[KeyOf[q]] # <<>> /\ line'[KeyOf[q]][1] = q
    BY DEF OwnersFirst
  <2>1. new # <<>>
    BY <1>3, <1>4
  <2>2. CASE q = r
    <3>1. Len(l) = 0
      BY <1>3, <1>5, <2>2 DEF at
    <3> QED BY <1>4, <1>5, <2>1, <2>2, <3>1
  <2>3. CASE q # r
    <3>1. line[KeyOf[q]] # <<>> /\ line[KeyOf[q]][1] = q
      BY <1>5, <2>3 DEF QInv, OwnersFirst
    <3>2. KeyOf[q] = k => 1 \in DOMAIN l
      BY <1>3, <3>1 DEF l
    <3>3. KeyOf[q] \in Keys
      BY QuotesAssumption
    <3> QED BY <1>4, <1>5, <2>1, <3>1, <3>2, <3>3 DEF l
  <2> QED BY <2>2, <2>3
<1>9. SingleFlight'
  BY <1>1, <1>5, FlightsStay DEF Orphaned, at
<1>10. OrphansWait'
  BY <1>1, <1>5 DEF QInv, QTypeOK, OrphansWait
<1>11. QTypeOK' /\ BreakerOK(breaker)'
  BY <1>1, <1>5 DEF QInv, QTypeOK, BreakerOK, BreakerRecord
<1> QED BY <1>7, <1>8, <1>9, <1>10, <1>11 DEF QInv

LEMMA RemoveAtProperties ==
    ASSUME NEW S, NEW s \in Seq(S), NEW i \in 1..Len(s)
    PROVE  /\ RemoveAt(s, i) \in Seq(S) /\ Len(RemoveAt(s, i)) = Len(s) - 1
           /\ \A j \in 1..Len(s) - 1 : RemoveAt(s, i)[j] = IF j < i THEN s[j] ELSE s[j + 1]
<1> DEFINE n == Len(s)
           before == SubSeq(s, 1, i - 1)
           after == SubSeq(s, i + 1, n)
<1>1. n \in Nat /\ DOMAIN s = 1..n
  BY LenProperties
<1>2. \A j \in 1..n : s[j] \in S
  BY ElementOfSeq
<1> HIDE DEF n
<1>3. i \in 1..n
  BY DEF n
<1>4. /\ before \in Seq(S) /\ Len(before) = i - 1
      /\ \A j \in 1..i - 1 : before[j] = s[j]
  <2>1. 1 \in Int /\ i - 1 \in Int /\ \A j \in 1..i - 1 : s[j] \in S
    BY <1>1, <1>2, <1>3
  <2>2. /\ before \in Seq(S)
        /\ Len(before) = IF 1 <= i - 1 THEN i - 1 - 1 + 1 ELSE 0
        /\ \A j \in 1..i - 1 - 1 + 1 : before[j] = s[1 + j - 1]
    BY <2>1, SubSeqProperties
  <2> HIDE DEF before
  <2> QED BY <1>3, <2>2
<1>5. /\ after \in Seq(S) /\ Len(after) = n - i
      /\ \A j \in 1..n - i : after[j] = s[i + j]
  <2>1. i + 1 \in Int /\ n \in Int /\ \A j \in i + 1..n : s[j] \in S
    BY <1>1, <1>2, <1>3
  <2>2. /\ after \in Seq(S)
        /\ Len(after) = IF i + 1 <= n THEN n - (i + 1) + 1 ELSE 0
        /\ \A j \in 1..n - (i + 1) + 1 : after[j] = s[i + 1 + j - 1]
    BY <2>1, SubSeqProperties
  <2> HIDE DEF after
  <2> QED BY <1>1, <1>3, <2>2
<1>6. RemoveAt(s, i) = before \o after
  BY DEF RemoveAt, n
<1> HIDE DEF before, after
<1>7. /\ before \o after \in Seq(S)
      /\ Len(before \o after) = Len(before) + Len(after)
      /\ \A j \in 1..Len(before) + Len(after) :
           (before \o after)[j] = IF j <= Len(before) THEN before[j] ELSE after[j - Len(before)]
  BY <1>4, <1>5, ConcatProperties
<1>8. Len(before) + Len(after) = n - 1
  BY <1>1, <1>3, <1>4, <1>5
<1>9. ASSUME NEW j \in 1..n - 1
      PROVE  (before \o after)[j] = IF j < i THEN s[j] ELSE s[j + 1]
  <2>1. CASE j < i
    <3>1. j \in 1..i - 1 /\ j <= i - 1 /\ j \in 1..Len(before) + Len(after)
      BY <1>1, <1>3, <1>8, <2>1
    <3> QED BY <1>4, <1>7, <2>1, <3>1
  <2>2. CASE ~(j < i)
    <3>1. /\ j - (i - 1) \in 1..n - i /\ ~(j <= i - 1) /\ i + (j - (i - 1)) = j + 1
          /\ j \in 1..Len(before) + Len(after)
      BY <1>1, <1>3, <1>8, <2>2
    <3>2. (before \o after)[j] = after[j - (i - 1)]
      BY <1>4, <1>7, <3>1
    <3>3. after[j - (i - 1)] = s[j + 1]
      BY <1>5, <3>1
    <3> QED BY <2>2, <3>2, <3>3
  <2> QED BY <2>1, <2>2
<1> QED BY <1>6, <1>7, <1>8, <1>9 DEF n

LEMMA CancelQueuedKeeps == ASSUME QInv, NEW r \in Requests, CancelQueued(r) PROVE QInv'
<1> DEFINE k == KeyOf[r]
           l == line[k]
           new(i) == RemoveAt(l, i)
<1> USE DEF Owning, Leading
<1>1. PICK i \in DOMAIN l :
        /\ l[i] = r /\ step[r] = "queued" /\ step' = Returned({r})
        /\ line' = [line EXCEPT ![k] = new(i)]
        /\ UNCHANGED <<attempt, fresh, flight, orphans, breaker>>
  BY DEF CancelQueued
<1>2. k \in Keys /\ l \in Seq(Requests)
  BY QuotesAssumption DEF QInv, QTypeOK
<1>3. Len(l) \in Nat /\ DOMAIN l = 1..Len(l) /\ \A j \in DOMAIN l : l[j] \in Requests
  BY <1>2, LenProperties, ElementOfSeq
<1>4. /\ \A j \in DOMAIN l : KeyOf[l[j]] = k /\ step[l[j]] \in (IF j = 1 THEN Owning ELSE {"queued"})
      /\ \A j, h \in DOMAIN l : l[j] = l[h] => j = h
  BY <1>2 DEF QInv, LinesOK
<1>5. i # 1 /\ i > 1
  BY <1>1, <1>3, <1>4
<1>6. /\ new(i) \in Seq(Requests) /\ DOMAIN new(i) = 1..Len(l) - 1
      /\ \A j \in 1..Len(l) - 1 : new(i)[j] = IF j < i THEN l[j] ELSE l[j + 1]
  <2>1. i \in 1..Len(l)
    BY <1>3
  <2>2. /\ new(i) \in Seq(Requests) /\ Len(new(i)) = Len(l) - 1
        /\ \A j \in 1..Len(l) - 1 : new(i)[j] = IF j < i THEN l[j] ELSE l[j + 1]
    BY <1>2, <2>1, RemoveAtProperties
  <2>3. DOMAIN new(i) = 1..Len(new(i))
    BY <2>2, LenProperties
  <2> QED BY <2>2, <2>3
<1>7. /\ step' \in [Requests -> Steps] /\ line' \in [Keys -> Seq(Requests)]
      /\ step'[r] = "idle" /\ \A q \in Requests : q # r => step'[q] = step[q]
      /\ line'[k] = new(i) /\ \A h \in Keys : h # k => line'[h] = line[h]
  BY <1>1, <1>2, <1>6 DEF QInv, QTypeOK, Steps, Returned
<1> HIDE DEF new, l
<1>8. \A j \in DOMAIN new(i) :
        \E h \in DOMAIN l : h # i /\ new(i)[j] = l[h] /\ h = IF j < i THEN j ELSE j + 1
  BY <1>1, <1>3, <1>6
<1>9. LinesOK'
  <2> SUFFICES ASSUME NEW h \in Keys, NEW j \in DOMAIN line'[h]
               PROVE  /\ KeyOf[line'[h][j]] = h
                      /\ step'[line'[h][j]] \in (IF j = 1 THEN Owning ELSE {"queued"})
                      /\ \A m \in DOMAIN line'[h] : line'[h][j] = line'[h][m] => j = m
    BY DEF LinesOK
  <2>1. CASE h # k
    <3>1. line'[h] = line[h] /\ line[h] \in Seq(Requests)
      BY <1>7, <2>1 DEF QInv, QTypeOK
    <3>2. line[h][j] \in Requests
      BY <3>1, LenProperties, ElementOfSeq
    <3>3. /\ KeyOf[line[h][j]] = h
          /\ step[line[h][j]] \in (IF j = 1 THEN Owning ELSE {"queued"})
          /\ \A m \in DOMAIN line[h] : line[h][j] = line[h][m] => j = m
      BY <3>1 DEF QInv, LinesOK
    <3> QED BY <1>7, <2>1, <3>1, <3>2, <3>3
  <2>2. CASE h = k
    <3>1. line'[h] = new(i) /\ j \in DOMAIN new(i)
      BY <1>7, <2>2
    <3>2. PICK f \in DOMAIN l : f # i /\ new(i)[j] = l[f] /\ f = IF j < i THEN j ELSE j + 1
      BY <1>8, <3>1
    <3>3. l[f] \in Requests /\ l[f] # r /\ KeyOf[l[f]] = k
      BY <1>1, <1>3, <1>4, <3>2
    <3>4. f = 1 <=> j = 1
      BY <1>5, <1>6, <3>1, <3>2
    <3>5. step'[l[f]] \in (IF j = 1 THEN Owning ELSE {"queued"})
      BY <1>4, <1>7, <3>2, <3>3, <3>4
    <3>6. ASSUME NEW m \in DOMAIN new(i), new(i)[j] = new(i)[m] PROVE j = m
      <4>1. PICK g \in DOMAIN l : g # i /\ new(i)[m] = l[g] /\ g = IF m < i THEN m ELSE m + 1
        BY <1>8
      <4>2. f = g
        BY <1>4, <3>2, <3>6, <4>1
      <4> QED BY <1>1, <1>3, <1>6, <3>1, <3>2, <4>1, <4>2
    <3> QED BY <2>2, <3>1, <3>2, <3>3, <3>5, <3>6
  <2> QED BY <2>1, <2>2
<1>10. OwnersFirst'
  <2> SUFFICES ASSUME NEW q \in Requests, step'[q] \in Owning
               PROVE  line'[KeyOf[q]] # <<>> /\ line'[KeyOf[q]][1] = q
    BY DEF OwnersFirst
  <2>1. q # r /\ step[q] \in Owning /\ KeyOf[q] \in Keys
    BY <1>7, QuotesAssumption
  <2>2. line[KeyOf[q]] # <<>> /\ line[KeyOf[q]][1] = q
    BY <2>1 DEF QInv, OwnersFirst
  <2>3. CASE KeyOf[q] = k
    <3>1. 1 \in DOMAIN new(i) /\ new(i)[1] = l[1]
      BY <1>1, <1>3, <1>5, <1>6
    <3> QED BY <1>7, <2>2, <2>3, <3>1 DEF l
  <2>4. CASE KeyOf[q] # k
    <3>1. line'[KeyOf[q]] = line[KeyOf[q]]
      BY <1>7, <2>1, <2>4
    <3> QED BY <2>2, <3>1
  <2> QED BY <2>3, <2>4
<1>11. SingleFlight'
  <2>1. \A q \in Requests : /\ (step'[q] \in Leading) = (step[q] \in Leading)
                            /\ step'[q] = "follow" => step[q] = "follow"
    <3> SUFFICES ASSUME NEW q \in Requests
                 PROVE  /\ (step'[q] \in Leading) = (step[q] \in Leading)
                        /\ step'[q] = "follow" => step[q] = "follow"
      OBVIOUS
    <3>1. CASE q = r
      <4>1. step'[q] = "idle" /\ step[q] = "queued"
        BY <1>1, <1>7, <3>1
      <4> QED BY <4>1
    <3>2. CASE q # r
      BY <1>7, <3>2
    <3> QED BY <3>1, <3>2
  <2> QED BY <1>1, <2>1, FlightsStay DEF Orphaned
<1>12. OrphansWait'
  <2>1. step[r] = "queued" /\ orphans' = orphans
    BY <1>1
  <2>2. \A o \in orphans : \A q \in o : q \in Requests /\ q # r
    BY <2>1 DEF QInv, QTypeOK, OrphansWait
  <2> QED BY <1>7, <2>1, <2>2 DEF QInv, OrphansWait
<1>13. QTypeOK' /\ BreakerOK(breaker)'
  BY <1>1, <1>7 DEF QInv, QTypeOK, BreakerOK, BreakerRecord
<1> QED BY <1>9, <1>10, <1>11, <1>12, <1>13 DEF QInv

-----------------------------------------------------------------------------
\* The owner of the lock lets it go, answered or cancelled.
LEMMA ReuseKeeps ==
    ASSUME QInv, NEW r \in Requests, Reuse(r) \/ CancelRecheck(r)
    PROVE  QInv'
<1>1. /\ step[r] = "recheck" /\ step' = HandedOn(r, Returned({r})) /\ line' = Released(r)
      /\ UNCHANGED <<attempt, fresh, flight, orphans, breaker>>
  BY DEF Reuse, CancelRecheck
<1>2. /\ step' \in [Requests -> Steps] /\ line' \in [Keys -> Seq(Requests)]
      /\ LinesOK' /\ OwnersFirst'
      /\ \A q \in Requests : /\ step'[q] \in Leading <=> step[q] \in Leading /\ q # r
                             /\ step'[q] = "follow" <=> step[q] = "follow" /\ q \notin {r}
  BY <1>1, HandOver DEF Owning
<1>3. SingleFlight'
  <2>1. \A q \in Requests : /\ (step'[q] \in Leading) = (step[q] \in Leading)
                            /\ step'[q] = "follow" => step[q] = "follow"
    <3> SUFFICES ASSUME NEW q \in Requests
                 PROVE  /\ (step'[q] \in Leading) = (step[q] \in Leading)
                        /\ step'[q] = "follow" => step[q] = "follow"
      OBVIOUS
    <3>1. step[r] \notin Leading
      BY <1>1 DEF Leading
    <3>2. step'[q] \in Leading <=> step[q] \in Leading
      BY <1>2, <3>1
    <3> QED BY <1>2, <3>2
  <2> QED BY <1>1, <2>1, FlightsStay DEF Orphaned
<1>4. OrphansWait'
  BY <1>1, <1>2 DEF QInv, QTypeOK, OrphansWait
<1>5. QTypeOK' /\ BreakerOK(breaker)'
  BY <1>1, <1>2 DEF QInv, QTypeOK, BreakerOK, BreakerRecord
<1> QED BY <1>2, <1>3, <1>4, <1>5 DEF QInv

\* The leader that is cancelled takes its flight away and leaves its followers.
LEMMA CancelLeaderKeeps == ASSUME QInv, NEW r \in Requests, CancelLeader(r) PROVE QInv'
<1> DEFINE k == KeyOf[r]
<1>1. /\ step[r] \in Leading /\ step[r] \in Owning
      /\ step' = HandedOn(r, Returned({r})) /\ line' = Released(r)
      /\ flight' = [flight EXCEPT ![k] = "none"]
      /\ orphans' = IF Followers(k) = {} THEN orphans ELSE orphans \cup {Followers(k)}
      /\ UNCHANGED <<attempt, fresh, breaker>>
  BY DEF CancelLeader, Leading, Owning
<1>2. /\ step' \in [Requests -> Steps] /\ line' \in [Keys -> Seq(Requests)]
      /\ LinesOK' /\ OwnersFirst'
      /\ \A q \in Requests : /\ step'[q] \in Leading <=> step[q] \in Leading /\ q # r
                             /\ step'[q] = "follow" <=> step[q] = "follow" /\ q \notin {r}
  <2>1. {r} \in SUBSET Requests /\ r \in {r} /\ \A q \in {r} \ {r} : step[q] = "follow"
    OBVIOUS
  <2> QED BY <1>1, <2>1, HandOver
<1>3. k \in Keys /\ r \in Leaders(k) /\ step[r] # "follow"
  BY <1>1, QuotesAssumption DEF Leaders, Leading
<1>4. \A q \in Requests : step'[q] = "follow" <=> step[q] = "follow"
  BY <1>2, <1>3
<1>5. \A q : Orphaned(q)' <=> Orphaned(q) \/ q \in Followers(k)
  BY <1>1 DEF Orphaned
<1>6. OrphansWait'
  <2>1. \A q \in Followers(k) : q \in Requests /\ step[q] = "follow" /\ \A o \in orphans : q \notin o
    BY DEF Followers, Orphaned
  <2>2. \A o \in orphans : o \subseteq Requests
    BY DEF QInv, QTypeOK
  <2>3. orphans' \subseteq orphans \cup {Followers(k)}
    BY <1>1
  <2>4. \A o \in orphans : \A q \in o : step[q] = "follow" /\ \A p \in orphans : q \in p => p = o
    BY DEF QInv, OrphansWait
  <2>5. ASSUME NEW o \in orphans', NEW q \in o PROVE step'[q] = "follow"
    BY <1>4, <2>1, <2>2, <2>3, <2>4
  <2>6. ASSUME NEW o \in orphans', NEW q \in o, NEW p \in orphans', q \in p PROVE p = o
    BY <2>1, <2>3, <2>4, <2>6
  <2> QED BY <2>5, <2>6 DEF OrphansWait
<1>7. SingleFlight'
  <2> SUFFICES ASSUME NEW h \in Keys
               PROVE  /\ \A p, q \in Leaders(h)' : p = q
                      /\ flight'[h] = "none" <=> Leaders(h)' = {}
                      /\ Followers(h)' # {} => flight'[h] = "pending"
    BY DEF SingleFlight
  <2>1. CASE h = k
    <3>1. Leaders(h)' = {}
      <4> SUFFICES ASSUME NEW q \in Requests, KeyOf[q] = k, step'[q] \in Leading PROVE FALSE
        BY <2>1 DEF Leaders
      <4>1. q \in Leaders(k) /\ q # r
        BY <1>2 DEF Leaders
      <4> QED BY <1>3, <4>1 DEF QInv, SingleFlight
    <3>2. Followers(h)' = {}
      BY <1>4, <1>5, <2>1 DEF Followers
    <3>3. flight'[h] = "none"
      BY <1>1, <1>3, <2>1 DEF QInv, QTypeOK
    <3> QED BY <3>1, <3>2, <3>3
  <2>2. CASE h # k
    <3>1. flight'[h] = flight[h]
      BY <1>1, <2>2 DEF QInv, QTypeOK
    <3>2. Leaders(h)' = Leaders(h) /\ Followers(h)' = Followers(h)
      BY <1>2, <1>4, <1>5, <2>2 DEF Leaders, Followers
    <3> QED BY <3>1, <3>2 DEF QInv, SingleFlight
  <2> QED BY <2>1, <2>2
<1>8. QTypeOK' /\ BreakerOK(breaker)'
  <2>1. Followers(k) \in SUBSET Requests
    BY DEF Followers
  <2> QED BY <1>1, <1>2, <1>3, <2>1 DEF QInv, QTypeOK, BreakerOK, BreakerRecord
<1> QED BY <1>2, <1>6, <1>7, <1>8 DEF QInv

\* A request leads only where nobody does: the lock has one holder.
LEMMA LeadKeeps == ASSUME QInv, NEW r \in Requests, Lead(r) PROVE QInv'
<1> DEFINE k == KeyOf[r]
<1> USE DEF Owning, Leading
<1>1. /\ step[r] = "recheck" /\ step' = [step EXCEPT ![r] = "fetch"]
      /\ attempt' = [attempt EXCEPT ![r] = 0] /\ flight' = [flight EXCEPT ![k] = "pending"]
      /\ UNCHANGED <<fresh, line, orphans, breaker>>
  BY DEF Lead
<1>2. k \in Keys /\ \A q \in Requests : KeyOf[q] \in Keys
  BY QuotesAssumption
<1>3. Leaders(k) = {}
  BY <1>1, <1>2 DEF Leaders, QInv, OwnersFirst
<1>4. /\ step' \in [Requests -> Steps]
      /\ \A q \in Requests : step'[q] = IF q = r THEN "fetch" ELSE step[q]
  BY <1>1 DEF QInv, QTypeOK, Steps
<1>5. LinesOK' /\ OwnersFirst'
  BY <1>1, <1>4, LinesStay
<1>6. SingleFlight'
  <2> SUFFICES ASSUME NEW h \in Keys
               PROVE  /\ \A p, q \in Leaders(h)' : p = q
                      /\ flight'[h] = "none" <=> Leaders(h)' = {}
                      /\ Followers(h)' # {} => flight'[h] = "pending"
    BY DEF SingleFlight
  <2>1. CASE h = k
    <3>1. Leaders(h)' = {r}
      BY <1>3, <1>4, <2>1 DEF Leaders
    <3>2. flight'[h] = "pending"
      BY <1>1, <1>2, <2>1 DEF QInv, QTypeOK
    <3> QED BY <3>1, <3>2
  <2>2. CASE h # k
    <3>1. flight'[h] = flight[h]
      BY <1>1, <2>2 DEF QInv, QTypeOK
    <3>2. Leaders(h)' = Leaders(h) /\ Followers(h)' = Followers(h)
      BY <1>1, <1>4, <2>2 DEF Leaders, Followers, Orphaned
    <3> QED BY <3>1, <3>2 DEF QInv, SingleFlight
  <2> QED BY <2>1, <2>2
<1>7. OrphansWait'
  BY <1>1, <1>4 DEF QInv, QTypeOK, OrphansWait
<1>8. QTypeOK' /\ BreakerOK(breaker)'
  BY <1>1, <1>2, <1>4, QuotesAssumption DEF QInv, QTypeOK, BreakerOK, BreakerRecord
<1> QED BY <1>5, <1>6, <1>7, <1>8 DEF QInv

-----------------------------------------------------------------------------
\* A request that finds a flight joins it, or ends if it was cancelled.
LEMMA JoinKeeps == ASSUME QInv, NEW r \in Requests, Join(r) PROVE QInv'
<1> DEFINE k == KeyOf[r]
           at == IF flight[k] = "pending" THEN "follow" ELSE "idle"
<1>1. /\ step[r] = "asked" /\ flight[k] # "none" /\ step' = [step EXCEPT ![r] = at]
      /\ UNCHANGED <<attempt, fresh, line, flight, orphans, breaker>>
  BY DEF Join
<1>2. /\ step' \in [Requests -> Steps] /\ step'[r] = at
      /\ \A q \in Requests : q # r => step'[q] = step[q]
  BY <1>1 DEF QInv, QTypeOK, Steps
<1>3. at \in {"follow", "idle"} /\ (at = "follow" => flight[k] = "pending")
  OBVIOUS
<1> HIDE DEF at
<1>4. LinesOK' /\ OwnersFirst'
  BY <1>1, <1>2, <1>3, LinesStay DEF Owning, Leading
<1>5. SingleFlight'
  <2> SUFFICES ASSUME NEW h \in Keys
               PROVE  /\ Leaders(h)' = Leaders(h) /\ flight'[h] = flight[h]
                      /\ Followers(h)' # {} => flight[h] = "pending"
    BY DEF SingleFlight, QInv
  <2>1. Leaders(h)' = Leaders(h)
    BY <1>1, <1>2, <1>3 DEF Leaders, Leading
  <2>2. Followers(h)' \subseteq Followers(h) \cup (IF h = k /\ at = "follow" THEN {r} ELSE {})
    BY <1>1, <1>2 DEF Followers, Orphaned
  <2> QED BY <1>1, <1>3, <2>1, <2>2 DEF QInv, SingleFlight
<1>6. OrphansWait'
  BY <1>1, <1>2 DEF QInv, QTypeOK, OrphansWait
<1>7. QTypeOK' /\ BreakerOK(breaker)'
  BY <1>1, <1>2 DEF QInv, QTypeOK, BreakerOK, BreakerRecord
<1> QED BY <1>4, <1>5, <1>6, <1>7 DEF QInv

\* A follower that is cancelled cancels the future, and every follower ends.
LEMMA CancelFollowerKeeps == ASSUME QInv, NEW r \in Requests, CancelFollower(r) PROVE QInv'
<1> DEFINE k == KeyOf[r]
           R == Followers(k)
<1>1. /\ r \in R /\ step' = Returned(R) /\ flight' = [flight EXCEPT ![k] = "cancelled"]
      /\ UNCHANGED <<attempt, fresh, line, orphans, breaker>>
  BY DEF CancelFollower
<1>2. /\ k \in Keys
      /\ \A q \in R : q \in Requests /\ step[q] = "follow" /\ KeyOf[q] = k /\ ~Orphaned(q)
  BY QuotesAssumption DEF Followers
<1>3. /\ step' \in [Requests -> Steps]
      /\ \A q \in Requests : step'[q] = IF q \in R THEN "idle" ELSE step[q]
  BY <1>1 DEF QInv, QTypeOK, Steps, Returned
<1> HIDE DEF R
<1>4. LinesOK' /\ OwnersFirst'
  BY <1>1, <1>2, <1>3, LinesStay DEF Owning, Leading
<1>5. SingleFlight'
  <2> SUFFICES ASSUME NEW h \in Keys
               PROVE  /\ Leaders(h)' = Leaders(h)
                      /\ flight'[h] = "none" <=> flight[h] = "none"
                      /\ Followers(h)' # {} => flight'[h] = "pending"
    BY DEF SingleFlight, QInv
  <2>1. Leaders(h)' = Leaders(h)
    BY <1>2, <1>3 DEF Leaders, Leading
  <2>2. CASE h = k
    <3>1. Followers(h)' = {}
      BY <1>1, <1>3, <2>2 DEF Followers, Orphaned, R
    <3>2. flight'[h] = "cancelled" /\ flight[h] = "pending"
      BY <1>1, <1>2, <2>2 DEF QInv, QTypeOK, SingleFlight, R
    <3> QED BY <2>1, <3>1, <3>2
  <2>3. CASE h # k
    <3>1. Followers(h)' = Followers(h) /\ flight'[h] = flight[h]
      BY <1>1, <1>2, <1>3, <2>3 DEF Followers, Orphaned, QInv, QTypeOK
    <3> QED BY <2>1, <3>1 DEF QInv, SingleFlight
  <2> QED BY <2>2, <2>3
<1>6. OrphansWait'
  <2>1. \A o \in orphans : \A q \in o : q \in Requests /\ q \notin R
    BY <1>2 DEF QInv, QTypeOK, Orphaned
  <2> QED BY <1>1, <1>3, <2>1 DEF QInv, OrphansWait
<1>7. QTypeOK' /\ BreakerOK(breaker)'
  BY <1>1, <1>2, <1>3 DEF QInv, QTypeOK, BreakerOK, BreakerRecord
<1> QED BY <1>4, <1>5, <1>6, <1>7 DEF QInv

LEMMA CancelOrphansKeeps == ASSUME QInv, NEW o \in orphans, CancelOrphans(o) PROVE QInv'
<1>1. /\ step' = Returned(o) /\ orphans' = orphans \ {o}
      /\ UNCHANGED <<attempt, fresh, line, flight, breaker>>
  BY DEF CancelOrphans
<1>2. /\ step' \in [Requests -> Steps]
      /\ \A q \in Requests : step'[q] = IF q \in o THEN "idle" ELSE step[q]
      /\ \A q \in o : q \in Requests /\ step[q] = "follow"
  BY <1>1 DEF QInv, QTypeOK, OrphansWait, Steps, Returned
<1>3. LinesOK' /\ OwnersFirst'
  BY <1>1, <1>2, LinesStay DEF Owning, Leading
<1>4. SingleFlight'
  <2>1. \A q \in Requests :
          /\ (step'[q] \in Leading) = (step[q] \in Leading)
          /\ step'[q] = "follow" /\ ~Orphaned(q)' => step[q] = "follow" /\ ~Orphaned(q)
    BY <1>1, <1>2 DEF Leading, Orphaned
  <2> QED BY <1>1, <2>1, FlightsStay
<1>5. OrphansWait'
  <2>1. \A p \in orphans \ {o} : \A q \in p : q \in Requests /\ q \notin o
    BY DEF QInv, QTypeOK, OrphansWait
  <2> QED BY <1>1, <1>2, <2>1 DEF QInv, OrphansWait
<1>6. QTypeOK' /\ BreakerOK(breaker)'
  BY <1>1, <1>2 DEF QInv, QTypeOK, BreakerOK, BreakerRecord
<1> QED BY <1>3, <1>4, <1>5, <1>6 DEF QInv

-----------------------------------------------------------------------------
\* A request that only moves between steps of the same kind.
LEMMA MoveKeeps ==
    ASSUME QInv, NEW r \in Requests, NEW at \in Steps, step' = [step EXCEPT ![r] = at],
           UNCHANGED <<attempt, fresh, line, flight, orphans>>, BreakerOK(breaker'),
           {step[r], at} \subseteq Leading \/ {step[r], at} \subseteq {"idle", "asked"}
    PROVE  QInv'
<1>1. /\ step' \in [Requests -> Steps]
      /\ \A q \in Requests : step'[q] = IF q = r THEN at ELSE step[q]
  BY DEF QInv, QTypeOK
<1>2. /\ attempt' \in [Requests -> 0..MaxRetries] /\ fresh' \subseteq Keys
      /\ UNCHANGED <<line, flight, orphans>>
  BY DEF QInv, QTypeOK
<1>3. \A q \in Requests :
        /\ (step'[q] \in Owning) = (step[q] \in Owning)
        /\ (step'[q] \in Leading) = (step[q] \in Leading)
        /\ (step'[q] = "queued") = (step[q] = "queued")
        /\ (step'[q] = "follow") = (step[q] = "follow")
  BY <1>1 DEF Owning, Leading
<1> QED BY <1>1, <1>2, <1>3, QuietStep

LEMMA CallKeeps ==
    ASSUME QInv, NEW r \in Requests,
           Call(r) \/ Succeed(r) \/ Fail(r) \/ RejectOrTimeOut(r)
    PROVE  QInv'
<1>1. BreakerOK(breaker) /\ step[r] \in Leading
  BY DEF QInv, Call, Succeed, Fail, RejectOrTimeOut, Leading
<1>2. /\ BreakerOK(Probed(breaker)) /\ BreakerOK(OnSuccess(breaker))
      /\ BreakerOK(OnFailure(breaker))
  BY <1>1, BreakerKeeps
<1>3. CASE Call(r)
  <2>1. breaker' = Probed(breaker) /\ step[r] = "fetch"
    BY <1>3 DEF Call
  <2>2. CASE breaker'.state = "OPEN"
    <3>1. Failed(r)
      BY <1>3, <2>2 DEF Call
    <3> QED BY <1>1, <1>2, <2>1, <3>1, FailedKeeps
  <2>3. CASE breaker'.state # "OPEN"
    <3>1. /\ step' = [step EXCEPT ![r] = "calling"]
          /\ UNCHANGED <<attempt, fresh, line, flight, orphans>>
      BY <1>3, <2>3 DEF Call
    <3>2. "calling" \in Steps /\ {step[r], "calling"} \subseteq Leading
      BY <2>1 DEF Steps, Leading
    <3> QED BY <1>2, <2>1, <3>1, <3>2, MoveKeeps
  <2> QED BY <2>2, <2>3
<1>4. CASE Succeed(r)
  BY <1>1, <1>2, <1>4, LandedKeeps DEF Succeed
<1>5. CASE Fail(r)
  BY <1>1, <1>2, <1>5, FailedKeeps DEF Fail
<1>6. CASE RejectOrTimeOut(r)
  BY <1>1, <1>6, AttemptFailedKeeps DEF RejectOrTimeOut
<1> QED BY <1>3, <1>4, <1>5, <1>6

LEMMA QInitInv == QInit => QInv
<1> SUFFICES ASSUME QInit PROVE QInv
  OBVIOUS
<1>1. BreakerOK(breaker)
  BY BreakerAssumption DEF QInit, NewBreaker, BreakerOK, BreakerRecord
<1>2. \A k \in Keys : line[k] = <<>> /\ Len(line[k]) = 0
  BY DEF QInit
<1>3. QTypeOK
  BY <1>1, QuotesAssumption, EmptySeq DEF QInit, QTypeOK, Steps, BreakerOK
<1>4. LinesOK
  BY <1>2 DEF LinesOK
<1>5. OwnersFirst /\ OrphansWait /\ SingleFlight
  BY DEF QInit, OwnersFirst, OrphansWait, SingleFlight, Leaders, Followers, Owning, Leading
<1> QED BY <1>1, <1>3, <1>4, <1>5 DEF QInv

LEMMA QNextKeeps == QInv /\ [QNext]_qvars => QInv'
<1> SUFFICES ASSUME QInv, [QNext]_qvars PROVE QInv'
  OBVIOUS
<1>1. ASSUME NEW r \in Requests, Ask(r) \/ Retry(r) PROVE QInv'
  <2>1. PICK at \in Steps :
          /\ step' = [step EXCEPT ![r] = at]
          /\ {step[r], at} \subseteq Leading \/ {step[r], at} \subseteq {"idle", "asked"}
          /\ UNCHANGED <<attempt, fresh, line, flight, orphans, breaker>>
    BY <1>1 DEF Ask, Retry, Steps, Leading
  <2> QED BY <2>1, MoveKeeps DEF QInv
<1>2. ASSUME NEW r \in Requests, Join(r) \/ Queue(r) \/ Reuse(r) \/ Lead(r) \/ CancelRecheck(r)
      PROVE  QInv'
  BY <1>2, JoinKeeps, QueueKeeps, ReuseKeeps, LeadKeeps
<1>3. ASSUME NEW r \in Requests, Call(r) \/ Answer(r) PROVE QInv'
  BY <1>3, CallKeeps DEF Answer
<1>4. ASSUME NEW r \in Requests, CancelLeader(r) \/ CancelFollower(r) \/ CancelQueued(r)
      PROVE  QInv'
  BY <1>4, CancelLeaderKeeps, CancelFollowerKeeps, CancelQueuedKeeps
<1>5. ASSUME NEW o \in orphans, CancelOrphans(o) PROVE QInv'
  BY <1>5, CancelOrphansKeeps
<1>6. CASE (\E k \in Keys : Expire(k)) \/ Quiet \/ ReadStatus \/ UNCHANGED qvars
  <2>1. UNCHANGED <<step, attempt, line, flight, orphans>> /\ fresh' \subseteq Keys
    BY <1>6 DEF Expire, Quiet, ReadStatus, qvars, QInv, QTypeOK
  <2>2. BreakerOK(breaker')
    BY <1>6, BreakerKeeps DEF Expire, Quiet, ReadStatus, qvars, QInv
  <2>3. step' \in [Requests -> Steps] /\ attempt' \in [Requests -> 0..MaxRetries]
    BY <2>1 DEF QInv, QTypeOK
  <2> QED BY <2>1, <2>2, <2>3, QuietStep
<1> QED BY <1>1, <1>2, <1>3, <1>4, <1>5, <1>6 DEF QNext, Proceed

\* Whatever consumers ask, join, wait and give up (get_or_compute), a key has
\* one fetch exactly while a future is registered for it, and nobody waits for
\* a registered future that no fetch will complete.
THEOREM FlightsAreSingle == QSpec => []SingleFlight
<1>1. QInv => SingleFlight
  BY DEF QInv
<1> QED BY QInitInv, QNextKeeps, <1>1, PTL DEF QSpec

-----------------------------------------------------------------------------
(* FeedGate: the sequence validator                                        *)

\* The validator, its file and the history begin together.
BeginTogether ==
    /\ last = None => file = None /\ base = None /\ known = {}
    /\ base = None => last = None

GInv == GTypeOK /\ BeginTogether /\ NoSilentLoss

LEMMA GInitInv == GInit => GInv
BY GateAssumption DEF GInit, GInv, GTypeOK, BeginTogether, NoSilentLoss, Numbers, None

\* A number taken in keeps the mark, the file and the history together and
\* extends an unbroken history by itself or not at all.
LEMMA IngestKeeps ==
    ASSUME GInv, NEW n \in Numbers, IngestNumber(n)
    PROVE  GInv'
<1> USE GateAssumption DEF GInv, Numbers, None
<1>1. GTypeOK'
  BY DEF GTypeOK, IngestNumber, Persisted
<1>2. BeginTogether'
  BY DEF GTypeOK, BeginTogether, IngestNumber, Persisted
<1>3. NoSilentLoss'
  <2> SUFFICES ASSUME health' = "HEALTHY", last' # None, NEW m \in base'..last'
               PROVE  m \in got'
    BY DEF NoSilentLoss
  <2>1. ~Anomaly(n) /\ health = "HEALTHY" /\ last' = n /\ got' = got \cup {n}
    BY DEF IngestNumber, Anomaly, GTypeOK
  <2>2. CASE last = None
    BY <2>1, <2>2 DEF IngestNumber, BeginTogether, GTypeOK
  <2>3. CASE last # None
    <3>1. base' = base /\ (n = last \/ n = last + 1)
      BY <2>1, <2>3 DEF Anomaly, IngestNumber, BeginTogether
    <3>2. m \in base..last \/ m = n
      BY <2>1, <2>3, <3>1 DEF GTypeOK
    <3> QED BY <2>1, <2>3, <3>2 DEF NoSilentLoss
  <2> QED BY <2>2, <2>3
<1> QED BY <1>1, <1>2, <1>3

\* A restart either steps back inside the unbroken history or begins a new
\* one at the number it found.
LEMMA RestartKeeps == ASSUME GInv, Restart PROVE GInv'
<1> USE GateAssumption DEF GInv, Numbers, None
<1>1. GTypeOK'
  BY DEF GTypeOK, Restart, History
<1>2. BeginTogether'
  BY DEF GTypeOK, BeginTogether, Restart, History
<1>3. NoSilentLoss'
  <2>1. CASE health = "HEALTHY" /\ file # None /\ file <= last
    <3>1. last # None
      BY <2>1 DEF BeginTogether
    <3>2. base' = base /\ got' = got /\ last' = file
      BY <2>1 DEF Restart, History
    <3>3. base..file \subseteq base..last
      BY <2>1 DEF GTypeOK
    <3> QED BY <2>1, <3>1, <3>2, <3>3 DEF NoSilentLoss
  <2>2. CASE ~(health = "HEALTHY" /\ file # None /\ file <= last)
    <3>1. base' = file /\ got' = {file} \cap Numbers /\ last' = file
      BY <2>2 DEF Restart, History
    <3> QED BY <3>1 DEF NoSilentLoss, GTypeOK
  <2> QED BY <2>1, <2>2
<1> QED BY <1>1, <1>2, <1>3

LEMMA GNextKeeps == GInv /\ [GNext]_gvars => GInv'
<1> USE GateAssumption DEF Numbers, None
<1> SUFFICES ASSUME GInv, [GNext]_gvars PROVE GInv'
  OBVIOUS
<1>1. ASSUME NEW n \in Numbers, IngestNumber(n) PROVE GInv'
  BY <1>1, IngestKeeps
<1>2. ASSUME NEW n \in Numbers, Snapshot(n) PROVE GInv'
  BY <1>2 DEF GInv, GTypeOK, BeginTogether, NoSilentLoss, Snapshot, Persisted
<1>3. CASE Trip
  BY <1>3 DEF GInv, GTypeOK, BeginTogether, NoSilentLoss, Trip
<1>4. CASE RequestResync
  BY <1>4 DEF GInv, GTypeOK, BeginTogether, NoSilentLoss, RequestResync
<1>5. CASE SnapshotRejected
  BY <1>5 DEF GInv, GTypeOK, BeginTogether, NoSilentLoss, SnapshotRejected
<1>6. CASE Restart
  BY <1>6, RestartKeeps
<1>7. CASE UNCHANGED gvars
  BY <1>7 DEF GInv, GTypeOK, BeginTogether, NoSilentLoss, gvars
<1> QED BY <1>1, <1>2, <1>3, <1>4, <1>5, <1>6, <1>7 DEF GNext

\* However the numbers arrive and whenever the process restarts, a feed that
\* counts as healthy has missed none since its history began.
THEOREM HealthyFeedIsWhole == GSpec => []NoSilentLoss
<1>1. GInv => NoSilentLoss
  BY DEF GInv
<1> QED BY GInitInv, GNextKeeps, <1>1, PTL DEF GSpec

-----------------------------------------------------------------------------
(* TickFeed: the candles and the store                                     *)

\* b is the candle of the ticks that `log` holds for its minute.
IsCandle(b, log) ==
    /\ \E i \in DOMAIN log :
         /\ Minute(log[i]) = b.minute /\ log[i].ltp = b.open
         /\ \A j \in DOMAIN log : Minute(log[j]) = b.minute => i <= j
    /\ \E i \in DOMAIN log : Minute(log[i]) = b.minute /\ log[i].ltp = b.high
    /\ \E i \in DOMAIN log : Minute(log[i]) = b.minute /\ log[i].ltp = b.low
    /\ \A i \in DOMAIN log :
         Minute(log[i]) = b.minute => b.low <= log[i].ltp /\ log[i].ltp <= b.high

\* The open bar is of the minute of the last accepted tick.
OpenIsLatest ==
    IF latest = Idle THEN bar = NoBar
    ELSE bar.minute = Minute([at |-> latest])

NoTickIsLater == \A i \in DOMAIN Log : latest # Idle /\ Log[i].at <= latest

\* What the deduplicator remembers was written.
KeysAreWritten == \A key \in keys : \E i \in DOMAIN Log : KeyOfTick(Log[i]) = key

ClosedIsEarlier == \A i \in DOMAIN bars : latest # Idle /\ bars[i].minute < bar.minute

BarsAreCandles ==
    /\ latest # Idle => IsCandle(bar, Log)
    /\ \A i \in DOMAIN bars : IsCandle(bars[i], Log)

FeedInv ==
    /\ OpenIsLatest /\ NoTickIsLater /\ KeysAreWritten /\ ClosedIsEarlier /\ BarsAreCandles

TInv == TTypeOK /\ FeedInv

-----------------------------------------------------------------------------
LEMMA DivBounds ==
    ASSUME NEW n \in Nat \ {0}, NEW i \in Nat
    PROVE  i \div n \in Nat /\ i \div n <= i
OBVIOUS

LEMMA DivMonotone ==
    ASSUME NEW n \in Nat \ {0}, NEW i \in Nat, NEW j \in Nat, i <= j
    PROVE  i \div n <= j \div n
OBVIOUS

LEMMA MinuteType ==
    ASSUME NEW t, t.at \in Instants
    PROVE  Minute(t) \in Nat /\ Minute(t) < Idle /\ Second(t) \in Nat
BY FeedAssumption, DivBounds DEF Minute, Second, Instants, Idle

LEMMA MinuteMonotone ==
    ASSUME NEW t, t.at \in Instants, NEW u, u.at \in Instants, t.at <= u.at
    PROVE  Minute(t) <= Minute(u)
<1>1. t.at \in Nat /\ u.at \in Nat /\ SecondLen \in Nat \ {0} /\ MinuteLen \in Nat \ {0}
  BY FeedAssumption DEF Instants
<1>2. Second(t) \in Nat /\ Second(u) \in Nat /\ Second(t) <= Second(u)
  BY <1>1, DivBounds, DivMonotone DEF Second
<1> QED BY <1>1, <1>2, DivMonotone DEF Minute

LEMMA IdleIsNoInstant == Idle \notin Instants /\ Idle \in Nat
BY FeedAssumption DEF Idle, Instants

LEMMA LargestIs ==
    ASSUME NEW S \in SUBSET Nat, NEW x \in S, \A y \in S : y <= x
    PROVE  Max(S) = x
<1>1. Max(S) \in S /\ \A y \in S : Max(S) >= y
  BY DEF Max
<1> DEFINE m == Max(S)
<1> HIDE DEF m
<1>2. m \in Nat /\ x \in Nat /\ m <= x /\ x <= m
  BY <1>1 DEF m
<1> QED BY <1>2 DEF m

LEMMA LeastIs ==
    ASSUME NEW S \in SUBSET Nat, NEW x \in S, \A y \in S : x <= y
    PROVE  Min(S) = x
<1>1. Min(S) \in S /\ \A y \in S : Min(S) =< y
  BY DEF Min
<1> DEFINE m == Min(S)
<1> HIDE DEF m
<1>2. m \in Nat /\ x \in Nat /\ m <= x /\ x <= m
  BY <1>1 DEF m
<1> QED BY <1>2 DEF m

LEMMA MaxOfTwo ==
    ASSUME NEW i \in Nat, NEW j \in Nat PROVE Max({i, j}) = IF i <= j THEN j ELSE i
<1>1. CASE i <= j
  BY <1>1, LargestIs
<1>2. CASE ~(i <= j)
  BY <1>2, LargestIs
<1> QED BY <1>1, <1>2

LEMMA MinOfTwo ==
    ASSUME NEW i \in Nat, NEW j \in Nat PROVE Min({i, j}) = IF i <= j THEN i ELSE j
<1>1. CASE i <= j
  BY <1>1, LeastIs
<1>2. CASE ~(i <= j)
  BY <1>2, LeastIs
<1> QED BY <1>1, <1>2

LEMMA LogType == ASSUME TTypeOK PROVE Log \in Seq(Tick)
BY ConcatProperties DEF TTypeOK, Log

-----------------------------------------------------------------------------
\* A candle as IsCandle describes it is the one BarsMatchStore asks for.
LEMMA CandlesMatch == TInv => BarsMatchStore
<1> SUFFICES ASSUME TInv, NEW i \in DOMAIN bars
             PROVE  LET ticks == Written(bars[i].minute)
                        prices == {Log[j].ltp : j \in ticks} IN
                    /\ ticks # {}
                    /\ bars[i].open = Log[Min(ticks)].ltp
                    /\ bars[i].high = Max(prices) /\ bars[i].low = Min(prices)
  BY DEF BarsMatchStore
<1> DEFINE b == bars[i]
           ticks == Written(b.minute)
           prices == {Log[j].ltp : j \in ticks}
<1>1. Log \in Seq(Tick) /\ IsCandle(b, Log)
  BY LogType DEF TInv, FeedInv, BarsAreCandles
<1>2. DOMAIN Log = 1..Len(Log) /\ \A j \in DOMAIN Log : Log[j] \in Tick
  BY <1>1, LenProperties, ElementOfSeq
<1>3. ticks \subseteq Nat /\ prices \subseteq Nat
  <2>1. ticks \subseteq DOMAIN Log
    BY DEF Written
  <2>2. \A j \in DOMAIN Log : Log[j].ltp \in Nat
    BY <1>2, FeedAssumption DEF Tick
  <2> QED BY <1>2, <2>1, <2>2
<1>4. PICK first \in ticks : Log[first].ltp = b.open /\ \A j \in ticks : first <= j
  BY <1>1 DEF IsCandle, Written
<1>5. Min(ticks) = first
  BY <1>3, <1>4, LeastIs
<1>6. b.high \in prices /\ b.low \in prices
  BY <1>1 DEF IsCandle, Written
<1>7. \A p \in prices : b.low <= p /\ p <= b.high
  BY <1>1 DEF IsCandle, Written
<1>8. Max(prices) = b.high /\ Min(prices) = b.low
  <2> HIDE DEF prices, b
  <2> QED BY <1>3, <1>6, <1>7, LargestIs, LeastIs
<1> QED BY <1>4, <1>5, <1>8

\* A tick of a later minute leaves a candle what it is.
LEMMA CandleStays ==
    ASSUME NEW b \in Bucket, NEW log \in Seq(Tick), IsCandle(b, log),
           NEW t \in Tick, b.minute < Minute(t)
    PROVE  IsCandle(b, Append(log, t))
<1> DEFINE new == Append(log, t)
<1>1. /\ DOMAIN log = 1..Len(log) /\ Len(log) \in Nat
      /\ DOMAIN new = 1..(Len(log) + 1)
      /\ \A i \in DOMAIN log : new[i] = log[i]
      /\ new[Len(log) + 1] = t
  BY AppendProperties, LenProperties
<1>2. b.minute # Minute(t)
  BY MinuteType DEF Bucket, Tick
<1> HIDE DEF new
<1>3. \A i \in DOMAIN new : Minute(new[i]) = b.minute => i \in DOMAIN log
  BY <1>1, <1>2
<1>4. DOMAIN log \subseteq DOMAIN new
  BY <1>1
<1>5. \E i \in DOMAIN new :
         /\ Minute(new[i]) = b.minute /\ new[i].ltp = b.open
         /\ \A j \in DOMAIN new : Minute(new[j]) = b.minute => i <= j
  <2>1. PICK i \in DOMAIN log :
          /\ Minute(log[i]) = b.minute /\ log[i].ltp = b.open
          /\ \A j \in DOMAIN log : Minute(log[j]) = b.minute => i <= j
    BY DEF IsCandle
  <2> QED BY <2>1, <1>1, <1>3, <1>4
<1>6. /\ \E i \in DOMAIN new : Minute(new[i]) = b.minute /\ new[i].ltp = b.high
      /\ \E i \in DOMAIN new : Minute(new[i]) = b.minute /\ new[i].ltp = b.low
  BY <1>1, <1>4 DEF IsCandle
<1>7. \A i \in DOMAIN new :
         Minute(new[i]) = b.minute => b.low <= new[i].ltp /\ new[i].ltp <= b.high
  BY <1>1, <1>3 DEF IsCandle
<1> QED BY <1>5, <1>6, <1>7 DEF IsCandle, new

\* The first tick written for a minute is its candle.
LEMMA CandleBegins ==
    ASSUME NEW log \in Seq(Tick), NEW t \in Tick,
           \A i \in DOMAIN log : Minute(log[i]) < Minute(t)
    PROVE  IsCandle(NewBucket(t), Append(log, t))
<1> DEFINE new == Append(log, t)
<1>1. /\ DOMAIN log = 1..Len(log) /\ Len(log) \in Nat
      /\ DOMAIN new = 1..(Len(log) + 1)
      /\ \A i \in DOMAIN log : new[i] = log[i] /\ log[i] \in Tick
      /\ new[Len(log) + 1] = t
  BY AppendProperties, LenProperties, ElementOfSeq
<1> HIDE DEF new
<1>2. \A i \in DOMAIN new : Minute(new[i]) = Minute(t) => i = Len(log) + 1
  <2> SUFFICES ASSUME NEW i \in DOMAIN log PROVE Minute(log[i]) # Minute(t)
    BY <1>1
  <2>1. log[i] \in Tick
    BY <1>1
  <2> QED BY <2>1, MinuteType DEF Tick
<1>3. t.ltp \in Nat
  BY FeedAssumption DEF Tick
<1> QED BY <1>1, <1>2, <1>3 DEF IsCandle, NewBucket, new

\* A tick written for the minute of a candle extends it.
LEMMA CandleGrows ==
    ASSUME NEW b \in Bucket, NEW log \in Seq(Tick), IsCandle(b, log),
           NEW t \in Tick, b.minute = Minute(t)
    PROVE  IsCandle(Extended(b, t), Append(log, t))
<1> DEFINE new == Append(log, t)
           e == Extended(b, t)
<1>1. /\ DOMAIN log = 1..Len(log) /\ Len(log) \in Nat
      /\ DOMAIN new = 1..(Len(log) + 1)
      /\ \A i \in DOMAIN log : new[i] = log[i] /\ log[i] \in Tick
      /\ new[Len(log) + 1] = t
  BY AppendProperties, LenProperties, ElementOfSeq
<1>2. t.ltp \in Nat /\ b.high \in Nat /\ b.low \in Nat
  BY FeedAssumption DEF Tick, Bucket
<1>3. /\ e.minute = b.minute /\ e.open = b.open
      /\ e.high = (IF b.high <= t.ltp THEN t.ltp ELSE b.high)
      /\ e.low = (IF b.low <= t.ltp THEN b.low ELSE t.ltp)
  BY <1>2, MaxOfTwo, MinOfTwo DEF Extended, Bucket
<1>4. \A i \in DOMAIN log : log[i].ltp \in Nat
  BY <1>1, FeedAssumption DEF Tick
<1> HIDE DEF new, e
<1>5. \E i \in DOMAIN new :
         /\ Minute(new[i]) = e.minute /\ new[i].ltp = e.open
         /\ \A j \in DOMAIN new : Minute(new[j]) = e.minute => i <= j
  <2>1. PICK i \in DOMAIN log :
          /\ Minute(log[i]) = b.minute /\ log[i].ltp = b.open
          /\ \A j \in DOMAIN log : Minute(log[j]) = b.minute => i <= j
    BY DEF IsCandle
  <2>2. i \in DOMAIN new /\ Minute(new[i]) = e.minute /\ new[i].ltp = e.open
    BY <1>1, <1>3, <2>1
  <2>3. ASSUME NEW j \in DOMAIN new, Minute(new[j]) = e.minute PROVE i <= j
    BY <1>1, <1>3, <2>1, <2>3
  <2> QED BY <2>2, <2>3
<1>6. \E i \in DOMAIN new : Minute(new[i]) = e.minute /\ new[i].ltp = e.high
  <2>1. CASE b.high <= t.ltp
    <3>1. Len(log) + 1 \in DOMAIN new
      BY <1>1
    <3> QED BY <1>1, <1>3, <2>1, <3>1
  <2>2. CASE ~(b.high <= t.ltp)
    <3>1. PICK i \in DOMAIN log : Minute(log[i]) = b.minute /\ log[i].ltp = b.high
      BY DEF IsCandle
    <3> QED BY <1>1, <1>3, <2>2, <3>1
  <2> QED BY <2>1, <2>2
<1>7. \E i \in DOMAIN new : Minute(new[i]) = e.minute /\ new[i].ltp = e.low
  <2>1. CASE ~(b.low <= t.ltp)
    <3>1. Len(log) + 1 \in DOMAIN new
      BY <1>1
    <3> QED BY <1>1, <1>3, <2>1, <3>1
  <2>2. CASE b.low <= t.ltp
    <3>1. PICK i \in DOMAIN log : Minute(log[i]) = b.minute /\ log[i].ltp = b.low
      BY DEF IsCandle
    <3> QED BY <1>1, <1>3, <2>2, <3>1
  <2> QED BY <2>1, <2>2
<1>8. ASSUME NEW i \in DOMAIN new, Minute(new[i]) = e.minute
      PROVE  e.low <= new[i].ltp /\ new[i].ltp <= e.high
  <2>1. CASE i = Len(log) + 1
    BY <1>1, <1>2, <1>3, <2>1
  <2>2. CASE i \in DOMAIN log
    <3>1. b.low <= log[i].ltp /\ log[i].ltp <= b.high
      BY <1>1, <1>3, <1>8, <2>2 DEF IsCandle
    <3> QED BY <1>1, <1>2, <1>3, <1>4, <2>2, <3>1
  <2> QED BY <1>1, <2>1, <2>2
<1> QED BY <1>5, <1>6, <1>7, <1>8 DEF IsCandle, new, e

\* A duplicate within the second extends no candle.
LEMMA CandleRepeats ==
    ASSUME NEW b \in Bucket, NEW log \in Seq(Tick), IsCandle(b, log),
           NEW t \in Tick, b.minute = Minute(t),
           NEW i \in DOMAIN log, KeyOfTick(log[i]) = KeyOfTick(t)
    PROVE  IsCandle(Extended(b, t), log)
<1>1. Minute(log[i]) = b.minute /\ log[i].ltp = t.ltp
  BY DEF KeyOfTick, Minute
<1>2. t.ltp \in Nat /\ b.high \in Nat /\ b.low \in Nat
  BY FeedAssumption DEF Tick, Bucket
<1>3. b.low <= t.ltp /\ t.ltp <= b.high
  BY <1>1 DEF IsCandle
<1>4. /\ Extended(b, t).minute = b.minute /\ Extended(b, t).open = b.open
      /\ Extended(b, t).high = b.high /\ Extended(b, t).low = b.low
  BY <1>2, <1>3, MaxOfTwo, MinOfTwo DEF Extended, Bucket
<1> QED BY <1>4 DEF IsCandle

-----------------------------------------------------------------------------
\* What a tick in order makes of the bars, as the last accepted one moves on.
LEMMA OnTickKeeps ==
    ASSUME TInv, NEW t \in Tick, InOrder(t), latest' = t.at, OnTick(t),
           NEW log, log = Log,
           NEW grown, grown = Append(log, t) \/
                        (grown = log /\ \E i \in DOMAIN log : KeyOfTick(log[i]) = KeyOfTick(t))
    PROVE  /\ bar' \in Bucket /\ bars' \in Seq(Bucket)
           /\ bar'.minute = Minute(t)
           /\ IsCandle(bar', grown)
           /\ \A i \in DOMAIN bars' : bars'[i].minute < bar'.minute /\ IsCandle(bars'[i], grown)
<1> USE DEF TInv, TTypeOK, FeedInv
<1>1. log \in Seq(Tick) /\ bar \in Bucket /\ bars \in Seq(Bucket)
  BY LogType
<1>2. \A i \in DOMAIN log : log[i] \in Tick
  BY <1>1, LenProperties, ElementOfSeq
<1>3. \A i \in DOMAIN bars : bars[i] \in Bucket
  BY <1>1, LenProperties, ElementOfSeq
<1>4. /\ Minute(t) \in Nat /\ Minute(t) < Idle /\ t.at \in Instants
      /\ t.ltp \in Nat
  BY MinuteType, FeedAssumption DEF Tick
<1>5. \A i \in DOMAIN log : Minute(log[i]) \in Nat
  BY <1>2, MinuteType DEF Tick
<1>6. NewBucket(t) \in Bucket /\ NewBucket(t).minute = Minute(t)
  BY <1>4 DEF NewBucket, Bucket
<1>7. CASE latest = Idle
  <2>1. bar = NoBar /\ DOMAIN log = {} /\ DOMAIN bars = {}
    BY <1>7 DEF OpenIsLatest, NoTickIsLater, ClosedIsEarlier
  <2>2. bar' = NewBucket(t) /\ bars' = bars
    BY <2>1 DEF OnTick
  <2>3. grown = Append(log, t)
    BY <2>1
  <2> QED BY <1>1, <1>6, <2>1, <2>2, <2>3, CandleBegins
<1>8. CASE latest # Idle
  <2>1. latest \in Instants /\ latest <= t.at /\ bar.minute = Minute([at |-> latest])
    BY <1>4, <1>8 DEF InOrder, OpenIsLatest, Instants, Idle
  <2>2. bar.minute <= Minute(t) /\ bar.minute \in Nat
    BY <1>4, <2>1, MinuteMonotone, MinuteType
  <2>3. bar # NoBar
    BY <1>4, <2>2, IdleIsNoInstant DEF NoBar
  <2>4. \A i \in DOMAIN log : Minute(log[i]) <= bar.minute
    <3> SUFFICES ASSUME NEW i \in DOMAIN log PROVE Minute(log[i]) <= bar.minute
      OBVIOUS
    <3>1. log[i].at \in Instants /\ log[i].at <= latest
      BY <1>2 DEF NoTickIsLater, Tick
    <3> QED BY <2>1, <3>1, MinuteMonotone
  <2>5. /\ IsCandle(bar, log)
        /\ \A i \in DOMAIN bars : bars[i].minute < bar.minute /\ IsCandle(bars[i], log)
    BY <1>8 DEF BarsAreCandles, ClosedIsEarlier
  <2>6. \A i \in DOMAIN bars : IsCandle(bars[i], grown)
    <3> SUFFICES ASSUME NEW i \in DOMAIN bars PROVE IsCandle(bars[i], grown)
      OBVIOUS
    <3>1. bars[i] \in Bucket /\ bars[i].minute \in Nat
      BY <1>3 DEF Bucket
    <3>2. bars[i].minute < Minute(t)
      BY <1>4, <2>2, <2>5, <3>1
    <3> QED BY <1>1, <2>5, <3>1, <3>2, CandleStays
  <2>7. CASE Minute(t) > bar.minute
    <3>1. bar' = NewBucket(t) /\ bars' = Append(bars, bar)
      BY <1>4, <2>2, <2>3, <2>7 DEF OnTick
    <3>2. grown = Append(log, t)
      <4> SUFFICES ASSUME NEW i \in DOMAIN log, KeyOfTick(log[i]) = KeyOfTick(t) PROVE FALSE
        OBVIOUS
      <4>1. Minute(log[i]) = Minute(t)
        BY DEF KeyOfTick, Minute
      <4> QED BY <1>4, <2>2, <2>4, <2>7, <4>1
    <3>3. IsCandle(bar', grown)
      <4>1. \A i \in DOMAIN log : Minute(log[i]) < Minute(t)
        BY <1>4, <1>5, <2>2, <2>4, <2>7
      <4> QED BY <1>1, <3>1, <3>2, <4>1, CandleBegins
    <3>4. IsCandle(bar, grown)
      BY <1>1, <2>2, <2>5, <2>7, <3>2, <1>4, CandleStays
    <3>5. /\ bars' \in Seq(Bucket)
          /\ \A i \in DOMAIN bars' : bars'[i] = bar \/ \E j \in DOMAIN bars : bars'[i] = bars[j]
      BY <1>1, <3>1, AppendProperties, LenProperties
    <3>6. \A i \in DOMAIN bars : bars[i].minute < Minute(t)
      BY <1>3, <1>4, <2>2, <2>5, <2>7 DEF Bucket
    <3> QED BY <1>6, <2>2, <2>6, <2>7, <3>1, <3>3, <3>4, <3>5, <3>6
  <2>8. CASE Minute(t) = bar.minute
    <3>1. bar' = Extended(bar, t) /\ bars' = bars
      BY <1>4, <2>3, <2>8 DEF OnTick
    <3>2. bar' \in Bucket /\ bar'.minute = Minute(t)
      BY <1>1, <1>4, <2>8, <3>1, MaxOfTwo, MinOfTwo DEF Extended, Bucket
    <3>3. IsCandle(bar', grown)
      BY <1>1, <2>5, <2>8, <3>1, CandleGrows, CandleRepeats
    <3> QED BY <1>1, <2>5, <2>6, <2>8, <3>1, <3>2, <3>3
  <2> QED BY <1>4, <2>2, <2>7, <2>8
<1> QED BY <1>7, <1>8

\* The invariant speaks of the log and the bars only.
LEMMA FeedInvStays ==
    ASSUME FeedInv, Log' = Log, UNCHANGED <<latest, bar, bars, keys>> PROVE FeedInv'
BY DEF FeedInv, OpenIsLatest, NoTickIsLater, KeysAreWritten, ClosedIsEarlier,
       BarsAreCandles, IsCandle, Minute, Second, KeyOfTick

\* Whatever becomes of a tick, what is accepted is in the log and in its bar.
LEMMA IngestTickKeeps ==
    ASSUME TInv, NEW t \in Tick, IngestTick(t), stored' = stored
    PROVE  /\ latest' \in Instants \cup {Idle} /\ bar' \in Bucket /\ bars' \in Seq(Bucket)
           /\ keys' \subseteq Key /\ queue' \in Seq(Tick) /\ depth' \in 0..BufferCap
           /\ FeedInv'
<1> USE DEF TInv, TTypeOK
<1>1. CASE ~InOrder(t)
  <2>1. UNCHANGED <<latest, bar, bars, keys, queue, stored, depth>>
    BY <1>1 DEF IngestTick
  <2>2. Log' = Log
    BY <2>1 DEF Log
  <2> QED BY <2>1, <2>2, FeedInvStays
<1>2. CASE InOrder(t)
  <2>1. latest' = t.at /\ OnTick(t) /\ Enqueue(t) /\ Publish
    BY <1>2 DEF IngestTick
  <2>2. Log \in Seq(Tick) /\ t.at \in Instants /\ latest' # Idle
    BY <2>1, LogType, IdleIsNoInstant DEF Tick
  <2>3. /\ \/ Log' = Append(Log, t)
           \/ Log' = Log /\ \E i \in DOMAIN Log : KeyOfTick(Log[i]) = KeyOfTick(t)
        /\ queue' \in Seq(Tick)
        /\ keys' \subseteq keys \cup {KeyOfTick(t)}
    <3>1. CASE KeyOfTick(t) \in keys
      BY <2>1, <3>1 DEF Enqueue, Log, FeedInv, KeysAreWritten
    <3>2. CASE KeyOfTick(t) \notin keys
      <4>1. queue' = Append(queue, t) /\ keys' = keys \cup {KeyOfTick(t)}
        BY <2>1, <3>2 DEF Enqueue
      <4>2. stored \o Append(queue, t) = Append(stored \o queue, t)
        <5>1. Append(queue, t) = queue \o <<t>>
          BY AppendIsConcat
        <5>2. Append(stored \o queue, t) = (stored \o queue) \o <<t>>
          BY AppendIsConcat, ConcatProperties
        <5> QED BY <5>1, <5>2, ConcatAssociative
      <4> QED BY <4>1, <4>2, AppendProperties DEF Log
    <3> QED BY <3>1, <3>2
  <2>4. /\ bar' \in Bucket /\ bars' \in Seq(Bucket)
        /\ bar'.minute = Minute(t)
        /\ IsCandle(bar', Log')
        /\ \A i \in DOMAIN bars' : bars'[i].minute < bar'.minute /\ IsCandle(bars'[i], Log')
    BY <1>2, <2>1, <2>3, OnTickKeeps
  <2>5. KeyOfTick(t) \in Key
    BY <2>2, MinuteType, FeedAssumption DEF KeyOfTick, Key, Tick
  <2>6. depth' \in 0..BufferCap
    <3>1. depth + 1 \in Nat /\ BufferCap \in Nat
      BY FeedAssumption
    <3> QED BY <2>1, <3>1, MinOfTwo DEF Publish
  <2>7. /\ Log' \in Seq(Tick)
        /\ DOMAIN Log \subseteq DOMAIN Log' /\ \A i \in DOMAIN Log : Log'[i] = Log[i]
        /\ \A i \in DOMAIN Log' : Log'[i] = t \/ (i \in DOMAIN Log /\ Log'[i] = Log[i])
    <3>1. CASE Log' = Log
      BY <2>2, <3>1
    <3>2. CASE Log' = Append(Log, t)
      <4>1. /\ Log' \in Seq(Tick) /\ Len(Log) \in Nat /\ Len(Log') = Len(Log) + 1
            /\ DOMAIN Log = 1..Len(Log)
            /\ \A i \in 1..Len(Log) : Log'[i] = Log[i]
            /\ Log'[Len(Log) + 1] = t
        BY <2>2, <3>2, AppendProperties, LenProperties
      <4>2. DOMAIN Log' = 1..(Len(Log) + 1)
        BY <4>1, LenProperties
      <4> QED BY <4>1, <4>2
    <3> QED BY <2>3, <3>1, <3>2
  <2>8. NoTickIsLater'
    <3> SUFFICES ASSUME NEW i \in DOMAIN Log' PROVE Log'[i].at <= t.at
      BY <2>1, <2>2 DEF NoTickIsLater
    <3>1. CASE Log'[i] = t
      BY <2>2, <3>1 DEF Instants
    <3>2. CASE i \in DOMAIN Log /\ Log'[i] = Log[i]
      <4>1. latest # Idle /\ Log[i].at <= latest /\ Log[i] \in Tick
        BY <2>2, <3>2, LenProperties, ElementOfSeq DEF FeedInv, NoTickIsLater
      <4> QED BY <1>2, <2>2, <3>2, <4>1 DEF InOrder, Instants, Tick
    <3> QED BY <2>7, <3>1, <3>2
  <2>9. KeysAreWritten'
    <3> SUFFICES ASSUME NEW key \in keys' PROVE \E i \in DOMAIN Log' : KeyOfTick(Log'[i]) = key
      BY DEF KeysAreWritten, KeyOfTick, Second
    <3>1. CASE key \in keys
      BY <2>7, <3>1 DEF FeedInv, KeysAreWritten
    <3>2. CASE key = KeyOfTick(t)
      <4>1. CASE Log' = Append(Log, t)
        <5>1. Len(Log) + 1 \in DOMAIN Log' /\ Log'[Len(Log) + 1] = t
          BY <2>2, <4>1, AppendProperties, LenProperties
        <5> QED BY <3>2, <5>1
      <4> QED BY <2>3, <3>2, <4>1
    <3> QED BY <2>3, <3>1, <3>2
  <2>10. OpenIsLatest'
    BY <2>1, <2>2, <2>4 DEF OpenIsLatest, Minute, Second
  <2>11. ClosedIsEarlier'
    BY <2>2, <2>4 DEF ClosedIsEarlier
  <2>12. BarsAreCandles'
    BY <2>4 DEF BarsAreCandles, IsCandle, Minute, Second
  <2> QED BY <2>1, <2>2, <2>3, <2>4, <2>5, <2>6, <2>8, <2>9, <2>10, <2>11, <2>12 DEF FeedInv
<1> QED BY <1>1, <1>2

\* A flush moves ticks from the queue to the store, at the end of what it holds.
LEMMA FlushKeepsLog ==
    ASSUME TTypeOK, FlushBatch
    PROVE  Log' = Log /\ queue' \in Seq(Tick) /\ stored' \in Seq(Tick)
<1> DEFINE n == Min({BatchSize, Len(queue)})
<1>1. queue \in Seq(Tick) /\ stored \in Seq(Tick) /\ Len(queue) \in Nat
  BY LenProperties DEF TTypeOK
<1>2. n \in 0..Len(queue)
  BY <1>1, FeedAssumption, MinOfTwo
<1>3. /\ stored' = stored \o SubSeq(queue, 1, n)
      /\ queue' = SubSeq(queue, n + 1, Len(queue))
  BY DEF FlushBatch
<1> HIDE DEF n
<1>4. \A i \in 1..Len(queue) : queue[i] \in Tick
  BY <1>1, ElementOfSeq
<1>5. SubSeq(queue, 1, n) \in Seq(Tick) /\ SubSeq(queue, n + 1, Len(queue)) \in Seq(Tick)
  <2>1. n \in Int /\ n + 1 \in Int /\ Len(queue) \in Int
    BY <1>1, <1>2
  <2>2. \A i \in 1..n : queue[i] \in Tick
    BY <1>1, <1>2, <1>4
  <2>3. \A i \in n + 1..Len(queue) : queue[i] \in Tick
    BY <1>1, <1>2, <1>4
  <2>4. SubSeq(queue, 1, n) \in Seq(Tick)
    BY <2>1, <2>2, SubSeqProperties
  <2>5. SubSeq(queue, n + 1, Len(queue)) \in Seq(Tick)
    BY <2>1, <2>3, SubSeqProperties
  <2> QED BY <2>4, <2>5
<1>6. SubSeq(queue, 1, n) \o SubSeq(queue, n + 1, Len(queue)) = queue
  <2>1. 1 \in 1..Len(queue) + 1 /\ n \in 1 - 1..Len(queue) /\ Len(queue) \in n..Len(queue)
    <3> DEFINE l == Len(queue)
    <3>1. l \in Nat /\ n \in 0..l
      BY <1>1, <1>2
    <3> HIDE DEF l
    <3>2. 1 \in 1..l + 1 /\ n \in 1 - 1..l /\ l \in n..l
      BY <3>1
    <3> QED BY <3>2 DEF l
  <2>2. SubSeq(queue, 1, n) \o SubSeq(queue, n + 1, Len(queue)) = SubSeq(queue, 1, Len(queue))
    BY <1>1, <2>1, ConcatAdjacentSubSeq
  <2> QED BY <1>1, <2>2, SubSeqFull
<1>7. Log' = Log
  <2> DEFINE head == SubSeq(queue, 1, n)
             rest == SubSeq(queue, n + 1, Len(queue))
  <2>1. head \in Seq(Tick) /\ rest \in Seq(Tick) /\ head \o rest = queue
    BY <1>5, <1>6
  <2>2. stored' = stored \o head /\ queue' = rest
    BY <1>3
  <2> HIDE DEF head, rest
  <2>3. (stored \o head) \o rest = stored \o (head \o rest)
    <3>1. \A s, t, u \in Seq(Tick) : (s \o t) \o u = s \o (t \o u)
      BY ConcatAssociative
    <3> QED BY <1>1, <2>1, <3>1, Zenon
  <2> QED BY <2>1, <2>2, <2>3 DEF Log
<1> QED BY <1>1, <1>3, <1>5, <1>7, ConcatProperties

LEMMA TInitInv == TInit => TInv
<1> SUFFICES ASSUME TInit PROVE TInv
  OBVIOUS
<1>1. NoBar \in Bucket /\ Idle \in Nat
  BY IdleIsNoInstant DEF NoBar, Bucket
<1>2. TTypeOK
  BY <1>1, FeedAssumption DEF TInit, TTypeOK, Instants
<1>3. Log = <<>>
  BY ConcatEmptySeq, EmptySeq DEF TInit, Log
<1> QED BY <1>2, <1>3 DEF TInit, TInv, FeedInv, OpenIsLatest, NoTickIsLater, KeysAreWritten,
                          ClosedIsEarlier, BarsAreCandles

LEMMA TNextKeeps == TInv /\ [TNext]_tvars => TInv'
<1> SUFFICES ASSUME TInv, [TNext]_tvars PROVE TInv'
  OBVIOUS
<1> USE DEF TInv
<1>1. ASSUME NEW p \in Quotes, SocketTick(p) PROVE TInv'
  <2> DEFINE t == [at |-> instant, ltp |-> p, source |-> "socket"]
  <2>1. t \in Tick
    BY DEF TTypeOK, Tick
  <2>2. IngestTick(t) /\ UNCHANGED <<instant, poll, stored, writing>>
    BY <1>1 DEF SocketTick
  <2> HIDE DEF t
  <2> QED BY <2>1, <2>2, IngestTickKeeps DEF TTypeOK
<1>2. ASSUME NEW p \in Quotes, PollAnswered(p) PROVE TInv'
  <2> DEFINE t == [at |-> poll, ltp |-> p, source |-> "poll"]
  <2>1. t \in Tick
    BY <1>2 DEF PollAnswered, TTypeOK, Tick
  <2>2. IngestTick(t) /\ poll' = Idle /\ UNCHANGED <<instant, stored, writing>>
    BY <1>2 DEF PollAnswered
  <2> HIDE DEF t
  <2> QED BY <2>1, <2>2, IngestTickKeeps DEF TTypeOK
<1>3. CASE Flush \/ Stop
  <2>1. FlushBatch /\ UNCHANGED <<instant, poll, latest, bar, bars, keys, depth>>
    BY <1>3 DEF Flush, Stop
  <2>2. writing' \in BOOLEAN
    BY <1>3 DEF Flush, Stop, TTypeOK
  <2>3. Log' = Log /\ queue' \in Seq(Tick) /\ stored' \in Seq(Tick)
    BY <2>1, FlushKeepsLog
  <2> QED BY <2>1, <2>2, <2>3, FeedInvStays DEF TTypeOK
<1>4. CASE PollSent \/ Broadcast \/ Advance \/ UNCHANGED tvars
  <2>1. UNCHANGED <<latest, bar, bars, keys, queue, stored, writing>>
    BY <1>4 DEF PollSent, Broadcast, Advance, tvars
  <2>2. instant' \in Instants /\ poll' \in Instants \cup {Idle} /\ depth' \in 0..BufferCap
    <3>1. instant \in Instants /\ poll \in Instants \cup {Idle} /\ depth \in 0..BufferCap
      BY DEF TTypeOK
    <3>2. BufferCap \in Nat /\ MaxInstant \in Nat
      BY FeedAssumption
    <3>3. CASE PollSent
      BY <3>1, <3>3 DEF PollSent
    <3>4. CASE Broadcast
      BY <3>1, <3>2, <3>4 DEF Broadcast
    <3>5. CASE Advance
      BY <3>1, <3>2, <3>5 DEF Advance, Instants
    <3> QED BY <1>4, <3>1, <3>3, <3>4, <3>5 DEF tvars
  <2>3. Log' = Log
    BY <2>1 DEF Log
  <2> QED BY <2>1, <2>2, <2>3, FeedInvStays DEF TTypeOK
<1> QED BY <1>1, <1>2, <1>3, <1>4 DEF TNext

\* Whatever the socket and the poll bring and in whichever order, repeated,
\* late or batched (central_feed.ingest_tick), each closed candle is the
\* candle of the ticks that were written for its minute.
THEOREM CandlesAreOfWrittenTicks == TSpec => []BarsMatchStore
BY TInitInv, TNextKeeps, CandlesMatch, PTL DEF TSpec

-----------------------------------------------------------------------------
(* ProviderStream: the upstream                                            *)

OneHolder ==
    \A q, r \in Restarters : stage[q] \in Holding /\ stage[r] \in Holding => q = r

PreviousIsStopping ==
    IF LockFree THEN previous = NoProvider
    ELSE previous \in Providers /\ previous # current

UpstreamRuns ==
    \A p \in Providers : Upstream(stream[p]) => stream[p].running \/ p = previous

SInv == STypeOK /\ OneUpstream /\ OneHolder /\ PreviousIsStopping /\ UpstreamRuns

-----------------------------------------------------------------------------
LEMMA AtRestType == AtRest \in StreamRecord /\ ~Upstream(AtRest)
BY DEF AtRest, StreamRecord, Tokens, Upstream

LEMMA NewStreamType ==
    ASSUME STypeOK PROVE NewStream \in StreamRecord /\ ~Upstream(NewStream)
BY DEF STypeOK, NewStream, AtRest, StreamRecord, Tokens, Upstream

\* What start_stream makes of a provider is a running one.
LEMMA StartedType ==
    ASSUME NEW s \in StreamRecord, NEW new \in Started(s)
    PROVE  new \in StreamRecord /\ new.running
<1> DEFINE skipped == [s EXCEPT !.running = TRUE]
           begun(socket) ==
             [s EXCEPT !.running = TRUE, !.poller = "asleep", !.socket = socket]
<1>1. skipped \in StreamRecord /\ skipped.running
  BY DEF StreamRecord
<1>2. ASSUME NEW socket \in {"down", "none"}
      PROVE  begun(socket) \in StreamRecord /\ begun(socket).running
  BY DEF StreamRecord
<1>3. new = skipped \/ \E socket \in {"down", "none"} : new = begun(socket)
  BY DEF Started
<1> QED BY <1>1, <1>2, <1>3

\* Starting the singleton, or a new one, beside streams that are all at an
\* end leaves it as the only upstream.
LEMMA StartKeeps ==
    ASSUME STypeOK,
           NEW singleton \in Providers \cup {NoProvider},
           NEW streams \in [Providers -> StreamRecord],
           \A p \in Providers : Upstream(streams[p]) => streams[p].running /\ p = singleton,
           StartCurrent(singleton, streams)
    PROVE  /\ current' \in Providers
           /\ stream' \in [Providers -> StreamRecord]
           /\ \A p \in Providers :
                Upstream(stream'[p]) => p = current' /\ stream'[p].running
<1>1. PICK p \in Providers :
        /\ singleton # NoProvider => p = singleton
        /\ current' = p
        /\ \E new \in Started(IF singleton = NoProvider THEN NewStream ELSE streams[p]) :
             stream' = [streams EXCEPT ![p] = new]
  BY DEF StartCurrent
<1> DEFINE s == IF singleton = NoProvider THEN NewStream ELSE streams[p]
<1>2. PICK new \in Started(s) : stream' = [streams EXCEPT ![p] = new]
  BY <1>1
<1>3. s \in StreamRecord
  BY NewStreamType
<1>4. new \in StreamRecord /\ new.running
  BY <1>3, StartedType
<1>5. stream' \in [Providers -> StreamRecord]
  BY <1>2, <1>4
<1>6. ASSUME NEW q \in Providers, Upstream(stream'[q])
      PROVE  q = current' /\ stream'[q].running
  <2>1. CASE q = p
    BY <1>1, <1>2, <1>4, <2>1
  <2>2. CASE q # p
    <3>1. stream'[q] = streams[q]
      BY <1>2, <2>2
    <3>2. q = singleton
      BY <1>6, <3>1
    <3> QED BY <1>1, <2>2, <3>2, NoProviderAssumption
  <2> QED BY <2>1, <2>2
<1> QED BY <1>1, <1>5, <1>6

-----------------------------------------------------------------------------
LEMMA SInitInv == SInit => SInv
<1> SUFFICES ASSUME SInit PROVE SInv
  OBVIOUS
<1>1. STypeOK
  <2>1. quiet \in 0..IdleLimit
    BY DEF SInit, IdleLimit
  <2> QED BY <2>1, AtRestType DEF SInit, STypeOK
<1>2. \A p \in Providers : ~Upstream(stream[p])
  BY AtRestType DEF SInit
<1>3. OneHolder /\ PreviousIsStopping
  BY DEF SInit, OneHolder, PreviousIsStopping, LockFree, Holding
<1> QED BY <1>1, <1>2, <1>3 DEF SInv, OneUpstream, UpstreamRuns

LEMMA EnsureKeeps == ASSUME SInv, Ensure PROVE SInv'
<1> USE DEF SInv
<1>1. \A p \in Providers : Upstream(stream[p]) => stream[p].running /\ p = current
  BY NoProviderAssumption DEF Ensure, OneUpstream, UpstreamRuns, PreviousIsStopping
<1>2. /\ current' \in Providers
      /\ stream' \in [Providers -> StreamRecord]
      /\ \A p \in Providers : Upstream(stream'[p]) => p = current' /\ stream'[p].running
  BY <1>1, StartKeeps DEF Ensure, STypeOK
<1>3. LockFree' /\ LockFree
  BY DEF Ensure, LockFree
<1>4. STypeOK'
  BY <1>2 DEF Ensure, STypeOK
<1>5. OneHolder' /\ PreviousIsStopping'
  BY <1>3 DEF Ensure, OneHolder, PreviousIsStopping
<1> QED BY <1>2, <1>3, <1>4, <1>5 DEF OneUpstream, UpstreamRuns

LEMMA LookUpKeeps == ASSUME SInv, LookUp PROVE SInv'
<1> USE DEF SInv
<1>1. PICK p \in Providers \ {previous} :
        stream[p] = AtRest /\ current' = p /\ stream' = [stream EXCEPT ![p] = NewStream]
  BY DEF LookUp
<1>2. STypeOK'
  BY <1>1, NewStreamType DEF LookUp, STypeOK
<1>3. LockFree' = LockFree
  BY DEF LookUp, LockFree
<1>4. \A q \in Providers : Upstream(stream'[q]) => q # p /\ stream'[q] = stream[q] /\ Upstream(stream[q])
  BY <1>1, NewStreamType DEF STypeOK
<1>5. OneUpstream'
  BY <1>3, <1>4, NoProviderAssumption DEF LookUp, OneUpstream
<1>6. UpstreamRuns'
  BY <1>4 DEF LookUp, UpstreamRuns
<1>7. OneHolder' /\ PreviousIsStopping'
  BY <1>1, <1>3 DEF LookUp, OneHolder, PreviousIsStopping
<1> QED BY <1>2, <1>5, <1>6, <1>7

LEMMA ReconfigureKeeps ==
    ASSUME SInv, NEW r \in Restarters, Reconfigure(r) PROVE SInv'
<1> USE DEF SInv
<1>1. STypeOK'
  BY DEF Reconfigure, STypeOK
<1>2. \A q \in Restarters : (stage'[q] \in Holding) = (stage[q] \in Holding)
  BY DEF Reconfigure, STypeOK, Holding
<1>3. LockFree' = LockFree
  BY <1>2 DEF LockFree
<1>4. OneHolder'
  BY <1>2 DEF OneHolder
<1>5. PreviousIsStopping' /\ OneUpstream' /\ UpstreamRuns'
  BY <1>3 DEF Reconfigure, PreviousIsStopping, OneUpstream, UpstreamRuns
<1> QED BY <1>1, <1>4, <1>5

\* Either the singleton becomes the previous provider, which alone keeps an
\* upstream while it stops, or nothing was running and a new one starts.
LEMMA BeginKeeps ==
    ASSUME SInv, NEW r \in Restarters, Begin(r) PROVE SInv'
<1> USE DEF SInv
<1>1. LockFree /\ previous = NoProvider
  BY DEF Begin, PreviousIsStopping
<1>2. CASE current # NoProvider /\ stream[current].running
  <2> DEFINE s == [stream[current] EXCEPT !.running = FALSE]
             closing == [s EXCEPT !.socket = "closing"]
  <2>1. current \in Providers /\ stream[current] \in StreamRecord
    BY <1>2 DEF STypeOK
  <2>2. s \in StreamRecord /\ closing \in StreamRecord
    BY <2>1 DEF StreamRecord
  <2>3. PICK new \in StreamRecord, at \in Holding :
          /\ stream' = [stream EXCEPT ![current] = new]
          /\ stage' = [stage EXCEPT ![r] = at]
    BY <1>2, <2>2 DEF Begin, Holding
  <2>4. previous' = current /\ current' = NoProvider
    BY <1>2 DEF Begin
  <2>5. STypeOK'
    BY <2>1, <2>3, <2>4 DEF Begin, STypeOK
  <2>6. ~LockFree'
    BY <2>3 DEF STypeOK, LockFree
  <2>7. \A p \in Providers : Upstream(stream'[p]) => p = current
    BY <1>1, <2>3 DEF OneUpstream, STypeOK
  <2>8. OneHolder'
    BY <1>1, <2>3 DEF LockFree, OneHolder, STypeOK
  <2>9. PreviousIsStopping'
    BY <2>1, <2>4, <2>6, NoProviderAssumption DEF PreviousIsStopping
  <2> QED BY <2>4, <2>5, <2>6, <2>7, <2>8, <2>9 DEF OneUpstream, UpstreamRuns
<1>3. CASE ~(current # NoProvider /\ stream[current].running)
  <2> DEFINE rest == [p \in Providers |-> IF p = current THEN AtRest ELSE stream[p]]
  <2>1. rest \in [Providers -> StreamRecord]
    BY AtRestType DEF STypeOK
  <2>2. \A p \in Providers : ~Upstream(rest[p])
    BY <1>1, AtRestType DEF OneUpstream
  <2>3. StartCurrent(NoProvider, rest) /\ previous' = NoProvider
    BY <1>3 DEF Begin
  <2> HIDE DEF rest
  <2>4. /\ current' \in Providers
        /\ stream' \in [Providers -> StreamRecord]
        /\ \A p \in Providers : Upstream(stream'[p]) => p = current' /\ stream'[p].running
    BY <2>1, <2>2, <2>3, StartKeeps
  <2>5. stage' = [stage EXCEPT ![r] = "idle"]
    BY <1>3 DEF Begin
  <2>6. STypeOK'
    BY <2>3, <2>4, <2>5 DEF Begin, STypeOK
  <2>7. LockFree' /\ OneHolder'
    BY <1>1, <2>5 DEF LockFree, OneHolder, Holding, STypeOK
  <2> QED BY <2>3, <2>4, <2>6, <2>7 DEF OneUpstream, UpstreamRuns, PreviousIsStopping
<1> QED BY <1>2, <1>3

LEMMA SocketStoppedKeeps ==
    ASSUME SInv, NEW r \in Restarters, SocketStopped(r) PROVE SInv'
<1> USE DEF SInv
<1>1. ~LockFree /\ previous \in Providers
  BY DEF SocketStopped, LockFree, Holding, PreviousIsStopping
<1> DEFINE new == [stream[previous] EXCEPT !.socket = "none"]
<1>2. new \in StreamRecord
  BY <1>1 DEF STypeOK, StreamRecord
<1>3. stream' = [stream EXCEPT ![previous] = new]
  BY <1>1 DEF SocketStopped, STypeOK
<1>4. STypeOK'
  BY <1>2, <1>3 DEF SocketStopped, STypeOK, Holding
<1>5. \A q \in Restarters : (stage'[q] \in Holding) = (stage[q] \in Holding)
  BY DEF SocketStopped, STypeOK, Holding
<1>6. LockFree' = LockFree /\ OneHolder'
  BY <1>5 DEF LockFree, OneHolder
<1>7. \A p \in Providers : Upstream(stream'[p]) => p = previous
  BY <1>1, <1>3 DEF OneUpstream, STypeOK
<1> QED BY <1>1, <1>4, <1>6, <1>7
        DEF SocketStopped, OneUpstream, UpstreamRuns, PreviousIsStopping

\* The holder that ends was the only one, and its provider the only upstream.
LEMMA FinishKeeps ==
    ASSUME SInv, NEW r \in Restarters, Finish(r) PROVE SInv'
<1> USE DEF SInv
<1>1. ~LockFree
  BY DEF Finish, LockFree, Holding
<1> DEFINE rest == [stream EXCEPT ![previous] = AtRest]
<1>2. rest \in [Providers -> StreamRecord]
  BY AtRestType DEF STypeOK
<1>3. \A p \in Providers : ~Upstream(rest[p])
  BY <1>1, AtRestType DEF OneUpstream, STypeOK
<1>4. StartCurrent(current, rest)
  BY DEF Finish
<1> HIDE DEF rest
<1>5. /\ current' \in Providers
      /\ stream' \in [Providers -> StreamRecord]
      /\ \A p \in Providers : Upstream(stream'[p]) => p = current' /\ stream'[p].running
  BY <1>2, <1>3, <1>4, StartKeeps DEF STypeOK
<1>6. STypeOK'
  BY <1>5 DEF Finish, STypeOK
<1>7. LockFree' /\ OneHolder'
  BY DEF Finish, LockFree, OneHolder, Holding, STypeOK
<1> QED BY <1>5, <1>6, <1>7 DEF Finish, OneUpstream, UpstreamRuns, PreviousIsStopping

-----------------------------------------------------------------------------
\* A step of a poller or a socket gives an upstream to no provider without.
LEMMA BecomesKeeps ==
    ASSUME SInv, NEW p \in Providers, NEW s \in StreamRecord, Becomes(p, s),
           stale' \in BOOLEAN, quiet' \in 0..IdleLimit,
           Upstream(s) => Upstream(stream[p]) /\ s.running = stream[p].running
    PROVE  SInv'
<1> USE DEF SInv
<1>1. STypeOK'
  BY DEF Becomes, STypeOK
<1>2. LockFree' = LockFree
  BY DEF Becomes, LockFree
<1>3. \A q \in Providers : Upstream(stream'[q]) =>
                            Upstream(stream[q]) /\ stream'[q].running = stream[q].running
  BY DEF Becomes, STypeOK
<1>4. OneUpstream' /\ UpstreamRuns'
  BY <1>2, <1>3 DEF Becomes, OneUpstream, UpstreamRuns
<1>5. OneHolder' /\ PreviousIsStopping'
  BY <1>2 DEF Becomes, OneHolder, PreviousIsStopping
<1> QED BY <1>1, <1>4, <1>5

LEMMA PollerKeeps ==
    ASSUME SInv, NEW p \in Providers,
           Poll(p) \/ PollSucceeds(p) \/ PollFails(p) \/ PollerEnds(p)
    PROVE  SInv'
<1>1. stream[p] \in StreamRecord /\ stale \in BOOLEAN /\ quiet \in 0..IdleLimit
  BY DEF SInv, STypeOK
<1> DEFINE with(poller) == [stream[p] EXCEPT !.poller = poller]
<1>2. ASSUME NEW poller \in {"none", "asleep", "asking"}
      PROVE  /\ with(poller) \in StreamRecord
             /\ stream[p].poller # "none" =>
                  (Upstream(with(poller)) => Upstream(stream[p]))
             /\ with(poller).running = stream[p].running
  BY <1>1 DEF StreamRecord, Upstream
<1>3. PICK poller \in {"none", "asleep", "asking"} : Becomes(p, with(poller))
  BY DEF Poll, PollSucceeds, PollFails, PollerEnds
<1>4. stream[p].poller # "none" /\ stale' \in BOOLEAN /\ quiet' \in 0..IdleLimit
  BY <1>1 DEF Poll, PollSucceeds, PollFails, PollerEnds
<1> QED
  <2> HIDE DEF with
  <2> QED BY <1>2, <1>3, <1>4, BecomesKeeps

LEMMA SocketKeeps ==
    ASSUME SInv, NEW p \in Providers,
           \/ Connect(p) \/ SocketQuote(p) \/ SocketFrame(p) \/ Drop(p) \/ IdleTimeout(p)
    PROVE  SInv'
<1> USE DEF Connect, SocketQuote, SocketFrame, Drop, IdleTimeout
<1>1. stream[p] \in StreamRecord /\ stale \in BOOLEAN /\ quiet \in 0..IdleLimit
  BY DEF SInv, STypeOK
<1> DEFINE with(socket) == [stream[p] EXCEPT !.socket = socket]
<1>2. ASSUME NEW socket \in {"down", "up", "chatty"}
      PROVE  with(socket) \in StreamRecord /\ with(socket).running = stream[p].running
  BY <1>1 DEF StreamRecord
<1>3. PICK socket \in {"down", "up", "chatty"} : Becomes(p, with(socket))
  OBVIOUS
<1>4. quiet' \in 0..IdleLimit
  BY <1>1 DEF IdleLimit
<1>5. Upstream(stream[p]) /\ stale' \in BOOLEAN
  BY <1>1 DEF Healthy, Upstream
<1> HIDE DEF with
<1> QED BY <1>2, <1>3, <1>4, <1>5, BecomesKeeps

-----------------------------------------------------------------------------
LEMMA TokenExpiresKeeps == ASSUME SInv, TokenExpires PROVE SInv'
<1> USE DEF SInv
<1>1. ASSUME NEW p \in Providers
      PROVE  /\ stream'[p] \in StreamRecord
             /\ Upstream(stream'[p]) = Upstream(stream[p])
             /\ stream'[p].running = stream[p].running
  <2> DEFINE expired == [stream[p] EXCEPT !.token = "expired"]
  <2>1. stream[p] \in StreamRecord
    BY DEF STypeOK
  <2>2. /\ expired \in StreamRecord /\ Upstream(expired) = Upstream(stream[p])
        /\ expired.running = stream[p].running
    BY <2>1 DEF StreamRecord, Upstream, Tokens
  <2>3. stream'[p] = expired \/ stream'[p] = stream[p]
    BY DEF TokenExpires
  <2> QED BY <2>1, <2>2, <2>3
<1>2. DOMAIN stream' = Providers /\ stream' = [p \in Providers |-> stream'[p]]
  BY DEF TokenExpires
<1>3. stream' \in [Providers -> StreamRecord]
  BY <1>1, <1>2
<1>4. config' \in Tokens
  BY DEF TokenExpires, STypeOK, Tokens
<1>5. STypeOK'
  BY <1>3, <1>4 DEF TokenExpires, STypeOK
<1>6. LockFree' = LockFree
  BY DEF TokenExpires, LockFree
<1>7. OneUpstream' /\ UpstreamRuns'
  BY <1>1, <1>6 DEF TokenExpires, OneUpstream, UpstreamRuns
<1>8. OneHolder' /\ PreviousIsStopping'
  BY <1>6 DEF TokenExpires, OneHolder, PreviousIsStopping
<1> QED BY <1>5, <1>7, <1>8

LEMMA SurroundingsKeep ==
    ASSUME SInv, MarketTurns \/ GoesStale \/ TimePasses \/ UNCHANGED svars PROVE SInv'
<1> USE DEF SInv
<1>0. quiet' \in 0..IdleLimit
  BY DEF MarketTurns, GoesStale, TimePasses, IdleLimit, svars, STypeOK
<1>1. /\ UNCHANGED <<config, current, previous, stream, stage>>
      /\ open' \in BOOLEAN /\ stale' \in BOOLEAN
  BY DEF MarketTurns, GoesStale, TimePasses, svars, STypeOK
<1>2. STypeOK'
  BY <1>0, <1>1 DEF STypeOK
<1>3. LockFree' = LockFree
  BY <1>1 DEF LockFree
<1>4. OneUpstream' /\ OneHolder' /\ PreviousIsStopping' /\ UpstreamRuns'
  BY <1>1, <1>3 DEF OneUpstream, OneHolder, PreviousIsStopping, UpstreamRuns
<1> QED BY <1>2, <1>4

LEMMA SNextKeeps == SInv /\ [SNext]_svars => SInv'
<1> SUFFICES ASSUME SInv, [SNext]_svars PROVE SInv'
  OBVIOUS
<1>1. CASE Ensure
  BY <1>1, EnsureKeeps
<1>2. CASE LookUp
  BY <1>2, LookUpKeeps
<1>3. ASSUME NEW r \in Restarters,
             Reconfigure(r) \/ Begin(r) \/ SocketStopped(r) \/ Finish(r)
      PROVE  SInv'
  BY <1>3, ReconfigureKeeps, BeginKeeps, SocketStoppedKeeps, FinishKeeps
<1>4. ASSUME NEW p \in Providers,
             \/ Poll(p) \/ PollSucceeds(p) \/ PollFails(p) \/ PollerEnds(p)
             \/ Connect(p) \/ SocketQuote(p) \/ SocketFrame(p) \/ Drop(p) \/ IdleTimeout(p)
      PROVE  SInv'
  BY <1>4, PollerKeeps, SocketKeeps
<1>5. CASE TokenExpires
  BY <1>5, TokenExpiresKeeps
<1>6. CASE MarketTurns \/ GoesStale \/ TimePasses \/ UNCHANGED svars
  BY <1>6, SurroundingsKeep
<1> QED BY <1>1, <1>2, <1>3, <1>4, <1>5, <1>6 DEF SNext

\* However many requests restart the stream, ensure it or create a provider
\* meanwhile (core/service_lifecycle.py, providers/registry.py), at most one
\* provider object has a poller or a socket: the singleton, or the one that a
\* restart is stopping.
THEOREM UpstreamIsUnique == SSpec => []OneUpstream
<1>1. SInv => OneUpstream
  BY DEF SInv
<1> QED BY SInitInv, SNextKeeps, <1>1, PTL DEF SSpec

-----------------------------------------------------------------------------
(* The four together                                                       *)

\* Run side by side for any number of users, keys, ticks and providers, the
\* parts stay in the states their classes can be in; above all the breaker's
\* counters never pass their thresholds (circuit_breaker.py:106-146).
THEOREM DataSideIsTyped == DataSpec => []InfraTypeOK
<1>1. QInv /\ GInv /\ TInv /\ SInv => InfraTypeOK
  BY DEF QInv, GInv, TInv, SInv, InfraTypeOK
<1> QED
  BY QInitInv, QNextKeeps, GInitInv, GNextKeeps, TInitInv, TNextKeeps, SInitInv, SNextKeeps,
     <1>1, PTL DEF DataSpec, QSpec, GSpec, TSpec, SSpec
=============================================================================
