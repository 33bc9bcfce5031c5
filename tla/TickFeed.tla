------------------------------ MODULE TickFeed ------------------------------
(* One instrument's ticks from the provider to the bars and the store:     *)
(* central_feed.ingest_tick with the quality gate, the live one-minute     *)
(* candles, the deduplicating write pipeline and the broadcast buffer.     *)
(*                                                                         *)
(* Two producers call it: the FYERS socket stamps a tick when it arrives,  *)
(* the REST poll stamps its tick before it asks, so that its answer may be *)
(* older than what the socket brought meanwhile.  Both have passed the     *)
(* provider's sanity gate, carry no sequence number and are of HIGH        *)
(* priority.  Nothing in ingest_tick suspends: the queue is unbounded and  *)
(* the store's lock is never held across an await.                         *)
(*                                                                         *)
(* Left out: volumes (the socket sends none, and a tick's source stands    *)
(* for its volume in the deduplicator's key), the deduplicator's window of *)
(* ten seconds and the retention limits, which no second is old enough or  *)
(* full enough to reach.                                                   *)
EXTENDS Naturals, FiniteSetsExt, SequencesExt

CONSTANTS
    Quotes,           \* the prices the market trades at
    SecondLen,        \* instants in a second
    MinuteLen,        \* seconds in a minute
    BatchSize,        \* ticks a flush takes from the queue
    BufferCap,        \* capacity of the broadcast buffer
    MaxInstant,       \* bound: the last instant
    MaxTicks          \* bound: ticks written

ASSUME FeedAssumption ==
    /\ Quotes \subseteq Nat
    /\ {SecondLen, MinuteLen, BatchSize, BufferCap} \subseteq Nat \ {0}
    /\ {MaxInstant, MaxTicks} \subseteq Nat

VARIABLES
    instant,    \* the wall clock
    poll,       \* the instant at which the REST request in flight was sent
    latest,     \* _last_timestamps: the instant of the last accepted tick
    bar,        \* the bucket of the current minute, or NoBar
    bars,       \* the closed candles
    keys,       \* the deduplicator's keys
    queue,      \* the write pipeline's queue
    stored,     \* the ticks in the time-series store
    writing,    \* the pipeline is running
    depth       \* the events waiting in the broadcast buffer

tvars == <<instant, poll, latest, bar, bars, keys, queue, stored, writing, depth>>

Instants == 0..MaxInstant
Idle == MaxInstant + 1
Tick == [at : Instants, ltp : Quotes, source : {"socket", "poll"}]
Second(t) == t.at \div SecondLen
Minute(t) == Second(t) \div MinuteLen

-----------------------------------------------------------------------------
(* live_candles.on_tick                                                    *)

NoBar == [minute |-> Idle, open |-> 0, high |-> 0, low |-> 0, close |-> 0]

NewBucket(t) ==
    [minute |-> Minute(t), open |-> t.ltp, high |-> t.ltp, low |-> t.ltp, close |-> t.ltp]

\* Fault: the extremes are taken from the last price.
ExtendedFromClose(b, t) ==
    [b EXCEPT !.high = Max({b.close, t.ltp}), !.low = Min({b.close, t.ltp}), !.close = t.ltp]

Extended(b, t) ==
    [b EXCEPT !.high = Max({@, t.ltp}), !.low = Min({@, t.ltp}), !.close = t.ltp]

OnTick(t) ==
    CASE bar = NoBar -> bar' = NewBucket(t) /\ UNCHANGED bars
      [] bar # NoBar /\ Minute(t) > bar.minute -> bar' = NewBucket(t) /\ bars' = Append(bars, bar)
      [] bar # NoBar /\ Minute(t) = bar.minute -> bar' = Extended(bar, t) /\ UNCHANGED bars
      [] OTHER -> UNCHANGED <<bar, bars>>

-----------------------------------------------------------------------------
(* write_pipeline                                                          *)

\* Fault: the price is left out of the key.
KeyWithoutPrice(t) == [second |-> Second(t), ltp |-> 0, source |-> t.source]

\* The key is the tick to the second: a price that comes back within the
\* second is a duplicate of its first appearance.
KeyOfTick(t) == [second |-> Second(t), ltp |-> t.ltp, source |-> t.source]

Enqueue(t) ==
    IF KeyOfTick(t) \in keys THEN UNCHANGED <<keys, queue>>
    ELSE /\ keys' = keys \cup {KeyOfTick(t)}
         /\ queue' = Append(queue, t)

\* One batch: _flush_all_pending has no await that suspends.
FlushBatch ==
    LET n == Min({BatchSize, Len(queue)}) IN
    /\ stored' = stored \o SubSeq(queue, 1, n)
    /\ queue' = SubSeq(queue, n + 1, Len(queue))

Flush ==
    /\ writing
    /\ FlushBatch
    /\ UNCHANGED <<instant, poll, latest, bar, bars, keys, writing, depth>>

\* The worker is cancelled in its sleep; one last batch is written, whatever
\* the queue holds, and what is accepted later only queues.
Stop ==
    /\ writing
    /\ writing' = FALSE
    /\ FlushBatch
    /\ UNCHANGED <<instant, poll, latest, bar, bars, keys, depth>>

-----------------------------------------------------------------------------
(* central_feed.ingest_tick                                                *)

\* validate_tick: a tick older than the last accepted one is dropped.
InOrder(t) == latest = Idle \/ t.at >= latest

\* publish: at capacity the newest HIGH event is shed.
Publish == depth' = Min({depth + 1, BufferCap})

IngestTick(t) ==
    IF ~InOrder(t) THEN UNCHANGED <<latest, bar, bars, keys, queue, depth>>
    ELSE /\ Len(stored) + Len(queue) < MaxTicks
         /\ latest' = t.at
         /\ OnTick(t)
         /\ Enqueue(t)
         /\ Publish

SocketTick(p) ==
    /\ IngestTick([at |-> instant, ltp |-> p, source |-> "socket"])
    /\ UNCHANGED <<instant, poll, stored, writing>>

PollSent ==
    /\ poll = Idle
    /\ poll' = instant
    /\ UNCHANGED <<instant, latest, bar, bars, keys, queue, stored, writing, depth>>

PollAnswered(p) ==
    /\ poll # Idle
    /\ IngestTick([at |-> poll, ltp |-> p, source |-> "poll"])
    /\ poll' = Idle
    /\ UNCHANGED <<instant, stored, writing>>

\* The broadcast loop takes what is there (a batch of fifty).
Broadcast ==
    /\ depth > 0
    /\ depth' = 0
    /\ UNCHANGED <<instant, poll, latest, bar, bars, keys, queue, stored, writing>>

Advance ==
    /\ instant < MaxInstant
    /\ instant' = instant + 1
    /\ UNCHANGED <<poll, latest, bar, bars, keys, queue, stored, writing, depth>>

TInit ==
    /\ instant = 0 /\ poll = Idle
    /\ latest = Idle /\ bar = NoBar /\ bars = <<>>
    /\ keys = {} /\ queue = <<>> /\ stored = <<>> /\ writing = TRUE
    /\ depth = 0

TNext ==
    \/ \E p \in Quotes : SocketTick(p) \/ PollAnswered(p)
    \/ PollSent \/ Broadcast \/ Advance
    \/ Flush \/ Stop

TSpec == TInit /\ [][TNext]_tvars

-----------------------------------------------------------------------------
(* Properties *)

Bucket == [minute : Nat, open : Nat, high : Nat, low : Nat, close : Nat]
Key == [second : Nat, ltp : Nat, source : {"socket", "poll"}]

TTypeOK ==
    /\ instant \in Instants
    /\ {poll, latest} \subseteq Instants \cup {Idle}
    /\ bar \in Bucket /\ bars \in Seq(Bucket)
    /\ keys \subseteq Key
    /\ {queue, stored} \subseteq Seq(Tick)
    /\ writing \in BOOLEAN /\ depth \in 0..BufferCap

\* The ticks written for a minute, by their places in the order of writing.
Log == stored \o queue
Written(m) == {i \in DOMAIN Log : Minute(Log[i]) = m}

\* Each closed candle is the candle of the ticks written for its minute: same
\* open, high and low, whatever was dropped as out of order or as a duplicate
\* and however the flushes fell.  (Its close may differ: the deduplicator
\* drops a price that comes back within the second.)
BarsMatchStore ==
    \A i \in DOMAIN bars :
        LET ticks == Written(bars[i].minute)
            prices == {Log[j].ltp : j \in ticks} IN
        /\ ticks # {}
        /\ bars[i].open = Log[Min(ticks)].ltp
        /\ bars[i].high = Max(prices) /\ bars[i].low = Min(prices)
=============================================================================
