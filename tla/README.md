# DROID: a verification project

DROID is a trading desk for Indian index options: a FastAPI backend
(`src/backend/app`) that scans the market for signals, follows each signal from
its trigger to its outcome, trades it on paper and, in the algo desk, through a
broker; a Next.js frontend; and a Postgres database. This directory holds TLA+
specifications of its trading core and of the data side it rests on, TLC
configurations that check them on small instances, and TLAPS proofs of their
main theorems for every instance.

Paths without a prefix are below `src/backend/app/`.

    tlc -workers 2 -config MCSignalFSM.cfg MCSignalFSM     # any configuration, with its module
    tlapm SignalFSMProofs.tla                              # about half a minute
    tlapm SignalTrackerProofs.tla                          # a minute or two each
    tlapm SignalRestoreProofs.tla
    tlapm PaperBookProofs.tla
    tlapm PaperBookOrderProofs.tla
    tlapm AlgoOrdersProofs.tla
    tlapm DataSideProofs.tla
    tlapm FiniteSums.tla

## 1. The system

### How the parts interact

The backend is one process with one asyncio event loop. Between two awaits that
really suspend, a coroutine runs alone; all races are between coroutines that
are suspended in an await (a database commit, a quote, a lock). The state
machine, the ledgers and the paper book are module-level singletons; the
database is a copy that is written behind them and read at start-up. Only the
algo desk keeps its truth in the database and locks rows there.

     providers/fyers.py (REST poll), fyers_ws.py (socket)      HTTP requests of the desk
                      | ticks                                            |
     services/live_feed -> write_pipeline, live candles                  |
                      |                                                  |
     services/market_data_coordinator.py (quotes)                        |
                      |                                                  |
     scanner --> signals/worker.py (risk loop)             api/signals.py, api/paper.py, api/algo.py
        |             |                                         |                |
        | register    | process_price_update_async              | execute,       | create, cancel
        v             v                                         | delete,        v
     signals/fsm.py <---- signals/outcome_tracker.py            | square off   algo/algo_service.py
        |    ^                    |                             |                |
        |    | transition         v                             |              algo/execution.py, capital.py
        |    +-------- signals/paper_engine.py <----------------+                |
        |                         |            \                                 v
        | events                  | place_order \  record_*                 paper broker, rows
        v                         v              v
     signals/event_bus.py   services/paper_service.py   signals/audit_ledger.py
        |                         |                        ^
        +--> handlers/audit_handler.py --------------------+
        +--> handlers/persistence_handler.py --> signals_persistence.py (file, rows)

- `worker.py` runs a risk loop every three seconds: it sweeps expired signals,
  feeds ticks to the tracker, and at the closing edge of the session starts the
  end-of-day square-off. It also evaluates the resting orders of the anonymous
  paper shard.
- `outcome_tracker.py` decides, per tick and signal, between trigger, first
  target, breakeven ratchet, final exit, or nothing, and calls the paper engine,
  whose awaits suspend the loop in the middle of a signal.
- Desk requests call the same paper engine for the same signals, concurrently.
- Every transition is published on a bus; its handlers run as tasks, so the
  audit handler sees them later, in any order. The persistence handler saves the
  file and upserts the signal's row; a start-up restores from the rows or the
  file, whichever a signal is in.
- A request of the algo desk reserves capital, commits, asks the broker and
  commits again; several requests for one client order id are suspended at any
  of these points at once.
- Quotes are fetched once per key for all who ask, behind a circuit breaker. The
  ticks come over a socket, or from a REST poll while the socket is not healthy;
  both belong to one provider object, which a new token or new settings replace.

### Inventory

| Component | State it keeps | Operations | What makes it hard | What makes it correct |
|---|---|---|---|---|
| Signal state machine (`signals/fsm.py`) | signals by id: state, version, stop, clocks, paper fields, audit trail; settlement intents | register, transition, delete, sweep with pruning, ratchet, evaluate tick | five writers of one record, overlapping clocks, an in-memory cap | stops only tighten; versions count moves; an outcome is final and has its intent; only ended signals are pruned |
| Outcome tracker (`signals/outcome_tracker.py`) | none of its own; a loop over the signals | tick: trigger, T1, final exit, ratchet, recovery of swept trades | suspends inside a signal | no outcome before the exit fills; open trades are settled |
| Signal paper engine (`signals/paper_engine.py`) | intents of executions | execute a signal, close its position | check, await, act | one entry per intent; close once |
| Fill reconciler (`signals/fill_reconciler.py`) | entry, T1 and final leg per signal | book each leg | rejected exits, repeated calls | legs add up to the entry; books what was sold |
| Audit ledger (`signals/audit_ledger.py`, `audit_settlement.py`) | one status per signal | create, transition, execute, square off, sync, delete | direct writes and late events | a settled record is final |
| Event bus (`signals/event_bus.py`, `handlers/`) | subscribers | publish | tasks that await | order of delivery does not matter |
| Desk requests and execution guard (`api/signals.py`, `signals/safety/execution_guard.py`) | none | execute, delete, sync; the checks before an entry | run beside the tick on the same signal | a request and the tick together buy once |
| Signal worker (`signals/worker.py`) | last session state | risk loop, end-of-day settlement | once per edge | nothing stays open over night |
| Persistence and restore (`signals/signals_persistence.py`) | snapshot file and rows | autosave, upsert, restore, sanitise | a restart at any point; upserts that land late, or never | a restart forgets nothing, revives nothing and changes nothing twice |
| Paper trading service (`services/paper_service.py`) | per user: positions, orders, client ids, P&L, lock; rows | place, rest, cancel, evaluate resting orders, square off, reset, mark, save, hydrate | quote and database awaits, a lock not taken everywhere, restarts | position = net of its legs; limits kept; one order per client id |
| Algo desk (`algo/`) | orders in memory; orders, reservations, capital in the database | create, submit, time out, cancel, reserve, consume, release | row lock, broker await, several commits, restarts | one broker order per client id; capital follows the trade |
| Market data coordinator (`services/market_data_coordinator.py`) | cache, a future and a lock per key | get or compute | leaders, followers and queued requests cancelled anywhere | one fetch per key; everybody answered |
| Circuit breaker (`core/circuit_breaker.py`) | state, counters | call, success, failure | calls that span states | it recovers |
| Feed safety (`signals/safety/`) | last sequence, circuit per instrument, file | validate, trip, resynchronise | loss, reordering, restart | no number is lost in silence |
| Live feed and write pipeline (`services/live_feed/`, `write_pipeline.py`) | bar, keys of the deduplicator, queues | ingest, flush, stop, broadcast | late and repeated ticks | the stored minute is the candle |
| Provider stream (`providers/fyers*.py`, `providers/registry.py`, `core/service_lifecycle.py`) | provider objects, poller, socket | ensure, restart, look up, connect, poll | restarts suspend while requests create providers | one upstream; ticks come again |
| Execution intents (`signals/execution_intent.py`) | intent ledger, its file | register, transition, recover | duplicates, restarts | one order per intent |
| Risk gates, strategies, options intelligence | none | threshold and score computations | floating point | - |
| Scanner and pipeline (`signals/scanner.py`, `signals/pipeline/`) | caches | market data to candidate signals | long sequential computation | candidates enter by register |
| Event engine, research, institutional pipeline | events, shadow forecasts | schedules | little concurrency, no orders | evidence is settled in time |
| Fan-out and snapshots, rate limiter | queues, token bucket | broadcast, throttle | loss by design | - |
| Copilot, AI, ML, analysis libraries, market mathematics | models, caches | computations | floating point, external services | - |
| API, users, schema, frontend, scripts | - | routing, CRUD | - | - |

`PROJECT.json` lists the components with their files, and under `hazards` each
place where this code is hard to test, with the properties that cover it.

## 2. The modules

    SignalFSM            the state machine of one or more signals   (abstract promise and component)
      |-- SignalFSMProofs     its theorems
      |-- SignalTracker       EXTENDS SignalFSM: tracker, paper engine, reconciler, ledger, bus, worker, desk
      |     '-- SignalTrackerProofs     its theorems, with those of SignalFSMProofs
      '-- SignalRestore       EXTENDS SignalFSM: file, rows, upserts under way, restart
            '-- SignalRestoreProofs     its theorems
    PaperBook            one shard of the paper trading service
      '-- PaperBookProofs     its theorems
            '-- PaperBookOrderProofs    those about orders and positions, built on them
    CapitalLedger        what the capital engine promises           (abstract)
      '-- AlgoOrders          requests, order manager, rows, broker; implements CapitalLedger
            '-- AlgoOrdersProofs
    CircuitBreaker       operators on one breaker
      '-- MarketQuotes        the coordinator's single flight, with the breaker
    FeedGate             sequence check and feed circuit
    TickFeed             one instrument's ticks, from the provider to candle and store
    ProviderStream       provider objects, poller, socket, restarts
    DataSide             MarketQuotes, FeedGate, TickFeed and ProviderStream side by side
      '-- DataSideProofs      the theorems about the four
    FiniteSums           sums over finite sets, for PaperBookOrderProofs and AlgoOrdersProofs
    MC*                  constants of the instances

### SignalFSM: `signals/fsm.py`

| Code | Module |
|---|---|
| `_signals`, a signal's fields | `sigs`, a record per id; `Absent` for an id that is not in the dictionary |
| settlement intents enqueued by `transition` | `intents`, as signal, version and state |
| `apply_fsm_transition_pure` | `Legal` (the table and the degraded-data refusal) and `Moved` (version, clocks, T1's stop) |
| `transition` | `Transition`; any caller may ask for any state: `Request` |
| `register`, `delete` | `Register`, `Delete` with `Tombstoned` |
| `sweep_expired` | `Sweep`: `SweepTarget` per signal, the intents, and `PruneSets` at the cap |
| `ratchet_breakeven` | `CanRatchet`, `RatchetStop`, `Ratchet` |
| `evaluate_tick` | `Verdict`, `OnTick` |
| the paper engine's fill, the reconciler's booked exits | `EntryFill`, `BookExit` |

Prices are integers in ticks. Time is a counter divided into days with an open
and a closed part. Events, serialisation and the text of the audit trail are
left out; the trail's last target state is kept, for what `delete` writes there.

### SignalTracker: the life of a trade

The variables are the copies of one trade that the code keeps in different
objects: the signal itself (`sigs`), the position of its contract (`pos`), the
reconciler's record (`recon`), the ledger's status (`audit`), events not yet
handled (`mirror`), the entry intent (`intent`), and, as history, lots bought
and sold per signal. `task` holds for each coroutine (the risk loop `"tick"`,
the square-off `"eod"`, and each HTTP request) the await it is suspended in and
its local variables.

A step of a coroutine from one suspension to the next is one action:
`TickTrigger` runs up to the gate of `execute_signal`; `ExecSubmit`, `ExecFill`,
`ExecReplay`, `ExecRefuse`,
`ExecReject` and `ExecOffDomain` are that function; `TickTarget1` and `TickFinal`
run to the locked snapshot of `close_signal_position`; `CloseSnap`, `ExitFill`
and `ExitReject` are the rest of it, together with what its caller does with the
answer (`Finish`). Within a step the effects on all copies are collected in one
record (`World`, `Go`, `BookEntry`, `SquareOff`, ...) and written by `Commit`, in
the order of the code.

The code changes the signal object in place, so a coroutine that resumes sees
the new state; locals it captured before (`was`, `n`, `part`, `mark`) are old.
The paper service is external here: an order fills, is rejected, or is left
pending, by choice. `SquareOff` always finishes the residual leg of a signal that
is still there: left out are the squaring off without usable prices, which
closes the audit record and leaves the reconciliation open
(`signals/audit_settlement.py:60-93`), and reconciliations rebuilt after a restart,
which are not finished (line 119). Left out too: prices and costs of the legs,
notifications, the synchronous preview, the voiding of records, and the idempotency keys made from
the current millisecond.

### SignalRestore: what survives a restart

| Code | Module |
|---|---|
| `signal_audit_ledger._trades`, `option_fill_reconciler._records` | `ledger`, `legs` |
| an event of the bus with its handlers; an upsert under way | a member of `jobs`: `HandleEvent` saves the file and starts the signal's upsert, `Land` or `Drop` ends an upsert and runs the audit handler that follows |
| `_schedule_persist` of the audit ledger (`signals/audit_ledger.py:118-130`) | `AuditWrite`: every change of an audit record, the first one included, starts a job of its own that saves the file and upserts the row from the record |
| `persist_executed_signal` | `RowOf`: `RowOfSignal` or `RowOfAudit`, the values taken at its start (the event of a pruned signal has none), and `Upserted` (ON CONFLICT DO UPDATE) |
| `save_signals_state_local` | `Saved`: the three dictionaries at once; `file.run` is the run of the program that saved them |
| `restore_signals_from_db`, `restore_signals_state_local` | `Restart(up, kept, newer)`: whether the database answers, the file is still there, and, for two records of the same clock, whether the file's counts as newer |
| `sanitize_persisted_signals`, the loader's own pass, the repair of outcome fields | `SanitizedState`, `Repaired`, part of `Restart`; the file is saved if either changed a signal |

An upsert takes its values when it starts and may land after a later one, or
never. The life between two restarts is short (`New`, `Trigger`, `Fill`,
`TakeHalf`, `Settle`, `SettlePreEmpted`, `Breakeven`, `SweepAll`): each is what
SignalTracker does in several steps, as seen by the stores. Left out: deletions
and voided records, the cleaning of ghost records, and `POST /audit/sanitize`,
which runs the restore over live signals.

### PaperBook: one shard of `services/paper_service.py`

| Code | Module |
|---|---|
| `_positions`, the position objects | `book`, an index into `heap`: a save that holds an object while the dictionary gets a new one needs identities |
| `_orders`, `_idempotency`, `_realized_pnl`, the user's lock | `orders`, `seen`, `realized`, `lock` |
| `place_order` | `Place` (lock and risk gate, up to the quote), then `Reject`, `Rest` or `FillNow`, then `SaveOrder`, `SavePosition`, `SavePortfolio` (the three commits of `_persist_fill`) |
| `_execute_fill` | `Fill`: open, add, partial close, close, close and reverse |
| `cancel_order`, `square_off_position`, `reset_portfolio_async` | `Cancel`, `SquareOff` and `Exit`, `Reset` |
| `evaluate_pending_orders` | `TouchStart`, `TouchSkip`, `Touch`, the three saves of the leg, and `SaveTouched` of the order itself: the worker fills and saves without the lock |
| `get_positions` | `Mark`, and `Hydrate` for a shard that is empty |
| the process dies and starts again, `hydrate_anon` | `Restart` |
| rows of positions and portfolio; rows of orders | `rows`; the fields `row` and `torn` of an order |

A restart may fall between any two commits. With `"touch"` in `Acts` the shard is
that of the signal engine: the worker evaluates its resting orders, and the
start-up reads its positions, its portfolio and its orders back, each or none of
them, since `hydrate_anon` (`services/paper_service.py:1175-1201`, called at
`main.py:243`) has a timeout and passes over failed queries. Without it the shard
is a signed-in user's, which comes back empty and reads its positions on demand
(`Hydrate`). An order without a row is lost with the process; an order whose leg
was saved while its own row still says PENDING comes back pending and is marked
`torn`.

Quantities carry their sign, but a row does not follow it: `upsert_position`
updates everything of a row that exists except its side
(`repositories/paper_repository.py:197-204`), so `Saved` writes the new size with
the side the row was inserted with, and a position that was reversed comes back
with its old direction.

Rejected orders are left out of `orders`. A save does not fail except by the end of
the process; resting and cancelling save their one row under the lock, in the
same step. Baskets and `square_off_all` are sequences of
the modelled operations. The change of the starting capital, the synchronous
reset, and the persistence of marks are left out.

### AlgoOrders and CapitalLedger: `algo/`

| Code | Module |
|---|---|
| `OrderManager._orders` | `mem`: status and whether the record has a broker id |
| rows of orders and reservations; the row lock of `capital_config` | `row`, `resv`, `lock` |
| `create_order` | `Receive` and `Lookup` (the two idempotency checks), `Snapshot` (SELECT FOR UPDATE; when it fails the request goes on without it), `Refuse` (risk stack), `Reserve` (takes the row lock if the snapshot did not, and may deny for any reason), `Persist` (the commit of row and reservation, or its failure, after which the order is submitted all the same) |
| `OrderManager.submit` | `Submit`, then `BrokerFills` and `SubmitResumes`, or `SubmitFails` (TIMED_OUT, or UNKNOWN after any other exception) |
| the two commits after it | `Record`, `Settle` |
| `cancel_order` | `Cancel` and `CancelRow`; `CancelUnknown` for an order forgotten by a restart |
| the process dies | `Restart` |

`placed` counts what the broker got under each client order id and `lost` holds
the ids whose row could not be saved. One account, whose row of `capital_config` exists
(`Reserve` would create it, `algo/capital.py:125-129`); the adapter is the paper
broker, for live accounts too, since `BrokerRegistry.get` is called without a
provider. `CapitalLedger` is the abstract promise: capital is reserved in one
step, within the limit, once per id, and ends consumed or released.
`Ledger == INSTANCE CapitalLedger WITH held <- ..., spent <- ..., freed <- ...`
maps the reservation rows to it, and `ReservesAtomically` is its specification:
the transaction that locks, sums, checks and commits over four awaits implements
the one step. Left out: `reconcile` and the exit engine, which no caller reaches
with a position (nothing inserts position rows), the pruning of ten thousand
cached orders, and requests without a database.

### MarketQuotes and CircuitBreaker: one fetch for all who ask

`step[r]` is the await a request of `get_or_compute` is suspended in (the cache,
the future it follows, the key's lock, the provider, the pause before a retry);
`line[k]` is the queue of the key's lock, `flight[k]` the registered future. A
request may be cancelled at each of these awaits, as the callers' own timeouts
do: `CancelLeader`, `CancelFollower`, `CancelQueued`, `CancelRecheck` (handed the
lock, or reading the cache under it), `CancelOrphans`; one that ends before it
asked for the lock leaves no trace and is left out.
`CircuitBreaker` has the breaker as operators on a record (`Probed`, `OnSuccess`,
`OnFailure`, `Aged`): the breaker's lock covers no await, so each is a part of
the step that calls it. Each MarketService has a breaker of its own
(`services/market_service.py:74`); the model has one service, through which all
the fetches go. Payloads are left out: a value is fresh or not.

### FeedGate: `sequence_validator.py` and `feed_circuit.py`

The numbers a feed delivers may be lost, repeated or late; `IngestNumber` is
`check` with the circuit it trips. `file` may lag behind `last`, since a failed
write is passed over; `Restart` reads it. `base` and `got` are history: where
the unbroken part of the feed begins and what was delivered since.

### TickFeed: `ingest_tick`

One action per producer (`SocketTick`; `PollSent` and `PollAnswered`, because the
poll stamps its tick before it asks), each with everything `ingest_tick` does:
quality gate, live candle, deduplicator, queue, broadcast buffer. `Flush` and
`Stop` are the write pipeline's. Volumes and retention are left out.

### ProviderStream: poller, socket and restarts

`stream[p]` is a provider object with its token, poller and socket. A restart
is `Reconfigure`, `Begin`, `SocketStopped`, `Finish`: it holds the process-wide
lock and suspends while the old socket and then the old poller end. `LookUp` is
any request that creates the provider meanwhile, `Ensure` the start-up and the
token refresh. Poller and socket have their own steps, refused subscriptions and
expiring tokens included; `Started` may do without a socket. Two things are told
apart: `stale`, no tick came for a while, and `quiet`, the age of the last frame of
any type. The watchdog of the idle socket (`IdleTimeout`) looks at the second only
(`providers/fyers_ws.py:504,517,567-571`), and a frame need not carry a tick
(`SocketFrame`: control frames, updates that cannot be scaled, records without a
price). Single symbols and prices are left out.

### DataSide and MCInfrastructure

MarketQuotes, FeedGate, TickFeed and ProviderStream share no state in the code
that is modelled. `DataSide` puts them side by side: `DataSpec` is the conjunction
of their specifications, and only the typing of all four is claimed of it. For
TLC the instance is their sum, each behaviour being one of a single part (`part`)
with the others at rest.

## 3. What is checked

`expect: violation` runs (x) check one sentence of the code's own documentation
that the code does not keep; section 6 explains them.

| Run | Question | Instance | Distinct states |
|---|---|---|---|
| `fsm` | Do transitions, ticks, deletes, sweeps, fills and exits keep stops, versions and intents, does every waiting signal expire, and does a full memory drop only ended signals? | one call signal, two sessions of three instants, version up to 6, a memory other signals already fill | 133,794 |
| `tracker_race` | Tick, desk execution, deletion, square-off and rejected exits at once: is the entry reconciled for what was bought, do the residuals agree, is every stop or second target settled? | one signal of one or two lots, one request, degraded data or not | 2,420,921 |
| `tracker_live` | Is a settled record final, and is every open trade settled in the end? | one signal, a session and the start of the next, syncs of the ledger | 174,536 |
| `tracker_flat` x | Can a signal end with an open position? | as `tracker_race` | |
| `tracker_short` x | Can two closes sell a position twice? | one deletion against the tick | |
| `restore` | A crash anywhere between event, file and upserts: is anything forgotten, stale, different the second time, or waiting for ever? | one put signal of two lots, two sessions, one restart, the jobs of one operation at a time, version up to 4 | 619,586 |
| `restore_settled` x | Does a settled trade come back as a live signal? | the same, version up to 5 | |
| `book_legs` | Two clients, resting orders, cancels, square-offs: are positions the net of their legs, is the position cap kept, a client id used once, what is added covered by margin? | three contracts, two clients and the worker, four orders of up to three lots, position cap 2 | 1,645,469 |
| `book_restart` | Restarts with part of the rows read back, resets, cancels, square-offs, flips: is the exposure limit kept, do rows follow the positions, does a resting order fill once? | two contracts, one client and the worker, four orders of up to two lots, single-order limit 2, exposure limit 3 | 2,468,426 |
| `algo` | Requests, resubmissions, cancels, timeouts, failed commits, a restart: one broker order, the broker's fill wins, capital follows the trade, reservations are atomic, requests are answered | two orders that do not fit into the limit together, one of two lots; two requests, one restart, one fault (a failed commit or snapshot) | 438,398 |
| `infrastructure` | The four parts of the data side | quotes: three consumers of two keys, one with a fallback, one retry, threshold 2, recovery 2, two probes; gate: numbers to 5; feed: two prices, three instants, batch 2, buffer 1, four ticks; stream: two provider objects, two restarting requests | 210,932 |
| `quotes_stranded` x | Does a follower always go on when its leader fails? | three consumers of one key | |

### The properties

SignalFSM. `StopOnlyTightens`: transition to T1, ratchet with its market clamp,
and all others move a stop only toward the market. `VersionCountsMoves`: the
version is the number of moves, through `delete` too, which writes the state
without `transition`. `TerminalSettled`: each outcome has the intent of exactly
its version, so that recovery finds it. `TerminalIsFinal`, `OnlyTerminalPruned`, and
`PreTriggerExpires` (liveness).

SignalTracker. `EntriesReconciled`: what the reconciler holds is what was bought,
although tick and desk race to execute. `ResidualsAgree`: signal and reconciler
agree on what is left, and it is the entry less the legs. `TargetIsSettled`: a
signal stopped out or at its second target has a settled (or deleted) record.
`SettledIsFinal`: no late event, second close or sync reopens a settled record.
`OpenTradeSettles` (liveness): an open trade is settled, by its exits or its
clocks, by the end-of-day square-off, or by the next session's ticks when that
was rejected.

SignalRestore. `NothingForgotten`: a signal whose events were all handled comes
back with its record, out of its row if an upsert landed and the database
answers, out of the file if this run has saved it or there is no row.
`RestartIdempotent`: a second crash right after a start-up changes neither
signal, record nor legs. `NoStaleEntry`: if the disk was kept, a restart in a
later session or a closed market leaves no signal that waits for an entry; what
is still in such a state is already filled. `WaitingEnds`
(liveness): restarts, which give a fresh time to live each time, do not keep an
entry waiting for ever.

PaperBook. `BookIsNetOfLegs`, `OpenBounded` (two awaited quotes cannot take the
same last position), `ExposureBounded` (of the size, whatever the direction),
`OneOrderPerClientId`, `AddsAreCovered` (the margin a fill locks was available at
that moment although the check used values read before the await).
`RestingFillsOnce`: a cancelled order never fills and a pending one once, before
and after it was read back from its row; excepted is the order whose process
died after its leg was saved and before its own row was
(`services/paper_service.py:1403,1411`), which does fill again. `RowsFollowBook`: the
row that was last written from, or read into, the position of now has its size,
its average and its margin, unless its save is under way.

AlgoOrders. `OneBrokerOrder`: a client order id reaches the broker once, through
retries and restarts, unless its row could not be saved. `FillWins`: the record
ends with what the broker holds, whatever cancels ran meanwhile. `SettledAsTraded`:
capital is released only where the broker holds nothing, and consumed only by a
complete fill. `ReservesAtomically` (refinement, see above). `RequestsEnd`
(liveness): nobody keeps the row lock or waits for it for ever.

Data side. `SingleFlight`: a registered future has exactly one fetcher, and its
followers are those of a pending one. `AnsweredUnlessAbandoned` (liveness): who
asks is answered, unless its leader was cancelled under it. `BreakerRecovers`
(liveness): an open breaker does not stay open, although calls admitted earlier
fail late. `NoSilentLoss`: while the feed counts as healthy no number since its
history began is missing, across restarts and failed writes. `BarsMatchStore`: a
closed candle has the open, high and low of the ticks written for its minute.
`OneUpstream`: one provider object at most has a poller or a socket.
`FeedResumes` (liveness): while the market is open and the token good, ticks
come again, although the socket may be up without a subscription; unless the
socket goes on for ever sending frames that carry no tick, which the code takes
for a healthy one (section 6).

Each has a mutant in `PROJECT.json`: a fault in one definition, written beside it
in the module, under which the property fails in its run.

### Bounds

- One signal: coroutines of different signals share only the position of their
  contract and the loop. The race needs one signal and three coroutines. Pruning
  is checked with one signal in a memory that others already fill: the sweep
  decides per signal, and the theorem has it for any number.
- Time: in `fsm` two days, so a signal born in one session meets its clocks, the
  market close and the next day's prior-day rule; in `tracker_live` a day and
  the start of the next session, where a rejected end-of-day exit is retried; in
  `restore` two days, so that a restart finds signals of the day before.
- The prices are one below the stop, one between, one at the breakeven trigger
  and one at each target a run needs. In `fsm` the cost lies beyond the
  breakeven trigger, so that the ratchet's clamp is taken.
- `MaxVersion` bounds only what callers may ask for: they reach a runner over the
  longest path of the table without a loop, and ticks, sweeps and deletions go
  on from there.
- Lots 1 and 2: one lot has no half to sell at T1, two lots have.
- `restore`: an operation waits until no job is under way, but starts up to two,
  whose saves and upserts run in any order. A crash may fall before the save,
  between save and upsert, and between the signal's and the audit record's
  upsert; the upsert under way survives the crash or not. Version 4 lets a
  signal trigger, fill, take half, and settle. The theorems have neither bound.
- Paper book: orders of one to three lots make adds, partial closes, exact
  closes and reversals; four orders are a resting order with its leg and two
  that interfere; the limits are small enough to be reached. In `book_restart` the
  limit of one order is below the exposure limit, as in the code, so that a
  position is larger than one order may be and its square-off is refused; a
  crash may fall between any two commits, and any number of restarts.
- `algo`: two orders and two requests make each of the pairs that interfere (two
  creates of one id, of two ids, a create and a cancel); one restart and one
  fault may fall at any step.
- `infrastructure`: three consumers are a leader, a follower and one that comes
  after them; a threshold of two is the least where a failure does not open the
  breaker at once; two providers are the old and the new one; five numbers allow a
  gap, its late arrival and a repeat after a restart.
- Deadlock is checked in `algo`. Elsewhere `CHECK_DEADLOCK FALSE`: clocks and
  order counts are bounded, and a desk where nobody trades does nothing.

### Fairness

`fsm`: the sweep and the clock are weakly fair; in session the risk loop sweeps
every three seconds, and nothing depends on callers or ticks. Out of session it
sweeps only at the closing edge (`signals/worker.py:167-187`) and when signals are
listed; a signal that the edge leaves waits for the next session's sweeps. `tracker_live`: the loop, each
suspended coroutine and the clock are weakly fair. The exit order of the tick
is strongly fair: the tick retries a rejected exit at every tick, and the
property is about the retries, not about a broker that rejects for ever.
The end-of-day exit gets an answer, which may be a rejection every time. Desk
requests are not assumed to happen. `restore`: the sweep and the clock.

`algo`: each request goes on (weak), and the row lock is granted in turn
(`Snapshot` strongly fair): PostgreSQL queues the waiters of a row. No request
is assumed to come.

`infrastructure`: requests go on, an attempt ends (the coordinator gives it
eight seconds), consumers poll and cached values expire; cancellations are not
fair. That a request fetches is strongly fair: callers give up after seconds, and
not every one of them while it reads the cache under the lock. For the stream the
start-up ensures it, restarts go on, time passes and the watchdog of the idle
socket fires (weak). The poller and its success are strongly fair: the
poller wakes every second, and a socket that drops again and again is away for
its backoff and three round trips each time, so that the poller meets it; of the
polls not all fail. Connections of the socket are not assumed to succeed.

## 4. What is proved

The proofs hold for every value of the constants under the named assumptions:
any number of signals, orders, contracts, requests and providers, any prices,
limits and clocks.

Assumptions. `ConstantTypes`, `TrackerConstants`, `BookConstants`, `AlgoConstants`,
`QuotesAssumption`, `BreakerAssumption`, `GateAssumption` and `FeedAssumption` give
the constants their types, `RestoreConstants` says that an exit settles its audit
record with a settled status, and `NoProviderAssumption` that `NoProvider` is no
provider. `CostBeyondStop`: the cost reference of a signal, a price of its entry
zone or a fill beside it, lies on the profit side of its stop; without it T1 could
move a stop nowhere better. `BookLimits`: one order is no larger than the exposure
limit (in the code half of it). Four theorems assume in addition that some
operations do not happen, because the code does not keep the property with them;
the table says which.

| Theorem | Says | Argument |
|---|---|---|
| SignalFSMProofs `TypeInvariant` | `Spec => []TypeOK` | inductive as it stands; `MovedType`, `SweepType` carry it |
| `StopNeverLoosens` | `Spec => StopOnlyTightens` | `NextStep`: every step of every signal is a stutter, a move along the table, a ratchet, a tombstone, a quantity or a removal; each of those keeps or tightens the stop |
| `VersionIsMoveCount` | `Spec => VersionCountsMoves` | `NextStep`; no edge of the table is a self-loop, so a move changes the state |
| `OutcomesAreSettled` | `Spec => []TerminalSettled` | an outcome is written only by a move, which adds its intent; intents are never removed |
| `OutcomesAreFinal` | `Spec => TerminalIsFinal` | the table's row of every outcome is CLOSED alone; absent signals stay absent once retired |
| `RunnersAreProtected` | `Spec => []RunnerProtected` | strengthened to `Guarded`: a signal that has not ratcheted still has its registered stop, one that has is strictly beyond it; T1 then tightens from either |
| `PruningIsSafe` | `Spec => OnlyTerminalPruned` | only the sweep removes, and it removes from what it has just swept |
| SignalTrackerProofs `TrackerTypeInvariant` | `TrackerSpec => []TrackerTypeOK` | from `TradeInv` |
| `EntriesAreReconciled` | `[]EntriesReconciled` | from `TradeInv`, its part `Entry` |
| `ResidualsAlwaysAgree` | `[]ResidualsAgree` | from `TradeInv`, its part `Residual` |
| `TargetsAreSettled` | `[]TargetIsSettled` | from `TradeInv`, its part `Exits` |
| `SettledRecordsAreFinal` | `SettledIsFinal`, if requests do not execute signals | from `TradeInv`, its part `FirstEntry` |
| SignalRestoreProofs `RestoredStateIsTyped` | `RestoreSpec => []RestoreTypeOK` | inductive as it stands: what is built of a row, a file entry or both has a state of the machine and a quantity the legs allow |
| `NoEntryIsStale` | `[]NoStaleEntry` | from the types: whatever row and file hold, the start-up's two sanitising passes leave no such entry |
| `NothingIsForgotten` | `[]NothingForgotten` | from `Kept` |
| `RestartsAreIdempotent` | `[]RestartIdempotent` | from `Kept`: its ages make what the start-up saved, not the row, the newer of the two the second time |
| PaperBookProofs `BookIsSound` | `BookSpec => []BookTypeOK` | from `BookInv` |
| `ExposureIsBounded` | `BookSpec => []ExposureBounded`, of the size | from `BookInv`, which bounds objects and rows |
| PaperBookOrderProofs `RestingOrdersFillOnce` | `BookSpec => RestingFillsOnce` | from `RestingInv`: a cancelled order is cancelled in its row as well, and a pending one has no leg unless it is marked `torn` |
| `ClientIdsAreUnique` | `[]OneOrderPerClientId`, within a process | from `OrderInv` |
| `PositionsAreBounded` | `[]OpenBounded`, within a process and with a limit set | from `OrderInv` |
| `AddsNeverOverdraw` | `BookSpec => AddsAreCovered` | from `CoverInv`; a fill changes one summand of the locked margin (`FiniteSums`) |
| `PositionsAreTheirLegs` | `[]BookIsNetOfLegs`, under `OneLife`: no restart, and resets do not meet the resting-order worker | from `NetInv`; an executed order adds one leg to the sum of its contract |
| `RowsAreThePositions` | `BookSpec => []RowsFollowBook` | from `RowsInv`; what is being saved belongs to the contract it is saved for, or to none |
| AlgoOrdersProofs `TypeCorrect` | `AlgoSpec => []AlgoTypeOK` | from `IInv` |
| `NeverResent` | `AlgoSpec => []OneBrokerOrder` | from `IInv` |
| `BrokerFillWins` | `AlgoSpec => []FillWins` | from `IInv` |
| `CapitalFollowsTrade` | `AlgoSpec => []SettledAsTraded` | from `IInv` |
| `DeskImplementsLedger` | `AlgoSpec => ReservesAtomically` | `Granted`: what the check found still holds when the reservation is committed; then each step of the desk is one of the ledger or changes no reservation |
| DataSideProofs `FlightsAreSingle` | `QSpec => []SingleFlight` | from `QInv` |
| `HealthyFeedIsWhole` | `[]NoSilentLoss` | strengthened by `BeginTogether`: before the first number there is neither a file, nor a base, nor a known number |
| `CandlesAreOfWrittenTicks` | `TSpec => []BarsMatchStore` | from `TInv` |
| `UpstreamIsUnique` | `[]OneUpstream` | from `SInv` |
| `DataSideIsTyped` | `DataSpec => []InfraTypeOK` | from the four invariants |
| FiniteSums `SumChange` (lemma) | raising one summand raises the sum by as much | the fold's recursive definition has exactly one solution, by a least counterexample among the subsets |

The inductive invariants, and why the property alone is none:

- `TradeInv` of SignalTracker. The properties compare copies that different
  coroutines write, so the invariant says what each suspended one still knows
  (`LocalsSound`) and what that implies for the copies. `Entry`: an order that is
  out has its intent SUBMITTED with its own quantity and is the only one, or the
  intent is REJECTED; this is what makes the second of two racing executions a
  duplicate. `Exits`: a trade is closed only after its entry filled, so that an
  outcome is never written over an unsettled record of a fill. `FirstEntry`: where
  only the tick executes, nobody closes or settles a signal that waits for its
  first fill, so that the fill's EXECUTED does not overwrite a settled record;
  with requests that execute it may, which is why the theorem assumes they do
  not. `Life` and `Unborn`: who left the dictionary does not come back, and
  nothing refers to an id before its registration. A step collects its effects
  in one record; the lemmas on `Go`, `BookT1`, `SquareOff`, `Finish` say what each
  preserves (`Sound`) and how the record may move on (`Follows`), and `FollowInv`
  turns that into the invariant once for all the actions that write one signal.
  TLC checked `TradeInv` as an invariant on the instances of `tracker_race` and
  `tracker_live` before it was proved.
- `Kept` of SignalRestore. `AgesOK`: no store is dated later than the clock, so that
  the start-up's own stamp is the newest; `HasRecord`: a signal has an audit
  record, in memory and in the file; `FileHolds`: a signal with no event left to
  handle is in every file this run has saved, and in any file if it has no row.
  The last is what lets a signal be restored from one store after it was
  written to the other only.
- `BookInv`. `FillNow` relies on a check made before the quote was awaited, so the
  invariant says what every suspended coroutine still knows (`Checked`: the order
  fits the position that is there *now*), and why (`LockSound`: the holder of the
  lock is the only request inside the critical section; the worker, which does
  not take it, waits until it is free). It also bounds every object of the heap
  and every row, since a restart brings rows back, and a save may write an
  object that is no longer in the book.
- `RestingInv`, for `RestingFillsOnce`. It relates an order's status, its row and
  its legs: no restart brings a cancelled order back, and every step that could
  leave a pending order with a leg, a crash between two saves, marks it.
  `KeepsOrders` says what a step may do to the orders that are there.
- `OrderInv`, on top of `BookInv`. `IdsSound`: the shard remembers the live order of an id,
  and none yet for the order that waits for its quote. `OpenSound`: a place is
  left for the position an awaited quote will open, and the rows an emptied
  shard reads back hold at most what the worker saved after the reset. Every
  action's lemma shows that it opens at most the contract it fills.
- `CoverInv` and `NetInv`, on top of both. `RealSound`: the realized P&L a request
  read before its await is still the account's when it fills, since only the
  holder of the lock books; `Distinct`: two contracts do not share a position
  object, so that a fill moves one margin and one quantity. `NetSound`: every row
  has its position in the book, and so has every save under way; a restart,
  which empties the book, and a reset beside the worker's unlocked save, which
  brings a deleted row back (section 6), break just this, and then a position is
  not the sum of the legs the shard knows. That is why `OneLife` is assumed.
- `RowsInv`, for `RowsFollowBook`. `SavesOwn`: no coroutine saves the object of another
  contract than its own, so that a save, however late, overwrites only its own
  row; `Distinct` again, so that a fill changes no other position under its row;
  and a row is of an object that exists, so that a later one is told from it.
- `IInv` of the algo desk. `Tasks` says what a suspended request still knows of its
  order, `Records` that a record with a broker id has the broker's status,
  `Flight` that at most one request per order is at the broker, `Reservation` what
  a reservation's status says about the row, `Placement` that what was placed has a
  row or lost it, and that a record still to be submitted was placed by an
  earlier process only. TLC checked that it is
  inductive from all typed states of one order and two requests.
- `QInv` of the quotes. `SingleFlight` speaks of registered futures; what keeps it
  is the lock: `LinesOK`, the first of a key's queue is past the lock and all
  others wait; `OwnersFirst`, nobody else of that key is past it; `OrphansWait`,
  the followers of an abandoned future wait for that one only, so that no
  completion answers them by accident. `BreakerOK`: below their thresholds the
  counters of a closed and of a probing breaker, whichever calls end late.
- `TInv` of the feed. A bar is closed by the first tick of a later minute, and the
  store is written later still: `OpenIsLatest` and `NoTickIsLater` say that no tick
  of a closed minute can come any more, `KeysAreWritten` that a tick dropped as a
  duplicate has its twin in the log, `BarsAreCandles` that the open bar already is
  the candle of the log (written, queued, or being flushed).
- `SInv` of the stream. `OneHolder`: one restart at a time holds the process-wide
  lock. `PreviousIsStopping`: while it is held there is a provider being
  stopped, which is not the current one. `UpstreamRuns`: every other provider
  with a poller or a socket counts as running, so that ensuring it starts none.

### Only model-checked

The liveness properties (`PreTriggerExpires`, `OpenTradeSettles`, `WaitingEnds`,
`RequestsEnd`, `AnsweredUnlessAbandoned`, `BreakerRecovers`, `FeedResumes`): tlapm has
no rules for fairness and ENABLED. Every other property of a passing run is stated by
a theorem; the four theorems that leave operations out are about the operations
their runs have. `RunnerProtected` (past T1 the clock runs and the stop is strictly
better than at registration) is the other way round: proved, and in no
configuration.

Two sentences about the restart turned out narrower than they were first
written, when their proofs failed; TLC confirmed each with a trace.

- `NoStaleEntry` excepts filled signals. An upsert of an earlier status may land
  over the row of a filled trade; a restart on a later day then brings the trade
  back filled but in a state that waits for its entry, and the sanitising
  (`signals/signals_persistence.py:344-352`) neither expires nor closes it.
- `NothingForgotten` needs the file of this run. What a start-up restores only from
  the database is written to the file only if something was swept
  or repaired (`sanitized_count > 0`, `signals/signals_persistence.py:517`); if nothing changes
  and the next start finds the database down, the older file lacks it.

## 5. Where a property covers a hazard, and where none does

The hazards of `PROJECT.json` name the properties. Without one are

- `services/paper_service.py:1403`, a resting order marked FILLED whose leg is then
  refused. Trace: two limit orders rest on two contracts with one place left
  under the position cap, or one order rests and a market order takes the
  margin; a tick fills the first and marks the other FILLED, the leg answers
  REJECTED, and `evaluate_pending_orders` does not look at the answer. No later
  step reads the order, so nothing else goes wrong.
- `services/paper_service.py:458`, in part: a crash between the three commits of a
  fill is a step of the model, and `RowsFollowBook` says what the rows hold when
  no save is under way. What such a crash loses nothing repairs, so a property
  of it could only restate the loss.
- `algo/algo_service.py:918`, the capital limit. The limit is compared with
  deployed plus reserved capital; a complete fill turns its reservation into
  CONSUMED, and nothing inserts the position row that would make it deployed.
  Trace: with a limit of one order, create and fill order one, then create
  order two: it is accepted. The limit of the model, and `ReservesAtomically`, is
  therefore the one the code keeps, over pending reservations.

Described but without a step in any model: the worker evaluates resting orders
of the anonymous shard only (`signals/worker.py:285`); the write pipeline drops the
tail of its queues at shutdown (`services/write_pipeline.py:108`); a snapshot without
data is cached as fresh (`services/market_service.py:128`).

## 6. Where the code differs from its documentation

| Run | Sentence | What happens |
|---|---|---|
| `tracker_flat` | "a terminal signal with an open position is structurally impossible" (`signals/outcome_tracker.py:541`) | The tick triggers a signal and waits in `execute_signal`; a desk request executes and confirms it; the tick's own execution is refused and it invalidates the confirmed signal (line 403). No loop settles INVALIDATED. |
| `tracker_short` | "An already-settled audit row short-circuits to a no-op (close-once)" (`signals/paper_engine.py:834`) | Two closes pass that check before either settles; the second exit order opens a short position (line 850). |
| `restore_settled` | "Validates that FSM signals, audit trade records, and reconciliations are preserved across container restarts and redeployments" (`src/backend/tests/test_signals_persistence_resilience.py:3`) | The restore maps the row status WON to TARGET_1_HIT (`signals/signals_persistence.py:1038-1039`): a trade that ended at its second target comes back as a live runner with its full quantity and its original stop. |
| `quotes_stranded` | "If in-flight failed, proceed to acquire lock and retry" (`services/market_data_coordinator.py:350`) | A leader that is cancelled removes its future without completing it (line 447); the followers wait for it until their own timeouts. |

Seen in the same code, without a run of their own.

Signals:

- `signals/fsm.py:611`: deleting a signal that has not triggered appends an entry
  to CLOSED and leaves the signal live; it may trigger later. The
  comment at 661 keeps the tombstone in memory; `delete_persisted_signal`, which
  the desk's deletion calls next, pops it (`signals/signals_persistence.py:790`).
- An order in flight that fills after its signal was deleted leaves a position
  with no signal.
- `signals/audit_ledger.py:160`: a late TRIGGERED event overwrites EXECUTED; only
  CONFIRMED is kept from doing so. `api/signals.py:667`: the audit record of a
  deleted signal comes back with the next sync.
- `signals/paper_engine.py:831`: T1 is moved and booked before its order; after a
  rejection a single lot counts as fully booked and is closed with its position
  open. `:537`: a rollback on the wrong domain followed by a second execution
  books the entry twice.

Restart:

- The reconciler's T1 leg is lost: `reconcile_entry` writes the entry's form over
  the stored one. An audit upsert writes the original stop and no T1.
- A row always wins over the local file, since a restored signal gets the
  restart's clock; upserts have no guard on their clock, so an earlier one that
  lands late overwrites a later one.
- `signals_persistence.py:351`: a filled signal of an earlier day is closed without
  closing its paper leg. A row RUNNER_TIME_STOP_HIT leaves its audit record
  unsettled. A start-up that finds no file saves nothing until the next event.
- PRE_ARMED is in neither list of the sanitising pass. Every restart gives a
  fresh time to live, version 1 and an empty trail.

Paper trading:

- `services/paper_service.py:759`: what a reversing order opens beyond the
  position is not covered by the margin check. `:1004`: squaring off a position
  larger than one order may be is refused, and the position returned as open.
- `:1222`: an order placed before the first read after a restart overwrites saved
  rows; the client ids are forgotten.
- `repositories/paper_repository.py:197-204`: the update of a position's row leaves its
  side (and instrument type) as they were inserted, so a position that was
  reversed comes back from a restart with its old direction.
- `:1403`, `:1411`: the leg of a resting order is saved before the order's own row;
  a process that dies between the two finds the order PENDING at the next start
  and fills it again. The rows of orders survive a reset as well, and its
  pending ones are listed again at the next start.
- `:458`: the portfolio row is written from a summary computed before the other
  two commits.
- `:1403`: the worker saves a leg without the lock ("Apply the position leg under
  lock", line 1397): a save that ends after a reset brings the row back, one
  that ends after a client's reversal writes the old object over the new.

Algo desk:

- LIVE orders are filled by the paper adapter. `cancel_order` writes CANCELLED to
  the row although the broker filled, and does not release capital (line 1050
  says it does). Reservations stay RESERVED after a crash, a partial fill or a
  cancel.
- An order is submitted although its row could not be saved. `reconcile` has no
  caller. UNWIND_ON_PARTIAL of a basket unwinds nothing.

Data side:

- Cancelling one follower cancels the shared future and with it the other
  followers (`market_data_coordinator.py:347`). A provider that hangs ends by
  cancellation, which the breaker does not count. `services/market_service.py:123`
  caches the empty answer of a fallback as FRESH.
- Each MarketService has a breaker of its own, so the one a request's fetches go
  through is not the one that `/circuit-breaker/trip` acts on; HALF_OPEN admits any number of calls
  (`core/circuit_breaker.py:15`).
- `services/write_pipeline.py:99` promises to flush the queues; `stop` writes one batch
  of each. The deduplicator drops a price that comes back within the second, so
  the stored close may differ from the candle's.
- A restart forgets a degraded circuit (`signals/safety/feed_circuit.py:3`); a
  repeat of the restored last number passes as healthy
  (`sequence_validator.py:202`), and the branch for late numbers is unreachable
  (`:134`). An anomaly trips the circuit twice, so that the escalation after five
  comes after three. The reset of the circuit resets only the validator of the
  default source (`signals/safety/feed_circuit.py:133-135`).
- `providers/fyers_ws.py:517,567-571`: any frame counts against the idle timeout. A
  socket that has lost the snapshot its updates are scaled by, or sends only
  control frames, stays up, and while it is up and the market open the poller
  steps aside (`providers/fyers.py:1034-1041`): no ticks come from either.
- `providers/fyers.py:966`: the sanity gate compares with the last accepted tick
  however old; a true move of more than two percent during an outage freezes
  the symbol. A symbol whose subscription alone is refused gets no ticks while
  the socket is healthy. `start_stream` with an expired token counts as running.

Parts that are not modelled:

- `services/app_stream.py`: a section deferred by coalescing stays pending when a newer
  one is sent directly, and is sent later as the newest.
- `ai/inflight.py`: a superseded request's `finally` removes its successor's
  registration.
- `research/settlement.py:441`: predictions that cannot be settled stay at the head of
  the oldest-first query; a hundred of them starve the rest.

## 7. What is not modelled, and why

Floating-point mathematics (pricing, greeks, scores, indicators, machine
learning, the strategies and risk gates built of them) is beyond both tools and
makes up most of the lines. The scanner is a long sequential computation that
keeps no state beyond caches; what it finds enters by `register`. The event
engine, the research loops and the institutional pipeline write evidence, never
orders, on schedules of one writer each. Fan-out loses by design, and the leader
election of `core/` has no caller. Network clients, the frontend, scripts, CRUD,
schema and text generation keep no state the trading core depends on. The notes
of `PROJECT.json` say for each component what is left out of the modelled ones.

## 8. Plan

Done: the state machine, the life of a trade, restart, the paper book, the algo
desk with its abstract ledger, and the data side. Left, in this order:

1. `ExecutionIntents`: the intent ledger, its file and its recovery, composed with
   SignalTracker, whose variable `intent` is its abstraction.
2. The three small parts with behaviour worth a model: settlement of predictions
   (starvation), the section stream (stale section), requests in flight of the
   copilot.
3. Refinement: SignalTracker implements SignalFSM, except where one step moves a
   signal twice.
4. Theorems: that the tracker's steps are steps of the state machine (the
   refinement of item 3), and a form of `BookIsNetOfLegs` that holds across a
   restart, with the rows as the starting point of the sum.
