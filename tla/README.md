# edge-oracle: TLA+ models, checks and proofs

edge-oracle is an advisor for Polymarket. A Python service (`quant`) ingests
markets, stores signals, streams arbitrages and keeps the books; a second one
(`executor`) turns an advised signal into a signed order that a human has
approved; a Next.js front end (`web`) shows and approves. This directory holds
TLA+ modules translated from that code, the TLC runs that check them on small
instances, and proofs that the TLA+ proof system (tlapm) checks for every value
of the constants. `PROJECT.json` is the index: components, runs, mutants, the map
from definitions to source lines, findings, hazards and theorems.

    tlc -workers 2 -config ExecutorManual.cfg MCExecutor     a run
    tlapm LedgerProofs.tla                                   a proof

## 1. The system

### 1.1 Components

`Exec`, `Quant` and `Web` stand for `src/executor/app`, `src/quant/app` and
`src/web/src`.

| Component (code) | State | Operations | Module |
| --- | --- | --- | --- |
| Workflow (Exec `orchestrator/pipeline, workflow, approve, run`, `api/main`) | none of its own; one database transaction per call | propose an intent, list the pending ones, approve and sign | `Executor`, `IntentLifecycle` |
| Consumer (Exec `orchestrator/consumer, consume`) | Redis subscription, set of signal ids seen | subscribe, handle a message, die and restart | `Executor` |
| Store (Exec `db/store, tables`) | nonce counter, intents, approvals, audit log | allocate a nonce, insert, append, derive the state of an intent from its newest audit row | `Executor` |
| Breakers, signer policy, approval tokens (Exec `breakers`, `signer`) | none (settings and caps) | decide | `Gates`, `Executor` |
| Relay (Exec `relay/client`) | none | dry-run record, refusal of live submission | `Executor` |
| CLOB orders (Exec `clob`) | none | amounts, sides; headers, POST | `Clob`, amounts and sides |
| Signer HTTP service, cryptography (Exec `signer/main, crypto, eip712`) | none | one route around `sign_intent`; hashes and signatures | - |
| Resolution and settlement (Quant `ingestion/resolution_engine, resolution`) | calibration journal, positions, paper trades | journal, settle positions, settle paper trades | `Ledger` |
| Paper trading (Quant `paper`) | paper trades | select, re-check on fresh books, insert | `Ledger` |
| Live stream engine (Quant `streaming`) | live books, dedup table, WebSocket | apply a frame, evaluate, publish, reconnect | `Stream`, `Arb` |
| Set-arbitrage mathematics (Quant `math/arb`) | none | walk a book, gate, choose a kind | `Arb` |
| Web signal stream (Web `api/stream/route`, `lib/stream`, `signals/page`) | conflator, table row, last seen signal | subscribe, conflate, flush, merge, toast | `Stream` |
| Market ingestion and scanner (Quant `ingestion/scanner, transform, store`) | tracked markets, snapshots, time of the last discovery | discover, rank, track and untrack, snapshot | `Ingestion`; its effect on `tracked` also in `Ledger` |
| Book and price scanners (Quant `signals/engine, price_engine`) | signals | read the universe, books or quotes; flag, store | `Advisor`; their effect on the books also in `Ledger` |
| Trades ingestion (Quant `ingestion/trades_engine`) | trade rows, in-memory cursor | fetch, skip, insert | `Ingestion` |
| Monitoring and alerts (Quant `monitoring`, `observability/alert*`) | last emission per kind | evaluate, suppress, publish | `Monitor`, composed with the scanners' store in `Advisor` |
| Advisor (Quant `advisor`, `api/signals`) | none; one request reads the store statement by statement | list, open, size, gate, rank | `Advisor` |
| Sizing, fees, profit, calibration (Quant `math`) | none | compute | correction and sizing in `Backtest`; longshot bands, live sizing, profit and the calibrated fraction in `Advisor`; drift in `Monitor` |
| Backtest (Quant `backtest`, `math/backtest`) | cash and open bets of a simulation | replay, resample | `Backtest`, without the resampling |
| Quant API (Quant `main`, `api`) | positions, configuration, rate-limiter windows | CRUD, refuse | `CreatePosition` in `Ledger`, `PutConfig` in `Advisor` |
| Polymarket clients (Quant `polymarket`) | none | request with retries, parse | - |
| Alert stream, approvals page, other pages (Web) | rendering | - | - |

### 1.2 How they interact

    exchange --WebSocket--> stream engine --Redis--> SSE route --> signals page
    Gamma/CLOB --> scanners --> PostgreSQL (markets, quotes, signals)
    PostgreSQL --> advisor API --> web (signals with live sizing)
    PostgreSQL --> monitor --Redis--> alerts
    PostgreSQL --> paper capture, resolution watcher --> PostgreSQL (the books)
    Redis (signals) --> consumer --> intents --> human (web or CLI) --> signer --> relay

Processes share nothing but PostgreSQL and Redis. PostgreSQL runs at READ
COMMITTED: what a transaction has read is not protected against others, unless
the statement locks (`FOR UPDATE`) or a key refuses. Redis pub/sub delivers to
those subscribed at the moment of publication, at most once.

### 1.3 What is hard, and what makes each part correct

* **Executor.** Several processes propose and approve concurrently; any of them may
  die between two statements. Correct means: nonces without holes or repetitions, no
  submission without the human approval the mode demands, none twice, a pending list
  that shows exactly what waits, no transaction that waits for ever.
* **Books.** Every pass reads, waits for the network for seconds, and writes on what
  it read; nothing prevents a second process (the one-shot CLI beside the loop).
  Correct means: a prediction is scored once, a key has one open paper trade, results
  agree with the resolutions, settled rows stay, and every decided row is settled in
  spite of cycles that fail.
* **Ingestion.** Two scanners may share the table (the one in the API beside the CLI),
  each blind to what the other has not committed and each waiting for the other's
  rows; the cursor of the trades poller moves before anything is stored, and it knows
  seconds only. Correct means: the universe becomes the right one whatever a cycle
  met, no run stores a print twice, and a print that is never stored has one of the
  reasons the design accepts.
* **Stream.** Frames are lost at every drop, one frame may fail half way, the
  publication may fail after it was noted, the page may be loading. Correct means: the
  copies catch up with the exchange, an edge is neither missed nor made up, the newest
  update wins on its way to the table.
* **Scanners and advisor.** A scan reads the universe, then one book or quote after
  another while they move; a request reads the configuration, the signals, the
  universe, the quotes and the journal in five statements; every token has rows of its
  own, and a signal is sized on the newest row of the token to be bought, which is
  rarely the one that raised it. Correct means: a signal shows something that was
  really there, no stake rests on less than was known of its token when the signal was
  raised nor exceeds what the user allowed, what pays is ranked first, what is listed
  can be opened.
* **Monitor and backtest.** The same condition is found every minute, a cycle may fail
  after any of its steps, and the deduper has noted an alert before it is out; the
  curve it judges comes from a replay that merges the bets of all markets in one order
  of time. Correct means: silence always has its reason and ends, and the replay
  neither makes money nor looks ahead.

`PROJECT.json` lists each hazard at its line, with the properties aimed at it or
the reason there is none.

## 2. The modules

### 2.1 Gates, Executor, IntentLifecycle

`Gates` holds the predicates: the circuit breakers (`breakers/checks.py`) and the
signer's policy (`signer/policy.py`), as functions of an intent and of limits.

`Executor` has one action per statement group of a transaction.

| Code | Module |
| --- | --- |
| a transaction's position and uncommitted writes | `pc[w]`, `tx[w]` |
| `exec_nonces` and its row lock | `nextNonce`, `nonceLock`; `AllocateNonce` waits for the lock and keeps it until `Commit` or failure |
| `exec_intents`, `exec_approvals`, `exec_audit` | `intents`, `approvals`, `trail`, changed at commit only |
| `execute_signal` | `BeginPropose` (from `Consume`, a message, or `RunCli`, the CLI), `AllocateNonce`, `FormIntent`, `Sign`, `Submit`, `Commit` |
| `approve_and_sign` | `BeginApprove`, `InsertApproval` (waits on the key of another approval), `Sign`, `Submit`, `Commit` |
| `run_consumer` | `inbox`, `seen`, `up`; a malformed, inert or repeated message is consumed without a transaction |
| crash, lost connection | `Crash` drops `tx[w]` and its locks; a consumer also loses queue and `seen` |

`IntentLifecycle` is what the executor promises in manual mode without
processes, locks or transactions: an intent gets the next nonce, the breakers'
verdict is final, and a pending one is decided at most once. `Lifecycle` in
`Executor` is the refinement mapping, read off the committed store.

Abstractions: money and time are naturals; one host clock; the contract
allowlist is configured and non-empty; the signing key is configured; an
approval token is its payload (the hash is injective). The rolling-window
counters are zero, as `deps.build_state` always builds them.

### 2.2 Ledger

| Code | Module |
| --- | --- |
| `calibration`, `positions`, `paper_trades` | `journal` (how often each row occurs: the table has no key), `bets`, `papers` |
| `run_resolution_cycle` | `BeginCycle`, then `Journal`, `SettleBets`, `SettlePapers`, each with what it read before (`due`, `openBets`, `openPapers`); `FailCycle` is an exception anywhere |
| `run_paper_capture_once` | `SelectTrades` (reads and selects into `picked`), `CaptureTrades` (fill-check verdicts, insert on conflict), `FailCapture` |
| the loop and the one-shot CLI of each | the elements of `Watchers` and `Capturers` |
| discovery, scanners, POST /positions, Polymarket | `Discover`, `Emit`, `CreatePosition`, `Resolve` |

The read of a pass is part of the step that writes the pass before it: the two
touch different tables, so whatever others do in between could as well have been
done before. A transaction that writes is one step. An answer of Gamma, `got`, is
any subset of the decided markets: it may be older than the write.

Abstractions: amounts are not computed; a result is a win or a loss of the stake,
or the edge of a set arbitrage as detected or as re-checked. `by` names the
process that wrote a row; no column has it, and no guard reads it. Resolutions
are final. `load_signals` is `Newest`, with the caps as constants: `JournalLimit` is
how many predictions the journal pass loads (500), `CaptureLimit` how many signals a
capture loads (200). `Followed` is a bound: the markets
discovery may track and that may resolve, the others having been dropped before and
crowding with their rows only. A bet is its market and side, given with it. A
discovery answer that lists a market which has closed since is not modelled, nor are
`resolved_at` and the other timestamps.

### 2.3 Arb and Stream

`Arb` is `math/arb.py` over natural numbers: a side of a book is its size at each
price, `Taken` is what `vwap_to_fill` takes of a level after the better ones, and
edges are those of `SetSize` sets, so that no average has to be divided out
(the comparisons of the code, with the gate and with the last edge, do not change
by a constant factor). The rounding of Decimal division is not modelled.

`Stream` is one market from the exchange to the table row; the code keys every
table by market, so markets do not interact.

| Code | Module |
| --- | --- |
| `BookStore.books`, `LiveBook` | `books`, a function of the legs seen so far; `Copies`, `Applied` |
| `connect_clob_ws` | `Connect` (a snapshot of each leg, in either order), `Drop` (what was not read is lost; `books` and `dedup` stay), the queue `frames` |
| `run_stream`, `_on_market` | `Ingest`, up to the await of the publication; `Publish` or `FailPublish` end it |
| a frame that raises | `bad`: of a snapshot the bids are replaced and the asks not, of a delta the readable beginning is applied; nothing is evaluated |
| `route.ts`, `Conflator` | `Listen`, `Receive`, `Flush`, `BreakStream`; `inbox`, `pending`, `wire` |
| `signals/page.tsx` | `HandleUpdate`, `Load`, `FailLoad`, `Reload`; `page`, `row`, `lastSeen`, `toasts` |

Four variables are there for the properties alone and no guard reads them:
`synced` (legs whose copy rests on good frames of this connection), `seen` (what
the exchange's books have yielded), `published` and `heard` (numbers of the last
update). The exchange is external: an uncrossed book per leg, changed by one of
`Deltas` at a time, announced while connected.

### 2.4 Ingestion

| Code | Module |
| --- | --- |
| `markets` and its `tracked` column | `markets`, a function of the markets ever found; `Tracked` |
| `run_poller`, `last_discovery_at` | `age`, scans since the last discovery whose cycle ended well; `BeginScan`, `Discover` |
| `discover_universe`, `rank_and_select` | `Discover` (any part of Gamma's page that could be read), `Selected` |
| `upsert_markets`, `set_untracked`, the commit | `UpsertMarkets`, `SetUntracked` (its rows are chosen when it starts), `CommitUniverse`; `LockRow` between them, a row at a time |
| an exception of a cycle | `FailScan`: `LoseScan`, or `AbortDeadlocked` when two transactions wait for each other |
| `run_trades_scan_once` | `BeginPoll`, `Fetch` for each market (answers in any order), `Sift` (drops what is not later than the cursor, moves the cursor), `InsertTrades` or `LoseTrades` |
| the Data API | `tape`, prints in the order of appearance, which is not that of their times; `Answers`, the latest `Limit` of a market |

`deployed` says which processes run in a behaviour. Three variables are history
that no guard reads: `kept` (the universe a scanner last committed), `inserted`
(what the present run of a poller has stored) and `refused` (prints of inserts
that failed).

Abstractions: quotes are fetched and stored without effect on anything here;
there is no allowlist; liquidity is a rank, no two alike, and does not change;
time is counted in scans, so a discovery is due after `DiscoveryEvery` of them;
statements lock rows in a common order of the table, which is one of the orders
the code's dictionaries can produce and leaves the deadlocks between two
statements of different transactions. Prints that
are alike but for their id appear in the order of their ids.

### 2.5 Backtest, Monitor and Advisor

`Backtest` has no state: it is the replay as functions of the quotes, of the
universe and of how the markets came out.

| Code | Module |
| --- | --- |
| `build_candidates` | `Candidates`, by market the `First` tick that is extreme and the first that shows an arbitrage |
| `evaluate_extreme_correction`, `position_size`, `_entry_stake`, `realized_pnl` | `FairValue`, `PositionSize`, `EntryStake`, `RealizedPnl` |
| `simulate` | `Simulate`: the state after each of the `Events`, which `Before` puts in order; `Final` |
| `max_drawdown` against a threshold | `DrawdownReaches` |
| `run_monitor_once`, `run_monitor` | `Replay` (the backtest is fetched and judged), `Judge` (the journal, then the deduper), `Publish` per alert, `FailCycle`, `Tick` |
| `AlertDeduper._last_emitted` | `last`, the age of the last emission |
| `quotes`, `markets.tracked`, `calibration` | `quotes`, `tracked`, `journal`, filled by `StoreQuote`, `Relist`, `JournalRecord` |
| the resolutions file | `outcome` and `ResolveTime`, read once |

`equity` is the curve the replay would have now, kept beside the tables; `aired`,
`lost` and `quiet` are history that no guard reads: when an alert of each kind was
last published, last lost, and whether its condition has cleared since.

Abstractions: prices are per cent and money is whole units, and what a division leaves
is dropped, where the code rounds at 28 digits (so a stake here may be a unit less,
and is never more); ages stop at the cooldown, and a kind that was never emitted, or
is re-armed, has that age; the arbitrage that a tick shows is given with it (`Arb` is
where one is computed); one scanner stores ticks, in the order of their times; both
reads of a replay are of one moment; the tracked markets come in a fixed order. A tick
is what one scan stores of a market (`snapshot_market`): a row per token with a
midpoint and a half spread, a row without a midpoint ("unpriced", a one-sided book) or
no row at all ("missing", its book could not be fetched: the other token's is stored
all the same). The midpoints of the two tokens are given separately. `Ticks` are those
that `build_candidates` makes a tick of, with both rows; `Correctable` is one whose
YES row shows an extreme price and whose favoured token has a price. Monte-Carlo
resampling and the performance report are left out, and so is the `once` mode, which
has no deduper.

`Advisor` extends `Monitor`: the scanners and the API live on the same store
(`quotes`, `tracked`, `journal`), so a change of the store is the monitor's own
action. `deployed` says who runs beside the store in a behaviour: the monitor,
the price scanner with the API, or the book scanner. They share
nothing else, and a behaviour with all of them at once costs a product of states
and shows nothing more.

| Code | Module |
| --- | --- |
| `run_price_signals_once`, its loop | `BeginScan`, `LoadMarkets`, `LoadLatest`, `InsertSignals`; `Corrections`, `Longshots` |
| `run_signals_once`, its loop | `BeginScan`, `LoadMarkets`, `FetchLeg` for each book (a failed one is `NoBook`), `InsertSignals`; `Arbs` |
| an exception of a cycle | `FailScan` |
| `list_signals`, `get_signal` | `Ask`, then `ReadConfig`, `ReadList` or `ReadMatch`, `ReadMarkets`, `ReadQuotes`, `ReadCalibration`, in the order of `NextRead`; `FailRequest` |
| `put_config` | `PutConfig` |
| `advise`, `_directional_economics`, `suggest_kelly_fraction` | `Enriched`, `Bet`, `AdvisedStake`, `DirectionalEv`, `EffectiveFrac` |
| `load_latest_quotes` | `NewestRows`, of either token: after a scan that could not have one of the books they are of different ticks; `QuotesFor` is the row of the token a signal bets on (`BetSide`) |
| `rank_signals`, `safe_only` | `Precedes`, `SafetyTier`, `SafeOnly` |

`offered` is history: every quote, or price of a book, that was there at some
moment since the cycle began. A signal's time is the number of its cycle (the
loops sleep between cycles, so that no two of one scanner share a millisecond);
the arbitrages that the other scanner stores meanwhile take the number of the
last one. A signal carries what it was made of instead of the fields computed
from it. The set arbitrage is the long one at the best prices: its depth and the
short one are in `Arb`. Money and per cent are whole as in `Backtest`.

### 2.6 Clob

`Clob` has no state: the amounts of an order in base units (`clob/amounts.py`)
and its side, over fractions of any size, with `quantize`'s rounding. Nothing in
the pipeline calls this code yet, and no run does: what there is to say holds
for all fractions, and is proved.

## 3. The runs

All finish within four minutes on two cores; the five that expect a violation
stop within seconds.

| Run | Question | Instance | Distinct states |
| --- | --- | --- | --- |
| `executor_manual` | Are nonces, approvals, trails and the pending list right in the default mode, and is it the life cycle? | 1 consumer, 2 handlers, 2 intents, 3 offers, clock 0..1 | 58 000 |
| `executor_live` | Does everything end, and is only the approved signed, when submission always fails? | the same, 3 signals, automatic below the threshold, no dry run, 2 offers | 15 500 |
| `executor_terminal` | Are terminal states terminal? (no) | 2 offers, hot cap below trade cap | |
| `executor_deadline` | Is nothing signed past its expiry? (no) | clock 0..2 | |
| `ledger_overlap` | What survives when processes overlap? | 2 watchers, 2 capturers, 1 market, a prediction that flips, 2 bets; either cap 2 | 337 000 |
| `ledger_live` | Does all settle, at re-checked edges? | 1 watcher, 1 capturer, a prediction, a newer one of another market, an arbitrage that fires twice, 1 bet; either cap 1 | 47 000 |
| `ledger_journal` | Is re-running the journal idempotent? (not overlapping) | 2 watchers | |
| `ledger_paper` | Is there one open trade per key? (not overlapping) | 2 capturers | |
| `ingestion` | Does the universe converge, and what does the cursor pass over? | 2 scanners, or 1 scanner and 1 poller; 2 markets, top 1, 3 prints, answers of 2, 1 relisting, 2 faults | 126 000 |
| `advisor` | Are replays solvent and without foresight, alerts neither repeated nor swallowed, signals earned, stakes modest, rankings right? | monitor, price scanner with API, or book scanner; 2 markets of one theme, 4 ticks, 2 journal rows, both ways of the outcome, cooldown 3, 1 relisting, 1 fault; 2 scans, 3 changes beside them, listings of 2 | 601 000 |
| `stream_faults` | Does the stream recover from every fault, and in order? | 3 prices, 2 moves, 2 faults of any kind | 224 000 |
| `stream_replay` | Is every live edge one of the exchange's? (no) | 2 moves, 1 fault | |

Why the bounds are enough:

* *Executor.* Two proposals contend for the nonce row and two approvals for a key; a
  third party could only queue behind them. Three offers give a repeated message and a
  request beside it. The stakes sit below, at and above the threshold and the caps.
  Crashes are not bounded. Symmetry over handlers and intent ids is used in runs
  without liveness only.
* *Ledger.* Every defect of a read-then-write pass takes two processes; markets meet
  only in that they share a batch. Failures, partial answers and discovery are not
  bounded. Two signals of one key are what a freed key or a flipped side needs, a
  third strategy in between what "newest" needs. With caps of 1 the newer prediction
  of the other market pushes the older one out of the journal's window, and the
  arbitrages push both out of a capture's.
* *Ingestion.* Two markets for one place make every discovery untrack one; the
  relisting puts two scanners at odds about which. A third scanner could only wait
  behind a row. The poller does not touch `markets`, so a second scanner beside it
  adds nothing to what it sees. Three prints, two of them of one second and token and
  the third a later one of the other token, and answers of two, give each of the
  reasons for which a print may be missing; without any one of them TLC finds
  `CursorCovers` violated. Two faults are a lost insert and a restart, or a lost
  commit and an unreadable page.
* *Stream.* `MaxMoves` = 2 is a move before and one during an outage, or an edge that
  rises twice. `MaxFaults` = 2 pairs every two faults: a drop and a refused
  publication, an unreadable frame and a restart, a reload and a broken stream. Three
  prices give long edges of 1, 2 and 3 and a short edge of 1, below and above `High`;
  the requoting deltas leave a crossed copy when read half way.
* *Advisor.* Where the monitor runs, two markets of one theme compete for cash and for
  the theme's share; the ticks give a bet on YES whose NO book has one side only, a
  bet on NO, another of which the NO book could not be had, so that an older row of
  that token, or none, is what there is to size it on, and a bet on YES with an
  arbitrage, both at the very time another market resolves. The last of them leaves
  the NO token a newest row without a price, which degrades the bets on NO before it.
  Stakes are half the cash at most, so a lost bet is a breach and a won one is not. A
  cooldown of 3 leaves room for cycles within it, at its end and past it; one fault is
  a cycle that fails at any step, or a restart. Where a scanner runs, two scans give a
  signal of either side of a change; three changes are a quote, a relisting or a
  journal row and a saved configuration or stored arbitrages in any order, between any
  two statements of a scan or a request. The scanners have the three ticks of `b`,
  which are extreme on one side and then on the other. Both prices in `Asks` together
  make a set that pays (40 + 40, 40 + 55) or one that does not (55 + 55). `TwoSets`
  are two arbitrages of one market in one millisecond, which share their id. Listing
  and opening look two rows back, so that a row can be pushed out of either. The
  default configuration is the replay's own, so that `AgreesWithReplay` meets its
  precondition, and the saved one has another fraction and cap.

`CHECK_DEADLOCK FALSE` is set for `Stream` alone: with its bounds used up and
everything delivered, it stops.

### 3.1 What the passing runs show

Executor: `NoncesDense`; `OnlyApprovedIsSigned`, with the
automatic mode and a relay that fails (for all settings it is proved): who needs a
human has one, and nothing of a transaction that failed after its signature stays
behind; `PendingExact`, the list a human sees is exactly what passed the breakers
and was not approved; `NothingTwice`, no intent is formed twice of a signal within
one run of the consumer and none submitted twice;
`StoreOnlyGrows`; `ImplementsLifecycle`, the refinement;
`EveryTransactionEnds` and `EveryMessageHandled`.

Ledger: `JournaledOncePerWatcher` and `OneOpenTradePerCapturer`, what each
process keeps by itself however others interfere; `RecordsAgree`;
`SettledIsFinal`, an UPDATE by id on a stale read never changes a settled row;
`EverythingSettles`, and at the edge of the re-check where there was one;
`PredictionsJournaled`, with the two exceptions the code has: a market that
discovery drops first is not journaled, nor one whose predictions have been pushed
out of the newest `JournalLimit` (`PushedOut`).

Ingestion: `TrackedIsKept`, nothing stays tracked that every scanner has since
left out, although each untracks blind to the other; `NeverTwiceInARun`;
`CursorCovers`, the exact list of reasons for which the poller may lose a print:
it appeared after one of its token that is no older, its market's answer was full,
or its insert failed; `UniverseConverges` and `PrintsArrive`, the same two as
promises. The first reason is not what the text expects: PROGRESS.md:857 says (in
Russian) that a print of the cursor's own second may be duplicated;
`trades_engine.py:98` skips it, so it is lost.

Stream: `CopiesCatchUp`, applying what is in flight to a recovered copy gives the
exchange's book; `EdgesAreExact`, no edge is made up and none missed once both legs
have recovered; `OneKindAtMost`, what `evaluate_market`
takes for granted when it tries long first; `NewestIsShown`, the last update gets
to the table whatever is conflated on the way; `ToastsFollowTable`, toasts and table
agree on what is rising, although they keep separate memories and the load resets
one of them.

Advisor, of the replay: `ReplayIsSolvent`, after every event cash and open stakes
add up to the bankroll and what was won, and a theme's exposure is what is open in
it; `ReplayIsCausal`, no bet depends on an outcome that comes later nor on a quote
stored later, so the curve that alerts are judged on is not rewritten. Of the
monitor: `AtMostOncePerCooldown`; `SilenceIsExplained`, a condition found and not
announced was published within the cooldown, in this breach, or was lost;
`DeployedMonitorAnnounces`, a condition that stays is announced over and over,
whatever was lost before. Of the scanners: `SignalsAreEarned`, what a cycle stores
was there to be read while it ran (not that the two books of a set were there at
once: they may not have been). Of the API: `SizedAsOfRaising`, which rests
on the order of its statements: whatever had been stored of the token to be bought
when the signal was raised, its stake is not sized on anything older. A bet on YES is
therefore never sized on an older tick than the one that raised it. A bet on NO may
be: it is raised on the YES row and sized on the NO row, and that scan may have had no
NO book; `StakesAreModest`; `PayingFirst`, in both
rankings, and `safe_only` keeps exactly what pays; `ListedCanBeOpened`, with the
exception that the window of 500 rows makes, here 2; `AgreesWithReplay`.

`advisor/view.py:5-8` has it that the live sizing cannot diverge from the backtest
since both use the same functions. `AgreesWithReplay` delimits what that buys: the
two agree at the tick that raised the signal, under the replay's configuration,
before the journal has shrunk the fraction. The API sizes on the newest row of the
token and keeps the fair value of the one that raised the signal, so that later, or
where the NO row is an older one, the two may well differ; and the replay makes no bet
at all of a tick that lacks one of the two rows, where the scanner raises a signal on
the YES row alone. The text claims the functions and not the inputs, and there is no
finding.

Every property of a passing run has a mutant: an operator beside the definition
it replaces (a dropped check, a stale read, a merged snapshot, ...) under which
TLC finds the property violated.

### 3.2 Where code and text disagree

* `executor_terminal`. `approve_and_sign` checks no state of the intent, so a
  breaker-rejected one can be approved by id and its trail goes on after what
  `pipeline.py` calls terminal. (With the caps in the order one expects, the
  signer refuses it; the run has the hot cap below.)
* `executor_deadline`. The handler reads the clock before its transaction waits;
  a signature may come after the expiry the intent's documentation calls hard.
* `ledger_journal`. "Re-running never double-counts" holds of runs one after
  another; two that overlap both append.
* `ledger_paper`. "At most one open paper trade" likewise: the insert conflicts on
  the row id, not on the key.
* `stream_replay`. "live == replay": after a reconnect the first new snapshot is
  evaluated against the other leg's copy from before the drop. The edge that comes
  out was never on the exchange. `EdgesAreExact` delimits it: it ends with the
  second snapshot.

Two things the model makes visible and no text contradicts: the dedup compares
net edges, so a long set turning into a short set of equal edge is not published;
and an edge that goes away and returns equal is not published again, so a page
loaded in between lacks the row until the edge moves.

Some remarks in the text are looser than the code, and have no run.
`resolution_engine.py:3-5` says that each tracked market that has resolved is matched
to the latest directional signal recorded for it; line 62 loads the 500 newest
predictions of all markets. Signals are only ever added, a scan of up to 50 markets
runs every 15 s and the watcher every 300 s, so in a busy universe a market's last
prediction may be out of that window before its resolution is seen, and it is then
never journaled: calibration lacks markets that fell silent before they resolved.
`PredictionsJournaled` has the case as an exception. `alert_dedup.py:37`
says that the memory advances "only on an actual emit"; it advances before the
publication, which is why `SilenceIsExplained` has to excuse what was lost.
`trades_engine.py:98-99` skips what is not later than the cursor as "already ingested
in a prior cycle"; the cursor moves before the insert, so after an insert that failed
the prints of that cycle are skipped and nobody has ingested them. `CursorCovers` has
them as one of its reasons. `models/advisor.py:72-74` and `:89` have the `net_edge`
(the sort key) and the `edge` of a longshot signal be its `edge_score`;
`advisor/view.py:184-199` sets both to zero and says why, so that a bias never ranks
above money. `PayingFirst` holds of the code: with the score for a key, a longshot
that pays nothing would come before a set that pays.
`math/backtest.py:142` says that an entry sees capital freed by resolutions
strictly before it; resolutions of the same time come first and free theirs too,
as the sentence before it says.

## 4. Fairness

* *Executor* (`FairSpec`): weak fairness of a transaction's own statements (an
  event loop runs its coroutines), strong fairness of the two that wait for a
  lock, since PostgreSQL grants a lock in the order of its queue. None of
  publishing, approving, crashing or restarting.
* *Ledger*: the loop begins again (weak; `while True` around try/except), and a
  pass that can be answered in full again and again is so answered at last
  (strong): outages end. None of the one-shot watchers, of capture, discovery,
  signals or resolution.
* *Ingestion* (`FairSpec`): the loops go on (weak, of each scanner's and poller's
  own steps: `while True` around try/except), row locks are granted in turn
  (strong), and PostgreSQL breaks a circle (weak, of `AbortDeadlocked`). None of
  the exchange; faults are bounded, so what must happen must happen after the
  last.
* *Advisor* (`AdvisorFairSpec`): where it is deployed, the monitor's loop goes on
  (weak, of `Replay`, `Judge` and `Publish` together: `while` around try/except
  and a sleep), and time passes. None of the store, the scanners and the requests;
  faults are bounded.
* *Stream*: weak fairness of `Receive`, `Flush` and `HandleUpdate`, the Redis
  callback, the 100 ms interval and the browser's event handler. None of the
  exchange, the engine, loading or reconnecting.

## 5. The proofs

`ExecutorProofs`, `LedgerProofs`, `StreamProofs`, `IngestionProofs`, `MonitorProofs`
and `AdvisorProofs` extend the modules they are about, `Clob` has its own theorems,
and `FoldLemmas` has what they need about folds; every obligation is discharged by
SMT, Zenon or LS4. Every invariant and every action property of the runs is a theorem;
what is left to TLC is at the end of this section.

**FoldLemmas** (no assumption). The folds of the community modules are defined through
recursive functions over sets, and the library's induction theorems take a predicate
as a parameter, which the provers cannot instantiate. So there is no induction here: a
set of counterexamples that is not empty has a least element (`LeastNat`,
`LeastFinite`, `LeastSubset`, from the well-foundedness of `<`), and each lemma
refutes the least one. `FoldExists` and `FoldLeftExists` give the function that a
fold's `CHOOSE` picks; `SumOf` is a sum over a finite set, with `SumPick` (take any
element out), `SumEqual`, `SumLeq`, `SumPlus`, `SumTimes`, and `FieldSum` for the sums
over a record's field that the modules write; `FoldStays` and `SameSteps` are about
folds along a sequence: what each step preserves, and two folds that agree.

**Executor** (assumption `ExecutorAssumption` only). `NonceInv` is inductive:
`TypeOK`, `KindInv` (a statement belongs to its kind of transaction), `LockInv` (the
transaction between allocation and commit, and no other, holds the nonce row and has
the committed counter's value), `IdInv` (proposals own distinct fresh ids),
`NoncesDense`. `NoncesDense` alone is not: the step that commits needs to know that
the nonce is the counter and that nobody moved it, which is `LockInv`.
`OneIntentPerRun` adds `DedupInv`: the signals of what a consumer has committed are in
its `seen`, and the one it is at work on is not. `StoreGrows` is the action property
`StoreOnlyGrows`, from the same invariant: a commit leaves the rows it finds and
prolongs trails. Theorems: `TypeCorrect`, `NoncesAreDense`, `OneIntentPerRun`,
`StoreGrows`.

`HumanInv` is for every mode: what a transaction has appended so far
(`WroteInAnyMode`, statement by statement: a proposal that reached its submission is
one the signer signed without a token) and what a committed trail has before a
submission (`HumanTrails`). What one transaction commits is one of six lists
(`WritesAreWhole`), each with the signer's answer after an approval and the submission
after a signature, and joining such lists keeps that (`AppendWhole`): a transaction
that failed in between has left nothing, and the approval rows are those the trails
tell of. Both gates that make a trade wait for a human look at the
settings and at the intent's amount, neither of which changes, so the two never
disagree about an intent. `SignedOnlyIfApproved` follows in every mode; it asks for a
human where one is needed (`NeedsHuman`: always in manual mode, above the signer's
threshold otherwise), and a trade below the threshold in automatic mode is signed
without one, as the code means it.

`ManualInv` is for the settings under which every trade needs approval: `KeyInv` (an
approval past its insert owns the key alone), `EventsInv` (what a transaction has
appended so far) and `TrailInv` (the three forms a committed trail can have). A trail
of a known form has "submitted" in its fifth place only, from which
`SubmittedAtMostOnce` and `PendingIsExact` follow, and with `OneIntentPerRun`,
`NoBetTwice`.

`LifecycleIsImplemented` is the refinement of `IntentLifecycle`, step by step: no
statement but `Commit` changes the store (`OnlyCommitStores`), and a commit is
`Propose`, `Approve`, or nothing that the mapping sees (`ProposalRefines`,
`ApprovalRefines`). It is proved under `TradeCapDecides`: every trade needs approval,
and `perTradeCap` is at most `hotCap` and at most `rateNotional`, with `rateCount` at
least one, as the defaults of `executor/app/config.py` have it. Otherwise a trade that
a breaker rejected may be approved, signed and submitted (`executor_terminal` shows
it), a life that the abstract module does not have.

**Ledger** (assumption `LedgerAssumption` only). `IInv` is `TypeOK` with `JournalInv`
(a journal row's outcome is the resolution; what a watcher holds in `due` it has not
journaled, one prediction per market), `BetsInv`, `PapersInv` (each row in one of its
legal shapes; what a watcher holds as open is open or settled, never unborn),
`CaptureInv` (what a capturer holds in `picked` has no open trade of its own under
that key). The properties say nothing of what a process holds between read and write,
so none is inductive alone. Theorems: `LedgerTypeCorrect`, `EachWatcherJournalsOnce`,
`EachCapturerOpensOne`, `RecordsAlwaysAgree`, `RecheckedEdgesOnly`,
`SettledRowsAreFinal`; and `OneWatcherNeverDoubleCounts`, `OneCapturerOpensOne`, which
prove the two documented statements that overlapping processes break, when there is
one process of the kind: the findings are about overlap and nothing else.

**Ingestion** (assumption `IngestionAssumption` only). `IngestionTypeCorrect`.
`NothingTrackedUnkept` rests on `SomeoneKeeps`: every tracked market is kept by a
scanner that is not about to commit without having seen it; that *some* scanner keeps
it is not inductive, since the only one could drop it unseen. `StoredOncePerRun` rests
on `RunInv`: what a run has stored is behind its cursor, what it is about to store is
new to it. `CursorAccountsForAll` rests on `FetchInv` (while answers come in, a print
before one in the batch is in it too or has its reason: an answer that leaves it out
holds `Limit` others), `CursorAttained` (a cursor is the time of a print that has
appeared, so a new print behind it is late) and `RunInv`.

**Monitor** (assumptions `MonitorAssumption` and `BacktestAssumption`). `IInv` is
`LoopTypes` with `Noted` (what the deduper remembers of a kind is about to be
published, was published in this breach, or was lost, no later than it remembers) and
`Remembered` (what was published in this breach it still remembers). The two
properties compare the history at one moment, the verdict, and hold there because the
deduper's memory has agreed with it ever since. Theorems: `NoAlertRepeated`,
`NoSilentBreach`.

`WorldInv` says what is stored (ticks that may be stored, finitely many; a finite
journal), and everything about replays follows from it, for `Replayed` is a function
of the store. That function is proved about in four steps:

1. The candidates are `Playable`: at most one of a kind and market, entered before it
   resolves, and a share costs something (`CandidatesArePlayable`).
2. `Before` is a total order of their entries and resolutions, because a list ranks
   each market once; so each event has its own `Rank`, the ranks are `1..2n`, and the
   sequence that `Events` chooses exists (`EventsAreScheduled`).
3. `Simulate` is the one function whose value at `n` is one event's effect on its
   value at `n - 1` (`SimulateIs`).
4. `Kept` holds after every event: cash is not negative, cash and what is locked are
   the bankroll and the profit so far, a theme is exposed to what is open in it, and
   what is open has been entered and not resolved (`EntryKeeps`, `ResolutionKeeps`,
   with `EntryWithinMeans` for the arithmetic of one entry). After the last event
   nothing is open, and that is `ReplaysAreSolvent`.

Causality compares two replays, of stores that agree about what is before a time and
outcomes that do. The events before it are the first `K` of either schedule
(`CutoffExists`), the same ones in the same order (`NoShorter`, `SameHistory`), so
both simulations pass through the same states; later events remove nothing that was
taken. Theorems: `SameHistory`, `ReplaysAreCausal`, and `MonitorTypes`, whose `equity`
is such a simulation's curve.

What they assume is the code's: `load_tracked_markets` lists a market once (`Order`);
the replay keeps ticks in a dictionary by token and time, and a scan stamps what it
stores with its own time, so two ticks of a market never share one; resolution files
hold 0 or 1; and half a spread with slippage and gas is above zero, as with the
defaults of `quant/app/config.py`, for `realized_pnl` divides by what a share costs.

**Advisor** (assumptions `AdvisorAssumption`, `MonitorAssumption`,
`BacktestAssumption`). `MonitorUndisturbed` is a refinement: whatever scanners and
requests do, the monitor's variables behave as the module `Monitor` says, from which
`AlertsAmongOthers` has the monitor's two safety properties without another induction.
`ScansStoreWhatTheyRead` rests on `ScanInv`: what a cycle holds, its quotes or the
prices of its legs, has been offered since it began (`Witnessed`), and an idle scanner
holds nothing (`Rests`); the property speaks of the step that stores and is not
inductive. `RequestInv` follows a request through its statements. `Raised`: what
raised a signal is in `quotes`, which only grows, and by later ticks only
(`OnlyLater`); so what a token had when a signal was raised stays what it had then
(`AsOfStays`). `Fresh` says that the rows read after the signals are, of either token,
at least that (`AsOf`); this is where a swapped order of the statements breaks.
`Openable`: the row sought is found, or `DetailLimit` rows of its strategy are not
older, which later inserts do not undo, because cycles are stamped in order
(`Stamped`). Theorems: `SizedAsOfItsRaising`, `ListedIsFound`; and `AdviceIsModest`,
the arithmetic of `AdvisedStake` for every bet and every configuration.

`TypedInv` types what a request holds: rows as the scanners wrote them (`Written`: the
asks of an arbitrage leave an edge), the configuration it read, the fraction that
calibration leaves of it (`FracOnlyShrinks`). With it, every entry of a page is made
from a row of it by `advise` (`AnswerIs`, `RowIs`), and the three properties of the
page become arithmetic: a stake is at most the cap's share of the bankroll
(`StakesStayModest`); a long set pays whatever happens, so that ranking by safety puts
nothing before it that may not (`PayingComesFirst`); and where configuration and
fraction are those of the replay, the stake is the replay's, though one divides by a
percentage and the other by a whole divisor (`SizedLikeReplay`, by `SizedAlike`: a
common factor cancels, `DivisionCancels`). `AdvisorTypes` is `AdvisorTypeOK`.

Looking for this proof showed a flaw in an earlier form of the model: `Enriched` was a
`CASE` with two guards that could both be true, whose value TLA+ leaves open although
TLC takes the first. A set arbitrage or a longshot without a quote is now, as in
`advise`, its strategy's case, and only a correction looks for its quote.

**Stream** (assumptions `StreamAssumption` and `ArbAssumption`). `PipeInv` is about
the way from the route to the table: updates on the wire, the pending one and those in
the inbox are numbered in order (`InOrder`), ahead of the row (`AllAhead`) and end
with the newest heard (`NewestLast`); what the page remembers of a loaded row is the
row (`TableRemembered`). Theorems: `ToastsAreShown`, and `NewestIsKept`, that
conflation, reloads and restarts drop intermediate updates only.

`StreamInv` is about the engine's copies, and is `TypeOK` with `HasHistory` and
`EngineKeepsUp`. `HasHistory` is the strengthening: there are books `h[k]` for each
frame still unread, such that the exchange's are the last, frame `k` tells what leads
from `h[k - 1]` to `h[k]`, every one of them the exchange has had, and the copies that
rest on good frames are those of `h[0]`. Reading a frame takes the first of the
history away, a move of the exchange adds one at its end. From it follow
`PublishedEdgesAreExact` (what is decided to be published the exchange's books have
had, and with nothing unread it is what they have) and `CopiesDoCatchUp` (a copy that
rests, or will rest, on good frames becomes the exchange's book when those in flight
are applied to it). `TypeCorrect` is `TypeOK`, for which books are folds of changes
and edges are sums over them (`TakenIs`, `CostIs`, `PaidIs`).

`KindsExcludeEachOther` is the one with a hypothesis, `MinNet + Costs >= 0`: the gate
together with the costs is no loss, as the defaults of `quant/app/config.py` have it.
A walk takes exactly a set (`SetIsFilled`), and in an uncrossed book there is a price
with all bids at or below it and all asks at or above, so a token costs no less than
it can be sold for (`SaleIsCovered`): a gain on both kinds would be a gain on buying
and selling the same set.

The arithmetic of `Arb` is proved against a reference that does not walk: `Fills` are
all the ways of taking a set from the levels of a side, `Worth` is what one costs or
earns. Walking from the best level is the cheapest of them to buy (`WalkIsCheapest`)
and the dearest to sell (`WalkIsDearest`): at a pivot, the last level it takes from,
the walk has taken all there is before and nothing after, so any other fill moves
quantity the wrong way past that price (`LowerIsLess`). `EdgesAreBest` follows: an
edge is flagged exactly if some pair of fills clears costs and gate, and its net is
the best of all pairs.

**Clob** (no assumption). `AmountsWithinHalfUnit`: either amount of an order is at
most half a base unit off, so a BUY pays at most that beyond its limit.
`OnlyDustIsFree`: an amount is zero exactly when it stands for less than half a unit,
though its size is above zero.

Model-checked only:

* the liveness properties (`EveryTransactionEnds`, `EveryMessageHandled`,
  `EverythingSettles`, `PredictionsJournaled`, `NewestIsShown`, `UniverseConverges`,
  `PrintsArrive`, `DeployedMonitorAnnounces`): tlapm proves nothing under fairness,
  nor with ENABLED;
* that a violation run's statement is violated: a counterexample is its own proof;
* `ImplementsLifecycle` under settings outside `TradeCapDecides`, where it need not
  hold.

No module here has RECURSIVE operators.

## 6. Not modelled

* Cryptography and hashing, wire formats, logging, metrics, configuration parsing, the
  demo publishers and seeder, and rendering have no protocol state; EIP-712, ECDSA and
  HMAC are arithmetic on long words. `build_order` copies fields.
* Decimal logarithms, square roots and random draws (log-loss, Sharpe-like ratios,
  Monte-Carlo) are out of TLC's reach; the performance report averages rows.
* The allowlist functions and the breaker counter table of the executor's store are
  called by nothing in it.
* `request_with_retry` keeps nothing between calls. Its two ends, an answer or an
  exception, are what the models of its callers take.
* The rate limiter and the API key guard the routes and touch no table: a refused
  request is one that was not made. The bankroll of a query overrides one field of the
  configuration, and `min_net_edge` filters an answer.
* The universe that the stream loads once, when it starts, and the delay of
  `connect_clob_ws` between connections: `Stream` is one market that is in it.
* The alert channel to the browser forwards what it gets to toasts that nothing reads;
  the overview page merges updates in its own way, and is mentioned beside a hazard
  only. The approvals page calls the modelled control API.
* Four hazards have no property, for the reasons given beside them or here: the prints
  of a failed insert are lost, since the cursor has passed them; a key that a
  settlement frees takes the next suppressed signal, a prediction may be stored after
  its market was resolved and is then the newest one journaled, and the backtest
  replays tracked markets only, so that a market that leaves the universe takes its
  bets with it. All four are what the code means to do or does; a
  property could only restate them.

## 7. Plan

The plan was: the money (`Gates`, `Executor`, `IntentLifecycle`), the books that
the advisor learns from (`Ledger`), what the operator sees (`Arb`, `Stream`), what
all of them start from (`Ingestion`), what the operator is warned by (`Backtest`,
`Monitor`), and what is advised (`Advisor`, `Clob`), each with its proofs.

What would add most from here:

1. The short set in the book scanner.
2. The stream's universe, loaded once, beside a scanner that changes it; the
   reconnection policy of `connect_clob_ws`.
3. An abstract `Row` (a cell that jumps to newer values) which the conflated path of
   `Stream` implements; `NewestIsKept` is its core.
