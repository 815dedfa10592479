# AtlasQuant in TLA+

AtlasQuant is a trading platform: a Node.js backend over PostgreSQL, a React frontend, a Python
model service. It places real orders on exchanges, keeps a simulated ("paper") account, runs an
auto-trader on the paper account, and tells its users what happens: alerts, scans of the market, a live
dashboard, the outcome of each signal, backtests. This directory models the parts that decide what
happens to an order and what a user is told, checks them with TLC and proves the main guarantees with
TLAPS.

Paths below are relative to the repository; `backend/src` is meant where none is given.

1. [Inventory](#1-inventory)
2. [Modules](#2-modules)
3. [What the runs check](#3-what-the-runs-check)
4. [Fairness](#4-fairness)
5. [What is proved](#5-what-is-proved)
6. [Where the code and its documents disagree](#6-where-the-code-and-its-documents-disagree)
7. [What is only model-checked, what is not modelled](#7-what-is-only-model-checked-what-is-not-modelled)
8. [Plan](#8-plan)

## 1. Inventory

Every backend process is one Node.js event loop: code between two `await`s is atomic within it.
Several processes may share the database, and each runs every cron job (`docker-compose.yml` starts one). What they
share is in tables; what a process keeps in memory, such as the flag that keeps a job from overlapping itself, it does not share, and
loses when it stops.

| Component | State | Operations | Hard about it | Module |
|---|---|---|---|---|
| Live orders: `controllers/trading.controller.js`, `services/liveOrderReconciler.service.js`, `utils/orderState.js`, `services/exchanges.service.js` | `live_orders` | `placeOrder`, `cancelOrder` (live), `resolveUnresolvedOrders`, `reconcileLiveOrders` | lost and late answers of the exchange, crashes, the jobs of several processes and two handlers writing one row by id | `LiveOrders` |
| Idempotency keys: `services/idempotency.service.js`, `middleware/idempotency.middleware.js` | `idempotency_keys` | `claim`, `complete`, clean-up, the wrapped `res.json` | concurrent retries, expiry, failed writes | `Idempotency` |
| Kill switch: `utils/killSwitch.js`, `routes/admin.routes.js` | a row of `system_flags`, a copy per process | `init`, `refresh`, `isEngagedFresh`, `set` | stale copies, restarts, commands whose write fails | `KillSwitch` |
| Paper account: `utils/orderLock.js`, `services/riskGuard.service.js`, `services/exchanges.service.js`, `services/paperTradeMonitor.service.js` | `paper_trades`, advisory lock, connection pool | `withUserOrderLock`, `checkOrder`, `openPaperTrade`, `closePaperTrade`, cancellation, SL/TP monitor | limits checked by concurrent orders, per exchange and over all of them, three ways to end a row, pool exhaustion | `PaperAccount` |
| Auto-trader: `services/autoTrader.service.js`, `controllers/auto_trade.controller.js` | `auto_trade_configs`, `paper_trades.auto_trade_config_id` | gate, cycle, probation, promotion, the user's requests | copies that are a cycle old, several instances, results reported by another loop | `AutoTrader` |
| Portfolio ledger: `controllers/portfolioController.js` | `portfolio`, `accounts`, `trades`, row locks | `addPosition`, `executeClose` (all, or a part), `updateCash` | row locks taken in two orders, partial closes, money in cents | `Portfolio` |
| Price alerts: `services/alertChecker.service.js`, `controllers/alerts.controller.js` | `alerts`, `alert_digest_queue`, a flag per process | check, hold back, digest; create, edit, pause, snooze, reset, delete | state read before a fetch, calls that outlast their minute, two processes on one row, crashes and failures between mark, send and queue, quiet hours over midnight | `Alerts` |
| Market scan: `services/scanJob.service.js`, `controllers/signals.controller.js`, `frontend/src/pages/Screener.jsx` | a map in memory, `signals`, the page's job, interval and list | create, progress, finish, expire; start, poll, leave | late callbacks, expiry before the end, status answers out of order | `Scans` |
| Dashboard stream: `utils/wsTicket.js`, `ws/dashboardSocket.server.js`, `frontend/src/hooks/useDashboardData.js` | a map of tickets, sockets, payloads being built, the effect of the hook | issue, prune, consume; connect, push, broadcast; reconnect, select a range | full map, expiry, effects cleaned up in the middle, payloads that overtake each other | `Dashboard` |
| Outcome resolver: `services/outcomeResolver.service.js` | `signals.outcome` | `resolveOutcome`, `resolveOpenSignals` | boundaries of candles and of the week, unfinished candles, batches, failures | `Outcomes` |
| Backtests: `services/backtestEngine.service.js`, `controllers/backtest.controller.js` | cash, positions and curve of each simulation | entries, exits, forced close, merging of curves | shorts, stops, currencies, symbols with other dates | `Backtest` |
| Portfolio snapshot: `services/portfolioSnapshot.service.js` | `portfolio_snapshots` | `snapshotUser` | equity read in two statements | no |
| AI signal alerts: `services/signalAlert.service.js` | rows of `alerts` | one pass of cron | cooldown per user and symbol | no |
| Sessions: `controllers/auth.controller.js`, `controllers/security.controller.js`, `middleware/auth.middleware.js`, `utils/failLimit.js` | `user_sessions`, `audit_log`, second-factor columns | login, refresh, logout, revoke | access control | no |
| Quotes: `services/stockQuotes.service.js` | cache, requests in flight | get, clear | joining a request in flight | no |
| Exchange connections: `controllers/exchanges.controller.js`, `services/exchanges.service.js` | `user_exchange_connections` | connect, mode, disconnect, health check | rows removed under the jobs that use them | no (its effect on orders: `LiveOrders`) |
| The rest (section 7) | | | | no |

How they meet, in the order an order meets them (`routes/trading.routes.js`,
`controllers/trading.controller.js:58-253`):

    Idempotency (live orders: a key is required)
      -> KillSwitch.isEngagedFresh
      -> PaperAccount: lock, checkOrder, INSERT             (paper)
      -> LiveOrders: checkOrder, INSERT, send, UPDATE       (live)
    AutoTrader.processConfig -> KillSwitch -> PaperAccount (lock, checkOrder, INSERT)
    paperTradeMonitor -> closePaperTrade -> AutoTrader.recordProbationResult
    cron -> resolveUnresolvedOrders, reconcileLiveOrders -> exchange
    cron -> checkAlerts, runDailyDigest (Alerts); resolveOpenSignals (Outcomes)
    Screener -> getAllSignals, getScanStatus (Scans) -> signals, which AutoTrader trades and Outcomes closes
    Dashboard hook -> ws-ticket -> socket; Backtest -> the backtests AutoTrader asks for

What makes each modelled component correct is the list of its properties in section 3; every place
where this code can go wrong in a way tests hardly reach is under `hazards` in `PROJECT.json`, with
the properties aimed at it.

## 2. Modules

Conventions: a table column is a function from rows to values; `None` (`Null`, `Missing`) is SQL's NULL or
JavaScript's `null`; one action is the code between two awaits, its bound variables the inputs; `Fault` (or
`Disturbance`) counts what the environment does wrong and is bounded by a constant. Each module
has an `MC` module with the values of its constants. An action that is an alternative body of
another (`ErrorsAreRefusals` for `SetOrderState`) and belongs to no `Next` is a *mutant*: it is
substituted for the real one to see that the property it names can fail.

**LiveOrders.** One element of `Orders` is one live `placeOrder` call with its row and its client
order id. Columns `status`, `hasExchangeId`, `rowId`, `exchangeStatus`, `fillFinal`, `attempts`, and
`age` for `NOW() - created_at`. `handler` is how far the call is: `Record` (the INSERT), `Send`,
`GetAnswer`/`NoAnswer`/`NotSent` (`classifyOrderError`), `CompleteRow`/`SetOrderState` (the UPDATEs
by id), each of which may fail. `wire` and `exch` are the network and the exchange: the request may
be lost, the reply may be lost, the order is accepted in whatever state, rests, fills, is cancelled or refused later.
Every process of `Processes` runs both jobs, each with its own flag, so `marked`, `resTodo`, `lookup`, `fillTodo` are per process. The
resolver is four kinds of steps (`ResolveStart` marks, `ResolveSelect` reads, `ResolveLookup` asks,
`ResolveAdopt`/`ResolveMissing` write), the fill job three (`FillSelect`, `FillFetch`, `FillWrite`),
a cancellation two (`CancelAtExchange`, `CancelRow`). `Tick` ages all rows. `Home` says which process serves the requests about an
order; `Crash` stops one process with its calls and jobs. `HandlerBound` and `LandingBound` say how late a call and a request may be.

**Idempotency.** A request carries a key (`KeyOf`) and a content (`Content`, the request hash).
`claim` is `InsertWins`, or `InsertConflicts` followed by `Read`, since the INSERT and the SELECT
are two statements; its clean-up DELETE is sent and not awaited, so it is a step of its own that runs any
time later. The handler behind the middleware answers any of `Outcomes`; `Complete` and `Send` follow,
and `Complete` may fail. **OncePerKey** is what a key promises, with no table: one run per life of
the key, everyone else refused or told the run's outcome, no life shorter than `TTL`.
`ImplementsOncePerKey` is the refinement.

**KillSwitch.** `flag` is the shared row; `cache[i]` the copy of instance `i`. Reading is two steps
(`RefreshSelect`, `RefreshApply`; `CheckSelect`, `CheckApply`), so that a late answer may overwrite a
newer copy. Boot is `Listen` (the server takes requests), then `InitRow` (the environment variable),
as in `app.js`. `seen[o]` is an observer: the values the row had while order `o` was checked.

**PaperAccount.** An order goes through `GetClient` (a connection of the pool), `TakeLock` (the
advisory lock), the three reads of `checkOrder` in their order, `OpenTrade` and COMMIT, or ends in a
refusal; faults roll back, lose the answer of COMMIT or stop the process. `closePaperTrade` is
two steps, SELECT and guarded UPDATE, run by the user or by the monitor. The cancellation is one
UPDATE without guard. The account's arithmetic is computed from the rows in integers, and over the rows the code takes: equity and
exposure from those of one exchange (`getEquity`, `openPaperNotional`), the loss of the day from those of all (`todayRealisedPaperPnl`).
Rows of `Earlier` are open from the start. `late` and `lossy` are observers.

**AutoTrader.** `copy[i]` is what an instance loaded at the start of its cycle; `Evaluate` is the
gate with its UPDATE from that copy; `CheckLoss`, `Block`, `PickSignal`, `CheckOpposing`,
`OpenTrade`, `AdvanceCursor` are `processConfig` in order. The monitor closes trades and reports in
two statements, `RecordResult` and `Graduate`. `updateConfig` also changes the two limits of a configuration (trades of the
probation, loss of the day) at any time. The cursor goes through a JavaScript `Date`:
`CreatedAt` has the database's resolution and `DateUnit` is what a Date keeps, so the cursor can stay
before the signal it stands for. Quantities, the user's limits and the kill switch are other modules'
matters: here an order may be refused for any reason (`SkipOrder`). `off` and `earned` are observers.

**Portfolio.** A request is one call of `addPosition`, `executeClose` (`Qty` = `None` closes everything) or
`updateCash`. The positions are the long and the short one of a symbol: requests on other symbols meet only at the
account. `cash`, `position` and `trades` are what is committed; a transaction's writes appear with its COMMIT
(READ COMMITTED), and until then `owner` says which rows it has locked or inserted. The stages are the
statements that lock: `EnsureAccount` (INSERT ... ON CONFLICT DO NOTHING), `LockAccount`, `LockRow`, `Upsert` for an addition,
`LockPosition`, `EnsureAccount`, `Credit` for a closing, after the lookup outside the transaction (`ReadPosition`). A closing
whose price is not to be had ends there. `DeadlockAbort` is PostgreSQL's. `deposits` is an observer.
**Bookkeeping** is the arithmetic (average entry, result, rounding to a column), shared with **Ledger**, the portfolio
without transactions: each request takes effect at once, an addition if the cash is there, a closing of what is held.
`ImplementsLedger` is the refinement: the committed tables are the ledger's, a commit is its step.

**Alerts.** Every process runs the checker and the digest. `run[i]` is a call of `checkAlerts` in the process `ProcessOf[i]`: `LoadAlerts` (the SELECT,
behind that process's flag `isRunning`), `FetchPrice` or `NoPrice`, `NotMet` or `MarkTriggered`, `Notify` (the mail, or the INSERT into the queue in quiet
hours or for a digest user), `GoOn`, `Finish`, and `CheckFails` for whatever throws. Cron may start a call while another still works, on rows the user or another
process has changed since they were read. `runDailyDigest` is `ReadDigest`, `SendDigest`, `MarkSent`, in each process. A *firing* is an alert and how often it was
armed (`arm`): the table itself does not tell two firings of one alert apart; a row of the queue is named after the process that inserted it. `manual`,
`notified` (what each process notified or tried to) and `owed` (rows of the queue that were in no digest that left) are observers. The run begins with any row
that earlier commands may have left: snoozed, paused, triggered or not. Time is the user's local hour; a snooze counts down (`ClockTicks`); `ServerStops` forgets
what one process kept in memory.

**Scans.** `jobs` is the map of `scanJob.service.js`, `scan` the two promises behind each entry. `Progress` is `onProgress` of either
scan, `ScansDone` the `Promise.all`, `InsertSignal`/`InsertFails`/`JobDone` the loop of INSERTs, `Expire` the timer of `createJob`.
The page is `runScan`, `pollJob`, `Poll` (the interval, which does not wait for earlier answers) and `PollAnswer`; `polls` are the
status requests on their way, handled in the order of the connection. `Leave` unmounts the page. `crossed` is an observer: an answer
about an older scan has cleared the interval of the newest.

**Dashboard.** `pending` is the map of `wsTicket.js`, with ages; `issueTicket` and `consumeTicket` are its functions, `Pruned` what
making room leaves. The hook is `AskTicket`/`TicketRefused`/`TicketLost`, `Connect`, `OnMessage`, `OnClose`, `Reconnect`; `SelectRange` is
React's cleanup of one effect and the start of the next. The server is `Connection` (consume the ticket, build a first payload),
`RefreshAndBroadcast` and `Push`: payloads are built by queries that end in any order. A ticket names its socket, a payload is the version of
the data it was built from.

**Outcomes.** The market is a sequence of hours, each a price per tick or closed; candles are *computed* from the ticks seen
so far (`Open`, `Low`, `High`, `Close`), the unfinished one included, so that the job's decision from candles can be compared with what the
prices did tick by tick. A pass is `resolveOpenSignals` (the SELECT), `FetchCandles`, `ResolveNext` per row, or `PassFails` anywhere. `ClosedBy`
and `Untouched` are the two halves of `resolveOutcome`.

**Backtest.** The simulations of `runBacktest` share nothing but the list of warnings, so they are taken one after the other: `Begin` (the capital converted), `Candle` (exits, entry, a point of the
curve), `ForcedClose`, then `aggregatePortfolio`. What a strategy decides is an input, prices and quantities are whole numbers, and a
conversion that fails is 1:1 with a warning. A position is named by the candle it was entered at, and the curve of the result is a function of
the dates. `realised` is an observer: the results of the trades closed.

## 3. What the runs check

The check is one `tlc` call per row; `bounds` says what is small and why it is enough.

| Run | Specification | Shows | Bounds |
|---|---|---|---|
| `live_safety` | `FairSpec` | one live order is never lost from view (`LiveOrderIsVisible`), never called rejected while it exists or can still arrive (`RejectedMeansNotPlaced`), a final fill is true (`FinalFillIsTrue`), a closed row never tells another end, and says open again only of an order that ended as it said (`ClosedRowKeepsItsEnd`), a doubt is settled (`DoubtIsResolved`), the end of an order is recorded if it comes while attempts are to spare (`EndIsRecorded`) | one ccxt order (the venue with the most states), the jobs of two processes, three attempts, one fault besides an answer that is not heard: a crash, a lost request or a failed write on top of a lost reply, with every overlap of the two resolvers. Rows interact only through the batch `LIMIT` and through colliding ids |
| `idempotency` | `FairSpec` | one run per key (`OneRunPerKey`), the table keeps the promise of a key (`ImplementsOncePerKey`), every request is answered (`EveryRequestIsAnswered`) | three requests on one key, the third for another order: a winner, a loser and a misuse; age to `TTL` = 2, two faults |
| `kill_switch` | `FairSpec` | an order passes only if the switch was off at a moment of its check (`ClearedOnlyIfOff`), only a release takes it off (`EngagedUntilReleased`), a switch the row holds engaged reaches every copy, whatever stale answers and failed refreshes came before (`EngagedReachesAll`) | two instances, one with the variable, the order on one and the command on the other |
| `paper` | `FairSpec` | an order opens within the exposure limit of the equity it read (`WithinExposure`), no order passes while the loss limit was reached all along, but after a gain elsewhere (`LossStopsOrders`), a row that ended keeps its result (`EndedRowKeepsResult`), every order is answered (`OrdersEnd`), a level crossed closes the row (`StopsAreHonoured`) | two orders at one exchange that fit alone and not together, a row open at another exchange from the start, opposite sides, prices 1 and 2, capital 3, one close by hand, one disturbance, a pool of two connections (the smallest in which an order that took its lock outside the transaction would starve) |
| `auto` | `Spec` | one trade per signal (`OneTradePerSignal`), one open trade (`OneOpenPerConfig`), no result counted twice (`CountedOnce`), a pause holds from the next cycle on (`PauseHolds`) | two instances (interchangeable: symmetry, no liveness is checked), one configuration, two signals of which the first sits between two milliseconds, two trades, one disturbance, which may be a request that raises the trades required and the loss allowed |
| `portfolio` | `FairSpec` | `ImplementsLedger`; cash, cost of the positions and results agree (`BooksBalance`); nobody waits for ever although the locks are taken in two orders (`RequestsEnd`) | two purchases, two sales of what they make (all and a part), a short sale and its closing, one edit: every pair of operations meets on one position, and the second purchase is refused or not depending on who came first; one failure. Units are half cents, so roundings happen; the average price of the two purchases is a whole number, so that `BooksBalance` measures the rounding of cash alone |
| `alerts` | `AlertsFairSpec` | a pause by hand holds through snoozes and releases (`PausesHold`), a process notifies a firing once, and a firing any process notified is never due again (`NotifiedOnce`), quiet hours are the user's (`QuietHoursKept`), a due alert fires whatever failed before (`DueAlertFires`), what was held back is mailed (`HeldBackIsMailed`) | one alert (rows meet only in a batch, and a batch is done row by row) in any stored state, so that one command from each covers sequences of commands; two processes, one with two calls that may overlap, one with a third; one failure or crash; the price stands still while the alert's target moves; a day of three hours whose quiet span crosses midnight and whose digest falls inside a run. With several prices or commands the state space passes what five minutes allow |
| `scans` | `FairSpec` | what the page lists is in the table, whole (`ResultsAreStored`), a job that ended does not change (`EndedJobIsFinal`), a scan ends on the page (`ScanEnds`, with the one exception of section 6) | two scans one after the other, one symbol in each of the two parallel halves, two status requests on their way, one fault |
| `dashboard` | `FairSpec` | at most one stream per tab, for its range, with its ticket used up (`OneStream`); making room never takes a valid ticket (`TicketsLast`); only data of the selected range is shown (`ShowsSelectedRange`); the page catches up (`CatchesUp`) | three tickets for a map of two (so it fills), one ticket of another tab, one change of range, one of data, two payloads in the making, one fault |
| `outcomes` | `OutcomesFairSpec` | an outcome follows from the prices of the hours, tick by tick, whenever the job looked (`OutcomeFollowsHours`, with the two exceptions of section 6), every signal is closed (`EverySignalCloses`) | any market made of six shapes of an hour (quiet, either level first, gaps both ways, closed) of three ticks, a week of one hour, a batch of one row for two signals, one of which may miss a level. `Hold` is a multiple of the hour as 7 days are |
| `backtest` | `BacktestSpec` | equity is capital, results of closed trades and worth of open ones (`EquityIsExplained`); the portfolio's curve is explained date by date in the user's currency (`PortfolioIsExplained`) | two symbols, three and two dates of which one is common, rates 1 and 2, prices 1 to 3, two positions at a time, two failures |
| `paper_day` | `Spec` | the disagreement of section 6 | three orders, one close by hand, one cancellation |

There is one run per component. The types of the five modules added last are a conjunct of an invariant of their runs; those of the others,
the inductive invariants, and the theorems no run repeats (`UnknownIsSelectable`, `ResolverAfterHandler`, `ReplayIsTrue`,
`LiveIsEarned`, `ClosedRowStaysClosed`, `BooksNearlyBalance`) are proved (section 5), and TLC agreed on small constants before. Ages saturate at the largest threshold the code
compares them with, so the behaviours of LiveOrders and Idempotency are infinite without unbounded counters. `MAX_ATTEMPTS`, `TTL` and the
ages are small numbers in the order of the real ones: the code compares them and does nothing else with them.

Deadlock is checked in `live_safety`, `paper`, `paper_day`, `auto`, `portfolio`, `alerts` and `dashboard`. In Idempotency and KillSwitch the
requests are finitely many, in Scans the jobs, in Outcomes the signals and the hours, in Backtest the candles: the system rests
when they are over, so their configurations say `CHECK_DEADLOCK FALSE`. That nobody waits for ever is checked as liveness there
(`EveryRequestIsAnswered`, `EngagedReachesAll`, `ScanEnds`, `EverySignalCloses`).

## 4. Fairness

Weak fairness, but in `Outcomes`, and only of what the runtime owes: code that was started goes on unless the
process stops (the event loop and the database answer), timers and cron fire again, time passes,
and a request on the wire arrives or is lost. Users, operators, fills, price moves, signals and faults
are never owed. Faults are finite in number, so a liveness property says: once the faults stop, the
system gets there. An answer of the exchange that is not heard is not counted as a fault of LiveOrders: it happens once per call.

- `LiveOrders`: each call and the exchange's answer to its request (`CallGoesOn`), the resolver of some process, the fill job of some process,
  `Tick`. No process is owed its own turn: any of them serves the table.
  The exchange's progress on a resting order is not fair: an order may rest for ever.
- `Idempotency`: the statements of a running request, and the clean-up DELETE. The order handler itself
  answers within `RequestBound`.
- `KillSwitch`: boot, timer, a check or command that was begun.
- `PaperAccount`: each order, each call of `closePaperTrade`, the SELECT of the monitor's cycle and, together, its prices and rows.
  Each lock holder needs only its own step, so weak fairness is enough for `OrdersEnd` although the
  lock is not handed over in a fair order: there are finitely many orders.
- `Portfolio`: as long as some statement can be executed or some deadlock be broken, one of them is. Nothing is asked for the
  individual request: each one ends after finitely many statements.
- `Alerts`: the checker and the digest of one process that is started again whenever it stops (`Survivor`), and time. Other processes may stop for good.
- `Scans`: the reply with the id, the scans, the expiry timer, the interval, and each status request. A user starts and leaves as he likes.
- `Dashboard`: the hook's next step, each socket's, payloads, broadcasts, time. Whether data or range change is not owed. One assumption:
  a tab connects within the 30 s its ticket lives, unless a fault is spent on it.
- `Outcomes`: a pass may fail any number of times, each pass is started anew by cron. Strong fairness of `FetchCandles` and `ResolveNext` says
  that what is tried again and again works at last; nothing weaker lets a job that may always fail reach an end.
- `AutoTrader`, `Backtest`: none, their runs check safety only.

## 5. What is proved

The modules `*_proofs`, checked by TLAPS, for every value of the constants that satisfies the named assumptions
(`OrdersAssumption`, `ProcessesAssumption`, `VenueAssumption`, `BoundsAssumption` of LiveOrders; `RequestsAssumption`, `TimesAssumption` of Idempotency;
`InstancesAssumption`, `NothingAssumption` of KillSwitch; `AccountAssumption`; `TraderAssumption`; `CentAssumption`,
`RequestsAssumption` of Bookkeeping and Portfolio; `AlertsAssumption`, `NullAssumption`; `ScansAssumption`; `DashboardAssumption`;
`OutcomesAssumption`, `NullAssumption`, `NoRowAssumption` of Outcomes; `BacktestAssumption`, `DatesAssumption`).
These only say what kind of thing each constant is: `ScansAssumption` that the symbols are finitely many and belong to one scan each,
`DashboardAssumption` that the map of tickets has a cap and a life, `NullAssumption` that what stands for a missing row is no row,
`DatesAssumption` that the candles of a symbol come in the order of their dates, `BacktestAssumption` that a symbol's capital is a whole amount of its
currency, `OutcomesAssumption` that prices are above one unit, so that a stop a unit below a price is not 0, which the code takes for a missing level.
Some theorems need more and state it as a hypothesis:

- `Timely` (LiveOrders): a `placeOrder` call is over before its row is old enough to be taken for an
  orphan, and a request lands or is lost before "not found" is believed. The code relies on HTTP
  timeouts of seconds against `PENDING_TO_UNKNOWN` of 60 s and `NOT_FOUND_GRACE` of 10 min.
- `OneProcess` (`ClosedStays`): with two resolvers a closed row can be reopened (section 6); `ClosedKeepsEnd` says what holds for any number.
- `UniqueIds` (LiveOrders): ids of different exchanges do not collide. Without it a cancellation
  marks an order of another exchange (section 6).
- `Timely` (Idempotency): no handler works for the 24 hours a key lives.
- `MaxPositionPct > 0` (`ExposureKept`): `checkOrder` compares the exposure only when the equity is not 0, and with the limit on positions
  switched off an order passes at equity 0, whatever the exposure (section 6). With that limit on, such an order is refused.
- `[]WholeAverages` (`Balanced`): no average was rounded to its column. Every state of the run `portfolio` satisfies it;
  `NearlyBalanced` says what holds without it.

| Theorem | Says |
|---|---|
| `LiveOrders_proofs!TypeCorrect` | `Spec => []TypeOK`, with no hypothesis |
| `LiveOrders_proofs!InvCorrect`, `LiveIsVisible`, `RejectedIsTrue`, `FillIsTrue`, `ClosedKeepsEnd` | the safety properties of `live_safety`, each by its name, for any number of processes |
| `LiveOrders_proofs!ClosedStays` | under `OneProcess`, a closed row never changes again |
| `LiveOrders_proofs!DoubtStaysResolvable` | an unknown row stays within reach of the resolver, and the resolver looks for an order only after its call is over |
| `OrderGates_proofs!KeysCorrect`, `OneRun`, `Replays`, `Refines` | one run per key, true replays, and `Spec => OncePerKey` |
| `OrderGates_proofs!SwitchCorrect`, `OrdersStop`, `StaysEngaged` | the safety properties of `kill_switch` |
| `PaperAccount_proofs!InvCorrect`, `EndedStays` | the lock excludes, an ended row keeps its result |
| `PaperAccount_proofs!MoneyCorrect`, `ExposureKept`, `LossStops` | what `checkOrder` read is still what the table says when the row is written; so the exposure stays within its limit, and no order passes while the loss of the day on all exchanges has reached the limit of its own, unless a result elsewhere made the day better meanwhile |
| `AutoTrader_proofs!InvCorrect`, `TradedOnce`, `OneOpen`, `Paused`, `Earned` | one trade per signal, one open trade, a pause holds, a promotion was earned when its last result was counted |
| `AutoTrader_proofs!Counted` | a configuration counts no result twice: its counter is at most the number of its closed trades |
| `Books_proofs!InvCorrect`, `TypeCorrect`, `Implements` | what a transaction counted on still holds, and `Spec => ImplementsLedger`: the transactions are serializable |
| `Books_proofs!NearlyBalanced`, `Balanced` | cash, positions at cost, results and what was paid in agree, up to half a cent for each commit and the rounding of averages |
| `Books_proofs!BacktestCorrect`, `EquityExplained`, `PortfolioExplained` | the properties of `backtest`, for any symbols, dates, rates, prices, mixes of positions and failures |
| `Signals_proofs!ScansCorrect`, `ListedIsStored`, `EndedFinal` | `ResultsAreStored` and `EndedJobIsFinal`, for any number of symbols, scans, status requests and faults |
| `Signals_proofs!OutcomesCorrect`, `OutcomesFollow` | `OutcomeFollowsHours`, for any market, levels, number of signals, length of the week, of a pass and of a batch |
| `Notices_proofs!InvCorrect`, `OneStreamHolds`, `RangeShown`, `TicketsKept` | the safety properties of `dashboard`, for any number of tickets, ranges and faults and any cap |
| `Notices_proofs!AlertsCorrect`, `PausesStand`, `NotifiesOnce`, `QuietHoursAreKept` | the safety properties of `alerts`, for any processes, alerts, overlapping calls, commands, prices and any quiet hours |
| `SumTheorems!SumTakeOut` | a sum over a finite set is an element's amount and the sum over the rest: what the theorems about money rest on |

`OrderGates_proofs` is about `Idempotency` and `KillSwitch`, `Notices_proofs` about `Dashboard` and `Alerts`, `Signals_proofs` about `Scans` and
`Outcomes`, `Books_proofs` about `Portfolio` and `Backtest`: the components of a pair share no variable, and each theorem names the specification it speaks of. `SumTheorems` is about `SumFunctionOnSet` of the community module
`Functions`, and knows nothing of this code. Induction over finite sets cannot be had as a rule here (it takes an operator), so its facts come
from a smallest counterexample: among the finite sets where a fact fails there is one whose cardinality is least, and taking an element out
of it gives another. In the same way a finite set of numbers has a greatest and a least one, as the candles and the merged dates need.

Why the invariants are what they are:

- *LiveOrders.* `LiveOrderIsVisible` speaks of row and exchange; to keep it, an UPDATE by id must be
  harmless whenever it is executed. So `IInv` says what each pending write knows: a running call's row is
  still pending (`HandlerInv`, which needs `Timely` against the resolver), a reply is true (`WireInv`), the
  resolvers ask only about rows whose call is over, an end a lookup saw is the end, and "missing" on an expired row means never placed (`ResolverInv`;
  that the row is still unknown when it is written holds for one process only, and makes `ClosedStays`),
  a fill read as final is final (`FillInv`), a cancellation under way is of a cancelled order (`RowInv`).
- *Idempotency.* The row of a key names its owner; `RequestInv` says that whoever works under a key owns
  its row and that the row is too young to be deleted; `OneRunPerKey` follows since a row has one owner. The
  refinement maps the abstract `run` to that owner.
- *KillSwitch.* A check under way has seen the row's present value, and what its SELECT returned is
  among the values seen.
- *PaperAccount.* The order between `TakeLock` and the end of its transaction is the lock's holder, and
  only it; a call of `closePaperTrade` names a row that was written. Then the guarded UPDATE is what keeps a result.
  The limits compare sums over the table, and other steps change the table between the reading of a sum and the INSERT. `MoneyInv` says that
  the equity read pays for the order (`EquityInv`), that after the limit on the exposure the order still fits with what is open *now*, since under the
  lock rows are only closed (`ExposureInv`), and that while the loss limit is reached the equity that was read was made of a loss that reached it
  (`LossInv`): the loss read afterwards is then compared with an equity that is no larger than it ought to be. What the day has and the equity of the order's exchange
  has not (`Elsewhere`) may have become worse meanwhile and not better: results of other exchanges count in the first only.
- *Portfolio.* Every commit changes the account, and changes it under its lock; so an addition, which holds the account from its
  check on, sees no other commit (`AddInv`), and a closing, which does not, keeps its own position by the position's lock
  (`CloseInv`). Then what a COMMIT makes visible is what the ledger computes from the tables at that moment.
- *Portfolio, the books.* Each commit changes cash, cost, results and deposits at once, and what it does to their balance is the half cent
  `Cents` rounds and what the average's column rounds (`Drift`); an invariant must therefore carry that average entries are not 0, and that a
  position is not larger than what was ever bought, which bounds the drift of a whole position by the requests (`PositionInv`).
- *AutoTrader.* `OneTradePerSignal` and `OneOpenPerConfig` are inductive with types alone, because the
  transaction looks at the table and at nothing older. `CopyInv` relates an instance's copies to what was paused before,
  `DueInv` says that a promotion waiting to be applied was earned when a result was counted (`earned`), whatever was required since. `CountedOnce` needs
  that the results on their way in the loops of the monitor (`DueOf`) are counted too (`CountInv`), and that a loop reports
  a trade to the configuration that owns it (`BatchInv`): ending a trade makes room for exactly one more result.
- *Alerts.* `CallInv` says that in each process one call works at a time, behind its flag, and that this process has notified none of what the call has in
  hand; `NotifiedInv` that a firing any process notified has left its row marked unless the user armed it again. A mark that goes by id alone may be of a row armed
  again since it was read: it is then the earlier firing that is notified, and the row is marked all the same. `PauseInv` ties a snooze to its pause.
- *Scans.* The counters of a job are the cardinalities of what its scan has done (`JobInv`): so when both promises have resolved
  no callback is left that could write into an ended job. `ListInv` follows a list from the loop of INSERTs through the entry and the
  answer to the page: at each of these stations it is a part of the table, and the table only grows.
- *Dashboard.* The hook holds nothing, a ticket without a socket, or the socket opened with it (`HookInv`); a socket at work is the
  hook's, with its range, and an open one has used up its ticket (`SocketInv`). That is what makes a cleanup complete: closing the hook's
  socket closes every socket at work. The cap needs that the map is finite (`MapInv`), since it is compared by cardinality.
- *Outcomes.* A row closed by a pass follows from the prices up to *now*, while the pass decided from candles it fetched earlier, on rows it
  read earlier still. `PassInv` says that its rows were there when it began and that its candles are no older; and past prices do not change, so
  what was earned stays earned. The rest is arithmetic: the low and the high of the candles between the signal and its end are prices that were paid, and no
  tick of those hours went beyond them.
- *Backtest.* The equity is a sum over the open positions at today's price; to explain it, `Accounted` follows the cash: capital and results, less what
  the open positions brought or cost. A candle splits that sum in what leaves and what stays, and an entry adds to it under a number no
  position has yet. `Staged` says that a symbol which is done has a point for each of its dates and nothing open, `WholeInv` that unless there was a warning all began with the same
  capital. For the merged curve, dates are strictly increasing, so the candles known on a date are the first `k`; a symbol with a candle on that date
  moved from `k - 1` to `k`, and the others did not.

## 6. Where the code and its documents disagree

One disagreement is shown by a run, `paper_day`: cancelling a trade closed at a loss removes the loss from every sum, and orders are
accepted again the same day (`docs/api.md:131`: "new positions blocked until tomorrow").

Disagreements met while modelling, without a run of their own:

| The code | The statement |
|---|---|
| the fill job writes `exchange_status` and `fill_final`, never `status`: a filled or cancelled order stays among the open ones (`liveOrderReconciler.service.js:63`) | `docs/order-state-machine.md:4`, `utils/orderState.js:51` |
| `reconcile_attempts` counts successful polls too: after 20 polls of a resting order its end is never read (`:40`, `:67`) | `liveOrderReconciler.service.js:10-11` |
| the resolver of a second process, which has read the order as open, writes `submitted` over the end that the first, or a cancellation, has recorded since; the UPDATE goes by id (`liveOrderReconciler.service.js:131-136`). TLC finds it for `ClosedRowStaysClosed` on the constants of `live_safety`, in 14 steps and after one lost reply | `docs/order-state-machine.md:4`: no arrow leaves filled, cancelled or rejected; `utils/orderState.js:51` |
| a cancellation marks every row of the user with that exchange id, of any exchange (`trading.controller.js:323`) | `utils/orderState.js:51` |
| an engage whose write failed is overwritten by the next refresh of its own instance (`utils/killSwitch.js:62`) | `utils/killSwitch.js:20`, `docs/endpoint-audit.md:97` |
| the loss of the day is summed over all exchanges and compared with the equity of one: a loss at that exchange between the reading of the equity and that of the loss, made good by a gain elsewhere, lets an order pass although the limit was reached at every moment of its check (`riskGuard.service.js:61-64`, `:85-92`) | `docs/api.md:131`; `LossStopsOrders` names this exception |
| a promotion computed before the loss limit blocked the configuration overwrites the block (`autoTrader.service.js:411`) | `autoTrader.service.js:34-37` |
| a candle that is not finished decides for the target, although the stop is reached later in its hour (`outcomeResolver.service.js:104-118`) | the header of the same file, `:11-12`: both in one candle count as the stop |
| the hour of the signal counts whole: a level the price touched before the signal closes it (`outcomeResolver.service.js:79`, `:104`) | the header, `:4-5`: candles after `created_at` |
| an INSERT into the queue that fails, or a stop between the mark of an alert and that INSERT, loses the mail held back in quiet hours (`alertChecker.service.js:192-201`) | the header of the same file, `:11-12`: the alert is not lost and comes with the next digest |
| a late answer about one scan clears the interval of the next, whose page then waits for ever (`Screener.jsx:196`, `:199`, `:203`) | `Screener.jsx:181`, "until the job is done or errors"; `ScanEnds` names this exception |

Also seen, where no document says otherwise:

- *Orders.* An order that arrives between `app.listen` and the end of `init` is not stopped by `TRADING_KILL_SWITCH=true` when the row says
  released; a batch of rows whose exchange connection was removed hides younger unknown rows from the resolver for ever; the exposure limit is
  skipped when the equity is 0 and the limit on positions is switched off (`ExposureKept` excludes that by its hypothesis); two instances may open opposite positions for one user; a configuration that comes
  back to probation keeps the counters of the first one; one whose required trades are raised between the counting of a result and the
  promotion becomes live with fewer than it then requires (`LiveIsEarned` therefore speaks of the moment of the counting); cancelling an old row closed
  at a profit, between the reading of the equity and that of the loss of the day, lets an order pass although the limit was reached all along.
- *Alerts.* Two processes that read a due alert before either marked it both notify it, and two digests that read the same rows both mail them: the flag is of one process, the
  UPDATE goes by id without a look at `triggered` (`alertChecker.service.js:116-124`, `:166-169`), and nothing locks the rows of the queue. A mark may
  also be of a row the user has paused, changed or reset since it was read: it fires for the copy, and is triggered. An alert deleted between its mark and the INSERT into the queue loses the mail that was to be held back (the row refers to it);
  marking an alert as read before it fires makes the firing appear read; an expired snooze is lifted only when the page is loaded; clearing
  the rows of AI signals also clears their cooldown, and resetting one makes it an active price alert.
- *Dashboard.* A connection that is half open is not noticed (there is no heartbeat); `onopen` resets the backoff although the ticket may still
  be refused right after; a 401 ends the hook's attempts (the session is assumed valid here).
- *Outcomes.* The result of a signal depends on when the job looked, since unfinished candles decide; `closed_at` may precede the touch when candles are fetched
  later than `now` was read; the hour of the expiry counts whole;
  a symbol without a source is never resolved and keeps its place in the batch.
- *Backtest.* A final equity of exactly 0 is reported as the initial capital (`||`); the proceeds of a short enlarge the cash that later allocations
  are sized on; the result of a single symbol stays in the symbol's currency (`PortfolioIsExplained` speaks of several); a stop is filled at
  its price although the close is beyond it.

## 7. What is only model-checked, what is not modelled

Only model-checked:

- all liveness properties (TLAPS does not reach fairness here). Every safety property of a passing run is proved, some
  under the hypotheses of section 5.

Left out of the modelled components: validation of input, order types and prices beyond what the limits compare,
messages, audit entries, notification after a trade, encryption of credentials, `checkOrder` for live orders (one
balance read and one decision), reason, author and time of the kill switch, other users (every lock, row and limit
is per user), the read flag of alerts, the market scan of cron (same INSERTs, no job), the socket of market prices (one snapshot sent to
everybody, no ticket), the status `done_for_day`, which `normalizeOrderStatus` takes for cancelled although an order in it works on the next day (`utils/orderState.js:56`),
indicators, ratios and saved presets of backtests, symbols without a source of candles.

Not modelled, and why:

- *Portfolio snapshot*: the row of a day is overwritten by the next run and read by a chart only.
- *AI signal alerts*: one pass of cron with its cooldown read at the start; passes that overlap in two processes can only repeat a mail.
- *Sessions, login, second factor*: rows changed by single statements. What is worth asking of them is a question of access control and
  belongs to a security review.
- *Quotes and live prices*: a cache in front of HTTP calls. The modules that use prices let them be any price or none.
- *Exchange connections*: single statements; their effect on orders is in `LiveOrders` (`Unanswerable`).
- Indicators and risk statistics (floating point); market data and news fetchers, e-mail and Telegram layout, read-only analytics;
  watchlist and symbols endpoints (one statement each); application wiring and rate limiting; pages of the frontend other than
  the Screener and the dashboard hook (forms and tables over one request each); the Python service; `ai-engine` (empty files);
  deployment files; `services/trade.service.js`, which nothing requires.

About half of the implementation is the frontend, most of it markup, styles and translations; that is why the lines modelled are a small share of it all.

## 8. Plan

1. **Core of trading** (present): `LiveOrders`, `Idempotency` over `OncePerKey`, `KillSwitch`, `PaperAccount`, `AutoTrader`, `Portfolio` over
   `Ledger`, each with its proofs.
2. **What users are told** (present): `Alerts`, `Scans`, `Dashboard`, `Outcomes`, `Backtest`, each with its proofs.
3. Left: **LiveTrading**, the composition of `KillSwitch`, `Idempotency` and `LiveOrders` for one order, with the abstract specification *an
   intent becomes at most one order at the exchange* and a proof that the composition implements it.
