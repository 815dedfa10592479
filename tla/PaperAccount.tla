---------------------------- MODULE PaperAccount ----------------------------
(***************************************************************************)
(* The paper account of one user on his exchanges: orders that check the   *)
(* risk limits and write their position under the user's order lock        *)
(* (utils/orderLock.js, riskGuard.checkOrder, openPaperTrade), the closes  *)
(* by hand and by the SL/TP monitor, the cancellation, and the pool of     *)
(* database connections they all use.  Equity and exposure are those of    *)
(* one exchange, the loss of the day is that of all of them.               *)
(*                                                                         *)
(* An order opens at most one row of paper_trades and stands for it.       *)
(* Levels of a bracket are one tick from the entry.                        *)
(***************************************************************************)
EXTENDS Integers, FiniteSets, FiniteSetsExt, Functions

CONSTANTS
    Orders,
    Earlier,            \* those whose rows are open from the start
    Closers,            \* POST .../paper-trades/:tradeId/close
    Monitor,            \* the caller paperTradeMonitor of closePaperTrade
    Prices,             \* of the one symbol traded, the same at every exchange
    Exchanges,
    Exchange, Side, Quantity,   \* of the orders
    WithStop,           \* orders that carry a stop-loss (their own or the default one)
    WithTarget,         \* orders that carry a take-profit
    PAPER_START_CAPITAL,
    MaxPositionPct, MaxExposurePct, MaxLossPct,    \* user_settings; 0 or less: disabled
    PoolSize,           \* DB_POOL_MAX
    None,
    MaxDisturbances     \* faults, cancellations and changes of day of a behaviour

ASSUME AccountAssumption ==
    /\ IsFiniteSet(Orders) /\ Earlier \subseteq Orders
    /\ Monitor \notin Closers
    /\ Prices \subseteq Nat \ {0}
    /\ Exchange \in [Orders -> Exchanges]
    /\ Side \in [Orders -> {"buy", "sell"}]
    /\ Quantity \in [Orders -> Nat \ {0}]
    /\ PAPER_START_CAPITAL \in Nat
    /\ {MaxPositionPct, MaxExposurePct, MaxLossPct} \subseteq Int
    /\ PoolSize \in Nat \ {0}
    /\ MaxDisturbances \in Nat
    /\ None \notin Prices \cup Orders \cup Int

VARIABLES
    \* rows of paper_trades
    status,     \* "none" before the INSERT
    entry,      \* price
    pnl,        \* None until the row is closed
    today,      \* rows whose closed_at is of today
    \* requests of POST /api/trading/order, from the paper branch on
    stage,      \* stage[o]: what order o does next, or how it ended
    ref,        \* refPrice: the limit price, or the market's when getReferencePrice asked
    equity,     \* equity, as riskGuard read it
    lock,       \* the order that holds the advisory lock
    told,       \* an order of today was refused with RISK_DAILY_LOSS
    late,       \* late[o]: told when o took the lock
    lossy,      \* lossy[o]: since o took the lock the loss limit of its exchange has been reached, and no
                \* result made the day better without showing in its equity (LossWatched)
    \* closePaperTrade
    step,       \* step[x]: what the call of x does next
    target,     \* target[x]: the row it closes
    at,         \* at[x]: closePrice
    \* checkAndCloseTriggeredTrades
    batch,      \* rows read at the start of the cycle and not yet handled; isRunning while not empty
    seen,       \* seen[e]: priceCache of the symbol at e
    \* environment
    price,
    disturbances

rows == <<status, entry, pnl, today>>
requests == <<stage, ref, equity, lock>>
ghosts == <<told, late, lossy>>
closes == <<step, target, at>>
monitor == <<batch, seen>>
world == <<price, disturbances>>
vars == <<rows, requests, ghosts, closes, monitor, world>>

Callers == Closers \cup {Monitor}
InLock == {"equity", "exposure", "loss", "insert"}
InTransaction == InLock \cup {"lock"}
Ended == {"opened", "refused", "busy", "failed", "dead"}

Free == PoolSize - Cardinality({o \in Orders : stage[o] \in InTransaction})

\* pnl of row o closed at p, as closePaperTrade computes it.
Gain(o, p) == (IF Side[o] = "buy" THEN p - entry[o] ELSE entry[o] - p) * Quantity[o]

\* checkTrigger: the stop-loss or the take-profit of row o is reached at p.
checkTrigger(o, p) ==
    \/ o \in WithStop /\ Gain(o, p) < 0
    \/ o \in WithTarget /\ Gain(o, p) > 0

AtExchange(e) == {o \in Orders : Exchange[o] = e}
Realised(S) == SumFunctionOnSet(pnl, {o \in S : status[o] = "closed"})
getEquity(e) == Max({0, PAPER_START_CAPITAL + Realised(AtExchange(e))})
OpenRows(e) == {o \in AtExchange(e) : status[o] = "open"}
openPaperNotional(e) == SumFunctionOnSet([o \in OpenRows(e) |-> entry[o] * Quantity[o]], OpenRows(e))
todayRealisedPaperPnl == Realised(today)

\* todayPnl has reached MaxLossPct of base.
LossReached(loss, base) == MaxLossPct > 0 /\ loss < 0 /\ 100 * (-loss) >= MaxLossPct * base

Init ==
    /\ ref \in [Orders -> Prices]
    /\ status = [o \in Orders |-> IF o \in Earlier THEN "open" ELSE "none"]
    /\ stage = [o \in Orders |-> IF o \in Earlier THEN "opened" ELSE "client"]
    /\ entry = [o \in Orders |-> IF o \in Earlier THEN ref[o] ELSE None]
    /\ pnl = [o \in Orders |-> None] /\ today = {}
    /\ equity = [o \in Orders |-> None] /\ lock = None
    /\ told = FALSE /\ late = [o \in Orders |-> FALSE] /\ lossy = [o \in Orders |-> FALSE]
    /\ step = [x \in Callers |-> "idle"] /\ target = [x \in Callers |-> None]
    /\ at = [x \in Callers |-> None]
    /\ batch = {} /\ seen = [e \in Exchanges |-> None]
    /\ price \in Prices
    /\ disturbances = 0

Disturbance ==
    /\ disturbances < MaxDisturbances
    /\ disturbances' = disturbances + 1
    /\ UNCHANGED price

\* The loss of the day has reached the limit of exchange e.
DayIsLost(e) == LossReached(todayRealisedPaperPnl, getEquity(e))

\* What the result of the day counts and the equity of e does not, less what the equity counts of other days.
Elsewhere(e) == todayRealisedPaperPnl - Realised(AtExchange(e))

\* A result is booked or cancelled: the limit may be reached no more, and the day may have become
\* better by more than the equity of the order's exchange.
LossWatched ==
    lossy' = [o \in Orders |-> /\ lossy[o] /\ DayIsLost(Exchange[o])'
                               /\ Elsewhere(Exchange[o])' <= Elsewhere(Exchange[o])]

Move(o, s) == stage' = [stage EXCEPT ![o] = s]

\* COMMIT or ROLLBACK: the lock and the connection are given back.
EndTransaction(o, s) == Move(o, s) /\ lock' = None

-----------------------------------------------------------------------------
(* placeOrder, paper branch                                                *)

\* withUserOrderLock: a connection of the pool, BEGIN ...
GetClient(o) ==
    /\ stage[o] = "client" /\ Free > 0
    /\ Move(o, "lock")
    /\ UNCHANGED <<rows, ref, equity, lock, ghosts, closes, monitor, world>>

\* connectionTimeoutMillis: the pool is with the user's other orders, or with other requests.
ConnectTimeout(o) ==
    /\ stage[o] = "client"
    /\ \/ Free = 0 /\ UNCHANGED world
       \/ Free > 0 /\ Disturbance
    /\ Move(o, "failed")
    /\ UNCHANGED <<rows, ref, equity, lock, ghosts, closes, monitor>>

\* Bug: no lock.
TakeNoLock(o) ==
    /\ stage[o] = "lock"
    /\ lock' = o
    /\ Move(o, "equity")
    /\ late' = [late EXCEPT ![o] = told]
    /\ lossy' = [lossy EXCEPT ![o] = DayIsLost(Exchange[o])]
    /\ UNCHANGED <<rows, ref, equity, told, closes, monitor, world>>

\* ... pg_advisory_xact_lock
TakeLock(o) ==
    /\ stage[o] = "lock" /\ lock = None
    /\ lock' = o
    /\ Move(o, "equity")
    /\ late' = [late EXCEPT ![o] = told]
    /\ lossy' = [lossy EXCEPT ![o] = DayIsLost(Exchange[o])]
    /\ UNCHANGED <<rows, ref, equity, told, closes, monitor, world>>

\* lock_timeout: 503 ORDER_BUSY
LockTimeout(o) ==
    /\ stage[o] = "lock" /\ lock # None
    /\ Move(o, "busy")
    /\ UNCHANGED <<rows, ref, equity, lock, ghosts, closes, monitor, world>>

Notional(o) == Quantity[o] * ref[o]

\* checkOrder: getEquity, then the limit on the position.
ReadEquity(o) ==
    /\ stage[o] = "equity"
    /\ equity' = [equity EXCEPT ![o] = getEquity(Exchange[o])]
    /\ IF MaxPositionPct > 0 /\ 100 * Notional(o) > MaxPositionPct * getEquity(Exchange[o])
       THEN EndTransaction(o, "refused")
       ELSE Move(o, "exposure") /\ UNCHANGED lock
    /\ UNCHANGED <<rows, ref, ghosts, closes, monitor, world>>

\* Bug: the reads of the check go through the pool.
ReadThroughPool(o) ==
    /\ stage[o] = "exposure" /\ Free > 0
    /\ IF /\ equity[o] > 0 /\ MaxExposurePct > 0
          /\ 100 * (openPaperNotional(Exchange[o]) + Notional(o)) > MaxExposurePct * equity[o]
       THEN EndTransaction(o, "refused")
       ELSE Move(o, "loss") /\ UNCHANGED lock
    /\ UNCHANGED <<rows, ref, equity, ghosts, closes, monitor, world>>

\* openPaperNotional, and the limit on the total exposure; not looked at when the equity is 0.
ReadExposure(o) ==
    /\ stage[o] = "exposure"
    /\ IF /\ equity[o] > 0 /\ MaxExposurePct > 0
          /\ 100 * (openPaperNotional(Exchange[o]) + Notional(o)) > MaxExposurePct * equity[o]
       THEN EndTransaction(o, "refused")
       ELSE Move(o, "loss") /\ UNCHANGED lock
    /\ UNCHANGED <<rows, ref, equity, ghosts, closes, monitor, world>>

\* Bug: the loss is compared with the capital of the first day.
LossOfStart(o) ==
    /\ stage[o] = "loss"
    /\ IF LossReached(todayRealisedPaperPnl, PAPER_START_CAPITAL)
       THEN EndTransaction(o, "refused") /\ told' = TRUE
       ELSE Move(o, "insert") /\ UNCHANGED <<lock, told>>
    /\ UNCHANGED <<rows, ref, equity, late, lossy, closes, monitor, world>>

\* todayRealisedPaperPnl, and the limit on the loss of the day.
ReadLoss(o) ==
    /\ stage[o] = "loss"
    /\ IF LossReached(todayRealisedPaperPnl, equity[o])
       THEN EndTransaction(o, "refused") /\ told' = TRUE
       ELSE Move(o, "insert") /\ UNCHANGED <<lock, told>>
    /\ UNCHANGED <<rows, ref, equity, late, lossy, closes, monitor, world>>

\* openPaperTrade and COMMIT.
OpenTrade(o) ==
    /\ stage[o] = "insert"
    /\ status' = [status EXCEPT ![o] = "open"]
    /\ entry' = [entry EXCEPT ![o] = ref[o]]
    /\ EndTransaction(o, "opened")
    /\ UNCHANGED <<pnl, today, ref, equity, ghosts, closes, monitor, world>>

\* A statement fails: ROLLBACK, 500.
TransactionFails(o) ==
    /\ stage[o] \in InTransaction
    /\ Disturbance
    /\ Move(o, "failed")
    /\ lock' = IF lock = o THEN None ELSE lock
    /\ UNCHANGED <<rows, ref, equity, ghosts, closes, monitor>>

\* COMMIT took effect and its answer is lost: 500, and the position is open.
CommitAckLost(o) ==
    /\ stage[o] = "insert"
    /\ Disturbance
    /\ status' = [status EXCEPT ![o] = "open"]
    /\ entry' = [entry EXCEPT ![o] = ref[o]]
    /\ EndTransaction(o, "failed")
    /\ UNCHANGED <<pnl, today, ref, equity, ghosts, closes, monitor>>

-----------------------------------------------------------------------------
(* closePaperTrade                                                         *)

\* The call of x has ended; the monitor goes on with its next row.
Return(x) ==
    /\ step' = [step EXCEPT ![x] = IF x = Monitor THEN "idle" ELSE "done"]
    /\ target' = [target EXCEPT ![x] = None] /\ at' = [at EXCEPT ![x] = None]
    /\ batch' = IF x = Monitor THEN batch \ {target[x]} ELSE batch

\* A user closes row o at the price the request names.
CloseRequest(c) ==
    /\ step[c] = "idle"
    /\ \E o \in Orders, p \in Prices :
          /\ status[o] # "none"
          /\ target' = [target EXCEPT ![c] = o] /\ at' = [at EXCEPT ![c] = p]
    /\ step' = [step EXCEPT ![c] = "select"]
    /\ UNCHANGED <<rows, requests, ghosts, monitor, world>>

\* SELECT of the open row; 404 without one.
CloseSelect(x) ==
    /\ step[x] = "select" /\ Free > 0
    /\ IF status[target[x]] = "open"
       THEN step' = [step EXCEPT ![x] = "update"] /\ UNCHANGED <<target, at, batch>>
       ELSE Return(x)
    /\ UNCHANGED <<rows, requests, ghosts, seen, world>>

\* Bug: the UPDATE has no guard on the status.
CloseAnyway(x) ==
    /\ step[x] = "update" /\ Free > 0
    /\ Return(x)
    /\ LET o == target[x] IN
       /\ status' = [status EXCEPT ![o] = "closed"]
       /\ pnl' = [pnl EXCEPT ![o] = Gain(o, at[x])]
       /\ today' = today \cup {o}
       /\ UNCHANGED entry
    /\ UNCHANGED <<requests, told, late, seen, world>>
    /\ LossWatched

\* UPDATE ... WHERE status = 'open'; 404 when it matches no row.
CloseUpdate(x) ==
    /\ step[x] = "update" /\ Free > 0
    /\ Return(x)
    /\ LET o == target[x] IN
       IF status[o] = "open"
       THEN /\ status' = [status EXCEPT ![o] = "closed"]
            /\ pnl' = [pnl EXCEPT ![o] = Gain(o, at[x])]
            /\ today' = today \cup {o}
            /\ UNCHANGED entry
       ELSE UNCHANGED rows
    /\ UNCHANGED <<requests, told, late, seen, world>>
    /\ LossWatched

\* Bug: a failure ends the cycle and isRunning stays set.
FailureKeepsRunning(x) ==
    /\ step[x] \in {"select", "update"}
    /\ Disturbance
    /\ step' = [step EXCEPT ![x] = "done"]
    /\ UNCHANGED <<rows, requests, ghosts, target, at, monitor>>

\* A statement fails without effect: 500, or caught by the monitor's loop.
CloseFails(x) ==
    /\ step[x] \in {"select", "update"}
    /\ Disturbance
    /\ Return(x)
    /\ UNCHANGED <<rows, requests, ghosts, seen>>

\* cancelOrder, paper branch: whatever the status of the row.
CancelPaper(o) ==
    /\ status[o] # "none" /\ Free > 0
    /\ Disturbance
    /\ status' = [status EXCEPT ![o] = "cancelled"]
    /\ today' = today \cup {o}
    /\ UNCHANGED <<entry, pnl, requests, told, late, closes, monitor>>
    /\ LossWatched

-----------------------------------------------------------------------------
(* paperTradeMonitor                                                       *)

\* The timer fires and no cycle is running: getOpenBracketTrades.
MonitorTick ==
    /\ batch = {} /\ Free > 0
    /\ batch' = {o \in Orders : status[o] = "open" /\ o \in WithStop \cup WithTarget}
    /\ batch' # {}
    /\ seen' = [e \in Exchanges |-> None]
    /\ UNCHANGED <<rows, requests, ghosts, closes, world>>

\* getCurrentPrice, once per cycle and exchange, when a row of it is next.
MonitorPrice(e) ==
    /\ batch \cap AtExchange(e) # {} /\ seen[e] = None /\ step[Monitor] = "idle"
    /\ seen' = [seen EXCEPT ![e] = price]
    /\ UNCHANGED <<rows, requests, ghosts, closes, batch, world>>

\* null: the rows of the symbol at this exchange wait for the next cycle.
MonitorPriceFails(e) ==
    /\ batch \cap AtExchange(e) # {} /\ seen[e] = None /\ step[Monitor] = "idle"
    /\ Disturbance
    /\ batch' = batch \ AtExchange(e)
    /\ UNCHANGED <<rows, requests, ghosts, closes, seen>>

\* checkTrigger of the next row, with the copy and the price of this cycle.
MonitorRow(o) ==
    /\ o \in batch /\ seen[Exchange[o]] # None /\ step[Monitor] = "idle"
    /\ IF checkTrigger(o, seen[Exchange[o]])
       THEN /\ step' = [step EXCEPT ![Monitor] = "select"]
            /\ target' = [target EXCEPT ![Monitor] = o] /\ at' = [at EXCEPT ![Monitor] = seen[Exchange[o]]]
            /\ UNCHANGED batch
       ELSE batch' = batch \ {o} /\ UNCHANGED closes
    /\ UNCHANGED <<rows, requests, ghosts, seen, world>>

-----------------------------------------------------------------------------
PriceMoves ==
    /\ \E p \in Prices \ {price} : price' = p
    /\ UNCHANGED <<rows, requests, ghosts, closes, monitor, disturbances>>

\* Midnight: nothing is of today any more.
NewDay ==
    /\ Disturbance
    /\ today' = {}
    /\ told' = FALSE
    /\ late' = [o \in Orders |-> FALSE]
    /\ lossy' = [o \in Orders |-> FALSE]
    /\ UNCHANGED <<status, entry, pnl, requests, closes, monitor>>

\* The server stops and starts: requests die, their transactions are rolled back.
Crash ==
    /\ Disturbance
    /\ stage' = [o \in Orders |-> IF stage[o] \in Ended THEN stage[o] ELSE "dead"]
    /\ lock' = None
    /\ step' = [x \in Callers |-> IF x = Monitor \/ step[x] = "idle" THEN "idle" ELSE "done"]
    /\ target' = [x \in Callers |-> None] /\ at' = [x \in Callers |-> None]
    /\ batch' = {} /\ seen' = [e \in Exchanges |-> None]
    /\ UNCHANGED <<rows, ref, equity, ghosts>>

checkOrder(o) == ReadEquity(o) \/ ReadExposure(o) \/ ReadLoss(o)
withUserOrderLock(o) ==
    \/ GetClient(o) \/ ConnectTimeout(o) \/ TakeLock(o) \/ LockTimeout(o)
    \/ checkOrder(o) \/ OpenTrade(o) \/ TransactionFails(o) \/ CommitAckLost(o)
closePaperTrade(x) == CloseSelect(x) \/ CloseUpdate(x) \/ CloseFails(x)
checkAndCloseTriggeredTrades ==
    \/ MonitorTick
    \/ \E e \in Exchanges : MonitorPrice(e) \/ MonitorPriceFails(e)
    \/ \E o \in Orders : MonitorRow(o)

Next ==
    \/ \E o \in Orders : withUserOrderLock(o) \/ CancelPaper(o)
    \/ \E c \in Closers : CloseRequest(c)
    \/ \E x \in Callers : closePaperTrade(x)
    \/ checkAndCloseTriggeredTrades
    \/ PriceMoves \/ NewDay \/ Crash

Spec == Init /\ [][Next]_vars

\* A request that has begun goes on whenever it can, the statements are answered, and the timer keeps
\* calling the monitor.  Nothing makes a timeout, a fault, a cancellation or a new request happen.
Fairness ==
    /\ \A o \in Orders : WF_vars(GetClient(o) \/ TakeLock(o) \/ checkOrder(o) \/ OpenTrade(o))
    /\ \A x \in Callers : WF_vars(CloseSelect(x) \/ CloseUpdate(x))
    /\ WF_vars(MonitorTick)
    /\ WF_vars(\/ \E e \in Exchanges : MonitorPrice(e)
               \/ \E o \in Orders : MonitorRow(o))

FairSpec == Spec /\ Fairness

-----------------------------------------------------------------------------
\* The types of all variables but equity.
AccountTypes ==
    /\ status \in [Orders -> {"none", "open", "closed", "cancelled"}]
    /\ entry \in [Orders -> Prices \cup {None}]
    /\ pnl \in [Orders -> Int \cup {None}]
    /\ today \subseteq Orders
    /\ stage \in [Orders -> {"client"} \cup InTransaction \cup Ended]
    /\ ref \in [Orders -> Prices]
    /\ lock \in Orders \cup {None}
    /\ told \in BOOLEAN /\ late \in [Orders -> BOOLEAN] /\ lossy \in [Orders -> BOOLEAN]
    /\ step \in [Callers -> {"idle", "select", "update", "done"}]
    /\ target \in [Callers -> Orders \cup {None}]
    /\ at \in [Callers -> Prices \cup {None}]
    /\ batch \subseteq Orders /\ seen \in [Exchanges -> Prices \cup {None}]
    /\ price \in Prices
    /\ disturbances \in Nat

\* Every variable keeps its type; the equity is never negative.
TypeOK ==
    /\ AccountTypes
    /\ equity \in [Orders -> Nat \cup {None}]
    /\ \A o \in Orders : stage[o] \in {"exposure", "loss", "insert"} => equity[o] # None

\* The order whose check runs holds the lock, and only it.
LockInv == \A o \in Orders : stage[o] \in InLock <=> lock = o

\* An order has no row before its INSERT.
RequestInv ==
    \A o \in Orders : stage[o] \in {"client"} \cup InTransaction => status[o] = "none"

\* A row that was written has an entry, a closed one a result, an open one none; a call closes a row.
RowInv ==
    /\ \A o \in Orders : /\ status[o] # "none" => entry[o] # None
                         /\ status[o] \in {"none", "open"} => pnl[o] = None
                         /\ status[o] = "closed" => pnl[o] # None
    /\ \A x \in Callers : step[x] \in {"select", "update"} =>
            /\ target[x] # None /\ at[x] # None
            /\ status[target[x]] # "none"
    /\ \A o \in batch : status[o] # "none"

\* The inductive invariant.
IInv == AccountTypes /\ LockInv /\ RequestInv /\ RowInv

(* What the two properties of the money rest on *)

\* The equity an order read is a number; with a limit on the position, what the order costs is within it.
EquityInv ==
    /\ equity \in [Orders -> Nat \cup {None}]
    /\ \A o \in Orders : stage[o] \in {"exposure", "loss", "insert"} =>
          /\ equity[o] \in Nat
          /\ MaxPositionPct > 0 => 100 * Notional(o) <= MaxPositionPct * equity[o]

\* After the limit on the exposure, the order still fits with what is open at its exchange.
ExposureInv ==
    \A o \in Orders : stage[o] \in {"loss", "insert"} /\ MaxExposurePct > 0 /\ equity[o] > 0 =>
        100 * (openPaperNotional(Exchange[o]) + Notional(o)) <= MaxExposurePct * equity[o]

\* The start capital and the results of exchange e, without the result of the day.
Base(e) == PAPER_START_CAPITAL - Elsewhere(e)

\* eq is the equity of a base not above this one and of a result of the day that reached the limit then.
WasReached(eq, base) ==
    \E loss, before \in Int :
        /\ before <= base
        /\ eq = Max({0, before + loss})
        /\ LossReached(loss, eq)

\* While an order is watched and the limit stays reached, it was reached when the order read its equity,
\* and the base of its exchange has not become smaller.
LossInv ==
    \A o \in Orders : lossy[o] =>
        /\ DayIsLost(Exchange[o])
        /\ stage[o] \in {"exposure", "loss"} => WasReached(equity[o], Base(Exchange[o]))
        /\ stage[o] # "insert"

MoneyInv == EquityInv /\ ExposureInv /\ LossInv

\* A position that opens stays, with everything that is open at its exchange at that moment, within the
\* limit on the total exposure of the equity its check read: orders of one account that run together do
\* not all count on the same room, and what closes meanwhile only makes room.
WithinExposure ==
    [][\A o \in Orders : status[o] = "none" /\ status'[o] = "open" /\ MaxExposurePct > 0
         => 100 * openPaperNotional(Exchange[o])' <= MaxExposurePct * equity[o]]_vars

\* No position opens when the loss of the day, on all exchanges, had reached the limit of the order's
\* exchange during the whole of its check, whatever was closed or cancelled between the two reads,
\* unless it made the day better by more than that exchange's equity: a gain on another exchange, a
\* loss cancelled there, a gain of an earlier day cancelled here (riskGuard.checkOrder compares the
\* loss it reads last with the equity it read first).
LossStopsOrders ==
    [][\A o \in Orders : status[o] = "none" /\ status'[o] = "open" => ~lossy[o]]_vars

\* A row that has ended keeps its entry and its result: a close by hand, the monitor and a cancellation
\* that all hold a copy of the open row do not book it twice, nor bring it back.
EndedRowKeepsResult ==
    [][\A o \in Orders : status[o] \in {"closed", "cancelled"}
         => status'[o] # "open" /\ entry'[o] = entry[o] /\ pnl'[o] = pnl[o]]_vars

\* Every order is answered without the help of a timeout, with a pool of PoolSize connections, unless
\* the server stops: an order that holds the lock never waits for a connection.
OrdersEnd == \A o \in Orders : stage[o] = "client" ~> stage[o] \in Ended

\* A row whose level stays crossed is closed (or cancelled), whatever became of the cycles before.
Crossed(o) == status[o] = "open" /\ checkTrigger(o, price)
StopsAreHonoured == \A o \in WithStop \cup WithTarget : Crossed(o) ~> ~Crossed(o)

(* A statement of the repository that the code does not keep *)

\* docs/api.md, RISK_DAILY_LOSS: new positions are blocked until tomorrow.
LossStopsTheDay ==
    [][\A o \in Orders : status[o] = "none" /\ status'[o] = "open" => ~late[o]]_vars
=============================================================================
