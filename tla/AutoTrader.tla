----------------------------- MODULE AutoTrader -----------------------------
(***************************************************************************)
(* The auto-trader of one user on one symbol (autoTrader.service.js): each *)
(* configuration passes a backtest gate, trades signals on paper, and is   *)
(* promoted or blocked by the results that paperTradeMonitor reports.      *)
(* Backend instances run the same loops on one database; the requests of   *)
(* auto_trade.controller.js and the closes by hand come in between.        *)
(*                                                                         *)
(* The transaction of an order is one step: it runs under the user's order *)
(* lock (PaperAccount), and what the others do meanwhile is to end trades. *)
(***************************************************************************)
EXTENDS Integers, FiniteSets, FiniteSetsExt

CONSTANTS
    Configs, Backtests,
    TradeCount,             \* rows of paper_trades get their ids in the order of the INSERTs
    GoodBacktests,          \* enough trades and a positive expectancy
    Traders, Monitors,      \* instances that run runCycle, checkAndCloseTriggeredTrades
    SignalCount,            \* signals are numbered in the order of their creation
    SignalSide, CreatedAt,  \* CreatedAt[s]: in the resolution of the database
    DateUnit,               \* ... of which a JavaScript Date keeps multiples
    Gains,                  \* results of a trade
    Limits,                 \* what requests set: trades of the probation and loss of the day, 0 for no limit
    None,
    MaxDisturbances         \* requests, failures and steps of the clock together

Signals == 1..SignalCount
Trades == 1..TradeCount

ASSUME TraderAssumption ==
    /\ GoodBacktests \subseteq Backtests
    /\ TradeCount \in Nat /\ SignalCount \in Nat /\ DateUnit \in Nat \ {0}
    /\ SignalSide \in [Signals -> {"buy", "sell"}]
    /\ CreatedAt \in [Signals -> Nat]
    /\ \A s, r \in Signals : s < r => CreatedAt[s] < CreatedAt[r]
    /\ Gains \subseteq Int
    /\ Limits \subseteq [required : Nat \ {0}, loss : Nat]
    /\ MaxDisturbances \in Nat
    /\ None \notin Configs \cup Trades \cup Backtests \cup Int

VARIABLES
    \* auto_trade_configs
    status,     \* "none": not created, "deleted": its id is not used again
    enabled, link, cursor,              \* link: backtest_id; cursor: last_signal_at
    limit,                              \* of a row to come: what its request will ask
    completed, wins, pnl,               \* probation_...
    \* paper_trades
    state, owner, sig, result, today,   \* today: closed today
    \* signals and backtests
    emitted, stale, expired,            \* signals up to stale are older than SIGNAL_MAX_AGE_MS
    \* processConfig of each trader
    pc, copy, at, sgn,                  \* copy[i][c]: c as loadActiveConfigs read it, until handled
    \* monitors
    batch, due,                         \* due[j]: the result it has to record or to apply
    \* bound
    disturbances,
    \* observers
    earned,     \* configurations whose probation had passed when one of its results was counted
    off         \* off[i]: configurations disabled ever since trader i loaded

configVars == <<status, enabled, link, limit, cursor, completed, wins, pnl>>
tradeVars == <<state, owner, sig, result, today>>
world == <<emitted, stale, expired>>
traderVars == <<pc, copy, at, sgn>>
monitorVars == <<batch, due, earned>>
vars == <<configVars, tradeVars, world, traderVars, monitorVars, disturbances, off>>

Statuses == {"backtest_required", "backtest_expired", "backtest_rejected", "probation", "live", "blocked"}
Trading == {"probation", "live"}
Steps == {"next", "loss", "block", "signal", "opposing", "order", "cursor"}
MAX_OPEN_PER_CONFIG == 1

Gone == {"none", "deleted"}
Exists(c) == status[c] \notin Gone
Open(t) == state[t] = "open"
OpenOf(c) == {t \in Trades : Open(t) /\ owner[t] = c}
Copied(i) == {c \in Configs : copy[i][c] # None}

\* evaluateGate of a row as it was read.
evaluateGate(row) ==
    CASE row.link = None -> "backtest_required"
      [] row.link \in expired -> "backtest_expired"
      [] row.link # None /\ row.link \notin expired \cup GoodBacktests -> "backtest_rejected"
      [] row.link \in GoodBacktests \ expired -> IF row.status \in Trading THEN row.status ELSE "probation"

\* evaluateGraduation; None while the probation lasts.
evaluateGraduation(required, n, won, total) ==
    IF n < required THEN None
    ELSE IF 10 * won > 4 * n /\ total > 0 THEN "live" ELSE "blocked"

todayPnl(c) == MapThenSumSet(LAMBDA t : result[t], {t \in today : state[t] = "closed" /\ owner[t] = c})
\* With the limit as it was read.
dailyLossBreached(c, loss) == loss > 0 /\ todayPnl(c) < 0 /\ -todayPnl(c) >= loss

\* getFreshSignal: the fresh signals after the cursor, of which the newest counts.
Fresh(from) == {s \in Signals : stale < s /\ s <= emitted /\ (from # None => CreatedAt[s] > from)}

hasOpposingOpenPosition(s) == \E t \in Trades : Open(t) /\ SignalSide[sig[t]] # SignalSide[s]

\* A timestamp that goes through a Date.
Truncated(time) == (time \div DateUnit) * DateUnit

Init ==
    /\ status \in [Configs -> {"none", "backtest_required"}]
    /\ enabled = [c \in Configs |-> status[c] # "none"]
    /\ link \in [Configs -> Backtests \cup {None}]
    /\ \A c \in Configs : status[c] = "none" => link[c] = None
    /\ limit \in [Configs -> Limits]
    /\ cursor = [c \in Configs |-> None]
    /\ completed = [c \in Configs |-> 0] /\ wins = completed /\ pnl = completed
    /\ state = [t \in Trades |-> "none"] /\ owner = [t \in Trades |-> None]
    /\ sig = owner /\ result = owner /\ today = {}
    /\ emitted = 0 /\ stale = 0 /\ expired = {}
    /\ pc = [i \in Traders |-> "next"] /\ copy = [i \in Traders |-> [c \in Configs |-> None]]
    /\ at = [i \in Traders |-> None] /\ sgn = at
    /\ batch = [j \in Monitors |-> {}] /\ due = [j \in Monitors |-> None]
    /\ disturbances = 0
    /\ earned = {} /\ off = [i \in Traders |-> {}]

Disturbance == disturbances < MaxDisturbances /\ disturbances' = disturbances + 1

-----------------------------------------------------------------------------
(* runCycle, processConfig                                                 *)

\* Bug: a paused configuration is loaded too.
LoadPaused(i) ==
    /\ pc[i] = "next" /\ Copied(i) = {}
    /\ copy' = [copy EXCEPT ![i] = [c \in Configs |->
          IF status[c] \notin Gone \cup {"blocked"}
          THEN [status |-> status[c], link |-> link[c], cursor |-> cursor[c], loss |-> limit[c].loss] ELSE None]]
    /\ off' = [off EXCEPT ![i] = {c \in Configs : ~enabled[c]}]
    /\ UNCHANGED <<configVars, tradeVars, world, pc, at, sgn, monitorVars, disturbances>>

\* The timer fires and no cycle is running.
loadActiveConfigs(i) ==
    /\ pc[i] = "next" /\ Copied(i) = {}
    /\ copy' = [copy EXCEPT ![i] = [c \in Configs |->
          IF enabled[c] /\ status[c] \notin Gone \cup {"blocked"}
          THEN [status |-> status[c], link |-> link[c], cursor |-> cursor[c], loss |-> limit[c].loss] ELSE None]]
    /\ off' = [off EXCEPT ![i] = {c \in Configs : ~enabled[c]}]
    /\ UNCHANGED <<configVars, tradeVars, world, pc, at, sgn, monitorVars, disturbances>>

Go(i, step) == pc' = [pc EXCEPT ![i] = step]

\* processConfig returns or throws: the next configuration.
Done(i) ==
    /\ Go(i, "next")
    /\ copy' = [copy EXCEPT ![i][at[i]] = None]
    /\ at' = [at EXCEPT ![i] = None] /\ sgn' = [sgn EXCEPT ![i] = None]

\* An UPDATE of the status by id, whatever the status is; no row, no effect.
SetStatus(c, new) == status' = [status EXCEPT ![c] = IF Exists(c) THEN new ELSE @]

\* The gate, and its UPDATE when the result differs from the status that was read.
Evaluate(i, c) ==
    /\ pc[i] = "next" /\ copy[i][c] # None
    /\ LET new == evaluateGate(copy[i][c]) IN
       /\ IF new # copy[i][c].status THEN SetStatus(c, new) ELSE UNCHANGED status
       /\ IF new \in Trading
          THEN Go(i, "loss") /\ at' = [at EXCEPT ![i] = c] /\ UNCHANGED copy
          ELSE copy' = [copy EXCEPT ![i][c] = None] /\ UNCHANGED <<pc, at>>
    /\ UNCHANGED <<enabled, link, limit, cursor, completed, wins, pnl, tradeVars, world, sgn, monitorVars, disturbances,
                   off>>

CheckLoss(i) ==
    /\ pc[i] = "loss"
    /\ Go(i, IF dailyLossBreached(at[i], copy[i][at[i]].loss) THEN "block" ELSE "signal")
    /\ UNCHANGED <<configVars, tradeVars, world, copy, at, sgn, monitorVars, disturbances, off>>

Block(i) ==
    /\ pc[i] = "block"
    /\ SetStatus(at[i], "blocked")
    /\ Done(i)
    /\ UNCHANGED <<enabled, link, limit, cursor, completed, wins, pnl, tradeVars, world, monitorVars, disturbances, off>>

\* countOpenTradesForConfig, getFreshSignal
PickSignal(i) ==
    /\ pc[i] = "signal"
    /\ LET fresh == Fresh(copy[i][at[i]].cursor) IN
       IF Cardinality(OpenOf(at[i])) >= MAX_OPEN_PER_CONFIG \/ fresh = {}
       THEN Done(i)
       ELSE /\ \E s \in fresh : (\A r \in fresh : r <= s) /\ sgn' = [sgn EXCEPT ![i] = s]
            /\ Go(i, "opposing") /\ UNCHANGED <<copy, at>>
    /\ UNCHANGED <<configVars, tradeVars, world, monitorVars, disturbances, off>>

\* hasOpposingOpenPosition; then killSwitch.isEngagedFresh, whatever it answers (KillSwitch).
CheckOpposing(i) ==
    /\ pc[i] = "opposing"
    /\ \/ Done(i)
       \/ ~hasOpposingOpenPosition(sgn[i]) /\ Go(i, "order") /\ UNCHANGED <<copy, at, sgn>>
    /\ UNCHANGED <<configVars, tradeVars, world, monitorVars, disturbances, off>>

Duplicate(c, s) == \E t \in Trades : owner[t] = c /\ sig[t] = s

\* The transaction: dup, open, riskGuard.checkOrder accepts, the row and its link to the configuration.
Insert(i) ==
    \E t \in Trades :
        /\ {u \in Trades : state[u] = "none"} = t..TradeCount
        /\ state' = [state EXCEPT ![t] = "open"]
        /\ owner' = [owner EXCEPT ![t] = at[i]]
        /\ sig' = [sig EXCEPT ![t] = sgn[i]]
        /\ UNCHANGED <<result, today>>

\* Bug: only the cursor keeps a signal from being traded twice.
CursorOnly(i) ==
    /\ pc[i] = "order"
    /\ Cardinality(OpenOf(at[i])) < MAX_OPEN_PER_CONFIG
    /\ Exists(at[i])
    /\ Insert(i)
    /\ Go(i, "cursor")
    /\ UNCHANGED <<configVars, world, copy, at, sgn, monitorVars, disturbances, off>>

\* Bug: the open trades are counted before the lock only.
CountOutside(i) ==
    /\ pc[i] = "order"
    /\ ~Duplicate(at[i], sgn[i])
    /\ Exists(at[i])
    /\ Insert(i)
    /\ Go(i, "cursor")
    /\ UNCHANGED <<configVars, world, copy, at, sgn, monitorVars, disturbances, off>>

OpenTrade(i) ==
    /\ pc[i] = "order"
    /\ ~Duplicate(at[i], sgn[i])
    /\ Cardinality(OpenOf(at[i])) < MAX_OPEN_PER_CONFIG
    /\ Exists(at[i])
    /\ Insert(i)
    /\ Go(i, "cursor")
    /\ UNCHANGED <<configVars, world, copy, at, sgn, monitorVars, disturbances, off>>

SkipDuplicate(i) ==
    /\ pc[i] = "order"
    /\ Duplicate(at[i], sgn[i])
    /\ Go(i, "cursor")
    /\ UNCHANGED <<configVars, tradeVars, world, copy, at, sgn, monitorVars, disturbances, off>>

\* max_open, the limits of the user (whatever they are), the lock is busy, or the row is gone and the
\* foreign key refuses the link: nothing is written.
SkipOrder(i) ==
    /\ pc[i] = "order"
    /\ ~Duplicate(at[i], sgn[i])
    /\ Done(i)
    /\ UNCHANGED <<configVars, tradeVars, world, monitorVars, disturbances, off>>

AdvanceCursor(i) ==
    /\ pc[i] = "cursor"
    /\ cursor' = [cursor EXCEPT ![at[i]] = IF Exists(at[i]) THEN Truncated(CreatedAt[sgn[i]]) ELSE @]
    /\ Done(i)
    /\ UNCHANGED <<status, enabled, link, limit, completed, wins, pnl, tradeVars, world, monitorVars, disturbances, off>>

\* A statement fails without effect.
TraderFails(i) ==
    /\ pc[i] # "next"
    /\ Disturbance
    /\ Done(i)
    /\ UNCHANGED <<configVars, tradeVars, world, monitorVars, off>>

-----------------------------------------------------------------------------
(* checkAndCloseTriggeredTrades, recordProbationResult                     *)

\* Every trade carries the levels of its signal.
MonitorTick(j) ==
    /\ batch[j] = {} /\ due[j] = None
    /\ batch' = [batch EXCEPT ![j] = {<<t, owner[t]>> : t \in {u \in Trades : Open(u)}}]
    /\ batch'[j] # {}
    /\ UNCHANGED <<configVars, tradeVars, world, traderVars, due, earned, disturbances, off>>

End(t, how) ==
    /\ state' = [state EXCEPT ![t] = how]
    /\ today' = today \cup {t}
    /\ UNCHANGED <<owner, sig>>

\* Bug: a trade that somebody else has closed meanwhile is recorded again.
CloseAgain(j, t, c) ==
    /\ due[j] = None /\ <<t, c>> \in batch[j]
    /\ batch' = [batch EXCEPT ![j] = @ \ {<<t, c>>}]
    /\ \E g \in Gains :
          /\ End(t, "closed") /\ result' = [result EXCEPT ![t] = g]
          /\ due' = [due EXCEPT ![j] = IF c = None THEN None ELSE [config |-> c, gain |-> g]]
    /\ UNCHANGED <<configVars, world, traderVars, earned, disturbances, off>>

\* A level is reached: closePaperTrade writes the open row, and throws when it is not open any more.
CloseTriggered(j, t, c) ==
    /\ due[j] = None /\ <<t, c>> \in batch[j]
    /\ batch' = [batch EXCEPT ![j] = @ \ {<<t, c>>}]
    /\ IF Open(t)
       THEN \E g \in Gains :
              /\ End(t, "closed") /\ result' = [result EXCEPT ![t] = g]
              /\ due' = [due EXCEPT ![j] = IF c = None THEN None ELSE [config |-> c, gain |-> g]]
       ELSE UNCHANGED <<tradeVars, due>>
    /\ UNCHANGED <<configVars, world, traderVars, earned, disturbances, off>>

\* No price, no level reached, or a failure.
LeaveOpen(j, t, c) ==
    /\ due[j] = None /\ <<t, c>> \in batch[j]
    /\ batch' = [batch EXCEPT ![j] = @ \ {<<t, c>>}]
    /\ UNCHANGED <<configVars, tradeVars, world, traderVars, due, earned, disturbances, off>>

\* The probation of c has the trades now required, won more than 4 of 10 and made a profit.
Passed(c) == completed[c] >= limit[c].required /\ 10 * wins[c] > 4 * completed[c] /\ pnl[c] > 0

\* UPDATE ... WHERE status = 'probation' RETURNING the row, and evaluateGraduation of the row returned.
RecordResult(j) ==
    /\ due[j] # None /\ "gain" \in DOMAIN due[j]
    /\ LET c == due[j].config
           g == due[j].gain
           won == wins[c] + (IF g > 0 THEN 1 ELSE 0)
           verdict == evaluateGraduation(limit[c].required, completed[c] + 1, won, pnl[c] + g)
       IN IF status[c] = "probation"
          THEN /\ completed' = [completed EXCEPT ![c] = @ + 1]
               /\ wins' = [wins EXCEPT ![c] = won]
               /\ pnl' = [pnl EXCEPT ![c] = @ + g]
               /\ due' = [due EXCEPT ![j] = IF verdict = None THEN None ELSE [config |-> c, verdict |-> verdict]]
               /\ UNCHANGED limit
               /\ earned' = earned \cup {d \in {c} : Passed(d)'}
          ELSE due' = [due EXCEPT ![j] = None] /\ UNCHANGED <<limit, completed, wins, pnl, earned>>
    /\ UNCHANGED <<status, enabled, link, cursor, tradeVars, world, traderVars, batch, disturbances, off>>

\* The second UPDATE, by id only.
Graduate(j) ==
    /\ due[j] # None /\ "verdict" \in DOMAIN due[j]
    /\ SetStatus(due[j].config, due[j].verdict)
    /\ due' = [due EXCEPT ![j] = None]
    /\ UNCHANGED <<enabled, link, limit, cursor, completed, wins, pnl, tradeVars, world, traderVars, batch, earned,
                   disturbances, off>>

MonitorFails(j) ==
    /\ due[j] # None
    /\ Disturbance
    /\ due' = [due EXCEPT ![j] = None]
    /\ UNCHANGED <<configVars, tradeVars, world, traderVars, batch, earned, off>>

\* An instance stops and starts: its loops forget what they were doing.
Crash(i) ==
    /\ Disturbance
    /\ pc' = [k \in Traders |-> IF k = i THEN "next" ELSE pc[k]]
    /\ copy' = [k \in Traders |-> IF k = i THEN [c \in Configs |-> None] ELSE copy[k]]
    /\ at' = [k \in Traders |-> IF k = i THEN None ELSE at[k]]
    /\ sgn' = [k \in Traders |-> IF k = i THEN None ELSE sgn[k]]
    /\ batch' = [k \in Monitors |-> IF k = i THEN {} ELSE batch[k]]
    /\ due' = [k \in Monitors |-> IF k = i THEN None ELSE due[k]]
    /\ UNCHANGED <<configVars, tradeVars, world, earned, off>>

-----------------------------------------------------------------------------
(* Requests of the user                                                    *)

\* Configurations that a request enables are off for no cycle.
Enabling(S) == off' = [i \in Traders |-> off[i] \ S]

\* A row that exists keeps its limits.
createConfig(c, b) ==
    /\ status[c] # "deleted"
    /\ Disturbance
    /\ enabled' = [enabled EXCEPT ![c] = TRUE]
    /\ link' = [link EXCEPT ![c] = b]
    /\ status' = [status EXCEPT ![c] = IF Exists(c) THEN @ ELSE "backtest_required"]
    /\ Enabling({c})
    /\ UNCHANGED <<limit, cursor, completed, wins, pnl, tradeVars, world, traderVars, monitorVars>>

\* COALESCE: what the request leaves out stays, and a limit on the loss is never taken away.
updateConfig(c, e, b) ==
    /\ Exists(c)
    /\ Disturbance
    /\ \E new \in Limits : /\ new.loss = 0 => limit[c].loss = 0
                          /\ limit' = [limit EXCEPT ![c] = new]
    /\ enabled' = [enabled EXCEPT ![c] = e]
    /\ link' = [link EXCEPT ![c] = b]
    /\ IF e THEN Enabling({c}) ELSE UNCHANGED off
    /\ UNCHANGED <<status, cursor, completed, wins, pnl, tradeVars, world, traderVars, monitorVars>>

\* The row goes, its trades stay and lose their link (ON DELETE SET NULL).
deleteConfig(c) ==
    /\ Exists(c)
    /\ Disturbance
    /\ status' = [status EXCEPT ![c] = "deleted"]
    /\ enabled' = [enabled EXCEPT ![c] = FALSE]
    /\ owner' = [t \in Trades |-> IF owner[t] = c THEN None ELSE owner[t]]
    /\ UNCHANGED <<link, limit, cursor, completed, wins, pnl, state, sig, result, today, world, traderVars, monitorVars,
                   off>>

pauseAll ==
    /\ Disturbance
    /\ enabled' = [c \in Configs |-> FALSE]
    /\ UNCHANGED <<status, link, limit, cursor, completed, wins, pnl, tradeVars, world, traderVars, monitorVars, off>>

resumeAll ==
    /\ Disturbance
    /\ enabled' = [c \in Configs |-> Exists(c)]
    /\ Enabling({c \in Configs : Exists(c) /\ ~enabled[c]})
    /\ UNCHANGED <<status, link, limit, cursor, completed, wins, pnl, tradeVars, world, traderVars, monitorVars>>

\* A close by hand; nothing is recorded.
CloseByHand(t) ==
    /\ Open(t)
    /\ Disturbance
    /\ End(t, "closed")
    /\ \E g \in Gains : result' = [result EXCEPT ![t] = g]
    /\ UNCHANGED <<configVars, world, traderVars, monitorVars, off>>

Cancel(t) ==
    /\ state[t] # "none"
    /\ Disturbance
    /\ End(t, "cancelled") /\ UNCHANGED result
    /\ UNCHANGED <<configVars, world, traderVars, monitorVars, off>>

-----------------------------------------------------------------------------
NewSignal ==
    /\ emitted < SignalCount
    /\ emitted' = emitted + 1
    /\ UNCHANGED <<configVars, tradeVars, stale, expired, traderVars, monitorVars, disturbances, off>>

SignalAges ==
    /\ Disturbance
    /\ stale < emitted
    /\ stale' = stale + 1
    /\ UNCHANGED <<configVars, tradeVars, emitted, expired, traderVars, monitorVars, off>>

BacktestExpires ==
    /\ Disturbance
    /\ \E b \in Backtests \ expired : expired' = expired \cup {b}
    /\ UNCHANGED <<configVars, tradeVars, emitted, stale, traderVars, monitorVars, off>>

NewDay ==
    /\ Disturbance
    /\ today # {} /\ today' = {}
    /\ UNCHANGED <<configVars, state, owner, sig, result, world, traderVars, monitorVars, off>>

processConfig(i) ==
    \/ \E c \in Configs : Evaluate(i, c)
    \/ CheckLoss(i) \/ Block(i) \/ PickSignal(i) \/ CheckOpposing(i)
    \/ OpenTrade(i) \/ SkipDuplicate(i) \/ SkipOrder(i) \/ AdvanceCursor(i)
monitorRow(j) == \E t \in Trades, c \in Configs \cup {None} : CloseTriggered(j, t, c) \/ LeaveOpen(j, t, c)
recordProbationResult(j) == RecordResult(j) \/ Graduate(j)

Next ==
    \/ \E i \in Traders : loadActiveConfigs(i) \/ processConfig(i) \/ TraderFails(i)
    \/ \E j \in Monitors : MonitorTick(j) \/ monitorRow(j) \/ recordProbationResult(j) \/ MonitorFails(j)
    \/ \E i \in Traders \cup Monitors : Crash(i)
    \/ \E c \in Configs, b \in Backtests \cup {None} : createConfig(c, b) \/ \E e \in BOOLEAN : updateConfig(c, e, b)
    \/ \E c \in Configs : deleteConfig(c)
    \/ pauseAll \/ resumeAll
    \/ \E t \in Trades : CloseByHand(t) \/ Cancel(t)
    \/ NewSignal \/ SignalAges \/ BacktestExpires \/ NewDay

Spec == Init /\ [][Next]_vars

-----------------------------------------------------------------------------
\* Every variable keeps its type; a trade that was opened has a signal.
TypeOK ==
    /\ status \in [Configs -> Statuses \cup Gone] /\ enabled \in [Configs -> BOOLEAN]
    /\ link \in [Configs -> Backtests \cup {None}] /\ cursor \in [Configs -> Nat \cup {None}]
    /\ limit \in [Configs -> Limits] /\ earned \subseteq Configs
    /\ completed \in [Configs -> Nat] /\ wins \in [Configs -> Nat] /\ pnl \in [Configs -> Int]
    /\ state \in [Trades -> {"none", "open", "closed", "cancelled"}]
    /\ owner \in [Trades -> Configs \cup {None}] /\ result \in [Trades -> Gains \cup {None}]
    /\ sig \in [Trades -> Signals \cup {None}] /\ today \subseteq Trades
    /\ \A t \in Trades : state[t] = "none" <=> sig[t] = None
    /\ emitted \in 0..SignalCount /\ stale \in 0..emitted /\ expired \subseteq Backtests
    /\ pc \in [Traders -> Steps] /\ at \in [Traders -> Configs \cup {None}]
    /\ sgn \in [Traders -> Signals \cup {None}]
    /\ \A i \in Traders : /\ at[i] # None <=> pc[i] # "next"
                          /\ at[i] # None => copy[i][at[i]] # None

\* The parts of the types that the inductive invariant rests on.
TraderTypes ==
    /\ state \in [Trades -> {"none", "open", "closed", "cancelled"}]
    /\ owner \in [Trades -> Configs \cup {None}]
    /\ sig \in [Trades -> Signals \cup {None}]
    /\ sgn \in [Traders -> Signals \cup {None}]
    /\ at \in [Traders -> Configs \cup {None}]
    /\ pc \in [Traders -> Steps]
    /\ DOMAIN copy = Traders /\ \A i \in Traders : DOMAIN copy[i] = Configs
    /\ off \in [Traders -> SUBSET Configs]
    /\ limit \in [Configs -> Limits]
    /\ completed \in [Configs -> Nat]

\* A configuration that a trader has a copy of was enabled when it was loaded or later, and the one
\* under way is such a copy.
CopyInv ==
    \A i \in Traders :
        /\ \A c \in Configs : copy[i][c] # None => c \notin off[i]
        /\ pc[i] # "next" => at[i] \in Configs /\ copy[i][at[i]] # None

\* What a monitor has to do next; a promotion was earned.
DueInv ==
    /\ DOMAIN due = Monitors
    /\ \A j \in Monitors :
        \/ due[j] = None
        \/ due[j] \in [config : Configs, gain : Gains]
        \/ /\ due[j] \in [config : Configs, verdict : {"live", "blocked"}]
           /\ due[j].verdict = "live" => due[j].config \in earned

\* A configuration trades a signal at most once, though the cursor, kept in milliseconds, may stay
\* before the signal it stands for, another instance may hold a copy from before, and the instance
\* that opened the trade may stop before it moves the cursor.
OneTradePerSignal ==
    \A t, u \in Trades : t # u /\ owner[t] # None /\ owner[t] = owner[u] => sig[t] # sig[u]

\* A configuration has at most one open trade, with several instances at work on it.
OneOpenPerConfig ==
    \A t, u \in Trades : Open(t) /\ Open(u) /\ owner[t] # None /\ owner[t] = owner[u] => t = u

\* The inductive invariant.
IInv == TraderTypes /\ CopyInv /\ DueInv /\ OneTradePerSignal /\ OneOpenPerConfig

\* The trades of a configuration that have ended, and the monitors that have one of its results to record.
EndedOf(c) == {t \in Trades : owner[t] = c /\ state[t] \in {"closed", "cancelled"}}
DueOf(c) == {j \in Monitors : due[j] # None /\ due[j] \in [config : {c}, gain : Gains]}

\* The probation counts a trade at most once, whoever closes it and however many monitors saw it open.
CountedOnce == \A c \in Configs : Exists(c) => completed[c] <= Cardinality(EndedOf(c))

(* What CountedOnce rests on, with IInv *)

\* A monitor's copy of an open trade names the configuration the trade belongs to, or one deleted since.
BatchInv ==
    /\ DOMAIN batch = Monitors
    /\ \A j \in Monitors : \A t \in Trades, c \in Configs : <<t, c>> \in batch[j] =>
          state[t] # "none" /\ (owner[t] = c \/ status[c] = "deleted")

\* The results that wait to be recorded are counted with those that were.
CountInv ==
    /\ DOMAIN status = Configs
    /\ \A c \in Configs :
          /\ IsFiniteSet(DueOf(c))
          /\ status[c] # "deleted" => completed[c] + Cardinality(DueOf(c)) <= Cardinality(EndedOf(c))

\* No instance opens a trade for a configuration that was paused before the instance loaded it.
PauseHolds ==
    [][\A t \in Trades : state[t] = "none" /\ state'[t] = "open"
         => \E i \in Traders : /\ pc[i] = "order" /\ pc'[i] # "order"
                               /\ at[i] = owner'[t] /\ owner'[t] \notin off[i]]_vars

\* A configuration becomes live only when, at one of the results counted, its probation had the trades
\* required at that moment, won more than 4 of 10 of them and made a profit, whatever its gate, its
\* requests and the stale copies of the instances went through.  The number required may have been raised
\* since: recordProbationResult does not look again.
LiveIsEarned ==
    [][\A c \in Configs : Exists(c) /\ status[c] # "live" /\ status'[c] = "live" => c \in earned]_vars
=============================================================================
