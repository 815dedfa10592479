------------------------- MODULE AutoTrader_proofs -------------------------
(* Theorems of AutoTrader, for every set of configurations, instances, signals and trades: a signal is *)
(* traded once, one trade is open, a result is counted once, a pause holds, and a promotion was earned. *)
EXTENDS AutoTrader, FiniteSetTheorems, TLAPS

\* What the proofs use of the constants.
LEMMA Constants ==
    /\ None \notin Configs /\ TradeCount \in Nat
    /\ \A l \in Limits : l.required \in Nat
    /\ \A s \in Signals : s \in Int
  BY TraderAssumption DEF Signals

\* The cap on open trades, as the code counts it, leaves none open.
LEMMA CapIsOne == \A c : Cardinality(OpenOf(c)) < MAX_OPEN_PER_CONFIG => OpenOf(c) = {}
<1> TAKE c
<1>1. IsFiniteSet(Trades)
  BY Constants, FS_Interval DEF Trades
<1>2. OpenOf(c) \subseteq Trades
  BY DEF OpenOf
<1>3. IsFiniteSet(OpenOf(c))
  BY <1>1, <1>2, FS_Subset
<1>4. Cardinality(OpenOf(c)) \in Nat
  BY <1>3, FS_CardinalityType
<1>5. Cardinality(OpenOf(c)) = 0 => OpenOf(c) = {}
  BY <1>3, FS_EmptySet
<1> QED
  BY <1>4, <1>5 DEF MAX_OPEN_PER_CONFIG

LEMMA InitInv == Init => IInv
<1> SUFFICES ASSUME Init PROVE IInv
  OBVIOUS
<1> USE Constants DEF Init
<1>1. TraderTypes
  BY DEF TraderTypes, Steps
<1>2. CopyInv /\ DueInv
  BY DEF CopyInv, DueInv
<1>3. OneTradePerSignal /\ OneOpenPerConfig
  BY DEF OneTradePerSignal, OneOpenPerConfig, Open
<1> QED
  BY <1>1, <1>2, <1>3 DEF IInv

\* A trader that goes on with the next configuration.
LEMMA DoneStep ==
    ASSUME TraderTypes, CopyInv, NEW i \in Traders, at[i] \in Configs, Done(i)
    PROVE  /\ pc' \in [Traders -> Steps] /\ at' \in [Traders -> Configs \cup {None}]
           /\ sgn' \in [Traders -> Signals \cup {None}]
           /\ DOMAIN copy' = Traders /\ \A k \in Traders : DOMAIN copy'[k] = Configs
           /\ \A k \in Traders, c \in Configs : copy'[k][c] # None => copy[k][c] # None
           /\ \A k \in Traders : pc'[k] # "next" => k # i /\ pc'[k] = pc[k] /\ at'[k] = at[k] /\ copy'[k] = copy[k]
<1>1. "next" \in Steps
  BY DEF Steps
<1> QED
  BY <1>1 DEF Done, Go, TraderTypes

\* Steps that leave the trades and the dues alone, and copy nothing that is off.
LEMMA TraderStep ==
    ASSUME IInv, UNCHANGED <<tradeVars, due, earned, completed>>, TraderTypes', CopyInv'
    PROVE  IInv'
  BY DEF IInv, DueInv, OneTradePerSignal, OneOpenPerConfig, Open, tradeVars

\* Done, with nothing else of the invariant touched.
LEMMA DoneInv ==
    ASSUME IInv, NEW i \in Traders, pc[i] # "next", Done(i), UNCHANGED <<tradeVars, due, limit, earned, completed, off>>
    PROVE  IInv'
<1>t. TraderTypes /\ CopyInv
  BY DEF IInv
<1>1. at[i] \in Configs
  BY <1>t DEF CopyInv
<1>2. TraderTypes'
  BY <1>t, <1>1, DoneStep DEF TraderTypes, tradeVars
<1>3. CopyInv'
  BY <1>t, <1>1, DoneStep DEF CopyInv
<1> QED
  BY <1>2, <1>3, TraderStep

\* A step of pc within a configuration.
LEMMA GoInv ==
    ASSUME IInv, NEW i \in Traders, NEW s \in Steps, pc[i] # "next", Go(i, s),
           UNCHANGED <<copy, at, tradeVars, due, limit, earned, completed, off>>, sgn' \in [Traders -> Signals \cup {None}]
    PROVE  IInv'
<1>t. TraderTypes /\ CopyInv
  BY DEF IInv
<1>2. TraderTypes'
  BY <1>t DEF TraderTypes, Go, tradeVars
<1>3. CopyInv'
  BY <1>t DEF CopyInv, Go, TraderTypes
<1> QED
  BY <1>2, <1>3, TraderStep

\* A new row for a configuration and a signal that have none, when no other of it is open.
LEMMA InsertInv ==
    ASSUME IInv, NEW i \in Traders, OpenTrade(i) PROVE IInv'
<1> USE Constants
<1>t. TraderTypes /\ CopyInv /\ DueInv /\ OneTradePerSignal /\ OneOpenPerConfig
  BY DEF IInv
<1>1. PICK t \in Trades : /\ state' = [state EXCEPT ![t] = "open"]
                          /\ owner' = [owner EXCEPT ![t] = at[i]]
                          /\ sig' = [sig EXCEPT ![t] = sgn[i]]
  BY DEF OpenTrade, Insert
<1>2. UNCHANGED <<configVars, copy, at, sgn, monitorVars, off>> /\ Go(i, "cursor") /\ pc[i] = "order"
  BY DEF OpenTrade
<1>3. at[i] \in Configs
  BY <1>2, <1>t DEF CopyInv
<1>4. OpenOf(at[i]) = {}
  BY CapIsOne DEF OpenTrade
<1>5. TraderTypes'
  <2>1. "cursor" \in Steps
    BY DEF Steps
  <2>2. sgn[i] \in Signals \cup {None}
    BY <1>t DEF TraderTypes
  <2> QED
    BY <1>1, <1>2, <1>3, <1>t, <2>1, <2>2 DEF TraderTypes, Go, configVars
<1>6. CopyInv'
  BY <1>2, <1>t DEF CopyInv, Go, TraderTypes
<1>7. DueInv'
  BY <1>2, <1>t DEF DueInv, configVars, monitorVars
<1>8. OneTradePerSignal'
  <2>1. \A u \in Trades : owner[u] = at[i] => sig[u] # sgn[i]
    BY DEF OpenTrade, Duplicate
  <2> QED
    BY <1>1, <1>t, <2>1 DEF OneTradePerSignal, TraderTypes
<1>9. OneOpenPerConfig'
  <2>1. \A u \in Trades : ~(Open(u) /\ owner[u] = at[i])
    BY <1>4 DEF OpenOf
  <2> QED
    BY <1>1, <1>t, <2>1 DEF OneOpenPerConfig, Open, TraderTypes
<1> QED
  BY <1>5, <1>6, <1>7, <1>8, <1>9 DEF IInv

\* Steps of a cycle.
LEMMA CycleInv ==
    ASSUME IInv, NEW i \in Traders, loadActiveConfigs(i) \/ processConfig(i) \/ TraderFails(i) PROVE IInv'
<1>t. TraderTypes /\ CopyInv
  BY DEF IInv
<1>s. Steps = {"next", "loss", "block", "signal", "opposing", "order", "cursor"}
  BY DEF Steps
<1>1. CASE loadActiveConfigs(i)
  <2>1. /\ DOMAIN copy' = Traders /\ \A k \in Traders : DOMAIN copy'[k] = Configs
        /\ \A k \in Traders : k # i => copy'[k] = copy[k] /\ off'[k] = off[k]
        /\ \A c \in Configs : copy'[i][c] # None => c \notin off'[i]
        /\ off' \in [Traders -> SUBSET Configs]
    BY <1>1, <1>t DEF loadActiveConfigs, TraderTypes
  <2>2. UNCHANGED <<tradeVars, due, limit, earned, completed, pc, at, sgn>> /\ pc[i] = "next"
    BY <1>1 DEF loadActiveConfigs, configVars, monitorVars
  <2>3. TraderTypes'
    BY <2>1, <2>2, <1>t DEF TraderTypes, tradeVars
  <2>4. CopyInv'
    BY <2>1, <2>2, <1>t DEF CopyInv
  <2> QED
    BY <2>2, <2>3, <2>4, TraderStep
<1>2. ASSUME NEW c \in Configs, Evaluate(i, c) PROVE IInv'
  <2>1. UNCHANGED <<tradeVars, due, limit, earned, completed, sgn, off>> /\ pc[i] = "next" /\ copy[i][c] # None
    BY <1>2 DEF Evaluate, monitorVars
  <2>2. CASE Go(i, "loss") /\ at' = [at EXCEPT ![i] = c] /\ UNCHANGED copy
    <3>1. TraderTypes'
      BY <2>1, <2>2, <1>s, <1>t DEF TraderTypes, Go, tradeVars
    <3>2. CopyInv'
      BY <2>1, <2>2, <1>t DEF CopyInv, Go, TraderTypes
    <3> QED
      BY <2>1, <3>1, <3>2, TraderStep
  <2>3. CASE copy' = [copy EXCEPT ![i][c] = None] /\ UNCHANGED <<pc, at>>
    <3>1. TraderTypes'
      BY <2>1, <2>3, <1>t DEF TraderTypes, tradeVars
    <3>2. CopyInv'
      BY <2>1, <2>3, <1>t DEF CopyInv, TraderTypes
    <3> QED
      BY <2>1, <3>1, <3>2, TraderStep
  <2> QED
    BY <1>2, <2>2, <2>3 DEF Evaluate
<1>3. CASE CheckLoss(i)
  <2>1. PICK s \in Steps : Go(i, s)
    BY <1>3, <1>s DEF CheckLoss
  <2> QED
    BY <1>3, <2>1, <1>t, GoInv DEF CheckLoss, TraderTypes, configVars, monitorVars
<1>4. CASE Block(i) \/ TraderFails(i)
  BY <1>4, DoneInv DEF Block, TraderFails, configVars, monitorVars
<1>5. CASE PickSignal(i)
  <2> DEFINE fresh == Fresh(copy[i][at[i]].cursor)
  <2>1. UNCHANGED <<tradeVars, due, limit, earned, completed, off>> /\ pc[i] # "next"
    BY <1>5 DEF PickSignal, configVars, monitorVars
  <2>2. CASE Done(i)
    BY <2>1, <2>2, DoneInv
  <2>3. CASE ~Done(i)
    <3>1. PICK s \in fresh : sgn' = [sgn EXCEPT ![i] = s]
      BY <1>5, <2>3 DEF PickSignal
    <3>2. s \in Signals
      BY DEF Fresh
    <3>3. /\ Go(i, "opposing") /\ UNCHANGED <<copy, at>>
      BY <1>5, <2>3 DEF PickSignal
    <3>4. sgn' \in [Traders -> Signals \cup {None}]
      BY <3>1, <3>2, <1>t DEF TraderTypes
    <3> QED
      BY <2>1, <3>3, <3>4, <1>s, GoInv
  <2> QED
    BY <2>2, <2>3
<1>6. CASE CheckOpposing(i)
  <2>1. UNCHANGED <<tradeVars, due, limit, earned, completed, off>> /\ pc[i] # "next"
    BY <1>6 DEF CheckOpposing, configVars, monitorVars
  <2>2. CASE Done(i)
    BY <2>1, <2>2, DoneInv
  <2>3. CASE Go(i, "order") /\ UNCHANGED <<copy, at, sgn>>
    BY <2>1, <2>3, <1>s, <1>t, GoInv DEF TraderTypes
  <2> QED
    BY <1>6, <2>2, <2>3 DEF CheckOpposing
<1>7. CASE OpenTrade(i)
  BY <1>7, InsertInv
<1>8. CASE SkipDuplicate(i)
  BY <1>8, <1>s, <1>t, GoInv DEF SkipDuplicate, TraderTypes, configVars, monitorVars
<1>9. CASE SkipOrder(i) \/ AdvanceCursor(i)
  BY <1>9, DoneInv DEF SkipOrder, AdvanceCursor, configVars, monitorVars
<1> QED
  BY <1>1, <1>2, <1>3, <1>4, <1>5, <1>6, <1>7, <1>8, <1>9 DEF processConfig

\* A step of a monitor, a request or the clock keeps the rows' types and what has to be recorded.
LEMMA OtherStep ==
    ASSUME IInv, UNCHANGED <<pc, copy, at, sgn>>,
           state' \in [Trades -> {"none", "open", "closed", "cancelled"}],
           owner' \in [Trades -> Configs \cup {None}], UNCHANGED sig,
           \A t \in Trades : state'[t] = "open" => state[t] = "open",
           \A t \in Trades : owner'[t] = owner[t] \/ owner'[t] = None,
           off' \in [Traders -> SUBSET Configs], \A i \in Traders : off'[i] \subseteq off[i],
           completed' \in [Configs -> Nat], limit' \in [Configs -> Limits], DueInv'
    PROVE  IInv'
<1> USE Constants
<1>t. TraderTypes /\ CopyInv /\ OneTradePerSignal /\ OneOpenPerConfig
  BY DEF IInv
<1>1. TraderTypes'
  BY <1>t DEF TraderTypes
<1>2. CopyInv'
  BY <1>t DEF CopyInv
<1>3. OneTradePerSignal' /\ OneOpenPerConfig'
  BY <1>t DEF OneTradePerSignal, OneOpenPerConfig, Open
<1> QED
  BY <1>1, <1>2, <1>3 DEF IInv

\* A verdict is given on enough trades, and a good one on enough won and a profit.
LEMMA Verdict ==
    ASSUME NEW required, NEW n, NEW won, NEW total
    PROVE  \/ evaluateGraduation(required, n, won, total) \in {None, "blocked"}
           \/ /\ evaluateGraduation(required, n, won, total) = "live"
              /\ ~(n < required) /\ 10 * won > 4 * n /\ total > 0
  BY DEF evaluateGraduation

\* What a monitor forgets, or has done, is due no longer.
LEMMA DueForgotten ==
    ASSUME DueInv, NEW j \in Monitors, due' = [due EXCEPT ![j] = None], earned \subseteq earned'
    PROVE  DueInv'
<1>1. DOMAIN due' = Monitors /\ \A k \in Monitors : due'[k] = due[k] \/ due'[k] = None
  BY DEF DueInv
<1> QED
  BY <1>1 DEF DueInv

\* Every configuration has its counters.
Counters == DOMAIN wins = Configs /\ DOMAIN pnl = Configs

LEMMA CountersStay == Counters /\ [Next]_vars => Counters'
<1> SUFFICES ASSUME Counters, [Next]_vars PROVE Counters'
  OBVIOUS
<1>1. ASSUME NEW i \in Traders, loadActiveConfigs(i) \/ processConfig(i) \/ TraderFails(i) PROVE UNCHANGED <<wins, pnl>>
  BY <1>1 DEF loadActiveConfigs, processConfig, TraderFails, Evaluate, CheckLoss, Block, PickSignal, CheckOpposing,
     OpenTrade, SkipDuplicate, SkipOrder, AdvanceCursor, configVars
<1>2. ASSUME NEW j \in Monitors, MonitorTick(j) \/ monitorRow(j) \/ Graduate(j) \/ MonitorFails(j)
      PROVE UNCHANGED <<wins, pnl>>
  BY <1>2 DEF MonitorTick, monitorRow, CloseTriggered, LeaveOpen, Graduate, MonitorFails, configVars
<1>3. ASSUME NEW j \in Monitors, RecordResult(j) PROVE Counters'
  BY <1>3 DEF Counters, RecordResult
<1>4. ASSUME \/ \E i \in Traders \cup Monitors : Crash(i)
             \/ \E c \in Configs, b \in Backtests \cup {None} :
                   createConfig(c, b) \/ \E e \in BOOLEAN : updateConfig(c, e, b)
             \/ \E c \in Configs : deleteConfig(c)
             \/ pauseAll \/ resumeAll
             \/ \E t \in Trades : CloseByHand(t) \/ Cancel(t)
             \/ NewSignal \/ SignalAges \/ BacktestExpires \/ NewDay
             \/ UNCHANGED vars
      PROVE UNCHANGED <<wins, pnl>>
  BY <1>4 DEF Crash, createConfig, updateConfig, deleteConfig, pauseAll, resumeAll, CloseByHand, Cancel, NewSignal,
     SignalAges, BacktestExpires, NewDay, vars, configVars
<1>5. UNCHANGED <<wins, pnl>> => Counters'
  BY DEF Counters
<1> QED
  BY <1>1, <1>2, <1>3, <1>4, <1>5 DEF Next, recordProbationResult

\* Steps of the monitors.
LEMMA MonitorInv ==
    ASSUME IInv, Counters, NEW j \in Monitors,
           MonitorTick(j) \/ monitorRow(j) \/ recordProbationResult(j) \/ MonitorFails(j)
    PROVE  IInv'
<1> USE Constants
<1>t. TraderTypes /\ CopyInv /\ DueInv
  BY DEF IInv
<1>f. \A c \in Configs : completed[c] \in Nat
  BY <1>t DEF TraderTypes
<1>1. CASE MonitorTick(j)
  <2>1. UNCHANGED <<tradeVars, limit, earned, completed, pc, copy, at, sgn, due, off>>
    BY <1>1 DEF MonitorTick, configVars, traderVars
  <2>2. DueInv'
    BY <2>1, <1>t DEF DueInv
  <2> QED
    BY <2>1, <2>2, <1>t, <1>f, OtherStep DEF TraderTypes, tradeVars
<1>2. ASSUME NEW t \in Trades, NEW c \in Configs \cup {None}, CloseTriggered(j, t, c) \/ LeaveOpen(j, t, c)
      PROVE IInv'
  <2>1. UNCHANGED <<owner, sig, limit, earned, completed, pc, copy, at, sgn, off>>
    BY <1>2 DEF CloseTriggered, LeaveOpen, End, configVars, tradeVars, traderVars
  <2>2. state' = [state EXCEPT ![t] = "closed"] \/ UNCHANGED state
    BY <1>2 DEF CloseTriggered, LeaveOpen, End, tradeVars
  <2>3. \/ UNCHANGED due
        \/ \E g \in Gains : due' = [due EXCEPT ![j] = IF c = None THEN None ELSE [config |-> c, gain |-> g]]
    BY <1>2 DEF CloseTriggered, LeaveOpen
  <2>4. DueInv'
    <3>1. CASE UNCHANGED due
      BY <2>1, <3>1, <1>t DEF DueInv
    <3>2. ASSUME NEW g \in Gains,
                 due' = [due EXCEPT ![j] = IF c = None THEN None ELSE [config |-> c, gain |-> g]]
          PROVE DueInv'
      <4>1. \A k \in Monitors : \/ due'[k] = due[k]
                                \/ due'[k] = None
                                \/ due'[k] \in [config : Configs, gain : Gains]
        BY <3>2, <1>t DEF DueInv
      <4>2. DOMAIN due' = Monitors
        BY <3>2, <1>t DEF DueInv
      <4> QED
        BY <2>1, <4>1, <4>2, <1>t DEF DueInv
    <3> QED
      BY <2>3, <3>1, <3>2
  <2> QED
    BY <2>1, <2>2, <2>4, <1>t, <1>f, OtherStep DEF TraderTypes
<1>3. CASE RecordResult(j)
  <2>1. UNCHANGED <<tradeVars, limit, pc, copy, at, sgn, off>>
    BY <1>3 DEF RecordResult, traderVars
  <2>2. due[j] # None /\ due[j] \in [config : Configs, gain : Gains]
    BY <1>3, <1>t DEF RecordResult, DueInv
  <2>3. PICK c \in Configs : due[j].config = c
    BY <2>2
  <2> DEFINE g == due[j].gain
             won == wins[c] + (IF g > 0 THEN 1 ELSE 0)
             verdict == evaluateGraduation(limit[c].required, completed[c] + 1, won, pnl[c] + g)
  <2>4. \/ UNCHANGED <<completed, earned>> /\ due' = [due EXCEPT ![j] = None]
        \/ /\ completed' = [completed EXCEPT ![c] = @ + 1]
           /\ wins' = [wins EXCEPT ![c] = won] /\ pnl' = [pnl EXCEPT ![c] = @ + g]
           /\ earned' = earned \cup {d \in {c} : Passed(d)'}
           /\ due' = [due EXCEPT ![j] = IF verdict = None THEN None ELSE [config |-> c, verdict |-> verdict]]
    BY <1>3, <2>3 DEF RecordResult
  <2>5. completed' \in [Configs -> Nat] /\ earned \subseteq earned'
    BY <2>4, <1>f, <1>t DEF TraderTypes
  <2>6. DueInv'
    <3>1. CASE due' = [due EXCEPT ![j] = None]
      BY <2>5, <3>1, DueForgotten, <1>t
    <3>2. CASE /\ completed' = [completed EXCEPT ![c] = @ + 1]
               /\ wins' = [wins EXCEPT ![c] = won] /\ pnl' = [pnl EXCEPT ![c] = @ + g]
               /\ earned' = earned \cup {d \in {c} : Passed(d)'}
               /\ due' = [due EXCEPT ![j] = IF verdict = None THEN None ELSE [config |-> c, verdict |-> verdict]]
      <4>1. completed'[c] = completed[c] + 1 /\ wins'[c] = won /\ pnl'[c] = pnl[c] + g /\ limit'[c] = limit[c]
        BY <2>1, <3>2, <1>t DEF TraderTypes, Counters
      <4>2. verdict # None => verdict \in {"live", "blocked"} /\ (verdict = "live" => c \in earned')
        <5>1. \/ verdict \in {None, "blocked"}
              \/ /\ verdict = "live" /\ ~(completed[c] + 1 < limit[c].required)
                 /\ 10 * won > 4 * (completed[c] + 1) /\ pnl[c] + g > 0
          BY Verdict
        <5>2. limit[c].required \in Nat /\ completed[c] + 1 \in Nat
          BY <1>f, <1>t DEF TraderTypes
        <5> HIDE DEF verdict, won, g
        <5>3. ~(completed[c] + 1 < limit[c].required) => completed[c] + 1 >= limit[c].required
          BY <5>2
        <5>4. ASSUME verdict # None, verdict = "live" PROVE Passed(c)'
          <6>1. completed[c] + 1 >= limit[c].required /\ 10 * won > 4 * (completed[c] + 1) /\ pnl[c] + g > 0
            BY <5>1, <5>3, <5>4
          <6>2. completed'[c] >= limit'[c].required /\ 10 * wins'[c] > 4 * completed'[c] /\ pnl'[c] > 0
            BY <4>1, <6>1
          <6> QED
            BY <6>2 DEF Passed
        <5> QED
          BY <3>2, <5>1, <5>4
      <4> HIDE DEF verdict, won, g
      <4>3. CASE verdict = None
        BY <2>5, <3>2, <4>3, DueForgotten, <1>t
      <4>4. CASE verdict # None
        <5>1. due' = [due EXCEPT ![j] = [config |-> c, verdict |-> verdict]]
          BY <3>2, <4>4
        <5>2. DOMAIN due' = Monitors /\ due'[j] = [config |-> c, verdict |-> verdict]
              /\ \A k \in Monitors : k # j => due'[k] = due[k]
          BY <5>1, <1>t DEF DueInv
        <5>3. verdict \in {"live", "blocked"} /\ (verdict = "live" => c \in earned')
          BY <4>2, <4>4
        <5> QED
          BY <2>5, <5>2, <5>3, <1>t DEF DueInv
      <4> QED
        BY <4>3, <4>4
    <3> QED
      BY <2>4, <3>1, <3>2
  <2> QED
    BY <2>1, <2>5, <2>6, <1>t, OtherStep DEF TraderTypes, tradeVars
<1>4. CASE Graduate(j) \/ MonitorFails(j)
  <2>1. UNCHANGED <<tradeVars, limit, earned, completed, pc, copy, at, sgn, off>> /\ due' = [due EXCEPT ![j] = None]
    BY <1>4 DEF Graduate, MonitorFails, configVars, traderVars
  <2>2. DueInv'
    BY <2>1, <1>t, DueForgotten
  <2> QED
    BY <2>1, <2>2, <1>t, OtherStep DEF TraderTypes, tradeVars
<1> QED
  BY <1>1, <1>2, <1>3, <1>4 DEF monitorRow, recordProbationResult

\* Requests, the clock and crashes.
LEMMA OutsideInv ==
    ASSUME IInv,
           \/ \E i \in Traders \cup Monitors : Crash(i)
           \/ \E c \in Configs, b \in Backtests \cup {None} :
                 createConfig(c, b) \/ \E e \in BOOLEAN : updateConfig(c, e, b)
           \/ \E c \in Configs : deleteConfig(c)
           \/ pauseAll \/ resumeAll
           \/ \E t \in Trades : CloseByHand(t) \/ Cancel(t)
           \/ NewSignal \/ SignalAges \/ BacktestExpires \/ NewDay
    PROVE  IInv'
<1> USE Constants
<1>t. TraderTypes /\ CopyInv /\ DueInv
  BY DEF IInv
<1>f. completed \in [Configs -> Nat] /\ limit \in [Configs -> Limits] /\ off \in [Traders -> SUBSET Configs]
  BY <1>t DEF TraderTypes
<1>d. UNCHANGED <<due, earned>> => DueInv'
  BY <1>t DEF DueInv
<1>1. ASSUME NEW i \in Traders \cup Monitors, Crash(i) PROVE IInv'
  <2>1. /\ pc' \in [Traders -> Steps] /\ at' \in [Traders -> Configs \cup {None}]
        /\ sgn' \in [Traders -> Signals \cup {None}]
        /\ DOMAIN copy' = Traders /\ \A k \in Traders : DOMAIN copy'[k] = Configs
        /\ \A k \in Traders, c \in Configs : copy'[k][c] # None => copy'[k][c] = copy[k][c]
        /\ \A k \in Traders : pc'[k] # "next" => pc'[k] = pc[k] /\ at'[k] = at[k] /\ copy'[k] = copy[k]
    BY <1>1, <1>t DEF Crash, TraderTypes, Steps
  <2>2. UNCHANGED <<tradeVars, limit, earned, completed, off>>
    BY <1>1 DEF Crash, configVars
  <2>3. DueInv'
    <3>1. DOMAIN due' = Monitors /\ \A k \in Monitors : due'[k] = None \/ due'[k] = due[k]
      BY <1>1 DEF Crash
    <3> QED
      BY <3>1, <2>2, <1>t DEF DueInv
  <2>4. TraderTypes'
    BY <2>1, <2>2, <1>t DEF TraderTypes, tradeVars
  <2>5. CopyInv'
    BY <2>1, <2>2, <1>t DEF CopyInv
  <2>6. OneTradePerSignal' /\ OneOpenPerConfig'
    BY <2>2 DEF IInv, OneTradePerSignal, OneOpenPerConfig, Open, tradeVars
  <2> QED
    BY <2>3, <2>4, <2>5, <2>6 DEF IInv
<1>2. ASSUME NEW c \in Configs, NEW b \in Backtests \cup {None},
             createConfig(c, b) \/ (\E e \in BOOLEAN : updateConfig(c, e, b)) PROVE IInv'
  <2>1. UNCHANGED <<tradeVars, earned, completed, pc, copy, at, sgn, due>>
    BY <1>2 DEF createConfig, updateConfig, traderVars, monitorVars
  <2>4. limit' \in [Configs -> Limits]
    BY <1>2, <1>f DEF createConfig, updateConfig
  <2>2. UNCHANGED off \/ off' = [i \in Traders |-> off[i] \ {c}]
    BY <1>2 DEF createConfig, updateConfig, Enabling
  <2>3. off' \in [Traders -> SUBSET Configs] /\ \A i \in Traders : off'[i] \subseteq off[i]
    BY <2>2, <1>f
  <2> QED
    BY <2>1, <2>3, <2>4, <1>d, <1>t, OtherStep DEF TraderTypes, tradeVars
<1>3. ASSUME NEW c \in Configs, deleteConfig(c) PROVE IInv'
  <2>1. UNCHANGED <<state, sig, limit, earned, completed, pc, copy, at, sgn, due, off>>
    BY <1>3 DEF deleteConfig, traderVars, monitorVars
  <2>2. owner' \in [Trades -> Configs \cup {None}] /\ \A t \in Trades : owner'[t] = owner[t] \/ owner'[t] = None
    BY <1>3, <1>t DEF deleteConfig, TraderTypes
  <2> QED
    BY <2>1, <2>2, <1>d, <1>t, OtherStep DEF TraderTypes
<1>4. CASE pauseAll \/ resumeAll
  <2>1. UNCHANGED <<tradeVars, limit, earned, completed, pc, copy, at, sgn, due>>
    BY <1>4 DEF pauseAll, resumeAll, traderVars, monitorVars
  <2>2. UNCHANGED off \/ \E S : off' = [i \in Traders |-> off[i] \ S]
    BY <1>4 DEF pauseAll, resumeAll, Enabling
  <2>3. off' \in [Traders -> SUBSET Configs] /\ \A i \in Traders : off'[i] \subseteq off[i]
    BY <2>2, <1>f
  <2> QED
    BY <2>1, <2>3, <1>d, <1>t, OtherStep DEF TraderTypes, tradeVars
<1>5. ASSUME NEW t \in Trades, CloseByHand(t) \/ Cancel(t) PROVE IInv'
  <2>1. UNCHANGED <<owner, sig, limit, earned, completed, pc, copy, at, sgn, due, off>>
    BY <1>5 DEF CloseByHand, Cancel, End, configVars, traderVars, monitorVars
  <2>2. state' = [state EXCEPT ![t] = "closed"] \/ state' = [state EXCEPT ![t] = "cancelled"]
    BY <1>5 DEF CloseByHand, Cancel, End
  <2> QED
    BY <2>1, <2>2, <1>d, <1>t, OtherStep DEF TraderTypes
<1>6. CASE NewSignal \/ SignalAges \/ BacktestExpires \/ NewDay
  <2>1. UNCHANGED <<state, owner, sig, limit, earned, completed, pc, copy, at, sgn, due, off>>
    BY <1>6 DEF NewSignal, SignalAges, BacktestExpires, NewDay, configVars, tradeVars, traderVars,
       monitorVars
  <2> QED
    BY <2>1, <1>d, <1>t, OtherStep DEF TraderTypes
<1> QED
  BY <1>1, <1>2, <1>3, <1>4, <1>5, <1>6

LEMMA StepInv == IInv /\ Counters /\ [Next]_vars => IInv'
<1> SUFFICES ASSUME IInv, Counters, [Next]_vars PROVE IInv'
  OBVIOUS
<1>1. ASSUME NEW i \in Traders, loadActiveConfigs(i) \/ processConfig(i) \/ TraderFails(i) PROVE IInv'
  BY <1>1, CycleInv
<1>2. ASSUME NEW j \in Monitors, MonitorTick(j) \/ monitorRow(j) \/ recordProbationResult(j) \/ MonitorFails(j)
      PROVE IInv'
  BY <1>2, MonitorInv
<1>3. CASE UNCHANGED vars
  BY <1>3 DEF vars, configVars, tradeVars, traderVars, monitorVars, IInv, TraderTypes, CopyInv,
     DueInv, OneTradePerSignal, OneOpenPerConfig, Open
<1> QED
  BY <1>1, <1>2, <1>3, OutsideInv DEF Next

\* The inductive invariant holds in every state.
THEOREM InvCorrect == Spec => []IInv
<1>1. Init => IInv /\ Counters
  BY InitInv DEF Init, Counters
<1>2. IInv /\ Counters /\ [Next]_vars => (IInv /\ Counters)'
  BY StepInv, CountersStay
<1> QED
  BY <1>1, <1>2, PTL DEF Spec

\* No configuration trades a signal twice, whatever copies and cursors the instances hold.
THEOREM TradedOnce == Spec => []OneTradePerSignal
<1>1. IInv => OneTradePerSignal
  BY DEF IInv
<1> QED
  BY <1>1, InvCorrect, PTL

\* Nor are two trades of one configuration open, with several instances at work on it.
THEOREM OneOpen == Spec => []OneOpenPerConfig
<1>1. IInv => OneOpenPerConfig
  BY DEF IInv
<1> QED
  BY <1>1, InvCorrect, PTL

\* Trades are opened by OpenTrade only.
LEMMA OpensInOrder ==
    ASSUME IInv, [Next]_vars, NEW t \in Trades, state[t] = "none", state'[t] = "open"
    PROVE  \E i \in Traders : OpenTrade(i) /\ owner'[t] = at[i]
<1>t. TraderTypes
  BY DEF IInv
<1>1. ASSUME NEW i \in Traders, OpenTrade(i) PROVE owner'[t] = at[i]
  <2>1. PICK u \in Trades : /\ state' = [state EXCEPT ![u] = "open"]
                            /\ owner' = [owner EXCEPT ![u] = at[i]]
    BY <1>1 DEF OpenTrade, Insert
  <2>2. u = t
    BY <2>1, <1>t DEF TraderTypes
  <2> QED
    BY <2>1, <2>2, <1>t DEF TraderTypes
<1>2. ASSUME NEW i \in Traders, loadActiveConfigs(i) \/ processConfig(i) \/ TraderFails(i), ~OpenTrade(i)
      PROVE FALSE
  BY <1>2 DEF loadActiveConfigs, processConfig, TraderFails, Evaluate, CheckLoss, Block, PickSignal, CheckOpposing,
     SkipDuplicate, SkipOrder, AdvanceCursor, tradeVars
<1>3. ASSUME NEW j \in Monitors, MonitorTick(j) \/ monitorRow(j) \/ recordProbationResult(j) \/ MonitorFails(j)
      PROVE FALSE
  <2>1. UNCHANGED state \/ \E u \in Trades : state' = [state EXCEPT ![u] = "closed"]
    BY <1>3 DEF MonitorTick, monitorRow, CloseTriggered, LeaveOpen, End, recordProbationResult, RecordResult,
       Graduate, MonitorFails, tradeVars
  <2> QED
    BY <2>1, <1>t DEF TraderTypes
<1>4. ASSUME NEW u \in Trades, CloseByHand(u) \/ Cancel(u) PROVE FALSE
  <2>1. state' = [state EXCEPT ![u] = "closed"] \/ state' = [state EXCEPT ![u] = "cancelled"]
    BY <1>4 DEF CloseByHand, Cancel, End
  <2> QED
    BY <2>1, <1>t DEF TraderTypes
<1>5. UNCHANGED state => FALSE
  OBVIOUS
<1>6. ASSUME \/ \E i \in Traders \cup Monitors : Crash(i)
             \/ \E c \in Configs, b \in Backtests \cup {None} :
                   createConfig(c, b) \/ \E e \in BOOLEAN : updateConfig(c, e, b)
             \/ \E c \in Configs : deleteConfig(c)
             \/ pauseAll \/ resumeAll
             \/ NewSignal \/ SignalAges \/ BacktestExpires \/ NewDay
             \/ UNCHANGED vars
      PROVE FALSE
  BY <1>5, <1>6 DEF Crash, createConfig, updateConfig, deleteConfig, pauseAll, resumeAll, NewSignal, SignalAges,
     BacktestExpires, NewDay, vars, tradeVars
<1> QED
  BY <1>1, <1>2, <1>3, <1>4, <1>6 DEF Next

\* A pause holds: no trade of a configuration that was paused before its copy was loaded.
THEOREM Paused == Spec => PauseHolds
<1> DEFINE Holds == \A t \in Trades : state[t] = "none" /\ state'[t] = "open"
               => \E i \in Traders : /\ pc[i] = "order" /\ pc'[i] # "order"
                                     /\ at[i] = owner'[t] /\ owner'[t] \notin off[i]
<1>1. ASSUME IInv, [Next]_vars PROVE Holds
  <2> SUFFICES ASSUME NEW t \in Trades, state[t] = "none", state'[t] = "open"
               PROVE \E i \in Traders : /\ pc[i] = "order" /\ pc'[i] # "order"
                                        /\ at[i] = owner'[t] /\ owner'[t] \notin off[i]
    OBVIOUS
  <2>1. PICK i \in Traders : OpenTrade(i) /\ owner'[t] = at[i]
    BY <1>1, OpensInOrder
  <2>2. pc[i] = "order" /\ pc'[i] = "cursor"
    BY <2>1, <1>1 DEF OpenTrade, Go, IInv, TraderTypes
  <2>3. at[i] \notin off[i]
    BY <2>2, <1>1 DEF IInv, CopyInv
  <2> QED
    BY <2>1, <2>2, <2>3
<1>2. IInv /\ [Next]_vars => [Holds]_vars
  BY <1>1
<1> QED
  BY <1>2, InvCorrect, PTL DEF Spec, PauseHolds

\* A promotion was earned: at one of the results counted, the probation had the trades required then, and had
\* won enough of them with a profit.
THEOREM Earned == Spec => LiveIsEarned
<1> DEFINE Holds == \A c \in Configs : Exists(c) /\ status[c] # "live" /\ status'[c] = "live" => c \in earned
<1>1. ASSUME IInv, [Next]_vars PROVE Holds
  <2> SUFFICES ASSUME NEW c \in Configs, Exists(c), status[c] # "live", status'[c] = "live"
               PROVE c \in earned
    OBVIOUS
  <2>t. TraderTypes /\ DueInv
    BY <1>1 DEF IInv
  <2>1. ASSUME NEW j \in Monitors, Graduate(j) PROVE c \in earned
    <3>1. due[j] \in [config : Configs, verdict : {"live", "blocked"}]
      BY <2>1, <2>t DEF Graduate, DueInv
    <3>2. c = due[j].config /\ due[j].verdict = "live"
      BY <2>1 DEF Graduate, SetStatus
    <3> QED
      BY <2>1, <3>1, <3>2, <2>t DEF Graduate, DueInv
  <2>2. ASSUME NEW i \in Traders, NEW d \in Configs, Evaluate(i, d) PROVE FALSE
    <3> DEFINE new == evaluateGate(copy[i][d])
    <3>0. SetStatus(d, new) /\ new # copy[i][d].status
      BY <2>2 DEF Evaluate
    <3> HIDE DEF new
    <3>1. new = "live" /\ new # copy[i][d].status
      BY <3>0 DEF SetStatus
    <3> USE DEF new
    <3> QED
      BY <3>1 DEF evaluateGate
  <2>3. ASSUME NEW i \in Traders, Block(i) PROVE FALSE
    BY <2>3 DEF Block, SetStatus
  <2>4. ASSUME NEW d \in Configs, NEW b \in Backtests \cup {None}, createConfig(d, b) PROVE FALSE
    BY <2>4 DEF createConfig
  <2>5. ASSUME NEW d \in Configs, deleteConfig(d) PROVE FALSE
    BY <2>5 DEF deleteConfig
  <2>6. UNCHANGED status => FALSE
    OBVIOUS
  <2>7. ASSUME NEW i \in Traders, loadActiveConfigs(i) \/ processConfig(i) \/ TraderFails(i) PROVE FALSE
    BY <2>7, <2>2, <2>3, <2>6 DEF loadActiveConfigs, processConfig, TraderFails, CheckLoss, PickSignal,
       CheckOpposing, OpenTrade, SkipDuplicate, SkipOrder, AdvanceCursor, configVars
  <2>8. ASSUME NEW j \in Monitors, MonitorTick(j) \/ monitorRow(j) \/ RecordResult(j) \/ MonitorFails(j)
        PROVE FALSE
    BY <2>8, <2>6 DEF MonitorTick, monitorRow, CloseTriggered, LeaveOpen, RecordResult, MonitorFails, configVars
  <2>9. ASSUME \/ \E i \in Traders \cup Monitors : Crash(i)
               \/ \E d \in Configs, b \in Backtests \cup {None}, e \in BOOLEAN : updateConfig(d, e, b)
               \/ pauseAll \/ resumeAll
               \/ \E t \in Trades : CloseByHand(t) \/ Cancel(t)
               \/ NewSignal \/ SignalAges \/ BacktestExpires \/ NewDay
               \/ UNCHANGED vars
        PROVE FALSE
    BY <2>9, <2>6 DEF Crash, updateConfig, pauseAll, resumeAll, CloseByHand, Cancel, NewSignal, SignalAges,
       BacktestExpires, NewDay, vars, configVars
  <2> QED
    BY <1>1, <2>1, <2>4, <2>5, <2>7, <2>8, <2>9 DEF Next, recordProbationResult
<1>2. IInv /\ [Next]_vars => [Holds]_vars
  BY <1>1
<1> QED
  BY <1>2, InvCorrect, PTL DEF Spec, LiveIsEarned

-----------------------------------------------------------------------------
(* The results that the probation counts.                                  *)

\* Trades that end, and monitors that get something to record, are finitely many.
LEMMA EndedFinite == \A c : IsFiniteSet(EndedOf(c)) /\ Cardinality(EndedOf(c)) \in Nat
<1> TAKE c
<1>1. IsFiniteSet(Trades)
  BY Constants, FS_Interval DEF Trades
<1>2. EndedOf(c) \subseteq Trades
  BY DEF EndedOf
<1> QED
  BY <1>1, <1>2, FS_Subset, FS_CardinalityType

\* What no step does: a row comes back, a trade loses its state or, while its configuration exists, its owner.
Settled ==
    /\ DOMAIN status' = Configs
    /\ \A c \in Configs : status[c] = "deleted" => status'[c] = "deleted"
    /\ \A t \in Trades : /\ state[t] # "none" => state'[t] # "none"
                         /\ state[t] \in {"closed", "cancelled"} => state'[t] \in {"closed", "cancelled"}
                         /\ \A c \in Configs : state[t] # "none" /\ owner[t] = c =>
                                owner'[t] = c \/ status'[c] = "deleted"

\* An UPDATE of the status brings no row back.
LEMMA StatusStays ==
    ASSUME DOMAIN status = Configs,
           \/ UNCHANGED status
           \/ \E c \in Configs : \E new : SetStatus(c, new)
    PROVE  DOMAIN status' = Configs /\ \A c \in Configs : status[c] = "deleted" => status'[c] = "deleted"
  BY DEF SetStatus, Exists, Gone

\* Steps that do not touch the trades.
LEMMA SettledTrades ==
    ASSUME CountInv, UNCHANGED <<state, owner>>,
           UNCHANGED status \/ \E c \in Configs : \E new : SetStatus(c, new)
    PROVE  Settled
<1>1. DOMAIN status = Configs
  BY DEF CountInv
<1> QED
  BY <1>1, StatusStays DEF Settled

\* The ended trades of a configuration that is not deleted stay.
LEMMA EndedGrows ==
    ASSUME Settled, NEW c \in Configs, status'[c] # "deleted"
    PROVE  EndedOf(c) \subseteq EndedOf(c)'
  BY DEF Settled, EndedOf

\* Copies that are handled, or forgotten.
LEMMA BatchStep ==
    ASSUME BatchInv, Settled, DOMAIN batch' = Monitors, \A j \in Monitors : batch'[j] \subseteq batch[j]
    PROVE  BatchInv'
  BY DEF BatchInv, Settled

\* Of one configuration: nothing is counted, nothing becomes due.
LEMMA CountKept ==
    ASSUME NEW c \in Configs, IsFiniteSet(DueOf(c)), completed[c] \in Nat,
           completed[c] + Cardinality(DueOf(c)) <= Cardinality(EndedOf(c)),
           completed'[c] = completed[c], DueOf(c)' \subseteq DueOf(c), EndedOf(c) \subseteq EndedOf(c)'
    PROVE  completed'[c] + Cardinality(DueOf(c)') <= Cardinality(EndedOf(c)')
<1>1. Cardinality(DueOf(c)') <= Cardinality(DueOf(c)) /\ Cardinality(DueOf(c)') \in Nat /\ Cardinality(DueOf(c)) \in Nat
  BY FS_Subset, FS_CardinalityType
<1>2. IsFiniteSet(EndedOf(c)')
  <2>1. IsFiniteSet(Trades)
    BY Constants, FS_Interval DEF Trades
  <2>2. EndedOf(c)' \subseteq Trades
    BY DEF EndedOf
  <2> QED
    BY <2>1, <2>2, FS_Subset
<1>3. Cardinality(EndedOf(c)) <= Cardinality(EndedOf(c)')
  BY <1>2, FS_Subset
<1>4. Cardinality(EndedOf(c)) \in Nat /\ Cardinality(EndedOf(c)') \in Nat
  BY <1>2, EndedFinite, FS_CardinalityType
<1> QED
  BY <1>1, <1>3, <1>4

\* Nothing is counted, nothing becomes due.
LEMMA CountQuiet ==
    ASSUME IInv, CountInv, Settled, UNCHANGED completed,
           \A j \in Monitors : due'[j] = due[j] \/ due'[j] = None
                               \/ due'[j] \in [config : Configs, verdict : {"live", "blocked"}]
    PROVE  CountInv'
<1>1. ASSUME NEW c \in Configs PROVE DueOf(c)' \subseteq DueOf(c)
  <2>1. \A r \in [config : Configs, verdict : {"live", "blocked"}] : r \notin [config : {c}, gain : Gains]
    OBVIOUS
  <2> QED
    BY <2>1 DEF DueOf
<1>2. ASSUME NEW c \in Configs PROVE IsFiniteSet(DueOf(c)')
  BY <1>1, FS_Subset DEF CountInv
<1>3. ASSUME NEW c \in Configs, status'[c] # "deleted"
      PROVE completed'[c] + Cardinality(DueOf(c)') <= Cardinality(EndedOf(c)')
  <2>1. EndedOf(c) \subseteq EndedOf(c)'
    BY <1>3, EndedGrows
  <2>2. completed[c] \in Nat
    BY DEF IInv, TraderTypes
  <2>3. status[c] # "deleted"
    BY <1>3 DEF Settled
  <2> QED
    BY <1>1, <2>1, <2>2, <2>3, CountKept DEF CountInv
<1>4. DOMAIN status' = Configs
  BY DEF Settled
<1> QED
  BY <1>2, <1>3, <1>4 DEF CountInv

\* Initially there is nothing to count.
LEMMA CountInit == Init => BatchInv /\ CountInv
<1> SUFFICES ASSUME Init PROVE BatchInv /\ CountInv
  OBVIOUS
<1>1. BatchInv
  BY DEF Init, BatchInv
<1>2. DOMAIN status = Configs
  BY DEF Init
<1>3. ASSUME NEW c \in Configs PROVE DueOf(c) = {} /\ completed[c] = 0
  BY <1>3 DEF Init, DueOf
<1>4. ASSUME NEW c \in Configs
      PROVE IsFiniteSet(DueOf(c)) /\ completed[c] + Cardinality(DueOf(c)) <= Cardinality(EndedOf(c))
  <2>1. Cardinality(EndedOf(c)) \in Nat
    BY EndedFinite
  <2> QED
    BY <1>3, <1>4, <2>1, FS_EmptySet
<1> QED
  BY <1>1, <1>2, <1>4 DEF CountInv

\* Steps of a cycle count nothing.
LEMMA CycleCounts ==
    ASSUME IInv, BatchInv, CountInv, NEW i \in Traders, loadActiveConfigs(i) \/ processConfig(i) \/ TraderFails(i)
    PROVE  BatchInv' /\ CountInv'
<1>t. TraderTypes /\ CopyInv /\ DOMAIN batch = Monitors
  BY DEF IInv, BatchInv
<1>1. UNCHANGED <<completed, batch, due>>
  BY DEF loadActiveConfigs, processConfig, TraderFails, Evaluate, CheckLoss, Block, PickSignal, CheckOpposing,
     OpenTrade, SkipDuplicate, SkipOrder, AdvanceCursor, configVars, monitorVars
<1>2. Settled
  <2>1. CASE OpenTrade(i)
    <3>1. PICK t \in Trades : /\ state' = [state EXCEPT ![t] = "open"]
                             /\ owner' = [owner EXCEPT ![t] = at[i]]
                             /\ {u \in Trades : state[u] = "none"} = t..TradeCount
      BY <2>1 DEF OpenTrade, Insert
    <3>2. state[t] = "none"
      <4>1. t \in t..TradeCount
        BY Constants DEF Trades
      <4> QED
        BY <3>1, <4>1
    <3>3. UNCHANGED status
      BY <2>1 DEF OpenTrade, configVars
    <3> QED
      BY <3>1, <3>2, <3>3, <1>t DEF Settled, TraderTypes, CountInv
  <2>2. CASE Block(i)
    <3>1. at[i] \in Configs /\ UNCHANGED <<state, owner>>
      BY <2>2, <1>t DEF Block, CopyInv, tradeVars
    <3> QED
      BY <2>2, <3>1, SettledTrades DEF Block
  <2>3. ASSUME NEW c \in Configs, Evaluate(i, c) PROVE Settled
    <3>1. UNCHANGED <<state, owner>> /\ (UNCHANGED status \/ \E new : SetStatus(c, new))
      BY <2>3 DEF Evaluate, tradeVars
    <3> QED
      BY <3>1, SettledTrades
  <2>4. CASE \/ loadActiveConfigs(i) \/ TraderFails(i) \/ CheckLoss(i) \/ PickSignal(i) \/ CheckOpposing(i)
             \/ SkipDuplicate(i) \/ SkipOrder(i) \/ AdvanceCursor(i)
    <3>1. UNCHANGED <<state, owner, status>>
      BY <2>4 DEF loadActiveConfigs, TraderFails, CheckLoss, PickSignal, CheckOpposing, SkipDuplicate, SkipOrder,
         AdvanceCursor, configVars, tradeVars
    <3> QED
      BY <3>1, SettledTrades
  <2> QED
    BY <2>1, <2>2, <2>3, <2>4 DEF processConfig
<1> QED
  BY <1>1, <1>2, <1>t, BatchStep, CountQuiet

\* Requests, the clock and crashes count nothing, and what they forget is not counted.
LEMMA OutsideCounts ==
    ASSUME IInv, BatchInv, CountInv,
           \/ \E i \in Traders \cup Monitors : Crash(i)
           \/ \E c \in Configs, b \in Backtests \cup {None} :
                 createConfig(c, b) \/ \E e \in BOOLEAN : updateConfig(c, e, b)
           \/ \E c \in Configs : deleteConfig(c)
           \/ pauseAll \/ resumeAll
           \/ \E t \in Trades : CloseByHand(t) \/ Cancel(t)
           \/ NewSignal \/ SignalAges \/ BacktestExpires \/ NewDay
    PROVE  BatchInv' /\ CountInv'
<1>t. TraderTypes /\ DOMAIN batch = Monitors /\ DOMAIN status = Configs
  BY DEF IInv, BatchInv, CountInv
<1>1. ASSUME NEW i \in Traders \cup Monitors, Crash(i) PROVE BatchInv' /\ CountInv'
  <2>1. Settled /\ UNCHANGED completed
    <3>1. UNCHANGED <<state, owner, status, completed>>
      BY <1>1 DEF Crash, configVars, tradeVars
    <3> QED
      BY <3>1, SettledTrades
  <2>2. /\ DOMAIN batch' = Monitors
        /\ \A j \in Monitors : batch'[j] \subseteq batch[j] /\ (due'[j] = due[j] \/ due'[j] = None)
    BY <1>1 DEF Crash
  <2> QED
    BY <2>1, <2>2, BatchStep, CountQuiet
<1>2. ASSUME NEW c \in Configs, NEW b \in Backtests \cup {None},
             createConfig(c, b) \/ (\E e \in BOOLEAN : updateConfig(c, e, b)) PROVE BatchInv' /\ CountInv'
  <2>1. UNCHANGED <<state, owner, completed, batch, due>>
    BY <1>2 DEF createConfig, updateConfig, tradeVars, monitorVars
  <2>2. UNCHANGED status \/ (status' = [status EXCEPT ![c] = IF Exists(c) THEN @ ELSE "backtest_required"]
                             /\ status[c] # "deleted")
    BY <1>2 DEF createConfig, updateConfig
  <2>3. Settled
    BY <2>1, <2>2, <1>t DEF Settled
  <2> QED
    BY <2>1, <2>3, <1>t, BatchStep, CountQuiet
<1>3. ASSUME NEW c \in Configs, deleteConfig(c) PROVE BatchInv' /\ CountInv'
  <2>1. UNCHANGED <<state, completed, batch, due>>
    BY <1>3 DEF deleteConfig, monitorVars
  <2>2. /\ status' = [status EXCEPT ![c] = "deleted"]
        /\ owner' = [t \in Trades |-> IF owner[t] = c THEN None ELSE owner[t]]
    BY <1>3 DEF deleteConfig
  <2>3. Settled
    BY <2>1, <2>2, <1>t DEF Settled
  <2> QED
    BY <2>1, <2>3, <1>t, BatchStep, CountQuiet
<1>4. ASSUME NEW t \in Trades, CloseByHand(t) \/ Cancel(t) PROVE BatchInv' /\ CountInv'
  <2>1. UNCHANGED <<owner, status, completed, batch, due>>
    BY <1>4 DEF CloseByHand, Cancel, End, configVars, monitorVars
  <2>2. state' = [state EXCEPT ![t] = "closed"] \/ state' = [state EXCEPT ![t] = "cancelled"]
    BY <1>4 DEF CloseByHand, Cancel, End
  <2>3. Settled
    BY <2>1, <2>2, <1>t DEF Settled, TraderTypes
  <2> QED
    BY <2>1, <2>3, <1>t, BatchStep, CountQuiet
<1>5. CASE pauseAll \/ resumeAll \/ NewSignal \/ SignalAges \/ BacktestExpires \/ NewDay
  <2>1. UNCHANGED <<state, owner, status, completed, batch, due>>
    BY <1>5 DEF pauseAll, resumeAll, NewSignal, SignalAges, BacktestExpires, NewDay, configVars, tradeVars,
       monitorVars
  <2> QED
    BY <2>1, <1>t, SettledTrades, BatchStep, CountQuiet
<1> QED
  BY <1>1, <1>2, <1>3, <1>4, <1>5

\* A monitor that closes an open trade of a configuration has one result more to record, and one trade more has ended.
LEMMA CloseCounts ==
    ASSUME IInv, BatchInv, CountInv, NEW j \in Monitors, NEW t \in Trades, NEW c \in Configs \cup {None},
           CloseTriggered(j, t, c), Open(t)
    PROVE  BatchInv' /\ CountInv'
<1> USE Constants
<1>t. TraderTypes /\ DueInv /\ DOMAIN batch = Monitors /\ DOMAIN status = Configs
  BY DEF IInv, BatchInv, CountInv
<1>1. /\ UNCHANGED <<owner, status, completed>> /\ state' = [state EXCEPT ![t] = "closed"]
      /\ due[j] = None /\ <<t, c>> \in batch[j] /\ batch' = [batch EXCEPT ![j] = @ \ {<<t, c>>}]
  BY DEF CloseTriggered, End, configVars
<1>2. PICK g \in Gains : due' = [due EXCEPT ![j] = IF c = None THEN None ELSE [config |-> c, gain |-> g]]
  BY DEF CloseTriggered
<1>3. Settled
  BY <1>1, <1>t DEF Settled, TraderTypes
<1>4. BatchInv'
  BY <1>1, <1>3, <1>t, BatchStep
<1>5. CASE c = None
  <2>1. \A k \in Monitors : due'[k] = due[k] \/ due'[k] = None
    BY <1>2, <1>5, <1>t DEF DueInv
  <2> QED
    BY <1>1, <1>3, <1>4, <2>1, CountQuiet
<1>6. CASE c # None
  <2>0. c \in Configs /\ (owner[t] = c \/ status[c] = "deleted")
    BY <1>1, <1>6 DEF BatchInv
  <2>1. due'[j] = [config |-> c, gain |-> g] /\ \A k \in Monitors : k # j => due'[k] = due[k]
    BY <1>2, <1>6, <1>t DEF DueInv
  <2>2. ASSUME NEW d \in Configs, d # c PROVE DueOf(d)' \subseteq DueOf(d)
    <3>1. [config |-> c, gain |-> g] \notin [config : {d}, gain : Gains]
      BY <2>2
    <3> QED
      BY <2>1, <3>1 DEF DueOf
  <2>3. DueOf(c)' \subseteq DueOf(c) \cup {j}
    BY <2>1 DEF DueOf
  <2>4. ASSUME NEW d \in Configs PROVE IsFiniteSet(DueOf(d)')
    <3>1. DueOf(d)' \subseteq DueOf(d) \cup {j}
      BY <2>2, <2>3
    <3>2. IsFiniteSet(DueOf(d) \cup {j})
      BY FS_AddElement DEF CountInv
    <3> QED
      BY <3>1, <3>2, FS_Subset
  <2>5. ASSUME NEW d \in Configs, status'[d] # "deleted"
        PROVE  completed'[d] + Cardinality(DueOf(d)') <= Cardinality(EndedOf(d)')
    <3>0. /\ completed[d] \in Nat /\ completed'[d] = completed[d]
          /\ IsFiniteSet(DueOf(d)) /\ completed[d] + Cardinality(DueOf(d)) <= Cardinality(EndedOf(d))
      BY <1>1, <2>5, <1>t DEF TraderTypes, CountInv
    <3>1. CASE d # c
      BY <2>2, <2>5, <3>0, <3>1, <1>3, EndedGrows, CountKept
    <3>2. CASE d = c
      <4>1. owner[t] = c
        BY <1>1, <2>0, <2>5, <3>2
      <4>2. EndedOf(c)' = EndedOf(c) \cup {t} /\ t \notin EndedOf(c)
        BY <1>1, <4>1, <1>t DEF EndedOf, Open, TraderTypes
      <4>3. Cardinality(EndedOf(c)') = Cardinality(EndedOf(c)) + 1
        BY <4>2, EndedFinite, FS_AddElement
      <4>4. Cardinality(DueOf(c)') <= Cardinality(DueOf(c)) + 1 /\ Cardinality(DueOf(c)') \in Nat
        <5>0. IsFiniteSet(DueOf(c)) /\ Cardinality(DueOf(c)) \in Nat
          BY <3>0, <3>2, FS_CardinalityType
        <5>1. IsFiniteSet(DueOf(c) \cup {j}) /\ Cardinality(DueOf(c) \cup {j}) <= Cardinality(DueOf(c)) + 1
          <6>1. Cardinality(DueOf(c) \cup {j}) = IF j \in DueOf(c) THEN Cardinality(DueOf(c))
                                                                  ELSE Cardinality(DueOf(c)) + 1
            BY <5>0, FS_AddElement
          <6> QED
            BY <5>0, <6>1, FS_AddElement
        <5>2. Cardinality(DueOf(c)') <= Cardinality(DueOf(c) \cup {j})
          BY <2>3, <5>1, FS_Subset
        <5> QED
          BY <5>1, <5>2, <2>0, <2>4, <3>0, <3>2, FS_CardinalityType
      <4>5. Cardinality(EndedOf(c)) \in Nat /\ Cardinality(DueOf(c)) \in Nat
        BY <3>0, <3>2, EndedFinite, FS_CardinalityType
      <4> QED
        BY <3>0, <3>2, <4>3, <4>4, <4>5
    <3> QED
      BY <3>1, <3>2
  <2> QED
    BY <1>3, <1>4, <2>4, <2>5 DEF CountInv, Settled
<1> QED
  BY <1>5, <1>6

\* A result that is counted is due no longer.
LEMMA RecordCounts ==
    ASSUME IInv, BatchInv, CountInv, NEW j \in Monitors, RecordResult(j)
    PROVE  BatchInv' /\ CountInv'
<1>t. TraderTypes /\ DueInv /\ DOMAIN batch = Monitors /\ DOMAIN status = Configs
  BY DEF IInv, BatchInv, CountInv
<1>1. UNCHANGED <<state, owner, status, batch>>
  BY DEF RecordResult, tradeVars
<1>2. Settled
  BY <1>1, SettledTrades
<1>3. BatchInv'
  BY <1>1, <1>2, <1>t, BatchStep
<1>4. due[j] # None /\ due[j] \in [config : Configs, gain : Gains]
  BY <1>t DEF RecordResult, DueInv
<1>5. PICK c \in Configs : due[j].config = c
  BY <1>4
<1>6. j \in DueOf(c)
  BY <1>4, <1>5 DEF DueOf
<1>7. \E v : due' = [due EXCEPT ![j] = IF v = None THEN None ELSE [config |-> c, verdict |-> v]]
  BY <1>5 DEF RecordResult
<1>8. /\ \A k \in Monitors : k # j => due'[k] = due[k]
      /\ \A d \in Configs : j \notin DueOf(d)'
  <2>1. PICK v : due' = [due EXCEPT ![j] = IF v = None THEN None ELSE [config |-> c, verdict |-> v]]
    BY <1>7
  <2>2. \A d \in Configs : [config |-> c, verdict |-> v] \notin [config : {d}, gain : Gains]
    OBVIOUS
  <2> QED
    BY <2>1, <2>2, <1>t DEF DueOf, DueInv
<1>9. \A d \in Configs : DueOf(d)' \subseteq DueOf(d) \ {j}
  BY <1>8 DEF DueOf
<1>10. \A d \in Configs : IsFiniteSet(DueOf(d)')
  BY <1>9, FS_Subset DEF CountInv
<1>11. ASSUME NEW d \in Configs, status'[d] # "deleted"
       PROVE  completed'[d] + Cardinality(DueOf(d)') <= Cardinality(EndedOf(d)')
  <2>0. /\ completed[d] \in Nat /\ IsFiniteSet(DueOf(d))
        /\ completed[d] + Cardinality(DueOf(d)) <= Cardinality(EndedOf(d))
    BY <1>1, <1>11, <1>t DEF TraderTypes, CountInv
  <2>1. CASE completed'[d] = completed[d]
    BY <1>2, <1>9, <1>11, <2>0, <2>1, EndedGrows, CountKept
  <2>2. CASE completed'[d] # completed[d]
    <3>1. d = c /\ completed'[d] = completed[d] + 1
      BY <1>5, <2>2, <1>t DEF RecordResult, TraderTypes
    <3>2. Cardinality(DueOf(d) \ {j}) = Cardinality(DueOf(d)) - 1 /\ IsFiniteSet(DueOf(d) \ {j})
      BY <1>6, <2>0, <3>1, FS_RemoveElement
    <3>3. Cardinality(DueOf(d)') <= Cardinality(DueOf(d) \ {j})
      BY <1>9, <3>2, FS_Subset
    <3>4. EndedOf(d)' = EndedOf(d)
      BY <1>1 DEF EndedOf
    <3>5. Cardinality(DueOf(d)) \in Nat /\ Cardinality(DueOf(d)') \in Nat /\ Cardinality(EndedOf(d)) \in Nat
      BY <1>10, <2>0, EndedFinite, FS_CardinalityType
    <3> QED
      BY <2>0, <3>1, <3>2, <3>3, <3>4, <3>5
  <2> QED
    BY <2>1, <2>2
<1> QED
  BY <1>2, <1>3, <1>10, <1>11 DEF CountInv, Settled

\* Steps of the monitors.
LEMMA MonitorCounts ==
    ASSUME IInv, BatchInv, CountInv, NEW j \in Monitors,
           MonitorTick(j) \/ monitorRow(j) \/ recordProbationResult(j) \/ MonitorFails(j)
    PROVE  BatchInv' /\ CountInv'
<1> USE Constants
<1>t. TraderTypes /\ DueInv /\ DOMAIN batch = Monitors /\ DOMAIN status = Configs
  BY DEF IInv, BatchInv, CountInv
<1>1. CASE MonitorTick(j)
  <2>1. UNCHANGED <<state, owner, status, completed, due>>
    BY <1>1 DEF MonitorTick, configVars, tradeVars
  <2>2. Settled
    BY <2>1, SettledTrades
  <2>3. CountInv'
    BY <2>1, <2>2, CountQuiet
  <2>4. batch' = [batch EXCEPT ![j] = {<<t, owner[t]>> : t \in {u \in Trades : Open(u)}}]
    BY <1>1 DEF MonitorTick
  <2>5. BatchInv'
    <3>1. DOMAIN batch' = Monitors
      BY <2>4, <1>t
    <3>2. ASSUME NEW k \in Monitors, NEW t \in Trades, NEW c \in Configs, <<t, c>> \in batch'[k]
          PROVE  state'[t] # "none" /\ (owner'[t] = c \/ status'[c] = "deleted")
      <4>1. CASE k = j
        BY <2>1, <2>4, <3>2, <4>1, <1>t DEF Open
      <4>2. CASE k # j
        BY <2>1, <2>4, <3>2, <4>2, <1>t DEF BatchInv
      <4> QED
        BY <4>1, <4>2
    <3> QED
      BY <3>1, <3>2 DEF BatchInv
  <2> QED
    BY <2>3, <2>5
<1>2. ASSUME NEW t \in Trades, NEW c \in Configs \cup {None}, CloseTriggered(j, t, c) \/ LeaveOpen(j, t, c)
      PROVE  BatchInv' /\ CountInv'
  <2>1. CASE CloseTriggered(j, t, c) /\ Open(t)
    BY <2>1, CloseCounts
  <2>2. CASE ~(CloseTriggered(j, t, c) /\ Open(t))
    <3>1. UNCHANGED <<state, owner, status, completed, due>> /\ batch' = [batch EXCEPT ![j] = @ \ {<<t, c>>}]
      BY <1>2, <2>2 DEF CloseTriggered, LeaveOpen, configVars, tradeVars
    <3> QED
      BY <3>1, <1>t, SettledTrades, BatchStep, CountQuiet
  <2> QED
    BY <2>1, <2>2
<1>3. CASE RecordResult(j)
  BY <1>3, RecordCounts
<1>4. CASE Graduate(j)
  <2>1. UNCHANGED <<state, owner, completed, batch>> /\ due' = [due EXCEPT ![j] = None]
        /\ SetStatus(due[j].config, due[j].verdict)
    BY <1>4 DEF Graduate, tradeVars
  <2>2. due[j].config \in Configs
    BY <1>4, <1>t DEF Graduate, DueInv
  <2>3. Settled
    BY <2>1, <2>2, SettledTrades
  <2> QED
    BY <2>1, <2>3, <1>t, BatchStep, CountQuiet DEF DueInv
<1>5. CASE MonitorFails(j)
  <2>1. UNCHANGED <<state, owner, status, completed, batch>> /\ due' = [due EXCEPT ![j] = None]
    BY <1>5 DEF MonitorFails, configVars, tradeVars
  <2> QED
    BY <2>1, <1>t, SettledTrades, BatchStep, CountQuiet DEF DueInv
<1> QED
  BY <1>1, <1>2, <1>3, <1>4, <1>5 DEF monitorRow, recordProbationResult

\* Every step keeps the count.
LEMMA CountStep == IInv /\ BatchInv /\ CountInv /\ [Next]_vars => (BatchInv /\ CountInv)'
<1> SUFFICES ASSUME IInv, BatchInv, CountInv, [Next]_vars PROVE BatchInv' /\ CountInv'
  OBVIOUS
<1>1. ASSUME NEW i \in Traders, loadActiveConfigs(i) \/ processConfig(i) \/ TraderFails(i)
      PROVE BatchInv' /\ CountInv'
  BY <1>1, CycleCounts
<1>2. ASSUME NEW j \in Monitors, MonitorTick(j) \/ monitorRow(j) \/ recordProbationResult(j) \/ MonitorFails(j)
      PROVE BatchInv' /\ CountInv'
  BY <1>2, MonitorCounts
<1>3. CASE UNCHANGED vars
  <2>1. UNCHANGED <<state, owner, status, completed, batch, due>>
    BY <1>3 DEF vars, configVars, tradeVars, monitorVars
  <2> QED
    BY <2>1, SettledTrades, BatchStep, CountQuiet DEF BatchInv
<1> QED
  BY <1>1, <1>2, <1>3, OutsideCounts DEF Next

\* The probation of a configuration counts a trade at most once, for every number of monitors that saw it open,
\* and with closes by hand, cancellations, failures and crashes in between.
THEOREM Counted == Spec => []CountedOnce
<1>1. Init => BatchInv /\ CountInv
  BY CountInit
<1>2. IInv /\ BatchInv /\ CountInv /\ [Next]_vars => (BatchInv /\ CountInv)'
  BY CountStep
<1>3. IInv /\ BatchInv /\ CountInv => CountedOnce
  <2> SUFFICES ASSUME IInv, CountInv, NEW c \in Configs, Exists(c)
               PROVE completed[c] <= Cardinality(EndedOf(c))
    BY DEF CountedOnce
  <2>1. /\ completed[c] \in Nat /\ IsFiniteSet(DueOf(c))
        /\ completed[c] + Cardinality(DueOf(c)) <= Cardinality(EndedOf(c))
    BY DEF IInv, TraderTypes, CountInv, Exists, Gone
  <2>2. Cardinality(DueOf(c)) \in Nat /\ Cardinality(EndedOf(c)) \in Nat
    BY <2>1, EndedFinite, FS_CardinalityType
  <2> QED
    BY <2>1, <2>2
<1> QED
  BY <1>1, <1>2, <1>3, InvCorrect, PTL DEF Spec
=============================================================================
