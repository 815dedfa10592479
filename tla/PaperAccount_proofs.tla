------------------------ MODULE PaperAccount_proofs ------------------------
(* Theorems of PaperAccount, for every set of orders and callers, every limit and pool: the lock is  *)
(* held by the one order under check, a row that has ended keeps its result, and what an order read  *)
(* under the lock is still good when its position opens.                                             *)
EXTENDS PaperAccount, SumTheorems, TLAPS

\* What the proofs use of the constants.
LEMMA Constants ==
    /\ None \notin Prices /\ None \notin Orders /\ None \notin Int
    /\ Monitor \in Callers /\ Monitor \notin Closers
    /\ \A c \in Closers : c \in Callers
    /\ Prices \subseteq Int /\ Quantity \in [Orders -> Int]
    /\ Exchange \in [Orders -> Exchanges] /\ Earlier \subseteq Orders
    /\ MaxDisturbances \in Nat
  BY AccountAssumption DEF Callers

\* The result of a row is a number.
LEMMA GainInt ==
    ASSUME AccountTypes, NEW o \in Orders, entry[o] # None, NEW p \in Prices
    PROVE  Gain(o, p) \in Int
<1> DEFINE d == IF Side[o] = "buy" THEN p - entry[o] ELSE entry[o] - p
<1>1. entry[o] \in Int /\ p \in Int
  BY Constants DEF AccountTypes
<1>2. d \in Int
  BY <1>1
<1>3. Quantity[o] \in Int
  BY Constants
<1> HIDE DEF d
<1>4. d * Quantity[o] \in Int
  BY <1>2, <1>3
<1> QED
  BY <1>4 DEF Gain, d

LEMMA InitInv == Init => IInv
<1> SUFFICES ASSUME Init PROVE IInv
  OBVIOUS
<1> USE Constants DEF Init
<1>1. AccountTypes
  BY DEF AccountTypes, InTransaction, InLock, Ended
<1>2. LockInv
  BY DEF LockInv, InLock
<1>3. RequestInv /\ RowInv
  BY DEF RequestInv, RowInv, InTransaction, InLock
<1> QED
  BY <1>1, <1>2, <1>3 DEF IInv

\* LossWatched keeps the type of its flags.
LEMMA WatchedType == ASSUME lossy \in [Orders -> BOOLEAN], LossWatched PROVE lossy' \in [Orders -> BOOLEAN]
  BY DEF LossWatched

\* Taking the lock keeps the type of the flags.
LEMMA SetOneFlag ==
    ASSUME NEW f \in [Orders -> BOOLEAN], NEW o \in Orders, NEW b \in BOOLEAN
    PROVE  [f EXCEPT ![o] = b] \in [Orders -> BOOLEAN]
  OBVIOUS

LEMMA ReachedType == \A e : DayIsLost(e) \in BOOLEAN
  BY DEF DayIsLost, LossReached

\* A step of a request that writes no row keeps the invariant when the lock follows the stage.
LEMMA RequestStep ==
    ASSUME IInv, NEW o \in Orders, NEW s \in {"client"} \cup InTransaction \cup Ended,
           Move(o, s), s \in {"client"} \cup InTransaction => stage[o] \in {"client"} \cup InTransaction,
           \/ s \in InLock /\ stage[o] \in InLock /\ UNCHANGED lock
           \/ s \in InLock /\ lock = None /\ lock' = o
           \/ s \notin InLock /\ stage[o] \in InLock /\ lock' = None
           \/ s \notin InLock /\ stage[o] \notin InLock /\ UNCHANGED lock,
           UNCHANGED <<rows, ref, closes, monitor, price>>, disturbances' \in Nat,
           told' \in BOOLEAN, late' \in [Orders -> BOOLEAN], lossy' \in [Orders -> BOOLEAN]
    PROVE  IInv'
<1> USE Constants
<1>t. AccountTypes /\ LockInv /\ RequestInv /\ RowInv
  BY DEF IInv
<1>1. AccountTypes'
  BY <1>t DEF AccountTypes, Move, rows, closes, monitor
<1>2. LockInv'
  <2>1. /\ stage'[o] = s
        /\ \A q \in Orders : q # o => stage'[q] = stage[q]
    BY <1>t DEF AccountTypes, Move
  <2>2. ASSUME NEW q \in Orders PROVE stage'[q] \in InLock <=> lock' = q
    BY <2>1, <1>t DEF LockInv, AccountTypes
  <2> QED
    BY <2>2 DEF LockInv
<1>3. RequestInv' /\ RowInv'
  BY <1>t DEF AccountTypes, RequestInv, RowInv, Move, rows, closes, monitor
<1> QED
  BY <1>1, <1>2, <1>3 DEF IInv

\* The INSERT: the order that holds the lock writes its row.
LEMMA InsertStep ==
    ASSUME IInv, NEW o \in Orders, NEW s \in {"opened", "failed"},
           stage[o] = "insert", EndTransaction(o, s),
           status' = [status EXCEPT ![o] = "open"], entry' = [entry EXCEPT ![o] = ref[o]],
           UNCHANGED <<pnl, today, ref, ghosts, closes, monitor, price>>, disturbances' \in Nat
    PROVE  IInv'
<1> USE Constants
<1>t. AccountTypes /\ LockInv /\ RequestInv /\ RowInv
  BY DEF IInv
<1>0. /\ status[o] = "none" /\ pnl[o] = None /\ stage[o] \in InLock
      /\ s \in Ended /\ s \notin InLock /\ s \notin InTransaction /\ s # "client"
  BY <1>t DEF RequestInv, RowInv, InTransaction, InLock, Ended
<1>1. AccountTypes'
  BY <1>t, <1>0 DEF AccountTypes, EndTransaction, Move, ghosts, closes, monitor
<1>2. LockInv'
  BY <1>t, <1>0 DEF AccountTypes, LockInv, EndTransaction, Move
<1>3. RequestInv'
  BY <1>t, <1>0 DEF AccountTypes, RequestInv, EndTransaction, Move
<1>4. RowInv'
  <2>1. /\ status'[o] = "open" /\ entry'[o] # None /\ pnl'[o] = None
        /\ \A q \in Orders : q # o => status'[q] = status[q] /\ entry'[q] = entry[q] /\ pnl'[q] = pnl[q]
    BY <1>t, <1>0 DEF AccountTypes
  <2> QED
    BY <2>1, <1>t DEF AccountTypes, RowInv, closes, monitor
<1> QED
  BY <1>1, <1>2, <1>3, <1>4 DEF IInv

\* A call of closePaperTrade keeps the invariant.
LEMMA CloseStep == ASSUME IInv, NEW x \in Callers, closePaperTrade(x) PROVE IInv'
<1> USE Constants
<1>t. AccountTypes /\ LockInv /\ RequestInv /\ RowInv
  BY DEF IInv
<1>0. step[x] \in {"select", "update"} /\ target[x] \in Orders /\ at[x] \in Prices
  BY <1>t DEF closePaperTrade, CloseSelect, CloseUpdate, CloseFails, AccountTypes, RowInv
<1>r. Return(x) => /\ step' \in [Callers -> {"idle", "select", "update", "done"}]
                   /\ target' \in [Callers -> Orders \cup {None}] /\ at' \in [Callers -> Prices \cup {None}]
                   /\ \A y \in Callers : step'[y] \in {"select", "update"} =>
                         step[y] = step'[y] /\ target'[y] = target[y] /\ at'[y] = at[y]
                   /\ batch' \subseteq batch
  BY <1>t DEF Return, AccountTypes
<1>1. CASE CloseSelect(x)
  <2>1. /\ step' \in [Callers -> {"idle", "select", "update", "done"}]
        /\ target' \in [Callers -> Orders \cup {None}] /\ at' \in [Callers -> Prices \cup {None}]
        /\ \A y \in Callers : step'[y] \in {"select", "update"} =>
              step[y] \in {"select", "update"} /\ target'[y] = target[y] /\ at'[y] = at[y]
        /\ batch' \subseteq batch
    BY <1>1, <1>r, <1>t DEF CloseSelect, AccountTypes
  <2>2. UNCHANGED <<rows, requests, ghosts, seen, world>>
    BY <1>1 DEF CloseSelect
  <2>3. AccountTypes'
    BY <2>1, <2>2, <1>t DEF AccountTypes, rows, requests, ghosts, world
  <2> QED
    BY <2>1, <2>2, <2>3, <1>t DEF IInv, LockInv, RequestInv, RowInv, AccountTypes, rows, requests
<1>2. CASE CloseUpdate(x)
  <2> DEFINE o == target[x]
  <2>1. UNCHANGED <<entry, requests, told, late, seen, world>>
    BY <1>2 DEF CloseUpdate, rows
  <2>2. Gain(o, at[x]) \in Int
    BY <1>0, <1>t, GainInt DEF RowInv, closePaperTrade
  <2>3. lossy' \in [Orders -> BOOLEAN]
    BY <1>2, <1>t, WatchedType DEF CloseUpdate, AccountTypes
  <2>4. \/ status[o] = "open" /\ status' = [status EXCEPT ![o] = "closed"]
           /\ pnl' = [pnl EXCEPT ![o] = Gain(o, at[x])] /\ today' = today \cup {o}
        \/ UNCHANGED <<status, pnl, today>>
    BY <1>2 DEF CloseUpdate, rows
  <2> HIDE DEF o
  <2>5. o \in Orders
    BY <1>0 DEF o
  <2>6. Return(x)
    BY <1>2 DEF CloseUpdate
  <2>7. AccountTypes'
    BY <2>1, <2>2, <2>3, <2>4, <2>5, <2>6, <1>r, <1>t DEF AccountTypes, requests, world
  <2>8. \A q \in Orders : /\ status'[q] = "none" <=> status[q] = "none"
                          /\ status'[q] = "open" => status[q] = "open" /\ pnl'[q] = pnl[q]
                          /\ status'[q] \in {"none", "open"} => pnl'[q] = pnl[q]
                          /\ status'[q] = "closed" => pnl'[q] # None
    BY <2>2, <2>4, <2>5, <1>t DEF AccountTypes, RowInv
  <2>9. LockInv' /\ RequestInv'
    BY <2>1, <2>8, <1>t DEF LockInv, RequestInv, requests
  <2>10. RowInv'
    BY <2>1, <2>6, <2>7, <2>8, <1>r, <1>t DEF RowInv, AccountTypes
  <2> QED
    BY <2>7, <2>9, <2>10 DEF IInv
<1>3. CASE CloseFails(x)
  <2>1. UNCHANGED <<rows, requests, ghosts, seen, price>> /\ disturbances' \in Nat
    BY <1>3, <1>t DEF CloseFails, Disturbance, AccountTypes
  <2>2. Return(x)
    BY <1>3 DEF CloseFails
  <2>3. AccountTypes'
    BY <2>1, <2>2, <1>r, <1>t DEF AccountTypes, rows, requests, ghosts
  <2> QED
    BY <2>1, <2>2, <2>3, <1>r, <1>t DEF IInv, LockInv, RequestInv, RowInv, AccountTypes, rows, requests
<1> QED
  BY <1>1, <1>2, <1>3 DEF closePaperTrade

\* Steps that leave the rows, the requests and the flags alone, and start calls on rows that exist.
LEMMA MonitorStep ==
    ASSUME IInv, AccountTypes', UNCHANGED <<rows, requests>>,
           \A x \in Callers : step'[x] \in {"select", "update"} =>
               \/ step[x] \in {"select", "update"} /\ target'[x] = target[x] /\ at'[x] = at[x]
               \/ target'[x] \in Orders /\ at'[x] \in Prices /\ status[target'[x]] # "none",
           \A o \in batch' : status[o] # "none"
    PROVE  IInv'
<1> USE Constants
<1>t. AccountTypes /\ LockInv /\ RequestInv /\ RowInv
  BY DEF IInv
<1>1. LockInv' /\ RequestInv'
  BY <1>t DEF LockInv, RequestInv, rows, requests
<1>2. RowInv'
  BY <1>t DEF RowInv, rows
<1> QED
  BY <1>1, <1>2 DEF IInv

\* Every step keeps the invariant.
LEMMA StepInv == IInv /\ [Next]_vars => IInv'
<1> SUFFICES ASSUME IInv, [Next]_vars PROVE IInv'
  OBVIOUS
<1> USE Constants
<1>t. AccountTypes /\ LockInv /\ RequestInv /\ RowInv
  BY DEF IInv
<1>s. /\ "lock" \in InTransaction /\ "lock" \notin InLock
      /\ \A s \in InLock : s \in InTransaction
      /\ \A s \in Ended : s \notin InTransaction /\ s \notin InLock /\ s # "client"
  BY DEF InTransaction, InLock, Ended
<1>g. /\ told \in BOOLEAN /\ late \in [Orders -> BOOLEAN] /\ lossy \in [Orders -> BOOLEAN]
      /\ disturbances \in Nat
  BY <1>t DEF AccountTypes
<1>1. ASSUME NEW o \in Orders, withUserOrderLock(o) PROVE IInv'
  <2>1. CASE GetClient(o)
    BY <2>1, <1>s, <1>g, RequestStep DEF GetClient, ghosts, world, InLock
  <2>2. CASE ConnectTimeout(o)
    <3>1. disturbances' \in Nat /\ UNCHANGED price
      BY <2>2, <1>g DEF ConnectTimeout, Disturbance, world
    <3> QED
      BY <2>2, <3>1, <1>s, <1>g, RequestStep DEF ConnectTimeout, ghosts, InLock, Ended
  <2>3. CASE TakeLock(o)
    <3>1. late' \in [Orders -> BOOLEAN]
      BY <2>3, <1>g, SetOneFlag DEF TakeLock
    <3>2. lossy' \in [Orders -> BOOLEAN]
      BY <2>3, <1>g, ReachedType, SetOneFlag DEF TakeLock
    <3>3. Move(o, "equity") /\ stage[o] = "lock" /\ "equity" \in InLock /\ lock = None /\ lock' = o
      BY <2>3 DEF TakeLock, InLock
    <3> QED
      BY <2>3, <3>1, <3>2, <3>3, <1>s, <1>g, RequestStep DEF TakeLock, world
  <2>4. CASE LockTimeout(o)
    BY <2>4, <1>s, <1>g, RequestStep DEF LockTimeout, ghosts, world, InLock, Ended
  <2>5. CASE checkOrder(o)
    <3>1. /\ stage[o] \in InLock
          /\ \/ EndTransaction(o, "refused")
             \/ \E s \in InLock : Move(o, s) /\ UNCHANGED lock
          /\ UNCHANGED <<rows, ref, closes, monitor, world, late, lossy>>
      BY <2>5 DEF checkOrder, ReadEquity, ReadExposure, ReadLoss, InLock, ghosts
    <3>2. told' \in BOOLEAN
      BY <2>5, <1>g DEF checkOrder, ReadEquity, ReadExposure, ReadLoss, ghosts
    <3>3. CASE EndTransaction(o, "refused")
      BY <3>1, <3>2, <3>3, <1>s, <1>g, RequestStep DEF EndTransaction, world, Ended
    <3>4. CASE \E s \in InLock : Move(o, s) /\ UNCHANGED lock
      BY <3>1, <3>2, <3>4, <1>s, <1>g, RequestStep DEF world
    <3> QED
      BY <3>1, <3>3, <3>4
  <2>6. CASE OpenTrade(o)
    BY <2>6, <1>g, InsertStep DEF OpenTrade, world
  <2>7. CASE TransactionFails(o)
    <3>1. lock = o <=> stage[o] \in InLock
      BY <1>t DEF LockInv
    <3>2. disturbances' \in Nat /\ UNCHANGED price
      BY <2>7, <1>g DEF TransactionFails, Disturbance
    <3> QED
      BY <2>7, <3>1, <3>2, <1>s, <1>g, RequestStep DEF TransactionFails, ghosts, Ended
  <2>8. CASE CommitAckLost(o)
    <3>1. disturbances' \in Nat /\ UNCHANGED price
      BY <2>8, <1>g DEF CommitAckLost, Disturbance
    <3> QED
      BY <2>8, <3>1, InsertStep DEF CommitAckLost
  <2> QED
    BY <1>1, <2>1, <2>2, <2>3, <2>4, <2>5, <2>6, <2>7, <2>8 DEF withUserOrderLock
<1>2. ASSUME NEW o \in Orders, CancelPaper(o) PROVE IInv'
  <2>1. lossy' \in [Orders -> BOOLEAN]
    BY <1>2, <1>g, WatchedType DEF CancelPaper
  <2>2. AccountTypes'
    BY <1>2, <2>1, <1>t DEF CancelPaper, Disturbance, AccountTypes, requests, closes, monitor
  <2>3. \A q \in Orders : /\ status'[q] = "none" <=> status[q] = "none"
                          /\ status'[q] # "cancelled" => status'[q] = status[q]
    BY <1>2, <1>t DEF CancelPaper, AccountTypes
  <2>4. LockInv' /\ RequestInv'
    BY <1>2, <2>3, <1>t DEF CancelPaper, LockInv, RequestInv, requests
  <2>5. RowInv'
    BY <1>2, <2>3, <1>t DEF CancelPaper, RowInv, AccountTypes, closes, monitor
  <2> QED
    BY <2>2, <2>4, <2>5 DEF IInv
<1>3. ASSUME NEW c \in Closers, CloseRequest(c) PROVE IInv'
  <2>1. PICK o \in Orders, p \in Prices : /\ status[o] # "none"
                                          /\ target' = [target EXCEPT ![c] = o]
                                          /\ at' = [at EXCEPT ![c] = p]
    BY <1>3 DEF CloseRequest
  <2>2. c \in Callers /\ step' = [step EXCEPT ![c] = "select"]
    BY <1>3 DEF CloseRequest
  <2>3. UNCHANGED <<rows, requests, ghosts, monitor, world>>
    BY <1>3 DEF CloseRequest
  <2>4. AccountTypes'
    BY <2>1, <2>2, <2>3, <1>t DEF AccountTypes, rows, requests, ghosts, monitor, world
  <2>5. \A o2 \in batch' : status[o2] # "none"
    BY <2>3, <1>t DEF RowInv, monitor
  <2>6. \A x \in Callers : step'[x] \in {"select", "update"} =>
               \/ step[x] \in {"select", "update"} /\ target'[x] = target[x] /\ at'[x] = at[x]
               \/ target'[x] \in Orders /\ at'[x] \in Prices /\ status[target'[x]] # "none"
    BY <2>1, <2>2, <1>t DEF AccountTypes
  <2> QED
    BY <2>3, <2>4, <2>5, <2>6, MonitorStep
<1>4. ASSUME NEW x \in Callers, closePaperTrade(x) PROVE IInv'
  BY <1>4, CloseStep
<1>5. ASSUME checkAndCloseTriggeredTrades PROVE IInv'
  <2>1. CASE MonitorTick
    <3>1. AccountTypes'
      BY <2>1, <1>t DEF MonitorTick, AccountTypes, rows, requests, ghosts, closes, world
    <3> QED
      BY <2>1, <3>1, MonitorStep DEF MonitorTick, closes
  <2>2. ASSUME NEW e \in Exchanges, MonitorPrice(e) PROVE IInv'
    <3>1. AccountTypes'
      BY <2>2, <1>t DEF MonitorPrice, AccountTypes, rows, requests, ghosts, closes, world
    <3> QED
      BY <2>2, <3>1, <1>t, MonitorStep DEF MonitorPrice, RowInv, closes
  <2>3. ASSUME NEW e \in Exchanges, MonitorPriceFails(e) PROVE IInv'
    <3>1. AccountTypes'
      BY <2>3, <1>t DEF MonitorPriceFails, Disturbance, AccountTypes, rows, requests, ghosts, closes
    <3>2. \A q \in batch' : status[q] # "none"
      BY <2>3, <1>t DEF MonitorPriceFails, RowInv
    <3> QED
      BY <2>3, <3>1, <3>2, MonitorStep DEF MonitorPriceFails, closes
  <2>4. ASSUME NEW o \in Orders, MonitorRow(o) PROVE IInv'
    <3> DEFINE p == seen[Exchange[o]]
    <3>1. /\ o \in batch /\ p \in Prices /\ batch' \subseteq batch
          /\ UNCHANGED <<rows, requests, ghosts, seen, world>>
          /\ \/ /\ step' = [step EXCEPT ![Monitor] = "select"]
                /\ target' = [target EXCEPT ![Monitor] = o] /\ at' = [at EXCEPT ![Monitor] = p]
             \/ UNCHANGED closes
      BY <2>4, <1>t DEF MonitorRow, AccountTypes
    <3> HIDE DEF p
    <3>2. AccountTypes'
      BY <3>1, <1>t DEF AccountTypes, rows, requests, ghosts, closes, world
    <3>3. status[o] # "none"
      BY <3>1, <1>t DEF RowInv
    <3>4. \A x \in Callers : step'[x] \in {"select", "update"} =>
               \/ step[x] \in {"select", "update"} /\ target'[x] = target[x] /\ at'[x] = at[x]
               \/ target'[x] \in Orders /\ at'[x] \in Prices /\ status[target'[x]] # "none"
      BY <3>1, <3>3, <1>t DEF AccountTypes, closes
    <3>5. \A q \in batch' : status[q] # "none"
      BY <3>1, <1>t DEF RowInv
    <3> QED
      BY <3>1, <3>2, <3>4, <3>5, MonitorStep
  <2> QED
    BY <1>5, <2>1, <2>2, <2>3, <2>4 DEF checkAndCloseTriggeredTrades
<1>6. CASE PriceMoves
  <2>1. AccountTypes'
    BY <1>6, <1>t DEF PriceMoves, AccountTypes, rows, requests, ghosts, closes, monitor
  <2>2. UNCHANGED <<rows, requests, step, target, at, batch>>
    BY <1>6 DEF PriceMoves, closes, monitor
  <2>3. \A q \in batch' : status[q] # "none"
    BY <2>2, <1>t DEF RowInv
  <2>4. \A x \in Callers : step'[x] = step[x] /\ target'[x] = target[x] /\ at'[x] = at[x]
    BY <2>2
  <2>5. UNCHANGED <<rows, requests>>
    BY <2>2
  <2> QED
    BY <2>1, <2>3, <2>4, <2>5, MonitorStep
<1>7. CASE NewDay
  <2>1. AccountTypes'
    <3>1. [o \in Orders |-> FALSE] \in [Orders -> BOOLEAN]
      OBVIOUS
    <3>2. told' \in BOOLEAN /\ late' \in [Orders -> BOOLEAN] /\ lossy' \in [Orders -> BOOLEAN]
      BY <1>7, <3>1 DEF NewDay
    <3>3. disturbances' \in Nat /\ today' \subseteq Orders
      BY <1>7, <1>t DEF NewDay, Disturbance, AccountTypes
    <3>4. UNCHANGED <<status, entry, pnl, stage, ref, lock, step, target, at, batch, seen, price>>
      BY <1>7 DEF NewDay, Disturbance, requests, closes, monitor
    <3> QED
      BY <3>2, <3>3, <3>4, <1>t DEF AccountTypes
  <2>2. UNCHANGED <<status, entry, pnl, stage, lock, step, target, at, batch>>
    BY <1>7 DEF NewDay, requests, closes, monitor
  <2>3. LockInv' /\ RequestInv'
    BY <2>2, <1>t DEF LockInv, RequestInv
  <2>4. RowInv'
    BY <2>2, <1>t DEF RowInv
  <2> QED
    BY <2>1, <2>3, <2>4 DEF IInv
<1>8. CASE Crash
  <2>1. "dead" \in Ended
    BY DEF Ended
  <2>2. /\ stage' \in [Orders -> Ended]
        /\ step' \in [Callers -> {"idle", "done"}]
        /\ lock' = None /\ batch' = {}
        /\ target' \in [Callers -> {None}] /\ at' \in [Callers -> {None}] /\ seen' \in [Exchanges -> {None}]
        /\ UNCHANGED <<status, entry, pnl, today, ref, ghosts, price>>
        /\ disturbances' \in Nat
    BY <1>8, <2>1, <1>t DEF Crash, Disturbance, AccountTypes, rows
  <2>3. AccountTypes'
    BY <2>2, <1>t DEF AccountTypes, ghosts
  <2>4. LockInv' /\ RequestInv'
    BY <2>2, <1>s, <1>t DEF LockInv, RequestInv
  <2>5. RowInv'
    BY <2>2, <1>t DEF RowInv
  <2> QED
    BY <2>3, <2>4, <2>5 DEF IInv
<1>9. CASE UNCHANGED vars
  BY <1>9, <1>t DEF vars, rows, requests, ghosts, closes, monitor, world, IInv, AccountTypes,
     LockInv, RequestInv, RowInv
<1> QED
  BY <1>1, <1>2, <1>3, <1>4, <1>5, <1>6, <1>7, <1>8, <1>9 DEF Next

\* One order at a time is under check, the one that holds the lock, through faults and crashes; rows
\* are consistent and a call in progress names one that exists.
THEOREM InvCorrect == Spec => []IInv
<1>1. Init => IInv
  BY InitInv
<1>2. IInv /\ [Next]_vars => IInv'
  BY StepInv
<1> QED
  BY <1>1, <1>2, PTL DEF Spec

\* A row that has ended keeps its entry and its result, whatever callers hold a copy of it.
THEOREM EndedStays == Spec => EndedRowKeepsResult
<1> DEFINE Keeps == \A o \in Orders : status[o] \in {"closed", "cancelled"}
               => status'[o] # "open" /\ entry'[o] = entry[o] /\ pnl'[o] = pnl[o]
<1>1. ASSUME IInv, [Next]_vars PROVE Keeps
  <2> USE Constants
  <2>t. AccountTypes /\ LockInv /\ RequestInv /\ RowInv
    BY <1>1 DEF IInv
  <2>1. ASSUME NEW o \in Orders, withUserOrderLock(o) PROVE Keeps
    <3>1. CASE OpenTrade(o) \/ CommitAckLost(o)
      <4>1. status[o] = "none"
        BY <3>1, <2>t DEF OpenTrade, CommitAckLost, RequestInv, InTransaction, InLock
      <4> QED
        BY <3>1, <4>1, <2>t DEF OpenTrade, CommitAckLost, AccountTypes
    <3>2. CASE ~(OpenTrade(o) \/ CommitAckLost(o))
      <4>1. UNCHANGED rows
        BY <2>1, <3>2 DEF withUserOrderLock, GetClient, ConnectTimeout, TakeLock, LockTimeout,
           checkOrder, ReadEquity, ReadExposure, ReadLoss, TransactionFails
      <4> QED
        BY <4>1 DEF rows
    <3> QED
      BY <3>1, <3>2
  <2>2. ASSUME NEW o \in Orders, CancelPaper(o) PROVE Keeps
    BY <2>2, <2>t DEF CancelPaper, AccountTypes
  <2>3. ASSUME NEW c \in Closers, CloseRequest(c) PROVE Keeps
    BY <2>3 DEF CloseRequest, rows
  <2>4. ASSUME NEW x \in Callers, closePaperTrade(x) PROVE Keeps
    <3>1. CASE CloseUpdate(x)
      BY <3>1, <2>t DEF CloseUpdate, AccountTypes, rows
    <3>2. CASE CloseSelect(x) \/ CloseFails(x)
      BY <3>2 DEF CloseSelect, CloseFails, rows
    <3> QED
      BY <2>4, <3>1, <3>2 DEF closePaperTrade
  <2>5. CASE checkAndCloseTriggeredTrades
    BY <2>5 DEF checkAndCloseTriggeredTrades, MonitorTick, MonitorPrice, MonitorPriceFails, MonitorRow, rows
  <2>6. CASE PriceMoves \/ NewDay \/ Crash \/ UNCHANGED vars
    BY <2>6 DEF PriceMoves, NewDay, Crash, vars, rows
  <2> QED
    BY <1>1, <2>1, <2>2, <2>3, <2>4, <2>5, <2>6 DEF Next
<1>2. Spec => []IInv
  BY InvCorrect
<1>3. IInv /\ [Next]_vars => [Keeps]_vars
  BY <1>1
<1> QED
  BY <1>2, <1>3, PTL DEF Spec, EndedRowKeepsResult
-----------------------------------------------------------------------------
(* The arithmetic of the account.                                          *)

\* Its constants: prices and quantities are positive.
LEMMA Amounts ==
    /\ IsFiniteSet(Orders) /\ PAPER_START_CAPITAL \in Nat
    /\ MaxPositionPct \in Int /\ MaxExposurePct \in Int /\ MaxLossPct \in Int
    /\ \A p \in Prices : p \in Nat \ {0}
    /\ \A o \in Orders : Quantity[o] \in Nat \ {0}
  BY AccountAssumption

LEMMA Product == \A a, b \in Nat \ {0} : a * b \in Nat \ {0}
  OBVIOUS

LEMMA MaxZero == \A x \in Int : Max({0, x}) = IF x >= 0 THEN x ELSE 0
<1> SUFFICES ASSUME NEW x \in Int PROVE Max({0, x}) = IF x >= 0 THEN x ELSE 0
  OBVIOUS
<1> DEFINE S == {0, x}
           m == IF x >= 0 THEN x ELSE 0
<1>1. Max(S) = CHOOSE y \in S : \A z \in S : y >= z
  BY DEF Max
<1>2. m \in S /\ (\A z \in S : m >= z) /\ \A y \in S : (\A z \in S : y >= z) => y = m
  OBVIOUS
<1> HIDE DEF S, m
<1>3. Max(S) = m
  BY <1>1, <1>2
<1> QED
  BY <1>3 DEF S, m

\* What a row that was written cost, and its result.
LEMMA RowAmounts ==
    ASSUME IInv
    PROVE  /\ \A o \in Orders : Notional(o) \in Nat \ {0}
           /\ \A o \in Orders : status[o] = "open" => entry[o] * Quantity[o] \in Nat
           /\ \A o \in Orders : status[o] = "closed" => pnl[o] \in Int
<1>t. AccountTypes /\ RowInv
  BY DEF IInv
<1>1. ASSUME NEW o \in Orders PROVE Notional(o) \in Nat \ {0}
  <2>1. Quantity[o] \in Nat \ {0} /\ ref[o] \in Nat \ {0}
    BY <1>t, Amounts DEF AccountTypes
  <2> QED
    BY <2>1, Product DEF Notional
<1>2. ASSUME NEW o \in Orders, status[o] = "open" PROVE entry[o] * Quantity[o] \in Nat
  <2>1. entry[o] \in Nat \ {0} /\ Quantity[o] \in Nat \ {0}
    BY <1>2, <1>t, Amounts DEF AccountTypes, RowInv
  <2> QED
    BY <2>1, Product
<1>3. \A o \in Orders : status[o] = "closed" => pnl[o] \in Int
  BY <1>t DEF AccountTypes, RowInv
<1> QED
  BY <1>1, <1>2, <1>3

LEMMA RealisedType == ASSUME IInv, NEW S \in SUBSET Orders PROVE Realised(S) \in Int
<1> DEFINE C == {o \in S : status[o] = "closed"}
<1>1. IsFiniteSet(C) /\ \A o \in C : pnl[o] \in Int
  BY Amounts, RowAmounts, FS_Subset
<1> HIDE DEF C
<1>2. SumFunctionOnSet(pnl, C) \in Int
  BY <1>1, SumType
<1> QED
  BY <1>2 DEF Realised, C

\* What the checks read.
LEMMA Readings ==
    ASSUME IInv, NEW e
    PROVE  /\ Realised(AtExchange(e)) \in Int /\ todayRealisedPaperPnl \in Int /\ Elsewhere(e) \in Int
           /\ Base(e) \in Int /\ Base(e) + todayRealisedPaperPnl = PAPER_START_CAPITAL + Realised(AtExchange(e))
           /\ getEquity(e) = Max({0, Base(e) + todayRealisedPaperPnl})
           /\ getEquity(e) \in Nat
           /\ openPaperNotional(e) \in Nat
<1>1. Realised(AtExchange(e)) \in Int /\ todayRealisedPaperPnl \in Int
  BY RealisedType DEF todayRealisedPaperPnl, IInv, AccountTypes, AtExchange
<1>2. Elsewhere(e) = todayRealisedPaperPnl - Realised(AtExchange(e)) /\ Base(e) = PAPER_START_CAPITAL - Elsewhere(e)
  BY DEF Elsewhere, Base
<1>3. /\ Elsewhere(e) \in Int /\ Base(e) \in Int
      /\ Base(e) + todayRealisedPaperPnl = PAPER_START_CAPITAL + Realised(AtExchange(e))
  BY <1>1, <1>2, Amounts
<1>4. getEquity(e) = Max({0, Base(e) + todayRealisedPaperPnl})
  BY <1>3 DEF getEquity
<1>5. getEquity(e) \in Nat
  BY <1>1, <1>3, <1>4, MaxZero
<1>6. openPaperNotional(e) \in Nat
  <2> DEFINE S == OpenRows(e)
             cost == [o \in S |-> entry[o] * Quantity[o]]
  <2>1. IsFiniteSet(S) /\ \A o \in S : cost[o] \in Nat
    BY Amounts, RowAmounts, FS_Subset DEF OpenRows, AtExchange
  <2>2. openPaperNotional(e) = SumFunctionOnSet(cost, S)
    BY DEF openPaperNotional
  <2> HIDE DEF S, cost
  <2> QED
    BY <2>1, <2>2, SumNat
<1> QED
  BY <1>1, <1>3, <1>4, <1>5, <1>6

LEMMA ReadingsType == IInv => \A e : openPaperNotional(e) \in Nat /\ Elsewhere(e) \in Int
  BY Readings

\* Rows that stop being open leave less open.
LEMMA LessOpen ==
    ASSUME IInv, IInv', NEW e, OpenRows(e)' \subseteq OpenRows(e), UNCHANGED entry
    PROVE  openPaperNotional(e)' <= openPaperNotional(e)
<1> DEFINE S == OpenRows(e)
           T == OpenRows(e)'
           cost == [o \in S |-> entry[o] * Quantity[o]]
           cost2 == [o \in T |-> entry'[o] * Quantity[o]]
<1>1. IsFiniteSet(S) /\ IsFiniteSet(T) /\ \A o \in S : cost[o] \in Nat
  BY Amounts, RowAmounts, FS_Subset DEF OpenRows, AtExchange
<1>2. T \in SUBSET S /\ \A o \in T : cost2[o] = cost[o]
  OBVIOUS
<1>3. openPaperNotional(e)' = SumFunctionOnSet(cost2, T) /\ openPaperNotional(e) = SumFunctionOnSet(cost, S)
  BY DEF openPaperNotional
<1> HIDE DEF S, T, cost, cost2
<1>4. SumFunctionOnSet(cost2, T) = SumFunctionOnSet(cost, T)
  BY <1>1, <1>2, SumSame
<1>5. SumFunctionOnSet(cost, T) <= SumFunctionOnSet(cost, S)
  BY <1>1, <1>2, SumGrows
<1> QED
  BY <1>3, <1>4, <1>5

\* A row that is written adds what it costs, at its exchange.
LEMMA OneMoreOpen ==
    ASSUME IInv, NEW o \in Orders, status[o] # "open",
           status' = [status EXCEPT ![o] = "open"], entry' = [entry EXCEPT ![o] = ref[o]]
    PROVE  openPaperNotional(Exchange[o])' = openPaperNotional(Exchange[o]) + Notional(o)
<1>t. status \in [Orders -> {"none", "open", "closed", "cancelled"}] /\ entry \in [Orders -> Prices \cup {None}]
  BY DEF IInv, AccountTypes
<1> DEFINE S == OpenRows(Exchange[o])
           T == OpenRows(Exchange[o])'
           cost == [q \in S |-> entry[q] * Quantity[q]]
           cost2 == [q \in T |-> entry'[q] * Quantity[q]]
<1>1. T = S \cup {o} /\ o \notin S /\ IsFiniteSet(S)
  BY <1>t, Amounts, FS_Subset DEF OpenRows, AtExchange
<1>2. \A q \in S : cost[q] \in Nat /\ cost2[q] = cost[q]
  <2>1. \A q \in S : q \in Orders /\ status[q] = "open" /\ q # o
    BY <1>1 DEF OpenRows, AtExchange
  <2> QED
    BY <1>t, <1>1, <2>1, RowAmounts
<1>3. cost2[o] = Notional(o) /\ Notional(o) \in Nat
  <2>1. cost2[o] = ref[o] * Quantity[o]
    BY <1>t, <1>1
  <2>2. ref[o] \in Int /\ Quantity[o] \in Int
    BY Amounts DEF IInv, AccountTypes
  <2> QED
    BY <2>1, <2>2, RowAmounts DEF Notional
<1>4. /\ openPaperNotional(Exchange[o])' = SumFunctionOnSet(cost2, T)
      /\ openPaperNotional(Exchange[o]) = SumFunctionOnSet(cost, S)
  BY DEF openPaperNotional
<1> HIDE DEF S, T, cost, cost2
<1>5. SumFunctionOnSet(cost2, S \cup {o}) = cost2[o] + SumFunctionOnSet(cost2, S)
  BY <1>1, <1>2, <1>3, SumAdd
<1>6. SumFunctionOnSet(cost2, S) = SumFunctionOnSet(cost, S)
  BY <1>1, <1>2, SumSame
<1>7. SumFunctionOnSet(cost, S) \in Nat
  BY <1>1, <1>2, SumNat
<1> QED
  BY <1>1, <1>3, <1>4, <1>5, <1>6, <1>7
-----------------------------------------------------------------------------
(* The limits.                                                             *)

\* The loss limit, once reached, is reached by a greater loss and for a smaller equity.
LEMMA ReachedMore ==
    ASSUME NEW loss \in Int, NEW base \in Nat, NEW loss2 \in Int, NEW base2 \in Nat,
           LossReached(loss, base), loss2 <= loss, base2 <= base
    PROVE  LossReached(loss2, base2)
<1>1. MaxLossPct \in Nat /\ loss < 0 /\ 100 * (-loss) >= MaxLossPct * base /\ MaxLossPct > 0
  BY Amounts DEF LossReached
<1>2. \A m, a, b \in Nat : a <= b => m * a <= m * b
  OBVIOUS
<1>3. MaxLossPct * base2 <= MaxLossPct * base /\ MaxLossPct * base2 \in Int /\ MaxLossPct * base \in Int
  BY <1>1, <1>2
<1> QED
  BY <1>1, <1>3 DEF LossReached

\* An order that read its equity while the limit was reached, and reads the loss while it still is, is refused: the
\* loss is greater than it was, or the equity is.
LEMMA StillReached ==
    ASSUME IInv, NEW e, DayIsLost(e), NEW eq, WasReached(eq, Base(e))
    PROVE  LossReached(todayRealisedPaperPnl, eq)
<1> DEFINE t == todayRealisedPaperPnl
           b == Base(e)
<1>1. t \in Int /\ b \in Int /\ getEquity(e) \in Nat /\ getEquity(e) = Max({0, b + t})
  BY Readings
<1>2. LossReached(t, getEquity(e))
  BY DEF DayIsLost
<1>0. PICK loss \in Int, before \in Int : before <= b /\ eq = Max({0, before + loss}) /\ LossReached(loss, eq)
  BY DEF WasReached
<1> HIDE DEF t, b
<1>3. b + t \in Int /\ before + loss \in Int
  BY <1>0, <1>1
<1>4. getEquity(e) = IF b + t >= 0 THEN b + t ELSE 0
  BY <1>1, <1>3, MaxZero
<1>5. eq = IF before + loss >= 0 THEN before + loss ELSE 0
  BY <1>0, <1>3, MaxZero
<1>6. eq \in Nat
  BY <1>3, <1>5
<1>7. CASE t <= loss
  <2>1. eq <= eq
    BY <1>6
  <2> QED
    BY <1>0, <1>1, <1>6, <1>7, <2>1, ReachedMore DEF t
<1>8. CASE loss < t
  <2>1. eq <= getEquity(e)
    BY <1>0, <1>1, <1>4, <1>5, <1>8
  <2>2. t <= t
    BY <1>1
  <2> QED
    BY <1>1, <1>2, <1>6, <2>1, <2>2, ReachedMore DEF t
<1> QED
  BY <1>0, <1>1, <1>7, <1>8

\* A base that grows leaves it so.
LEMMA WasReachedStays ==
    ASSUME NEW eq, NEW b \in Int, NEW b2 \in Int, b <= b2, WasReached(eq, b)
    PROVE  WasReached(eq, b2)
<1>1. PICK loss \in Int, before \in Int : before <= b /\ eq = Max({0, before + loss}) /\ LossReached(loss, eq)
  BY DEF WasReached
<1>2. before <= b2
  BY <1>1
<1> QED
  BY <1>1, <1>2 DEF WasReached

\* Nothing has been read at the start.
LEMMA MoneyInit == Init => MoneyInv
  BY DEF Init, MoneyInv, EquityInv, ExposureInv, LossInv

\* Tables that stay the same read the same.
LEMMA SameReadings ==
    ASSUME UNCHANGED <<status, entry, pnl, today>>, NEW e
    PROVE  /\ openPaperNotional(e)' = openPaperNotional(e)
           /\ Base(e)' = Base(e) /\ DayIsLost(e)' = DayIsLost(e)
<1>1. OpenRows(e)' = OpenRows(e)
  BY DEF OpenRows
<1>2. openPaperNotional(e)' = openPaperNotional(e)
  BY <1>1 DEF openPaperNotional
<1>3. Realised(AtExchange(e))' = Realised(AtExchange(e)) /\ todayRealisedPaperPnl' = todayRealisedPaperPnl
  BY DEF Realised, todayRealisedPaperPnl
<1>4. Elsewhere(e)' = Elsewhere(e)
  BY <1>3 DEF Elsewhere
<1>5. Base(e)' = Base(e)
  BY <1>4 DEF Base
<1>6. DayIsLost(e)' = DayIsLost(e)
  BY <1>3 DEF DayIsLost, getEquity
<1> QED
  BY <1>2, <1>5, <1>6

\* No row opens or closes, and no order under check moves on: what it read stays as true as it was.
LEMMA MoneyFrame ==
    ASSUME IInv, MoneyInv, UNCHANGED <<rows, ref, equity>>,
           \A o \in Orders : stage'[o] \in InLock => stage'[o] = stage[o],
           \A o \in Orders : lossy'[o] => lossy[o]
    PROVE  MoneyInv'
<1>1. UNCHANGED <<status, entry, pnl, today>>
  BY DEF rows
<1>2. \A e : openPaperNotional(e)' = openPaperNotional(e)
  BY <1>1, SameReadings
<1>3. \A e : Base(e)' = Base(e) /\ DayIsLost(e)' = DayIsLost(e)
  BY <1>1, SameReadings
<1>5. EquityInv'
  BY DEF MoneyInv, EquityInv, InLock, Notional
<1>6. ExposureInv'
  BY <1>2 DEF MoneyInv, ExposureInv, InLock, Notional
<1>7. LossInv'
  BY <1>3 DEF MoneyInv, LossInv, InLock
<1> QED
  BY <1>5, <1>6, <1>7 DEF MoneyInv

\* The same for the orders other than o, whose request makes a step.
LEMMA MoneyOfOne ==
    ASSUME IInv, MoneyInv, NEW o \in Orders, UNCHANGED <<rows, ref>>, equity' \in [Orders -> Nat \cup {None}],
           \A q \in Orders : q # o => stage'[q] = stage[q] /\ equity'[q] = equity[q] /\ lossy'[q] = lossy[q],
           stage'[o] \in {"exposure", "loss", "insert"} =>
               /\ equity'[o] \in Nat
               /\ MaxPositionPct > 0 => 100 * Notional(o) <= MaxPositionPct * equity'[o],
           stage'[o] \in {"loss", "insert"} /\ MaxExposurePct > 0 /\ equity'[o] > 0 =>
               100 * (openPaperNotional(Exchange[o]) + Notional(o)) <= MaxExposurePct * equity'[o],
           lossy'[o] =>
               /\ DayIsLost(Exchange[o])
               /\ stage'[o] \in {"exposure", "loss"} => WasReached(equity'[o], Base(Exchange[o]))
               /\ stage'[o] # "insert"
    PROVE  MoneyInv'
<1>1. UNCHANGED <<status, entry, pnl, today>>
  BY DEF rows
<1>2. \A e : openPaperNotional(e)' = openPaperNotional(e)
  BY <1>1, SameReadings
<1>3. \A e : Base(e)' = Base(e) /\ DayIsLost(e)' = DayIsLost(e)
  BY <1>1, SameReadings
<1>4. \A q \in Orders : Notional(q)' = Notional(q)
  BY DEF Notional
<1>5. EquityInv'
  <2> SUFFICES ASSUME NEW q \in Orders, stage'[q] \in {"exposure", "loss", "insert"}
               PROVE  /\ equity'[q] \in Nat
                      /\ MaxPositionPct > 0 => 100 * Notional(q)' <= MaxPositionPct * equity'[q]
    BY DEF EquityInv
  <2>1. CASE q = o
    BY <1>4, <2>1
  <2>2. CASE q # o
    BY <1>4, <2>2 DEF MoneyInv, EquityInv
  <2> QED
    BY <2>1, <2>2
<1>6. ExposureInv'
  <2> SUFFICES ASSUME NEW q \in Orders, stage'[q] \in {"loss", "insert"}, MaxExposurePct > 0, equity'[q] > 0
               PROVE  100 * (openPaperNotional(Exchange[q])' + Notional(q)') <= MaxExposurePct * equity'[q]
    BY DEF ExposureInv
  <2>1. CASE q = o
    BY <1>2, <1>4, <2>1
  <2>2. CASE q # o
    BY <1>2, <1>4, <2>2 DEF MoneyInv, ExposureInv
  <2> QED
    BY <2>1, <2>2
<1>7. LossInv'
  <2> SUFFICES ASSUME NEW q \in Orders, lossy'[q]
               PROVE  /\ DayIsLost(Exchange[q])'
                      /\ stage'[q] \in {"exposure", "loss"} => WasReached(equity'[q], Base(Exchange[q])')
                      /\ stage'[q] # "insert"
    BY DEF LossInv
  <2>1. CASE q = o
    BY <1>3, <2>1
  <2>2. CASE q # o
    BY <1>3, <2>2 DEF MoneyInv, LossInv
  <2> QED
    BY <2>1, <2>2
<1> QED
  BY <1>5, <1>6, <1>7 DEF MoneyInv

\* Rows that are closed or cancelled, and the change of day.
LEMMA MoneyRows ==
    ASSUME IInv, IInv', MoneyInv, UNCHANGED <<requests, entry>>, \A e : OpenRows(e)' \subseteq OpenRows(e),
           \A o \in Orders : lossy'[o] =>
               lossy[o] /\ DayIsLost(Exchange[o])' /\ Elsewhere(Exchange[o])' <= Elsewhere(Exchange[o])
    PROVE  MoneyInv'
<1>1. UNCHANGED <<stage, ref, equity>> /\ \A q \in Orders : Notional(q)' = Notional(q)
  BY DEF requests, Notional
<1>p. \A e : openPaperNotional(e) \in Nat /\ Elsewhere(e) \in Int
  BY ReadingsType
<1>n. \A e : openPaperNotional(e)' \in Nat /\ Elsewhere(e)' \in Int
  <2>1. (\A e : openPaperNotional(e) \in Nat /\ Elsewhere(e) \in Int)'
    BY ReadingsType, PTL
  <2> QED
    BY <2>1
<1>2. \A e : openPaperNotional(e)' <= openPaperNotional(e)
  BY LessOpen
<1>3. EquityInv'
  BY <1>1 DEF MoneyInv, EquityInv
<1>4. ExposureInv'
  <2> SUFFICES ASSUME NEW q \in Orders, stage[q] \in {"loss", "insert"}, MaxExposurePct > 0, equity[q] > 0
               PROVE  100 * (openPaperNotional(Exchange[q])' + Notional(q)) <= MaxExposurePct * equity[q]
    BY <1>1 DEF ExposureInv
  <2>1. 100 * (openPaperNotional(Exchange[q]) + Notional(q)) <= MaxExposurePct * equity[q]
    BY DEF MoneyInv, ExposureInv
  <2>2. equity[q] \in Nat /\ Notional(q) \in Nat
    BY RowAmounts DEF MoneyInv, EquityInv
  <2> DEFINE cap == MaxExposurePct * equity[q]
  <2>3. cap \in Int
    BY <2>2, Amounts
  <2> HIDE DEF cap
  <2>4. 100 * (openPaperNotional(Exchange[q]) + Notional(q)) <= cap
    BY <2>1 DEF cap
  <2>5. 100 * (openPaperNotional(Exchange[q])' + Notional(q)) <= cap
    BY <1>2, <1>p, <1>n, <2>2, <2>3, <2>4
  <2> QED
    BY <2>5 DEF cap
<1>5. LossInv'
  <2> SUFFICES ASSUME NEW q \in Orders, lossy'[q]
               PROVE  /\ DayIsLost(Exchange[q])'
                      /\ stage[q] \in {"exposure", "loss"} => WasReached(equity[q], Base(Exchange[q])')
                      /\ stage[q] # "insert"
    BY <1>1 DEF LossInv
  <2> DEFINE e == Exchange[q]
  <2>1. lossy[q] /\ DayIsLost(e)' /\ Elsewhere(e)' <= Elsewhere(e)
    OBVIOUS
  <2>2. Base(e) \in Int /\ Base(e)' \in Int /\ Base(e) <= Base(e)'
    BY <2>1, <1>p, <1>n, Amounts DEF Base
  <2>3. stage[q] # "insert" /\ (stage[q] \in {"exposure", "loss"} => WasReached(equity[q], Base(e)))
    BY <2>1 DEF MoneyInv, LossInv
  <2> HIDE DEF e
  <2>4. stage[q] \in {"exposure", "loss"} => WasReached(equity[q], Base(e)')
    BY <2>2, <2>3, WasReachedStays
  <2> QED
    BY <2>1, <2>3, <2>4 DEF e
<1> QED
  BY <1>3, <1>4, <1>5 DEF MoneyInv

\* The INSERT changes what is open; nobody else is under check.
LEMMA MoneyInsert ==
    ASSUME IInv, MoneyInv, NEW o \in Orders, NEW s \in {"opened", "failed"},
           stage[o] = "insert", EndTransaction(o, s),
           status' = [status EXCEPT ![o] = "open"],
           UNCHANGED <<pnl, today, ref, equity, ghosts>>
    PROVE  MoneyInv'
<1>t. AccountTypes /\ LockInv /\ RequestInv
  BY DEF IInv
<1>1. status[o] = "none" /\ lock = o
  BY <1>t DEF RequestInv, InTransaction, InLock, LockInv
<1>2. \A q \in Orders : /\ stage'[q] \notin {"exposure", "loss", "insert"}
                         /\ equity'[q] = equity[q]
  BY <1>1, <1>t DEF LockInv, EndTransaction, Move, AccountTypes, InLock
<1>3. \A S \in SUBSET Orders : {q \in S : status'[q] = "closed"} = {q \in S : status[q] = "closed"}
  BY <1>1, <1>t DEF AccountTypes
<1>4. \A S \in SUBSET Orders : Realised(S)' = Realised(S)
  BY <1>3 DEF Realised
<1>5. todayRealisedPaperPnl' = todayRealisedPaperPnl /\ \A e : Realised(AtExchange(e))' = Realised(AtExchange(e))
  BY <1>4, <1>t DEF todayRealisedPaperPnl, AccountTypes, AtExchange
<1>8. \A e : DayIsLost(e)' = DayIsLost(e)
  BY <1>5 DEF DayIsLost, getEquity
<1>6. EquityInv' /\ ExposureInv'
  <2>1. EquityInv /\ ExposureInv /\ equity' = equity
    BY DEF MoneyInv
  <2>2. EquityInv'
    BY <1>2, <2>1 DEF EquityInv
  <2>3. ExposureInv'
    BY <1>2, <2>1 DEF ExposureInv
  <2> QED
    BY <2>2, <2>3
<1>7. LossInv'
  BY <1>2, <1>8 DEF LossInv, MoneyInv, ghosts
<1> QED
  BY <1>6, <1>7 DEF MoneyInv

LEMMA MoneyCheck == ASSUME IInv, MoneyInv, NEW o \in Orders, checkOrder(o) PROVE MoneyInv'
<1> DEFINE e == Exchange[o]
<1>t. /\ stage \in [Orders -> {"client"} \cup InTransaction \cup Ended]
      /\ \A q \in Orders : Notional(q) \in Nat
  BY RowAmounts DEF IInv, AccountTypes
<1>e. \A s : Move(o, s) => stage'[o] = s /\ \A q \in Orders : q # o => stage'[q] = stage[q]
  BY <1>t DEF Move
<1>1. CASE ReadEquity(o)
  <2>1. UNCHANGED <<rows, ref, lossy>> /\ equity' = [equity EXCEPT ![o] = getEquity(e)]
    BY <1>1 DEF ReadEquity, ghosts
  <2>2. \/ stage'[o] = "refused"
        \/ stage'[o] = "exposure" /\ ~(MaxPositionPct > 0 /\ 100 * Notional(o) > MaxPositionPct * getEquity(e))
    BY <1>1, <1>e DEF ReadEquity, EndTransaction
  <2>3. \A q \in Orders : q # o => stage'[q] = stage[q]
    BY <1>1, <1>e DEF ReadEquity, EndTransaction
  <2>4. equity \in [Orders -> Nat \cup {None}] /\ getEquity(e) \in Nat
    BY Readings DEF MoneyInv, EquityInv
  <2>5. /\ equity' \in [Orders -> Nat \cup {None}] /\ equity'[o] = getEquity(e)
        /\ \A q \in Orders : q # o => equity'[q] = equity[q] /\ lossy'[q] = lossy[q]
    BY <2>1, <2>4
  <2>6. MaxPositionPct > 0 /\ stage'[o] = "exposure" => 100 * Notional(o) <= MaxPositionPct * getEquity(e)
    <3>1. MaxPositionPct * getEquity(e) \in Int
      BY <2>4, Amounts
    <3> QED
      BY <2>2, <3>1, <1>t
  <2>7. ASSUME lossy'[o] PROVE DayIsLost(e) /\ WasReached(equity'[o], Base(e))
    <3>1. DayIsLost(e)
      BY <2>1, <2>7 DEF MoneyInv, LossInv
    <3>2. /\ todayRealisedPaperPnl \in Int /\ Base(e) \in Int
          /\ getEquity(e) = Max({0, Base(e) + todayRealisedPaperPnl})
      BY Readings
    <3>3. LossReached(todayRealisedPaperPnl, getEquity(e))
      BY <3>1 DEF DayIsLost
    <3>4. Base(e) <= Base(e)
      BY <3>2
    <3>5. WasReached(getEquity(e), Base(e))
      BY <3>2, <3>3, <3>4 DEF WasReached
    <3> QED
      BY <2>5, <3>1, <3>5
  <2> QED
    BY <2>1, <2>2, <2>3, <2>4, <2>5, <2>6, <2>7, MoneyOfOne
<1>2. CASE ReadExposure(o)
  <2>1. UNCHANGED <<rows, ref, equity, lossy>> /\ stage[o] = "exposure"
    BY <1>2 DEF ReadExposure, ghosts
  <2>2. \/ stage'[o] = "refused"
        \/ /\ stage'[o] = "loss"
           /\ ~(equity[o] > 0 /\ MaxExposurePct > 0 /\ 100 * (openPaperNotional(e) + Notional(o)) > MaxExposurePct * equity[o])
    BY <1>2, <1>e DEF ReadExposure, EndTransaction
  <2>3. \A q \in Orders : q # o => stage'[q] = stage[q]
    BY <1>2, <1>e DEF ReadExposure, EndTransaction
  <2>4. equity \in [Orders -> Nat \cup {None}] /\ equity[o] \in Nat /\ openPaperNotional(e) \in Nat
        /\ (MaxPositionPct > 0 => 100 * Notional(o) <= MaxPositionPct * equity[o])
    BY <2>1, Readings DEF MoneyInv, EquityInv
  <2>5. stage'[o] = "loss" /\ MaxExposurePct > 0 /\ equity[o] > 0 =>
          100 * (openPaperNotional(e) + Notional(o)) <= MaxExposurePct * equity[o]
    <3>1. MaxExposurePct * equity[o] \in Int
      BY <2>4, Amounts
    <3> QED
      BY <2>2, <2>4, <3>1, <1>t
  <2>6. lossy[o] => DayIsLost(e) /\ WasReached(equity[o], Base(e))
    BY <2>1 DEF MoneyInv, LossInv
  <2> QED
    BY <2>1, <2>2, <2>3, <2>4, <2>5, <2>6, MoneyOfOne
<1>3. CASE ReadLoss(o)
  <2>1. UNCHANGED <<rows, ref, equity, lossy>> /\ stage[o] = "loss"
    BY <1>3 DEF ReadLoss
  <2>2. \/ stage'[o] = "refused"
        \/ stage'[o] = "insert" /\ ~LossReached(todayRealisedPaperPnl, equity[o])
    BY <1>3, <1>e DEF ReadLoss, EndTransaction
  <2>3. \A q \in Orders : q # o => stage'[q] = stage[q]
    BY <1>3, <1>e DEF ReadLoss, EndTransaction
  <2>4. equity \in [Orders -> Nat \cup {None}] /\ equity[o] \in Nat
        /\ (MaxPositionPct > 0 => 100 * Notional(o) <= MaxPositionPct * equity[o])
        /\ (MaxExposurePct > 0 /\ equity[o] > 0 =>
              100 * (openPaperNotional(e) + Notional(o)) <= MaxExposurePct * equity[o])
    BY <2>1 DEF MoneyInv, EquityInv, ExposureInv
  <2>5. ASSUME lossy[o] PROVE DayIsLost(e) /\ stage'[o] = "refused"
    <3>1. DayIsLost(e) /\ WasReached(equity[o], Base(e))
      BY <2>1, <2>5 DEF MoneyInv, LossInv
    <3>2. LossReached(todayRealisedPaperPnl, equity[o])
      BY <3>1, StillReached
    <3> QED
      BY <2>2, <3>1, <3>2
  <2> QED
    BY <2>1, <2>2, <2>3, <2>4, <2>5, MoneyOfOne
<1> QED
  BY <1>1, <1>2, <1>3 DEF checkOrder

\* Every step keeps what the reads of the check established.
LEMMA MoneyStep == ASSUME IInv, IInv', MoneyInv, [Next]_vars PROVE MoneyInv'
<1>t. AccountTypes /\ LockInv /\ RequestInv /\ RowInv
  BY DEF IInv
<1>s. stage \in [Orders -> {"client"} \cup InTransaction \cup Ended]
  BY <1>t DEF AccountTypes
<1>w. LossWatched => \A o \in Orders : lossy'[o] =>
        lossy[o] /\ DayIsLost(Exchange[o])' /\ Elsewhere(Exchange[o])' <= Elsewhere(Exchange[o])
  BY DEF LossWatched
<1>1. ASSUME NEW o \in Orders, withUserOrderLock(o) PROVE MoneyInv'
  <2>1. CASE GetClient(o) \/ ConnectTimeout(o) \/ LockTimeout(o) \/ TransactionFails(o)
    <3>1. UNCHANGED <<rows, ref, equity, ghosts>> /\ \E s \in {"lock", "failed", "busy"} : Move(o, s)
      BY <2>1 DEF GetClient, ConnectTimeout, LockTimeout, TransactionFails
    <3> QED
      BY <3>1, <1>s, MoneyFrame DEF Move, InLock, ghosts
  <2>2. CASE TakeLock(o)
    <3>1. /\ stage' = [stage EXCEPT ![o] = "equity"]
          /\ lossy' = [lossy EXCEPT ![o] = DayIsLost(Exchange[o])]
          /\ UNCHANGED <<rows, ref, equity>>
      BY <2>2 DEF TakeLock, Move
    <3>2. /\ stage'[o] = "equity" /\ (lossy'[o] => DayIsLost(Exchange[o]))
          /\ \A q \in Orders : q # o => stage'[q] = stage[q] /\ equity'[q] = equity[q] /\ lossy'[q] = lossy[q]
      <4>1. lossy \in [Orders -> BOOLEAN]
        BY <1>t DEF AccountTypes
      <4> QED
        BY <3>1, <4>1, <1>s
    <3>3. equity' \in [Orders -> Nat \cup {None}]
      BY <3>1 DEF MoneyInv, EquityInv
    <3> QED
      BY <3>1, <3>2, <3>3, MoneyOfOne
  <2>3. CASE checkOrder(o)
    BY <2>3, MoneyCheck
  <2>4. CASE OpenTrade(o) \/ CommitAckLost(o)
    BY <2>4, MoneyInsert DEF OpenTrade, CommitAckLost
  <2> QED
    BY <1>1, <2>1, <2>2, <2>3, <2>4 DEF withUserOrderLock
<1>2. ASSUME NEW o \in Orders, CancelPaper(o) PROVE MoneyInv'
  <2>1. status' = [status EXCEPT ![o] = "cancelled"] /\ UNCHANGED <<entry, requests>> /\ LossWatched
    BY <1>2 DEF CancelPaper
  <2>2. \A e : OpenRows(e)' \subseteq OpenRows(e)
    BY <2>1, <1>t DEF OpenRows, AtExchange, AccountTypes
  <2> QED
    BY <2>1, <2>2, <1>w, MoneyRows
<1>3. ASSUME NEW x \in Callers, CloseUpdate(x) PROVE MoneyInv'
  <2>1. LossWatched /\ UNCHANGED <<requests, entry>>
    BY <1>3 DEF CloseUpdate, rows
  <2>2. \A q \in Orders : status'[q] = "open" => status[q] = "open"
    BY <1>3, <1>t DEF CloseUpdate, AccountTypes, rows
  <2>3. \A e : OpenRows(e)' \subseteq OpenRows(e)
    BY <2>2 DEF OpenRows, AtExchange
  <2> QED
    BY <2>1, <2>3, <1>w, MoneyRows
<1>4. CASE NewDay
  <2>1. UNCHANGED <<requests, entry, status>> /\ \A q \in Orders : ~lossy'[q]
    BY <1>4 DEF NewDay
  <2>2. \A e : OpenRows(e)' \subseteq OpenRows(e)
    BY <2>1 DEF OpenRows
  <2> QED
    BY <2>1, <2>2, MoneyRows
<1>5. CASE Crash
  <2>1. UNCHANGED <<rows, ref, equity, ghosts>> /\ \A q \in Orders : stage'[q] \in Ended
    BY <1>5 DEF Crash, Ended
  <2> QED
    BY <2>1, MoneyFrame DEF ghosts, InLock, Ended
<1>6. CASE UNCHANGED <<rows, requests, ghosts>>
  BY <1>6, MoneyFrame DEF requests, ghosts
<1>7. CASE \E c \in Closers : CloseRequest(c)
  BY <1>6, <1>7 DEF CloseRequest
<1>8. CASE \E x \in Callers : CloseSelect(x) \/ CloseFails(x)
  BY <1>6, <1>8 DEF CloseSelect, CloseFails
<1>9. CASE checkAndCloseTriggeredTrades \/ PriceMoves \/ UNCHANGED vars
  BY <1>6, <1>9 DEF checkAndCloseTriggeredTrades, MonitorTick, MonitorPrice, MonitorPriceFails, MonitorRow, PriceMoves,
     vars
<1> QED
  BY <1>1, <1>2, <1>3, <1>4, <1>5, <1>7, <1>8, <1>9 DEF Next, closePaperTrade

\* Every variable keeps its type, and what an order under check has read still bounds what it may open:
\* the equity its position limit, what is open the total exposure, and a reached loss limit stops it.
THEOREM MoneyCorrect == Spec => [](TypeOK /\ MoneyInv)
<1>1. Init => IInv /\ MoneyInv
  BY MoneyInit, InitInv
<1>2. IInv /\ MoneyInv /\ [Next]_vars => (IInv /\ MoneyInv)'
  BY MoneyStep, StepInv
<1>3. IInv /\ MoneyInv => TypeOK /\ MoneyInv
  BY Constants DEF IInv, MoneyInv, EquityInv, TypeOK
<1> QED
  BY <1>1, <1>2, <1>3, PTL DEF Spec

\* What is open when a position opens.
LEMMA OpensWithin ==
    ASSUME IInv, MoneyInv, [Next]_vars, NEW o \in Orders, status[o] = "none", status'[o] = "open"
    PROVE  /\ stage[o] = "insert" /\ equity[o] \in Nat /\ openPaperNotional(Exchange[o])' = openPaperNotional(Exchange[o]) + Notional(o)
           /\ ~lossy[o]
<1>t. AccountTypes /\ RowInv
  BY DEF IInv
<1>1. ASSUME NEW q \in Orders, withUserOrderLock(q)
      PROVE  stage[o] = "insert" /\ (OpenTrade(o) \/ CommitAckLost(o))
  <2>1. CASE OpenTrade(q) \/ CommitAckLost(q)
    BY <2>1, <1>t DEF OpenTrade, CommitAckLost, AccountTypes
  <2>2. CASE ~(OpenTrade(q) \/ CommitAckLost(q))
    <3>1. UNCHANGED rows
      BY <1>1, <2>2 DEF withUserOrderLock, GetClient, ConnectTimeout, TakeLock, LockTimeout,
         checkOrder, ReadEquity, ReadExposure, ReadLoss, TransactionFails
    <3> QED
      BY <3>1 DEF rows
  <2> QED
    BY <2>1, <2>2
<1>2. ASSUME NEW q \in Orders, CancelPaper(q) PROVE FALSE
  BY <1>2, <1>t DEF CancelPaper, AccountTypes
<1>3. ASSUME NEW x \in Callers, closePaperTrade(x) PROVE FALSE
  <2>1. CASE CloseUpdate(x)
    BY <2>1, <1>t DEF CloseUpdate, AccountTypes, rows
  <2>2. CASE CloseSelect(x) \/ CloseFails(x)
    BY <2>2 DEF CloseSelect, CloseFails, rows
  <2> QED
    BY <1>3, <2>1, <2>2 DEF closePaperTrade
<1>4. ASSUME UNCHANGED status PROVE FALSE
  BY <1>4
<1>5. OpenTrade(o) \/ CommitAckLost(o)
  BY <1>1, <1>2, <1>3, <1>4 DEF Next, CloseRequest, checkAndCloseTriggeredTrades, MonitorTick, MonitorPrice,
     MonitorPriceFails, MonitorRow, PriceMoves, NewDay, Crash, vars, rows
<1>6. /\ stage[o] = "insert" /\ status' = [status EXCEPT ![o] = "open"] /\ entry' = [entry EXCEPT ![o] = ref[o]]
  BY <1>5 DEF OpenTrade, CommitAckLost
<1>7. openPaperNotional(Exchange[o])' = openPaperNotional(Exchange[o]) + Notional(o)
  BY <1>6, OneMoreOpen
<1> QED
  BY <1>6, <1>7 DEF MoneyInv, EquityInv, LossInv

\* A position opens only within the limit on the total exposure, for every number of orders, when the
\* limit on the position is enabled; without it checkOrder skips the exposure at an equity of 0.
THEOREM ExposureKept == ASSUME MaxPositionPct > 0 PROVE Spec => WithinExposure
<1> DEFINE A == \A o \in Orders : status[o] = "none" /\ status'[o] = "open" /\ MaxExposurePct > 0
                  => 100 * openPaperNotional(Exchange[o])' <= MaxExposurePct * equity[o]
<1>1. IInv /\ MoneyInv /\ [Next]_vars => [A]_vars
  <2> SUFFICES ASSUME IInv, MoneyInv, [Next]_vars, NEW o \in Orders, status[o] = "none", status'[o] = "open",
                      MaxExposurePct > 0
               PROVE  100 * openPaperNotional(Exchange[o])' <= MaxExposurePct * equity[o]
    OBVIOUS
  <2>1. stage[o] = "insert" /\ equity[o] \in Nat /\ openPaperNotional(Exchange[o])' = openPaperNotional(Exchange[o]) + Notional(o)
    BY OpensWithin
  <2>2. 100 * Notional(o) <= MaxPositionPct * equity[o]
    BY <2>1 DEF MoneyInv, EquityInv
  <2>3. Notional(o) \in Nat \ {0}
    BY RowAmounts
  <2>4. equity[o] # 0
    BY <2>1, <2>2, <2>3, Amounts
  <2> QED
    BY <2>1, <2>4 DEF MoneyInv, ExposureInv
<1> HIDE DEF A
<1>2. Spec => [](IInv /\ MoneyInv)
  BY InvCorrect, MoneyCorrect, PTL
<1>3. Spec => [][A]_vars
  BY <1>1, <1>2, PTL DEF Spec
<1> QED
  BY <1>3 DEF A, WithinExposure

\* No position opens when the loss of the day, on all exchanges, had reached the limit of the order's
\* exchange during the whole check, wherever closes and cancellations fall between the reads of
\* riskGuard.checkOrder, unless one of them made the day better by more than that exchange's equity.
THEOREM LossStops == Spec => LossStopsOrders
<1> DEFINE A == \A o \in Orders : status[o] = "none" /\ status'[o] = "open" => ~lossy[o]
<1>1. IInv /\ MoneyInv /\ [Next]_vars => [A]_vars
  BY OpensWithin
<1> HIDE DEF A
<1>2. Spec => [](IInv /\ MoneyInv)
  BY InvCorrect, MoneyCorrect, PTL
<1>3. Spec => [][A]_vars
  BY <1>1, <1>2, PTL DEF Spec
<1> QED
  BY <1>3 DEF A, LossStopsOrders
=============================================================================
