-------------------------- MODULE LiveOrders_proofs --------------------------
(***************************************************************************)
(* Proofs about LiveOrders, for every set of processes and orders, venue,  *)
(* batch size, attempt limit and number of faults.                         *)
(***************************************************************************)
EXTENDS LiveOrders, FiniteSetTheorems, TLAPS

\* The row ids handed out by the INSERT are natural numbers.
LEMMA RecordedFinite == Cardinality(Recorded) \in Nat
<1>1. Recorded \in SUBSET Orders
  BY DEF Recorded
<1>2. QED
  BY <1>1, OrdersAssumption, FS_Subset, FS_CardinalityType

\* A batch is taken from the rows selected.
LEMMA BatchIsSubset ==
  ASSUME NEW S
  PROVE  OldestBatch(S) \subseteq S
  BY DEF OldestBatch

LEMMA TypeInit == Init => TypeOK
  BY DEF Init, TypeOK, TableType, JobType, Flags, MaybeExchange, STATUSES, ExchangeStatuses, NothingRead

\* What a call, the exchange, a cancellation and the clock leave alone.
LEMMA JobsUntouched == JobType /\ UNCHANGED <<resolverVars, fillVars>> => JobType'
  BY DEF JobType, resolverVars, fillVars

LEMMA TypeTable ==
  ASSUME TableType,
         \/ \E o \in Orders : placeOrder(o) \/ Exchange(o) \/ cancelOrder(o)
         \/ Tick
  PROVE  TableType'
<1> USE DEF TableType, Flags, MaybeExchange, rowVars, handlerVars, exchangeVars
<1>1. ASSUME NEW o \in Orders, placeOrder(o)
      PROVE  TableType'
  <2>1. CASE Record(o)
    BY <2>1, RecordedFinite DEF Record, InsertRow, STATUSES, OPEN_STATUSES, Active
  <2>2. CASE RecordFails(o)
    BY <2>2, RecordedFinite DEF RecordFails, Fault, InsertRow, STATUSES, OPEN_STATUSES
  <2>3. CASE NotSent(o)
    BY <2>3 DEF NotSent, Fault, Active
  <2>4. CASE Send(o)
    BY <2>4 DEF Send, Active
  <2>5. CASE GetAnswer(o)
    BY <2>5 DEF GetAnswer, Active
  <2>6. CASE NoAnswer(o)
    BY <2>6 DEF NoAnswer, Unheard, Fault, Active
  <2>7. CASE CompleteRow(o)
    BY <2>7 DEF CompleteRow, normalizeOrderStatus, STATUSES, OPEN_STATUSES, CLOSED_STATUSES, ExchangeFinal
  <2>8. CASE SetOrderState(o)
    BY <2>8 DEF SetOrderState, STATUSES, OPEN_STATUSES, CLOSED_STATUSES
  <2>9. CASE OutcomeNotWritten(o)
    BY <2>9 DEF OutcomeNotWritten, Fault
  <2>10. QED
    BY <1>1, <2>1, <2>2, <2>3, <2>4, <2>5, <2>6, <2>7, <2>8, <2>9 DEF placeOrder
<1>2. ASSUME NEW o \in Orders, Exchange(o)
      PROVE  TableType'
  BY <1>2 DEF Exchange, ExchangeAccepts, ExchangeRefuses, RequestLost, ExchangeProgress, Fault,
              ExchangeStatuses, ExchangeOpen, ExchangeFinal
<1>3. ASSUME NEW o \in Orders, cancelOrder(o)
      PROVE  TableType'
  BY <1>3 DEF cancelOrder, CancelAtExchange, CancelRow, CancelNotWritten, Fault,
              ExchangeStatuses, ExchangeFinal, STATUSES, CLOSED_STATUSES
<1>4. CASE Tick
  BY <1>4 DEF Tick
<1>5. QED
  BY <1>1, <1>2, <1>3, <1>4

LEMMA TypeResolver ==
  ASSUME TypeOK, NEW p \in Processes, resolveUnresolvedOrders(p)
  PROVE  TypeOK'
<1> USE DEF TypeOK, Flags, rowVars, handlerVars, exchangeVars, resolverVars, fillVars
<1>1. CASE ResolveStart(p)
  BY <1>1 DEF ResolveStart, MarkUnknown, TableType, JobType, STATUSES, OPEN_STATUSES
<1>2. CASE ResolveSelect(p)
  <2>1. PICK batch : /\ resTodo' = [resTodo EXCEPT ![p] = batch]
                     /\ resExpired' = [resExpired EXCEPT ![p] = {o \in batch : age[o] >= NOT_FOUND_GRACE}]
                     /\ batch \subseteq Orders
    <3>1. OldestBatch({o \in Orders : status[o] = "unknown" /\ ~hasExchangeId[o]}) \subseteq Orders
      BY BatchIsSubset
    <3>2. QED
      BY <1>2, <3>1, Zenon DEF ResolveSelect
  <2>2. resTodo' \in [Processes -> SUBSET Orders] /\ resExpired' \in [Processes -> SUBSET Orders]
    BY <2>1 DEF JobType
  <2>3. TableType'
    BY <1>2 DEF ResolveSelect, TableType
  <2>4. QED
    BY <1>2, <2>2, <2>3 DEF ResolveSelect, JobType
<1>3. CASE ResolveSelectFails(p)
  <2>1. TableType'
    BY <1>3 DEF ResolveSelectFails, Fault, TableType
  <2>2. JobType'
    BY <1>3 DEF ResolveSelectFails, JobType
  <2>3. QED
    BY <2>1, <2>2
<1>4. ASSUME NEW o \in Orders, ResolveLookup(p, o)
      PROVE  TypeOK'
  <2>1. TableType'
    BY <1>4 DEF ResolveLookup, TableType
  <2>2. exch[o] \in ExchangeStatuses \cup {"none"}
    BY DEF TableType, MaybeExchange
  <2>3. JobType'
    BY <1>4, <2>2 DEF ResolveLookup, JobType
  <2>4. QED
    BY <2>1, <2>3
<1>5. ASSUME NEW o \in Orders, ResolveDone(p, o)
      PROVE  JobType'
  BY <1>5 DEF ResolveDone, JobType
<1>6. ASSUME NEW o \in Orders,
             ResolveCannotAsk(p, o) \/ ResolveAdopt(p, o) \/ ResolveMissing(p, o) \/ ResolveWriteFails(p, o)
      PROVE  TypeOK'
  <2>1. ResolveDone(p, o)
    BY <1>6 DEF ResolveCannotAsk, ResolveAdopt, ResolveMissing, ResolveWriteFails
  <2>2. faults' \in Nat
    <3>1. CASE ResolveCannotAsk(p, o) \/ ResolveWriteFails(p, o)
      BY <3>1 DEF ResolveCannotAsk, ResolveWriteFails, Fault, TableType
    <3>2. CASE ResolveAdopt(p, o) \/ ResolveMissing(p, o)
      BY <3>2 DEF ResolveAdopt, ResolveMissing, TableType
    <3>3. QED
      BY <1>6, <3>1, <3>2
  <2>3. status' \in [Orders -> STATUSES \cup {"absent"}] /\ hasExchangeId' \in [Orders -> BOOLEAN]
    <3>1. CASE ResolveAdopt(p, o)
      <4>1. normalizeOrderStatus(o, lookup[p][o], TRUE) \in STATUSES
        BY DEF normalizeOrderStatus, ExchangeFinal, STATUSES, OPEN_STATUSES, CLOSED_STATUSES
      <4>2. QED
        BY <3>1, <4>1 DEF ResolveAdopt, TableType
    <3>2. CASE ResolveMissing(p, o)
      BY <3>2 DEF ResolveMissing, TableType, STATUSES, CLOSED_STATUSES
    <3>3. CASE ResolveCannotAsk(p, o) \/ ResolveWriteFails(p, o)
      BY <3>3 DEF ResolveCannotAsk, ResolveWriteFails, TableType
    <3>4. QED
      BY <1>6, <3>1, <3>2, <3>3
  <2>4. TableType'
    BY <2>1, <2>2, <2>3 DEF ResolveDone, TableType
  <2>5. QED
    BY <1>5, <2>1, <2>4
<1>7. QED
  BY <1>1, <1>2, <1>3, <1>4, <1>6 DEF resolveUnresolvedOrders

LEMMA TypeFill ==
  ASSUME TypeOK, NEW p \in Processes, reconcileLiveOrders(p)
  PROVE  TypeOK'
<1> USE DEF TypeOK, Flags, MaybeExchange, rowVars, handlerVars, exchangeVars, resolverVars, fillVars
<1>1. CASE FillSelect(p)
  <2>1. FillBatch(MAX_ATTEMPTS) \subseteq Orders
    BY BatchIsSubset DEF FillBatch
  <2>2. TableType'
    BY <1>1 DEF FillSelect, FillTake, TableType
  <2>3. QED
    BY <1>1, <2>1, <2>2 DEF FillSelect, FillTake, JobType
<1>2. ASSUME NEW o \in Orders, FillFetch(p, o)
      PROVE  TypeOK'
  <2>1. TableType'
    BY <1>2 DEF FillFetch, TableType
  <2>2. exch[o] \in ExchangeStatuses \cup {"none"}
    BY DEF TableType
  <2>3. QED
    BY <1>2, <2>1, <2>2 DEF FillFetch, JobType
<1>3. ASSUME NEW o \in Orders, FillDone(p, o)
      PROVE  JobType'
  BY <1>3 DEF FillDone, JobType
<1>4. ASSUME NEW o \in Orders, FillCannotAsk(p, o) \/ FillNotCounted(p, o)
      PROVE  TypeOK'
  <2>1. FillDone(p, o)
    BY <1>4 DEF FillCannotAsk, FillNotCounted, FillNext
  <2>2. TableType'
    BY <1>4, <2>1 DEF FillCannotAsk, FillNotCounted, FillNext, FillDone, Fault, TableType
  <2>3. QED
    BY <1>3, <2>1, <2>2
<1>5. ASSUME NEW o \in Orders, FillWrite(p, o)
      PROVE  TypeOK'
  <2>1. FillDone(p, o)
    BY <1>5 DEF FillWrite, FillNext
  <2>2. fillFinal' \in [Orders -> BOOLEAN]
    <3>1. CASE fillRead[p][o] \in ExchangeFinal
      <4>1. fillFinal' = [fillFinal EXCEPT ![o] = TRUE]
        BY <1>5, <3>1, Zenon DEF FillWrite
      <4>2. QED
        BY <4>1 DEF TableType
    <3>2. CASE fillRead[p][o] \notin ExchangeFinal
      <4>1. (fillRead[p][o] \in ExchangeFinal) = FALSE
        BY <3>2
      <4>2. fillFinal' = [fillFinal EXCEPT ![o] = FALSE]
        BY <1>5, <4>1, Zenon DEF FillWrite
      <4>3. QED
        BY <4>2 DEF TableType
    <3>3. QED
      BY <3>1, <3>2
  <2>3. fillRead[p][o] \in ExchangeStatuses \cup {"none"}
    BY DEF JobType
  <2>4. TableType'
    BY <1>5, <2>2, <2>3 DEF FillWrite, FillNext, FillDone, TableType
  <2>5. QED
    BY <1>3, <2>1, <2>4
<1>6. QED
  BY <1>1, <1>2, <1>4, <1>5 DEF reconcileLiveOrders

LEMMA TypeCrash ==
  ASSUME TypeOK, NEW p \in Processes, Crash(p)
  PROVE  TypeOK'
<1>1. TableType'
  BY DEF Crash, Fault, Unheard, TypeOK, TableType, MaybeExchange, rowVars
<1>2. JobType'
  BY DEF Crash, NothingRead, TypeOK, JobType, MaybeExchange
<1>3. QED
  BY <1>1, <1>2 DEF TypeOK

LEMMA TypeNext == TypeOK /\ [Next]_vars => TypeOK'
<1> SUFFICES ASSUME TypeOK, [Next]_vars
             PROVE  TypeOK'
  OBVIOUS
<1>1. ASSUME \/ \E o \in Orders : placeOrder(o) \/ Exchange(o) \/ cancelOrder(o)
             \/ Tick
      PROVE  TypeOK'
  <2>1. UNCHANGED <<resolverVars, fillVars>>
    BY <1>1 DEF placeOrder, Record, RecordFails, NotSent, Send, GetAnswer, NoAnswer, CompleteRow, SetOrderState,
         OutcomeNotWritten, Exchange, ExchangeAccepts, ExchangeRefuses, RequestLost, ExchangeProgress,
         cancelOrder, CancelAtExchange, CancelRow, CancelNotWritten, Tick
  <2>2. QED
    BY <1>1, <2>1, TypeTable, JobsUntouched DEF TypeOK
<1>2. CASE UNCHANGED vars
  BY <1>2 DEF vars, TypeOK, TableType, JobType, rowVars, handlerVars, exchangeVars, resolverVars, fillVars
<1>3. QED
  BY <1>1, <1>2, TypeResolver, TypeFill, TypeCrash DEF Next

\* Every variable of LiveOrders keeps its type, whatever the bounds.
THEOREM TypeCorrect == Spec => []TypeOK
  BY TypeInit, TypeNext, PTL DEF Spec

-----------------------------------------------------------------------------
LEMMA InvInit == Init => IInv
<1> SUFFICES ASSUME Init PROVE IInv
  OBVIOUS
<1>1. TypeOK
  BY TypeInit
<1>2. HandlerInv /\ WireInv /\ RowInv
  BY DEF Init, HandlerInv, WireInv, RowInv, Active, ExchangeStatuses, ExchangeOpen, ExchangeFinal
<1>3. ResolverInv /\ FillInv
  BY DEF Init, ResolverInv, FillInv, NothingRead, ExchangeStatuses, ExchangeOpen, ExchangeFinal
<1>4. QED
  BY <1>1, <1>2, <1>3 DEF IInv

\* What a step must keep of an order for the snapshots of the jobs to stay true: a finished call, the
\* end of the order at the exchange, and its absence there once the grace period is over.
Keeps(o) ==
    /\ handler[o] = "done" =>
          /\ handler'[o] = "done"
          /\ status[o] \notin {"absent", "pending"} => status'[o] \notin {"absent", "pending"}
          /\ status[o] = "unknown" => status'[o] = "unknown"
    /\ age[o] >= NOT_FOUND_GRACE => age'[o] >= NOT_FOUND_GRACE
    /\ exch[o] # "none" => exch'[o] # "none"
    /\ exch[o] \in ExchangeFinal => exch'[o] = exch[o]
    /\ exch[o] = "none" /\ age[o] >= NOT_FOUND_GRACE => exch'[o] = "none"

LEMMA JobsKept ==
  ASSUME ResolverInv, FillInv, \A o \in Orders : Keeps(o),
         UNCHANGED <<resolverVars, fillVars, fillFinal, exchangeStatus>>
  PROVE  ResolverInv' /\ FillInv'
<1>1. ResolverInv'
  BY DEF ResolverInv, Keeps, resolverVars
<1>2. FillInv'
  BY DEF FillInv, Keeps, fillVars
<1>3. QED
  BY <1>1, <1>2

\* A call, the exchange, a cancellation and the clock leave the jobs and the fill columns alone.
LEMMA OutsideJobs ==
  ASSUME \/ \E o \in Orders : placeOrder(o) \/ Exchange(o) \/ cancelOrder(o)
         \/ Tick
  PROVE  UNCHANGED <<resolverVars, fillVars, fillFinal, exchangeStatus>>
  BY DEF placeOrder, Record, RecordFails, InsertRow, NotSent, Send, GetAnswer, NoAnswer, CompleteRow,
         SetOrderState, OutcomeNotWritten, Exchange, ExchangeAccepts, ExchangeRefuses, RequestLost,
         ExchangeProgress, cancelOrder, CancelAtExchange, CancelRow, CancelNotWritten, Tick, rowVars

LEMMA PlaceOrderInv ==
  ASSUME Timely, IInv, NEW o \in Orders, placeOrder(o)
  PROVE  HandlerInv' /\ WireInv' /\ RowInv' /\ \A q \in Orders : Keeps(q)
<1> USE DEF IInv, TypeOK, TableType, Flags, MaybeExchange, rowVars, handlerVars, exchangeVars
<1> USE DEF HandlerInv, WireInv, RowInv, Keeps, Active
<1>0. "none" \notin ExchangeFinal
  BY DEF ExchangeFinal
<1>1. CASE Record(o)
  BY <1>1, BoundsAssumption DEF Record, InsertRow
<1>2. CASE RecordFails(o)
  BY <1>2 DEF RecordFails, InsertRow
<1>3. CASE NotSent(o)
  BY <1>3 DEF NotSent
<1>4. CASE Send(o)
  BY <1>4, BoundsAssumption DEF Send, Timely
<1>5. CASE GetAnswer(o)
  BY <1>5 DEF GetAnswer
<1>6. CASE NoAnswer(o)
  BY <1>6 DEF NoAnswer, Unheard, ExchangeFinal
<1>7. CASE CompleteRow(o)
  <2>1. HandlerInv'
    BY <1>7 DEF CompleteRow, normalizeOrderStatus, ExchangeFinal
  <2>2. WireInv'
    BY <1>0, <1>7 DEF CompleteRow
  <2>3. RowInv'
    BY <1>7 DEF CompleteRow, normalizeOrderStatus, ExchangeFinal
  <2>4. \A q \in Orders : Keeps(q)
    BY <1>7 DEF CompleteRow
  <2>5. QED
    BY <2>1, <2>2, <2>3, <2>4
<1>8. CASE SetOrderState(o)
  BY <1>8 DEF SetOrderState
<1>9. CASE OutcomeNotWritten(o)
  <2>1. HandlerInv' /\ RowInv' /\ \A q \in Orders : Keeps(q)
    BY <1>9 DEF OutcomeNotWritten
  <2>2. WireInv'
    BY <1>0, <1>9 DEF OutcomeNotWritten
  <2>3. QED
    BY <2>1, <2>2
<1>10. QED
  BY <1>1, <1>2, <1>3, <1>4, <1>5, <1>6, <1>7, <1>8, <1>9 DEF placeOrder

LEMMA ExchangeInv ==
  ASSUME Timely, IInv, NEW o \in Orders, Exchange(o)
  PROVE  HandlerInv' /\ WireInv' /\ RowInv' /\ \A q \in Orders : Keeps(q)
<1> USE DEF IInv, TypeOK, TableType, Flags, MaybeExchange, rowVars, handlerVars, exchangeVars
<1> USE DEF HandlerInv, WireInv, RowInv, Keeps, Active
<1>1. CASE ExchangeAccepts(o)
  <2>1. PICK s \in ExchangeStatuses :
           /\ exch' = [exch EXCEPT ![o] = s]
           /\ \/ /\ handler[o] = "sent"
                 /\ wire' = [wire EXCEPT ![o] = "reply"]
                 /\ answer' = [answer EXCEPT ![o] = s]
              \/ /\ handler[o] # "sent"
                 /\ wire' = [wire EXCEPT ![o] = "gone"]
                 /\ UNCHANGED answer
    BY <1>1 DEF ExchangeAccepts
  <2> USE DEF ExchangeStatuses, ExchangeOpen, ExchangeFinal
  <2>2. HandlerInv'
    BY <1>1, <2>1 DEF ExchangeAccepts
  <2>3. WireInv'
    BY <1>1, <2>1 DEF ExchangeAccepts
  <2>4. RowInv'
    BY <1>1, <2>1 DEF ExchangeAccepts
  <2>5. \A q \in Orders : Keeps(q)
    BY <1>1, <2>1, BoundsAssumption DEF ExchangeAccepts, Timely
  <2>6. QED
    BY <2>2, <2>3, <2>4, <2>5
<1>2. CASE ExchangeRefuses(o)
  BY <1>2 DEF ExchangeRefuses
<1>3. CASE RequestLost(o)
  BY <1>3 DEF RequestLost
<1>4. CASE ExchangeProgress(o)
  <2>1. PICK s \in ExchangeFinal \cup {"partially_filled"} : exch' = [exch EXCEPT ![o] = s]
    BY <1>4 DEF ExchangeProgress
  <2> USE DEF ExchangeOpen, ExchangeFinal
  <2>2. HandlerInv' /\ WireInv'
    BY <1>4, <2>1 DEF ExchangeProgress
  <2>3. RowInv' /\ \A q \in Orders : Keeps(q)
    BY <1>4, <2>1 DEF ExchangeProgress
  <2>4. QED
    BY <2>2, <2>3
<1>5. QED
  BY <1>1, <1>2, <1>3, <1>4 DEF Exchange

LEMMA CancelOrderInv ==
  ASSUME UniqueIds, IInv, NEW o \in Orders, cancelOrder(o)
  PROVE  HandlerInv' /\ WireInv' /\ RowInv' /\ \A q \in Orders : Keeps(q)
<1> USE DEF IInv, TypeOK, TableType, Flags, MaybeExchange, rowVars, handlerVars, exchangeVars
<1> USE DEF HandlerInv, WireInv, RowInv, Keeps, Active
<1>1. CASE CancelAtExchange(o)
  <2> USE DEF ExchangeOpen, ExchangeFinal
  <2>1. HandlerInv' /\ WireInv'
    BY <1>1 DEF CancelAtExchange
  <2>2. RowInv' /\ \A q \in Orders : Keeps(q)
    BY <1>1 DEF CancelAtExchange
  <2>3. QED
    BY <2>1, <2>2
<1>2. CASE CancelRow(o)
  BY <1>2 DEF CancelRow, UniqueIds
<1>3. CASE CancelNotWritten(o)
  BY <1>3 DEF CancelNotWritten
<1>4. QED
  BY <1>1, <1>2, <1>3 DEF cancelOrder

LEMMA TickInv ==
  ASSUME Timely, IInv, Tick
  PROVE  HandlerInv' /\ WireInv' /\ RowInv' /\ \A q \in Orders : Keeps(q)
<1> USE DEF IInv, TypeOK, TableType, Flags, MaybeExchange, handlerVars, exchangeVars
<1> USE DEF HandlerInv, WireInv, RowInv, Keeps, Active, Tick
<1>0. ASSUME NEW q \in Orders
      PROVE  age'[q] \in {age[q], age[q] + 1} /\ (age[q] >= NOT_FOUND_GRACE => age'[q] = age[q])
  BY BoundsAssumption
<1>1. HandlerInv'
  <2>1. ASSUME NEW q \in Orders, handler'[q] \in Active
        PROVE  age'[q] <= HandlerBound
    BY <1>0, <2>1, BoundsAssumption
  <2>2. QED
    BY <2>1
<1>2. WireInv'
  <2>1. ASSUME NEW q \in Orders, wire'[q] = "request"
        PROVE  age'[q] <= LandingBound
    BY <1>0, <2>1, BoundsAssumption
  <2>2. QED
    BY <2>1
<1>3. RowInv'
  OBVIOUS
<1>4. \A q \in Orders : Keeps(q)
  BY <1>0, BoundsAssumption
<1>5. QED
  BY <1>1, <1>2, <1>3, <1>4

\* What a resolver has in hand when it writes.
LEMMA LookupIsTrue ==
  ASSUME ResolverInv, NEW p \in Processes, NEW o \in Orders, lookup[p][o] \in ExchangeStatuses
  PROVE  /\ handler[o] = "done" /\ status[o] \notin {"absent", "pending"}
         /\ OneProcess => status[o] = "unknown"
         /\ exch[o] # "none"
         /\ lookup[p][o] \in ExchangeFinal => exch[o] = lookup[p][o]
<1>1. lookup[p][o] # "none"
  BY DEF ExchangeStatuses, ExchangeOpen, ExchangeFinal
<1>2. QED
  BY <1>1 DEF ResolverInv

LEMMA ResolverInvNext ==
  ASSUME Timely, IInv, TypeOK', NEW p \in Processes, resolveUnresolvedOrders(p)
  PROVE  IInv'
<1> USE DEF IInv, rowVars, handlerVars, exchangeVars, resolverVars, fillVars
<1>1. CASE ResolveStart(p)
  <2> USE <1>1 DEF ResolveStart, MarkUnknown, OldWithoutId, Recorded, TypeOK, TableType, Flags
  <2>1. HandlerInv' /\ WireInv' /\ RowInv'
    BY BoundsAssumption DEF HandlerInv, WireInv, RowInv, Timely, Active
  <2>2. \A o \in Orders : Keeps(o)
    BY DEF Keeps
  <2>3. ResolverInv'
    BY <2>2 DEF ResolverInv, Keeps
  <2>4. FillInv'
    BY DEF FillInv
  <2>5. QED
    BY <2>1, <2>3, <2>4
<1>2. CASE ResolveSelect(p)
  <2>1. PICK batch : /\ resTodo' = [resTodo EXCEPT ![p] = batch]
                     /\ resExpired' = [resExpired EXCEPT ![p] = {o \in batch : age[o] >= NOT_FOUND_GRACE}]
                     /\ batch \subseteq {o \in Orders : status[o] = "unknown" /\ ~hasExchangeId[o]}
    <3>1. OldestBatch({o \in Orders : status[o] = "unknown" /\ ~hasExchangeId[o]})
             \subseteq {o \in Orders : status[o] = "unknown" /\ ~hasExchangeId[o]}
      BY BatchIsSubset
    <3>2. QED
      BY <1>2, <3>1, Zenon DEF ResolveSelect
  <2>2. \A o \in batch : status[o] = "unknown" /\ handler[o] = "done"
    BY <2>1 DEF HandlerInv, TypeOK, TableType, Active
  <2>3. resTodo[p] = {}
    BY <1>2 DEF ResolveSelect, ResolverInv
  <2>4. \A o \in Orders : lookup[p][o] = "none"
    BY <2>3 DEF ResolverInv
  <2>5. /\ resTodo'[p] = batch /\ resExpired'[p] \subseteq batch
        /\ \A o \in resExpired'[p] : age[o] >= NOT_FOUND_GRACE
        /\ marked'[p] = FALSE
    BY <1>2, <2>1 DEF ResolveSelect, TypeOK, JobType
  <2>6. \A q \in Processes : q # p => /\ resTodo'[q] = resTodo[q] /\ resExpired'[q] = resExpired[q]
                                    /\ marked'[q] = marked[q]
    BY <1>2, <2>1 DEF ResolveSelect, TypeOK, JobType
  <2>7. UNCHANGED <<status, handler, age, lookup, exch>>
    BY <1>2 DEF ResolveSelect
  <2>8. ResolverInv'
    BY <2>2, <2>4, <2>5, <2>6, <2>7 DEF ResolverInv, ExchangeStatuses, ExchangeOpen, ExchangeFinal
  <2>9. HandlerInv' /\ WireInv' /\ RowInv' /\ FillInv'
    BY <1>2 DEF ResolveSelect, HandlerInv, WireInv, RowInv, FillInv
  <2>10. QED
    BY <2>8, <2>9
<1>3. CASE ResolveSelectFails(p)
  <2>1. ResolverInv'
    BY <1>3 DEF ResolveSelectFails, ResolverInv, TypeOK, JobType
  <2>2. HandlerInv' /\ WireInv' /\ RowInv' /\ FillInv'
    BY <1>3 DEF ResolveSelectFails, HandlerInv, WireInv, RowInv, FillInv
  <2>3. QED
    BY <2>1, <2>2
<1>4. ASSUME NEW o \in Orders, ResolveLookup(p, o)
      PROVE  IInv'
  <2>1. HandlerInv' /\ WireInv' /\ RowInv' /\ FillInv'
    BY <1>4 DEF ResolveLookup, HandlerInv, WireInv, RowInv, FillInv
  <2>2. ResolverInv'
    BY <1>4 DEF ResolveLookup, ResolveAt, Oldest, ResolverInv, TypeOK, TableType, JobType, MaybeExchange,
                ExchangeOpen, ExchangeFinal, ExchangeStatuses
  <2>3. QED
    BY <2>1, <2>2
\* The row is done with: what is left of the snapshot is what it was.
<1>5. ASSUME NEW o \in Orders, ResolveDone(p, o),
             \A q \in Orders : handler[q] = "done" /\ status[q] \notin {"absent", "pending"}
                                  => status'[q] \notin {"absent", "pending"},
             \A q \in Orders \ {o} : status'[q] = status[q],
             OneProcess => \A q \in Processes : q = p
      PROVE  ResolverInv'
  BY <1>5 DEF ResolveDone, ResolverInv, TypeOK, JobType, ExchangeStatuses, ExchangeOpen, ExchangeFinal
<1>6. OneProcess => \A q \in Processes : q = p
  BY DEF OneProcess
<1>7. ASSUME NEW o \in Orders, ResolveCannotAsk(p, o) \/ ResolveWriteFails(p, o)
      PROVE  IInv'
  <2>1. ResolveDone(p, o) /\ status' = status /\ hasExchangeId' = hasExchangeId
    BY <1>7 DEF ResolveCannotAsk, ResolveWriteFails
  <2>2. ResolverInv'
    BY <1>5, <1>6, <2>1
  <2>3. HandlerInv' /\ WireInv' /\ RowInv' /\ FillInv'
    BY <2>1 DEF ResolveDone, HandlerInv, WireInv, RowInv, FillInv
  <2>4. QED
    BY <2>2, <2>3
<1>8. ASSUME NEW o \in Orders, ResolveAdopt(p, o)
      PROVE  IInv'
  <2>1. /\ ResolveDone(p, o) /\ lookup[p][o] \in ExchangeStatuses
        /\ hasExchangeId' = [hasExchangeId EXCEPT ![o] = TRUE]
        /\ status' = [status EXCEPT ![o] = normalizeOrderStatus(o, lookup[p][o], TRUE)]
    BY <1>8 DEF ResolveAdopt
  <2>2. handler[o] = "done" /\ exch[o] # "none" /\ (lookup[p][o] \in ExchangeFinal => exch[o] = lookup[p][o])
    BY <2>1, LookupIsTrue
  <2>3. PICK s : /\ status' = [status EXCEPT ![o] = s]
                 /\ s \in {"submitted", "partially_filled", "filled", "cancelled", "rejected"}
                 /\ s \in {"filled", "cancelled", "rejected"} => exch[o] = s
    <3>1. /\ normalizeOrderStatus(o, lookup[p][o], TRUE)
               \in {"submitted", "partially_filled", "filled", "cancelled", "rejected"}
          /\ normalizeOrderStatus(o, lookup[p][o], TRUE) \in {"filled", "cancelled", "rejected"}
               => exch[o] = normalizeOrderStatus(o, lookup[p][o], TRUE)
      BY <2>2 DEF normalizeOrderStatus, ExchangeFinal
    <3>2. QED
      BY <2>1, <3>1
  <2>5. status[o] # "absent"
    BY <2>1, LookupIsTrue
  <2>6. ResolverInv'
    BY <1>5, <1>6, <2>1, <2>3 DEF TypeOK, TableType
  <2>7. HandlerInv'
    <3>1. UNCHANGED <<handler, answer, wire, exch, age>>
      BY <2>1 DEF ResolveDone
    <3>2. \A q \in Orders : q # o => status'[q] = status[q]
      BY <2>3 DEF TypeOK, TableType
    <3>3. status'[o] # "absent"
      BY <2>3 DEF TypeOK, TableType
    <3>4. QED
      BY <2>2, <3>1, <3>2, <3>3 DEF HandlerInv, Active
  <2>8. WireInv' /\ RowInv'
    <3>1. UNCHANGED <<handler, answer, wire, exch, age, cancelling>>
      BY <2>1 DEF ResolveDone
    <3>2. \A q \in Orders : q # o => status'[q] = status[q] /\ hasExchangeId'[q] = hasExchangeId[q]
      BY <2>1, <2>3 DEF TypeOK, TableType, Flags
    <3>3. status'[o] = s
      BY <2>3 DEF TypeOK, TableType
    <3>4. WireInv'
      BY <3>1 DEF WireInv
    <3>5. wire[o] # "request"
      BY <2>2 DEF WireInv
    <3>6. RowInv'
      BY <2>2, <2>3, <3>1, <3>2, <3>3, <3>5 DEF RowInv
    <3>7. QED
      BY <3>4, <3>6
  <2>9. FillInv'
    BY <2>1 DEF ResolveDone, FillInv
  <2>10. QED
    BY <2>6, <2>7, <2>8, <2>9
<1>9. ASSUME NEW o \in Orders, ResolveMissing(p, o)
      PROVE  IInv'
  <2>1. /\ ResolveDone(p, o) /\ lookup[p][o] = "missing" /\ hasExchangeId' = hasExchangeId
        /\ status' = [status EXCEPT ![o] = IF o \in resExpired[p] /\ @ = "unknown" THEN "rejected" ELSE @]
    BY <1>9 DEF ResolveMissing
  <2>2. o \in resExpired[p] => exch[o] = "none" /\ wire[o] # "request" /\ handler[o] = "done"
    BY <2>1, BoundsAssumption DEF ResolverInv, WireInv, Timely, TypeOK, TableType
  <2>3. ResolverInv'
    BY <1>5, <1>6, <2>1 DEF TypeOK, TableType
  <2>4. HandlerInv' /\ WireInv'
    BY <2>1, <2>2 DEF ResolveDone, HandlerInv, WireInv, TypeOK, TableType, Active
  <2>5. RowInv'
    BY <2>1, <2>2 DEF ResolveDone, RowInv, TypeOK, TableType, Flags
  <2>6. FillInv'
    BY <2>1 DEF ResolveDone, FillInv
  <2>7. QED
    BY <2>3, <2>4, <2>5, <2>6
<1>10. QED
  BY <1>1, <1>2, <1>3, <1>4, <1>7, <1>8, <1>9 DEF resolveUnresolvedOrders

LEMMA FillInvNext ==
  ASSUME IInv, TypeOK', NEW p \in Processes, reconcileLiveOrders(p)
  PROVE  IInv'
<1> USE DEF IInv, rowVars, handlerVars, exchangeVars, resolverVars, fillVars
<1>1. HandlerInv' /\ WireInv' /\ RowInv' /\ ResolverInv'
  <2>1. /\ UNCHANGED <<status, hasExchangeId, age, handlerVars, exchangeVars, cancelling>>
        /\ UNCHANGED resolverVars
    BY DEF reconcileLiveOrders, FillSelect, FillTake, FillFetch, FillCannotAsk, FillNotCounted, FillWrite,
           FillNext, FillDone
  <2>2. HandlerInv' /\ WireInv' /\ RowInv'
    BY <2>1 DEF HandlerInv, WireInv, RowInv
  <2>3. ResolverInv'
    BY <2>1 DEF ResolverInv
  <2>4. QED
    BY <2>2, <2>3
<1>2. CASE FillSelect(p)
  BY <1>1, <1>2 DEF FillSelect, FillTake, FillInv
<1>3. ASSUME NEW o \in Orders, FillFetch(p, o)
      PROVE  IInv'
  <2>1. FillInv'
    BY <1>3 DEF FillFetch, FillInv, TypeOK, JobType, MaybeExchange
  <2>2. QED
    BY <1>1, <2>1
\* The read is forgotten.
<1>4. ASSUME NEW o \in Orders, FillDone(p, o)
      PROVE  \A r \in Processes : \A q \in Orders : fillRead'[r][q] \in ExchangeFinal => exch'[q] = fillRead'[r][q]
  BY <1>4 DEF FillDone, FillInv, TypeOK, JobType, MaybeExchange, ExchangeFinal
<1>5. ASSUME NEW o \in Orders, FillCannotAsk(p, o) \/ FillNotCounted(p, o)
      PROVE  IInv'
  <2>1. FillDone(p, o) /\ UNCHANGED <<exchangeStatus, fillFinal>>
    BY <1>5 DEF FillCannotAsk, FillNotCounted, FillNext
  <2>2. FillInv'
    BY <1>4, <2>1 DEF FillInv, FillDone
  <2>3. QED
    BY <1>1, <2>2
<1>6. ASSUME NEW o \in Orders, FillWrite(p, o)
      PROVE  IInv'
  <2>1. /\ FillDone(p, o) /\ exchangeStatus' = [exchangeStatus EXCEPT ![o] = fillRead[p][o]]
        /\ fillFinal' = [fillFinal EXCEPT ![o] = fillRead[p][o] \in ExchangeFinal]
    BY <1>6 DEF FillWrite, FillNext
  <2>2. \A q \in Orders : fillFinal'[q] => exch'[q] \in ExchangeFinal /\ exchangeStatus'[q] = exch'[q]
    <3>1. ASSUME NEW q \in Orders, q # o
          PROVE  fillFinal'[q] = fillFinal[q] /\ exchangeStatus'[q] = exchangeStatus[q]
      BY <2>1, <3>1 DEF TypeOK, TableType, Flags, MaybeExchange
    <3>2. fillFinal'[o] <=> fillRead[p][o] \in ExchangeFinal
      BY <2>1, Zenon DEF TypeOK, TableType, Flags
    <3>3. exchangeStatus'[o] = fillRead[p][o]
      BY <2>1 DEF TypeOK, TableType, MaybeExchange
    <3>4. exch' = exch
      BY <2>1 DEF FillDone
    <3>5. QED
      BY <3>1, <3>2, <3>3, <3>4 DEF FillInv
  <2>3. FillInv'
    BY <1>4, <2>1, <2>2 DEF FillInv
  <2>4. QED
    BY <1>1, <2>3
<1>7. QED
  BY <1>2, <1>3, <1>5, <1>6 DEF reconcileLiveOrders

LEMMA CrashInv ==
  ASSUME IInv, TypeOK', NEW p \in Processes, Crash(p)
  PROVE  IInv'
<1> USE DEF IInv, TypeOK, TableType, rowVars, handlerVars, exchangeVars
<1>1. HandlerInv'
  BY DEF Crash, Unheard, Active, HandlerInv
<1>2. WireInv'
  BY DEF Crash, Unheard, Active, WireInv, ExchangeFinal
<1>3. RowInv'
  BY DEF Crash, Unheard, RowInv
<1>4. ResolverInv'
  BY DEF Crash, NothingRead, ResolverInv, JobType, Active, ExchangeStatuses, ExchangeOpen, ExchangeFinal
<1>5. FillInv'
  BY DEF Crash, NothingRead, FillInv, JobType, ExchangeFinal
<1>6. QED
  BY <1>1, <1>2, <1>3, <1>4, <1>5

\* The inductive invariant holds of every behaviour in which handlers and requests are timely.
THEOREM InvCorrect ==
  ASSUME Timely, UniqueIds
  PROVE  Spec => []IInv
<1>1. IInv /\ [Next]_vars => IInv'
  <2> SUFFICES ASSUME IInv, [Next]_vars
               PROVE  IInv'
    OBVIOUS
  <2>1. TypeOK'
    BY TypeNext DEF IInv
  <2>2. ASSUME \/ \E o \in Orders : placeOrder(o) \/ Exchange(o) \/ cancelOrder(o)
               \/ Tick
        PROVE  IInv'
    <3>1. HandlerInv' /\ WireInv' /\ RowInv' /\ \A q \in Orders : Keeps(q)
      BY <2>2, PlaceOrderInv, ExchangeInv, CancelOrderInv, TickInv
    <3>2. ResolverInv' /\ FillInv'
      BY <2>2, <3>1, OutsideJobs, JobsKept DEF IInv
    <3>3. QED
      BY <2>1, <3>1, <3>2 DEF IInv
  <2>3. CASE UNCHANGED vars
    <3>1. HandlerInv' /\ WireInv' /\ RowInv'
      BY <2>3 DEF vars, rowVars, handlerVars, exchangeVars, IInv, HandlerInv, WireInv, RowInv
    <3>2. ResolverInv' /\ FillInv'
      BY <2>3 DEF vars, rowVars, handlerVars, exchangeVars, resolverVars, fillVars, IInv, ResolverInv, FillInv
    <3>3. QED
      BY <2>1, <3>1, <3>2 DEF IInv
  <2>4. QED
    BY <2>1, <2>2, <2>3, ResolverInvNext, FillInvNext, CrashInv DEF Next
<1>2. QED
  BY <1>1, InvInit, PTL DEF Spec

\* An order at work at the exchange is visible: whatever answer, write or process is lost, its row is open.
THEOREM LiveIsVisible ==
  ASSUME Timely, UniqueIds
  PROVE  Spec => []LiveOrderIsVisible
<1>1. IInv => LiveOrderIsVisible
  BY DEF IInv, TypeOK, TableType, HandlerInv, WireInv, RowInv, LiveOrderIsVisible, STATUSES, OPEN_STATUSES,
         CLOSED_STATUSES, ExchangeOpen
<1>2. QED
  BY <1>1, InvCorrect, PTL

\* A row that says rejected was never placed and cannot arrive any more.
THEOREM RejectedIsTrue ==
  ASSUME Timely, UniqueIds
  PROVE  Spec => []RejectedMeansNotPlaced
<1>1. IInv => RejectedMeansNotPlaced
  BY DEF IInv, RowInv, RejectedMeansNotPlaced
<1>2. QED
  BY <1>1, InvCorrect, PTL

\* A fill the job calls final is the exchange's last word.
THEOREM FillIsTrue ==
  ASSUME Timely, UniqueIds
  PROVE  Spec => []FinalFillIsTrue
<1>1. IInv => FinalFillIsTrue
  BY DEF IInv, FillInv, FinalFillIsTrue
<1>2. QED
  BY <1>1, InvCorrect, PTL

\* An unknown row can still be resolved, and the resolver never crosses a running call.
THEOREM DoubtStaysResolvable ==
  ASSUME Timely, UniqueIds
  PROVE  Spec => [](UnknownIsSelectable /\ ResolverAfterHandler)
<1>1. IInv => UnknownIsSelectable
  BY DEF IInv, RowInv, UnknownIsSelectable
<1>2. IInv => ResolverAfterHandler
  BY DEF IInv, TypeOK, JobType, ResolverInv, ResolverAfterHandler, Active
<1>3. QED
  BY <1>1, <1>2, InvCorrect, PTL

\* What each action may do to a row that is in a closed state: nothing, but for the adoption of a
\* lookup that is older than the end of the order.
LEMMA ClosedStep ==
  ASSUME UniqueIds, IInv, Next, NEW o \in Orders, status[o] \in CLOSED_STATUSES
  PROVE  \/ status'[o] = status[o]
         \/ \E p \in Processes : ResolveAdopt(p, o)
<1> USE DEF IInv, TypeOK, TableType, HandlerInv, RowInv, CLOSED_STATUSES, rowVars
<1>1. ASSUME NEW q \in Orders, placeOrder(q)
      PROVE  status'[o] = status[o]
  <2>1. status[q] \in {"absent", "pending"} \/ status' = status
    BY <1>1 DEF placeOrder, Record, RecordFails, NotSent, Send, GetAnswer, NoAnswer, CompleteRow,
                SetOrderState, OutcomeNotWritten, Active
  <2>2. status' = status \/ \E s : status' = [status EXCEPT ![q] = s]
    BY <1>1 DEF placeOrder, Record, RecordFails, InsertRow, NotSent, Send, GetAnswer, NoAnswer,
                CompleteRow, SetOrderState, OutcomeNotWritten
  <2>3. QED
    BY <2>1, <2>2
<1>2. ASSUME NEW q \in Orders, Exchange(q)
      PROVE  status'[o] = status[o]
  BY <1>2 DEF Exchange, ExchangeAccepts, ExchangeRefuses, RequestLost, ExchangeProgress
<1>3. ASSUME NEW q \in Orders, cancelOrder(q)
      PROVE  status'[o] = status[o]
  BY <1>3 DEF cancelOrder, CancelAtExchange, CancelRow, CancelNotWritten, UniqueIds
<1>4. ASSUME NEW p \in Processes, resolveUnresolvedOrders(p)
      PROVE  status'[o] = status[o] \/ ResolveAdopt(p, o)
  <2>1. CASE ResolveStart(p) \/ ResolveSelect(p) \/ ResolveSelectFails(p)
    BY <2>1 DEF ResolveStart, MarkUnknown, ResolveSelect, ResolveSelectFails
  <2>2. ASSUME NEW q \in Orders, ResolveLookup(p, q) \/ ResolveCannotAsk(p, q) \/ ResolveWriteFails(p, q)
        PROVE  status'[o] = status[o]
    BY <2>2 DEF ResolveLookup, ResolveCannotAsk, ResolveWriteFails
  <2>3. ASSUME NEW q \in Orders, ResolveMissing(p, q)
        PROVE  status'[o] = status[o]
    BY <2>3 DEF ResolveMissing
  <2>4. ASSUME NEW q \in Orders, ResolveAdopt(p, q), q # o
        PROVE  status'[o] = status[o]
    BY <2>4 DEF ResolveAdopt
  <2>5. QED
    BY <1>4, <2>1, <2>2, <2>3, <2>4 DEF resolveUnresolvedOrders
<1>5. ASSUME NEW p \in Processes, reconcileLiveOrders(p)
      PROVE  status'[o] = status[o]
  BY <1>5 DEF reconcileLiveOrders, FillSelect, FillTake, FillFetch, FillCannotAsk, FillNotCounted,
              FillWrite, FillNext, FillDone
<1>6. CASE Tick
  BY <1>6 DEF Tick
<1>7. ASSUME NEW p \in Processes, Crash(p)
      PROVE  status'[o] = status[o]
  BY <1>7 DEF Crash
<1>8. QED
  BY <1>1, <1>2, <1>3, <1>4, <1>5, <1>6, <1>7 DEF Next

\* A row that says an end says the one the exchange holds, and is only ever shown open again.
THEOREM ClosedKeepsEnd ==
  ASSUME Timely, UniqueIds
  PROVE  Spec => ClosedRowKeepsItsEnd
<1>1. ASSUME IInv, Next, NEW o \in Orders, status[o] \in CLOSED_STATUSES
      PROVE  \/ status'[o] = status[o]
             \/ status'[o] \in {"submitted", "partially_filled"} /\ exch'[o] = status[o]
  <2>1. ASSUME NEW p \in Processes, ResolveAdopt(p, o)
        PROVE  \/ status'[o] = status[o]
               \/ status'[o] \in {"submitted", "partially_filled"} /\ exch'[o] = status[o]
    <3>0. ResolverInv /\ lookup[p][o] \in ExchangeStatuses
      BY <1>1, <2>1 DEF IInv, ResolveAdopt
    <3>1. exch[o] = status[o] /\ exch' = exch
      <4>1. exch[o] # "none"
        BY <3>0, LookupIsTrue
      <4>2. exch' = exch
        BY <2>1 DEF ResolveAdopt, ResolveDone, exchangeVars
      <4>3. RowInv /\ status[o] \in {"filled", "cancelled", "rejected"}
        BY <1>1 DEF IInv, CLOSED_STATUSES
      <4>4. QED
        BY <4>1, <4>2, <4>3 DEF RowInv
    <3>2. status'[o] = normalizeOrderStatus(o, lookup[p][o], TRUE)
      <4>1. status \in [Orders -> STATUSES \cup {"absent"}]
        BY <1>1 DEF IInv, TypeOK, TableType
      <4>2. QED
        BY <2>1, <4>1 DEF ResolveAdopt
    <3>3. lookup[p][o] \in ExchangeFinal => status'[o] = status[o]
      <4>1. lookup[p][o] \in ExchangeFinal => exch[o] = lookup[p][o]
        BY <3>0, LookupIsTrue
      <4>2. QED
        BY <3>1, <3>2, <4>1 DEF normalizeOrderStatus
    <3>4. lookup[p][o] \notin ExchangeFinal => status'[o] \in {"submitted", "partially_filled"}
      BY <3>2 DEF normalizeOrderStatus
    <3>5. QED
      BY <3>1, <3>3, <3>4
  <2>2. QED
    BY <1>1, <2>1, ClosedStep
<1>2. IInv /\ [Next]_vars
        => [\A o \in Orders : status[o] \in CLOSED_STATUSES =>
               \/ status'[o] = status[o]
               \/ status'[o] \in {"submitted", "partially_filled"} /\ exch'[o] = status[o]]_vars
  BY <1>1
<1>3. QED
  BY <1>2, InvCorrect, PTL DEF Spec, ClosedRowKeepsItsEnd

\* With one backend process no late answer, lookup, cancellation or crash takes a row out of a
\* closed state.
THEOREM ClosedStays ==
  ASSUME Timely, UniqueIds, OneProcess
  PROVE  Spec => ClosedRowStaysClosed
<1>1. ASSUME IInv, Next, NEW o \in Orders, status[o] \in CLOSED_STATUSES
      PROVE  status'[o] = status[o]
  <2>1. ASSUME NEW p \in Processes, ResolveAdopt(p, o)
        PROVE  FALSE
    BY <1>1, <2>1, LookupIsTrue DEF IInv, ResolveAdopt, CLOSED_STATUSES
  <2>2. QED
    BY <1>1, <2>1, ClosedStep
<1>2. IInv /\ [Next]_vars => [\A o \in Orders : status[o] \in CLOSED_STATUSES => status'[o] = status[o]]_vars
  BY <1>1
<1>3. QED
  BY <1>2, InvCorrect, PTL DEF Spec, ClosedRowStaysClosed
=============================================================================
