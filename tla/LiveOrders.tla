----------------------------- MODULE LiveOrders -----------------------------
(***************************************************************************)
(* The life of a LIVE order: POST /api/trading/order in live mode, the     *)
(* exchange it talks to, the two cron jobs that repair the live_orders     *)
(* table (resolveUnresolvedOrders, reconcileLiveOrders) and DELETE         *)
(* /api/trading/orders/:id in live mode.  Every backend process runs both  *)
(* jobs: the flags that keep a job from overlapping itself are memory of   *)
(* one process, so the jobs of two processes overlap freely.               *)
(*                                                                         *)
(* One element of Orders is one call of placeOrder that passed validation  *)
(* and the risk checks: it owns (at most) one row of live_orders and the   *)
(* client_order_id generated for it.  Each action is the code between two  *)
(* awaits.  Time is counted in units per row (age, saturating at the       *)
(* largest threshold), so behaviours never run out of time.                *)
(***************************************************************************)
EXTENDS Integers, FiniteSets

CONSTANTS
    Processes,          \* backend processes on the one database
    Orders,             \* calls of placeOrder in live mode
    Home,               \* Home[o]: the process that serves the requests about o
    Venue,              \* Venue[o]: the kind of exchange o goes to
    ExchangeId,         \* ExchangeId[o]: the id the exchange gives o if it accepts it
    Unanswerable,       \* orders the exchange cannot be asked about (connection removed, no lookup by client id)
    PAPER_TRADING,      \* env.PAPER_TRADING: refuse to send anything
    PENDING_TO_UNKNOWN, \* age at which a pending row has lost its answer
    NOT_FOUND_GRACE,    \* age at which "not found" means "never placed"
    BATCH_LIMIT,        \* LIMIT of the two jobs' SELECTs
    MAX_ATTEMPTS,       \* reconcile_attempts at which the fill job gives up
    HandlerBound,       \* placeOrder ends within this age (above NOT_FOUND_GRACE: no bound)
    LandingBound,       \* a request reaches the exchange, or is lost, within this age
    MaxFaults           \* bound on the faults of a behaviour

VenueKinds == {"oanda", "alpaca", "ccxt"}

ASSUME OrdersAssumption == IsFiniteSet(Orders)
ASSUME ProcessesAssumption == Home \in [Orders -> Processes]
ASSUME VenueAssumption ==
    /\ Venue \in [Orders -> VenueKinds]
    /\ Unanswerable \subseteq Orders
    /\ PAPER_TRADING \in BOOLEAN
ASSUME BoundsAssumption ==
    /\ PENDING_TO_UNKNOWN \in Nat /\ NOT_FOUND_GRACE \in Nat
    /\ PENDING_TO_UNKNOWN <= NOT_FOUND_GRACE
    /\ BATCH_LIMIT \in Nat \ {0} /\ MAX_ATTEMPTS \in Nat
    /\ HandlerBound \in Nat /\ LandingBound \in Nat /\ MaxFaults \in Nat

\* utils/orderState.js: OPEN_STATUSES and CLOSED_STATUSES
OPEN_STATUSES == {"pending", "submitted", "partially_filled", "unknown"}
CLOSED_STATUSES == {"filled", "cancelled", "rejected"}
STATUSES == OPEN_STATUSES \cup CLOSED_STATUSES

\* What the exchange can hold under a client id, and the states it never leaves.
ExchangeOpen == {"open", "partially_filled"}
ExchangeFinal == {"filled", "cancelled", "rejected"}
ExchangeStatuses == ExchangeOpen \cup ExchangeFinal

(***************************************************************************)
(* normalizeOrderStatus.  The quantity filled is known to the caller only  *)
(* when filledKnown holds; without it a partial fill of a ccxt order still *)
(* reads "open".  OANDA has no partial state.                              *)
(***************************************************************************)
normalizeOrderStatus(o, s, filledKnown) ==
    IF s \in ExchangeFinal THEN s
    ELSE IF s = "partially_filled" /\ (Venue[o] = "alpaca" \/ (Venue[o] = "ccxt" /\ filledKnown))
         THEN "partially_filled"
    ELSE "submitted"

VARIABLES
    \* the live_orders table
    status,             \* status[o], "absent" before the INSERT
    hasExchangeId,      \* exchange_order_id IS NOT NULL
    rowId,              \* the SERIAL id (0: no row); created_at has the same order
    age,                \* NOW() - created_at
    exchangeStatus,     \* exchange_status, written by the fill job
    fillFinal,          \* fill_final
    attempts,           \* reconcile_attempts
    \* the placeOrder calls
    handler,            \* where each call stands
    answer,             \* the status in the exchange's reply
    \* the exchange and the network
    wire,               \* the order request or its reply
    exch,               \* the order the exchange holds
    \* resolveUnresolvedOrders of each process
    marked,             \* step 1 is done, the SELECT is not
    resTodo, resExpired, lookup,
    \* reconcileLiveOrders of each process
    fillTodo, fillRead,
    \* cancelOrder: cancelled at the exchange, row not yet updated
    cancelling,
    faults

rowVars == <<status, hasExchangeId, rowId, age, exchangeStatus, fillFinal, attempts>>
handlerVars == <<handler, answer>>
exchangeVars == <<wire, exch>>
resolverVars == <<marked, resTodo, resExpired, lookup>>
fillVars == <<fillTodo, fillRead>>
vars == <<rowVars, handlerVars, exchangeVars, resolverVars, fillVars, cancelling, faults>>

\* A job has nothing of the exchange in hand.
NothingRead == [o \in Orders |-> "none"]

Init ==
    /\ status = [o \in Orders |-> "absent"]
    /\ hasExchangeId = [o \in Orders |-> FALSE]
    /\ rowId = [o \in Orders |-> 0]
    /\ age = [o \in Orders |-> 0]
    /\ exchangeStatus = [o \in Orders |-> "none"]
    /\ fillFinal = [o \in Orders |-> FALSE]
    /\ attempts = [o \in Orders |-> 0]
    /\ handler = [o \in Orders |-> "idle"]
    /\ answer = [o \in Orders |-> "none"]
    /\ wire = [o \in Orders |-> "none"]
    /\ exch = [o \in Orders |-> "none"]
    /\ marked = [p \in Processes |-> FALSE]
    /\ resTodo = [p \in Processes |-> {}]
    /\ resExpired = [p \in Processes |-> {}]
    /\ lookup = [p \in Processes |-> NothingRead]
    /\ fillTodo = [p \in Processes |-> {}]
    /\ fillRead = [p \in Processes |-> NothingRead]
    /\ cancelling = {}
    /\ faults = 0

Recorded == {o \in Orders : status[o] # "absent"}

\* The handler has recorded its row and not yet written the outcome.
Active == {"recorded", "sent", "accepted", "refused", "ambiguous"}

\* One more fault: what the environment may do wrong, at most MaxFaults times.
Fault ==
    /\ faults < MaxFaults
    /\ faults' = faults + 1

-----------------------------------------------------------------------------
(* placeOrder, live branch                                                 *)

InsertRow(o) ==
    /\ status' = [status EXCEPT ![o] = "pending"]
    /\ rowId' = [rowId EXCEPT ![o] = Cardinality(Recorded) + 1]
    /\ UNCHANGED <<hasExchangeId, age, exchangeStatus, fillFinal, attempts>>

\* The row is INSERTed as pending, with its client id, before anything is sent.
Record(o) ==
    /\ handler[o] = "idle"
    /\ InsertRow(o)
    /\ handler' = [handler EXCEPT ![o] = "recorded"]
    /\ UNCHANGED <<answer, exchangeVars, resolverVars, fillVars, cancelling, faults>>

\* The INSERT fails, or commits and its acknowledgement is lost: 503 ORDER_NOT_RECORDED, nothing is sent.
RecordFails(o) ==
    /\ handler[o] = "idle"
    /\ Fault
    /\ InsertRow(o) \/ UNCHANGED rowVars
    /\ handler' = [handler EXCEPT ![o] = "done"]
    /\ UNCHANGED <<answer, exchangeVars, resolverVars, fillVars, cancelling>>

\* placeLiveOrder throws with orderNotSent: the PAPER_TRADING guard, or loadMarkets of a ccxt exchange.
NotSent(o) ==
    /\ handler[o] = "recorded"
    /\ \/ PAPER_TRADING /\ UNCHANGED faults
       \/ ~PAPER_TRADING /\ Venue[o] = "ccxt" /\ Fault
    /\ handler' = [handler EXCEPT ![o] = "refused"]
    /\ UNCHANGED <<rowVars, answer, exchangeVars, resolverVars, fillVars, cancelling>>

\* placeLiveOrder: the request leaves with the client id.
Send(o) ==
    /\ handler[o] = "recorded"
    /\ ~PAPER_TRADING
    /\ handler' = [handler EXCEPT ![o] = "sent"]
    /\ wire' = [wire EXCEPT ![o] = "request"]
    /\ UNCHANGED <<rowVars, answer, exch, resolverVars, fillVars, cancelling, faults>>

\* The reply arrives: an accepted order in whatever state, or an error classifyOrderError calls a definite refusal.
GetAnswer(o) ==
    /\ handler[o] = "sent"
    /\ wire[o] \in {"reply", "refusal"}
    /\ handler' = [handler EXCEPT ![o] = IF wire[o] = "reply" THEN "accepted" ELSE "refused"]
    /\ wire' = [wire EXCEPT ![o] = "gone"]
    /\ UNCHANGED <<rowVars, answer, exch, resolverVars, fillVars, cancelling, faults>>

\* What the network still holds of a call nobody waits for any more: only a request goes on.
Unheard(o) == IF wire[o] \in {"reply", "refusal"} THEN "gone" ELSE wire[o]

\* classifyOrderError: a timeout, a reset, a 5xx, a 429, once in a call's life and not counted among the faults.
\* The request may still be on its way.
NoAnswer(o) ==
    /\ handler[o] = "sent"
    /\ handler' = [handler EXCEPT ![o] = "ambiguous"]
    /\ answer' = [answer EXCEPT ![o] = "none"]
    /\ wire' = [wire EXCEPT ![o] = Unheard(o)]
    /\ UNCHANGED <<rowVars, exch, resolverVars, fillVars, cancelling, faults>>

\* The UPDATE after a reply: by id only, whatever the row has become.
CompleteRow(o) ==
    /\ handler[o] = "accepted"
    /\ hasExchangeId' = [hasExchangeId EXCEPT ![o] = TRUE]
    /\ status' = [status EXCEPT ![o] = normalizeOrderStatus(o, answer[o], FALSE)]
    /\ handler' = [handler EXCEPT ![o] = "done"]
    /\ answer' = [answer EXCEPT ![o] = "none"]
    /\ UNCHANGED <<rowId, age, exchangeStatus, fillFinal, attempts, exchangeVars,
                   resolverVars, fillVars, cancelling, faults>>

\* Mutant: every error is a refusal.
ErrorsAreRefusals(o) ==
    /\ handler[o] \in {"refused", "ambiguous"}
    /\ status' = [status EXCEPT ![o] = "rejected"]
    /\ handler' = [handler EXCEPT ![o] = "done"]
    /\ UNCHANGED <<hasExchangeId, rowId, age, exchangeStatus, fillFinal, attempts, answer,
                   exchangeVars, resolverVars, fillVars, cancelling, faults>>

\* setOrderState: 'rejected' after a definite refusal, 'unknown' otherwise, by id only.
SetOrderState(o) ==
    /\ handler[o] \in {"refused", "ambiguous"}
    /\ status' = [status EXCEPT ![o] = IF handler[o] = "refused" THEN "rejected" ELSE "unknown"]
    /\ handler' = [handler EXCEPT ![o] = "done"]
    /\ UNCHANGED <<hasExchangeId, rowId, age, exchangeStatus, fillFinal, attempts, answer,
                   exchangeVars, resolverVars, fillVars, cancelling, faults>>

\* Both writes are best effort: the error is logged and the row left as it is.
OutcomeNotWritten(o) ==
    /\ handler[o] \in {"accepted", "refused", "ambiguous"}
    /\ Fault
    /\ handler' = [handler EXCEPT ![o] = "done"]
    /\ answer' = [answer EXCEPT ![o] = "none"]
    /\ UNCHANGED <<rowVars, exchangeVars, resolverVars, fillVars, cancelling>>

-----------------------------------------------------------------------------
(* The exchange and the network (external)                                 *)

\* The order is accepted, in whatever state, and the reply finds its call waiting or is gone.
ExchangeAccepts(o) ==
    /\ wire[o] = "request"
    /\ \E s \in ExchangeStatuses :
          /\ exch' = [exch EXCEPT ![o] = s]
          /\ \/ /\ handler[o] = "sent"
                /\ wire' = [wire EXCEPT ![o] = "reply"]
                /\ answer' = [answer EXCEPT ![o] = s]
             \/ /\ handler[o] # "sent"
                /\ wire' = [wire EXCEPT ![o] = "gone"]
                /\ UNCHANGED answer
    /\ UNCHANGED <<rowVars, handler, resolverVars, fillVars, cancelling, faults>>

ExchangeRefuses(o) ==
    /\ wire[o] = "request"
    /\ wire' = [wire EXCEPT ![o] = IF handler[o] = "sent" THEN "refusal" ELSE "gone"]
    /\ UNCHANGED <<rowVars, handlerVars, exch, resolverVars, fillVars, cancelling, faults>>

RequestLost(o) ==
    /\ wire[o] = "request"
    /\ Fault
    /\ wire' = [wire EXCEPT ![o] = "gone"]
    /\ UNCHANGED <<rowVars, handlerVars, exch, resolverVars, fillVars, cancelling>>

\* A resting order is filled, cancelled, or refused after all.
ExchangeProgress(o) ==
    /\ exch[o] \in ExchangeOpen
    /\ \E s \in ExchangeFinal \cup {"partially_filled"} : exch' = [exch EXCEPT ![o] = s]
    /\ UNCHANGED <<rowVars, handlerVars, wire, resolverVars, fillVars, cancelling, faults>>

-----------------------------------------------------------------------------
(* resolveUnresolvedOrders of process p, every minute                      *)

\* The first BATCH_LIMIT rows of S, ORDER BY created_at ASC.
OldestBatch(S) == {o \in S : Cardinality({q \in S : rowId[q] < rowId[o]}) < BATCH_LIMIT}

Oldest(o, S) == o \in S /\ \A q \in S : rowId[o] <= rowId[q]

\* The marking UPDATE, over the rows that lost their answer; `resolving` keeps p from starting twice.
MarkUnknown(p, lost) ==
    /\ ~marked[p] /\ resTodo[p] = {}
    /\ marked' = [marked EXCEPT ![p] = TRUE]
    /\ status' = [o \in Orders |-> IF o \in lost THEN "unknown" ELSE status[o]]
    /\ UNCHANGED <<hasExchangeId, rowId, age, exchangeStatus, fillFinal, attempts, handlerVars,
                   exchangeVars, resTodo, resExpired, lookup, fillVars, cancelling, faults>>

OldWithoutId == {o \in Recorded : ~hasExchangeId[o] /\ age[o] >= PENDING_TO_UNKNOWN}

\* Mutant: the UPDATE does not look at the status.
MarkAnyOld(p) == MarkUnknown(p, OldWithoutId)

\* Mutant: orphans are not looked for.
MarkNothing(p) == MarkUnknown(p, {})

\* Step 1: pending rows with no exchange id that are old enough become unknown.
ResolveStart(p) == MarkUnknown(p, {o \in OldWithoutId : status[o] = "pending"})

\* Step 2: the unknown rows, with their age at this moment (age_min).  With none the job is over.
ResolveSelect(p) ==
    /\ marked[p]
    /\ marked' = [marked EXCEPT ![p] = FALSE]
    /\ LET batch == OldestBatch({o \in Orders : status[o] = "unknown" /\ ~hasExchangeId[o]}) IN
       /\ resTodo' = [resTodo EXCEPT ![p] = batch]
       /\ resExpired' = [resExpired EXCEPT ![p] = {o \in batch : age[o] >= NOT_FOUND_GRACE}]
    /\ UNCHANGED <<rowVars, handlerVars, exchangeVars, lookup, fillVars, cancelling, faults>>

\* The SELECT fails: the exception leaves the function, finally releases the flag.
ResolveSelectFails(p) ==
    /\ marked[p]
    /\ Fault
    /\ marked' = [marked EXCEPT ![p] = FALSE]
    /\ UNCHANGED <<rowVars, handlerVars, exchangeVars, resTodo, resExpired, lookup, fillVars, cancelling>>

\* The row p's loop is at, nothing of it asked yet.
ResolveAt(p, o) == Oldest(o, resTodo[p]) /\ lookup[p][o] = "none"

\* fetchOrderByClientId answers: the order, or no such order.
ResolveLookup(p, o) ==
    /\ ResolveAt(p, o)
    /\ o \notin Unanswerable
    /\ lookup' = [lookup EXCEPT ![p][o] = IF exch[o] = "none" THEN "missing" ELSE exch[o]]
    /\ UNCHANGED <<rowVars, handlerVars, exchangeVars, marked, resTodo, resExpired, fillVars,
                   cancelling, faults>>

\* p is done with the row; after the last one step 3 only logs, and the flag is released.
ResolveDone(p, o) ==
    /\ resTodo' = [resTodo EXCEPT ![p] = @ \ {o}]
    /\ resExpired' = [resExpired EXCEPT ![p] = @ \ {o}]
    /\ lookup' = [lookup EXCEPT ![p][o] = "none"]
    /\ UNCHANGED <<rowId, age, exchangeStatus, fillFinal, attempts, handlerVars, exchangeVars,
                   marked, fillVars, cancelling>>

\* The lookup throws, or there are no credentials: counted, the row is left as it is.
ResolveCannotAsk(p, o) ==
    /\ ResolveAt(p, o)
    /\ \/ o \in Unanswerable /\ UNCHANGED faults
       \/ o \notin Unanswerable /\ Fault
    /\ ResolveDone(p, o)
    /\ UNCHANGED <<status, hasExchangeId>>

\* found: the exchange id and the state are adopted, by id only, whatever the row has become.
ResolveAdopt(p, o) ==
    /\ lookup[p][o] \in ExchangeStatuses
    /\ hasExchangeId' = [hasExchangeId EXCEPT ![o] = TRUE]
    /\ status' = [status EXCEPT ![o] = normalizeOrderStatus(o, lookup[p][o], TRUE)]
    /\ ResolveDone(p, o)
    /\ UNCHANGED faults

\* Mutant: "not found" is believed at once.
MissingIsRejected(p, o) ==
    /\ lookup[p][o] = "missing"
    /\ status' = [status EXCEPT ![o] = IF @ = "unknown" THEN "rejected" ELSE @]
    /\ ResolveDone(p, o)
    /\ UNCHANGED <<hasExchangeId, faults>>

\* not found: rejected once past the grace period (WHERE status = 'unknown'), left alone before it.
ResolveMissing(p, o) ==
    /\ lookup[p][o] = "missing"
    /\ status' = [status EXCEPT ![o] = IF o \in resExpired[p] /\ @ = "unknown" THEN "rejected" ELSE @]
    /\ ResolveDone(p, o)
    /\ UNCHANGED <<hasExchangeId, faults>>

\* The row's UPDATE fails: caught per row, the loop goes on.
ResolveWriteFails(p, o) ==
    /\ lookup[p][o] # "none"
    /\ Fault
    /\ ResolveDone(p, o)
    /\ UNCHANGED <<status, hasExchangeId>>

-----------------------------------------------------------------------------
(* reconcileLiveOrders of process p, every 15 minutes: fills only          *)

\* The rows the SELECT takes, while fewer than limit attempts were made.
FillBatch(limit) ==
    OldestBatch({o \in Orders : /\ ~fillFinal[o] /\ hasExchangeId[o] /\ Venue[o] # "oanda"
                                /\ attempts[o] < limit})

\* `running` keeps p from starting twice; with no rows the job is over.
FillTake(p, batch) ==
    /\ fillTodo[p] = {}
    /\ fillTodo' = [fillTodo EXCEPT ![p] = batch]
    /\ UNCHANGED <<rowVars, handlerVars, exchangeVars, resolverVars, fillRead, cancelling, faults>>

\* Mutant: the last attempt is never made.
FillSelectShort(p) == FillTake(p, FillBatch(MAX_ATTEMPTS - 1))

FillSelect(p) == FillTake(p, FillBatch(MAX_ATTEMPTS))

\* fetchOrderFill
FillFetch(p, o) ==
    /\ Oldest(o, fillTodo[p]) /\ fillRead[p][o] = "none"
    /\ o \notin Unanswerable
    /\ fillRead' = [fillRead EXCEPT ![p][o] = exch[o]]
    /\ UNCHANGED <<rowVars, handlerVars, exchangeVars, resolverVars, fillTodo,
                   cancelling, faults>>

\* p is done with the row; after the last one the flag is released.
FillDone(p, o) ==
    /\ fillTodo' = [fillTodo EXCEPT ![p] = @ \ {o}]
    /\ fillRead' = [fillRead EXCEPT ![p][o] = "none"]
    /\ UNCHANGED <<status, hasExchangeId, rowId, age, handlerVars, exchangeVars, resolverVars,
                   cancelling>>

\* reconcile_attempts = reconcile_attempts + 1, after good and bad polls alike.
FillNext(p, o) ==
    /\ attempts' = [attempts EXCEPT ![o] = @ + 1]
    /\ FillDone(p, o)

\* No connection any more, an error while fetching, or the UPDATE failed: the attempt is counted...
FillCannotAsk(p, o) ==
    /\ Oldest(o, fillTodo[p])
    /\ \/ o \in Unanswerable /\ UNCHANGED faults
       \/ o \notin Unanswerable /\ Fault
    /\ FillNext(p, o)
    /\ UNCHANGED <<exchangeStatus, fillFinal>>

\* ... unless that UPDATE fails too, which is ignored.
FillNotCounted(p, o) ==
    /\ Oldest(o, fillTodo[p])
    /\ Fault
    /\ FillDone(p, o)
    /\ UNCHANGED <<exchangeStatus, fillFinal, attempts>>

\* Mutant: a partial fill is final.
PartialIsFinal(p, o) ==
    /\ fillRead[p][o] # "none"
    /\ exchangeStatus' = [exchangeStatus EXCEPT ![o] = fillRead[p][o]]
    /\ fillFinal' = [fillFinal EXCEPT ![o] = fillRead[p][o] # "open"]
    /\ FillNext(p, o)
    /\ UNCHANGED faults

\* By id only: what is written is what was read, and fill_final goes back to false with it.
FillWrite(p, o) ==
    /\ fillRead[p][o] # "none"
    /\ exchangeStatus' = [exchangeStatus EXCEPT ![o] = fillRead[p][o]]
    /\ fillFinal' = [fillFinal EXCEPT ![o] = fillRead[p][o] \in ExchangeFinal]
    /\ FillNext(p, o)
    /\ UNCHANGED faults

-----------------------------------------------------------------------------
(* cancelOrder, live branch                                                *)

\* cancelLiveOrder succeeds: only an order the exchange still works can be cancelled.
CancelAtExchange(o) ==
    /\ exch[o] \in ExchangeOpen
    /\ exch' = [exch EXCEPT ![o] = "cancelled"]
    /\ cancelling' = cancelling \cup {o}
    /\ UNCHANGED <<rowVars, handlerVars, wire, resolverVars, fillVars, faults>>

\* UPDATE ... WHERE exchange_order_id = $1 AND user_id = $2: every row that carries that id.
CancelRow(o) ==
    /\ o \in cancelling
    /\ cancelling' = cancelling \ {o}
    /\ status' = [q \in Orders |-> IF hasExchangeId[q] /\ ExchangeId[q] = ExchangeId[o]
                                   THEN "cancelled" ELSE status[q]]
    /\ UNCHANGED <<hasExchangeId, rowId, age, exchangeStatus, fillFinal, attempts, handlerVars,
                   exchangeVars, resolverVars, fillVars, faults>>

\* The UPDATE fails after the exchange has cancelled: the caller gets an error.
CancelNotWritten(o) ==
    /\ o \in cancelling
    /\ Fault
    /\ cancelling' = cancelling \ {o}
    /\ UNCHANGED <<rowVars, handlerVars, exchangeVars, resolverVars, fillVars>>

-----------------------------------------------------------------------------
(* The processes and the clock                                             *)

\* Process p stops: its handlers, jobs and cancellations are gone, the table and the exchange are not.
Crash(p) ==
    /\ Fault
    /\ LET cut == {o \in Orders : Home[o] = p /\ handler[o] \in Active} IN
       /\ handler' = [o \in Orders |-> IF o \in cut THEN "done" ELSE handler[o]]
       /\ answer' = [o \in Orders |-> IF o \in cut THEN "none" ELSE answer[o]]
       /\ wire' = [o \in Orders |-> IF o \in cut THEN Unheard(o) ELSE wire[o]]
    /\ cancelling' = {o \in cancelling : Home[o] # p}
    /\ marked' = [marked EXCEPT ![p] = FALSE]
    /\ resTodo' = [resTodo EXCEPT ![p] = {}]
    /\ resExpired' = [resExpired EXCEPT ![p] = {}]
    /\ lookup' = [lookup EXCEPT ![p] = NothingRead]
    /\ fillTodo' = [fillTodo EXCEPT ![p] = {}]
    /\ fillRead' = [fillRead EXCEPT ![p] = NothingRead]
    /\ UNCHANGED <<rowVars, exch>>

\* Time passes, but never beyond the bounds on a running handler and on a request in flight.
Tick ==
    /\ \E o \in Recorded : age[o] < NOT_FOUND_GRACE
    /\ \A o \in Orders : handler[o] \in Active => age[o] # HandlerBound
    /\ \A o \in Orders : wire[o] = "request" => age[o] # LandingBound
    /\ age' = [o \in Orders |-> IF status[o] # "absent" /\ age[o] < NOT_FOUND_GRACE
                                THEN age[o] + 1 ELSE age[o]]
    /\ UNCHANGED <<status, hasExchangeId, rowId, exchangeStatus, fillFinal, attempts, handlerVars,
                   exchangeVars, resolverVars, fillVars, cancelling, faults>>

-----------------------------------------------------------------------------
placeOrder(o) ==
    \/ Record(o) \/ RecordFails(o) \/ NotSent(o) \/ Send(o) \/ GetAnswer(o) \/ NoAnswer(o)
    \/ CompleteRow(o) \/ SetOrderState(o) \/ OutcomeNotWritten(o)

Exchange(o) == ExchangeAccepts(o) \/ ExchangeRefuses(o) \/ RequestLost(o) \/ ExchangeProgress(o)

resolveUnresolvedOrders(p) ==
    \/ ResolveStart(p) \/ ResolveSelect(p) \/ ResolveSelectFails(p)
    \/ \E o \in Orders : \/ ResolveLookup(p, o) \/ ResolveCannotAsk(p, o) \/ ResolveAdopt(p, o)
                         \/ ResolveMissing(p, o) \/ ResolveWriteFails(p, o)

reconcileLiveOrders(p) ==
    \/ FillSelect(p)
    \/ \E o \in Orders : \/ FillFetch(p, o) \/ FillCannotAsk(p, o)
                         \/ FillNotCounted(p, o) \/ FillWrite(p, o)

cancelOrder(o) == CancelAtExchange(o) \/ CancelRow(o) \/ CancelNotWritten(o)

Next ==
    \/ \E o \in Orders : placeOrder(o) \/ Exchange(o) \/ cancelOrder(o)
    \/ \E p \in Processes : resolveUnresolvedOrders(p) \/ reconcileLiveOrders(p) \/ Crash(p)
    \/ Tick

Spec == Init /\ [][Next]_vars

(***************************************************************************)
(* What the guarantees below rest on.  Timely: a placeOrder call is over   *)
(* before its row is taken for orphaned, and a request has landed or is    *)
(* lost before "not found" is believed (HTTP timeouts of 8 to 10 s against *)
(* 60 s and 10 min).  UniqueIds: the exchanges' order ids do not collide.  *)
(* OneProcess is assumed by nothing but ClosedRowStaysClosed.              *)
(***************************************************************************)
Timely ==
    /\ HandlerBound < PENDING_TO_UNKNOWN
    /\ HandlerBound <= LandingBound /\ LandingBound < NOT_FOUND_GRACE
UniqueIds == \A o, q \in Orders : ExchangeId[o] = ExchangeId[q] => o = q

\* The deployment of docker-compose.yml: one backend container.
OneProcess == \A p, q \in Processes : p = q

(***************************************************************************)
(* Fairness: a started call goes on unless the process stops, the cron of  *)
(* some process keeps calling both jobs, a request in flight reaches the   *)
(* exchange, time passes.  Users, fills and faults are never owed.         *)
(***************************************************************************)
CallGoesOn(o) ==
    \/ NotSent(o) \/ Send(o) \/ GetAnswer(o) \/ NoAnswer(o) \/ CompleteRow(o) \/ SetOrderState(o)
    \/ ExchangeAccepts(o) \/ ExchangeRefuses(o)

Fairness ==
    /\ \A o \in Orders : WF_vars(CallGoesOn(o))
    /\ WF_vars(\E p \in Processes : resolveUnresolvedOrders(p))
    /\ WF_vars(\E p \in Processes : reconcileLiveOrders(p))
    /\ WF_vars(Tick)

FairSpec == Spec /\ Fairness

-----------------------------------------------------------------------------
(* What the order state machine promises                                   *)

Flags == [Orders -> BOOLEAN]
MaybeExchange == [Orders -> ExchangeStatuses \cup {"none"}]

\* The table, the calls, the exchange and the network.
TableType ==
    /\ status \in [Orders -> STATUSES \cup {"absent"}]
    /\ hasExchangeId \in Flags /\ fillFinal \in Flags
    /\ rowId \in [Orders -> Nat] /\ age \in [Orders -> Nat] /\ attempts \in [Orders -> Nat]
    /\ handler \in [Orders -> Active \cup {"idle", "done"}]
    /\ wire \in [Orders -> {"none", "request", "reply", "refusal", "gone"}]
    /\ exch \in MaybeExchange /\ answer \in MaybeExchange /\ exchangeStatus \in MaybeExchange
    /\ cancelling \in SUBSET Orders
    /\ faults \in Nat

\* The jobs of the processes.
JobType ==
    /\ marked \in [Processes -> BOOLEAN]
    /\ resTodo \in [Processes -> SUBSET Orders] /\ resExpired \in [Processes -> SUBSET Orders]
    /\ lookup \in [Processes -> [Orders -> ExchangeStatuses \cup {"none", "missing"}]]
    /\ fillTodo \in [Processes -> SUBSET Orders]
    /\ fillRead \in [Processes -> MaybeExchange]

\* Every variable keeps its type.
TypeOK == TableType /\ JobType

\* A running call owns a fresh pending row; an idle one has none.
HandlerInv ==
    \A o \in Orders :
        /\ handler[o] \in Active => status[o] = "pending" /\ age[o] <= HandlerBound
        /\ handler[o] = "idle" => status[o] = "absent"
        /\ handler[o] \in {"idle", "recorded"} => wire[o] = "none"
        /\ status[o] = "absent" => wire[o] = "none" /\ age[o] = 0
        /\ handler[o] = "accepted" => answer[o] # "none"
        /\ wire[o] \in {"reply", "refusal"} => handler[o] = "sent"
        /\ handler[o] = "refused" => exch[o] = "none" /\ wire[o] # "request"

\* The exchange holds an order only once a request has landed, and every reply is true.
WireInv ==
    \A o \in Orders :
        /\ wire[o] \in {"none", "request", "refusal"} => exch[o] = "none"
        /\ wire[o] = "request" => age[o] <= LandingBound
        /\ wire[o] = "reply" => answer[o] # "none"
        /\ answer[o] # "none" => exch[o] # "none"
        /\ answer[o] \in ExchangeFinal => exch[o] = answer[o]

\* What a row says of its order is true.
RowInv ==
    \A o \in Orders :
        /\ hasExchangeId[o] => exch[o] # "none" /\ status[o] \notin {"absent", "pending", "unknown"}
        /\ status[o] \in {"filled", "cancelled"} => exch[o] = status[o]
        /\ status[o] = "rejected" => exch[o] \in {"none", "rejected"} /\ wire[o] # "request"
        /\ o \in cancelling => exch[o] = "cancelled"

\* The resolvers ask only about rows whose call is over, and what their last answer says of the end
\* of an order, or of its absence after the grace period, still holds when it is written.  Only a
\* single process still finds its row unknown then.
ResolverInv ==
    \A p \in Processes :
        /\ marked[p] => resTodo[p] = {}
        /\ \A o \in Orders :
            /\ o \in resTodo[p] => status[o] \notin {"absent", "pending"} /\ handler[o] = "done"
            /\ OneProcess /\ o \in resTodo[p] => status[o] = "unknown"
            /\ o \in resExpired[p] => age[o] >= NOT_FOUND_GRACE
            /\ lookup[p][o] # "none" => o \in resTodo[p]
            /\ lookup[p][o] \in ExchangeStatuses => exch[o] # "none"
            /\ lookup[p][o] \in ExchangeFinal => exch[o] = lookup[p][o]
            /\ lookup[p][o] = "missing" /\ o \in resExpired[p] => exch[o] = "none"

\* What a fill job read as final is final; a row marked final says what the exchange holds.
FillInv ==
    /\ \A p \in Processes : \A o \in Orders :
          fillRead[p][o] \in ExchangeFinal => exch[o] = fillRead[p][o]
    /\ \A o \in Orders : fillFinal[o] => exch[o] \in ExchangeFinal /\ exchangeStatus[o] = exch[o]

\* The inductive invariant: every table entry, job and call tells the truth about the exchange.
IInv == TypeOK /\ HandlerInv /\ WireInv /\ RowInv /\ ResolverInv /\ FillInv

\* An order the exchange is working has a row the user sees among his open orders: no crash, lost
\* reply, failed write, resolver or cancellation ever hides it (placeOrder, OPEN_STATUSES).
LiveOrderIsVisible ==
    \A o \in Orders : exch[o] \in ExchangeOpen => status[o] \in OPEN_STATUSES

\* A row that says rejected is an order that has not been and can no longer be placed
\* (classifyOrderError, the grace period of resolveUnresolvedOrders).
RejectedMeansNotPlaced ==
    \A o \in Orders : status[o] = "rejected" => /\ exch[o] \in {"none", "rejected"}
                                               /\ wire[o] # "request"

\* An unknown row is one the resolver still selects: it never carries an exchange id already.
UnknownIsSelectable ==
    \A o \in Orders : status[o] = "unknown" => ~hasExchangeId[o]

\* The resolvers work only on rows whose placeOrder call is over: their UPDATEs never cross.
ResolverAfterHandler ==
    \A p \in Processes : \A o \in resTodo[p] : handler[o] \notin Active

\* What the fill job declared final is what the exchange holds, for good (fill_final, exchange_status).
FinalFillIsTrue ==
    \A o \in Orders : fillFinal[o] => exch[o] \in ExchangeFinal /\ exchangeStatus[o] = exch[o]

\* A row that says filled, cancelled or rejected never says another of the three, nor pending or
\* unknown.  A late answer or a cancellation does not touch it; the lookup of a second resolver can
\* make it say open again (the UPDATE by id of ResolveAdopt), of an order that has ended as it said.
ClosedRowKeepsItsEnd ==
    [][\A o \in Orders : status[o] \in CLOSED_STATUSES =>
          \/ status'[o] = status[o]
          \/ status'[o] \in {"submitted", "partially_filled"} /\ exch'[o] = status[o]]_vars

\* With one process a row that reached a closed state keeps it: late answers, lookups and
\* cancellations do not reopen or relabel it (docs/order-state-machine.md: no arrow leaves filled,
\* cancelled or rejected).
ClosedRowStaysClosed ==
    [][\A o \in Orders : status[o] \in CLOSED_STATUSES => status'[o] = status[o]]_vars

\* An order that may have been placed is never left in doubt: if the exchange can be asked,
\* an unknown or orphaned pending row ends in another state.
DoubtIsResolved ==
    \A o \in Orders \ Unanswerable :
        (status[o] \in {"pending", "unknown"}) ~> (status[o] \notin {"pending", "unknown", "absent"})

\* Attempts are left for every fault still to come, for one read of each process that is older than
\* the end of the order, and for one more.
AttemptsToSpare(o) == attempts[o] + Cardinality(Processes) + (MaxFaults - faults) < MAX_ATTEMPTS

\* The end of a known order is read and recorded if it comes while attempts are to spare
\* (reconcileLiveOrders; an order that rests longer than its attempts is never read again).
EndIsRecorded ==
    \A o \in Orders \ Unanswerable :
        (hasExchangeId[o] /\ Venue[o] # "oanda" /\ exch[o] \in ExchangeFinal /\ AttemptsToSpare(o))
            ~> fillFinal[o]
=============================================================================
