------------------------------ MODULE Portfolio ------------------------------
(***************************************************************************)
(* portfolioController: one user's concurrent requests to open, close and  *)
(* reduce a position and to set the cash, each a transaction that locks    *)
(* rows of accounts and portfolio one after the other. The positions are   *)
(* those of one symbol, a long and a short one. What a transaction wrote   *)
(* is seen by the others when it commits (READ COMMITTED).                 *)
(***************************************************************************)
EXTENDS Bookkeeping, FiniteSets, Functions

CONSTANTS
    Adds,           \* POST /position
    Closes,         \* DELETE /position/:symbol/:side and POST .../reduce
    CashEdits,      \* PATCH /cash
    Side, Qty,      \* of an add or a close; Qty[r] = None closes everything
    Price,          \* averageEntry of an add, exitPrice of a close, or the market's
    Balance,        \* cashBalance of an edit
    OPENING_CASH,   \* 10000
    MaxFaults

Requests == Adds \cup Closes \cup CashEdits
Rows == Sides \cup {"account"}

ASSUME RequestsAssumption ==
    /\ IsFiniteSet(Requests) /\ None \notin Requests
    /\ Adds \cap Closes = {} /\ CashEdits \cap (Adds \cup Closes) = {}
    /\ Side \in [Adds \cup Closes -> Sides]
    /\ Price \in [Adds \cup Closes -> Nat \ {0}]
    /\ Qty \in [Adds \cup Closes -> (Nat \ {0}) \cup {None}]
    /\ \A r \in Adds : Qty[r] # None
    /\ Balance \in [CashEdits -> Int]
    /\ OPENING_CASH \in Int
    /\ None \notin Int \cup Position
    /\ MaxFaults \in Nat

VARIABLES
    \* committed rows
    cash,       \* cash_balance, None before the account's row exists
    position,   \* position[side]: the row of portfolio, or None
    trades,     \* trades[r]: pnl of the row of trades that r wrote, or None
    \* row locks
    owner,      \* owner[row]: the transaction that locked or inserted row, or None
    \* requests
    stage,      \* stage[r]: what r does next, or how it ended
    read,       \* read[r]: the position r read under FOR UPDATE, or None
    \* observer: what was paid in, as far as the commits tell
    deposits,
    faults

tables == <<cash, position, trades>>
vars == <<tables, owner, stage, read, deposits, faults>>

Funds == IF cash = None THEN OPENING_CASH ELSE cash

\* "failed": answered 400, 404, 500 or 502, nothing was changed. "lost": committed, but the answer of
\* COMMIT did not come back, and the user was told 500.
Ended == {"done", "failed", "lost"}

Init ==
    /\ cash = None
    /\ position = [side \in Sides |-> None]
    /\ trades = [r \in Requests |-> None]
    /\ owner = [row \in Rows |-> None]
    /\ stage = [r \in Requests |-> IF r \in Adds THEN "ensure" ELSE IF r \in Closes THEN "read" ELSE "set"]
    /\ read = [r \in Requests |-> None]
    /\ deposits = 0
    /\ faults = 0

Fault == faults < MaxFaults /\ faults' = faults + 1

Move(r, s) == stage' = [stage EXCEPT ![r] = s]
Take(r, row) == owner[row] \in {None, r} /\ owner' = [owner EXCEPT ![row] = r]

\* COMMIT or ROLLBACK: r is over, gives its locks back and forgets what it read.
End(r, s) ==
    /\ Move(r, s)
    /\ read' = [read EXCEPT ![r] = None]
    /\ owner' = [row \in Rows |-> IF owner[row] = r THEN None ELSE owner[row]]

-----------------------------------------------------------------------------
(* Both kinds of transactions                                              *)

\* INSERT INTO accounts ... ON CONFLICT DO NOTHING waits only for an insertion not yet committed.
EnsureAccount(r) ==
    /\ stage[r] = "ensure"
    /\ IF cash = None THEN Take(r, "account") ELSE UNCHANGED owner
    /\ Move(r, IF r \in Adds THEN "account" ELSE "credit")
    /\ UNCHANGED <<tables, read, deposits, faults>>

\* A check failed: ROLLBACK, and 400 or 404.
RollbackForgotten(r) ==
    /\ stage[r] = "rollback"
    /\ Move(r, "failed")
    /\ UNCHANGED <<tables, owner, read, deposits, faults>>
Rollback(r) ==
    /\ stage[r] = "rollback"
    /\ End(r, "failed")
    /\ UNCHANGED <<tables, deposits, faults>>

(* addPosition                                                             *)

\* What the transaction read of the account does not pay for the position.
TooDear(r) == Side[r] = "long" /\ Qty[r] * Price[r] > Funds

\* SELECT cash_balance ... FOR UPDATE, and ROLLBACK when a long position costs more.
LockAccount(r) ==
    /\ stage[r] = "account" /\ Take(r, "account")
    /\ Move(r, IF TooDear(r) THEN "rollback" ELSE "row")
    /\ UNCHANGED <<tables, read, deposits, faults>>

\* SELECT amount, average_entry ... FOR UPDATE: a row that is not there is not locked.
LockRow(r) ==
    /\ stage[r] = "row"
    /\ IF position[Side[r]] = None THEN UNCHANGED owner ELSE Take(r, Side[r])
    /\ read' = [read EXCEPT ![r] = position[Side[r]]]
    /\ Move(r, "upsert")
    /\ UNCHANGED <<tables, deposits, faults>>

\* INSERT INTO portfolio ... ON CONFLICT DO UPDATE, and the UPDATE of the account that is locked.
Upsert(r) ==
    /\ stage[r] = "upsert" /\ Take(r, Side[r])
    /\ Move(r, "commit")
    /\ UNCHANGED <<tables, read, deposits, faults>>

\* What the account's row was worth before the commit counts as paid in when the commit creates it.
Deposit(amount) == deposits' = deposits + amount
OpeningDeposit == Deposit(IF cash = None THEN OPENING_CASH ELSE 0)

\* The amount and the average were computed from the row as it was read.
CommitAdd(r, s) ==
    /\ r \in Adds /\ stage[r] = "commit"
    /\ cash' = Cents(Funds - Sign(Side[r]) * (Qty[r] * Price[r]))
    /\ position' = [position EXCEPT ![Side[r]] = Enlarged(read[r], Qty[r], Price[r])]
    /\ OpeningDeposit
    /\ End(r, s)
    /\ UNCHANGED trades

-----------------------------------------------------------------------------
(* executeClose                                                            *)

\* The position is looked up, and a price for it, before the transaction: 404, 502, or go on.
ReadPosition(r) ==
    /\ stage[r] = "read"
    /\ \/ position[Side[r]] # None /\ Move(r, "lock")
       \/ Move(r, "failed")
    /\ UNCHANGED <<tables, owner, read, deposits, faults>>

PositionReadUnlocked(r) ==
    /\ stage[r] = "lock"
    /\ Move(r, IF position[Side[r]] = None THEN "rollback" ELSE "ensure")
    /\ read' = [read EXCEPT ![r] = position[Side[r]]]
    /\ UNCHANGED <<tables, owner, deposits, faults>>

\* SELECT ... FOR UPDATE: go on if the row is still there and holds what is to be closed.
LockPosition(r) ==
    /\ stage[r] = "lock"
    /\ LET held == position[Side[r]] IN
          /\ IF held = None THEN UNCHANGED owner ELSE Take(r, Side[r])
          /\ read' = [read EXCEPT ![r] = held]
          /\ \/ /\ held # None
                /\ Qty[r] # None => Qty[r] <= held.amount
                /\ Move(r, "ensure")
             \/ /\ held # None => Qty[r] # None /\ Qty[r] > held.amount
                /\ Move(r, "rollback")
    /\ UNCHANGED <<tables, deposits, faults>>

\* UPDATE accounts SET cash_balance = cash_balance + $2
Credit(r) ==
    /\ stage[r] = "credit" /\ Take(r, "account")
    /\ Move(r, "commit")
    /\ UNCHANGED <<tables, read, deposits, faults>>

ClosedQty(r) == IF Qty[r] = None THEN read[r].amount ELSE Qty[r]

\* The row of trades, the position's deletion or reduction and the cash become visible together.
CommitClose(r, s) ==
    /\ r \in Closes /\ stage[r] = "commit"
    /\ cash' = Cents(Funds + Sign(Side[r]) * (ClosedQty(r) * Price[r]))
    /\ position' = [position EXCEPT ![Side[r]] = Reduced(read[r], ClosedQty(r))]
    /\ trades' = [trades EXCEPT ![r] = Earned(Side[r], read[r], ClosedQty(r), Price[r])]
    /\ OpeningDeposit
    /\ End(r, s)

-----------------------------------------------------------------------------
(* updateCash: one statement                                               *)

SetCash(r, s) ==
    /\ stage[r] = "set" /\ owner["account"] = None
    /\ cash' = Cents(Balance[r])
    /\ Deposit(Cents(Balance[r]) - (IF cash = None THEN 0 ELSE cash))
    /\ Move(r, s)
    /\ UNCHANGED <<position, trades, owner, read>>

-----------------------------------------------------------------------------
(* The database and the network                                            *)

\* The rows that the next statement of r has to lock.
WantsAccount(r) ==
    \/ stage[r] \in {"account", "credit", "set"}
    \/ stage[r] = "ensure" /\ cash = None
WantsPosition(r) ==
    \/ stage[r] = "upsert"
    \/ stage[r] \in {"row", "lock"} /\ position[Side[r]] # None
Wanted(r) ==
    {row \in Rows : \/ row = "account" /\ WantsAccount(r)
                    \/ r \notin CashEdits /\ row = Side[r] /\ WantsPosition(r)}

WaitsFor(r, q) == q # r /\ \E row \in Wanted(r) : owner[row] = q

\* r and another transaction wait for each other. Longer circles do not arise: only an addition that
\* holds the account waits while others wait for it.
Deadlocked(r) == \E q \in Requests : WaitsFor(r, q) /\ WaitsFor(q, r)

\* After deadlock_timeout the database aborts one of them; the handler rolls back and answers 500.
DeadlockAbort(r) ==
    /\ Deadlocked(r)
    /\ End(r, "failed")
    /\ UNCHANGED <<tables, deposits, faults>>

\* A statement fails, the connection breaks or the process stops: what r wrote is rolled back.
Fail(r) ==
    /\ stage[r] \notin Ended /\ Fault
    /\ End(r, "failed")
    /\ UNCHANGED <<tables, deposits>>

\* The transaction commits and nobody hears of it.
CommitUnheard(r) ==
    /\ Fault
    /\ CommitAdd(r, "lost") \/ CommitClose(r, "lost") \/ SetCash(r, "lost")

-----------------------------------------------------------------------------
Commit(r) ==
    /\ CommitAdd(r, "done") \/ CommitClose(r, "done") \/ SetCash(r, "done")
    /\ UNCHANGED faults

\* r sends its next statement.
Advance(r) ==
    \/ EnsureAccount(r) \/ LockAccount(r) \/ LockRow(r) \/ Upsert(r)
    \/ ReadPosition(r) \/ LockPosition(r) \/ Credit(r)
    \/ Rollback(r)
    \/ Commit(r)

Next ==
    \/ \E r \in Requests : Advance(r) \/ DeadlockAbort(r) \/ Fail(r) \/ CommitUnheard(r)
    \/ (\A r \in Requests : stage[r] \in Ended) /\ UNCHANGED vars

Spec == Init /\ [][Next]_vars

\* As long as a statement can be executed or a deadlock be broken, one of them is.
Fairness == WF_vars(\E r \in Requests : Advance(r) \/ DeadlockAbort(r))

FairSpec == Spec /\ Fairness

-----------------------------------------------------------------------------
(* Properties                                                              *)

Stages == {"ensure", "account", "row", "upsert", "read", "lock", "credit", "commit", "rollback", "set"} \cup Ended

\* Every variable keeps its type.
TypeOK ==
    /\ cash \in Int \cup {None}
    /\ position \in [Sides -> Position \cup {None}]
    /\ trades \in [Requests -> Int \cup {None}]
    /\ owner \in [Rows -> Requests \cup {None}]
    /\ stage \in [Requests -> Stages]
    /\ read \in [Requests -> Position \cup {None}]
    /\ deposits \in Int /\ faults \in Nat

\* A request is at a stage of its own kind.
StageInv ==
    \A r \in Requests :
        /\ stage[r] \in {"account", "row", "upsert"} => r \in Adds
        /\ stage[r] \in {"read", "lock", "credit"} => r \in Closes
        /\ stage[r] \in {"ensure", "commit", "rollback"} => r \in Adds \cup Closes
        /\ stage[r] = "set" => r \in CashEdits

\* An addition past its check still has the cash it counted on and the row it read.
AddInv ==
    \A r \in Adds :
        /\ stage[r] \in {"row", "upsert", "commit"} =>
              /\ owner["account"] = r
              /\ Side[r] = "long" => Qty[r] * Price[r] <= Funds
        /\ stage[r] \in {"upsert", "commit"} => read[r] = position[Side[r]]
        /\ stage[r] = "commit" => owner[Side[r]] = r

\* A closing past its check still has the row it read, which holds what it closes.
CloseInv ==
    \A r \in Closes :
        /\ stage[r] \in {"ensure", "credit", "commit"} =>
              /\ owner[Side[r]] = r
              /\ read[r] # None /\ read[r] = position[Side[r]]
              /\ ClosedQty(r) \in 1..read[r].amount
        /\ stage[r] = "commit" => owner["account"] = r

IInv == TypeOK /\ StageInv /\ AddInv /\ CloseInv

\* The transactions are serializable: the tables change as if each request that committed had run
\* alone at that moment, an addition paid from what was there, a closing of no more than was held.
Applied == {r \in Requests : stage[r] \in {"done", "lost"}}
Books == INSTANCE Ledger WITH applied <- Applied
ImplementsLedger == Books!Spec

\* What the position of a side cost, or what a short one brought in.
Cost(side) ==
    IF position[side] = None THEN 0
    ELSE Sign(side) * (position[side].amount * position[side].average_entry)
Result == SumFunctionOnSet(trades, {r \in Requests : trades[r] # None})

\* The account, the positions at cost and the results of trades say the same: what was paid in is
\* the cash, plus what the longs cost, minus what the shorts brought in, minus what was earned; each
\* commit may be off by the half cent that its rounding takes.
Imbalance == (IF cash = None THEN 0 ELSE cash) + Cost("long") + Cost("short") - Result - deposits
BooksBalance == 2 * Imbalance \in -(CENT * Cardinality(Applied))..(CENT * Cardinality(Applied))

(* What the books rest on *)

\* BooksBalance takes for granted that the average of every addition is a whole number of units.
WholeAverages ==
    \A r \in Adds : stage[r] = "commit" /\ read[r] # None =>
        (read[r].amount * read[r].average_entry + Qty[r] * Price[r]) % (read[r].amount + Qty[r]) = 0

\* Otherwise each addition may be off by half a unit for every piece that is held, of those ever bought.
Bought(S) == SumFunctionOnSet(Qty, S \cap Adds)
BooksNearlyBalance ==
    LET tolerance == CENT * Cardinality(Applied) + Bought(Adds) * Cardinality(Applied \cap Adds)
    IN  2 * Imbalance \in -tolerance..tolerance

\* Only a request that took effect has a result; no position was had for nothing, nor is larger than
\* what was bought.
PositionInv ==
    /\ \A r \in Requests : trades[r] # None => r \in Applied
    /\ \A side \in Sides : position[side] # None =>
          position[side].average_entry > 0 /\ position[side].amount <= Bought(Applied)

\* No request waits for ever, although additions lock the account before the position and closings
\* the position before the account.
RequestsEnd == <>(\A r \in Requests : stage[r] \in Ended)
=============================================================================
