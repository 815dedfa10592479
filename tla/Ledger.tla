------------------------------- MODULE Ledger -------------------------------
(***************************************************************************)
(* What the portfolio promises, with no transaction and no lock: every     *)
(* request takes effect at once and at most once, on the account and the   *)
(* positions as they are at that moment.                                   *)
(***************************************************************************)
EXTENDS Bookkeeping

CONSTANTS Adds, Closes, CashEdits, Side, Qty, Price, Balance, OPENING_CASH

VARIABLES cash, position, trades, applied

vars == <<cash, position, trades, applied>>
Requests == Adds \cup Closes \cup CashEdits
Funds == IF cash = None THEN OPENING_CASH ELSE cash

Init ==
    /\ cash = None
    /\ position = [side \in Sides |-> None]
    /\ trades = [r \in Requests |-> None]
    /\ applied = {}

\* A position is opened or enlarged. A long one is paid from the account, which must suffice.
Open(r) ==
    /\ Side[r] = "long" => Qty[r] * Price[r] <= Funds
    /\ cash' = Cents(Funds - Sign(Side[r]) * (Qty[r] * Price[r]))
    /\ position' = [position EXCEPT ![Side[r]] = Enlarged(@, Qty[r], Price[r])]
    /\ UNCHANGED trades

\* A position, or a part of it no larger than what is held, is closed; the result is kept.
Close(r) ==
    LET held == position[Side[r]] IN
    /\ held # None
    /\ \E qty \in 1..held.amount :
          /\ qty = IF Qty[r] = None THEN held.amount ELSE Qty[r]
          /\ cash' = Cents(Funds + Sign(Side[r]) * (qty * Price[r]))
          /\ position' = [position EXCEPT ![Side[r]] = Reduced(held, qty)]
          /\ trades' = [trades EXCEPT ![r] = Earned(Side[r], held, qty, Price[r])]

SetCash(r) ==
    /\ cash' = Cents(Balance[r])
    /\ UNCHANGED <<position, trades>>

Apply(r) ==
    /\ r \notin applied
    /\ applied' = applied \cup {r}
    /\ \/ r \in Adds /\ Open(r)
       \/ r \in Closes /\ Close(r)
       \/ r \in CashEdits /\ SetCash(r)

Next == \E r \in Requests : Apply(r)

Spec == Init /\ [][Next]_vars
=============================================================================
