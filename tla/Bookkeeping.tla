---------------------------- MODULE Bookkeeping ----------------------------
(***************************************************************************)
(* The arithmetic of portfolioController: what a purchase makes of a       *)
(* position, what a sale leaves of it and earns, and what a column of two  *)
(* decimals keeps of a balance. Money is in integer units, CENT of which   *)
(* make a cent.                                                            *)
(***************************************************************************)
EXTENDS Integers

CONSTANTS CENT, None

ASSUME CentAssumption == CENT \in Nat \ {0}

Sides == {"long", "short"}
Sign(side) == IF side = "short" THEN -1 ELSE 1

\* A row of portfolio, with the columns that count.
Position == [amount : Nat \ {0}, average_entry : Nat]

\* A column keeps whole units: n / d to the nearest one.
Quotient(n, d) == (2 * n + d) \div (2 * d)

\* cash_balance is NUMERIC(20, 2): rounded to the nearest cent, halves away from zero.
Nearest(x) == Quotient(x, CENT) * CENT
Cents(x) == IF x >= 0 THEN Nearest(x) ELSE -Nearest(-x)

\* What p is after qty more at price.
MeanOfPrices(p, qty, price) ==
    IF p = None THEN [amount |-> qty, average_entry |-> price]
    ELSE [amount |-> p.amount + qty, average_entry |-> Quotient(p.average_entry + price, 2)]
Enlarged(p, qty, price) ==
    IF p = None THEN [amount |-> qty, average_entry |-> price]
    ELSE LET amount == p.amount + qty
         IN  [amount |-> amount,
              average_entry |-> Quotient(p.amount * p.average_entry + qty * price, amount)]

\* What is left of p when qty of it is closed.
Reduced(p, qty) == IF qty = p.amount THEN None ELSE [p EXCEPT !.amount = @ - qty]

\* pnl of closing qty of p at price.
Earned(side, p, qty, price) ==
    IF p.average_entry > 0 THEN Sign(side) * (price - p.average_entry) * qty ELSE 0
=============================================================================
