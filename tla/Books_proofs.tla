----------------------------- MODULE Books_proofs -----------------------------
(***************************************************************************)
(* The books, of the portfolio and of a backtest.                          *)
(* Portfolio: the locks of a transaction protect what it read, and so the  *)
(* transactions implement the Ledger, for any requests, prices and faults; *)
(* and the books balance.                                                  *)
(* Backtest: every point of the curves is explained by trades, for any     *)
(* symbols, dates, prices and decisions of the strategy.                   *)
(***************************************************************************)
EXTENDS Portfolio, Backtest, SumTheorems, SequenceTheorems, TLAPS

-----------------------------------------------------------------------------
(* The arithmetic                                                          *)

\* Quotients of integers are integers, and natural numbers if the numerator is one.
LEMMA QuotientType ==
    ASSUME NEW d \in Nat \ {0}
    PROVE  /\ \A n \in Int : Quotient(n, d) \in Int
           /\ \A n \in Nat : Quotient(n, d) \in Nat
  <1>1. \A k \in Int : k \div (2 * d) \in Int
    <2>1. 2 * d \in Nat \ {0}
      BY SMT
    <2>. QED BY <2>1, SMT
  <1>2. \A k \in Nat : k \div (2 * d) \in Nat
    <2>1. 2 * d \in Nat \ {0}
      BY SMT
    <2>. QED BY <2>1, SMT
  <1>3. \A n \in Int : 2 * n + d \in Int
    BY SMT
  <1>4. \A n \in Nat : 2 * n + d \in Nat
    BY SMT
  <1>. QED BY <1>1, <1>2, <1>3, <1>4, Zenon DEF Quotient

\* Products of integers are integers, of natural numbers natural numbers.
LEMMA ProductType ==
    /\ \A m, n \in Int : m * n \in Int
    /\ \A m, n \in Nat : m * n \in Nat
  BY SMT

\* What a balance is rounded to is a balance.
LEMMA CentsType ==
    ASSUME NEW x \in Int
    PROVE  Cents(x) \in Int
  <1>1. \A y \in Int : Nearest(y) \in Int
    BY QuotientType, ProductType, CentAssumption DEF Nearest
  <1>2. -x \in Int
    BY SMT
  <1>. QED BY <1>1, <1>2, SMT DEF Cents

\* Buying more makes a position.
LEMMA EnlargedType ==
    ASSUME NEW p \in Position \cup {None}, NEW qty \in Nat \ {0}, NEW price \in Nat \ {0}
    PROVE  Enlarged(p, qty, price) \in Position
  <1>1. CASE p = None
    BY <1>1, SMT DEF Enlarged, Position
  <1>2. CASE p # None
    <2>1. p.amount \in Nat \ {0} /\ p.average_entry \in Nat
      BY <1>2 DEF Position
    <2>2. p.amount + qty \in Nat \ {0}
      BY <2>1, SMT
    <2>3. p.amount * p.average_entry + qty * price \in Nat
      <3>1. p.amount * p.average_entry \in Nat /\ qty * price \in Nat
        BY <2>1, ProductType
      <3>. QED BY <3>1, SMT
    <2>4. Quotient(p.amount * p.average_entry + qty * price, p.amount + qty) \in Nat
      BY <2>2, <2>3, QuotientType
    <2>. QED BY <1>2, <2>2, <2>4, Zenon DEF Enlarged, Position
  <1>. QED BY <1>1, <1>2

\* Closing no more than is held leaves a position or nothing.
LEMMA ReducedType ==
    ASSUME NEW p \in Position, NEW qty \in 1..p.amount
    PROVE  Reduced(p, qty) \in Position \cup {None}
  <1>1. CASE qty = p.amount
    BY <1>1 DEF Reduced
  <1>2. CASE qty # p.amount
    <2>1. p.amount - qty \in Nat \ {0}
      BY <1>2, SMT DEF Position
    <2>. QED BY <1>2, <2>1, SMT DEF Reduced, Position
  <1>. QED BY <1>1, <1>2

\* A result is a number.
LEMMA EarnedType ==
    ASSUME NEW side \in Sides, NEW p \in Position, NEW qty \in Int, NEW price \in Int
    PROVE  Earned(side, p, qty, price) \in Int
  <1>1. Sign(side) \in Int
    BY DEF Sign
  <1>2. p.average_entry \in Int /\ price - p.average_entry \in Int
    BY SMT DEF Position
  <1>3. Sign(side) * (price - p.average_entry) \in Int
    BY <1>1, <1>2, ProductType
  <1>4. Sign(side) * (price - p.average_entry) * qty \in Int
    BY <1>3, ProductType
  <1>. QED BY <1>4, SMT DEF Earned

-----------------------------------------------------------------------------
(* The inductive invariant                                                 *)

LEMMA InitInv == Init => IInv
  BY RequestsAssumption DEF Init, IInv, TypeOK, StageInv, AddInv, CloseInv, Stages, Ended, Sides, Requests, Rows

\* What a step of r leaves to the others when it ends r's transaction, or only moves r on.
LEMMA StatementInv ==
    ASSUME IInv, NEW r \in Requests,
           EnsureAccount(r) \/ LockAccount(r) \/ Upsert(r) \/ ReadPosition(r) \/ Credit(r)
    PROVE  IInv'
  <1>0. TypeOK /\ StageInv /\ AddInv /\ CloseInv
    BY DEF IInv
  <1>. USE DEF Take, Move, End, Ended, Rows, tables
  <1>1. CASE EnsureAccount(r)
    <2>1. TypeOK'
      BY <1>0, <1>1, SMT DEF TypeOK, EnsureAccount, Stages
    <2>2. StageInv'
      BY <1>0, <1>1, SMT DEF TypeOK, StageInv, EnsureAccount, Requests
    <2>3. AddInv'
      BY <1>0, <1>1, RequestsAssumption, SMT DEF TypeOK, StageInv, AddInv, EnsureAccount, Requests, Funds
    <2>4. CloseInv'
      BY <1>0, <1>1, RequestsAssumption, SMT DEF TypeOK, StageInv, CloseInv, EnsureAccount, Requests, ClosedQty, Sides
    <2>. QED BY <2>1, <2>2, <2>3, <2>4 DEF IInv
  <1>2. CASE LockAccount(r)
    <2>1. TypeOK'
      BY <1>0, <1>2, SMT DEF TypeOK, LockAccount, Stages
    <2>2. StageInv'
      BY <1>0, <1>2, SMT DEF TypeOK, StageInv, LockAccount, Requests
    <2>3. AddInv'
      BY <1>0, <1>2, RequestsAssumption, SMT DEF TypeOK, StageInv, AddInv, LockAccount, TooDear, Requests, Funds
    <2>4. CloseInv'
      BY <1>0, <1>2, RequestsAssumption, SMT DEF TypeOK, StageInv, CloseInv, LockAccount, Requests, ClosedQty, Sides
    <2>. QED BY <2>1, <2>2, <2>3, <2>4 DEF IInv
  <1>3. CASE Upsert(r)
    <2>1. TypeOK'
      BY <1>0, <1>3, RequestsAssumption, SMT DEF TypeOK, StageInv, Upsert, Stages, Sides
    <2>2. StageInv'
      BY <1>0, <1>3, SMT DEF TypeOK, StageInv, Upsert, Requests
    <2>3. AddInv'
      BY <1>0, <1>3, RequestsAssumption, SMT DEF TypeOK, StageInv, AddInv, Upsert, Requests, Funds, Sides
    <2>4. CloseInv'
      BY <1>0, <1>3, RequestsAssumption, SMT DEF TypeOK, StageInv, CloseInv, Upsert, Requests, ClosedQty, Sides
    <2>. QED BY <2>1, <2>2, <2>3, <2>4 DEF IInv
  <1>4. CASE ReadPosition(r)
    <2>1. TypeOK'
      BY <1>0, <1>4, SMT DEF TypeOK, ReadPosition, Stages
    <2>2. StageInv'
      BY <1>0, <1>4, SMT DEF TypeOK, StageInv, ReadPosition, Requests
    <2>3. AddInv'
      BY <1>0, <1>4, RequestsAssumption, SMT DEF TypeOK, StageInv, AddInv, ReadPosition, Requests, Funds
    <2>4. CloseInv'
      BY <1>0, <1>4, RequestsAssumption, SMT DEF TypeOK, StageInv, CloseInv, ReadPosition, Requests, ClosedQty
    <2>. QED BY <2>1, <2>2, <2>3, <2>4 DEF IInv
  <1>5. CASE Credit(r)
    <2>1. TypeOK'
      BY <1>0, <1>5, SMT DEF TypeOK, Credit, Stages
    <2>2. StageInv'
      BY <1>0, <1>5, SMT DEF TypeOK, StageInv, Credit, Requests
    <2>3. AddInv'
      BY <1>0, <1>5, RequestsAssumption, SMT DEF TypeOK, StageInv, AddInv, Credit, Requests, Funds, Sides
    <2>4. CloseInv'
      BY <1>0, <1>5, RequestsAssumption, SMT DEF TypeOK, StageInv, CloseInv, Credit, Requests, ClosedQty, Sides
    <2>. QED BY <2>1, <2>2, <2>3, <2>4 DEF IInv
  <1>. QED BY <1>1, <1>2, <1>3, <1>4, <1>5

\* A transaction that takes a position reads what is committed.
LEMMA ReadInv ==
    ASSUME IInv, NEW r \in Requests, LockRow(r) \/ LockPosition(r)
    PROVE  IInv'
  <1>0. TypeOK /\ StageInv /\ AddInv /\ CloseInv
    BY DEF IInv
  <1>. USE DEF Take, Move, End, Ended, Rows, tables
  <1>1. CASE LockRow(r)
    <2>1. TypeOK'
      BY <1>0, <1>1, RequestsAssumption, SMT DEF TypeOK, StageInv, LockRow, Stages, Sides
    <2>2. StageInv'
      BY <1>0, <1>1, RequestsAssumption, SMT DEF TypeOK, StageInv, LockRow, Requests
    <2>3. AddInv'
      BY <1>0, <1>1, RequestsAssumption, SMT DEF TypeOK, StageInv, AddInv, CloseInv, LockRow, Requests, Funds, Sides
    <2>4. CloseInv'
      BY <1>0, <1>1, RequestsAssumption, SMT DEF TypeOK, StageInv, AddInv, CloseInv, LockRow, Requests, ClosedQty, Sides
    <2>. QED BY <2>1, <2>2, <2>3, <2>4 DEF IInv
  <1>2. CASE LockPosition(r)
    <2>1. TypeOK'
      BY <1>0, <1>2, RequestsAssumption, SMT DEF TypeOK, StageInv, LockPosition, Stages, Sides, Position
    <2>2. StageInv'
      BY <1>0, <1>2, RequestsAssumption, SMT DEF TypeOK, StageInv, LockPosition, Requests, Position
    <2>3. AddInv'
      BY <1>0, <1>2, RequestsAssumption, SMT DEF TypeOK, StageInv, AddInv, CloseInv,
         LockPosition, Requests, Funds, Sides, Position
    <2>4. CloseInv'
      BY <1>0, <1>2, RequestsAssumption, SMT DEF TypeOK, StageInv, AddInv, CloseInv,
         LockPosition, Requests, ClosedQty, Sides, Position
    <2>. QED BY <2>1, <2>2, <2>3, <2>4 DEF IInv
  <1>. QED BY <1>1, <1>2

\* A transaction that ends leaves the rows of the others alone.
LEMMA RollbackInv ==
    ASSUME IInv, NEW r \in Requests, DeadlockAbort(r) \/ Fail(r) \/ Rollback(r)
    PROVE  IInv'
  <1>0. TypeOK /\ StageInv /\ AddInv /\ CloseInv
    BY DEF IInv
  <1>1. End(r, "failed") /\ UNCHANGED <<tables, deposits>> /\ faults' \in Nat
    BY <1>0, SMT DEF DeadlockAbort, Fail, Rollback, Fault, TypeOK
  <1>. USE DEF Move, End, Ended, Rows, tables
  <1>2. TypeOK'
    BY <1>0, <1>1, RequestsAssumption, SMT DEF TypeOK, StageInv, Requests, Stages, Sides
  <1>3. StageInv'
    BY <1>0, <1>1, RequestsAssumption, SMT DEF TypeOK, StageInv, Requests
  <1>4. AddInv'
    BY <1>0, <1>1, RequestsAssumption, SMT DEF TypeOK, StageInv, AddInv, CloseInv, Requests, Funds, Sides
  <1>5. CloseInv'
    BY <1>0, <1>1, RequestsAssumption, SMT DEF TypeOK, StageInv, AddInv, CloseInv, Requests, ClosedQty, Sides
  <1>. QED BY <1>2, <1>3, <1>4, <1>5 DEF IInv

\* What an addition commits are rows of their types.
LEMMA AddTypes ==
    ASSUME IInv, NEW r \in Adds, stage[r] = "commit"
    PROVE  /\ Cents(Funds - Sign(Side[r]) * (Qty[r] * Price[r])) \in Int
           /\ Enlarged(read[r], Qty[r], Price[r]) \in Position
  <1>1. Qty[r] \in Nat \ {0} /\ Price[r] \in Nat \ {0} /\ Side[r] \in Sides
    BY RequestsAssumption
  <1>2. Funds \in Int
    BY RequestsAssumption DEF IInv, TypeOK, Funds
  <1>3. Qty[r] * Price[r] \in Int
    BY <1>1, ProductType
  <1>4. Sign(Side[r]) * (Qty[r] * Price[r]) \in Int
    BY <1>3, ProductType DEF Sign
  <1>5. Funds - Sign(Side[r]) * (Qty[r] * Price[r]) \in Int
    BY <1>2, <1>4, SMT
  <1>6. read[r] \in Position \cup {None}
    BY DEF IInv, TypeOK, Requests
  <1>. QED BY <1>1, <1>5, <1>6, CentsType, EnlargedType

\* What a closing commits are rows of their types.
LEMMA CloseTypes ==
    ASSUME IInv, NEW r \in Closes, stage[r] = "commit"
    PROVE  /\ Cents(Funds + Sign(Side[r]) * (ClosedQty(r) * Price[r])) \in Int
           /\ Reduced(read[r], ClosedQty(r)) \in Position \cup {None}
           /\ Earned(Side[r], read[r], ClosedQty(r), Price[r]) \in Int
  <1>1. Price[r] \in Int /\ Side[r] \in Sides
    BY RequestsAssumption
  <1>2. Funds \in Int
    BY RequestsAssumption DEF IInv, TypeOK, Funds
  <1>3. read[r] \in Position /\ ClosedQty(r) \in 1..read[r].amount
    BY DEF IInv, TypeOK, CloseInv, Requests
  <1>4. ClosedQty(r) \in Int
    BY <1>3
  <1>5. ClosedQty(r) * Price[r] \in Int
    BY <1>1, <1>4, ProductType
  <1>6. Sign(Side[r]) * (ClosedQty(r) * Price[r]) \in Int
    BY <1>5, ProductType DEF Sign
  <1>7. Funds + Sign(Side[r]) * (ClosedQty(r) * Price[r]) \in Int
    BY <1>2, <1>6, SMT
  <1>. QED BY <1>1, <1>3, <1>4, <1>7, CentsType, ReducedType, EarnedType

\* A commit changes rows that its transaction locked, and so nothing that another one read.
LEMMA CommitInv ==
    ASSUME IInv, NEW r \in Requests, NEW s \in {"done", "lost"}, faults' \in Nat,
           CommitAdd(r, s) \/ CommitClose(r, s) \/ SetCash(r, s)
    PROVE  IInv'
  <1>0. TypeOK /\ StageInv /\ AddInv /\ CloseInv
    BY DEF IInv
  <1>. USE DEF Move, End, Ended, Rows
  <1>1. CASE CommitAdd(r, s)
    <2>1. cash' \in Int /\ position' \in [Sides -> Position \cup {None}] /\ deposits' \in Int
      BY <1>0, <1>1, AddTypes, RequestsAssumption, SMT
         DEF TypeOK, CommitAdd, OpeningDeposit, Deposit, Sides
    <2>2. TypeOK'
      BY <1>0, <1>1, <2>1, SMT DEF TypeOK, CommitAdd, Stages
    <2>3. StageInv'
      BY <1>0, <1>1, SMT DEF TypeOK, StageInv, CommitAdd, Requests
    <2>4. AddInv'
      BY <1>0, <1>1, RequestsAssumption, SMT DEF TypeOK, StageInv, AddInv, CommitAdd, Requests
    <2>5. CloseInv'
      BY <1>0, <1>1, RequestsAssumption, SMT DEF TypeOK, AddInv, CloseInv, CommitAdd, Requests, ClosedQty, Sides
    <2>. QED BY <2>2, <2>3, <2>4, <2>5 DEF IInv
  <1>2. CASE CommitClose(r, s)
    <2>1. /\ cash' \in Int /\ position' \in [Sides -> Position \cup {None}] /\ deposits' \in Int
          /\ trades' \in [Requests -> Int \cup {None}]
      BY <1>0, <1>2, CloseTypes, RequestsAssumption, SMT
         DEF TypeOK, CommitClose, OpeningDeposit, Deposit, Sides
    <2>2. TypeOK'
      BY <1>0, <1>2, <2>1, SMT DEF TypeOK, CommitClose, Stages
    <2>3. StageInv'
      BY <1>0, <1>2, SMT DEF TypeOK, StageInv, CommitClose, Requests
    <2>4. AddInv'
      BY <1>0, <1>2, RequestsAssumption, SMT DEF TypeOK, StageInv, AddInv, CloseInv, CommitClose, Requests
    <2>5. CloseInv'
      BY <1>0, <1>2, RequestsAssumption, SMT DEF TypeOK, CloseInv, CommitClose, Requests, ClosedQty, Sides
    <2>. QED BY <2>2, <2>3, <2>4, <2>5 DEF IInv
  <1>3. CASE SetCash(r, s)
    <2>1. cash' \in Int /\ deposits' \in Int
      <3>1. r \in CashEdits
        BY <1>0, <1>3 DEF StageInv, SetCash
      <3>2. Balance[r] \in Int
        BY <3>1, RequestsAssumption
      <3>3. Cents(Balance[r]) \in Int
        BY <3>2, CentsType
      <3>. QED BY <1>0, <1>3, <3>3, SMT DEF TypeOK, SetCash, Deposit
    <2>2. TypeOK'
      BY <1>0, <1>3, <2>1, SMT DEF TypeOK, SetCash, Stages
    <2>3. StageInv'
      BY <1>0, <1>3, SMT DEF TypeOK, StageInv, SetCash, Requests
    <2>4. AddInv'
      BY <1>0, <1>3, RequestsAssumption, SMT DEF TypeOK, StageInv, AddInv, SetCash, Requests
    <2>5. CloseInv'
      BY <1>0, <1>3, RequestsAssumption, SMT DEF TypeOK, StageInv, CloseInv, SetCash, Requests, ClosedQty
    <2>. QED BY <2>2, <2>3, <2>4, <2>5 DEF IInv
  <1>. QED BY <1>1, <1>2, <1>3

LEMMA StepInv == IInv /\ [Next]_vars => IInv'
  <1> SUFFICES ASSUME IInv, [Next]_vars PROVE IInv'
    OBVIOUS
  <1>1. CASE UNCHANGED vars
    BY <1>1, SMT DEF vars, tables, IInv, TypeOK, StageInv, AddInv, CloseInv, ClosedQty, Funds
  <1>2. ASSUME NEW r \in Requests, Advance(r) PROVE IInv'
    <2>1. CASE Commit(r)
      BY <2>1, CommitInv, SMT DEF Commit, IInv, TypeOK
    <2>. QED BY <1>2, <2>1, StatementInv, ReadInv, RollbackInv DEF Advance
  <1>3. ASSUME NEW r \in Requests, DeadlockAbort(r) \/ Fail(r) PROVE IInv'
    BY <1>3, RollbackInv
  <1>4. ASSUME NEW r \in Requests, CommitUnheard(r) PROVE IInv'
    BY <1>4, CommitInv, SMT DEF CommitUnheard, Fault, IInv, TypeOK
  <1>. QED BY <1>1, <1>2, <1>3, <1>4 DEF Next

\* In every reachable state the variables have their types, and a transaction past its check still
\* has the cash and the position that it counted on (portfolioController, addPosition, executeClose).
THEOREM InvCorrect == Spec => []IInv
  <1>. QED BY InitInv, StepInv, PTL DEF Spec

\* Every variable keeps its type.
THEOREM TypeCorrect == Spec => []TypeOK
  <1>1. IInv => TypeOK
    BY DEF IInv
  <1>. QED BY <1>1, InvCorrect, PTL

-----------------------------------------------------------------------------
(* Refinement                                                              *)

\* The ledger computes as the controller does.
LEMMA SameArithmetic ==
    /\ \A x : Books!Cents(x) = Cents(x)
    /\ \A p, q, x : Books!Enlarged(p, q, x) = Enlarged(p, q, x)
    /\ \A p, q : Books!Reduced(p, q) = Reduced(p, q)
    /\ \A side, p, q, x : Books!Earned(side, p, q, x) = Earned(side, p, q, x)
    /\ \A side : Books!Sign(side) = Sign(side)
    /\ Books!Sides = Sides /\ Books!Requests = Requests /\ Books!Funds = Funds
  BY Zenon DEF Books!Cents, Cents, Books!Nearest, Nearest, Books!Quotient, Quotient, Books!Enlarged, Enlarged,
     Books!Reduced, Reduced, Books!Earned, Earned, Books!Sign, Sign, Books!Sides, Sides,
     Books!Requests, Requests, Books!Funds, Funds

\* A step that commits nothing is invisible in the ledger.
LEMMA QuietStep ==
    ASSUME IInv, NEW r \in Requests, stage[r] \notin {"done", "lost"}, UNCHANGED tables,
           NEW s \in Stages \ {"done", "lost"}, Move(r, s)
    PROVE  UNCHANGED Books!vars
  <1>1. Applied' = Applied
    BY SMT DEF Applied, Move, IInv, TypeOK
  <1>. QED BY <1>1 DEF Books!vars, tables

\* A step that commits is a step of the ledger.
LEMMA CommitStep ==
    ASSUME IInv, NEW r \in Requests, NEW s \in {"done", "lost"},
           CommitAdd(r, s) \/ CommitClose(r, s) \/ SetCash(r, s)
    PROVE  Books!Next
  <1>0. TypeOK /\ StageInv /\ AddInv /\ CloseInv
    BY DEF IInv
  <1>1. r \notin Applied /\ Applied' = Applied \cup {r}
    BY <1>0, SMT DEF Applied, CommitAdd, CommitClose, SetCash, End, Move, TypeOK
  <1>2. CASE CommitAdd(r, s)
    <2>1. r \in Adds /\ Side[r] \in Sides
      BY <1>2, RequestsAssumption DEF CommitAdd
    <2>2. /\ read[r] = position[Side[r]]
          /\ Side[r] = "long" => Qty[r] * Price[r] <= Funds
      BY <1>0, <1>2, <2>1 DEF AddInv, CommitAdd
    <2>3. Books!Open(r)
      BY <1>0, <1>2, <2>1, <2>2, SameArithmetic, Zenon DEF Books!Open, CommitAdd, TypeOK
    <2>. QED BY <1>1, <2>1, <2>3, SameArithmetic DEF Books!Next, Books!Apply
  <1>3. CASE CommitClose(r, s)
    <2>1. r \in Closes
      BY <1>3 DEF CommitClose
    <2>2. /\ read[r] # None /\ read[r] = position[Side[r]]
          /\ ClosedQty(r) \in 1..read[r].amount
      BY <1>0, <1>3, <2>1 DEF CloseInv, CommitClose
    <2>3. Books!Close(r)
      BY <1>3, <2>2, SameArithmetic, Zenon DEF Books!Close, CommitClose, ClosedQty
    <2>. QED BY <1>1, <2>1, <2>3, SameArithmetic DEF Books!Next, Books!Apply
  <1>4. CASE SetCash(r, s)
    <2>1. r \in CashEdits
      BY <1>0, <1>4 DEF StageInv, SetCash
    <2>2. Books!SetCash(r)
      BY <1>4, SameArithmetic DEF Books!SetCash, SetCash
    <2>. QED BY <1>1, <2>1, <2>2, SameArithmetic DEF Books!Next, Books!Apply
  <1>. QED BY <1>2, <1>3, <1>4

\* The transactions of addPosition, executeClose and updateCash are serializable: whatever their
\* interleaving, deadlocks and failures, the tables change as the ledger says.
THEOREM Implements == Spec => ImplementsLedger
  <1>1. Init => Books!Init
    BY RequestsAssumption, SameArithmetic, SMT DEF Init, Books!Init, Applied, Requests
  <1>2. IInv /\ [Next]_vars => [Books!Next]_(Books!vars)
    <2> SUFFICES ASSUME IInv, [Next]_vars PROVE Books!Next \/ UNCHANGED Books!vars
      OBVIOUS
    <2>1. CASE UNCHANGED vars
      BY <2>1 DEF vars, tables, Books!vars, Applied
    <2>2. ASSUME NEW r \in Requests, Advance(r) PROVE Books!Next \/ UNCHANGED Books!vars
      <3>1. CASE Commit(r)
        BY <3>1, CommitStep DEF Commit
      <3>2. ASSUME ~Commit(r)
            PROVE  /\ stage[r] \notin {"done", "lost"} /\ UNCHANGED tables
                   /\ \E s \in Stages \ {"done", "lost"} : Move(r, s)
        BY <2>2, <3>2, SMT DEF Advance, EnsureAccount, LockAccount, LockRow, Upsert, ReadPosition,
           LockPosition, Credit, Rollback, End, Move, Stages, Ended, tables
      <3>. QED BY <3>1, <3>2, QuietStep
    <2>3. ASSUME NEW r \in Requests, DeadlockAbort(r) \/ Fail(r)
          PROVE  UNCHANGED Books!vars
      <3>1. /\ stage[r] \notin {"done", "lost"} /\ UNCHANGED tables /\ Move(r, "failed")
        BY <2>3, SMT DEF DeadlockAbort, Deadlocked, WaitsFor, Wanted, WantsAccount, WantsPosition,
            Fail, End, Ended, tables
      <3>. QED BY <3>1, QuietStep DEF Stages, Ended
    <2>4. ASSUME NEW r \in Requests, CommitUnheard(r) PROVE Books!Next
      BY <2>4, CommitStep DEF CommitUnheard
    <2>. QED BY <2>1, <2>2, <2>3, <2>4 DEF Next
  <1>. QED BY <1>1, <1>2, InvCorrect, PTL DEF Spec, ImplementsLedger, Books!Spec

-----------------------------------------------------------------------------
(* The books                                                               *)

\* What \div is.
LEMMA Division ==
    ASSUME NEW n \in Int, NEW d \in Nat \ {0}
    PROVE  n \div d \in Int /\ d * (n \div d) <= n /\ n < d * (n \div d) + d
  OBVIOUS

\* Laws of products, which the provers use only when told.
LEMMA Distributes == \A a, b, c \in Int : (a + b) * c = a * c + b * c /\ (a - b) * c = a * c - b * c
  BY SMT

\* Products may be taken in any order.
LEMMA Associates == \A a, b, c \in Int : (a * b) * c = a * (b * c)
  BY SMT

\* Factors may be exchanged.
LEMMA Commutes == \A a, b \in Int : a * b = b * a
  BY SMT

\* A product with a factor of one or more is no less than the other factor.
LEMMA Grows == \A m \in Nat \ {0}, n \in Nat \ {0} : m * n >= m
  BY SMT

\* A quotient is off by half a unit.
LEMMA QuotientNear ==
    ASSUME NEW n \in Int, NEW d \in Nat \ {0}
    PROVE  /\ Quotient(n, d) \in Int
           /\ 2 * (d * Quotient(n, d)) <= 2 * n + d /\ 2 * n < 2 * (d * Quotient(n, d)) + d
  <1> DEFINE q == Quotient(n, d)
  <1>1. q \in Int
    BY QuotientType
  <1>2. 2 * d \in Nat \ {0} /\ 2 * n + d \in Int
    BY SMT
  <1>3. q = (2 * n + d) \div (2 * d)
    BY DEF Quotient
  <1>. HIDE DEF q
  <1>4. (2 * d) * q <= 2 * n + d /\ 2 * n + d < (2 * d) * q + 2 * d
    BY <1>2, <1>3, Division
  <1>5. (2 * d) * q = 2 * (d * q) /\ d * q \in Int
    BY <1>1, Associates, ProductType
  <1>6. 2 * (d * q) <= 2 * n + d /\ 2 * n < 2 * (d * q) + d
    BY <1>4, <1>5, SMT
  <1>. QED BY <1>1, <1>6 DEF q

\* A whole quotient is exact.
LEMMA QuotientWhole ==
    ASSUME NEW n \in Int, NEW d \in Nat \ {0}, n % d = 0
    PROVE  d * Quotient(n, d) = n
  <1> DEFINE q == Quotient(n, d)
             k == n \div d
  <1>1. q \in Int /\ k \in Int /\ n = d * k
    <2>1. n = d * (n \div d)
      OBVIOUS
    <2>. QED BY <2>1, Division, QuotientType
  <1>2. 2 * (d * q) <= 2 * n + d /\ 2 * n < 2 * (d * q) + d
    BY QuotientNear
  <1>. HIDE DEF q, k
  <1>3. q = k
    <2>1. d * (q - k) = d * q - d * k /\ d * (k - q) = d * k - d * q
      BY <1>1, SMT
    <2>2. \A z \in Int : z >= 1 => d * z >= d
      BY SMT
    <2>3. ~(q - k >= 1)
      <3> SUFFICES ASSUME q - k >= 1 PROVE FALSE
        OBVIOUS
      <3>1. d * (q - k) >= d /\ d * q \in Int /\ d * k \in Int
        BY <1>1, <2>2, ProductType
      <3>. QED BY <1>1, <1>2, <2>1, <3>1, SMT
    <2>4. ~(k - q >= 1)
      <3> SUFFICES ASSUME k - q >= 1 PROVE FALSE
        OBVIOUS
      <3>1. d * (k - q) >= d /\ d * q \in Int /\ d * k \in Int
        BY <1>1, <2>2, ProductType
      <3>. QED BY <1>1, <1>2, <2>1, <3>1, SMT
    <2>. QED BY <1>1, <2>3, <2>4, SMT
  <1>. QED BY <1>1, <1>3 DEF q

\* A balance in cents is off by half a cent.
LEMMA CentsNear ==
    ASSUME NEW x \in Int
    PROVE  Cents(x) \in Int /\ 2 * (Cents(x) - x) \in -CENT .. CENT
  <1>0. CENT \in Nat \ {0}
    BY CentAssumption
  <1>1. ASSUME NEW y \in Int PROVE Nearest(y) \in Int /\ 2 * (Nearest(y) - y) \in -CENT .. CENT
    <2> DEFINE q == Quotient(y, CENT)
    <2>1. q \in Int /\ 2 * (CENT * q) <= 2 * y + CENT /\ 2 * y < 2 * (CENT * q) + CENT
      BY <1>0, QuotientNear
    <2>2. Nearest(y) = q * CENT
      BY DEF Nearest
    <2>. HIDE DEF q
    <2>3. Nearest(y) = CENT * q /\ CENT * q \in Int
      BY <1>0, <2>1, <2>2, Commutes, ProductType
    <2>. QED BY <1>0, <2>1, <2>3, SMT
  <1>2. -x \in Int
    BY SMT
  <1>3. /\ Nearest(x) \in Int /\ 2 * (Nearest(x) - x) \in -CENT .. CENT
        /\ Nearest(-x) \in Int /\ 2 * (Nearest(-x) - (-x)) \in -CENT .. CENT
    BY <1>1, <1>2
  <1>. QED BY <1>0, <1>3, SMT DEF Cents

\* The results, one more of them.
LEMMA ResultGrows ==
    ASSUME TypeOK, NEW r \in Requests, trades[r] = None, NEW e \in Int, trades' = [trades EXCEPT ![r] = e]
    PROVE  Result \in Int /\ Result' = Result + e
  <1> DEFINE S == {q \in Requests : trades[q] # None}
  <1>1. trades \in [Requests -> Int \cup {None}] /\ e # None
    BY RequestsAssumption DEF TypeOK
  <1>2. IsFiniteSet(S) /\ r \notin S
    <2>1. S \subseteq Requests /\ IsFiniteSet(Requests)
      BY RequestsAssumption
    <2>. QED BY <2>1, FS_Subset
  <1>3. {q \in Requests : trades'[q] # None} = S \cup {r}
    BY <1>1
  <1>4. \A q \in S : trades[q] \in Int /\ trades'[q] = trades[q]
    BY <1>1, <1>2
  <1>5. trades'[r] = e
    BY <1>1
  <1>6. Result' = SumFunctionOnSet(trades', S \cup {r})
    BY <1>3 DEF Result
  <1>7. Result = SumFunctionOnSet(trades, S)
    BY DEF Result
  <1>. HIDE DEF S
  <1>8. SumFunctionOnSet(trades', S \cup {r}) = e + SumFunctionOnSet(trades', S)
    <2>1. \A x \in S \cup {r} : trades'[x] \in Int
      BY <1>4, <1>5
    <2>2. SumFunctionOnSet(trades', S \cup {r}) = trades'[r] + SumFunctionOnSet(trades', S)
      BY <1>2, <2>1, SumAdd
    <2>. QED BY <1>5, <2>2
  <1>9. SumFunctionOnSet(trades', S) = SumFunctionOnSet(trades, S)
    BY <1>2, <1>4, SumSame
  <1>10. SumFunctionOnSet(trades, S) \in Int
    BY <1>2, <1>4, SumType
  <1>. QED BY <1>6, <1>7, <1>8, <1>9, <1>10, SMT

\* The total of the results is a number.
LEMMA ResultType == ASSUME TypeOK PROVE Result \in Int
  <1> DEFINE S == {q \in Requests : trades[q] # None}
  <1>1. IsFiniteSet(S)
    BY RequestsAssumption, FS_Subset
  <1>2. \A q \in S : trades[q] \in Int
    BY DEF TypeOK
  <1>. HIDE DEF S
  <1>3. SumFunctionOnSet(trades, S) \in Int
    BY <1>1, <1>2, SumType
  <1>. QED BY <1>3 DEF S, Result

\* So it is after a step.
LEMMA ResultTypeNext == ASSUME TypeOK' PROVE Result' \in Int
  <1> DEFINE S == {q \in Requests : trades'[q] # None}
  <1>1. IsFiniteSet(S)
    BY RequestsAssumption, FS_Subset
  <1>2. \A q \in S : trades'[q] \in Int
    BY DEF TypeOK
  <1>. HIDE DEF S
  <1>3. SumFunctionOnSet(trades', S) \in Int
    BY <1>1, <1>2, SumType
  <1>. QED BY <1>3 DEF S, Result

\* What a position costs is a number.
LEMMA CostType == ASSUME TypeOK, NEW side \in Sides PROVE Cost(side) \in Int
  <1>1. CASE position[side] # None
    <2>1. position[side].amount \in Int /\ position[side].average_entry \in Int
      BY <1>1 DEF TypeOK, Position
    <2>2. position[side].amount * position[side].average_entry \in Int
      BY <2>1, ProductType
    <2>. QED BY <1>1, <2>2, SMT DEF Cost, Sign
  <1>. QED BY <1>1 DEF Cost

\* So it is after a step.
LEMMA CostTypeNext == ASSUME TypeOK', NEW side \in Sides PROVE Cost(side)' \in Int
  <1>1. CASE position'[side] # None
    <2>1. position'[side].amount \in Int /\ position'[side].average_entry \in Int
      BY <1>1 DEF TypeOK, Position
    <2>2. position'[side].amount * position'[side].average_entry \in Int
      BY <2>1, ProductType
    <2>. QED BY <1>1, <2>2, SMT DEF Cost, Sign
  <1>. QED BY <1>1 DEF Cost

\* The imbalance is a number.
LEMMA ImbalanceType == ASSUME TypeOK PROVE Imbalance \in Int
  <1>1. /\ Cost("long") \in Int /\ Cost("short") \in Int /\ Result \in Int /\ deposits \in Int
        /\ (IF cash = None THEN 0 ELSE cash) \in Int
    BY CostType, ResultType DEF Sides, TypeOK
  <1>. QED BY <1>1, SMT DEF Imbalance

\* What p costs; and by how much, when it grows, that is more than before and what was paid.
CostOf(side, p) == IF p = None THEN 0 ELSE Sign(side) * (p.amount * p.average_entry)
Drift(side, p, qty, price) == CostOf(side, Enlarged(p, qty, price)) - CostOf(side, p) - Sign(side) * (qty * price)
IsWhole(p, qty, price) == p # None => (p.amount * p.average_entry + qty * price) % (p.amount + qty) = 0

\* A position that grows costs what was paid more, but for the rounding of its average.
LEMMA CostGrows ==
    ASSUME NEW side \in Sides, NEW p \in Position \cup {None}, p # None => p.average_entry > 0,
           NEW qty \in Nat \ {0}, NEW price \in Nat \ {0}
    PROVE  /\ Enlarged(p, qty, price).average_entry > 0
           /\ Drift(side, p, qty, price) \in Int
           /\ 2 * Drift(side, p, qty, price) \in -Enlarged(p, qty, price).amount..Enlarged(p, qty, price).amount
           /\ IsWhole(p, qty, price) => Drift(side, p, qty, price) = 0
  <1> DEFINE q == Enlarged(p, qty, price)
             n == p.amount * p.average_entry + qty * price
             d == p.amount + qty
  <1>0. qty * price \in Nat \ {0} /\ Sign(side) \in {1, -1}
    BY SMT DEF Sign
  <1>a. CostOf(side, q) = Sign(side) * (q.amount * q.average_entry)
    BY EnlargedType, RequestsAssumption DEF CostOf
  <1>1. CASE p = None
    <2>1. q = [amount |-> qty, average_entry |-> price]
      BY <1>1 DEF Enlarged
    <2>2. CostOf(side, q) = Sign(side) * (qty * price) /\ CostOf(side, p) = 0
      BY <1>1, <1>a, <2>1 DEF CostOf
    <2>3. Sign(side) * (qty * price) \in Int
      BY <1>0, SMT
    <2>4. Drift(side, p, qty, price) = 0
      BY <2>2, <2>3, SMT DEF Drift
    <2>5. 2 * 0 \in -q.amount..q.amount
      BY <2>1, SMT
    <2>. QED BY <2>1, <2>4, <2>5
  <1>2. CASE p # None
    <2>1. p.amount \in Nat \ {0} /\ p.average_entry \in Nat \ {0}
      BY <1>2 DEF Position
    <2>2. d \in Nat \ {0} /\ p.amount * p.average_entry \in Nat /\ n \in Nat
      BY <1>0, <2>1, ProductType, SMT
    <2>3. q.amount = d /\ q.average_entry = Quotient(n, d)
      BY <1>2 DEF Enlarged
    <2>4. n >= d
      <3>1. p.amount * p.average_entry >= p.amount /\ qty * price >= qty
        BY <2>1, Grows
      <3>. QED BY <1>0, <2>1, <2>2, <3>1, SMT
    <2>5. IsWhole(p, qty, price) => n % d = 0
      BY <1>2 DEF IsWhole
    <2>6. Drift(side, p, qty, price)
            = Sign(side) * (q.amount * q.average_entry) - Sign(side) * (p.amount * p.average_entry) - Sign(side) * (qty * price)
      BY <1>2, <1>a DEF Drift, CostOf
    <2> DEFINE v == Quotient(n, d)
               paid == p.amount * p.average_entry
               more == qty * price
    <2>7. n = paid + more /\ paid \in Nat /\ more \in Nat
      BY <1>0, <2>2
    <2>8. Drift(side, p, qty, price) = Sign(side) * (d * v) - Sign(side) * paid - Sign(side) * more
      BY <2>3, <2>6
    <2>. HIDE DEF q, n, d, paid, more
    <2>9. v \in Int /\ 2 * (d * v) <= 2 * n + d /\ 2 * n < 2 * (d * v) + d
      BY <2>2, QuotientNear
    <2>10. n % d = 0 => d * v = n
      BY <2>2, QuotientWhole
    <2>. HIDE DEF v
    <2>11. d * v \in Int
      BY <2>2, <2>9, ProductType
    <2>12. v > 0
      <3>1. v <= 0 => d * v <= 0
        BY <2>2, <2>9, SMT
      <3>. QED BY <2>2, <2>4, <2>9, <2>11, <3>1, SMT
    <2> DEFINE dv == d * v
    <2>13. /\ Sign(side) * dv - Sign(side) * paid - Sign(side) * more \in Int
           /\ 2 * (Sign(side) * dv - Sign(side) * paid - Sign(side) * more) \in -d..d
           /\ dv = n => Sign(side) * dv - Sign(side) * paid - Sign(side) * more = 0
      <3>1. dv \in Int /\ 2 * dv <= 2 * n + d /\ 2 * n < 2 * dv + d
        BY <2>9, <2>11
      <3>. HIDE DEF dv
      <3>. QED BY <1>0, <2>2, <2>7, <3>1, SMT
    <2>. QED BY <2>3, <2>5, <2>8, <2>10, <2>12, <2>13 DEF q, v
  <1>. QED BY <1>1, <1>2

\* A position that is closed in part gives back what that part cost: its price less what is earned.
LEMMA CostShrinks ==
    ASSUME NEW side \in Sides, NEW p \in Position, p.average_entry > 0, NEW qty \in 1 .. p.amount, NEW price \in Nat
    PROVE  LET q == Reduced(p, qty) IN
           (IF q = None THEN 0 ELSE Sign(side) * (q.amount * q.average_entry)) + Sign(side) * (qty * price)
             = Sign(side) * (p.amount * p.average_entry) + Earned(side, p, qty, price)
  <1> DEFINE a == p.amount
             v == p.average_entry
             g == Sign(side)
             q == Reduced(p, qty)
  <1>0. a \in Int /\ v \in Int /\ g \in {1, -1} /\ qty \in Int /\ price \in Int
    BY DEF Position, Sign
  <1>1. Earned(side, p, qty, price) = g * (price - v) * qty
    BY DEF Earned
  <1>2. q # None => q.amount = a - qty /\ q.average_entry = v
    BY DEF Reduced, Position
  <1>3. q = None <=> qty = a
    <2>1. [p EXCEPT !.amount = @ - qty] \in Position \cup {None} => TRUE
      OBVIOUS
    <2>2. CASE qty # a
      <3>1. [p EXCEPT !.amount = @ - qty] \in Position
        <4>1. p.amount - qty \in Nat \ {0}
          BY <2>2, SMT DEF Position
        <4>. QED BY <4>1, SMT DEF Position
      <3>. QED BY <2>2, <3>1, RequestsAssumption DEF Reduced
    <2>. QED BY <2>2 DEF Reduced
  <1>4. (IF q = None THEN 0 ELSE g * (q.amount * q.average_entry)) = g * ((a - qty) * v)
    <2>. HIDE DEF a, v, g, q
    <2>1. CASE q = None
      <3>1. a - qty = 0
        BY <1>0, <1>3, <2>1, SMT
      <3>2. (a - qty) * v = 0
        BY <1>0, <3>1, SMT
      <3>. QED BY <1>0, <2>1, <3>2, SMT
    <2>. QED BY <1>2, <2>1
  <1>. HIDE DEF a, v, g, q
  <1>5. (a - qty) * v = a * v - qty * v /\ (price - v) * qty = price * qty - v * qty
    BY <1>0, Distributes
  <1>6. qty * v = v * qty /\ price * qty = qty * price
    BY <1>0, Commutes
  <1>7. a * v \in Int /\ v * qty \in Int /\ qty * price \in Int
    BY <1>0, ProductType
  <1>8. g * ((a - qty) * v) + g * (qty * price) = g * (a * v) + g * ((price - v) * qty)
    BY <1>0, <1>5, <1>6, <1>7, SMT
  <1>9. g * (price - v) * qty = g * ((price - v) * qty)
    BY <1>0, Associates, SMT
  <1>10. (IF q = None THEN 0 ELSE g * (q.amount * q.average_entry)) + g * (qty * price)
            = g * (a * v) + Earned(side, p, qty, price)
    BY <1>1, <1>4, <1>8, <1>9
  <1>. QED BY <1>10 DEF a, v, g, q

\* A commit that books x with the cash, as the column rounds it, and what it was worth elsewhere but for drift.
LEMMA BookStep ==
    ASSUME TypeOK, TypeOK', NEW x \in Int, NEW drift \in Int, cash' = Cents(x), cash' # None,
           x + Cost("long")' + Cost("short")' - Result' - deposits' = Imbalance + drift
    PROVE  \E cents \in Int : 2 * cents \in -CENT..CENT /\ Imbalance' = Imbalance + cents + drift
  <1>1. Cents(x) \in Int /\ 2 * (Cents(x) - x) \in -CENT .. CENT
    BY CentsNear
  <1>2. /\ Cost("long")' \in Int /\ Cost("short")' \in Int /\ Result' \in Int /\ deposits' \in Int
    BY CostTypeNext, ResultTypeNext DEF Sides, TypeOK
  <1>3. Imbalance \in Int
    BY ImbalanceType
  <1>4. Imbalance' = Imbalance + (Cents(x) - x) + drift
    BY <1>1, <1>2, <1>3, SMT DEF Imbalance
  <1>5. Cents(x) - x \in Int
    BY <1>1, SMT
  <1>. QED BY <1>1, <1>4, <1>5

\* One request more has taken effect.
LEMMA OneApplied ==
    ASSUME IInv, NEW r \in Requests, NEW s \in {"done", "lost"}, CommitAdd(r, s) \/ CommitClose(r, s) \/ SetCash(r, s)
    PROVE  /\ Applied \subseteq Requests /\ r \notin Applied /\ Applied' = Applied \cup {r}
           /\ Cardinality(Applied) \in Nat /\ Cardinality(Applied') = Cardinality(Applied) + 1
  <1>1. r \notin Applied /\ Applied' = Applied \cup {r}
    BY SMT DEF Applied, CommitAdd, CommitClose, SetCash, End, Move, IInv, TypeOK
  <1>2. IsFiniteSet(Applied)
    BY RequestsAssumption, FS_Subset DEF Applied
  <1>3. Applied \subseteq Requests
    BY DEF Applied
  <1>. QED BY <1>1, <1>2, <1>3, FS_CardinalityType, FS_AddElement

\* An addition that takes effect buys, other requests do not.
LEMMA BuysMore ==
    ASSUME NEW S \in SUBSET Requests, NEW r \in Adds, r \notin S
    PROVE  Bought(S) \in Nat /\ Bought(S \cup {r}) = Bought(S) + Qty[r]
  <1> DEFINE T == S \cap Adds
  <1>1. \A q \in Adds : Qty[q] \in Nat
    BY RequestsAssumption
  <1>2. IsFiniteSet(T) /\ r \notin T /\ (S \cup {r}) \cap Adds = T \cup {r}
    BY RequestsAssumption, FS_Subset
  <1>3. T \subseteq Adds /\ Bought(S) = SumFunctionOnSet(Qty, T) /\ Bought(S \cup {r}) = SumFunctionOnSet(Qty, T \cup {r})
    BY <1>2 DEF Bought
  <1>. HIDE DEF T
  <1>4. SumFunctionOnSet(Qty, T) \in Nat
    BY <1>1, <1>2, <1>3, SumNat
  <1>5. \A q \in T \cup {r} : Qty[q] \in Int
    BY <1>1, <1>3
  <1>6. SumFunctionOnSet(Qty, T \cup {r}) = Qty[r] + SumFunctionOnSet(Qty, T)
    BY <1>2, <1>5, SumAdd
  <1>7. Qty[r] \in Int
    BY <1>5
  <1>. QED BY <1>3, <1>4, <1>6, <1>7, SMT

\* A request that is no addition buys nothing.
LEMMA BuysNoMore ==
    ASSUME NEW S \in SUBSET Requests, NEW r \in Requests \ Adds
    PROVE  Bought(S) \in Nat /\ Bought(S \cup {r}) = Bought(S)
  <1>1. \A q \in S \cap Adds : Qty[q] \in Nat
    BY RequestsAssumption
  <1>2. IsFiniteSet(S \cap Adds) /\ (S \cup {r}) \cap Adds = S \cap Adds
    BY RequestsAssumption, FS_Subset
  <1>. QED BY <1>1, <1>2, SumNat DEF Bought

\* What was paid in when the account's row is created makes up for the cash that appears.
LEMMA Opening ==
    ASSUME TypeOK, OpeningDeposit
    PROVE  /\ Funds \in Int /\ deposits' \in Int
           /\ Funds - deposits' = (IF cash = None THEN 0 ELSE cash) - deposits
  BY RequestsAssumption, SMT DEF TypeOK, OpeningDeposit, Deposit, Funds

\* The other side's position costs what it did.
LEMMA OtherSide ==
    ASSUME TypeOK, NEW side \in Sides, NEW p, position' = [position EXCEPT ![side] = p]
    PROVE  /\ position'[side] = p
           /\ \A other \in Sides : other # side => Cost(other)' = Cost(other) /\ position'[other] = position[other]
  BY DEF TypeOK, Cost

\* An addition: the position costs what the account paid.
LEMMA BookAdd ==
    ASSUME IInv, IInv', PositionInv, NEW r \in Requests, NEW s \in {"done", "lost"}, CommitAdd(r, s)
    PROVE  /\ PositionInv'
           /\ \E cents, drift \in Int :
                 /\ 2 * cents \in -CENT..CENT /\ 2 * drift \in -Bought(Applied')..Bought(Applied')
                 /\ WholeAverages => drift = 0
                 /\ Imbalance' = Imbalance + cents + drift
  <1>0. TypeOK /\ TypeOK' /\ AddInv
    BY DEF IInv
  <1>1. /\ r \in Adds /\ stage[r] = "commit" /\ Side[r] \in Sides /\ Qty[r] \in Nat \ {0} /\ Price[r] \in Nat \ {0}
        /\ read[r] = position[Side[r]] /\ read[r] \in Position \cup {None}
    BY <1>0, RequestsAssumption DEF CommitAdd, AddInv, TypeOK
  <1> DEFINE x == Funds - Sign(Side[r]) * (Qty[r] * Price[r])
             q == Enlarged(read[r], Qty[r], Price[r])
             m == Sign(Side[r]) * (Qty[r] * Price[r])
  <1>2. /\ cash' = Cents(x) /\ position' = [position EXCEPT ![Side[r]] = q] /\ OpeningDeposit /\ UNCHANGED trades
    BY DEF CommitAdd
  <1>3. q \in Position /\ q # None
    BY <1>1, EnlargedType, RequestsAssumption
  <1> DEFINE drift == Drift(Side[r], read[r], Qty[r], Price[r])
  <1>4. q.average_entry > 0 /\ drift \in Int /\ 2 * drift \in -q.amount..q.amount /\ (WholeAverages => drift = 0)
    <2>1. WholeAverages => IsWhole(read[r], Qty[r], Price[r])
      BY <1>1 DEF WholeAverages, IsWhole
    <2>2. read[r] # None => read[r].average_entry > 0
      BY <1>1 DEF PositionInv
    <2>. QED BY <1>1, <2>1, <2>2, CostGrows
  <1>5. m \in Int
    BY <1>1, ProductType, SMT DEF Sign
  <1>6. Cost(Side[r])' = Cost(Side[r]) + m + drift
    <2>1. Cost(Side[r]) = CostOf(Side[r], read[r])
      <3>1. Cost(Side[r]) = CostOf(Side[r], position[Side[r]])
        BY DEF Cost, CostOf
      <3>. QED BY <1>1, <3>1
    <2>2. Cost(Side[r])' = CostOf(Side[r], q)
      <3>. HIDE DEF q
      <3>1. Cost(Side[r])' = CostOf(Side[r], position'[Side[r]])
        BY DEF Cost, CostOf
      <3>2. position'[Side[r]] = q
        BY <1>0, <1>1, <1>2, OtherSide
      <3>. QED BY <3>1, <3>2
    <2>3. drift = CostOf(Side[r], q) - CostOf(Side[r], read[r]) - m
      BY DEF Drift
    <2>4. Cost(Side[r]) \in Int /\ Cost(Side[r])' \in Int
      BY <1>0, <1>1, CostType, CostTypeNext
    <2>. HIDE DEF drift, q, m
    <2>. QED BY <1>5, <2>1, <2>2, <2>3, <2>4, SMT
  <1>. HIDE DEF q, drift
  <1>7. Cost("long")' + Cost("short")' = Cost("long") + Cost("short") + m + drift
    <2>1. Cost("long") \in Int /\ Cost("short") \in Int
      BY <1>0, CostType DEF Sides
    <2>2. \A other \in Sides : other # Side[r] => Cost(other)' = Cost(other)
      BY <1>0, <1>1, <1>2, OtherSide
    <2>. HIDE DEF m
    <2>. QED BY <1>1, <1>4, <1>5, <1>6, <2>1, <2>2, SMT DEF Sides
  <1>8. Result' = Result /\ Result \in Int
    BY <1>0, <1>2, ResultType DEF Result
  <1>9. x \in Int /\ cash' # None
    <2>1. x \in Int
      BY <1>0, <1>2, <1>5, Opening
    <2>. QED BY <1>2, <2>1, CentsType, RequestsAssumption
  <1>10. x + Cost("long")' + Cost("short")' - Result' - deposits' = Imbalance + drift
    <2>1. Funds \in Int /\ deposits' \in Int /\ deposits \in Int
          /\ Funds - deposits' = (IF cash = None THEN 0 ELSE cash) - deposits
          /\ (IF cash = None THEN 0 ELSE cash) \in Int
      BY <1>0, <1>2, Opening DEF TypeOK
    <2>2. Cost("long") \in Int /\ Cost("short") \in Int /\ Cost("long")' \in Int /\ Cost("short")' \in Int
      BY <1>0, CostType, CostTypeNext DEF Sides
    <2>3. x = Funds - m
      OBVIOUS
    <2>. HIDE DEF x, m
    <2>. QED BY <1>4, <1>5, <1>7, <1>8, <2>1, <2>2, <2>3, SMT DEF Imbalance
  <1>. HIDE DEF x, m
  <1>11. \E cents \in Int : 2 * cents \in -CENT..CENT /\ Imbalance' = Imbalance + cents + drift
    BY <1>0, <1>2, <1>4, <1>9, <1>10, BookStep
  <1>12. /\ Bought(Applied) \in Nat /\ Bought(Applied') = Bought(Applied) + Qty[r]
         /\ q.amount <= Bought(Applied')
    <2>1. Bought(Applied) \in Nat /\ Bought(Applied') = Bought(Applied) + Qty[r]
      BY <1>1, OneApplied, BuysMore
    <2>2. CASE read[r] = None
      BY <1>1, <2>1, <2>2, SMT DEF q, Enlarged
    <2>3. CASE read[r] # None
      <3>1. read[r].amount <= Bought(Applied) /\ read[r].amount \in Nat /\ q.amount = read[r].amount + Qty[r]
        BY <1>1, <2>3 DEF PositionInv, q, Enlarged, Position
      <3>. QED BY <1>1, <2>1, <3>1, SMT
    <2>. QED BY <2>1, <2>2, <2>3
  <1>13. \A side \in Sides : position'[side] # None =>
            position'[side].average_entry > 0 /\ position'[side].amount <= Bought(Applied')
    <2>1. ASSUME NEW side \in Sides, side # Side[r], position'[side] # None
          PROVE  position'[side].average_entry > 0 /\ position'[side].amount <= Bought(Applied')
      <3>1. position'[side] = position[side]
        BY <1>0, <1>1, <1>2, <2>1, OtherSide
      <3>2. position[side].average_entry > 0 /\ position[side].amount <= Bought(Applied) /\ position[side].amount \in Nat
        BY <1>0, <2>1, <3>1 DEF PositionInv, TypeOK, Position
      <3>. QED BY <1>1, <1>12, <3>1, <3>2, SMT
    <2>2. position'[Side[r]] = q
      BY <1>0, <1>1, <1>2, OtherSide
    <2>. QED BY <1>4, <1>12, <2>1, <2>2
  <1>14. \A t \in Requests : trades'[t] # None => t \in Applied'
    BY <1>2, OneApplied DEF PositionInv
  <1>15. 2 * drift \in -Bought(Applied')..Bought(Applied')
    <2>1. q.amount \in Nat /\ Bought(Applied') \in Nat
      BY <1>1, <1>3, <1>12 DEF Position
    <2>2. drift \in Int /\ -q.amount <= 2 * drift /\ 2 * drift <= q.amount
      BY <1>4, <2>1
    <2> DEFINE b == Bought(Applied')
               a == q.amount
    <2>3. b \in Nat /\ a \in Nat /\ a <= b
      BY <1>12, <2>1
    <2>4. -a <= 2 * drift /\ 2 * drift <= a
      BY <2>2
    <2>. HIDE DEF a, b
    <2>5. 2 * drift \in -b..b
      BY <2>2, <2>3, <2>4, SMT
    <2>. QED BY <2>5 DEF b
  <1>. QED BY <1>4, <1>11, <1>13, <1>14, <1>15 DEF PositionInv

\* A closing: the account gets what the part cost and what it earned.
LEMMA BookClose ==
    ASSUME IInv, IInv', PositionInv, NEW r \in Requests, NEW s \in {"done", "lost"}, CommitClose(r, s)
    PROVE  PositionInv' /\ \E cents \in Int : 2 * cents \in -CENT..CENT /\ Imbalance' = Imbalance + cents
  <1>0. TypeOK /\ TypeOK' /\ CloseInv
    BY DEF IInv
  <1> DEFINE n == ClosedQty(r)
             x == Funds + Sign(Side[r]) * (n * Price[r])
             m == Sign(Side[r]) * (n * Price[r])
             p == read[r]
             e == Earned(Side[r], p, n, Price[r])
             q == Reduced(p, n)
  <1>1. /\ r \in Closes /\ stage[r] = "commit" /\ Side[r] \in Sides /\ Price[r] \in Nat
        /\ p # None /\ p = position[Side[r]] /\ n \in 1..p.amount
    BY <1>0, RequestsAssumption DEF CommitClose, CloseInv
  <1>2. /\ cash' = Cents(x) /\ position' = [position EXCEPT ![Side[r]] = q]
        /\ trades' = [trades EXCEPT ![r] = e] /\ OpeningDeposit
    BY DEF CommitClose
  <1>3. p \in Position /\ p.average_entry > 0 /\ q \in Position \cup {None} /\ e \in Int
    <2>1. p \in Position
      BY <1>0, <1>1 DEF TypeOK
    <2>2. p.average_entry > 0
      BY <1>1 DEF PositionInv
    <2>. QED BY <1>1, <2>1, <2>2, CloseTypes
  <1>4. (IF q = None THEN 0 ELSE Sign(Side[r]) * (q.amount * q.average_entry)) + m = Cost(Side[r]) + e
    BY <1>1, <1>3, CostShrinks DEF Cost
  <1>5. m \in Int
    <2>1. n \in Int /\ Price[r] \in Int
      BY <1>1
    <2>2. n * Price[r] \in Int
      BY <2>1, ProductType
    <2>. QED BY <2>2, SMT DEF Sign
  <1>. HIDE DEF q, n, e
  <1>6. Cost(Side[r])' + m = Cost(Side[r]) + e
    BY <1>0, <1>1, <1>2, <1>4, OtherSide DEF Cost
  <1>7. Cost("long")' + Cost("short")' + m = Cost("long") + Cost("short") + e
    <2>1. Cost("long") \in Int /\ Cost("short") \in Int /\ Cost("long")' \in Int /\ Cost("short")' \in Int
      BY <1>0, CostType, CostTypeNext DEF Sides
    <2>2. \A other \in Sides : other # Side[r] => Cost(other)' = Cost(other)
      BY <1>0, <1>1, <1>2, OtherSide
    <2>. HIDE DEF m
    <2>. QED BY <1>1, <1>3, <1>5, <1>6, <2>1, <2>2, SMT DEF Sides
  <1>8. Result' = Result + e /\ Result \in Int
    <2>1. trades[r] = None
      BY OneApplied DEF PositionInv
    <2>. QED BY <1>0, <1>2, <1>3, <2>1, ResultGrows
  <1>9. x \in Int /\ cash' # None
    <2>1. x \in Int
      BY <1>0, <1>2, <1>5, Opening
    <2>. QED BY <1>2, <2>1, CentsType, RequestsAssumption
  <1>10. x + Cost("long")' + Cost("short")' - Result' - deposits' = Imbalance + 0
    <2>1. Funds \in Int /\ deposits' \in Int /\ deposits \in Int
          /\ Funds - deposits' = (IF cash = None THEN 0 ELSE cash) - deposits
          /\ (IF cash = None THEN 0 ELSE cash) \in Int
      BY <1>0, <1>2, Opening DEF TypeOK
    <2>2. Cost("long") \in Int /\ Cost("short") \in Int /\ Cost("long")' \in Int /\ Cost("short")' \in Int
      BY <1>0, CostType, CostTypeNext DEF Sides
    <2>3. x = Funds + m
      OBVIOUS
    <2>. HIDE DEF x, m
    <2>. QED BY <1>3, <1>5, <1>7, <1>8, <2>1, <2>2, <2>3, SMT DEF Imbalance
  <1>. HIDE DEF x, m
  <1>11. \E cents \in Int : 2 * cents \in -CENT..CENT /\ Imbalance' = Imbalance + cents
    <2>1. \E cents \in Int : 2 * cents \in -CENT..CENT /\ Imbalance' = Imbalance + cents + 0
      BY <1>0, <1>2, <1>9, <1>10, BookStep
    <2>. QED BY <1>0, <2>1, ImbalanceType
  <1>12. Bought(Applied') = Bought(Applied) /\ Bought(Applied) \in Nat
    <2>1. r \in Requests \ Adds
      BY <1>1, RequestsAssumption DEF Requests
    <2>. QED BY <2>1, OneApplied, BuysNoMore
  <1>13. ASSUME NEW side \in Sides, position'[side] # None
         PROVE  position'[side].average_entry > 0 /\ position'[side].amount <= Bought(Applied')
    <2>1. CASE side # Side[r]
      BY <1>0, <1>1, <1>2, <1>12, <1>13, <2>1, OtherSide DEF PositionInv
    <2>2. CASE side = Side[r]
      <3>1. position'[side] = q /\ q # None
        BY <1>0, <1>1, <1>2, <1>13, <2>2, OtherSide
      <3>2. q.average_entry = p.average_entry /\ q.amount = p.amount - n /\ p.amount \in Nat /\ p.amount <= Bought(Applied)
        BY <1>1, <1>3, <3>1 DEF q, Reduced, Position, PositionInv
      <3>. QED BY <1>1, <1>3, <1>12, <3>1, <3>2, SMT
    <2>. QED BY <2>1, <2>2
  <1>14. \A t \in Requests : trades'[t] # None => t \in Applied'
    <2>1. \A t \in Requests : t # r => trades'[t] = trades[t]
      BY <1>2
    <2>. QED BY <2>1, OneApplied DEF PositionInv
  <1>. QED BY <1>11, <1>13, <1>14 DEF PositionInv

\* An edit of the cash is paid in.
LEMMA BookSet ==
    ASSUME IInv, IInv', PositionInv, NEW r \in Requests, NEW s \in {"done", "lost"}, SetCash(r, s)
    PROVE  PositionInv' /\ Imbalance' = Imbalance
  <1>0. TypeOK /\ TypeOK' /\ StageInv
    BY DEF IInv
  <1> DEFINE x == Balance[r]
             c == IF cash = None THEN 0 ELSE cash
  <1>1. /\ cash' = Cents(x) /\ deposits' = deposits + (Cents(x) - c) /\ UNCHANGED <<position, trades>>
    BY DEF SetCash, Deposit
  <1>2. x \in Int /\ c \in Int /\ deposits \in Int /\ Cents(x) \in Int /\ None \notin Int
    BY <1>0, RequestsAssumption, CentsType DEF StageInv, SetCash, TypeOK
  <1>. HIDE DEF x
  <1>3. Result' = Result /\ Cost("long")' = Cost("long") /\ Cost("short")' = Cost("short")
    BY <1>1 DEF Result, Cost
  <1>4. Result \in Int /\ Cost("long") \in Int /\ Cost("short") \in Int
    BY <1>0, ResultType, CostType DEF Sides
  <1>5. Imbalance' = Imbalance /\ Imbalance \in Int
    <2>1. Imbalance = c + Cost("long") + Cost("short") - Result - deposits
      BY DEF Imbalance
    <2>2. Imbalance' = cash' + Cost("long")' + Cost("short")' - Result' - deposits'
      BY <1>1, <1>2 DEF Imbalance
    <2>. HIDE DEF c
    <2>. QED BY <1>1, <1>2, <1>3, <1>4, <2>1, <2>2, SMT
  <1>6. r \notin Adds
    BY <1>0, RequestsAssumption DEF StageInv, SetCash
  <1>7. Bought(Applied') = Bought(Applied)
    BY <1>6, OneApplied, BuysNoMore
  <1>. QED BY <1>1, <1>5, <1>7, OneApplied DEF PositionInv

\* Steps that commit nothing.
LEMMA BookQuiet ==
    ASSUME UNCHANGED <<cash, position, trades, deposits>>, Applied' = Applied
    PROVE  (PositionInv => PositionInv') /\ Imbalance' = Imbalance
  BY DEF PositionInv, Imbalance, Cost, Result

\* Every step keeps the books, but for the rounding of the cash and, in an addition, of the average.
LEMMA BookNext ==
    ASSUME IInv, IInv', PositionInv, [Next]_vars
    PROVE  /\ PositionInv'
           /\ \/ Applied' = Applied /\ Imbalance' = Imbalance
              \/ \E r \in Requests \ Applied, cents, drift \in Int :
                    /\ Applied' = Applied \cup {r}
                    /\ Imbalance' = Imbalance + cents + drift
                    /\ 2 * cents \in -CENT..CENT
                    /\ r \in Adds => 2 * drift \in -Bought(Applied')..Bought(Applied')
                    /\ r \notin Adds \/ WholeAverages => drift = 0
  <1> DEFINE Kept ==
        /\ PositionInv'
        /\ \/ Applied' = Applied /\ Imbalance' = Imbalance
           \/ \E r \in Requests \ Applied, cents, drift \in Int :
                 /\ Applied' = Applied \cup {r}
                 /\ Imbalance' = Imbalance + cents + drift
                 /\ 2 * cents \in -CENT..CENT
                 /\ r \in Adds => 2 * drift \in -Bought(Applied')..Bought(Applied')
                 /\ r \notin Adds \/ WholeAverages => drift = 0
  <1>0. Imbalance \in Int /\ CENT \in Nat
    BY ImbalanceType, CentAssumption DEF IInv
  <1>1. UNCHANGED vars => Kept
    BY BookQuiet DEF vars, tables, Applied
  <1>2. ASSUME NEW r \in Requests, NEW s \in {"done", "lost"}, CommitAdd(r, s) \/ CommitClose(r, s) \/ SetCash(r, s)
        PROVE  Kept
    <2>1. r \in Requests \ Applied /\ Applied' = Applied \cup {r}
      BY <1>2, OneApplied
    <2>2. CASE CommitAdd(r, s)
      <3>1. r \in Adds
        BY <2>2 DEF CommitAdd
      <3>. QED BY <2>1, <2>2, <3>1, BookAdd
    <2>3. CASE CommitClose(r, s)
      <3>1. r \notin Adds
        BY <2>3, RequestsAssumption DEF CommitClose
      <3>2. PICK cents \in Int : 2 * cents \in -CENT..CENT /\ Imbalance' = Imbalance + cents
        BY <2>3, BookClose
      <3>3. Imbalance' = Imbalance + cents + 0
        BY <1>0, <3>2
      <3>. QED BY <2>1, <2>3, <3>1, <3>2, <3>3, BookClose
    <2>4. CASE SetCash(r, s)
      <3>1. r \notin Adds
        BY <2>4, RequestsAssumption DEF SetCash, IInv, StageInv
      <3>2. Imbalance' = Imbalance + 0 + 0 /\ 2 * 0 \in -CENT..CENT
        BY <1>0, <2>4, BookSet
      <3>. QED BY <2>1, <2>4, <3>1, <3>2, BookSet
    <2>. QED BY <1>2, <2>2, <2>3, <2>4
  <1>3. ASSUME NEW r \in Requests, NEW s \in Stages \ {"done", "lost"}, stage[r] \notin {"done", "lost"}, Move(r, s),
               UNCHANGED <<cash, position, trades, deposits>>
        PROVE  Kept
    <2>1. Applied' = Applied
      BY <1>3, SMT DEF Applied, Move, IInv, TypeOK
    <2>. QED BY <1>3, <2>1, BookQuiet
  <1>4. ASSUME NEW r \in Requests, Advance(r) PROVE Kept
    <2>. HIDE DEF Kept
    <2>1. CASE Commit(r)
      BY <1>2, <2>1 DEF Commit
    <2>2. CASE ~Commit(r)
      <3>1. /\ stage[r] \notin {"done", "lost"} /\ UNCHANGED <<cash, position, trades, deposits>>
            /\ \E s \in Stages \ {"done", "lost"} : Move(r, s)
        BY <1>4, <2>2, SMT DEF Advance, EnsureAccount, LockAccount, LockRow, Upsert, ReadPosition,
           LockPosition, Credit, Rollback, End, Move, Stages, Ended, tables
      <3>. QED BY <1>3, <3>1
    <2>. QED BY <2>1, <2>2
  <1>5. ASSUME NEW r \in Requests, DeadlockAbort(r) \/ Fail(r) PROVE Kept
    <2>. HIDE DEF Kept
    <2>1. /\ stage[r] \notin {"done", "lost"} /\ UNCHANGED <<cash, position, trades, deposits>> /\ Move(r, "failed")
      BY <1>5, SMT DEF DeadlockAbort, Deadlocked, WaitsFor, Wanted, WantsAccount, WantsPosition,
          Fail, End, Ended, tables
    <2>. QED BY <1>3, <2>1 DEF Stages, Ended
  <1>6. ASSUME NEW r \in Requests, CommitUnheard(r) PROVE Kept
    <2>. HIDE DEF Kept
    <2>. QED BY <1>2, <1>6 DEF CommitUnheard
  <1>7. Kept
    <2>. HIDE DEF Kept
    <2>. QED BY <1>1, <1>4, <1>5, <1>6 DEF Next
  <1>. QED BY <1>7

\* There is nothing in the books at the start.
LEMMA BookInit == Init => PositionInv /\ Imbalance = 0 /\ Applied = {}
  <1>. SUFFICES ASSUME Init PROVE PositionInv /\ Imbalance = 0 /\ Applied = {}
    OBVIOUS
  <1>1. \A r \in Requests : trades[r] = None
    BY DEF Init
  <1>2. \A side \in Sides : position[side] = None
    BY DEF Init
  <1>3. Applied = {}
    BY DEF Init, Applied
  <1>4. Result = 0
    <2>1. {r \in Requests : trades[r] # None} = {}
      BY <1>1
    <2>. QED BY <2>1, SumEmpty DEF Result
  <1>5. Cost("long") = 0 /\ Cost("short") = 0 /\ cash = None /\ deposits = 0
    BY <1>2 DEF Cost, Init, Sides
  <1>6. Imbalance = 0
    BY <1>4, <1>5, SMT DEF Imbalance
  <1>. QED BY <1>1, <1>2, <1>3, <1>6 DEF PositionInv

\* The tolerances: numbers that grow with every request that takes effect.
LEMMA Tolerance ==
    ASSUME NEW S \in SUBSET Requests, NEW r \in Requests \ S
    PROVE  /\ CENT * Cardinality(S) \in Nat
           /\ CENT * Cardinality(S \cup {r}) = CENT * Cardinality(S) + CENT
           /\ Bought(Adds) \in Nat /\ Bought(S \cup {r}) \in Nat /\ Bought(S \cup {r}) <= Bought(Adds)
           /\ Bought(Adds) * Cardinality(S \cap Adds) \in Nat
           /\ Bought(Adds) * Cardinality((S \cup {r}) \cap Adds)
                = Bought(Adds) * Cardinality(S \cap Adds) + IF r \in Adds THEN Bought(Adds) ELSE 0
  <1>1. IsFiniteSet(S) /\ IsFiniteSet(S \cap Adds) /\ IsFiniteSet(Adds) /\ IsFiniteSet((S \cup {r}) \cap Adds)
    BY RequestsAssumption, FS_Subset DEF Requests
  <1>2. /\ Cardinality(S) \in Nat /\ Cardinality(S \cup {r}) = Cardinality(S) + 1
        /\ Cardinality(S \cap Adds) \in Nat
    BY <1>1, FS_CardinalityType, FS_AddElement
  <1>3. Cardinality((S \cup {r}) \cap Adds) = Cardinality(S \cap Adds) + IF r \in Adds THEN 1 ELSE 0
    <2>1. CASE r \in Adds
      <3>1. (S \cup {r}) \cap Adds = (S \cap Adds) \cup {r} /\ r \notin S \cap Adds
        BY <2>1
      <3>. QED BY <1>1, <2>1, <3>1, FS_AddElement
    <2>2. CASE r \notin Adds
      <3>1. (S \cup {r}) \cap Adds = S \cap Adds
        BY <2>2
      <3>. QED BY <1>2, <2>2, <3>1
    <2>. QED BY <2>1, <2>2
  <1>4. /\ Bought(Adds) \in Nat /\ Bought(S \cup {r}) \in Nat /\ Bought(S \cup {r}) <= Bought(Adds)
    <2>1. \A q \in Adds : Qty[q] \in Nat
      BY RequestsAssumption
    <2>2. Adds \cap Adds = Adds /\ (S \cup {r}) \cap Adds \in SUBSET Adds
      OBVIOUS
    <2>3. Bought(Adds) = SumFunctionOnSet(Qty, Adds) /\ Bought(S \cup {r}) = SumFunctionOnSet(Qty, (S \cup {r}) \cap Adds)
      BY <2>2 DEF Bought
    <2>4. SumFunctionOnSet(Qty, Adds) \in Nat
      BY <1>1, <2>1, SumNat
    <2>5. SumFunctionOnSet(Qty, (S \cup {r}) \cap Adds) \in Nat
      BY <1>1, <2>1, SumNat
    <2>6. SumFunctionOnSet(Qty, (S \cup {r}) \cap Adds) <= SumFunctionOnSet(Qty, Adds)
      BY <1>1, <2>1, <2>2, SumGrows
    <2>. QED BY <2>3, <2>4, <2>5, <2>6
  <1>5. \A m, n \in Nat : m * (n + 1) = m * n + m /\ m * n \in Nat
    BY SMT
  <1>6. CENT \in Nat
    BY CentAssumption
  <1>. HIDE DEF Bought
  <1>7. CENT * Cardinality(S) \in Nat /\ CENT * (Cardinality(S) + 1) = CENT * Cardinality(S) + CENT
    BY <1>2, <1>5, <1>6
  <1>8. /\ Bought(Adds) * Cardinality(S \cap Adds) \in Nat
        /\ Bought(Adds) * (Cardinality(S \cap Adds) + 1) = Bought(Adds) * Cardinality(S \cap Adds) + Bought(Adds)
    BY <1>2, <1>4, <1>5
  <1>9. Bought(Adds) * Cardinality((S \cup {r}) \cap Adds)
          = Bought(Adds) * Cardinality(S \cap Adds) + IF r \in Adds THEN Bought(Adds) ELSE 0
    BY <1>2, <1>3, <1>8
  <1>. QED BY <1>2, <1>4, <1>7, <1>8, <1>9

\* A step adds to the imbalance no more than to what is tolerated.
LEMMA NearlyStep ==
    ASSUME IInv, IInv', PositionInv, BooksNearlyBalance, [Next]_vars PROVE BooksNearlyBalance'
  <1>0. Imbalance \in Int /\ CENT \in Nat
    BY ImbalanceType, CentAssumption DEF IInv
  <1>1. CASE Applied' = Applied /\ Imbalance' = Imbalance
    BY <1>1 DEF BooksNearlyBalance
  <1>2. ASSUME NEW r \in Requests \ Applied, NEW cents \in Int, NEW drift \in Int,
               Applied' = Applied \cup {r}, Imbalance' = Imbalance + cents + drift, 2 * cents \in -CENT..CENT,
               r \in Adds => 2 * drift \in -Bought(Applied')..Bought(Applied'),
               r \notin Adds => drift = 0
        PROVE  BooksNearlyBalance'
    <2> DEFINE n == CENT * Cardinality(Applied)
               n1 == CENT * Cardinality(Applied \cup {r})
               b == Bought(Adds) * Cardinality(Applied \cap Adds)
               b1 == Bought(Adds) * Cardinality((Applied \cup {r}) \cap Adds)
    <2>1. /\ n \in Nat /\ n1 = n + CENT /\ Bought(Adds) \in Nat /\ b \in Nat
          /\ Bought(Applied \cup {r}) \in Nat /\ Bought(Applied \cup {r}) <= Bought(Adds)
          /\ b1 = b + IF r \in Adds THEN Bought(Adds) ELSE 0
      <3>1. Applied \in SUBSET Requests
        BY DEF Applied
      <3>. QED BY <1>2, <3>1, Tolerance
    <2>2. 2 * Imbalance \in -(n + b)..(n + b)
      BY DEF BooksNearlyBalance
    <2>. HIDE DEF n, n1, b, b1
    <2>3. 2 * Imbalance' \in -(n1 + b1)..(n1 + b1)
      <3>1. CASE r \in Adds
        BY <1>0, <1>2, <2>1, <2>2, <3>1, SMT
      <3>2. CASE r \notin Adds
        BY <1>0, <1>2, <2>1, <2>2, <3>2, SMT
      <3>. QED BY <3>1, <3>2
    <2>. QED BY <1>2, <2>3 DEF BooksNearlyBalance, n1, b1, Bought
  <1>. QED BY <1>1, <1>2, BookNext

\* So it does when averages are whole.
LEMMA WholeStep ==
    ASSUME IInv, IInv', PositionInv, BooksBalance, WholeAverages, [Next]_vars PROVE BooksBalance'
  <1>0. Imbalance \in Int /\ CENT \in Nat
    BY ImbalanceType, CentAssumption DEF IInv
  <1>1. CASE Applied' = Applied /\ Imbalance' = Imbalance
    BY <1>1 DEF BooksBalance
  <1>2. ASSUME NEW r \in Requests \ Applied, NEW cents \in Int, Applied' = Applied \cup {r},
               Imbalance' = Imbalance + cents + 0, 2 * cents \in -CENT..CENT
        PROVE  BooksBalance'
    <2> DEFINE n == CENT * Cardinality(Applied)
               n1 == CENT * Cardinality(Applied \cup {r})
    <2>1. n \in Nat /\ n1 = n + CENT
      <3>1. Applied \in SUBSET Requests
        BY DEF Applied
      <3>. QED BY <1>2, <3>1, Tolerance
    <2>2. 2 * Imbalance \in -n..n
      BY DEF BooksBalance
    <2>. HIDE DEF n, n1
    <2>3. 2 * Imbalance' \in -n1..n1
      BY <1>0, <1>2, <2>1, <2>2, SMT
    <2>. QED BY <1>2, <2>3 DEF BooksBalance, n1
  <1>. QED BY <1>1, <1>2, BookNext

\* Nothing is out of balance at the start.
LEMMA BalanceInit == Init => BooksBalance /\ BooksNearlyBalance
  <1>. SUFFICES ASSUME Init PROVE BooksBalance /\ BooksNearlyBalance
    OBVIOUS
  <1>1. Imbalance = 0 /\ Cardinality(Applied) = 0 /\ Cardinality(Applied \cap Adds) = 0 /\ CENT \in Nat
    <2>1. Applied \cap Adds = {}
      BY BookInit
    <2>. QED BY <2>1, BookInit, FS_EmptySet, CentAssumption
  <1>2. Bought(Adds) \in Nat
    <2>1. \A q \in Adds : Qty[q] \in Nat
      BY RequestsAssumption
    <2>2. IsFiniteSet(Adds) /\ Adds \cap Adds = Adds
      BY RequestsAssumption, FS_Subset DEF Requests
    <2>. QED BY <2>1, <2>2, SumNat DEF Bought
  <1>3. CENT * 0 = 0 /\ Bought(Adds) * 0 = 0
    BY <1>1, <1>2, SMT
  <1>4. BooksBalance
    BY <1>1, <1>3, SMT DEF BooksBalance
  <1>5. BooksNearlyBalance
    BY <1>1, <1>3, SMT DEF BooksNearlyBalance
  <1>. QED BY <1>4, <1>5

\* Cash, positions at cost, results and what was paid in agree, through any interleaving of addPosition,
\* executeClose and updateCash, up to half a cent a commit and the rounding of the averages.
THEOREM NearlyBalanced == Spec => []BooksNearlyBalance
  <1>1. Init => IInv /\ PositionInv /\ BooksNearlyBalance
    BY InitInv, BookInit, BalanceInit
  <1>2. IInv /\ PositionInv /\ BooksNearlyBalance /\ [Next]_vars => (IInv /\ PositionInv /\ BooksNearlyBalance)'
    BY StepInv, BookNext, NearlyStep
  <1>. QED BY <1>1, <1>2, PTL DEF Spec

\* They agree up to half a cent a commit in every behaviour of addPosition, executeClose and updateCash in
\* which the average of every addition comes out whole, so that its column rounds nothing.
THEOREM Balanced == Spec /\ []WholeAverages => []BooksBalance
  <1>1. Init => IInv /\ PositionInv /\ BooksBalance
    BY InitInv, BookInit, BalanceInit
  <1>2. IInv /\ PositionInv /\ BooksBalance /\ WholeAverages /\ [Next]_vars => (IInv /\ PositionInv /\ BooksBalance)'
    BY StepInv, BookNext, WholeStep
  <1>. QED BY <1>1, <1>2, PTL DEF Spec

-----------------------------------------------------------------------------
(* Backtest: money                                                         *)

\* A result is what closing brings, less what entering brought or cost.
LEMMA ResultFacts ==
  ASSUME NEW pos \in Holding, NEW e \in Int
  PROVE  /\ Proceeds(pos, e) \in Int /\ Proceeds(pos, pos.entry) \in Int /\ PnlRaw(pos, e) \in Int
         /\ PnlRaw(pos, e) = Proceeds(pos, e) - Proceeds(pos, pos.entry)
         /\ Direction(pos) * pos.qty * e = Proceeds(pos, e)
<1>1. pos.entry \in Int /\ pos.qty \in Int
  BY BacktestAssumption DEF Holding
<1>2. Direction(pos) \in {1, -1}
  BY DEF Direction
<1>3. \A d \in {1, -1}, x, y, q \in Int :
        /\ d * x * q \in Int /\ d * (x - y) * q \in Int
        /\ d * (x - y) * q = d * x * q - d * y * q
        /\ d * q * x = d * x * q
  BY SMT
<1> QED
  BY <1>1, <1>2, <1>3 DEF Proceeds, PnlRaw

\* The same for several positions, each closed at its price.
LEMMA ResultSums ==
  ASSUME NEW D, IsFiniteSet(D), NEW p, \A i \in D : p[i] \in Holding, NEW e, \A i \in D : e[i] \in Int
  PROVE  LET entered == SumFunction([i \in D |-> Proceeds(p[i], p[i].entry)])
             closed == SumFunction([i \in D |-> Proceeds(p[i], e[i])])
             made == SumFunction([i \in D |-> PnlRaw(p[i], e[i])])
         IN  entered \in Int /\ closed \in Int /\ made \in Int /\ closed = made + entered
<1> DEFINE f == [i \in D |-> Proceeds(p[i], p[i].entry)]
           g == [i \in D |-> Proceeds(p[i], e[i])]
           h == [i \in D |-> PnlRaw(p[i], e[i])]
<1>1. \A i \in D : f[i] \in Int /\ g[i] \in Int /\ h[i] \in Int /\ g[i] = h[i] + f[i]
  <2> SUFFICES ASSUME NEW i \in D PROVE f[i] \in Int /\ g[i] \in Int /\ h[i] \in Int /\ g[i] = h[i] + f[i]
    OBVIOUS
  <2>1. f[i] = Proceeds(p[i], p[i].entry) /\ g[i] = Proceeds(p[i], e[i]) /\ h[i] = PnlRaw(p[i], e[i])
    OBVIOUS
  <2>2. /\ Proceeds(p[i], e[i]) \in Int /\ Proceeds(p[i], p[i].entry) \in Int /\ PnlRaw(p[i], e[i]) \in Int
        /\ PnlRaw(p[i], e[i]) = Proceeds(p[i], e[i]) - Proceeds(p[i], p[i].entry)
    BY ResultFacts
  <2> QED
    BY <2>1, <2>2
<1>2. DOMAIN f = D /\ DOMAIN g = D /\ DOMAIN h = D
  OBVIOUS
<1> HIDE DEF f, g, h
<1>3. SumFunctionOnSet(f, D) \in Int /\ SumFunctionOnSet(g, D) \in Int /\ SumFunctionOnSet(h, D) \in Int
  BY <1>1, SumType
<1>4. SumFunctionOnSet(g, D) = SumFunctionOnSet(h, D) + SumFunctionOnSet(f, D)
  BY <1>1, SumPlus
<1> QED
  BY <1>2, <1>3, <1>4 DEF SumFunction, f, g, h

\* The amounts of a part of the positions and those of the others.
LEMMA SumParts ==
  ASSUME NEW D, NEW f, IsFiniteSet(D), \A i \in D : f[i] \in Int, NEW T, T \subseteq D
  PROVE  SumFunctionOnSet(f, D) = SumFunctionOnSet(f, T) + SumFunctionOnSet(f, D \ T)
<1>1. T \in SUBSET D
  OBVIOUS
<1> QED
  BY <1>1, SumSplit

\* What the sums are of when nothing is open.
LEMMA NothingSums == ASSUME NEW f, DOMAIN f = {} PROVE SumFunction(f) = 0
  BY SumEmpty DEF SumFunction

-----------------------------------------------------------------------------
(* Backtest: one simulation                                                *)

\* The fields of a simulation.
LEMMA SimulationFacts ==
  ASSUME NEW n \in Nat, NEW D, NEW r \in Simulation(n, D)
  PROVE  /\ r.capital \in Nat /\ r.cash \in Int /\ r.realised \in Int /\ r.positions \in [D -> Holding]
         /\ DOMAIN r.positions = D
         /\ r.curve \in Seq(Int) /\ Len(r.curve) = n /\ r.price \in Prices \cup {Missing}
         /\ r.curve = <<>> <=> n = 0
<1>1. r.curve \in [1 .. n -> Int] /\ r.positions \in [D -> Holding]
  BY DEF Simulation
<1>2. r.curve \in Seq(Int) /\ Len(r.curve) = n
  BY <1>1
<1> QED
  BY <1>1, <1>2 DEF Simulation

\* The equity is explained by the results, those of the open positions included.
LEMMA EquityFacts ==
  ASSUME NEW n \in Nat, NEW D, IsFiniteSet(D), NEW r \in Simulation(n, D), Accounted(r), NEW price \in Int
  PROVE  /\ Unrealised(r, price) \in Int /\ Entered(r) \in Int /\ Equity(r, price) \in Int
         /\ Equity(r, price) = r.capital + r.realised + Unrealised(r, price)
<1> DEFINE p == r.positions
           e == [i \in D |-> price]
<1>1. r.capital \in Int /\ r.cash \in Int /\ r.realised \in Int /\ DOMAIN p = D /\ IsFiniteSet(D) /\ \A i \in D : p[i] \in Holding
  BY SimulationFacts
<1>2. \A i \in D : e[i] = price /\ e[i] \in Int
  OBVIOUS
<1> HIDE DEF p, e
<1>3. LET entered == SumFunction([i \in D |-> Proceeds(p[i], p[i].entry)])
          closed == SumFunction([i \in D |-> Proceeds(p[i], e[i])])
          made == SumFunction([i \in D |-> PnlRaw(p[i], e[i])])
      IN  entered \in Int /\ closed \in Int /\ made \in Int /\ closed = made + entered
  <2>1. IsFiniteSet(D) /\ (\A i \in D : p[i] \in Holding) /\ (\A i \in D : e[i] \in Int)
    BY <1>1, <1>2
  <2> QED
    BY <2>1, ResultSums, Zenon
<1> DEFINE entered == SumFunction([i \in D |-> Proceeds(p[i], p[i].entry)])
           closed == SumFunction([i \in D |-> Proceeds(p[i], e[i])])
           made == SumFunction([i \in D |-> PnlRaw(p[i], e[i])])
<1>4. Entered(r) = entered
  BY <1>1 DEF Entered, p
<1>5. Unrealised(r, price) = made
  <2>1. [i \in D |-> PnlRaw(p[i], e[i])] = [i \in D |-> PnlRaw(p[i], price)]
    BY <1>2
  <2> QED
    BY <1>1, <2>1 DEF Unrealised, p
<1>6. Equity(r, price) = r.cash + closed
  <2>1. \A i \in D : Proceeds(p[i], e[i]) = Direction(p[i]) * p[i].qty * price
    BY <1>1, <1>2, ResultFacts
  <2>2. [i \in D |-> Proceeds(p[i], e[i])] = [i \in D |-> Direction(p[i]) * p[i].qty * price]
    BY <2>1
  <2> QED
    BY <1>1, <2>2 DEF Equity, p
<1>7. entered \in Int /\ closed \in Int /\ made \in Int /\ closed = made + entered
  BY <1>3
<1> HIDE DEF entered, closed, made
<1>8. r.cash = r.capital + r.realised - entered
  BY <1>4 DEF Accounted
<1> QED
  BY <1>1, <1>4, <1>5, <1>6, <1>7, <1>8

\* The exits of a candle move what positions were entered for into cash and results.
LEMMA ExitsAccounted ==
  ASSUME NEW n \in Nat, NEW D, IsFiniteSet(D), NEW r \in Simulation(n, D), Accounted(r),
         NEW price \in Prices, NEW advice
  PROVE  LET q == AfterExits(r, price, advice) IN
         /\ \E E \in SUBSET D : q \in Simulation(n, E)
         /\ Accounted(q)
         /\ q.stage = r.stage /\ q.capital = r.capital /\ q.curve = r.curve
<1> DEFINE held == r.positions
           out == {i \in D : Exits(held[i], price, advice)}
           e == [i \in out |-> ExitPrice(held[i], price)]
           proceeds == [i \in out |-> Proceeds(held[i], e[i])]
           pnl == [i \in out |-> PnlRaw(held[i], e[i])]
           rest == D \ out
           all == [i \in D |-> Proceeds(held[i], held[i].entry)]
           q == AfterExits(r, price, advice)
<1>1. r.capital \in Nat /\ r.cash \in Int /\ r.realised \in Int /\ held \in [D -> Holding] /\ DOMAIN held = D /\ IsFiniteSet(D)
  BY SimulationFacts
<1>2. out \subseteq D /\ IsFiniteSet(out) /\ IsFiniteSet(rest) /\ rest \subseteq D /\ \A i \in D : held[i] \in Holding
  BY <1>1, FS_Subset
<1>3. \A i \in out : e[i] = ExitPrice(held[i], price) /\ e[i] \in Int
  <2> SUFFICES ASSUME NEW i \in out PROVE e[i] = ExitPrice(held[i], price) /\ e[i] \in Int
    OBVIOUS
  <2>1. held[i] \in Holding /\ price \in Int /\ Risk \in Int
    BY <1>2, BacktestAssumption
  <2>2. held[i].entry \in Int /\ Direction(held[i]) \in {1, -1}
    BY <2>1 DEF Holding, Direction
  <2>3. \A d \in {1, -1}, x, y \in Int : x - d * y \in Int
    BY SMT
  <2>4. ExitPrice(held[i], price) \in Int
    BY <2>1, <2>2, <2>3 DEF ExitPrice, StopPrice
  <2> QED
    BY <2>4
<1>4. q = [r EXCEPT !.cash = @ + SumFunction(proceeds), !.realised = @ + SumFunction(pnl), !.positions = [i \in rest |-> held[i]]]
  <2>1. proceeds = [i \in out |-> Proceeds(held[i], ExitPrice(held[i], price))]
    BY <1>3
  <2>2. pnl = [i \in out |-> PnlRaw(held[i], ExitPrice(held[i], price))]
    BY <1>3
  <2> QED
    BY <1>1, <2>1, <2>2 DEF AfterExits, Restrict
<1>5. /\ q.stage = r.stage /\ q.capital = r.capital /\ q.curve = r.curve /\ q.positions = [i \in rest |-> held[i]]
      /\ q.cash = r.cash + SumFunction(proceeds) /\ q.realised = r.realised + SumFunction(pnl)
  BY <1>4 DEF Simulation
<1>11. rest = D \ out
  OBVIOUS
<1> HIDE DEF q, held, e, out, rest
<1>6. LET entered == SumFunction([i \in out |-> Proceeds(held[i], held[i].entry)])
      IN  entered \in Int /\ SumFunction(proceeds) \in Int /\ SumFunction(pnl) \in Int
          /\ SumFunction(proceeds) = SumFunction(pnl) + entered
  BY <1>2, <1>3, ResultSums
<1> HIDE DEF proceeds, pnl
<1>7. Entered(r) = SumFunction([i \in out |-> Proceeds(held[i], held[i].entry)]) + Entered(q)
  <2>1. \A i \in D : all[i] = Proceeds(held[i], held[i].entry) /\ all[i] \in Int
    <3>1. ASSUME NEW i \in D PROVE all[i] = Proceeds(held[i], held[i].entry) /\ all[i] \in Int
      <4>1. held[i] \in Holding
        BY <1>2
      <4>2. held[i].entry \in Int
        BY <4>1 DEF Holding
      <4> QED
        BY <4>1, <4>2, ResultFacts
    <3> QED
      BY <3>1
  <2>2. Entered(r) = SumFunctionOnSet(all, D)
    BY <1>1 DEF Entered, SumFunction, held
  <2> DEFINE part == [i \in out |-> Proceeds(held[i], held[i].entry)]
             left == [i \in rest |-> Proceeds(held[i], held[i].entry)]
  <2>3. SumFunction(part) = SumFunctionOnSet(all, out)
    <3>1. DOMAIN part = out /\ \A i \in out : part[i] = all[i]
      BY <1>2
    <3> HIDE DEF part, all
    <3> QED
      BY <1>2, <3>1, SumSame DEF SumFunction
  <2>4. Entered(q) = SumFunctionOnSet(all, rest)
    <3>1. Entered(q) = SumFunction(left)
      <4>1. DOMAIN q.positions = rest /\ \A i \in rest : q.positions[i] = held[i]
        BY <1>5
      <4>2. [i \in DOMAIN q.positions |-> Proceeds(q.positions[i], q.positions[i].entry)] = left
        BY <4>1
      <4> QED
        BY <4>2 DEF Entered
    <3>2. DOMAIN left = rest /\ \A i \in rest : left[i] = all[i]
      BY <1>2
    <3> HIDE DEF left, all
    <3> QED
      BY <1>2, <3>1, <3>2, SumSame DEF SumFunction
  <2> HIDE DEF all
  <2>5. SumFunctionOnSet(all, D) = SumFunctionOnSet(all, out) + SumFunctionOnSet(all, D \ out)
    BY <1>1, <1>2, <2>1, SumParts
  <2> QED
    BY <1>11, <2>2, <2>3, <2>4, <2>5
<1>8. q \in Simulation(n, rest)
  <2>1. q.positions \in [rest -> Holding]
    BY <1>2, <1>5
  <2>2. q.cash \in Int /\ q.realised \in Int
    BY <1>1, <1>5, <1>6
  <2> QED
    BY <1>4, <1>5, <2>1, <2>2 DEF Simulation
<1>9. Entered(q) \in Int /\ Entered(r) \in Int
  <2> DEFINE f == [i \in rest |-> Proceeds(held[i], held[i].entry)]
  <2>2. Entered(q) = SumFunctionOnSet(f, rest)
    <3>1. DOMAIN q.positions = rest /\ \A i \in rest : q.positions[i] = held[i]
      BY <1>5
    <3>2. [i \in DOMAIN q.positions |-> Proceeds(q.positions[i], q.positions[i].entry)] = f
      BY <3>1
    <3> QED
      BY <3>2 DEF Entered, SumFunction
  <2>3. \A i \in rest : f[i] \in Int
    <3>1. \A i \in rest : held[i] \in Holding /\ held[i].entry \in Int
      BY <1>2 DEF Holding
    <3> QED
      BY <3>1, ResultFacts
  <2> HIDE DEF f
  <2>4. Entered(q) \in Int
    BY <1>2, <2>2, <2>3, SumType
  <2> QED
    BY <1>6, <1>7, <2>4
<1>10. Accounted(q)
  <2>1. r.cash = r.capital + r.realised - Entered(r)
    BY DEF Accounted
  <2> DEFINE out_entered == SumFunction([i \in out |-> Proceeds(held[i], held[i].entry)])
  <2>2. out_entered \in Int /\ SumFunction(proceeds) = SumFunction(pnl) + out_entered /\ Entered(r) = out_entered + Entered(q)
    BY <1>6, <1>7
  <2> HIDE DEF out_entered
  <2>3. q.cash = q.capital + q.realised - Entered(q)
    BY <1>1, <1>5, <1>6, <1>9, <2>1, <2>2
  <2> QED
    BY <2>3 DEF Accounted
<1> QED
  BY <1>2, <1>5, <1>8, <1>10 DEF q

\* An entry takes the name of the candle, which no position has yet, and its price out of the cash.
LEMMA EntryAccounted ==
  ASSUME NEW n \in Nat, NEW D \in SUBSET (1 .. n), NEW r \in Simulation(n, D), Accounted(r),
         Cardinality(D) <= MaxPositions, NEW price \in Prices, NEW q \in AfterEntry(r, price)
  PROVE  /\ \E E \in SUBSET (1 .. n + 1) : q \in Simulation(n, E) /\ Cardinality(E) <= MaxPositions
         /\ Accounted(q)
         /\ q.stage = r.stage /\ q.capital = r.capital /\ q.curve = r.curve
<1>1. IsFiniteSet(1 .. n) /\ IsFiniteSet(D)
  <2>1. IsFiniteSet(1 .. n)
    BY FS_Interval
  <2> QED
    BY <2>1, FS_Subset
<1>2. /\ r.capital \in Int /\ r.cash \in Int /\ r.realised \in Int /\ r.positions \in [D -> Holding]
      /\ DOMAIN r.positions = D /\ Len(r.curve) = n
  BY SimulationFacts
<1>3. CASE q = r
  BY <1>3
<1> DEFINE index == n + 1
           E == D \cup {index}
<1>4. CASE q # r
  <2>1. PICK pos \in [dir : {"LONG", "SHORT"}, entry : {price}, qty : 1 .. MaxQty] :
          /\ Cardinality(D) < MaxPositions
          /\ q = [r EXCEPT !.cash = @ - Direction(pos) * pos.qty * price,
                           !.positions = [i \in E |-> IF i = index THEN pos ELSE r.positions[i]]]
    <3> DEFINE m == Len(r.curve) + 1
               entering(pos) == [r EXCEPT !.cash = @ - Direction(pos) * pos.qty * price,
                                  !.positions = [i \in DOMAIN @ \cup {m} |-> IF i = m THEN pos ELSE @[i]]]
               chosen == {p \in [dir : {"LONG", "SHORT"}, entry : {price}, qty : 1 .. MaxQty] :
                            Cardinality(DOMAIN r.positions) < MaxPositions /\ p.qty * price <= r.cash}
    <3>1. AfterEntry(r, price) = {r} \cup {entering(pos) : pos \in chosen}
      BY DEF AfterEntry
    <3>2. PICK pos \in chosen : q = entering(pos)
      BY <1>4, <3>1
    <3>3. entering(pos) = [r EXCEPT !.cash = @ - Direction(pos) * pos.qty * price,
                                    !.positions = [i \in E |-> IF i = index THEN pos ELSE r.positions[i]]]
      BY <1>2
    <3> QED
      BY <1>2, <3>2, <3>3
  <2>2. pos \in Holding /\ pos.entry = price /\ price \in Int
    BY BacktestAssumption DEF Holding
  <2>3. /\ q.stage = r.stage /\ q.capital = r.capital /\ q.curve = r.curve /\ q.realised = r.realised
        /\ q.cash = r.cash - Direction(pos) * pos.qty * price
        /\ q.positions = [i \in E |-> IF i = index THEN pos ELSE r.positions[i]]
    BY <2>1 DEF Simulation
  <2>4. index \notin D /\ E \in SUBSET (1 .. n + 1)
    OBVIOUS
  <2>5. Cardinality(E) <= MaxPositions
    <3>1. Cardinality(E) = Cardinality(D) + 1
      BY <1>1, <2>4, FS_AddElement
    <3>2. Cardinality(D) \in Nat /\ MaxPositions \in Nat
      BY <1>1, FS_CardinalityType, BacktestAssumption
    <3> QED
      BY <2>1, <3>1, <3>2
  <2>6. Proceeds(pos, price) \in Int /\ Direction(pos) * pos.qty * price = Proceeds(pos, price)
    BY <2>2, ResultFacts
  <2>7. q.positions \in [E -> Holding]
    BY <1>2, <2>2, <2>3
  <2>8. q \in Simulation(n, E)
    <3>1. q.cash \in Int
      BY <1>2, <2>3, <2>6
    <3> HIDE DEF E, index
    <3> QED
      BY <2>1, <2>7, <3>1 DEF Simulation
  <2> DEFINE f == [i \in E |-> Proceeds(q.positions[i], q.positions[i].entry)]
             g == [i \in D |-> Proceeds(r.positions[i], r.positions[i].entry)]
  <2>9. Entered(q) = SumFunctionOnSet(f, E)
    BY <2>3 DEF Entered, SumFunction
  <2>10. Entered(r) = SumFunctionOnSet(g, D)
    BY <1>2 DEF Entered, SumFunction
  <2>11. \A i \in E : f[i] \in Int
    <3>1. ASSUME NEW i \in E PROVE f[i] \in Int
      <4>1. q.positions[i] \in Holding
        BY <2>7
      <4>2. q.positions[i].entry \in Int
        BY <4>1 DEF Holding
      <4> QED
        BY <4>1, <4>2, ResultFacts
    <3> QED
      BY <3>1
  <2>12. (\A i \in D : f[i] = g[i]) /\ f[index] = Proceeds(pos, price)
    BY <2>2, <2>3, <2>4
  <2> HIDE DEF f, g
  <2>13. SumFunctionOnSet(f, D) = SumFunctionOnSet(g, D)
    BY <1>1, <2>12, SumSame
  <2>14. SumFunctionOnSet(f, E) = f[index] + SumFunctionOnSet(f, D)
    BY <1>1, <2>4, <2>11, SumAdd
  <2>15. SumFunctionOnSet(f, D) \in Int
    BY <1>1, <2>11, SumType
  <2>16. Accounted(q)
    <3>1. r.cash = r.capital + r.realised - Entered(r)
      BY DEF Accounted
    <3>2. q.cash = q.capital + q.realised - Entered(q)
      BY <1>2, <2>3, <2>6, <2>9, <2>10, <2>12, <2>13, <2>14, <2>15, <3>1
    <3> QED
      BY <3>2 DEF Accounted
  <2> QED
    BY <2>3, <2>4, <2>5, <2>8, <2>16
<1> QED
  BY <1>3, <1>4

\* The point a candle adds to the curve.
LEMMA PointExplained ==
  ASSUME NEW n \in Nat, NEW D, IsFiniteSet(D), NEW r \in Simulation(n, D), Accounted(r), NEW price \in Prices
  PROVE  LET q == [r EXCEPT !.curve = Append(@, Equity(r, price)), !.price = price] IN
         /\ q \in Simulation(n + 1, D) /\ Len(q.curve) = n + 1 /\ q.curve # <<>> /\ q.positions = r.positions
         /\ q.stage = r.stage /\ q.capital = r.capital /\ q.price = price
         /\ Accounted(q) /\ Explained(q)
<1> DEFINE q == [r EXCEPT !.curve = Append(@, Equity(r, price)), !.price = price]
<1>1. price \in Int
  BY BacktestAssumption
<1>2. /\ Unrealised(r, price) \in Int /\ Equity(r, price) \in Int
      /\ Equity(r, price) = r.capital + r.realised + Unrealised(r, price)
  BY <1>1, EquityFacts
<1>3. /\ r.capital \in Nat /\ r.positions \in [D -> Holding]
      /\ DOMAIN r.positions = D /\ r.curve \in Seq(Int) /\ Len(r.curve) = n
  BY SimulationFacts
<1> DEFINE c == Append(r.curve, Equity(r, price))
<1>4. c \in Seq(Int) /\ Len(c) = n + 1 /\ c[n + 1] = Equity(r, price)
  BY <1>2, <1>3
<1>5. c \in [1 .. n + 1 -> Int] /\ c # <<>>
  <2>1. c \in [1 .. Len(c) -> Int] /\ (c = <<>> => Len(c) = 0)
    <3>1. c \in [1 .. Len(c) -> Int]
      BY <1>4, LenProperties, Zenon
    <3>2. c = <<>> => Len(c) = 0
      OBVIOUS
    <3> QED
      BY <3>1, <3>2
  <2> QED
    BY <1>4, <2>1
<1> HIDE DEF c
<1>6. /\ q.stage = r.stage /\ q.capital = r.capital /\ q.price = price /\ q.curve = c /\ q.positions = r.positions
      /\ q.cash = r.cash /\ q.realised = r.realised
  BY DEF Simulation, c
<1>7. q \in Simulation(n + 1, D)
  BY <1>3, <1>5 DEF Simulation, c
<1> HIDE DEF q
<1>8. Accounted(q)
  BY <1>6 DEF Accounted, Entered
<1>9. Explained(q)
  BY <1>2, <1>4, <1>6 DEF Explained, Unrealised
<1> QED
  BY <1>4, <1>5, <1>6, <1>7, <1>8, <1>9 DEF q

\* After the forced close nothing is open and the last point is the capital and the results.
LEMMA ClosingAccounted ==
  ASSUME NEW n \in Nat, NEW D, IsFiniteSet(D), NEW r \in Simulation(n, D), Accounted(r), Explained(r),
         r.curve = <<>> => r.realised = 0 /\ D = {}, r.curve # <<>> => r.price \in Prices
  PROVE  LET q == Closed(r)
         IN  /\ q \in Simulation(n, {}) /\ Accounted(q) /\ Explained(q)
             /\ q.stage = "done" /\ q.capital = r.capital /\ q.curve = r.curve /\ q.price = r.price
             /\ r.curve = <<>> => q.realised = 0
<1> DEFINE p == r.positions
           e == [i \in D |-> r.price]
           proceeds == [i \in D |-> Proceeds(p[i], e[i])]
           pnl == [i \in D |-> PnlRaw(p[i], e[i])]
           entered == [i \in D |-> Proceeds(p[i], p[i].entry)]
           q == Closed(r)
<1>1. /\ r.capital \in Nat /\ r.cash \in Int /\ r.realised \in Int /\ p \in [D -> Holding]
      /\ DOMAIN p = D /\ r.curve \in Seq(Int) /\ Len(r.curve) = n
  BY SimulationFacts
<1>2. \A i \in D : e[i] = r.price /\ e[i] \in Int /\ p[i] \in Holding
  <2>1. Prices \subseteq Int
    BY BacktestAssumption
  <2>2. D # {} => r.price \in Prices
    OBVIOUS
  <2> QED
    BY <1>1, <2>1, <2>2
<1>4. q = [r EXCEPT !.stage = "done", !.positions = <<>>, !.cash = @ + SumFunction(proceeds),
                    !.realised = @ + SumFunction(pnl)]
  <2>1. /\ proceeds = [i \in D |-> Proceeds(r.positions[i], r.price)] /\ pnl = [i \in D |-> PnlRaw(r.positions[i], r.price)]
    OBVIOUS
  <2> QED
    BY <1>1, <2>1 DEF Closed
<1>3. /\ q.stage = "done" /\ q.capital = r.capital /\ q.curve = r.curve /\ q.price = r.price /\ q.positions = <<>>
      /\ q.cash = r.cash + SumFunction(proceeds) /\ q.realised = r.realised + SumFunction(pnl)
  BY <1>4 DEF Simulation
<1>5. Entered(r) = SumFunction(entered) /\ Unrealised(r, r.price) = SumFunction(pnl)
  BY <1>1 DEF Entered, Unrealised
<1> HIDE DEF p, e
<1>6. LET a == SumFunction([i \in D |-> Proceeds(p[i], p[i].entry)])
          b == SumFunction([i \in D |-> Proceeds(p[i], e[i])])
          c == SumFunction([i \in D |-> PnlRaw(p[i], e[i])])
      IN  a \in Int /\ b \in Int /\ c \in Int /\ b = c + a
  <2>1. IsFiniteSet(D) /\ (\A i \in D : p[i] \in Holding) /\ (\A i \in D : e[i] \in Int)
    BY <1>2
  <2> QED
    BY <2>1, ResultSums, Zenon
<1>7. /\ SumFunction(entered) \in Int /\ SumFunction(proceeds) \in Int /\ SumFunction(pnl) \in Int
      /\ SumFunction(proceeds) = SumFunction(pnl) + SumFunction(entered)
  BY <1>6
<1>14. D = {} => SumFunction(pnl) = 0
  <2>1. DOMAIN pnl = D
    OBVIOUS
  <2> HIDE DEF pnl
  <2> QED
    BY <2>1, NothingSums
<1> HIDE DEF proceeds, pnl, entered
<1>8. q \in Simulation(n, {})
  <2>1. <<>> \in [{} -> Holding]
    OBVIOUS
  <2>2. q.cash \in Int /\ q.realised \in Int /\ q.positions \in [{} -> Holding]
    BY <1>1, <1>3, <1>7, <2>1
  <2>3. q = [r EXCEPT !.stage = "done", !.positions = q.positions, !.cash = q.cash, !.realised = q.realised]
    BY <1>3, <1>4
  <2> HIDE DEF q
  <2> QED
    BY <2>2, <2>3 DEF Simulation
<1> HIDE DEF q
<1>9. Entered(q) = 0 /\ Unrealised(q, q.price) = 0
  <2> DEFINE f == [i \in DOMAIN q.positions |-> Proceeds(q.positions[i], q.positions[i].entry)]
             g == [i \in DOMAIN q.positions |-> PnlRaw(q.positions[i], q.price)]
  <2>1. DOMAIN f = {} /\ DOMAIN g = {} /\ Entered(q) = SumFunction(f) /\ Unrealised(q, q.price) = SumFunction(g)
    BY <1>3 DEF Entered, Unrealised
  <2> HIDE DEF f, g
  <2> QED
    BY <2>1, NothingSums
<1>10. Accounted(q)
  BY <1>1, <1>3, <1>5, <1>7, <1>9 DEF Accounted
<1>11. Explained(q)
  <2>1. r.curve # <<>> => r.curve[Len(r.curve)] = r.capital + r.realised + SumFunction(pnl)
    BY <1>5 DEF Explained
  <2>2. q.curve # <<>> => q.curve[Len(q.curve)] = q.capital + q.realised + Unrealised(q, q.price)
    <3>1. q.curve[Len(q.curve)] = r.curve[Len(r.curve)]
      BY <1>3
    <3>2. q.capital + q.realised + Unrealised(q, q.price) = r.capital + r.realised + SumFunction(pnl)
      BY <1>1, <1>3, <1>7, <1>9
    <3> QED
      BY <1>3, <2>1, <3>1, <3>2, Zenon
  <2> QED
    BY <2>2 DEF Explained
<1>12. r.curve = <<>> => q.realised = 0
  BY <1>1, <1>3, <1>14
<1> QED
  BY <1>3, <1>8, <1>10, <1>11, <1>12 DEF q

-----------------------------------------------------------------------------
(* Backtest: the steps of a simulation                                     *)

\* What the invariant says of the simulation of a symbol.
Sound(s, r) ==
  /\ LET n == Len(r.curve)
         D == DOMAIN r.positions
     IN  r \in Simulation(n, D) /\ n <= Len(Dates[s]) /\ D \subseteq 1 .. n /\ Cardinality(D) <= MaxPositions
  /\ Explained(r) /\ Accounted(r) /\ Staged(s, r)

LEMMA InvFacts ==
  ASSUME BacktestInv
  PROVE  /\ DOMAIN sim = Universe /\ (\A s \in Universe : Sound(s, sim[s]))
         /\ warned \in BOOLEAN /\ failures \in 0 .. MaxFailures
  BY DEF BacktestInv, EquityIsExplained, BacktestTypes, Sound

LEMMA SoundFacts ==
  ASSUME NEW s, NEW r, Sound(s, r), NEW n, n = Len(r.curve), NEW D, D = DOMAIN r.positions
  PROVE  /\ n \in Nat /\ r \in Simulation(n, D) /\ n <= Len(Dates[s]) /\ D \in SUBSET (1 .. n) /\ Cardinality(D) <= MaxPositions
         /\ IsFiniteSet(D) /\ IsFiniteSet(1 .. n) /\ r.curve \in Seq(Int)
<1>1. r \in Simulation(n, D) /\ n <= Len(Dates[s]) /\ D \subseteq 1 .. n /\ Cardinality(D) <= MaxPositions
  BY DEF Sound
<1>2. r.curve \in [1 .. n -> Int]
  BY <1>1 DEF Simulation
<1>3. n \in Nat
  BY <1>2
<1>4. IsFiniteSet(1 .. n) /\ IsFiniteSet(D)
  <2>1. IsFiniteSet(1 .. n)
    BY <1>3, FS_Interval
  <2> QED
    BY <1>1, <2>1, FS_Subset
<1>5. r.curve \in Seq(Int)
  BY <1>2, <1>3
<1> QED
  BY <1>1, <1>3, <1>4, <1>5

\* A step of one simulation keeps the invariant when its new state is sound.
LEMMA SimulationStep ==
  ASSUME BacktestInv, ~Settled, NEW s \in Universe, NEW r, Sound(s, r), sim' = [sim EXCEPT ![s] = r], result' = result,
         warned' \in BOOLEAN, failures' \in 0 .. MaxFailures, warned => warned',
         ~warned' => (r.stage \in {"running", "done"} => Rate[s] * r.capital = Capital)
  PROVE  BacktestInv'
<1>1. DOMAIN sim = Universe /\ (\A t \in Universe : Sound(t, sim[t]))
  BY InvFacts
<1>2. DOMAIN sim' = Universe /\ (\A t \in Universe : Sound(t, sim'[t])) /\ (\A t \in Universe : t # s => sim'[t] = sim[t]) /\ sim'[s] = r
  BY <1>1
<1>3. result' = Missing
  BY DEF BacktestInv, WholeInv
<1>4. EquityIsExplained'
  BY <1>2 DEF EquityIsExplained, BacktestTypes, Sound
<1>5. \A t \in Universe : Accounted(sim'[t]) /\ Staged(t, sim'[t])
  BY <1>2 DEF Sound
<1>6. WholeInv'
  <2>1. ~warned => \A t \in Universe : sim[t].stage \in {"running", "done"} => Rate[t] * sim[t].capital = Capital
    BY DEF BacktestInv, WholeInv
  <2>2. ~warned' => \A t \in Universe : sim'[t].stage \in {"running", "done"} => Rate[t] * sim'[t].capital = Capital
    BY <1>2, <2>1
  <2> QED
    BY <1>3, <2>2 DEF WholeInv
<1>7. PortfolioIsExplained'
  BY <1>3 DEF PortfolioIsExplained
<1> QED
  BY <1>4, <1>5, <1>6, <1>7 DEF BacktestInv

\* A simulation that did not begin.
LEMMA NothingYet ==
  ASSUME NEW s \in Universe, NEW r, NEW capital \in Nat, NEW phase \in {"waiting", "running", "skipped"},
         r = Fresh(phase, capital), phase = "running" \/ capital = 0
  PROVE  Sound(s, r)
<1>1. /\ r.stage = phase /\ r.capital = capital /\ r.cash = capital /\ r.curve = <<>> /\ r.positions = <<>>
      /\ r.price = Missing /\ r.realised = 0
  BY DEF Fresh
<1>2. Len(r.curve) = 0 /\ DOMAIN r.positions = {} /\ Cardinality({}) = 0
  BY <1>1, FS_EmptySet
<1>3. r \in Simulation(0, {})
  <2>1. <<>> \in [{} -> Holding] /\ <<>> \in [1 .. 0 -> Int]
    OBVIOUS
  <2>2. 0 \in Int /\ capital \in Int /\ 0 \in Nat
    OBVIOUS
  <2> QED
    BY <1>1, <2>1, <2>2 DEF Simulation, Fresh
<1>4. Entered(r) = 0
  <2> DEFINE f == [i \in DOMAIN r.positions |-> Proceeds(r.positions[i], r.positions[i].entry)]
  <2>1. DOMAIN f = {} /\ Entered(r) = SumFunction(f)
    BY <1>2 DEF Entered
  <2> HIDE DEF f
  <2> QED
    BY <2>1, NothingSums
<1>5. Accounted(r) /\ Explained(r)
  BY <1>1, <1>4 DEF Accounted, Explained
<1>6. Staged(s, r)
  <2>1. phase # "running" => r = Fresh(phase, 0)
    OBVIOUS
  <2> QED
    BY <1>1, <2>1 DEF Staged
<1>7. 0 <= Len(Dates[s]) /\ 0 <= MaxPositions
  BY BacktestAssumption, DatesAssumption
<1> QED
  BY <1>2, <1>3, <1>5, <1>6, <1>7 DEF Sound

LEMMA BacktestStarts == BacktestInit => BacktestInv
<1> SUFFICES ASSUME BacktestInit PROVE BacktestInv
  OBVIOUS
<1>1. \A s \in Universe : sim[s] = Fresh("waiting", 0)
  BY DEF BacktestInit
<1>2. \A s \in Universe : Sound(s, sim[s])
  BY <1>1, NothingYet
<1>3. EquityIsExplained
  <2>1. warned \in BOOLEAN /\ failures \in 0 .. MaxFailures /\ DOMAIN sim = Universe
    <3>1. warned = FALSE /\ failures = 0 /\ sim = [s \in Universe |-> Fresh("waiting", 0)]
      BY DEF BacktestInit
    <3>2. 0 \in 0 .. MaxFailures
      BY BacktestAssumption
    <3> QED
      BY <3>1, <3>2
  <2> QED
    BY <1>2, <2>1 DEF EquityIsExplained, BacktestTypes, Sound
<1>4. \A s \in Universe : Accounted(sim[s]) /\ Staged(s, sim[s])
  BY <1>2 DEF Sound
<1>5. \A s \in Universe : sim[s].stage = "waiting"
  BY <1>1 DEF Fresh
<1> QED
  BY <1>3, <1>4, <1>5 DEF BacktestInv, PortfolioIsExplained, WholeInv, BacktestInit

\* The capital of a symbol in its currency is worth the capital of the request.
LEMMA CapitalConverted ==
  ASSUME NEW s \in Universe
  PROVE  OwnCapital(s) \in Nat /\ Rate[s] * OwnCapital(s) = Capital
<1>1. \E c \in 1 .. Capital : Rate[s] * c = Capital
  BY BacktestAssumption
<1>2. OwnCapital(s) \in 1 .. Capital /\ Rate[s] * OwnCapital(s) = Capital
  BY <1>1 DEF OwnCapital
<1> QED
  BY <1>2, BacktestAssumption

LEMMA BeginKeeps ==
  ASSUME BacktestInv, NEW s \in Universe, Begin(s)
  PROVE  BacktestInv'
<1>1. PICK lost \in SUBSET Conversions({s}) :
        /\ Failing(lost)
        /\ sim' = [sim EXCEPT ![s] = Fresh("running", IF lost = {} THEN OwnCapital(s) ELSE Capital)]
  BY DEF Begin
<1> DEFINE capital == IF lost = {} THEN OwnCapital(s) ELSE Capital
           r == Fresh("running", capital)
<1>2. capital \in Nat
  BY CapitalConverted, BacktestAssumption
<1>3. r.stage = "running" /\ r.capital = capital
  BY DEF Fresh
<1>4. Sound(s, r)
  BY <1>2, NothingYet
<1>5. warned' \in BOOLEAN /\ (warned => warned') /\ failures' \in 0 .. MaxFailures /\ (~warned' => lost = {})
  <2>1. IsFiniteSet(lost)
    <3>1. IsFiniteSet({s}) /\ lost \subseteq {s}
      BY FS_Singleton DEF Conversions
    <3> QED
      BY <3>1, FS_Subset
  <2>2. Cardinality(lost) \in Nat
    BY <2>1, FS_CardinalityType
  <2>3. warned \in BOOLEAN /\ failures \in 0 .. MaxFailures
    BY InvFacts
  <2>4. failures' = failures + Cardinality(lost) /\ failures' <= MaxFailures /\ warned' = (warned \/ lost # {})
    BY <1>1 DEF Failing
  <2>5. failures' \in 0 .. MaxFailures
    BY <2>2, <2>3, <2>4, BacktestAssumption
  <2>6. warned' \in BOOLEAN /\ (warned => warned') /\ (~warned' => lost = {})
    BY <2>3, <2>4, Zenon
  <2> QED
    BY <2>5, <2>6
<1>6. ~warned' => Rate[s] * r.capital = Capital
  BY <1>3, <1>5, CapitalConverted
<1>7. sim' = [sim EXCEPT ![s] = r] /\ result' = result /\ ~Settled
  BY <1>1 DEF Begin
<1> HIDE DEF r
<1> QED
  BY <1>4, <1>5, <1>6, <1>7, SimulationStep

LEMMA SkipKeeps ==
  ASSUME BacktestInv, NEW s \in Universe, Skip(s)
  PROVE  BacktestInv'
<1> DEFINE r == Fresh("skipped", 0)
<1>1. Sound(s, r)
  BY NothingYet
<1>3. sim' = [sim EXCEPT ![s] = r]
  BY DEF Skip
<1>4. r.stage = "skipped"
  BY DEF Fresh
<1>5. warned' \in BOOLEAN /\ (warned => warned') /\ failures' \in 0 .. MaxFailures /\ result' = result /\ ~Settled
  BY InvFacts, BacktestAssumption DEF Skip
<1> HIDE DEF r
<1> QED
  BY <1>1, <1>3, <1>4, <1>5, SimulationStep

LEMMA CandleKeeps ==
  ASSUME BacktestInv, NEW s \in Universe, Candle(s)
  PROVE  BacktestInv'
<1> DEFINE n == Len(sim[s].curve)
           D == DOMAIN sim[s].positions
<1>1. Sound(s, sim[s]) /\ Accounted(sim[s])
  BY InvFacts DEF Sound
<1>2. PICK price \in Prices, advice \in SUBSET {"LONG", "SHORT"} :
        \E r \in AfterEntry(AfterExits(sim[s], price, advice), price) :
           sim' = [sim EXCEPT ![s] = [r EXCEPT !.curve = Append(@, Equity(r, price)), !.price = price]]
  BY DEF Candle
<1> DEFINE before == AfterExits(sim[s], price, advice)
<1>3. PICK r \in AfterEntry(before, price) :
         sim' = [sim EXCEPT ![s] = [r EXCEPT !.curve = Append(@, Equity(r, price)), !.price = price]]
  BY <1>2
<1>4. /\ n \in Nat /\ sim[s] \in Simulation(n, D) /\ D \in SUBSET (1 .. n) /\ Cardinality(D) <= MaxPositions
      /\ IsFiniteSet(D) /\ IsFiniteSet(1 .. n) /\ n <= Len(Dates[s])
  BY <1>1, SoundFacts
<1>5. sim[s].stage = "running" /\ n < Len(Dates[s])
  BY DEF Candle
<1> HIDE DEF n, D, before
<1>6. PICK E \in SUBSET D : before \in Simulation(n, E)
  BY <1>1, <1>4, ExitsAccounted DEF before
<1>7. Accounted(before) /\ before.stage = "running" /\ before.capital = sim[s].capital
  BY <1>1, <1>4, <1>5, ExitsAccounted DEF before
<1>8. E \in SUBSET (1 .. n) /\ Cardinality(E) <= MaxPositions
  <2>1. Cardinality(E) <= Cardinality(D) /\ Cardinality(E) \in Nat /\ Cardinality(D) \in Nat
    BY <1>4, FS_Subset, FS_CardinalityType
  <2> QED
    BY <1>4, <2>1, BacktestAssumption
<1>9. PICK F \in SUBSET (1 .. n + 1) : r \in Simulation(n, F) /\ Cardinality(F) <= MaxPositions
  BY <1>4, <1>6, <1>7, <1>8, EntryAccounted
<1>10. Accounted(r) /\ r.stage = "running" /\ r.capital = sim[s].capital
  BY <1>4, <1>6, <1>7, <1>8, EntryAccounted
<1>11. IsFiniteSet(F)
  <2>1. n + 1 \in Nat /\ 1 \in Int
    BY <1>4
  <2>2. IsFiniteSet(1 .. n + 1)
    BY <2>1, FS_Interval
  <2> QED
    BY <2>2, FS_Subset
<1> DEFINE q == [r EXCEPT !.curve = Append(@, Equity(r, price)), !.price = price]
<1>12. /\ q \in Simulation(n + 1, F) /\ Len(q.curve) = n + 1 /\ q.curve # <<>> /\ q.positions = r.positions
       /\ q.stage = r.stage /\ q.capital = r.capital /\ q.price = price
       /\ Accounted(q) /\ Explained(q)
  BY <1>4, <1>9, <1>10, <1>11, PointExplained
<1>13. DOMAIN q.positions = F
  BY <1>12 DEF Simulation
<1> HIDE DEF q
<1>14. Staged(s, q)
  BY <1>10, <1>12 DEF Staged
<1>15. Sound(s, q)
  <2>1. n + 1 <= Len(Dates[s])
    BY <1>4, <1>5, DatesAssumption
  <2> QED
    BY <1>9, <1>12, <1>13, <1>14, <2>1 DEF Sound
<1>16. sim' = [sim EXCEPT ![s] = q] /\ result' = result /\ ~Settled /\ warned' = warned /\ failures' = failures
  BY <1>3 DEF Candle, q
<1>17. ~warned' => Rate[s] * q.capital = Capital
  BY <1>5, <1>10, <1>12, <1>16 DEF BacktestInv, WholeInv
<1> QED
  BY <1>15, <1>16, <1>17, InvFacts, SimulationStep

LEMMA ForcedCloseKeeps ==
  ASSUME BacktestInv, NEW s \in Universe, ForcedClose(s)
  PROVE  BacktestInv'
<1> DEFINE r == sim[s]
           n == Len(r.curve)
           D == DOMAIN r.positions
           q == Closed(r)
<1>1. Sound(s, r) /\ Accounted(r) /\ Explained(r) /\ Staged(s, r)
  BY InvFacts DEF Sound
<1>2. sim' = [sim EXCEPT ![s] = q] /\ result' = result /\ ~Settled /\ warned' = warned /\ failures' = failures
  BY DEF ForcedClose
<1>3. r.stage = "running" /\ n = Len(Dates[s])
  BY DEF ForcedClose
<1>4. n \in Nat /\ r \in Simulation(n, D) /\ D \in SUBSET (1 .. n) /\ IsFiniteSet(D) /\ r.curve \in Seq(Int)
  BY <1>1, SoundFacts
<1>5. (r.curve = <<>> => r.realised = 0 /\ D = {}) /\ (r.curve # <<>> => r.price \in Prices)
  <2>1. r.curve = <<>> => n = 0
    OBVIOUS
  <2>2. n = 0 => D = {}
    BY <1>4
  <2>3. IF r.curve = <<>> THEN r.realised = 0 ELSE r.price \in Prices
    BY <1>1 DEF Staged
  <2> QED
    BY <2>1, <2>2, <2>3
<1>10. D = DOMAIN r.positions /\ n = Len(r.curve)
  OBVIOUS
<1> HIDE DEF n, D, r
<1>6. /\ q \in Simulation(n, {}) /\ Accounted(q) /\ Explained(q)
      /\ q.stage = "done" /\ q.capital = r.capital /\ q.curve = r.curve /\ q.price = r.price
      /\ r.curve = <<>> => q.realised = 0
  BY <1>1, <1>4, <1>5, ClosingAccounted
<1>7. DOMAIN q.positions = {}
  BY <1>6 DEF Simulation
<1> HIDE DEF q
<1>8. Staged(s, q)
  BY <1>3, <1>5, <1>6, <1>7, <1>10 DEF Staged
<1>9. Sound(s, q)
  <2>1. Cardinality({}) = 0 /\ 0 <= MaxPositions
    BY FS_EmptySet, BacktestAssumption
  <2>2. n <= Len(Dates[s])
    BY <1>3, <1>4
  <2> QED
    BY <1>6, <1>7, <1>8, <1>10, <2>1, <2>2 DEF Sound
<1>11. ~warned' => Rate[s] * q.capital = Capital
  BY <1>2, <1>3, <1>6 DEF BacktestInv, WholeInv, r
<1> QED
  BY <1>2, <1>9, <1>11, InvFacts, SimulationStep

-----------------------------------------------------------------------------
(* Backtest: dates                                                         *)

\* A sequence has finitely many values.
LEMMA FiniteRange ==
  ASSUME NEW S, NEW q \in Seq(S)
  PROVE  IsFiniteSet(Range(q))
<1>1. Len(q) \in Nat /\ q \in [1 .. Len(q) -> S] /\ DOMAIN q = 1 .. Len(q)
  BY LenProperties, Zenon
<1>2. Range(q) = {q[i] : i \in 1 .. Len(q)}
  BY <1>1 DEF Range
<1>3. q \in Surjection(1 .. Len(q), Range(q))
  BY <1>1, <1>2 DEF Surjection
<1>4. IsFiniteSet(1 .. Len(q))
  BY <1>1, FS_Interval
<1> QED
  BY <1>3, <1>4, FS_Surjection

LEMMA DateFacts ==
  ASSUME NEW s \in Universe
  PROVE  /\ Dates[s] \in Seq(Nat) /\ Len(Dates[s]) \in Nat /\ DOMAIN Dates[s] = 1 .. Len(Dates[s])
         /\ \A i \in DOMAIN Dates[s] : Dates[s][i] \in Nat
         /\ \A i, j \in DOMAIN Dates[s] : i < j => Dates[s][i] < Dates[s][j]
         /\ IsFiniteSet(Range(Dates[s]))
         /\ \A t : t \in Range(Dates[s]) <=> \E i \in DOMAIN Dates[s] : Dates[s][i] = t
<1>1. Dates[s] \in Seq(Nat) /\ \A i, j \in DOMAIN Dates[s] : i < j => Dates[s][i] < Dates[s][j]
  BY DatesAssumption
<1>2. Len(Dates[s]) \in Nat /\ DOMAIN Dates[s] = 1 .. Len(Dates[s]) /\ \A i \in DOMAIN Dates[s] : Dates[s][i] \in Nat
  BY <1>1
<1>3. IsFiniteSet(Range(Dates[s]))
  BY <1>1, FiniteRange
<1>4. \A t : t \in Range(Dates[s]) <=> \E i \in DOMAIN Dates[s] : Dates[s][i] = t
  BY Zenon DEF Range
<1> QED
  BY <1>1, <1>2, <1>3, <1>4

LEMMA SucceededFacts == Succeeded \subseteq Universe /\ IsFiniteSet(Succeeded)
<1>1. IsFiniteSet(Universe)
  BY BacktestAssumption, FiniteRange DEF Universe
<1>2. Succeeded \subseteq Universe
  BY DEF Succeeded
<1> QED
  BY <1>1, <1>2, FS_Subset

LEMMA AllDatesFacts ==
  /\ AllDates \subseteq Nat /\ IsFiniteSet(AllDates)
  /\ \A t : t \in AllDates <=> \E s \in Succeeded : t \in Range(Dates[s])
<1> DEFINE f == [s \in Succeeded |-> Range(Dates[s])]
           F == {Range(Dates[s]) : s \in Succeeded}
<1>1. f \in Surjection(Succeeded, F)
  BY DEF Surjection
<1>2. IsFiniteSet(F)
  <2> HIDE DEF f, F
  <2> QED
    BY <1>1, SucceededFacts, FS_Surjection
<1>3. \A T \in F : IsFiniteSet(T) /\ T \subseteq Nat
  <2>1. ASSUME NEW s \in Succeeded PROVE IsFiniteSet(Range(Dates[s])) /\ Range(Dates[s]) \subseteq Nat
    <3>1. s \in Universe
      BY SucceededFacts
    <3>2. ASSUME NEW t \in Range(Dates[s]) PROVE t \in Nat
      <4>1. PICK i \in DOMAIN Dates[s] : Dates[s][i] = t
        BY <3>1, DateFacts
      <4> QED
        BY <3>1, <4>1, DateFacts
    <3> QED
      BY <3>1, <3>2, DateFacts
  <2> QED
    BY <2>1
<1>4. AllDates = UNION F
  BY DEF AllDates
<1>5. \A t : t \in AllDates <=> \E s \in Succeeded : t \in Range(Dates[s])
  BY DEF AllDates
<1> HIDE DEF F
<1> QED
  BY <1>2, <1>3, <1>4, <1>5, FS_UNION

\* The last value of a curve that is known after its first k points.
After(s, k) == IF k = 0 THEN sim[s].capital ELSE sim[s].curve[k]

\* The candles of a symbol that are known on a date.
Known(s, t) == {i \in DOMAIN Dates[s] : Dates[s][i] <= t}

LEMMA LastKnownIs ==
  ASSUME NEW s \in Universe, NEW t, NEW k \in Nat, Known(s, t) = 1 .. k
  PROVE  LastKnown(s, t) = After(s, k)
<1>1. CASE k = 0
  <2>1. Known(s, t) = {}
    BY <1>1
  <2> QED
    BY <1>1, <2>1 DEF LastKnown, Known, After
<1>2. CASE k # 0
  <2>1. IsFiniteSet(1 .. k) /\ 1 .. k # {} /\ 1 .. k \subseteq Int /\ k \in 1 .. k
    <3>1. IsFiniteSet(1 .. k)
      BY FS_Interval
    <3> QED
      BY <1>2, <3>1
  <2>2. Max(1 .. k) \in 1 .. k /\ \A i \in 1 .. k : i <= Max(1 .. k)
    BY <2>1, Extremes
  <2>3. Max(1 .. k) = k
    BY <2>1, <2>2
  <2>4. LastKnown(s, t) = sim[s].curve[Max(Known(s, t))]
    BY <2>1 DEF LastKnown, Known
  <2> QED
    BY <1>2, <2>3, <2>4 DEF After
<1> QED
  BY <1>1, <1>2

\* What the invariant says of a symbol that has its result.
LEMMA DoneFacts ==
  ASSUME BacktestInv, NEW s \in Succeeded
  PROVE  /\ s \in Universe /\ Rate[s] \in Int /\ Len(Dates[s]) \in Nat
         /\ sim[s].capital \in Int /\ sim[s].realised \in Int
         /\ \A k \in 0 .. Len(Dates[s]) : After(s, k) \in Int
         /\ After(s, Len(Dates[s])) = sim[s].capital + sim[s].realised
         /\ ~warned => Rate[s] * sim[s].capital = Capital
<1>1. s \in Universe /\ sim[s].stage = "done"
  BY DEF Succeeded
<1> DEFINE r == sim[s]
           n == Len(r.curve)
<1>2. Sound(s, r)
  BY <1>1, InvFacts
<1>3. n = Len(Dates[s]) /\ DOMAIN r.positions = {} /\ (r.curve = <<>> => r.realised = 0)
  BY <1>1, <1>2 DEF Sound, Staged
<1>4. n \in Nat /\ r \in Simulation(n, {})
  BY <1>2, <1>3, SoundFacts
<1>5. r.capital \in Nat /\ r.realised \in Int /\ r.curve \in [1 .. n -> Int] /\ (r.curve = <<>> <=> n = 0)
  BY <1>4, SimulationFacts DEF Simulation
<1>6. Unrealised(r, r.price) = 0
  <2> DEFINE g == [i \in DOMAIN r.positions |-> PnlRaw(r.positions[i], r.price)]
  <2>1. DOMAIN g = {} /\ Unrealised(r, r.price) = SumFunction(g)
    BY <1>3 DEF Unrealised
  <2> HIDE DEF g
  <2> QED
    BY <2>1, NothingSums
<1>7. r.curve # <<>> => r.curve[n] = r.capital + r.realised + Unrealised(r, r.price)
  BY <1>2 DEF Sound, Explained
<1>8. ~warned => Rate[s] * r.capital = Capital
  BY <1>1 DEF BacktestInv, WholeInv
<1>9. Rate[s] \in Int
  BY <1>1, BacktestAssumption
<1>10. \A k \in 0 .. n : After(s, k) \in Int
  BY <1>4, <1>5 DEF After
<1>11. After(s, n) = r.capital + r.realised
  BY <1>3, <1>4, <1>5, <1>6, <1>7 DEF After
<1> QED
  BY <1>1, <1>3, <1>4, <1>5, <1>8, <1>9, <1>10, <1>11

\* The curves of two successive dates: a symbol with a candle on the later one moves by what it made.
LEMMA CurveMoves ==
  ASSUME BacktestInv, NEW s \in Succeeded, NEW t \in AllDates,
         NEW earlier, earlier = {d \in AllDates : d < t},
         NEW base, base = IF earlier = {} THEN sim[s].capital ELSE LastKnown(s, Max(earlier))
  PROVE  /\ LastKnown(s, t) \in Int /\ base \in Int
         /\ t \in Range(Dates[s]) => LastKnown(s, t) - base = sim[s].curve[CandleOf(s, t)]
              - IF CandleOf(s, t) = 1 THEN sim[s].capital ELSE sim[s].curve[CandleOf(s, t) - 1]
         /\ t \notin Range(Dates[s]) => LastKnown(s, t) = base
<1> DEFINE D == Dates[s]
           n == Len(D)
           e == Max(earlier)
<1>1. s \in Universe /\ t \in Nat
  BY DoneFacts, AllDatesFacts
<1>2. /\ n \in Nat /\ DOMAIN D = 1 .. n /\ (\A i \in 1 .. n : D[i] \in Nat)
      /\ \A i, j \in 1 .. n : i < j => D[i] < D[j]
  BY <1>1, DateFacts
<1>3. \A i \in 1 .. n : D[i] \in AllDates
  BY <1>1, <1>2, DateFacts, AllDatesFacts
<1>4. earlier # {} => e \in AllDates /\ e \in Nat /\ e < t /\ \A d \in AllDates : d < t => d <= e
  <2>1. IsFiniteSet(earlier) /\ earlier \subseteq Int
    <3>1. earlier \subseteq AllDates
      OBVIOUS
    <3>2. IsFiniteSet(AllDates) /\ AllDates \subseteq Int
      BY AllDatesFacts
    <3>3. IsFiniteSet(earlier)
      BY <3>1, <3>2, FS_Subset
    <3> QED
      BY <3>1, <3>2, <3>3
  <2>2. earlier # {} => e \in earlier /\ \A d \in earlier : d <= e
    BY <2>1, Extremes
  <2> QED
    BY <2>2, AllDatesFacts
<1>5. earlier = {} => \A i \in 1 .. n : ~(D[i] < t)
  BY <1>3
<1> HIDE DEF e
<1>6. base = IF earlier = {} THEN After(s, 0) ELSE LastKnown(s, e)
  BY DEF e, After
<1>7. \A k \in 0 .. n : After(s, k) \in Int
  BY DoneFacts
\* The last candle up to a date.
<1>8. \E k \in 0 .. n : Known(s, t) = 1 .. k
  <2>1. CASE Known(s, t) = {}
    <3>1. Known(s, t) = 1 .. 0 /\ 0 \in 0 .. n
      BY <1>2, <2>1
    <3> QED
      BY <3>1
  <2>2. CASE Known(s, t) # {}
    <3>1. Known(s, t) \subseteq 1 .. n
      BY <1>2 DEF Known
    <3>2. IsFiniteSet(Known(s, t)) /\ Known(s, t) \subseteq Int
      <4>1. IsFiniteSet(1 .. n)
        BY <1>2, FS_Interval
      <4> QED
        BY <3>1, <4>1, FS_Subset
    <3> DEFINE k == Max(Known(s, t))
    <3>3. k \in Known(s, t) /\ \A i \in Known(s, t) : i <= k
      BY <2>2, <3>2, Extremes
    <3> HIDE DEF k
    <3>4. k \in 1 .. n /\ D[k] <= t
      BY <3>1, <3>3 DEF Known
    <3>5. \A i \in 1 .. k : i \in 1 .. n /\ D[i] <= t
      <4> SUFFICES ASSUME NEW i \in 1 .. k PROVE i \in 1 .. n /\ D[i] <= t
        OBVIOUS
      <4>1. i \in 1 .. n /\ (i = k \/ D[i] < D[k])
        BY <1>2, <3>4
      <4> QED
        BY <1>1, <1>2, <3>4, <4>1
    <3>6. Known(s, t) = 1 .. k
      BY <1>2, <3>1, <3>3, <3>5 DEF Known
    <3> QED
      BY <3>4, <3>6
  <2> QED
    BY <2>1, <2>2
<1>9. CASE t \notin Range(D)
  <2>1. \A i \in 1 .. n : D[i] # t
    BY <1>1, <1>2, <1>9, DateFacts
  <2>2. CASE earlier = {}
    <3>1. Known(s, t) = 1 .. 0
      BY <1>1, <1>2, <1>5, <2>1, <2>2 DEF Known
    <3>2. LastKnown(s, t) = After(s, 0)
      BY <1>1, <3>1, LastKnownIs
    <3> QED
      BY <1>2, <1>6, <1>7, <1>9, <2>2, <3>2
  <2>3. CASE earlier # {}
    <3>1. Known(s, t) = Known(s, e)
      BY <1>1, <1>2, <1>3, <1>4, <2>1, <2>3 DEF Known
    <3>2. LastKnown(s, t) = LastKnown(s, e)
      BY <3>1 DEF LastKnown, Known
    <3>3. LastKnown(s, t) \in Int
      BY <1>1, <1>7, <1>8, LastKnownIs
    <3> QED
      BY <1>6, <1>9, <2>3, <3>2, <3>3
  <2> QED
    BY <2>2, <2>3
<1>10. CASE t \in Range(D)
  <2> DEFINE k == CandleOf(s, t)
  <2>1. k \in 1 .. n /\ D[k] = t
    <3>1. \E i \in DOMAIN D : D[i] = t
      BY <1>1, <1>10, DateFacts
    <3> QED
      BY <1>2, <3>1 DEF CandleOf
  <2> HIDE DEF k
  <2>2. \A i \in 1 .. n : (i <= k <=> D[i] <= t) /\ (i <= k - 1 <=> D[i] < t)
    <3> SUFFICES ASSUME NEW i \in 1 .. n PROVE (i <= k <=> D[i] <= t) /\ (i <= k - 1 <=> D[i] < t)
      OBVIOUS
    <3>1. /\ i < k => D[i] < D[k]
          /\ k < i => D[k] < D[i]
          /\ i = k => D[i] = D[k]
      BY <1>2, <2>1
    <3> QED
      BY <1>1, <1>2, <2>1, <3>1
  <2>3. Known(s, t) = 1 .. k
    BY <1>2, <2>1, <2>2 DEF Known
  <2>4. LastKnown(s, t) = After(s, k)
    BY <1>1, <2>1, <2>3, LastKnownIs
  <2>5. base = After(s, k - 1)
    <3>1. CASE earlier = {}
      <4>1. k = 1
        BY <1>2, <1>5, <2>1, <2>2, <3>1
      <4> QED
        BY <1>6, <3>1, <4>1
    <3>2. CASE earlier # {}
      <4>1. \A i \in 1 .. n : D[i] <= e <=> D[i] < t
        BY <1>1, <1>2, <1>3, <1>4, <3>2
      <4>2. Known(s, e) = 1 .. (k - 1)
        BY <1>2, <2>1, <2>2, <4>1 DEF Known
      <4>3. LastKnown(s, e) = After(s, k - 1)
        BY <1>1, <2>1, <4>2, LastKnownIs
      <4> QED
        BY <1>6, <3>2, <4>3
    <3> QED
      BY <3>1, <3>2
  <2>6. After(s, k) \in Int /\ After(s, k - 1) \in Int
    BY <1>2, <1>7, <2>1
  <2>7. After(s, k) = sim[s].curve[k] /\ After(s, k - 1) = IF k = 1 THEN sim[s].capital ELSE sim[s].curve[k - 1]
    BY <2>1 DEF After
  <2> QED
    BY <1>10, <2>4, <2>5, <2>6, <2>7 DEF k
<1> QED
  BY <1>9, <1>10

\* On the last date every curve is at its end.
LEMMA CurveEnds ==
  ASSUME BacktestInv, NEW s \in Succeeded, AllDates # {}
  PROVE  LastKnown(s, Max(AllDates)) = sim[s].capital + sim[s].realised
<1> DEFINE n == Len(Dates[s])
           t == Max(AllDates)
<1>1. s \in Universe /\ n \in Nat /\ DOMAIN Dates[s] = 1 .. n
  BY DoneFacts, DateFacts
<1>2. \A d \in AllDates : d <= t
  <2>1. AllDates \subseteq Int
    BY AllDatesFacts
  <2> QED
    BY <2>1, AllDatesFacts, Extremes
<1>3. \A i \in 1 .. n : Dates[s][i] \in AllDates
  BY <1>1, DateFacts, AllDatesFacts
<1> HIDE DEF t
<1>4. Known(s, t) = 1 .. n
  BY <1>1, <1>2, <1>3 DEF Known
<1>5. LastKnown(s, t) = After(s, n)
  BY <1>1, <1>4, LastKnownIs
<1> QED
  BY <1>5, DoneFacts DEF t

-----------------------------------------------------------------------------
(* Backtest: the portfolio                                                 *)

\* When the rows of a part move, the total moves by the moves.
LEMMA SumMoves ==
  ASSUME NEW S, IsFiniteSet(S), NEW T, T \subseteq S, NEW f, NEW g, NEW m,
         \A x \in S : f[x] \in Int /\ g[x] \in Int,
         \A x \in T : m[x] \in Int /\ f[x] = m[x] + g[x],
         \A x \in S \ T : f[x] = g[x]
  PROVE  SumFunctionOnSet(f, S) = SumFunctionOnSet(m, T) + SumFunctionOnSet(g, S)
<1>1. IsFiniteSet(T) /\ IsFiniteSet(S \ T)
  BY FS_Subset
<1>2. SumFunctionOnSet(f, S) = SumFunctionOnSet(f, T) + SumFunctionOnSet(f, S \ T)
  BY SumParts
<1>3. SumFunctionOnSet(g, S) = SumFunctionOnSet(g, T) + SumFunctionOnSet(g, S \ T)
  BY SumParts
<1>4. SumFunctionOnSet(f, S \ T) = SumFunctionOnSet(g, S \ T)
  BY <1>1, SumSame
<1>5. SumFunctionOnSet(f, T) = SumFunctionOnSet(m, T) + SumFunctionOnSet(g, T)
  <2>1. \A x \in T : m[x] \in Int /\ g[x] \in Int /\ f[x] = m[x] + g[x]
    OBVIOUS
  <2> QED
    BY <1>1, <2>1, SumPlus
<1>6. SumFunctionOnSet(m, T) \in Int /\ SumFunctionOnSet(g, T) \in Int /\ SumFunctionOnSet(g, S \ T) \in Int
  <2>1. (\A x \in T : m[x] \in Int) /\ (\A x \in T : g[x] \in Int) /\ (\A x \in S \ T : g[x] \in Int)
    OBVIOUS
  <2> QED
    BY <1>1, <2>1, SumType
<1> QED
  BY <1>2, <1>3, <1>4, <1>5, <1>6

\* The amounts of the symbols, all converted.
Worth(x) == [s \in Succeeded |-> Rate[s] * x[s]]
Invested == SumFunction(Worth([s \in Succeeded |-> sim[s].capital]))
ValueOn(t) == SumFunction(Worth([s \in Succeeded |-> LastKnown(s, t)]))

LEMMA WorthFacts ==
  ASSUME NEW x, NEW s \in Succeeded, x[s] \in Int, BacktestInv
  PROVE  Worth(x)[s] = Rate[s] * x[s] /\ Worth(x)[s] \in Int
<1>1. Rate[s] \in Int
  BY DoneFacts
<1>2. \A a, b \in Int : a * b \in Int
  BY SMT
<1> QED
  BY <1>1, <1>2 DEF Worth

LEMMA InvestedIs ==
  ASSUME BacktestInv, ~warned
  PROVE  Invested = Capital * Cardinality(Succeeded)
<1> DEFINE x == [s \in Succeeded |-> sim[s].capital]
           f == Worth(x)
<1>1. \A s \in Succeeded : f[s] = Capital
  <2> SUFFICES ASSUME NEW s \in Succeeded PROVE f[s] = Capital
    OBVIOUS
  <2>1. x[s] = sim[s].capital /\ x[s] \in Int
    BY DoneFacts
  <2> HIDE DEF x
  <2> QED
    BY <2>1, DoneFacts, WorthFacts
<1>2. DOMAIN f = Succeeded
  BY DEF Worth
<1>3. Capital \in Int
  BY BacktestAssumption
<1> HIDE DEF f
<1>4. SumFunctionOnSet(f, Succeeded) = Capital * Cardinality(Succeeded)
  BY <1>1, <1>3, SucceededFacts, SumConstant
<1> QED
  BY <1>2, <1>4 DEF Invested, SumFunction, f

LEMMA ValueEnds ==
  ASSUME BacktestInv, AllDates # {}
  PROVE  ValueOn(Max(AllDates)) = Invested + SumFunction([s \in Succeeded |-> Rate[s] * sim[s].realised])
<1> DEFINE last == [s \in Succeeded |-> LastKnown(s, Max(AllDates))]
           start == [s \in Succeeded |-> sim[s].capital]
           m == [s \in Succeeded |-> Rate[s] * sim[s].realised]
           f == Worth(last)
           g == Worth(start)
<1>1. \A s \in Succeeded : m[s] \in Int /\ f[s] \in Int /\ g[s] \in Int /\ f[s] = m[s] + g[s]
  <2> SUFFICES ASSUME NEW s \in Succeeded PROVE m[s] \in Int /\ f[s] \in Int /\ g[s] \in Int /\ f[s] = m[s] + g[s]
    OBVIOUS
  <2>1. last[s] = sim[s].capital + sim[s].realised /\ start[s] = sim[s].capital /\ m[s] = Rate[s] * sim[s].realised
    BY CurveEnds
  <2>2. sim[s].capital \in Int /\ sim[s].realised \in Int /\ Rate[s] \in Int
    BY DoneFacts
  <2> HIDE DEF last, start, m
  <2>3. f[s] = Rate[s] * last[s] /\ g[s] = Rate[s] * start[s]
    BY <2>1, <2>2, WorthFacts
  <2>4. \A r, a, b \in Int : r * (a + b) = r * b + r * a /\ r * (a + b) \in Int /\ r * a \in Int /\ r * b \in Int
    BY SMT
  <2> QED
    BY <2>1, <2>2, <2>3, <2>4
<1>2. DOMAIN f = Succeeded /\ DOMAIN g = Succeeded /\ DOMAIN m = Succeeded
  BY DEF Worth
<1> HIDE DEF f, g, m
<1>3. SumFunctionOnSet(f, Succeeded) = SumFunctionOnSet(m, Succeeded) + SumFunctionOnSet(g, Succeeded)
  BY <1>1, SucceededFacts, SumPlus
<1>4. SumFunctionOnSet(m, Succeeded) \in Int /\ SumFunctionOnSet(g, Succeeded) \in Int
  BY <1>1, SucceededFacts, SumType
<1>5. ValueOn(Max(AllDates)) = SumFunctionOnSet(f, Succeeded)
  BY <1>2 DEF ValueOn, SumFunction, f
<1>6. Invested = SumFunctionOnSet(g, Succeeded)
  BY <1>2 DEF Invested, SumFunction, g
<1>7. SumFunction(m) = SumFunctionOnSet(m, Succeeded)
  BY <1>2 DEF SumFunction
<1> QED
  BY <1>3, <1>4, <1>5, <1>6, <1>7 DEF m

LEMMA ValueMoves ==
  ASSUME BacktestInv, NEW t \in AllDates,
         NEW on, on = {s \in Succeeded : t \in Range(Dates[s])},
         NEW earlier, earlier = {d \in AllDates : d < t}
  PROVE  ValueOn(t) = SumFunction([s \in on |-> Made(s, t)])
                      + IF earlier = {} THEN Invested ELSE ValueOn(Max(earlier))
<1> DEFINE now == [s \in Succeeded |-> LastKnown(s, t)]
           base(s) == IF earlier = {} THEN sim[s].capital ELSE LastKnown(s, Max(earlier))
           before == [s \in Succeeded |-> base(s)]
           m == [s \in on |-> Made(s, t)]
           f == Worth(now)
           g == Worth(before)
<1>1. on \subseteq Succeeded
  OBVIOUS
<1>2. ASSUME NEW s \in Succeeded
      PROVE  /\ f[s] \in Int /\ g[s] \in Int
             /\ s \in on => m[s] \in Int /\ f[s] = m[s] + g[s]
             /\ s \notin on => f[s] = g[s]
  <2> DEFINE k == CandleOf(s, t)
             move == sim[s].curve[k] - IF k = 1 THEN sim[s].capital ELSE sim[s].curve[k - 1]
  <2>1. /\ LastKnown(s, t) \in Int /\ base(s) \in Int
        /\ t \in Range(Dates[s]) => LastKnown(s, t) - base(s) = move
        /\ t \notin Range(Dates[s]) => LastKnown(s, t) = base(s)
    BY CurveMoves
  <2>2. now[s] = LastKnown(s, t) /\ before[s] = base(s) /\ (s \in on => m[s] = Rate[s] * move)
    BY DEF Made
  <2>3. s \in on <=> t \in Range(Dates[s])
    OBVIOUS
  <2> HIDE DEF now, before, m, move, base, k
  <2>4. f[s] = Rate[s] * now[s] /\ g[s] = Rate[s] * before[s] /\ f[s] \in Int /\ g[s] \in Int
    BY <2>1, <2>2, WorthFacts
  <2>5. Rate[s] \in Int
    BY DoneFacts
  <2>6. \A r, a, b \in Int : r * a = r * (a - b) + r * b /\ r * (a - b) \in Int
    BY SMT
  <2> QED
    BY <2>1, <2>2, <2>3, <2>4, <2>5, <2>6
<1>3. DOMAIN f = Succeeded /\ DOMAIN g = Succeeded /\ DOMAIN m = on
  BY DEF Worth
<1> HIDE DEF f, g, m
<1>4. SumFunctionOnSet(f, Succeeded) = SumFunctionOnSet(m, on) + SumFunctionOnSet(g, Succeeded)
  <2>1. \A s \in Succeeded : f[s] \in Int /\ g[s] \in Int
    BY <1>2
  <2>2. \A s \in on : m[s] \in Int /\ f[s] = m[s] + g[s]
    BY <1>1, <1>2
  <2>3. \A s \in Succeeded \ on : f[s] = g[s]
    BY <1>2
  <2>4. IsFiniteSet(Succeeded)
    BY SucceededFacts
  <2> HIDE DEF base
  <2> QED
    BY <1>1, <2>1, <2>2, <2>3, <2>4, SumMoves
<1>5. ValueOn(t) = SumFunctionOnSet(f, Succeeded)
  BY <1>3 DEF ValueOn, SumFunction, f
<1>6. SumFunctionOnSet(g, Succeeded) = IF earlier = {} THEN Invested ELSE ValueOn(Max(earlier))
  <2>1. CASE earlier = {}
    <3>1. before = [s \in Succeeded |-> sim[s].capital]
      BY <2>1
    <3> QED
      BY <1>3, <2>1, <3>1 DEF Invested, SumFunction, g
  <2>2. CASE earlier # {}
    <3>1. before = [s \in Succeeded |-> LastKnown(s, Max(earlier))]
      BY <2>2
    <3> QED
      BY <1>3, <2>2, <3>1 DEF ValueOn, SumFunction, g
  <2> QED
    BY <2>1, <2>2
<1>7. SumFunction(m) = SumFunctionOnSet(m, on)
  BY <1>3 DEF SumFunction
<1> QED
  BY <1>4, <1>5, <1>6, <1>7 DEF m

\* What the portfolio is explained by is in the simulations.
LEMMA SameMoves ==
  ASSUME sim' = sim
  PROVE  /\ Succeeded' = Succeeded /\ AllDates' = AllDates /\ MadeInAll' = MadeInAll
         /\ \A t : MadeOn(t)' = MadeOn(t) /\ Earlier(t)' = Earlier(t)
<1>1. Succeeded' = Succeeded /\ AllDates' = AllDates
  BY DEF Succeeded, AllDates
<1>2. \A s, t : Made(s, t)' = Made(s, t)
  BY DEF Made, CandleOf
<1>3. MadeInAll' = MadeInAll
  <2>1. [s \in Succeeded |-> Rate[s] * sim'[s].realised] = [s \in Succeeded |-> Rate[s] * sim[s].realised]
    OBVIOUS
  <2> QED
    BY <1>1, <2>1, Zenon DEF MadeInAll
<1>4. ASSUME NEW t PROVE MadeOn(t)' = MadeOn(t) /\ Earlier(t)' = Earlier(t)
  <2> DEFINE on == {x \in Succeeded : t \in Range(Dates[x])}
  <2>1. on' = on
    BY <1>1
  <2>2. [s \in on |-> Made(s, t)'] = [s \in on |-> Made(s, t)]
    BY <1>2
  <2>3. MadeOn(t)' = SumFunction([s \in on' |-> Made(s, t)'])
    BY Zenon DEF MadeOn
  <2>4. Earlier(t)' = Earlier(t)
    BY <1>1 DEF Earlier
  <2> HIDE DEF on
  <2> QED
    BY <2>1, <2>2, <2>3, <2>4 DEF MadeOn, on
<1> QED
  BY <1>1, <1>3, <1>4

LEMMA AggregateKeeps ==
  ASSUME BacktestInv, aggregatePortfolio
  PROVE  BacktestInv'
<1>1. sim' = sim /\ Settled /\ result = Missing /\ warned \in BOOLEAN /\ failures \in 0 .. MaxFailures
  BY InvFacts DEF aggregatePortfolio
<1>2. Succeeded' = Succeeded /\ Settled' /\ AllDates' = AllDates
  BY <1>1 DEF Succeeded, Settled, AllDates
<1>3. warned' \in BOOLEAN /\ failures' \in 0 .. MaxFailures /\ (warned => warned')
  <2>1. CASE Cardinality(Succeeded) = 1
    BY <1>1, <2>1 DEF aggregatePortfolio
  <2>2. CASE Cardinality(Succeeded) # 1
    <3>1. PICK lostCurve \in SUBSET Conversions(Succeeded), lostCapital \in SUBSET Conversions(Succeeded) :
            /\ failures' = failures + Cardinality(lostCurve) + Cardinality(lostCapital) /\ failures' <= MaxFailures
            /\ warned' = (warned \/ lostCurve \cup lostCapital # {})
      BY <2>2 DEF aggregatePortfolio
    <3>2. IsFiniteSet(lostCurve) /\ IsFiniteSet(lostCapital)
      BY SucceededFacts, FS_Subset DEF Conversions
    <3>3. Cardinality(lostCurve) \in Nat /\ Cardinality(lostCapital) \in Nat
      BY <3>2, FS_CardinalityType
    <3>4. failures' \in 0 .. MaxFailures
      BY <1>1, <3>1, <3>3, BacktestAssumption
    <3>5. warned' \in BOOLEAN /\ (warned => warned')
      BY <1>1, <3>1, Zenon
    <3> QED
      BY <3>4, <3>5
  <2> QED
    BY <2>1, <2>2
<1>4. EquityIsExplained'
  <2>1. \A s \in Universe : Sound(s, sim'[s])
    BY <1>1, InvFacts
  <2>2. DOMAIN sim' = Universe
    BY <1>1, InvFacts
  <2> QED
    BY <1>3, <2>1, <2>2 DEF EquityIsExplained, BacktestTypes, Sound
<1>5. \A s \in Universe : Accounted(sim'[s]) /\ Staged(s, sim'[s])
  BY <1>1 DEF BacktestInv
<1>6. WholeInv'
  <2>1. ~warned => \A t \in Universe : sim[t].stage \in {"running", "done"} => Rate[t] * sim[t].capital = Capital
    BY DEF BacktestInv, WholeInv
  <2>2. ~warned' => \A t \in Universe : sim'[t].stage \in {"running", "done"} => Rate[t] * sim'[t].capital = Capital
    BY <1>1, <1>3, <2>1
  <2> QED
    BY <1>2, <2>2 DEF WholeInv
<1>7. PortfolioIsExplained'
  <2> SUFFICES ASSUME ~warned', Cardinality(Succeeded) > 1
        PROVE  /\ result'.invested = Capital * Cardinality(Succeeded)
               /\ AllDates # {} => result'.curve[Max(AllDates)] = result'.invested + MadeInAll
               /\ \A t \in AllDates :
                    result'.curve[t] = MadeOn(t) + IF Earlier(t) = {} THEN result'.invested ELSE result'.curve[Max(Earlier(t))]
    BY <1>1, SameMoves DEF PortfolioIsExplained
  <2>1. ~warned
    BY <1>3
  <2>2. PICK lostCurve \in SUBSET Conversions(Succeeded), lostCapital \in SUBSET Conversions(Succeeded) :
          LET value(t) == [s \in Succeeded |-> Converted(s \notin lostCurve, LastKnown(s, t), Rate[s])]
              capital == [s \in Succeeded |-> Converted(s \notin lostCapital, sim[s].capital, Rate[s])]
          IN  /\ failures' = failures + Cardinality(lostCurve) + Cardinality(lostCapital) /\ failures' <= MaxFailures
              /\ warned' = (warned \/ lostCurve \cup lostCapital # {})
              /\ result' = [curve |-> [t \in AllDates |-> SumFunction(value(t))], invested |-> SumFunction(capital)]
    <3>1. Cardinality(Succeeded) # 1
      OBVIOUS
    <3> QED
      BY <3>1, Zenon DEF aggregatePortfolio
  <2>3. lostCurve = {} /\ lostCapital = {}
    BY <2>2
  <2>4. \A s \in Succeeded : \A x \in Int : Converted(s \notin {}, x, Rate[s]) = Rate[s] * x
    <3>1. \A r, x \in Int : x * r = r * x
      BY SMT
    <3> QED
      BY <3>1, DoneFacts DEF Converted
  <2>5. result'.invested = Invested
    <3> DEFINE x == [s \in Succeeded |-> sim[s].capital]
    <3>1. result'.invested = SumFunction([s \in Succeeded |-> Converted(s \notin lostCapital, sim[s].capital, Rate[s])])
      BY <2>2
    <3>2. \A s \in Succeeded : Converted(s \notin lostCapital, sim[s].capital, Rate[s]) = Rate[s] * x[s]
      BY <2>3, <2>4, DoneFacts
    <3>3. [s \in Succeeded |-> Converted(s \notin lostCapital, sim[s].capital, Rate[s])] = Worth(x)
      BY <3>2 DEF Worth
    <3> QED
      BY <3>1, <3>3 DEF Invested
  <2>6. ASSUME NEW t \in AllDates PROVE result'.curve[t] = ValueOn(t)
    <3> DEFINE x == [s \in Succeeded |-> LastKnown(s, t)]
    <3>1. result'.curve[t] = SumFunction([s \in Succeeded |-> Converted(s \notin lostCurve, LastKnown(s, t), Rate[s])])
      BY <2>2
    <3>2. \A s \in Succeeded : LastKnown(s, t) \in Int
      BY CurveMoves
    <3>3. \A s \in Succeeded : Converted(s \notin lostCurve, LastKnown(s, t), Rate[s]) = Rate[s] * x[s]
      BY <2>3, <2>4, <3>2
    <3>4. [s \in Succeeded |-> Converted(s \notin lostCurve, LastKnown(s, t), Rate[s])] = Worth(x)
      BY <3>3 DEF Worth
    <3> QED
      BY <3>1, <3>4 DEF ValueOn
  <2>7. result'.invested = Capital * Cardinality(Succeeded)
    BY <2>1, <2>5, InvestedIs
  <2>8. ASSUME AllDates # {}
        PROVE  result'.curve[Max(AllDates)] = result'.invested + MadeInAll
    <3>1. Max(AllDates) \in AllDates
      <4>1. IsFiniteSet(AllDates) /\ AllDates \subseteq Int
        BY AllDatesFacts
      <4> QED
        BY <2>8, <4>1, Extremes
    <3> QED
      BY <2>5, <2>6, <2>8, <3>1, ValueEnds DEF MadeInAll
  <2>9. ASSUME NEW t \in AllDates
        PROVE  result'.curve[t] = MadeOn(t) + IF Earlier(t) = {} THEN result'.invested ELSE result'.curve[Max(Earlier(t))]
    <3>1. Earlier(t) # {} => Max(Earlier(t)) \in AllDates
      <4>1. IsFiniteSet(AllDates) /\ AllDates \subseteq Int /\ Earlier(t) \subseteq AllDates
        BY AllDatesFacts DEF Earlier
      <4>2. IsFiniteSet(Earlier(t)) /\ Earlier(t) \subseteq Int
        BY <4>1, FS_Subset
      <4> QED
        BY <4>1, <4>2, Extremes
    <3>2. ValueOn(t) = MadeOn(t) + IF Earlier(t) = {} THEN Invested ELSE ValueOn(Max(Earlier(t)))
      BY ValueMoves DEF MadeOn, Earlier
    <3> QED
      BY <2>5, <2>6, <3>1, <3>2
  <2> QED
    BY <2>7, <2>8, <2>9
<1> QED
  BY <1>4, <1>5, <1>6, <1>7 DEF BacktestInv

-----------------------------------------------------------------------------
(* Backtest: the theorems                                                  *)

LEMMA BacktestStep == BacktestInv /\ [BacktestNext]_backtestVars => BacktestInv'
<1> SUFFICES ASSUME BacktestInv, [BacktestNext]_backtestVars PROVE BacktestInv'
  OBVIOUS
<1>1. ASSUME NEW s \in Universe, Begin(s) PROVE BacktestInv'
  BY <1>1, BeginKeeps
<1>2. ASSUME NEW s \in Universe, Skip(s) PROVE BacktestInv'
  BY <1>2, SkipKeeps
<1>3. ASSUME NEW s \in Universe, Candle(s) PROVE BacktestInv'
  BY <1>3, CandleKeeps
<1>4. ASSUME NEW s \in Universe, ForcedClose(s) PROVE BacktestInv'
  BY <1>4, ForcedCloseKeeps
<1>5. CASE aggregatePortfolio
  BY <1>5, AggregateKeeps
<1>6. CASE UNCHANGED backtestVars
  <2>1. sim' = sim /\ result' = result /\ warned' = warned /\ failures' = failures
    BY <1>6 DEF backtestVars
  <2>2. EquityIsExplained'
    BY <2>1 DEF BacktestInv, EquityIsExplained, BacktestTypes
  <2>3. WholeInv' /\ \A s \in Universe : Accounted(sim'[s]) /\ Staged(s, sim'[s])
    BY <2>1 DEF BacktestInv, WholeInv, Settled
  <2>4. PortfolioIsExplained'
    <3>1. PortfolioIsExplained
      BY DEF BacktestInv
    <3> QED
      BY <2>1, <3>1, SameMoves DEF PortfolioIsExplained
  <2> QED
    BY <2>2, <2>3, <2>4 DEF BacktestInv
<1> QED
  BY <1>1, <1>2, <1>3, <1>4, <1>5, <1>6 DEF BacktestNext

(* The inductive invariant: the types, the accounts of every simulation, its stage, and what the result is.    *)
THEOREM BacktestCorrect == BacktestSpec => []BacktestInv
<1> QED
  BY BacktestStarts, BacktestStep, PTL DEF BacktestSpec

(* On every candle of every symbol the equity is its capital, what its closed trades made and what its open    *)
(* positions would make at that price (runSimulation).                                                         *)
THEOREM EquityExplained == BacktestSpec => []EquityIsExplained
<1>1. BacktestInv => EquityIsExplained
  BY DEF BacktestInv
<1> QED
  BY <1>1, BacktestCorrect, PTL

(* The portfolio of several symbols starts from the capital invested, moves on each date by what the symbols   *)
(* with a candle on it made, and ends with the profit of all the trades (aggregatePortfolio).                  *)
THEOREM PortfolioExplained == BacktestSpec => []PortfolioIsExplained
<1>1. BacktestInv => PortfolioIsExplained
  BY DEF BacktestInv
<1> QED
  BY <1>1, BacktestCorrect, PTL
=============================================================================
