---------------------------- MODULE MCAutoTrader ----------------------------
(* Values of the constants of AutoTrader for model checking. *)
EXTENDS AutoTrader, TLC

\* The first signal is created between two milliseconds, the others on one.
BuySell == [s \in Signals |-> IF s = 2 THEN "sell" ELSE "buy"]
Instants == [s \in Signals |-> IF s = 1 THEN 3 ELSE 2 * s]
Results == {-1, 2}

\* What a request can ask: a probation of two trades and no loss, or of three and one loss of the day allowed.
Asked == {[required |-> 2, loss |-> 1], [required |-> 3, loss |-> 2]}

\* The instances are alike.
Symmetry == Permutations(Traders \cup Monitors)
=============================================================================
