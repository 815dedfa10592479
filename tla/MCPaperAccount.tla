--------------------------- MODULE MCPaperAccount ---------------------------
(* Values of the constants of PaperAccount for model checking. *)
EXTENDS PaperAccount

CONSTANTS o1, o2, o3, c1, x1, x2

\* Everybody buys, but for the second order in Mixed.
AllBuy == [o \in Orders |-> "buy"]
Mixed == [o \in Orders |-> IF o = o2 THEN "sell" ELSE "buy"]
One == [o \in Orders |-> 1]

\* One exchange, or the last order at another one.
Together == [o \in Orders |-> x1]
LastApart == [o \in Orders |-> IF o = o3 THEN x2 ELSE x1]
=============================================================================
