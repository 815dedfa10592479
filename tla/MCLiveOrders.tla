---------------------------- MODULE MCLiveOrders ----------------------------
(* Values of the constants of LiveOrders for model checking. *)
EXTENDS LiveOrders

CONSTANTS o1, p1, p2

TwoProcesses == {p1, p2}
OneOrder == {o1}
AtFirst == [o \in Orders |-> p1]
NoOrder == {}
OnCcxt == [o \in Orders |-> "ccxt"]
DistinctIds == [o \in Orders |-> 1]
=============================================================================
