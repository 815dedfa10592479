---------------------------- MODULE MCKillSwitch ----------------------------
(* Values of the constants of KillSwitch for model checking. *)
EXTENDS KillSwitch

CONSTANTS i1, i2, o1, c1

\* The command on i1, the order on i2.
Crossed == [x \in Orders \cup Commands |-> IF x = c1 THEN i1 ELSE i2]
=============================================================================
