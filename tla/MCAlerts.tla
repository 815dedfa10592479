------------------------------ MODULE MCAlerts ------------------------------
(* Values of the constants of Alerts for TLC. *)
EXTENDS Alerts
CONSTANTS a1, s1, p1, p2, t1, t2, t3

MCAlerts_Alerts == {a1}
MCAlerts_Symbols == {s1}
MCAlerts_Processes == {p1, p2}
MCAlerts_Ticks == {t1, t2, t3}
MCAlerts_ProcessOf == [t \in MCAlerts_Ticks |-> IF t = t3 THEN p2 ELSE p1]
=============================================================================
