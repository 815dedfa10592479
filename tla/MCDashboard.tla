---------------------------- MODULE MCDashboard ----------------------------
(* Values of the constants of Dashboard for TLC. *)
EXTENDS Dashboard
CONSTANTS t1, t2, t3, week, month

MCDashboard_Tickets == {t1, t2, t3}
MCDashboard_Ranges == {week, month}
=============================================================================
