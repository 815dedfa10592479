------------------------------ MODULE MCScans ------------------------------
(* Values of the constants of Scans for TLC. *)
EXTENDS Scans
CONSTANTS j1, j2, c1, f1

TwoJobs == {j1, j2}
MCScans_Crypto == {c1}
MCScans_Forex == {f1}
=============================================================================
