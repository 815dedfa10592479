---------------------------- MODULE MCBacktest ----------------------------
(* Values of the constants of Backtest for TLC. *)
EXTENDS Backtest, TLC
CONSTANTS s1, s2

MCBacktest_Requested == <<s1, s2>>
MCBacktest_Dates == s1 :> <<1, 3, 4>> @@ s2 :> <<2, 3>>
MCBacktest_Rate == s1 :> 1 @@ s2 :> 2
MCBacktest_Prices == 1 .. 3
=============================================================================
