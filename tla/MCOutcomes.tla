---------------------------- MODULE MCOutcomes ----------------------------
(* Values of the constants of Outcomes for TLC. *)
EXTENDS Outcomes, TLC
CONSTANTS s1, s2

Kind(side, missing) == [side |-> side, missing |-> missing]

MCOutcomes_Signals == {s1, s2}
MCOutcomes_Kinds ==
  s1 :> {Kind("BUY", FALSE)} @@ s2 :> {Kind("SELL", FALSE), Kind("BUY", TRUE)}

\* Quiet, down then up, up then down, opening low, opening high, closed.
MCOutcomes_Shapes == {<<3, 3, 3>>, <<3, 2, 4>>, <<3, 4, 2>>, <<2, 3, 3>>, <<4, 3, 3>>, Null}
=============================================================================
