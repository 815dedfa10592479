---------------------------- MODULE MCPortfolio ----------------------------
(* Values of the constants of Portfolio for model checking.                *)
EXTENDS Portfolio, TLC

CONSTANTS a1, a2, a3, c1, c2, c3, s1

\* Two purchases whose average price is a whole number, two sales of what they make (all of it, and
\* two units), a short sale and its closing.
MCSide == a1 :> "long" @@ a2 :> "long" @@ a3 :> "short"
          @@ c1 :> "long" @@ c2 :> "long" @@ c3 :> "short"
MCPrice == a1 :> 6 @@ a2 :> 18 @@ a3 :> 9 @@ c1 :> 9 @@ c2 :> 7 @@ c3 :> 7
MCQty == a1 :> 1 @@ a2 :> 2 @@ a3 :> 1 @@ c1 :> None @@ c2 :> 2 @@ c3 :> None
MCBalance == s1 :> 13
=============================================================================
