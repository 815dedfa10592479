------------------------------ MODULE Backtest ------------------------------
(***************************************************************************)
(* A backtest over several symbols: the simulation of each, candle by      *)
(* candle, in its own currency and on its own dates                        *)
(* (services/backtestEngine.service.js runSimulation), and the portfolio   *)
(* their curves are merged into (aggregatePortfolio), as runBacktest of    *)
(* controllers/backtest.controller.js puts them together.                  *)
(*                                                                         *)
(* Prices and what the strategy decides are inputs.  Quantities are whole: *)
(* an allocation is any amount of cash that buys some.                     *)
(***************************************************************************)
EXTENDS Integers, Sequences, FiniteSetsExt, Functions

CONSTANTS
  Requested,    \* the symbols, in the order of the request
  Dates,        \* the dates of the candles of each symbol that the strategy is asked about
  Rate,         \* what a unit of its currency is worth in the user's
  Capital,      \* capital of each symbol, in the user's currency
  Prices,       \* prices of the candles
  Risk,         \* distance of a stop from the entry
  MaxPositions, \* params.maxPositions
  MaxQty,       \* bound on the quantity of a position
  MaxFailures,  \* bound on conversions that fail and symbols without data
  Missing

Universe == Range(Requested)

ASSUME BacktestAssumption ==
  /\ Requested \in Seq(Universe)
  /\ Prices \subseteq Nat \ {0} /\ Capital \in Nat \ {0} /\ Risk \in Nat /\ MaxQty \in Nat /\ MaxFailures \in Nat
  /\ MaxPositions \in Nat \ {0}
  /\ \A s \in Universe : Rate[s] \in Nat \ {0} /\ \E c \in 1 .. Capital : Rate[s] * c = Capital

\* The candles of a symbol are in the order of their dates.
ASSUME DatesAssumption ==
  \A s \in Universe : /\ Dates[s] \in Seq(Nat)
                      /\ \A i, j \in DOMAIN Dates[s] : i < j => Dates[s][i] < Dates[s][j]

VARIABLES
  sim,      \* the simulation of each symbol
  result,   \* what aggregatePortfolio returns, Missing before
  warned,   \* fxWarnings is not empty
  failures

backtestVars == <<sim, result, warned, failures>>

\* The open positions are named by the candle they were entered at, their entryIndex.
Fresh(stage, capital) ==
  [stage |-> stage, capital |-> capital, cash |-> capital, positions |-> <<>>, curve |-> <<>>,
   price |-> Missing, realised |-> 0]

BacktestInit ==
  sim = [s \in Universe |-> Fresh("waiting", 0)] /\ result = Missing /\ warned = FALSE /\ failures = 0

Turn(s) ==
  s = Requested[Min({i \in DOMAIN Requested : sim[Requested[i]].stage \in {"waiting", "running"}})]
Settled == \A s \in Universe : sim[s].stage \in {"done", "skipped"}
Succeeded == {s \in Universe : sim[s].stage = "done"}

\* convertAmount: 1:1, with a warning, when the rate cannot be had.
Converted(ok, amount, rate) == IF ok THEN amount * rate ELSE amount
OwnCapital(s) == CHOOSE c \in 1 .. Capital : Rate[s] * c = Capital
Conversions(S) == {s \in S : Rate[s] # 1}
Failing(S) ==
  /\ failures' = failures + Cardinality(S) /\ failures' <= MaxFailures
  /\ warned' = (warned \/ S # {})

-----------------------------------------------------------------------------
(* One symbol. *)

\* The candles are there; the capital is converted into the symbol's currency.
Begin(s) ==
  /\ ~Settled /\ Turn(s) /\ sim[s].stage = "waiting"
  /\ \E lost \in SUBSET Conversions({s}) :
       /\ Failing(lost)
       /\ sim' = [sim EXCEPT ![s] = Fresh("running", IF lost = {} THEN OwnCapital(s) ELSE Capital)]
  /\ UNCHANGED result

\* Too few candles, or the request for them failed.
Skip(s) ==
  /\ ~Settled /\ Turn(s) /\ sim[s].stage = "waiting"
  /\ failures < MaxFailures /\ failures' = failures + 1
  /\ sim' = [sim EXCEPT ![s] = Fresh("skipped", 0)]
  /\ UNCHANGED <<result, warned>>

Direction(pos) == IF pos.dir = "SHORT" THEN -1 ELSE 1
StopPrice(pos) == pos.entry - Direction(pos) * Risk
HitStop(pos, price) == Direction(pos) * price <= Direction(pos) * StopPrice(pos)

\* shouldExit and shouldExitShort: the stop, or a signal of the strategy for that direction.
Exits(pos, price, advice) == HitStop(pos, price) \/ pos.dir \in advice
ExitPrice(pos, price) == IF HitStop(pos, price) THEN StopPrice(pos) ELSE price

\* buildTradeRecord
PnlRaw(pos, exit) == Direction(pos) * (exit - pos.entry) * pos.qty

\* Mutant: a short is closed like a long.
SoldBack(pos, exit) == exit * pos.qty

\* What closing a position adds to the cash: the sale of a long, the buying back of a short.
Proceeds(pos, exit) == Direction(pos) * exit * pos.qty

\* The exits of one candle, position by position.
AfterExits(r, price, advice) ==
  LET held == r.positions
      out == {i \in DOMAIN held : Exits(held[i], price, advice)}
      proceeds == [i \in out |-> Proceeds(held[i], ExitPrice(held[i], price))]
      pnl == [i \in out |-> PnlRaw(held[i], ExitPrice(held[i], price))]
  IN  [r EXCEPT !.cash = @ + SumFunction(proceeds), !.realised = @ + SumFunction(pnl),
                !.positions = Restrict(held, DOMAIN held \ out)]

\* The entries there may be: none, a long, or a short when the strategy wants no long.
AfterEntry(r, price) ==
  LET index == Len(r.curve) + 1
  IN  {r} \cup {[r EXCEPT !.cash = @ - Direction(pos) * pos.qty * price,
                          !.positions = [i \in DOMAIN @ \cup {index} |-> IF i = index THEN pos ELSE @[i]]] :
                  pos \in {p \in [dir : {"LONG", "SHORT"}, entry : {price}, qty : 1 .. MaxQty] :
                             Cardinality(DOMAIN r.positions) < MaxPositions /\ p.qty * price <= r.cash}}

Equity(r, price) ==
  r.cash + SumFunction([i \in DOMAIN r.positions |-> Direction(r.positions[i]) * r.positions[i].qty * price])

\* The body of the loop.
Candle(s) ==
  /\ ~Settled /\ Turn(s) /\ sim[s].stage = "running" /\ Len(sim[s].curve) < Len(Dates[s])
  /\ \E price \in Prices, advice \in SUBSET {"LONG", "SHORT"} :
       \E r \in AfterEntry(AfterExits(sim[s], price, advice), price) :
         sim' = [sim EXCEPT ![s] = [r EXCEPT !.curve = Append(@, Equity(r, price)), !.price = price]]
  /\ UNCHANGED <<result, warned, failures>>

\* Whatever is still open is closed at the last price.
Closed(r) ==
  LET proceeds == [i \in DOMAIN r.positions |-> Proceeds(r.positions[i], r.price)]
      pnl == [i \in DOMAIN r.positions |-> PnlRaw(r.positions[i], r.price)]
  IN  [r EXCEPT !.stage = "done", !.positions = <<>>, !.cash = @ + SumFunction(proceeds),
                !.realised = @ + SumFunction(pnl)]

\* After the loop.
ForcedClose(s) ==
  /\ ~Settled /\ Turn(s) /\ sim[s].stage = "running" /\ Len(sim[s].curve) = Len(Dates[s])
  /\ sim' = [sim EXCEPT ![s] = Closed(sim[s])]
  /\ UNCHANGED <<result, warned, failures>>

-----------------------------------------------------------------------------
(* The portfolio.  A curve is its value on each of its dates. *)

AllDates == UNION {Range(Dates[s]) : s \in Succeeded}

\* Mutant: the point with the same number, and the last one when there are no more.
SameIndex(s, t) ==
  LET n == Cardinality({d \in AllDates : d <= t})
  IN  sim[s].curve[Min({n, Len(Dates[s])})]

\* The last value of the curve on or before a date, the capital before the first.
LastKnown(s, t) ==
  LET known == {i \in DOMAIN Dates[s] : Dates[s][i] <= t}
  IN  IF known = {} THEN sim[s].capital ELSE sim[s].curve[Max(known)]

\* The candle of a date.
CandleOf(s, t) == CHOOSE k \in DOMAIN Dates[s] : Dates[s][k] = t

\* A single symbol is returned as it is, in its own currency; several are converted, aligned and added up.
aggregatePortfolio ==
  /\ Settled /\ Succeeded # {} /\ result = Missing
  /\ IF Cardinality(Succeeded) = 1
     THEN /\ \E s \in Succeeded :
               result' = [curve |-> [t \in Range(Dates[s]) |-> sim[s].curve[CandleOf(s, t)]], invested |-> sim[s].capital]
          /\ UNCHANGED <<warned, failures>>
     ELSE \E lostCurve, lostCapital \in SUBSET Conversions(Succeeded) :
            LET value(t) == [s \in Succeeded |-> Converted(s \notin lostCurve, LastKnown(s, t), Rate[s])]
                capital == [s \in Succeeded |-> Converted(s \notin lostCapital, sim[s].capital, Rate[s])]
            IN  /\ failures' = failures + Cardinality(lostCurve) + Cardinality(lostCapital) /\ failures' <= MaxFailures
                /\ warned' = (warned \/ lostCurve \cup lostCapital # {})
                /\ result' = [curve |-> [t \in AllDates |-> SumFunction(value(t))], invested |-> SumFunction(capital)]
  /\ UNCHANGED sim

BacktestNext ==
  \/ \E s \in Universe : Begin(s) \/ Skip(s) \/ Candle(s) \/ ForcedClose(s)
  \/ aggregatePortfolio

BacktestSpec == BacktestInit /\ [][BacktestNext]_backtestVars

-----------------------------------------------------------------------------
Holding == [dir : {"LONG", "SHORT"}, entry : Nat, qty : 1 .. MaxQty]

\* A simulation with a curve of n points and the positions of D.
Simulation(n, D) ==
  [stage : {"waiting", "running", "done", "skipped"}, capital : Nat, cash : Int, realised : Int,
   curve : [1 .. n -> Int], price : Prices \cup {Missing}, positions : [D -> Holding]]

BacktestTypes ==
  /\ DOMAIN sim = Universe
  /\ \A s \in Universe : LET n == Len(sim[s].curve)
                             D == DOMAIN sim[s].positions IN
       /\ sim[s] \in Simulation(n, D) /\ n <= Len(Dates[s])
       /\ D \subseteq 1 .. n /\ Cardinality(D) <= MaxPositions
  /\ warned \in BOOLEAN /\ failures \in 0 .. MaxFailures

\* What the open positions of a simulation brought or cost, and what they would make at a price.
Entered(r) == SumFunction([i \in DOMAIN r.positions |-> Proceeds(r.positions[i], r.positions[i].entry)])
Unrealised(r, price) == SumFunction([i \in DOMAIN r.positions |-> PnlRaw(r.positions[i], price)])

Explained(r) == r.curve # <<>> => r.curve[Len(r.curve)] = r.capital + r.realised + Unrealised(r, r.price)

(* Types; and at every candle the equity of a symbol is its capital, what its closed trades made and what its    *)
(* open positions would make now, for any mix of longs and shorts, stops and signals, and pyramids.              *)
EquityIsExplained == BacktestTypes /\ \A s \in Universe : Explained(sim[s])

\* What a symbol made on a date it has a candle on, in the user's currency.
Made(s, t) ==
  LET k == CandleOf(s, t)
  IN  Rate[s] * (sim[s].curve[k] - IF k = 1 THEN sim[s].capital ELSE sim[s].curve[k - 1])

\* What they all made on a date, and in the end.
MadeOn(t) == SumFunction([s \in {x \in Succeeded : t \in Range(Dates[x])} |-> Made(s, t)])
MadeInAll == SumFunction([s \in Succeeded |-> Rate[s] * sim[s].realised])
Earlier(t) == {d \in AllDates : d < t}

(* The portfolio starts from the capital invested, moves on each date by what the symbols with a candle on that   *)
(* date made, in the user's currency, and ends with the profit of all the trades: for symbols with other dates,   *)
(* other currencies and symbols that were left out, unless the user is warned that a conversion failed.           *)
PortfolioIsExplained ==
  result # Missing /\ ~warned /\ Cardinality(Succeeded) > 1 =>
    /\ result.invested = Capital * Cardinality(Succeeded)
    /\ AllDates # {} => result.curve[Max(AllDates)] = result.invested + MadeInAll
    /\ \A t \in AllDates :
         result.curve[t] = MadeOn(t) + IF Earlier(t) = {} THEN result.invested ELSE result.curve[Max(Earlier(t))]

\* The cash is the capital, the results, and what the open positions brought or cost.
Accounted(r) == r.cash = r.capital + r.realised - Entered(r)

\* A simulation that did not begin has nothing, and one that is done has all its candles and no position.
Staged(s, r) ==
  /\ r.stage \in {"waiting", "skipped"} => r = Fresh(r.stage, 0)
  /\ IF r.curve = <<>> THEN r.realised = 0 ELSE r.price \in Prices
  /\ r.stage = "done" => Len(r.curve) = Len(Dates[s]) /\ DOMAIN r.positions = {}

\* Unless there was a warning, each simulation began with the same capital, and the result comes last.
WholeInv ==
  /\ ~warned => \A s \in Universe : sim[s].stage \in {"running", "done"} => Rate[s] * sim[s].capital = Capital
  /\ result # Missing => Settled

\* The inductive invariant.
BacktestInv ==
  /\ EquityIsExplained /\ PortfolioIsExplained /\ WholeInv
  /\ \A s \in Universe : Accounted(sim[s]) /\ Staged(s, sim[s])
=============================================================================
