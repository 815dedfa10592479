------------------------------ MODULE Outcomes ------------------------------
(***************************************************************************)
(* What became of each BUY or SELL signal: the job that reads hourly       *)
(* candles every 15 minutes and closes the signals whose stop or target    *)
(* was touched, or whose week is over (services/outcomeResolver.service.js *)
(* and its two callers in cron.service.js).                                *)
(*                                                                         *)
(* The market is one symbol, seen at ticks shorter than an hour; candles   *)
(* are computed from the ticks, the unfinished one included.               *)
(***************************************************************************)
EXTENDS Integers, Sequences, FiniteSetsExt

CONSTANTS
  Signals,    \* rows of the table signals
  Kinds,      \* for each, the signals it may be: side, and whether a level is missing
  HourTicks,  \* ticks in an hour
  Shapes,     \* what an hour of the market may be: the price at each of its ticks, or Null when it is closed
  LastClose,  \* the price before the first tick
  Hold,       \* MAX_HOLD_MS, in ticks
  Limit,      \* LIMIT of the SELECT
  CreateBy,   \* bound: signals are created up to this tick
  MaxTime,    \* bound on ticks
  MaxLag,     \* bound on the ticks a pass lasts
  Null

ASSUME OutcomesAssumption ==
  /\ HourTicks \in Nat \ {0} /\ Hold \in Nat /\ (Hold % HourTicks) = 0
  /\ Shapes \subseteq [1 .. HourTicks -> Nat \ {0, 1}] \cup {Null} /\ LastClose \in Nat \ {0, 1}
  /\ Kinds \in [Signals -> SUBSET [side : {"BUY", "SELL"}, missing : BOOLEAN]]
  /\ IsFiniteSet(Signals) /\ Limit \in Nat \ {0} /\ {CreateBy, MaxTime, MaxLag} \subseteq Nat

\* What stands for a missing value is no value: the levels are a unit from a price, which is more than a unit.
ASSUME NullAssumption == Null \notin Nat \cup {"SL", "TP", "EXPIRED", "INVALID"}

VARIABLES
  now,     \* the tick of the clock
  market,  \* the hours so far, from hour 0; the ticks of the last one after `now` are not known to anybody
  signals, \* the table, Null before they are created
  pass     \* the pass that runs: its `now`, its rows still to do, and the tick its candles were fetched at

outcomesVars == <<now, market, signals, pass>>

NoPass == [read |-> Null, todo |-> <<>>, seen |-> Null]

OutcomesInit ==
  /\ now = 0 /\ market \in {<<h>> : h \in Shapes}
  /\ signals = [s \in Signals |-> Null] /\ pass = NoPass

Hour(k) == k \div HourTicks
Start(h) == h * HourTicks
Price(k) == IF market[Hour(k) + 1] = Null THEN Null ELSE market[Hour(k) + 1][1 + (k % HourTicks)]

\* created_at floored to the hour, and created_at + MAX_HOLD_MS
From(sig) == Start(Hour(sig.created))
Expiry(sig) == sig.created + Hold

-----------------------------------------------------------------------------
(* Candles, from the ticks up to `seen`. *)

Traded(h, seen) == {k \in Start(h) .. Start(h + 1) - 1 : k <= seen /\ Price(k) # Null}
Open(h, seen) == Price(Min(Traded(h, seen)))
Close(h, seen) == Price(Max(Traded(h, seen)))
Low(h, seen) == Min({Price(k) : k \in Traded(h, seen)})
High(h, seen) == Max({Price(k) : k \in Traded(h, seen)})

\* The hours resolveOutcome looks at: from the one of the signal to the one of its expiry.
Hours(sig, read, seen) ==
  {h \in Hour(sig.created) .. Hour(seen) : Start(h) < Expiry(sig) /\ Start(h) <= read /\ Traded(h, seen) # {}}

\* A price at or beyond the stop, or the target.
Stops(sig, p) == IF sig.side = "BUY" THEN p <= sig.sl ELSE p >= sig.sl
Gains(sig, p) == IF sig.side = "BUY" THEN p >= sig.tp ELSE p <= sig.tp
Pnl(sig, exit) == IF sig.side = "BUY" THEN exit - sig.entry ELSE sig.entry - exit

Worst(sig, h, seen) == IF sig.side = "BUY" THEN Low(h, seen) ELSE High(h, seen)
Best(sig, h, seen) == IF sig.side = "BUY" THEN High(h, seen) ELSE Low(h, seen)

Fin(sig, outcome, exit, closed, read) ==
  [sig EXCEPT !.outcome = outcome, !.exit = exit, !.closed = Min({closed, read})]

\* Mutant: the target is looked at before the stop.
TargetFirst(sig, h, read, seen) ==
  LET open == Open(h, seen)
  IN  IF Start(h) >= sig.created /\ Stops(sig, open) THEN Fin(sig, "SL", open, Start(h), read)
      ELSE IF Start(h) >= sig.created /\ Gains(sig, open) THEN Fin(sig, "TP", open, Start(h), read)
      ELSE IF Gains(sig, Best(sig, h, seen)) THEN Fin(sig, "TP", sig.tp, Start(h + 1), read)
      ELSE Fin(sig, "SL", sig.sl, Start(h + 1), read)

\* The candle that closes the signal: a gap at its open, then the stop, then the target.
ClosedBy(sig, h, read, seen) ==
  LET open == Open(h, seen)
  IN  IF Start(h) >= sig.created /\ Stops(sig, open) THEN Fin(sig, "SL", open, Start(h), read)
      ELSE IF Start(h) >= sig.created /\ Gains(sig, open) THEN Fin(sig, "TP", open, Start(h), read)
      ELSE IF Stops(sig, Worst(sig, h, seen)) THEN Fin(sig, "SL", sig.sl, Start(h + 1), read)
      ELSE Fin(sig, "TP", sig.tp, Start(h + 1), read)

\* Mutant: without a candle nothing is decided.
NoCandleNoOutcome(sig, read, seen) ==
  LET hours == Hours(sig, read, seen)
  IN  IF read < Expiry(sig) + HourTicks \/ hours = {} THEN sig
      ELSE Fin(sig, "EXPIRED", Close(Max(hours), seen), Start(Max(hours) + 1), read)

\* No candle touched either level.
Untouched(sig, read, seen) ==
  LET hours == Hours(sig, read, seen)
  IN  IF read < Expiry(sig) + HourTicks THEN sig
      ELSE IF hours = {} THEN Fin(sig, "EXPIRED", sig.entry, Expiry(sig), read)
      ELSE Fin(sig, "EXPIRED", Close(Max(hours), seen), Start(Max(hours) + 1), read)

Touched(sig, h, seen) == Stops(sig, Worst(sig, h, seen)) \/ Gains(sig, Best(sig, h, seen))

-----------------------------------------------------------------------------
(* The world. *)

OpenRows == {s \in Signals : signals[s] # Null /\ signals[s].outcome = Null}

\* Time passes, while there is something to look at; a new hour may be any.
Tick ==
  /\ now < MaxTime /\ (now <= CreateBy \/ OpenRows # {})
  /\ pass # NoPass => now < pass.read + MaxLag
  /\ now' = now + 1
  /\ IF Hour(now') = Hour(now) THEN UNCHANGED market ELSE \E h \in Shapes : market' = Append(market, h)
  /\ UNCHANGED <<signals, pass>>

LastPrice ==
  LET traded == {k \in 0 .. now : Price(k) # Null}
  IN  IF traded = {} THEN LastClose ELSE Price(Max(traded))

\* A scan INSERTs a signal at the last price, one of its levels missing at times.
Create(s) ==
  /\ signals[s] = Null /\ now <= CreateBy
  /\ \E kind \in Kinds[s] :
       LET risk == IF kind.side = "BUY" THEN -1 ELSE 1
       IN  signals' = [signals EXCEPT ![s] =
             [side |-> kind.side, entry |-> LastPrice, sl |-> IF kind.missing THEN 0 ELSE LastPrice + risk,
              tp |-> LastPrice - risk, created |-> now, outcome |-> Null, exit |-> Null, closed |-> Null]]
  /\ UNCHANGED <<now, market, pass>>

-----------------------------------------------------------------------------
(* The job. *)

Older(s, t) == signals[s].created <= signals[t].created

\* resolveOpenSignals, when no pass runs: the SELECT, oldest rows first, and `now`.
resolveOpenSignals ==
  /\ pass = NoPass /\ OpenRows # {}
  /\ \E order \in [1 .. Min({Limit, Cardinality(OpenRows)}) -> OpenRows] :
       /\ \A i, j \in DOMAIN order : i < j => order[i] # order[j] /\ Older(order[i], order[j])
       /\ \A s \in OpenRows \ {order[i] : i \in DOMAIN order} : \A i \in DOMAIN order : Older(order[i], s)
       /\ pass' = [read |-> now, todo |-> order, seen |-> Null]
  /\ UNCHANGED <<now, market, signals>>

\* The candles arrive: what the market did until then, but no hour that began after `now`.
FetchCandles ==
  /\ pass # NoPass /\ pass.seen = Null
  /\ pass' = [pass EXCEPT !.seen = now]
  /\ UNCHANGED <<now, market, signals>>

\* resolveOutcome, and the UPDATE when it has an outcome.
resolveOutcome(s) ==
  LET sig == signals[s]
      hours == Hours(sig, pass.read, pass.seen)
  IN  \/ /\ sig.sl = 0
         /\ signals' = [signals EXCEPT ![s] = Fin(@, "INVALID", Null, pass.read, pass.read)]
      \/ /\ sig.sl # 0
         /\ \E h \in hours : /\ Touched(sig, h, pass.seen) /\ \A g \in hours : g < h => ~Touched(sig, g, pass.seen)
                            /\ signals' = [signals EXCEPT ![s] = ClosedBy(@, h, pass.read, pass.seen)]
      \/ /\ sig.sl # 0 /\ \A h \in hours : ~Touched(sig, h, pass.seen)
         /\ signals' = [signals EXCEPT ![s] = Untouched(@, pass.read, pass.seen)]

\* One signal of the pass.
ResolveNext ==
  /\ pass.seen # Null
  /\ resolveOutcome(Head(pass.todo))
  /\ pass' = IF Len(pass.todo) = 1 THEN NoPass ELSE [pass EXCEPT !.todo = Tail(@)]
  /\ UNCHANGED <<now, market>>

\* The request or an UPDATE fails, or the process stops: the rest waits for the next pass.
PassFails ==
  /\ pass # NoPass
  /\ pass' = NoPass
  /\ UNCHANGED <<now, market, signals>>

OutcomesNext ==
  \/ Tick \/ \E s \in Signals : Create(s)
  \/ resolveOpenSignals \/ FetchCandles \/ ResolveNext \/ PassFails

OutcomesSpec == OutcomesInit /\ [][OutcomesNext]_outcomesVars

\* Time passes, cron runs the job every 15 minutes, and what is tried again and again works at last.
OutcomesFairSpec ==
  /\ OutcomesSpec /\ WF_outcomesVars(Tick) /\ WF_outcomesVars(resolveOpenSignals) /\ SF_outcomesVars(FetchCandles) /\ SF_outcomesVars(ResolveNext)

-----------------------------------------------------------------------------
Times == 0 .. MaxTime
Row == [side : {"BUY", "SELL"}, entry : Nat, sl : Nat, tp : Nat, created : Times,
        outcome : {Null, "SL", "TP", "EXPIRED", "INVALID"}, exit : Nat \cup {Null}, closed : Times \cup {Null}]

\* Nor is it a row.
ASSUME NoRowAssumption == Null \notin Row

OutcomesTypes ==
  /\ now \in Times /\ market \in Seq(Shapes) /\ Len(market) = Hour(now) + 1
  /\ signals \in [Signals -> Row \cup {Null}]
  /\ \A s \in Signals : signals[s] # Null => [side |-> signals[s].side, missing |-> signals[s].sl = 0] \in Kinds[s]
  /\ pass \in [read : Times \cup {Null}, todo : Seq(Signals), seen : Times \cup {Null}]

\* The ticks of the signal's hours, its own from the start, at which the price was at or beyond a level.
Held(sig) == {k \in From(sig) .. now : Start(Hour(k)) < Expiry(sig) /\ Price(k) # Null}
Stopped(sig) == {k \in Held(sig) : Stops(sig, Price(k))}
Gained(sig) == {k \in Held(sig) : Gains(sig, Price(k))}

\* The market opened at tick k, in an hour that began no earlier than the signal.
AtOpen(sig, k) == Start(Hour(k)) >= sig.created /\ \A i \in Start(Hour(k)) .. k - 1 : Price(i) = Null

\* What the outcome of a signal says of the prices.
Earned(sig) ==
  /\ sig.closed \in sig.created .. now
  /\ sig.outcome = "SL" =>
       /\ \E k \in Stopped(sig) : \A j \in Gained(sig) : Hour(j) >= Hour(k) /\ (Hour(j) = Hour(k) => ~AtOpen(sig, j))
       /\ Pnl(sig, sig.exit) < 0 /\ Stops(sig, sig.exit)
  /\ sig.outcome = "TP" =>
       /\ \E k \in Gained(sig) : \A j \in Stopped(sig) : j > k /\ (Hour(j) = Hour(k) => sig.closed < Start(Hour(k) + 1))
       /\ Pnl(sig, sig.exit) > 0 /\ Gains(sig, sig.exit)
  /\ sig.outcome = "EXPIRED" =>
       /\ now >= Start(Hour(Expiry(sig) - 1) + 1)
       /\ Stopped(sig) = {} /\ Gained(sig) = {}
  /\ sig.outcome = "INVALID" <=> sig.sl = 0

(* Types; and an outcome is what the hours of the market say, whenever the job looked and however often it     *)
(* failed.  A stop counts when no earlier hour reached the target, nor its own hour at its open: both in one    *)
(* hour are a stop (outcomeResolver.service.js:11-12).  A target counts when the price never reached the stop   *)
(* before it, nor at any time of its hour, unless the row was closed before that hour was over: at its open, or *)
(* by a candle that was not finished, which the header does not foresee.  The hours begin with the one of the   *)
(* signal, whole: what the price did in it before the signal counts too, against :4-5.  A signal expires when    *)
(* its week passed without either.  A stop loses, a target wins, at the level or at the price of an open.       *)
OutcomeFollowsHours ==
  /\ OutcomesTypes
  /\ \A s \in Signals : signals[s] # Null /\ signals[s].outcome # Null => Earned(signals[s])

\* A signal was created at some tick so far, between its levels when it has both.
Between(sig) == IF sig.side = "BUY" THEN sig.sl < sig.entry /\ sig.entry < sig.tp
                                    ELSE sig.tp < sig.entry /\ sig.entry < sig.sl
SignalInv ==
  \A s \in Signals : signals[s] # Null =>
    signals[s].created <= now /\ (signals[s].sl # 0 => Between(signals[s]))

\* A pass has rows to do that were there when it began, and candles no older than that.
PassInv ==
  pass # NoPass =>
    /\ pass.read \in Times /\ pass.read <= now /\ pass.todo # <<>>
    /\ \A i \in DOMAIN pass.todo : signals[pass.todo[i]] # Null /\ signals[pass.todo[i]].created <= pass.read
    /\ pass.seen # Null => pass.read <= pass.seen /\ pass.seen <= now

\* The inductive invariant.
OutcomesInv == OutcomeFollowsHours /\ SignalInv /\ PassInv

(* Every signal is closed in the end (none is created after CreateBy): behind older signals that fill the  *)
(* batch, after failed requests and crashes, and when the market was closed all the time.                  *)
EverySignalCloses == []<>(OpenRows = {})
=============================================================================
