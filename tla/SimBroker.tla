------------------------------ MODULE SimBroker ------------------------------
(***************************************************************************)
(* The simulated broker of the backtest (adapters/broker_sim.py): cash, the *)
(* shares held, and the proceeds of sales that are still to be settled.    *)
(* Backtest extends this module with the driver that calls it.             *)
(*                                                                         *)
(* An order of the cycle at time t fills at the first bar after t (at or   *)
(* after t with fill_at_close) on which the symbol trades.  That bar lies  *)
(* in the future of the cycle, and yet cash and shares change at once.     *)
(* Which bar it is and at which price is chosen when it is first needed    *)
(* and remembered, since every later order that looks for the same bar     *)
(* finds it again.  Slippage is part of the price.                         *)
(***************************************************************************)
EXTENDS Integers, Functions

CONSTANTS
  Symbols,          \* the symbols with bars
  None,             \* no value
  InitialCash,      \* cash before the first cycle
  Prices,           \* prices of one share
  MaxTime,          \* bound: cycles of the replay
  SettlementDays,   \* SimBrokerConfig.settlement_days
  CommissionPct,    \* commission_rate and tax_rate, in percent
  TaxPct,
  Configs           \* the replays: configuration and kind of the bars

ASSUME BrokerAssumption ==
  /\ {InitialCash, SettlementDays, CommissionPct, TaxPct} \subseteq Nat
  /\ CommissionPct + TaxPct <= 50   \* fees are less than what they are taken of
  /\ MaxTime \in Nat \ {0}
  /\ Prices \subseteq Nat \ {0} /\ Prices # {}
  /\ \A c \in Configs : c.barsPerDay \in Nat \ {0} /\ {c.fillAtClose, c.barsEnd} \subseteq BOOLEAN

VARIABLES
  cfg,          \* the configuration of the replay
  cash,         \* _cash: what may be spent
  holdings,     \* _positions: symbol -> shares
  owed,         \* _pending: settlement day -> proceeds paid out that day
  costs,        \* _total_costs
  \* The bars, as far as an order has looked for them.
  nextBar,      \* symbol -> the bar last found
  ended         \* symbols without a tradable bar in their future

brokerVars == <<cash, holdings, owed, costs, nextBar, ended>>

\* Cycles of one calendar day: daily bars, or minutes.
BarsPerDay == cfg.barsPerDay
\* SimBrokerConfig.fill_at_close
FillAtClose == cfg.fillAtClose
\* May the bars of a symbol end before the replay does?
BarsEnd == cfg.barsEnd

Times   == 1..MaxTime
BarTimes == 1..(MaxTime + 1)
Day(t)  == (t - 1) \div BarsPerDay
LastDay == Day(MaxTime + 1) + SettlementDays
Days    == 0..LastDay
Bar     == [at : BarTimes, price : Prices]

BrokerTypeOK ==
  /\ cash \in Int
  /\ holdings \in [Symbols -> Nat]
  /\ owed \in [Days -> Int]
  /\ costs \in Nat
  /\ nextBar \in [Symbols -> Bar \cup {None}]
  /\ ended \subseteq Symbols

BrokerInit ==
  /\ cfg \in Configs
  /\ cash = InitialCash
  /\ holdings = [s \in Symbols |-> 0]
  /\ owed = [d \in Days |-> 0]
  /\ costs = 0
  /\ nextBar = [s \in Symbols |-> None]
  /\ ended = {}

pending_settlement == SumFunction(owed)

-----------------------------------------------------------------------------
(* Bars. *)

\* _next_bar() looks strictly after the cycle, _bar_at_or_after() does not.
Eligible(at, t) == at > t \/ (FillAtClose /\ at = t)

\* Faulty variant: a sale takes the next bar whether it has volume or not.
FillBarsSaleAtOnce(x, t) ==
  IF x.side = "buy" /\ nextBar[x.symbol] # None /\ Eligible(nextBar[x.symbol].at, t)
  THEN {nextBar[x.symbol]}
  ELSE [at : {at \in BarTimes : Eligible(at, t)
                /\ (x.side = "sell" => at <= t + 1)}, price : Prices]

\* The bars an order of time t may fill at: the one already known, or any.
FillBars(x, t) ==
  IF nextBar[x.symbol] # None /\ Eligible(nextBar[x.symbol].at, t)
  THEN {nextBar[x.symbol]}
  ELSE [at : {at \in BarTimes : Eligible(at, t)}, price : Prices]

\* Is there no bar with volume left?  Once it is so it stays so.
MayEnd(s, t) ==
  BarsEnd /\ (nextBar[s] # None => ~Eligible(nextBar[s].at, t))

-----------------------------------------------------------------------------
(* submit(). *)

\* int(round(amount * rate)).
Share(amount, pct) == (2 * amount * pct + 100) \div 200

Matured(d, today) == d <= today

\* Faulty variant: proceeds are paid out with the next submission.
SettleEverything(today) ==
  /\ cash' = cash + pending_settlement
  /\ owed' = [d \in Days |-> 0]
  /\ UNCHANGED <<holdings, costs, nextBar, ended>>

\* _settle(): matured proceeds become cash and leave the queue.
Settle(today) ==
  /\ cash' = cash + SumFunctionOnSet(owed, {d \in Days : Matured(d, today)})
  /\ owed' = [d \in Days |-> IF Matured(d, today) THEN 0 ELSE owed[d]]
  /\ UNCHANGED <<holdings, costs, nextBar, ended>>

\* No bar after the order: the outcome is unknown.
FillNothing(x, t) ==
  /\ x.symbol \in ended \/ MayEnd(x.symbol, t)
  /\ ended' = ended \cup {x.symbol}
  /\ UNCHANGED <<cash, holdings, owed, costs, nextBar>>

FindBar(x, bar, t) ==
  /\ x.symbol \notin ended
  /\ bar \in FillBars(x, t)
  /\ nextBar' = [nextBar EXCEPT ![x.symbol] = bar]
  /\ UNCHANGED ended

\* _order_cost(): what a purchase takes out of cash.
BuyCost(x, bar) == bar.price * x.qty + Share(bar.price * x.qty, CommissionPct)

Affordable(x, bar) == BuyCost(x, bar) <= cash

FillBuy(x, bar) ==
  /\ x.side = "buy" /\ Affordable(x, bar)
  /\ cash' = cash - BuyCost(x, bar)
  /\ costs' = costs + Share(bar.price * x.qty, CommissionPct)
  /\ holdings' = [holdings EXCEPT ![x.symbol] = @ + x.qty]
  /\ UNCHANGED owed

\* A purchase cash does not cover is rejected whole.
RejectBuy(x, bar) ==
  /\ x.side = "buy" /\ ~Affordable(x, bar)
  /\ UNCHANGED <<cash, holdings, owed, costs>>

\* The shares leave at once, the proceeds come settlement_days after the bar.
\* With fewer shares than that submit() raises, which ends the replay.
FillSell(x, bar) ==
  LET gross == bar.price * x.qty
      fees == Share(gross, CommissionPct) + Share(gross, TaxPct) IN
  /\ x.side = "sell" /\ holdings[x.symbol] >= x.qty
  /\ costs' = costs + fees
  /\ holdings' = [holdings EXCEPT ![x.symbol] = @ - x.qty]
  /\ owed' = [owed EXCEPT ![Day(bar.at) + SettlementDays] = @ + gross - fees]
  /\ UNCHANGED cash

=============================================================================
