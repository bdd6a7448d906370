------------------------------ MODULE Decision ------------------------------
(***************************************************************************)
(* One decision of run_cycle() (engine/loop.py): from a snapshot ctx of    *)
(* account, bars, events and order history to a list of orders.  Strategy, *)
(* gate, kill switch and order generation are pure operators here; module  *)
(* Trading lets the account move between the decisions.  A weight is kept  *)
(* times 100 * Scale(ctx), so that weights are integers.                   *)
(***************************************************************************)
EXTENDS ExitRules

CONSTANTS
  Symbols,       \* stock codes: integers, as codes are ordered
  Events,        \* event_id values
  Judgment,      \* event -> its symbol and the verdict, confidence and rule of the judge
  TradingUnit    \* symbol -> symbol_master.trading_unit

\* What is held, by a symbol; entered is a day.
Position ==
  [symbol : Symbols, qty : Nat \ {0}, cost : Nat \ {0}, entered : Nat, rule : ExitRule,
   event : Events \cup {None}]

\* A positive verdict carries an exit rule.
ASSUME JudgmentAssumption ==
  /\ Symbols \subseteq Nat /\ IsFiniteSet(Symbols)
  /\ TradingUnit \in [Symbols -> Nat]
  /\ None \notin Events \cup Int \cup Position
  /\ \A e \in Events :
       /\ Judgment[e].symbol \in Symbols /\ Judgment[e].confidence \in Nat
       /\ Judgment[e].verdict => Judgment[e].rule \in ExitRule

\* StrategyConfig, GateConfig and DiffConfig with the checks they make.
CycleConfig(cfg) ==
  /\ cfg.entryWeight \in 1..100 /\ cfg.history \in Nat \ {0}
  /\ cfg.trigger \in {"event", "watchlist_rank"}
  /\ cfg.rule \in ExitRule
  /\ cfg.rule.maxBars = None \/ cfg.rule.maxBars <= cfg.history
  /\ cfg.maxPositions \in Nat \ {0} /\ cfg.maxWeight \in 1..100
  /\ {cfg.cooldownDays, cfg.minOrderValue, cfg.priceLimit} \subseteq Nat
  /\ cfg.noTradeBand \in 0..99

-----------------------------------------------------------------------------
(* Reading the context. *)

HeldSymbols(ctx) == {p.symbol : p \in ToSet(ctx.positions)}

PositionOf(ctx, s) == CHOOSE p \in ToSet(ctx.positions) : p.symbol = s

\* The items of seq that are in keep, in their order.
Select(seq, keep) ==
  LET chosen[n \in 0..Len(seq)] ==
        IF n = 0 THEN <<>>
        ELSE IF seq[n] \in keep THEN Append(chosen[n - 1], seq[n]) ELSE chosen[n - 1]
  IN chosen[Len(seq)]

\* The bars are in order: those up to now come first.
VisibleEnd(ctx, s) == Cardinality({i \in DOMAIN ctx.bars[s] : ctx.bars[s][i].day <= ctx.day})

\* The last count bars that are visible now.
History(ctx, s, count) ==
  SubSeq(ctx.bars[s], Max({1, VisibleEnd(ctx, s) - count + 1}), VisibleEnd(ctx, s))

HasBar(ctx, s) == History(ctx, s, 1) # <<>>
Latest(ctx, s) == History(ctx, s, 1)[1]

Scale(ctx) == Max({ctx.equity, 1})

-----------------------------------------------------------------------------
(* core/strategy.py: the portfolio that is wanted. *)

Item(s, weight, event, rule) ==
  [symbol |-> s, weight |-> weight, event |-> event, rule |-> rule]

EntryWeight(ctx, cfg) == cfg.entryWeight * Scale(ctx)

\* What the position weighs, rounded up by just less than a share, but no less
\* than an entry.
CurrentWeight(p, ctx, cfg) ==
  IF ctx.equity <= 0 \/ ~HasBar(ctx, p.symbol) THEN EntryWeight(ctx, cfg)
  ELSE LET close == Latest(ctx, p.symbol).close
       IN Max({EntryWeight(ctx, cfg),
               Min({(p.qty * close + close - 1) * 100, 100 * ctx.equity})})

HeldItem(p, ctx, cfg) ==
  LET bars == History(ctx, p.symbol, cfg.history)
      reason == Evaluate(p, bars, ctx.day, ctx.barsLeft)
      dropped == cfg.exitWhenDropped /\ p.symbol \notin ToSet(ctx.watchlist)
  IN IF reason # None \/ dropped THEN Item(p.symbol, 0, p.event, None)
     ELSE Item(p.symbol, CurrentWeight(p, ctx, cfg), p.event, p.rule)

\* Positions in the ctx.events list that would open a position in s.
Signals(ctx, s) ==
  {i \in DOMAIN ctx.events :
     LET judgment == Judgment[ctx.events[i]]
     IN judgment.symbol = s /\ judgment.verdict}

Confidence(ctx, i) == Judgment[ctx.events[i]].confidence

\* The most confident signal for s, the first of them if there are several.
BestSignal(ctx, s) ==
  CHOOSE i \in Signals(ctx, s) : \A j \in Signals(ctx, s) :
    \/ Confidence(ctx, j) < Confidence(ctx, i)
    \/ Confidence(ctx, j) = Confidence(ctx, i) /\ i <= j

EventEntries(ctx, cfg) ==
  LET wanted == {s \in ToSet(ctx.watchlist) \ HeldSymbols(ctx) : Signals(ctx, s) # {}}
      rank(s) == Confidence(ctx, BestSignal(ctx, s))
      entry(s) == Item(s, EntryWeight(ctx, cfg), ctx.events[BestSignal(ctx, s)],
                       Judgment[ctx.events[BestSignal(ctx, s)]].rule)
      before(s) == {t \in wanted : rank(t) > rank(s) \/ (rank(t) = rank(s) /\ t < s)}
      place(s) == Cardinality(before(s)) + 1
  IN [i \in 1..Cardinality(wanted) |-> entry(CHOOSE s \in wanted : place(s) = i)]

WatchlistEntries(ctx, cfg) ==
  LET wanted == Select(ctx.watchlist, Symbols \ HeldSymbols(ctx))
  IN [i \in DOMAIN wanted |-> Item(wanted[i], EntryWeight(ctx, cfg), None, cfg.rule)]

BuildTarget(ctx, cfg) ==
  [i \in DOMAIN ctx.positions |-> HeldItem(ctx.positions[i], ctx, cfg)]
    \o IF cfg.trigger = "event" THEN EventEntries(ctx, cfg) ELSE WatchlistEntries(ctx, cfg)

-----------------------------------------------------------------------------
(* core/gate.py: what the rules let pass, in the order of the target. *)

\* Faulty variant: only the events of held positions count as used.
UsedEventsHeld(ctx) == {p.event : p \in ToSet(ctx.positions)} \ {None}

UsedEvents(ctx) == ctx.usedEvents \cup ({p.event : p \in ToSet(ctx.positions)} \ {None})

\* Faulty variant: the day on which the cooldown ends is a day too early.
InCooldownShort(s, ctx, cfg) ==
  ctx.lastExit[s] # None /\ ctx.day - ctx.lastExit[s] < cfg.cooldownDays - 1

InCooldown(s, ctx, cfg) ==
  /\ cfg.cooldownDays > 0
  /\ ctx.lastExit[s] # None
  /\ ctx.day - ctx.lastExit[s] < cfg.cooldownDays

Clamp(item, ctx, cfg) ==
  [item EXCEPT !.weight = Min({@, cfg.maxWeight * Scale(ctx)})]

Rejected(item, passed, ctx, cfg) ==
  \/ item.weight <= 0
  \/ item.event # None /\ item.event \in passed.used
  \/ InCooldown(item.symbol, ctx, cfg)
  \/ passed.occupied >= cfg.maxPositions

\* Held symbols pass untouched; the others have to find a slot.
GateItem(passed, item, ctx, cfg) ==
  CASE item.symbol \in HeldSymbols(ctx) -> [passed EXCEPT !.kept = Append(@, item)]
    [] item.symbol \notin HeldSymbols(ctx) /\ Rejected(item, passed, ctx, cfg) -> passed
    [] OTHER -> [kept     |-> Append(passed.kept, Clamp(item, ctx, cfg)),
                 occupied |-> passed.occupied + 1,
                 used     |-> passed.used \cup ({item.event} \ {None})]

Occupied(target, ctx) ==
  Cardinality({i \in DOMAIN target : /\ target[i].symbol \in HeldSymbols(ctx)
                                     /\ target[i].weight > 0})

Gate(target, ctx, cfg) ==
  LET passed[n \in 0..Len(target)] ==
        IF n = 0
        THEN [kept |-> <<>>, occupied |-> Occupied(target, ctx), used |-> UsedEvents(ctx)]
        ELSE GateItem(passed[n - 1], target[n], ctx, cfg)
  IN passed[Len(target)].kept

\* engine/loop.py: the kill switch drops new entries and nothing else.
ApplyKillSwitch(target, ctx, engaged) ==
  Select(target, {item \in ToSet(target) : \/ ~engaged \/ item.symbol \in HeldSymbols(ctx)
                                           \/ item.weight <= 0})

-----------------------------------------------------------------------------
(* core/diff.py: the orders that lead to the target. *)

\* What KIS sets aside for a share bought at the market: the price limit up.
MarginUnitPrice(price, cfg) == (price * (100 + cfg.priceLimit)) \div 100 + 1

FloorToTradingUnit(qty, unit) == IF unit <= 1 THEN qty ELSE qty - (qty % unit)

Order(s, side, qty, event, rule, ref) ==
  [symbol |-> s, side |-> side, qty |-> qty, event |-> event, rule |-> rule, ref |-> ref]

\* Faulty variant: whatever the target lists is kept.
WantedListed(target) == {item.symbol : item \in ToSet(target)}

Wanted(target) == {item.symbol : item \in {i \in ToSet(target) : i.weight > 0}}

\* Positions the target leaves out or wants to be rid of.
Leaving(target, ctx) ==
  Select(ctx.positions,
         {p \in ToSet(ctx.positions) : p.symbol \notin ctx.pending \cup Wanted(target)})

\* They are sold whole, with or without a bar.
Exits(target, ctx) ==
  LET leaving == Leaving(target, ctx)
      exit(p) == Order(p.symbol, "sell", p.qty, p.event, None,
                       IF HasBar(ctx, p.symbol) THEN Latest(ctx, p.symbol).close ELSE None)
  IN [i \in DOMAIN leaving |-> exit(leaving[i])]

\* Faulty variant: every purchase of the cycle sees the whole cash.
SetAsideNothing(cash, qty, margin) == cash

\* The cash that is left for the next purchase of the cycle.
SetAside(cash, qty, margin) == cash - qty * margin

\* The remaining cash and the orders after one more item of the target.
Rebalance(plan, item, ctx, cfg) ==
  IF item.weight <= 0 \/ item.symbol \in ctx.pending \/ ~HasBar(ctx, item.symbol) THEN plan
  ELSE
    LET price   == Latest(ctx, item.symbol).close
        margin  == MarginUnitPrice(price, cfg)
        current == IF item.symbol \in HeldSymbols(ctx)
                   THEN PositionOf(ctx, item.symbol).qty ELSE 0
        delta   == (item.weight \div 100) \div price - current
        affordable == plan.cash \div margin
        capped  == delta > 0 /\ affordable < delta
        qty     == FloorToTradingUnit(IF capped THEN affordable ELSE Abs(delta),
                                      TradingUnit[item.symbol])
        tiny    == \/ qty * price < cfg.minOrderValue
                   \/ qty * price * 100 < cfg.noTradeBand * ctx.equity
        nothing == \/ delta = 0 \/ qty = 0
                   \/ delta > 0 /\ affordable <= 0
                   \/ ~capped /\ tiny
    IN IF nothing THEN plan
       ELSE IF delta > 0
       THEN [cash   |-> SetAside(plan.cash, qty, margin),
             orders |-> Append(plan.orders,
                          Order(item.symbol, "buy", qty, item.event, item.rule, price))]
       ELSE [plan EXCEPT !.orders =
               Append(@, Order(item.symbol, "sell", qty, item.event, None, price))]

Rebalances(target, ctx, cfg) ==
  LET plan[n \in 0..Len(target)] ==
        IF n = 0 THEN [cash |-> ctx.cash, orders |-> <<>>]
        ELSE Rebalance(plan[n - 1], target[n], ctx, cfg)
  IN plan[Len(target)].orders

ToOrders(target, ctx, cfg) ==
  Exits(target, ctx) \o IF ctx.equity <= 0 THEN <<>> ELSE Rebalances(target, ctx, cfg)

-----------------------------------------------------------------------------

\* What run_cycle() wants to hold, and the orders it submits for it.
FinalTarget(ctx, cfg, engaged) ==
  ApplyKillSwitch(Gate(BuildTarget(ctx, cfg), ctx, cfg), ctx, engaged)

CycleOrders(ctx, cfg, engaged) == ToOrders(FinalTarget(ctx, cfg, engaged), ctx, cfg)
=============================================================================
