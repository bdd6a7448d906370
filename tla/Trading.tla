------------------------------ MODULE Trading ------------------------------
(***************************************************************************)
(* The decisions of the daemon over several days: build_context()          *)
(* (engine/live_context.py) reads tables and account, run_cycle() submits  *)
(* the orders of module Decision, and the exchange fills or refuses them   *)
(* within the price limit.  How a single order is placed, lost and         *)
(* resolved is the subject of LiveTrading: here an order is outstanding    *)
(* from the cycle that placed it until the reconciliation that finds it    *)
(* filled or refused, and it does not outlive its day.                     *)
(***************************************************************************)
EXTENDS Decision

CONSTANTS
  InitialCash,
  Configs,        \* the configurations the daemon may be started with
  Watchlist,      \* table watchlist_snapshots: day -> ranking
  Markets,        \* what a day may bring: symbol -> its high, low and close, or None
  FillPrices,     \* prices an order may be filled at
  CostPct,        \* fees and taxes on the value of a fill, in percent
  EventLookback,  \* event_lookback, in days
  SessionBars,    \* session_bars_remaining: None unless bars are minutes
  InitialBars,    \* symbol -> the bars before the first day
  DisclosureDays, \* bound: days with disclosures
  MaxDay          \* bound: days

ASSUME TradingAssumption ==
  /\ InitialCash \in Nat /\ MaxDay \in Nat \ {0} /\ EventLookback \in Nat
  /\ \A config \in Configs : CycleConfig(config)
  /\ \A d \in 1..MaxDay : Watchlist[d] \in Seq(Symbols) /\ IsInjective(Watchlist[d])
  /\ FillPrices \subseteq Nat \ {0} /\ CostPct \in 0..100
  /\ \A s \in Symbols : /\ InitialBars[s] \in Seq(Bar)
                         /\ \A bar \in ToSet(InitialBars[s]) : bar.day = 0 /\ bar.close > 0
  /\ \A today \in Markets, s \in Symbols :
       today[s] # None =>
         /\ {today[s].high, today[s].low, today[s].close} \subseteq Nat \ {0}
         /\ today[s].low <= today[s].close /\ today[s].close <= today[s].high

VARIABLES
  cfg,          \* CycleConfig of the process
  day,
  bars,         \* table stock_candles_1d: symbol -> its bars in order
  feed,         \* table events: [event, day of ingested_at] in order
  cash,         \* the account: money, orders outstanding not deducted
  positions,    \* symbol -> [symbol, qty, cost, entered, rule, event], or None
  outstanding,  \* orders that are neither filled nor refused
  usedEvents,   \* the event_id values of table orders
  lastSell,     \* symbol -> day of its last sale in table orders, or None
  entries,      \* Ghost: event -> number of positions opened on it
  lastExit,     \* Ghost: symbol -> day its last position was sold, or None
  limitCosts    \* Ghost: costs that nothing was set aside for, since the last
                \* cycle that placed a purchase

market  == <<day, bars, feed>>
account == <<cash, positions>>
history == <<usedEvents, lastSell>>
ghosts  == <<entries, lastExit, limitCosts>>
vars == <<cfg, market, account, outstanding, history, ghosts>>

Init ==
  /\ cfg \in Configs
  /\ day = 1 /\ bars = InitialBars /\ feed = <<>>
  /\ cash = InitialCash /\ positions = [s \in Symbols |-> None]
  /\ outstanding = {}
  /\ usedEvents = {} /\ lastSell = [s \in Symbols |-> None]
  /\ entries = [e \in Events |-> 0] /\ lastExit = [s \in Symbols |-> None]
  /\ limitCosts = 0

Held == {s \in Symbols : positions[s] # None}

-----------------------------------------------------------------------------
(* The snapshot of a cycle. *)

Purchases == {o \in outstanding : o.side = "buy"}

\* What KIS sets aside for the open purchases.
Reserved == SumFunction([o \in Purchases |-> o.qty * MarginUnitPrice(o.ref, cfg)])

\* The cash of a cycle: what may still be ordered for, nothing when costs have used
\* it up.  The broker reads dnca_tot_amt of the balance; that KIS answers with the
\* money that is not set aside is what core/diff.py needs, and is assumed here.
OrderableCash == Max({0, cash - Reserved})

RecentEvents ==
  LET recent == Select(feed, {f \in ToSet(feed) : day - f.day < EventLookback})
  IN [i \in DOMAIN recent |-> recent[i].event]

PendingSymbols == {o.symbol : o \in outstanding}

\* What the position counts for in the equity: its last close, or its cost.
Worth(s) ==
  IF bars[s] # <<>> THEN positions[s].qty * Last(bars[s]).close ELSE positions[s].cost

\* The context of a cycle that lists the positions in the given order.
BuildContext(listed, barsLeft) ==
  [day        |-> day,
   bars       |-> bars,
   watchlist  |-> Watchlist[day],
   positions  |-> [i \in DOMAIN listed |-> positions[listed[i]]],
   events     |-> RecentEvents,
   cash       |-> OrderableCash,
   equity     |-> OrderableCash + SumFunction([s \in Held |-> Worth(s)]),
   usedEvents |-> usedEvents,
   lastExit   |-> lastSell,
   pending    |-> PendingSymbols,
   barsLeft   |-> barsLeft]

\* One cycle: the orders are rows of table orders before they are sent.  The
\* kill switch may have been turned since the last one.
Cycle ==
  \E listed \in SetToSeqs(Held), barsLeft \in SessionBars, killSwitch \in BOOLEAN :
    LET orders == ToSet(CycleOrders(BuildContext(listed, barsLeft), cfg, killSwitch))
        bought == {o \in orders : o.side = "buy"}
        sold   == {o.symbol : o \in {x \in orders : x.side = "sell"}}
    IN /\ orders # {}
       /\ outstanding' = outstanding \cup orders
       /\ usedEvents' = usedEvents \cup ({o.event : o \in orders} \ {None})
       /\ lastSell' = [s \in Symbols |-> IF s \in sold THEN day ELSE lastSell[s]]
       /\ limitCosts' = IF bought # {} THEN 0 ELSE limitCosts
       /\ UNCHANGED <<cfg, market, account, entries, lastExit>>

-----------------------------------------------------------------------------
(* The exchange and the account. *)

\* A price that a day after a close of ref can have.
WithinLimit(price, ref) ==
  /\ price * 100 <= ref * (100 + cfg.priceLimit)
  /\ price * 100 >= ref * (100 - cfg.priceLimit)

\* What a fill of the given value costs.
Cost(value) == (value * CostPct) \div 100

\* The costs of a purchase when what was set aside for it does not cover them.
UncoveredCosts(o, price) ==
  LET value == o.qty * price
  IN IF value + Cost(value) > o.qty * MarginUnitPrice(o.ref, cfg) THEN Cost(value) ELSE 0

\* A purchase opens a position or adds to it; what was fixed at entry stays.
FillBuy(o, price) ==
  /\ o.side = "buy" /\ WithinLimit(price, o.ref)
  /\ cash' = cash - o.qty * price - Cost(o.qty * price)
  /\ limitCosts' = limitCosts + UncoveredCosts(o, price)
  /\ LET p   == positions[o.symbol]
         row == IF p # None
                THEN [p EXCEPT !.qty = @ + o.qty, !.cost = @ + o.qty * price]
                ELSE [symbol |-> o.symbol, qty |-> o.qty, cost |-> o.qty * price,
                      entered |-> day, rule |-> o.rule, event |-> o.event]
     IN positions' = [positions EXCEPT ![o.symbol] = row]
  /\ entries' = [e \in Events |->
       IF e = o.event /\ o.symbol \notin Held THEN entries[e] + 1 ELSE entries[e]]
  /\ UNCHANGED lastExit

\* Faulty variant: a sale of the whole position leaves a row of no shares.
DepletedLate(sold, held) == sold > held

\* The position of a sale is gone when nothing of it is left.
Depleted(sold, held) == sold >= held

FillSell(o, price) ==
  /\ o.side = "sell" /\ (o.ref # None => WithinLimit(price, o.ref))
  /\ cash' = cash + o.qty * price - Cost(o.qty * price)
  /\ LET p    == positions[o.symbol]
         rest == [p EXCEPT !.qty = @ - o.qty, !.cost = @ - (p.cost * o.qty) \div p.qty]
     IN IF Depleted(o.qty, p.qty)
        THEN /\ positions' = [positions EXCEPT ![o.symbol] = None]
             /\ lastExit' = [lastExit EXCEPT ![o.symbol] = day]
        ELSE /\ positions' = [positions EXCEPT ![o.symbol] = rest]
             /\ UNCHANGED lastExit
  /\ UNCHANGED <<entries, limitCosts>>

Fill ==
  \E o \in outstanding, price \in FillPrices :
    /\ FillBuy(o, price) \/ FillSell(o, price)
    /\ outstanding' = outstanding \ {o}
    /\ UNCHANGED <<cfg, market, history>>

\* An order is rejected, or cancelled before anything of it is filled.
Refuse ==
  \E o \in outstanding :
    /\ outstanding' = outstanding \ {o}
    /\ UNCHANGED <<cfg, market, account, history, ghosts>>

\* The collector stores the day's bars; a halted symbol has none.
Traded(s, shape) ==
  bars[s] # <<>> => WithinLimit(shape.close, Last(bars[s]).close)

NextDay ==
  /\ day < MaxDay /\ outstanding = {}
  /\ day' = day + 1
  /\ \E today \in Markets :
       /\ \A s \in Symbols : today[s] # None => Traded(s, today[s])
       /\ bars' = [s \in Symbols |->
            IF today[s] = None THEN bars[s]
            ELSE Append(bars[s], [day   |-> day, high |-> today[s].high,
                                  low   |-> today[s].low, close |-> today[s].close])]
  /\ UNCHANGED <<cfg, feed, account, outstanding, history, ghosts>>

\* A disclosure is stored; it is stored once.
Disclose ==
  \E e \in Events :
    /\ day \in DisclosureDays
    /\ \A i \in DOMAIN feed : feed[i].event # e
    /\ feed' = Append(feed, [event |-> e, day |-> day])
    /\ UNCHANGED <<cfg, day, bars, account, outstanding,
                   history, ghosts>>

\* The bound on the days is reached.
Over == day = MaxDay /\ UNCHANGED vars

Next == Cycle \/ Fill \/ Refuse \/ NextDay \/ Disclose \/ Over

Spec == Init /\ [][Next]_vars

-----------------------------------------------------------------------------
(* Properties. *)

PositionRow(p, s) == p \in Position /\ p.symbol = s /\ p.entered \in 1..day

OrderRow(o) ==
  /\ o.symbol \in Symbols /\ o.side \in {"buy", "sell"} /\ o.qty \in Nat \ {0}
  /\ o.event \in Events \cup {None}
  /\ o.side = "buy" => o.rule \in ExitRule /\ o.ref \in Nat \ {0}

\* Well-formedness of account, tables and orders.
TypeOK ==
  /\ cfg \in Configs /\ day \in 1..MaxDay
  /\ \A s \in Symbols : bars[s] \in Seq(Bar)
  /\ \A i \in DOMAIN feed : feed[i].event \in Events /\ feed[i].day \in 1..day
  /\ cash \in Int
  /\ \A s \in Symbols : positions[s] = None \/ PositionRow(positions[s], s)
  /\ \A o \in outstanding : OrderRow(o)
  /\ usedEvents \subseteq Events
  /\ lastSell \in [Symbols -> (1..day) \cup {None}]
  /\ entries \in [Events -> Nat] /\ lastExit \in [Symbols -> (1..day) \cup {None}]
  /\ limitCosts \in Nat

\* What KIS sets aside for the open purchases, of one cycle or of several, is in
\* the account, whatever the purchases between them were filled at.  Only the
\* costs of purchases filled near their limit may be missing, and a cycle that
\* places a purchase finds none missing (core/diff.py, _margin_unit_price: an
\* order cannot be refused for lack of cash, except for the costs of a fill at
\* the limit, and the next cycle takes care of those).
PurchasesCanBePaid == Reserved <= cash + limitCosts

\* A sale is always of the whole position, also when it fills later.  The next
\* cycle sells a position exactly if there is a reason to, whatever the gate, the
\* kill switch, the cash, missing bars and the other positions are; a position
\* with an open order waits for it (core/gate.py, core/diff.py: an exit is never
\* held back, and nothing else is an exit).
SoldForAReason ==
  /\ \A o \in outstanding :
       o.side = "sell" => o.symbol \in Held /\ o.qty = positions[o.symbol].qty
  /\ \A listed \in SetToSeqs(Held), barsLeft \in SessionBars, killSwitch \in BOOLEAN :
       LET ctx    == BuildContext(listed, barsLeft)
           orders == ToSet(CycleOrders(ctx, cfg, killSwitch))
           sold   == {o.symbol : o \in {x \in orders : x.side = "sell"}}
           due(s) == \/ Evaluate(positions[s], History(ctx, s, cfg.history), day, barsLeft) # None
                     \/ cfg.exitWhenDropped /\ s \notin ToSet(Watchlist[day])
       IN sold = {s \in Held \ PendingSymbols : due(s)}

\* One event opens at most one position, also after that position was sold and
\* while the event is still among the recent ones (core/gate.py).
EventOpensOnce == \A e \in Events : entries[e] <= 1

\* The bars the stop of s is computed from.
Window(s) ==
  SubSeq(bars[s], Max({1, Len(bars[s]) - cfg.history + 1}), Len(bars[s]))

\* The window still has every bar since entry, and the ATR of each of them is
\* the one it always had.
Covered(s) ==
  \/ Len(bars[s]) <= cfg.history
  \/ Cardinality({i \in DOMAIN Window(s) : Window(s)[i].day <= positions[s].entered})
       >= positions[s].rule.period + 1

\* While nothing is bought or sold of a position its stop never falls, also when
\* the range of the bars widens (core/exit_rules.py, the ratchet), as long as
\* the window of bars covers the position.
StopNeverFalls ==
  [][\A s \in Held :
       ( /\ positions'[s] = positions[s]
         /\ Covered(s)' )
       => Ratchet(positions[s], Window(s))' >= Ratchet(positions[s], Window(s))]_vars

\* A symbol that was sold out is not bought again before the cooldown is over: no
\* cycle places a purchase of it, and no purchase that was placed earlier opens a
\* position of it (core/gate.py).
CooldownIsKept ==
  [][/\ \A o \in outstanding' \ outstanding :
          (o.side = "buy" /\ o.symbol \notin Held /\ lastExit[o.symbol] # None)
          => day - lastExit[o.symbol] >= cfg.cooldownDays
     /\ \A s \in Symbols :
          (s \notin Held /\ s \in Held' /\ lastExit[s] # None)
          => day - lastExit[s] >= cfg.cooldownDays]_vars
=============================================================================
