------------------------------ MODULE Backtest ------------------------------
(***************************************************************************)
(* The backtest driver (apps/backtest.py, replay()): one cycle after the   *)
(* other it shows the decision code what has happened so far, submits the  *)
(* orders to the simulated broker and books the results.  The broker knows *)
(* quantities; entry time, event and last exit are kept by the driver, and *)
(* the two books must stay in step.  What strategy, gate and order         *)
(* generator choose is any choice within their limits.                     *)
(***************************************************************************)
EXTENDS SimBroker, FiniteSets

CONSTANTS
  Events,         \* event_id values
  MaxQty          \* bound: shares of one purchase

ASSUME BacktestAssumption ==
  /\ IsFiniteSet(Symbols)
  /\ MaxQty \in Nat \ {0}
  /\ \A c \in Configs : /\ {c.maxPositions, c.cooldownDays} \subseteq Nat
                        /\ c.trigger \in {"event", "watchlist_rank"}

VARIABLES
  now,          \* the time of the cycle
  phase,        \* where the cycle is
  held,         \* symbol -> entry metadata, or None
  used,         \* used_event_ids
  lastExitAt,   \* symbol -> bar of the last exit, or None
  exposed,      \* events that have been shown to a cycle
  newEvents,    \* the events shown to this cycle
  heldQty,      \* broker quantities when the cycle began
  plan,         \* orders not filled yet
  results,      \* results not booked yet
  turnover      \* the fills so far: day -> value bought and sold

replayVars == <<now, phase, held, used, lastExitAt, exposed, newEvents,
                heldQty, plan, results, turnover>>
vars == <<cfg, brokerVars, replayVars>>

\* GateConfig and StrategyConfig.
MaxPositions == cfg.maxPositions
CooldownDays == cfg.cooldownDays
EntryTrigger == cfg.trigger

Phases  == {"start", "decide", "settle", "fill", "book", "done"}
Meta    == [enteredAt : BarTimes, event : Events \cup {None}]
Order   == [symbol : Symbols, side : {"buy", "sell"}, qty : Nat \ {0},
            event : Events \cup {None}]
Result  == [order : Order, status : {"filled", "rejected", "unknown"},
            at : BarTimes \cup {None}]

\* Well-formedness of both books.
TypeOK ==
  /\ BrokerTypeOK
  /\ now \in 1..(MaxTime + 1) /\ phase \in Phases
  /\ held \in [Symbols -> Meta \cup {None}]
  /\ used \subseteq Events /\ exposed \subseteq Events
  /\ newEvents \subseteq Events
  /\ lastExitAt \in [Symbols -> BarTimes \cup {None}]
  /\ heldQty \in [Symbols -> Nat]
  /\ plan \subseteq Order /\ results \subseteq Result
  /\ turnover \in [0..Day(MaxTime + 1) -> [bought : Nat, sold : Nat]]

\* No value is mistaken for a missing one.
ASSUME NoneAssumption == None \notin Int /\ None \notin Meta \cup Bar

Init ==
  /\ BrokerInit
  /\ now = 1 /\ phase = "start"
  /\ held = [s \in Symbols |-> None]
  /\ used = {} /\ exposed = {} /\ newEvents = {}
  /\ lastExitAt = [s \in Symbols |-> None]
  /\ heldQty = [s \in Symbols |-> 0]
  /\ plan = {} /\ results = {}
  /\ turnover = [d \in 0..Day(MaxTime + 1) |-> [bought |-> 0, sold |-> 0]]

HeldSymbols == {s \in Symbols : held[s] # None}
BrokerSymbols == {s \in Symbols : holdings[s] > 0}

-----------------------------------------------------------------------------
(* A cycle begins. *)

\* Shares without entry metadata: _reconstruct_positions() raises.
Orphans == BrokerSymbols \ HeldSymbols

\* Quantities are taken before the orders of the cycle, and the events that
\* arrived since the last cycle are shown, each to one cycle only.
BeginCycle ==
  /\ phase = "start" /\ Orphans = {} /\ now <= MaxTime
  /\ phase' = "decide"
  /\ heldQty' = holdings
  /\ newEvents' \in SUBSET (Events \ exposed)
  /\ EntryTrigger = "watchlist_rank" => newEvents' = {}
  /\ exposed' = exposed \cup newEvents'
  /\ UNCHANGED <<cfg, brokerVars, now, held, used, lastExitAt, plan, results,
                 turnover>>

EndReplay ==
  /\ phase = "start" /\ Orphans = {} /\ now > MaxTime
  /\ phase' = "done"
  /\ UNCHANGED <<cfg, brokerVars, now, held, used, lastExitAt, exposed, newEvents,
                 heldQty, plan, results, turnover>>

\* The replay is over and its result returned.
Terminated == phase = "done" /\ UNCHANGED vars

-----------------------------------------------------------------------------
(* run_cycle(): strategy, gate, order generator. *)

\* The positions the decision sees.
Positions == HeldSymbols \cap BrokerSymbols

InCooldown(s) ==
  /\ CooldownDays > 0
  /\ lastExitAt[s] # None /\ Day(now) - Day(lastExitAt[s]) < CooldownDays

UsedEvents == used \cup {held[s].event : s \in Positions}

\* What may trigger an entry: a new event, or a place on the watchlist.
Triggers == IF EntryTrigger = "event" THEN newEvents ELSE {None}

\* The entries a cycle may make: symbols not held, at most one per event.
Entries ==
  {E \in SUBSET (Symbols \X Triggers) :
     \A x, y \in E : x # y => /\ x[1] # y[1]
                              /\ x[2] = y[2] => x[2] = None}

\* Faulty variant: positions to be sold keep nothing, held ones neither.
GatePassesUncounted(signalled, E) == Cardinality(E) <= MaxPositions

\* A held symbol that is to be sold does not count.
GatePasses(signalled, E) ==
  /\ \A x \in E : /\ x[1] \notin Positions
                  /\ x[2] # None => x[2] \notin UsedEvents
                  /\ ~InCooldown(x[1])
  /\ E # {} => Cardinality(Positions \ signalled) + Cardinality(E)
                 <= MaxPositions

Sale(s) == [symbol |-> s, side |-> "sell", qty |-> heldQty[s],
            event |-> held[s].event]
Purchase(s, e, q) == [symbol |-> s, side |-> "buy", qty |-> q, event |-> e]

\* Full sales of the signalled symbols, purchases for top-ups and entries.
OrdersFor(signalled, topUps, E, qty) ==
  {Sale(s) : s \in signalled}
  \cup {Purchase(s, held[s].event, qty[s]) : s \in topUps}
  \cup {Purchase(x[1], x[2], qty[x[1]]) : x \in E}

Decide ==
  /\ phase = "decide"
  /\ phase' = "settle"
  /\ \E signalled \in SUBSET Positions :
     \E topUps \in SUBSET (Positions \ signalled) :
     \E E \in Entries :
     \E qty \in [Symbols -> 1..MaxQty] :
       /\ GatePasses(signalled, E)
       /\ plan' = OrdersFor(signalled, topUps, E, qty)
  /\ UNCHANGED <<cfg, brokerVars, now, held, used, lastExitAt, exposed, newEvents,
                 heldQty, results, turnover>>

-----------------------------------------------------------------------------
(* broker.submit(). *)

SettleDue ==
  /\ phase = "settle"
  /\ phase' = "fill"
  /\ Settle(Day(now))
  /\ UNCHANGED <<cfg, now, held, used, lastExitAt, exposed, newEvents, heldQty,
                 plan, results, turnover>>

\* Exits come first in the list of orders.
Turn(x) == x \in plan /\ (x.side = "sell" \/ \A y \in plan : y.side = "buy")

Log(bar, bought, sold) ==
  turnover' = [turnover EXCEPT ![Day(bar.at)] =
                 [bought |-> @.bought + bought, sold |-> @.sold + sold]]

Returned(x, status, at) ==
  /\ plan' = plan \ {x}
  /\ results' = results \cup {[order |-> x, status |-> status, at |-> at]}
  /\ UNCHANGED <<cfg, now, phase, held, used, lastExitAt, exposed, newEvents,
                 heldQty>>

Unfilled(x) ==
  /\ phase = "fill" /\ Turn(x)
  /\ FillNothing(x, now)
  /\ Returned(x, "unknown", None)
  /\ UNCHANGED turnover

Buy(x, bar) ==
  /\ phase = "fill" /\ Turn(x)
  /\ FindBar(x, bar, now) /\ FillBuy(x, bar)
  /\ Returned(x, "filled", bar.at)
  /\ Log(bar, bar.price * x.qty, 0)

Reject(x, bar) ==
  /\ phase = "fill" /\ Turn(x)
  /\ FindBar(x, bar, now) /\ RejectBuy(x, bar)
  /\ Returned(x, "rejected", None)
  /\ UNCHANGED turnover

Sell(x, bar) ==
  /\ phase = "fill" /\ Turn(x)
  /\ FindBar(x, bar, now) /\ FillSell(x, bar)
  /\ Returned(x, "filled", bar.at)
  /\ Log(bar, 0, bar.price * x.qty)

Submitted ==
  /\ phase = "fill" /\ plan = {}
  /\ phase' = "book"
  /\ UNCHANGED <<cfg, brokerVars, now, held, used, lastExitAt, exposed, newEvents,
                 heldQty, plan, results, turnover>>

-----------------------------------------------------------------------------
(* _apply_fills(): fills become metadata.  Symbols do not repeat in the      *)
(* results of a cycle, so that each is judged on the quantity before it.     *)

\* Faulty variant: the quantities are read after the orders were filled.
HeldBeforeLate(s) == holdings[s]

HeldBefore(s) == heldQty[s]

\* Faulty variant: an order without a bar counts as filled.
CountsUnlessRejected(r) == r.status # "rejected"

Counts(r) == r.status = "filled"

BookNothing(r) ==
  /\ phase = "book" /\ r \in results
  /\ ~Counts(r)
  /\ results' = results \ {r}
  /\ UNCHANGED <<cfg, brokerVars, now, phase, held, used, lastExitAt, exposed,
                 newEvents, heldQty, plan, turnover>>

\* The event of a filled purchase is used up; where nothing was held before,
\* Opened stores the entry.
BookBuy(r) ==
  LET s == r.order.symbol IN
  /\ phase = "book" /\ r \in results
  /\ Counts(r) /\ r.order.side = "buy"
  /\ results' = results \ {r}
  /\ used' = used \cup ({r.order.event} \ {None})
  /\ held' = IF HeldBefore(s) = 0
             THEN [held EXCEPT ![s] = [enteredAt |-> r.at,
                                       event |-> r.order.event]]
             ELSE held
  /\ UNCHANGED <<cfg, brokerVars, now, phase, lastExitAt, exposed, newEvents,
                 heldQty, plan, turnover>>

\* Closed drops the entry and keeps the time of the exit; without an entry
\* _apply_fills() raises.
BookSell(r) ==
  LET s == r.order.symbol
      closed == HeldBefore(s) - r.order.qty <= 0 IN
  /\ phase = "book" /\ r \in results
  /\ Counts(r) /\ r.order.side = "sell"
  /\ results' = results \ {r}
  /\ held' = IF closed THEN [held EXCEPT ![s] = None] ELSE held
  /\ lastExitAt' = IF closed THEN [lastExitAt EXCEPT ![s] = r.at]
                   ELSE lastExitAt
  /\ closed => held[s] # None
  /\ UNCHANGED <<cfg, brokerVars, now, phase, used, exposed, newEvents, heldQty,
                 plan, turnover>>

NextCycle ==
  /\ phase = "book" /\ results = {}
  /\ phase' = "start"
  /\ now' = now + 1
  /\ UNCHANGED <<cfg, brokerVars, held, used, lastExitAt, exposed, newEvents,
                 heldQty, plan, results, turnover>>

-----------------------------------------------------------------------------
Submit ==
  \E x \in plan :
    \/ Unfilled(x)
    \/ \E bar \in FillBars(x, now) :
         Buy(x, bar) \/ Reject(x, bar) \/ Sell(x, bar)

Book == \E r \in results : BookNothing(r) \/ BookBuy(r) \/ BookSell(r)

Next ==
  \/ BeginCycle \/ EndReplay \/ Terminated
  \/ Decide \/ SettleDue \/ Submit \/ Submitted
  \/ Book \/ NextCycle

Spec == Init /\ [][Next]_vars

-----------------------------------------------------------------------------
(* Properties. *)

\* Between cycles the broker's shares and the driver's entries are of the same
\* symbols: no position is invisible to the exit rules, no entry lingers.  And
\* submit() and _apply_fills() never raise: a sale finds its shares, whatever was
\* filled before it in the cycle, and a closed position its entry.
BooksAgree ==
  /\ phase = "start" => HeldSymbols = BrokerSymbols
  /\ phase \in {"settle", "fill"} =>
       \A x \in plan : x.side = "sell" => x.qty <= holdings[x.symbol]
  /\ \A r \in results :
       phase = "book" /\ Counts(r) /\ r.order.side = "sell"
         => held[r.order.symbol] # None

Bought == SumFunction([d \in DOMAIN turnover |-> turnover[d].bought])

SoldOn(days) == SumFunctionOnSet([d \in DOMAIN turnover |-> turnover[d].sold], days)

\* No money is made or lost between cash, settlement queue and costs: what is
\* there is what was there at first, less purchases, plus sales.  Cash is never
\* negative and never holds proceeds before their settlement day: D+2 money is
\* not spent early, although fills run ahead of the cycle.
MoneyIsConserved ==
  /\ cash + pending_settlement + costs = InitialCash + SoldOn(DOMAIN turnover) - Bought
  /\ 0 <= cash
  /\ cash <= InitialCash - Bought
              + SoldOn({d \in DOMAIN turnover : d + SettlementDays <= Day(now)})

\* The trades of a symbol follow each other: no exit before its entry, no entry
\* before the last exit or in its cooldown, even where a fill waits for a halt to
\* end or the decision is made before the exit has its bar.
TradesFollowEachOther ==
  [][\A s \in Symbols :
       /\ held[s] # None /\ held'[s] = None
            => lastExitAt'[s] >= held[s].enteredAt
       /\ held[s] = None /\ held'[s] # None /\ lastExitAt[s] # None
            => /\ held'[s].enteredAt >= lastExitAt[s]
               /\ Day(held'[s].enteredAt) - Day(lastExitAt[s]) >= CooldownDays]_vars

\* GateConfig.max_positions: never more positions than slots between cycles, as
\* long as every symbol keeps trading.
SlotsHold ==
  phase = "start" /\ ~BarsEnd => Cardinality(BrokerSymbols) <= MaxPositions
=============================================================================
