# SonTrader in TLA+

SonTrader is a swing-trading bot for the Korean stock market. A daemon
(`apps/live.py`) decides once a minute which stocks to hold and trades through
the KIS brokerage API; collectors fill a database with prices, disclosures and
judgements; a backtest replays the same decision code over stored prices. This
directory holds a TLA+ model of the parts of it where order, failure and
interleaving matter, the TLC runs that check them on small instances, and the
theorems TLAPS proves about them for every instance. Paths below are relative
to `src/src/sontrader/`.

## 1. Inventory

| Part | State it keeps | Operations | What is hard |
| --- | --- | --- | --- |
| Main loop, `apps/live.py` | local variables only | reconcile at start, poll telegram, reconcile, build context, `run_cycle`, sleep; halt; die and be restarted | every database transaction and HTTP call is a point where the process may die or the exchange may move |
| Reconciliation, `engine/reconcile.py`, `engine/fills.py` | table `positions` | resolve orders, turn fills into positions, compare with the balance | executions and balance are two reads; status and position are two writes |
| KIS adapter, `adapters/broker_kis.py` | table `orders`, `fills` | `submit`, `resolve_unknown`, `positions`, `cash` | a lost answer leaves it unknown whether an order exists |
| Decision, `engine/loop.py`, `core/strategy.py`, `core/gate.py`, `core/diff.py`, `core/exit_rules.py` | none (pure) | target, gate, kill switch filter, order generation | orders still open must count; margin; slots |
| Kill switch, `engine/killswitch.py` | one row | engage, release, read | turned at the top of the loop only; must hold for every entry decided on, and for no exit |
| Telegram, `adapters/notifier_tg.py` | `offset` in memory | poll, commands, messages | updates come again after a crash |
| Simulated broker and backtest, `adapters/broker_sim.py`, `apps/backtest.py` | cash, holdings, unsettled sales, position metadata | submit, settle D+2, replay a cycle | two ledgers of the same positions |
| Live minute bars, `adapters/live_ticks.py`, `adapters/live_ws.py`, `data/live_bars.py` | partial bar per symbol, connection | tick, flush, reconnect, store | out-of-order ticks, reconnects, a second writer of the same table |
| REST minute bars, `data/minutes.py` | table `stock_candles_1m` | page backwards, store page by page, resume | interruption between two pages |
| Daily prices, `data/prices.py`, `data/index_prices.py` | tables `stock_candles_1d`, `index_candles_1d` | collect, backfill, replace on adjusted basis | two price bases in one series |
| Universe, master, watchlist, `data/universe.py`, `data/master.py`, `data/daytrade_universe.py`, `core/watchlist.py`, `core/momentum.py`, `core/filters.py` | master, two tables of snapshots | build a day, build a range, refresh the master | hysteresis on the list before, knowledge of later days |
| Disclosures, `data/dart.py` | table `events`, `seen` in memory | poll, read pages, store | pages shift while they are read |
| Judge, `llm/` | table `llm_judgments` | judge once, cache | an exception kills the daemon, a model may change its mind |
| Tokens, `auth.py`, `client.py` | credential files | read, renew, request, repeat | processes share one file; an order must not be sent twice |
| Calendar, `data/calendar.py` | table `market_calendar` | refresh, is_open | no row counts as open |
| Reports, CLI, config, logging | none | read and print | nothing that interleaves |

How they interact. The daemon is the only writer of `orders`, `fills`,
`positions` and `kill_switch`. It calls the brokerage synchronously: an order
request is either answered, refused, or raises, and in the last case nothing is
known. The brokerage moves on its own: fills, cancellations and trades made by
hand change the account at any moment. A telegram command reaches the kill
switch only at the top of the loop. The collectors run as separate commands and
meet the daemon in the tables of prices, lists and events, and in the credential
files. With a live stream, which runs in a thread of the daemon, the daemon and
`collect-minutes` write the same minute bars.

What makes each part correct:

- **Orders**: one open order per symbol across crashes and lost answers; an
  order that may still trade is never written off; a confirmed order reaches a
  final status; no sale exceeds the account; fills are stored before the final
  status that stops anyone from asking again.
- **Ledger**: a disagreement between positions and account, also one made by
  trades by hand, ends in agreement or in a halt; what was fixed at entry is
  never overwritten.
- **Decision**: an engaged kill switch stops entries and nothing else; a sale has
  a reason and every reason leads to a sale; what purchases set aside is in the
  account; cooldown and used events hold over any sequence of cycles; the stop of a position never
  falls.
- **Backtest**: the broker's and the driver's book agree; money is conserved
  and never spent before it is settled; trades of a symbol follow each other.
- **Bars**: a row marked `rest` is the exchange's bar; complete runs leave no
  hole; the stream neither falsifies nor skips a minute; a series has one basis.
- **Services**: what a caller is told of an order is true; a credential from the
  file stays in force for the whole call; every cycle runs under the last
  command of the chat, also where a command is obeyed again after a crash; no
  disclosure slips between two pages, and all cycles act on one verdict of it.
- **Lists**: a list built again knows nothing of later days; the day trading
  list of a day never changes.

The hazards behind these, each at its line, are in `PROJECT.json`.

## 2. Modules

| Module | Models | Built on |
| --- | --- | --- |
| `OrderDesk` | what the order lifecycle promises to the account | - |
| `LiveTrading` | daemon, order tables, KIS adapter, exchange | instantiates `OrderDesk` |
| `ExitRules` | when a position must be sold, as operators | - |
| `Decision` | one call of `run_cycle()`: strategy, gate, orders, as operators | extends `ExitRules` |
| `Trading` | decisions and account over several days | extends `Decision` |
| `SimBroker` | simulated broker | - |
| `Backtest` | replay driver around the broker | extends `SimBroker` |
| `MinuteBars` | table of minute bars, stream and collector | - |
| `DailyPrices` | table of daily bars, collection and backfill | - |
| `Universe` | master, daily list and day trading list | - |
| `KisClient` | requests to KIS and their credentials | - |
| `Daemon` | chat, calendar, disclosures and judgements around a cycle | - |
| `LiveTradingProofs`, `TradingProofs`, `BacktestProofs`, `MinuteBarsProofs`, `DailyPricesProofs`, `UniverseProofs`, `KisClientProofs`, `DaemonProofs` | theorems | extend the module and TLAPS |
| `MCLiveTrading`, `MCTrading`, `MCBacktest`, `MCMinuteBars`, `MCDailyPrices`, `MCUniverse`, `MCKisClient`, `MCDaemon` | the instances TLC checks | extend the modules |

The daemon is described by three modules, each of which leaves to another what
it does not need: `LiveTrading` lets a cycle decide anything within its limits
and follows each order through transactions, calls and crashes; `Trading` takes
an order as a single step and has the whole decision; `Daemon` has what happens
in the loop before the decision. `KisClient` is what lies beneath a call of the
adapter: `OrderOutcomeIsTrue` is the promise on which the outcomes of an order
request in `LiveTrading` (`WriteSubmitted`, `WriteRejected`, `TransportError`)
rest.

Operators called "faulty variant" are not part of any specification: each is
the mutation of a definition that `PROJECT.json` names under "mutants", and
shows that the property listed with it can fail.

### LiveTrading and OrderDesk

State. `orders` is table `orders` with the one row of `fills` per order that
`set_fill_snapshot` keeps (`filled`); `odno` says whether the row has a broker
order number. `positions` and `killSwitch` are the tables of these names. `kis`
and `account` are the exchange's side. The remaining variables are the local
variables of `main()` and of the functions it calls; a crash resets them.

Actions. Each database transaction and each HTTP call is one action, in the
order of the code:

| Code | Actions |
| --- | --- |
| `main()` start, telegram, sleep | `Restart`, `OperatorRestart`, `TelegramCommand`, `EndCycle` |
| `resolve_unknown()` | `BeginReconcile`, `QueryWithoutRow`, `QueryOrder`, `WriteStatus` |
| `_record_resolved_positions()` with `position_changes()` | `ReadHeld`, `RecordNothing`, `RecordBuy`, `RecordSell` |
| comparison with the balance, `_halt()` | `CompareBalance` |
| `run_cycle()` up to the orders | `Decide` |
| `submit()` | `InsertOrder`, `TransportError`, `WriteSubmitted`, `WriteRejected` |
| the process dies | `Crash` |
| KIS (external) | `Accept`, `Refuse`, `Fill`, `Withdraw`, `ManualTrade` |

Notes on the correspondence:

- `find_by_idempotency_key` never finds an order: the key holds the time of the
  cycle and a plan has one order per symbol. The branch is left out.
- `Decide` sells whole positions only: the target weight of a held symbol is
  never below its present weight. `Trading` checks this (`SoldForAReason`).
- `list_unresolved` has no ORDER BY: the orders are asked for, and the results
  recorded, in any order.
- The halt ends `main()` with exit code 0, so that only a person starts it
  again; any other exception is re-raised and a supervisor may restart the
  process. A SIGTERM lets the loop finish, which is a special case of a crash.
- A closed market or a holiday keeps the loop at its top: the process stays at
  `poll`.
- An exception of telegram, of the judge or of an HTTP query is a `Crash`.
- `OrderDesk` is implemented with the account as its shares and the order that
  can still trade at the exchange as the work of its symbol.

### ExitRules, Decision and Trading

`ExitRules` is `core/exit_rules.py`: the stop in its stages (`StopLevel`), the
ratchet over the window of bars (`Ratchet`), the limits of the holding time and
the end of the session, in the order of `Evaluate`. Prices and percentages are
integers; every level of a position is multiplied by one unit, so that nothing
is rounded. `Decision` is `run_cycle()` from a context to orders: `BuildTarget`
(`core/strategy.py`), `Gate` (`core/gate.py`), `ApplyKillSwitch`
(`engine/loop.py`) and `ToOrders` (`core/diff.py`).

`Trading` lets the world move between decisions. `BuildContext` is
`build_context()`, with positions listed in any order. `Cycle` submits
`CycleOrders` of that context under either state of the kill switch; an order
counts for used events and last exits as soon as it is a row, filled or not.
`Fill` and `Refuse` are the exchange and the reconciliation that learns of it,
at any price within the price limit, and with any number of cycles before.
`NextDay` adds the bars of a day, `Disclose` an event. Partial fills are in
`LiveTrading`.

A fill costs `CostPct` of its value, which nothing was set aside for. A purchase
filled near its limit may therefore take more out of the account than was set
aside for it, which `core/diff.py` allows for (lines 155-157). The ghost
`limitCosts` has the costs of such fills since the last cycle that placed a
purchase, so that `PurchasesCanBePaid` can say that nothing else is missing. The
cash of a cycle (`OrderableCash`) is what KIS answers with: the money that is not
set aside for open purchases is what `core/diff.py` needs it to be, and what the
model takes it for.

### SimBroker and Backtest

`SimBroker` has the broker's books (`cash`, `holdings`, `owed` for `_pending`,
summed per settlement day, `costs`) and the actions of `submit()`: `Settle`,
`FillNothing`, `FindBar`, `FillBuy`, `RejectBuy`, `FillSell`. A bar is chosen
when an order first looks for it and remembered, so that orders that look for
the same bar find the same one. Slippage is part of the price; the average
price is left out, as nothing modelled depends on it. `Backtest` adds the
driver: `BeginCycle` reads the broker's positions and shows the events,
`Decide` is any decision the gate lets pass (with a cooldown of zero days also
of a symbol whose exit was filled at a bar still to come), `SettleDue` to `Submitted` are one
call of `submit()`, `BookNothing`, `BookBuy` and `BookSell` are
`_apply_fills()`. Where the code raises an exception the model has no step;
`BooksAgree` says that this never happens. The log of fills is abstracted to
the value bought and sold per day (`turnover`).

### MinuteBars

One symbol, as neither writer relates symbols. A bar is abstracted to the
number of trades of its minute; with a price of one this is its traded value
too, and the accumulated value of KIS is the sum over the day. `Trade`,
`NextMinute` and the answer of `Fetch` are the exchange, which lists finished
bars only, as the table in `data/db.py` says. `Connect` to `StoreBarFails` are
`LiveTickStream` and its callback, `Begin` to `Return` are `collect_minutes()`,
with the call and the write of a page as two steps between which the stream may
write. The variables `gaps`, `broken` and `demoted` are ghosts: they record
which minutes or runs met a fault, so that the properties can promise
everything about the others.

### DailyPrices

A stored bar is abstracted to the basis it is stated on (how many corporate
actions it takes into account) and to whether its day was over; KIS answers on
the present basis (`Quote`). `NextDay` is the exchange, with symbols that do not
trade and overnight actions. The two commands are separate processes:

| Code | Actions |
| --- | --- |
| `collect_daily_all()`, `collect_daily()` | `StartCollect`, `FetchNew`, `StoreNew`; with a changed basis `FetchAgain`, `Replace` |
| `backfill_daily_all()`, `backfill_daily()` | `StartBackfill`, `BeginFill`, `FillPage` |
| errors after the retries, an interrupt, kills | `CollectFails`, `FillFails`, `CollectInterrupted`, `CollectDies`, `FillDies` |

`exit` has the exit code with the day it was given on and whether the command
went through its symbols (`done`): an interrupted one reports success without
it. A symbol may pause for any time, in the history (`Pauses`) and in `NextDay`,
and after a pause longer than the overlap the overlap has no bar to compare. The
ghost `notice` says of each symbol whether the last corporate action is still to
be noticed (`due`), has been (`done`), or has been missed for that reason
(`missed`); `HistoryHasOneBasis` is about the symbols with nothing to be noticed.
The comparison leaves out the last stored bar; that one is read and stored anew
in any case.

### Universe

`BuildSnapshot` is `build_snapshot()`: candidates, filters, scores, ranks and
the hysteresis on the last list before. `CollectPrices` and `BuildDaily` are the
evening chain of `scripts/daily_collect.sh`, `BuildByHand` one build of any day,
`StartRange`, `BuildNext` and `StopRange` the builder of a range, which deletes
all lists of the range first. `CollectMaster` refreshes one market of
`symbol_master`, `BuildDaytrade` makes the day trading list. `Close`, `NextDay`,
`Restate` and `ChangeListing` are the exchange. The ghosts `first` and `last`
keep what the first build of a day knew, which a later build must repeat.

### KisClient

`pc` says where a process is in `_request()`: `Begin`, `ReadCache`, `Issue`,
`OpenFile` and `WriteFile` (`write_text()` truncates first, so that a reader may
meet an empty file), `Attempt` with everything that may come of it, the end of
the call, `Forget`. A token of KIS puts the one before it out of force (`Live`).
`Reconfigure` starts a process with another account, `Tick` moves the clock as
far as the timeouts of a running call allow. `MayRace` says whether two
processes of an account may be between reading an unusable file and writing a
new one at the same time; the code has no lock against it.

### Daemon

| Code | Actions |
| --- | --- |
| start, exceptions and kills, supervisor | `Boot`, `Die`, `Restart` |
| `_poll_telegram()` | `GetUpdates`, `ProcessCommand`, `Answered` |
| `refresh_if_needed()`, hours, holidays | `RefreshCalendar`, `CalendarKnown`, `Rest` |
| `build_context()`, `CachingJudge.judge()`, `run_cycle()` | `BeginContext`, `Judge`, `RunCycle` |
| `collect-dart` | `BeginPoll`, `ReadPage`, `Ingest`, `PollFails` |
| outside | `Send`, `Disclose`, `Tick` |

The offset of `getUpdates` lives in memory and the effect of a command is
committed before it is answered: after a crash the same commands come again and
are obeyed again. `handled` and `polled` are ghosts which say up to where the
chat has been obeyed. Time is counted in half days, the second being the
session. Telegram is taken to keep updates until they are confirmed (in fact for
24 hours). `acted` keeps the verdict a cycle acted on. The commands that read
judgements for a backtest never write any (`_build_cached_judge` in `cli.py`).

## 3. Plan

Done: every part whose state survives a step, with one exception below. What is
left:

1. A proof of the one safety property that is only model-checked:
   `StopNeverFalls` of `Trading`, which compares the average true range over two
   windows of bars.
2. Index prices (`data/index_prices.py`), a simpler `DailyPrices` without
   comparison and resumption.

## 4. Runs

| Run | Instance | What it shows |
| --- | --- | --- |
| `live_lifecycle` | 2 symbols, 3 orders, quantity 2, 1 slot, 1 crash | `NoOversell`, `FinalRowsCarryTheirFills`, `QuietLedgerAgrees`, `KillSwitchStopsEntries`, `EntryStaysFixed`, and that `OrderDesk` is implemented |
| `live_settles` | 1 symbol, 2 orders, quantity 2, 1 crash, 1 lost answer, 1 manual trade, fairness | `OneOutstandingOrder`, `NoWorkingOrderWrittenOff`, `AcceptedOrdersSettle`, `DisagreementIsNoticed` |
| `trading` | 2 symbols, 2 events, 4 days, entries by event or by rank, flat days and wide days on which one symbol is halted, fills that cost 25 % | `PurchasesCanBePaid`, `SoldForAReason`, `EventOpensOnce`, `StopNeverFalls`, `CooldownIsKept` |
| `backtest` | 2 symbols, 2 events, 5 cycles; daily bars on events with halts and delistings, or 2 bars a day by rank with fills at the close and a cooldown | `BooksAgree`, `MoneyIsConserved`, `SlotsHold`, `TradesFollowEachOther` |
| `minute_bars` | 4 minutes over a change of day, 3 trades, pages of 2, 2 runs, 1 fault | `RestRowsAreTrue`, `CollectedRangeIsWhole`, `StreamIsWhole` |
| `daily_prices` | 2 symbols, 2 days after 3 days of history with pauses, 1 corporate action, 3 collections, 1 backfill, one command at a time | `HistoryIsWhole`, `HistoryHasOneBasis`, `SuccessMeansCollected`, `BackfilledPastIsKept` |
| `universe` | 3 symbols in 2 markets, 2 days, 1 change of the past or of the master, 1 build by hand or of a range | `BuildRepeatsThePast`, `DaytradeListIsFixed` |
| `kis_client` | 2 processes, 2 accounts on one file, 2 attempts, 2 credentials | `OrderOutcomeIsTrue`, `CachedCredentialIsLive` |
| `daemon` | 2 days, the second a holiday; 2 disclosures on pages of 1; 1 message to a real account or 4 in batches of 2 to a paper account; 2 failures | `CycleObeysTheChat`, `EventsAreWhole` |

Each has its type invariant too, except `live_settles`, whose module is covered
by `live_lifecycle`.

Why the bounds are enough:

- *live*: three orders on two symbols allow entry, exit and re-entry of one
  symbol and the interplay of two symbols in one slot; quantity 2 allows a
  partial fill and a cancelled rest. A crash after the request has left is, for
  the lifecycle, the same as a lost answer, so `live_lifecycle` does without
  lost answers; `live_settles` has both. Orders of different symbols settle
  independently of each other, so one symbol is enough there. What is proved
  (section 6) holds for all bounds.
- *trading*: four days are entry, exit, a cooldown of two days and re-entry; the
  money pays for one whole position and part of a second, so that orders are
  capped by the margin; with entries by rank the history of three bars is shorter
  than the replay, so that bars leave the window, with events it covers it; wide
  days trigger the trailing stop
  and move it. Costs of 25 % let fills at the limit exceed what was set aside,
  also while another purchase has the rest of the cash.
- *backtest*: a settlement delay of one day lets proceeds mature and be spent
  within the replay; the delay is a constant, and its value 2 only shifts the
  day. Two prices make purchases that cash covers and purchases it does not, and
  rates of 25 % make costs that integers show. On events the cooldown is zero, so
  that a symbol is bought again while its exit waits for a later bar. `SlotsHold` is promised only
  where every symbol trades on: a sale that finds no bar stays undone, and the
  gate counts a symbol to be sold as gone.
- *minute_bars*: the second of two runs is incremental; three trades make three
  pages of two overlapping bars, one more than the limit of calls allows.
- *daily_prices*: with an overlap of one day, a day without trade is a pause that
  leaves nothing to compare, and none is one that does; three collections are
  one before an action, one that fails on it and one that heals it; one backfill
  is stopped at any page and leaves a collection to go on above it.
- *universe*: the lists have one symbol to enter and two to stay, of three
  candidates, so that a symbol stays by hysteresis alone; a lookback of one bar
  lets every day change the ranks. A list depends on the past through the bars
  and the list before it only, so that two days suffice.
- *kis_client*: two credentials are one and the one that puts it out of force;
  two attempts are one and its repetition. What is proved holds for all of them.
- *daemon*: four messages are two full batches; pages of one disclosure shift
  with every new one. What is proved holds for all bounds.

`CHECK_DEADLOCK FALSE` is set for `minute_bars`, `daily_prices`,
`daily_overlap`, `kis_client`, `kis_token_race`, `universe` and `daemon`: after
the last day, run, failure or credential that the bounds allow, these models
have nothing more to do. The others check deadlock.

### Where code and documentation disagree

| Run | Claim that fails |
| --- | --- |
| `live_fill_lost_in_crash` | a fill is applied again after a restart (`data/positions.py`): the status is final by then and nobody asks |
| `daily_overlap` | a replacement keeps what the backfill has filled in (`data/prices.py`): not a page stored after the start of the history was read (`MayOverlap`) |
| `kis_token_race` | the token is cached and reused until it expires (`auth.py`): of two processes that renew at once, the file may keep the token that is out of force (`MayRace`) |

The findings in `PROJECT.json` quote the lines. For `daily_overlap` and
`kis_token_race`, the run that expects a violation and the run that passes differ
in the named constant: the first states the claim as it stands, the second what
is needed for it to hold.

Seen while modelling, with no run of their own:

- `scripts/daily_collect.sh:16-17` joins the steps by `&&` so that no watchlist is
  built of old bars when the collection has failed. A collection that is
  interrupted ends with exit code zero and symbols missing (`cli.py:800-802`), and
  the chain goes on. `CollectInterrupted` followed by nothing else is a behaviour
  of the model in which the exit code is zero and `Collected` is false; it is why
  `SuccessMeansCollected` asks for a run that went through its symbols
  (`exit.done`).
- `engine/fills.py:134` closes a position when nothing is left, but counts from
  the quantity stored with the first fill, which later fills do not raise.
- `engine/reconcile.py:127`: resolving first is said to keep the comparison from
  failing; a fill between the query and the balance still lets it halt.
- `core/gate.py:110` counts the slots of held symbols: an open purchase takes
  none, so that the next cycle may fill the same slot again. `SlotsHold` is
  therefore a property of the backtest only.
- `adapters/broker_kis.py:102` takes the total deposit (`dnca_tot_amt`) for the
  cash that may be ordered for, where `core/diff.py:139-142` speaks of the cash
  KIS still lets an order use. Nothing in the repository says that the two are
  the same while purchases are open; should they not be, a cycle sees money that
  is set aside, and KIS refuses what it orders with it.
- `apps/live.py:154`: the parts of a snapshot are read one after the other; the
  models read them in one step.
- `data/prices.py:429`: several bars always remain to be compared; none does
  after a pause as long as the overlap (`NothingToCompare`), which
  `data/prices.py:36-39` expects to happen. The action is then never noticed.
- `core/gate.py:33-34` concludes that the weights sum up to at most one; this
  holds of entries, while held positions pass with the weight they have.
- `adapters/broker_sim.py:257` says that a rejected purchase is made again; not
  an entry whose event has been shown.
- `data/live_bars.py:25` may overwrite a `rest` row with a late bar of the
  stream (`demoted` in `MinuteBars`).
- `core/types.py:74` says that an unknown order is resolved in the next cycle:
  one without an order number is never asked for (`QueryWithoutRow`).
- `data/universe.py`: a day whose list is empty has no row, so that hysteresis
  and the daemon fall back to an older list (`StoredDays`).
- `data/calendar.py`: an answer without a row for today is asked for again every
  minute, not once a day.

## 5. Fairness

Only `live_settles` uses it. The steps of the process are weakly fair, as a
started cycle runs on and a crashed process is restarted by its supervisor;
`Crash` itself is bounded, so that the process is up in the end. A request is
answered (`Accept` or `Refuse`) and a working order is filled or withdrawn in
the end, since every order is a market order of one trading day. `QueryOrder`
is strongly fair: KIS may answer without a row for a while, but not for ever.
Nothing obliges a person to restart a halted process, to send a command or to
trade. The repository ships no supervisor; without one the safety properties
hold all the same and liveness holds up to the first crash.

The other modules state no liveness. What they do is bounded by a table or a
list, and each error in them is an end: a collector gives up and leaves the rest
to the next call, whoever makes it.

## 6. Proofs

All hold for every value of the constants that the named assumptions allow.

| Module | Theorem | Property |
| --- | --- | --- |
| `LiveTradingProofs` | `TypesAreCorrect` | `TypeOK` |
| | `OneOrderAtATime` | `OneOutstandingOrder` |
| | `NothingWorkingIsWrittenOff` | `NoWorkingOrderWrittenOff` |
| | `FillsPrecedeFinalStatus` | `FinalRowsCarryTheirFills` |
| | `KillSwitchHolds` | `KillSwitchStopsEntries` |
| | `EntryIsFixed` | `EntryStaysFixed` |
| | `QuietLedgersAgree` | `QuietLedgerAgrees` |
| | `SalesStayWithinTheAccount` | `NoOversell`, assuming `MaxManual = 0` |
| | `ImplementsDesk` | `ImplementsOrderDesk`, assuming `MaxManual = 0` |
| `TradingProofs` | `TablesAreWellFormed` | `TypeOK` |
| | `OpenPurchasesCanBePaid` | `PurchasesCanBePaid` |
| | `PositionsAreSoldForAReason` | `SoldForAReason` |
| | `EventsOpenOnce` | `EventOpensOnce` |
| | `CooldownsAreKept` | `CooldownIsKept` |
| `BacktestProofs` | `BooksAreWellFormed` | `TypeOK` |
| | `BooksStayInStep` | `BooksAgree` |
| | `MoneyStaysConserved` | `MoneyIsConserved` |
| | `SlotsAreKept` | `SlotsHold` |
| | `TradesStayInOrder` | `TradesFollowEachOther` |
| `MinuteBarsProofs` | `TablesAreWellFormed` | `TypeOK` |
| | `StreamStaysWhole` | `StreamIsWhole` |
| | `RestRowsStayTrue` | `RestRowsAreTrue` |
| | `CollectedRangeStaysWhole` | `CollectedRangeIsWhole` |
| `DailyPricesProofs` | `TablesAreWellFormed` | `TypeOK`, assuming `MayOverlap = FALSE` |
| | `HistoryStaysWhole` | `HistoryIsWhole`, assuming `MayOverlap = FALSE` |
| | `PastIsKept` | `BackfilledPastIsKept`, assuming `MayOverlap = FALSE` |
| | `BasisIsOne` | `HistoryHasOneBasis`, assuming `MayOverlap = FALSE` |
| | `SuccessIsTrue` | `SuccessMeansCollected`, assuming `MayOverlap = FALSE` |
| `UniverseProofs` | `TablesAreWellFormed` | `TypeOK` |
| | `BuildsRepeatThePast` | `BuildRepeatsThePast` |
| | `DaytradeListsAreFixed` | `DaytradeListIsFixed` |
| `KisClientProofs` | `TypesAreCorrect` | `TypeOK` |
| | `OrdersAreReportedTruly` | `OrderOutcomeIsTrue` |
| | `CredentialsAreLive` | `CachedCredentialIsLive`, assuming `MayRace = FALSE` |
| `DaemonProofs` | `DaemonIsWellFormed` | `TypeOK` |
| | `CyclesObeyTheChat` | `CycleObeysTheChat` |
| | `DisclosuresAreWhole` | `EventsAreWhole` |

The assumptions are those the modules declare. Bounds are numbers, sets of
symbols are finite, and no value is mistaken for a missing one
(`NoneAssumption`). What the code checks of its configuration is `CycleConfig`
and the assumptions about `Configs`; what it takes for granted of its inputs is
in `JudgmentAssumption` (a positive verdict carries a rule),
`TradingAssumption` (a watchlist names a symbol once, bars have a price),
`BrokerAssumption` (commission and tax are at most half of a sale, so that a
sale never costs more than it brings), `DailyPricesAssumption` (a history before the first day)
and `UniverseAssumption` (the first bars are older than the first day).

Eight theorems have a condition more. Nobody trading by hand is a real condition
of the last two of `LiveTrading`: shares sold by hand while a sale is on its way
are sold twice. That no two processes renew at once is what `kis_token_race`
shows to be needed, and that the commands do not run at the same time is what
`daily_overlap` shows.

None of the properties is inductive. In `LiveTradingProofs` the invariant `IInv`
adds what the code keeps true in between, part by part:

- `LocalsInPlace`: which local variables are in use at which place;
- `IdsNameRows`: ids held in local variables name rows, and one row only is
  being sent;
- `AnswersAreTrue`: an answer of KIS in memory was true when it was given, and
  the exchange has only moved on since;
- `PlanIsFresh`: the orders of a plan are for different symbols without an open
  order; this is what `pending_order_symbols` is for, and what makes
  `OneOutstandingOrder` survive a crash;
- `FillsAreStored`: a stored snapshot never exceeds what KIS knows, and equals
  it once the status is final;
- `PlanObeysKillSwitch`: a plan made under the kill switch has no entry;
- `JudgesWhatIsStored`: the running quantity of the recording has an entry for
  each stored position.

`InvariantHolds` shows `Spec => []IInv` with one step per action. For the two
theorems without manual trades `InStock` is added: quantities planned, sent or
working are in the account. The refinement maps each step of `LiveTrading` to a
step of `OrderDesk` or to a stutter.

`QuietLedgersAgree` adds `LedgerInv`, which speaks of the states before the first
crash, trade by hand or withdrawal of what had traded in part. Quantities are
what makes it hard: a position keeps the quantity of its first fill, a top-up
adds nothing to the row, results carry cumulative fills, and a sale in pieces may
drop the row while shares are left. `Accounted` says what table, account and
fills of an order have to do with each other until its last result is recorded.
For an entry either the position is recorded, with no more than the account has,
or all shares in the account are fills of it; for an exit the shares left and the
shares sold are the quantity of the order, which is not less than the
position's, so that its last fill always drops the row. `Agreed` is what is left
once no order of the symbol is open.

`KisClientProofs` has two invariants. `OrderInv` is `LocalsInPlace` with
`NothingSentTwice` (an order that has been executed has no further attempt: only
a refusal at the door is repeated). `CacheInv` says of the files
(`FilesAreTrue`, `FilesAreLatest`: what a file says was issued, and nothing later
was issued to the same account unless it is being written), of the clock
(`CallsEndInTime`), and of the renewal (`RenewalIsAlone`, `RenewalFindsNothing`,
`RenewalIsLatest`: while a process renews, no other of its account does, nobody
finds a usable credential, and what it writes is the latest). The margin of
expiry has to cover a call twice, since the time of issue of a web socket key is
taken by the client after the answer.

`DaemonProofs` has three. In `ChatInv`, `BatchIsNext` and `ReachIsBounded`
say what is handed over and confirmed, and `SwitchFollows` is the heart: if none
of the commands that were obeyed before is still to come again, the switch is
what they ask for; and while some are, the last of them will set it. In
`EventInv`, `PollMissesNothing` says that whatever was listed when the poll began
has been read or lies on a page still to come: a new disclosure only moves others
towards later pages. `SeenIsStored` and `VerdictsStand` say that what the
collector skips is in the table, and that a verdict in memory is the stored one.
`TypeInv` has the types of the variables the other two do not speak of.

`TradingProofs` proves `TradingInv`. `RowInv`, `OrderInv` (a symbol has one open
order, a sale is of the whole position) and `CashInv` (the account has the sum of
what the open purchases set aside, up to `limitCosts`) are needed together for a
single cycle: one that places a purchase had cash left to order with, so that
nothing was missing before it.
`EventInv` follows an event from the disclosure over the purchase on its way to
the position; `CooldownInv` says that table `orders` knows of a sale before its
fill does, and that an open purchase of a symbol that is not held was placed
after its cooldown. Most of the module is about the operators of `Decision`, one loop
each: which items `Select` keeps; that `BuildTarget` names a symbol once and
aims at zero exactly for the positions that are due; what holds after each item
of the loops of the gate (`GateAt`) and of order generation (`PlanAt`), where the
cash that is left and the slots that are taken are carried along. `Decided` sums
this up: what a cycle may decide, as a relation between the tables and its
orders. `CycleDecides` proves it of `CycleOrders`, and the rest of the proof only
uses `Decided`.

`BacktestProofs` has four invariants, one per question:

- `BookInv`, for `BooksAgree`: `InPlace`, `OneOrderEach` (a symbol has at most
  one order or result in a cycle), `BrokerIsAhead` (the broker's shares are the
  quantities at the beginning of the cycle, changed by the results not booked
  yet) and `DriverKnows` (a symbol without such a result has an entry exactly if
  it has shares). A fill and a booking are one lemma each, `FillStep` and
  `BookStep`.
- `MoneyInv`, for `MoneyIsConserved`: `Balance` is the equation that a fill and a
  settlement keep, with the sales and purchases summed over all days.
  `OwedWasSold` and `CashIsSettled` bound what can be spent: the cash, with
  whatever a settlement could pay out by now, comes from sales of settled days.
- `SlotInv`, for `SlotsHold`: between the decision and the last fill of a cycle
  the symbols held now are not what is limited. An exit without a bar has given
  its slot away already, so `Slots` counts `Future`, the symbols held once every
  order of the cycle has been filled.
- `TradeInv`, for `TradesFollowEachOther`: entries and exits are not after the
  last bar found for the symbol (`TradesAreBehind`), a fill not booked yet is at
  that bar (`FillsAreLatest`), and the cooldown of what is being bought is over
  (`EntriesAreCool`).

`MinuteBarsProofs` proves `MinuteInv`, of two halves that meet in the table. In
`StreamInv`, `TickInv` is the heart: of every minute without a fault either all
trades are on the wire, in the bar in progress or in the completed one, and the
stream has stored nothing (`Underway`), or nothing is, and the row has all
(`Stored`). `WireInv` keeps the order of ticks that makes one bar in progress
enough. In `CollectorInv`, `RestInv` says that rows of the collector are true,
`PageInv` that a page has no hole and joins the one before it, `RunInv` that a
run has collected what lies above its reference, and `PastInv` that a run which
was not cut short leaves no hole below a row: this is why the next run may stop
at the newest row it finds.

`DailyPricesProofs` proves `TableInv`. `NoHoles` and `BarsAreFinal` say of the
table what is to be shown, and the other parts say it of what a command is about
to store: `AnswerIsTrue` (the bars read are all those of a range that begins
before the last stored bar), `ReplacementIsWhole` (what replaces the rows of a
symbol has all of them and no hole) and `PageJoins` (no bar lies unread between
the cursor of a backfill and the first stored bar). `CollectInPlace` ties the
collection to its day: the bar of today is taken only when it is final, and is
not in the table otherwise.

`BasisIsOne` adds `BasisInv`. Between an action and the next collection the rows
are of several bases, since a backfill goes on storing what it reads.
`ActionShows` is what makes the comparison enough: if any bar before the last one
is on another basis than the exchange, then the overlap has such a bar, or it has
no bar to compare at all, which is when `notice` becomes `missed`. It rests on
`NoHoles`.

`SuccessIsTrue` adds `CollectedInv`. What an exit code of zero promises is
carried through the run by `Tally` (without a failure so far, the symbols that
are done are collected), through a changed basis by `ReplacementReaches`, and
through the days after by `ExitIsTrue`. `RecentIsStored` is what makes the range
of a collection enough, which begins before the last stored bar and not at the
lookback. `RowInv` adds the types.

`UniverseProofs` proves `UniverseInv`. `BuildRepeatsThePast` compares two builds,
which may be days apart, with a restated history and another set of listed
symbols between them; it is not inductive, as a later build is not a function of
the first one. `FirstFromPast` makes both functions of a third thing: the first
list of a day is `PastList` of what was known then, an operator without
reference to the present. That the operators of `BuildSnapshot` give the same
for the present tables, in the structural scope, is a lemma for each filter.

Sums over sets and the recursive functions of `Decision` are reasoned about with
`NumbersByInduction`, which is induction for a set of numbers and follows from
the well-foundedness of `<`. Its instances state for which numbers a fact holds
as a set. The lemmas about sums are in each of the three modules that need them,
as the proofs of a component are a module of their own.

Only model-checked:

- `AcceptedOrdersSettle` and `DisagreementIsNoticed`, as liveness under fairness;
- `StopNeverFalls`, which compares the average true range over two windows of
  bars, one day apart.

## 7. What is not modelled

- The end of the trading day in `LiveTrading`, at which KIS cancels what is
  still working; it is a `Withdraw` at a time of its own. In `Trading` no order
  outlives its day.
- An answer of KIS that accepts an order without a number.
- After-hours trades, which the stream stores and REST never lists; rows of KIS
  that do not parse; `flush()`, which has no caller.
- The format of messages and prompts; what a model says beyond its verdict.
- Index prices (`data/index_prices.py`, `apps/index_trend.py`): fetched from the
  present back, without comparison or resumption.
- Loaders, session shapes and statistics of `apps/backtest.py`, and the reports:
  arithmetic on finished results of which nothing is stored and read again.
- Database schema and helpers: tables are variables of the modules.
- Command line, configuration, logging and clock: parsing, wiring and output. The
  commands that write tables are actions of the modules.
- `scripts/bash_guard.py`: a development tool, no part of the trading system.
