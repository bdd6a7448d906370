----------------------------- MODULE MinuteBars -----------------------------
(***************************************************************************)
(* Table stock_candles_1m of one symbol and its two writers: the websocket *)
(* stream of the daemon (adapters/live_ws.py, adapters/live_ticks.py,      *)
(* data/live_bars.py) and the REST collector (data/minutes.py), a process  *)
(* of its own.  Symbols meet in neither writer.                            *)
(*                                                                         *)
(* Time is counted in minutes.  A bar is abstracted to its volume, which   *)
(* is the number of trades of its minute; with a price of one the traded   *)
(* value of a minute is the same number, so that a bar and the difference  *)
(* of accumulated values can both be compared with what was traded.        *)
(***************************************************************************)
EXTENDS Integers, Sequences, FiniteSetsExt, Functions

CONSTANTS
  None,         \* no row, no partial bar
  MaxMinute,    \* bound: minutes with trading
  DayLength,    \* minutes of a day; the accumulated value starts again
  MaxTrades,    \* bound: trades
  PageSize,     \* PAGE_SIZE
  MaxPages,     \* MAX_PAGES_PER_SYMBOL
  Reach,        \* the days to collect, in minutes
  MaxRuns,      \* bound: runs of the collector
  MaxFaults,    \* bound: lost connections, failed writes and calls, deaths
  MaxWire       \* bound: ticks on their way

ASSUME MinuteAssumption ==
  /\ {MaxMinute, DayLength, MaxTrades, MaxPages, Reach} \subseteq Nat \ {0}
  /\ PageSize \in Nat /\ PageSize > 1
  /\ {MaxRuns, MaxFaults, MaxWire} \subseteq Nat

VARIABLES
  \* The exchange.
  now,          \* the minute in progress
  trades,       \* minute -> number of trades
  \* The table.
  table,        \* minute -> row, or None
  \* The stream.
  link,         \* "off": no process, "down": no connection, or "up"
  subscribed,   \* did KIS accept the subscription?
  wire,         \* minutes of the ticks on their way, oldest first
  partial,      \* MinuteBarAggregator._partial of the symbol
  completed,    \* a completed bar on_bar has still to store
  \* The collector.
  job,          \* where collect_minutes() is
  refetch,      \* --refetch
  started,      \* its argument now
  newest,       \* stored_newest, 0 for none
  reference,    \* the reference time of the next call
  pages,        \* calls so far
  page,         \* the minutes of the page to be stored
  \* Ghosts.
  runs,         \* runs of the collector so far
  faults,       \* faults so far
  gaps,         \* minutes of which a tick or the bar was lost or repeated
  broken,       \* has a run ended early since the last complete refetch?
  demoted       \* minutes whose rest row the stream has overwritten

exchangeVars == <<now, trades>>
streamVars   == <<link, subscribed, wire, partial, completed>>
jobVars      == <<job, refetch, started, newest, reference, pages, page>>
boundVars    == <<runs, faults>>
markVars     == <<broken, demoted>>
vars == <<exchangeVars, table, streamVars, jobVars, boundVars, gaps, markVars>>

Minutes  == 1..MaxMinute
PartialBar == [minute : Minutes, volume : Nat \ {0}]
Row      == [source : {"rest"}, volume : Nat \ {0}, trade_value : Nat]
              \cup [source : {"ws"}, volume : Nat \ {0}, trade_value : {None}]

ASSUME NoneAssumption == None \notin Row \cup PartialBar

\* Well-formedness; a row of the stream has no traded value.
TypeOK ==
  /\ now \in 1..(MaxMinute + 1) /\ trades \in [Minutes -> 0..MaxTrades]
  /\ table \in [Minutes -> Row \cup {None}]
  /\ link \in {"off", "down", "up"} /\ subscribed \in BOOLEAN
  /\ wire \in Seq(Minutes) /\ Len(wire) <= MaxWire
  /\ partial \in PartialBar \cup {None} /\ completed \in PartialBar \cup {None}
  /\ job \in {"idle", "fetch", "store", "done"} /\ refetch \in BOOLEAN
  /\ {started, newest, pages} \subseteq Nat /\ reference \in Int
  /\ page \subseteq Minutes
  /\ runs \in 0..MaxRuns /\ faults \in 0..MaxFaults
  /\ gaps \subseteq Minutes /\ broken \in BOOLEAN
  /\ demoted \subseteq Minutes

Init ==
  /\ now = 1 /\ trades = [m \in Minutes |-> 0]
  /\ table = [m \in Minutes |-> None]
  /\ link = "off" /\ subscribed = FALSE /\ wire = <<>>
  /\ partial = None /\ completed = None
  /\ job = "idle" /\ refetch = FALSE
  /\ started = 0 /\ newest = 0 /\ reference = 0 /\ pages = 0 /\ page = {}
  /\ runs = 0 /\ faults = 0
  /\ gaps = {} /\ broken = FALSE /\ demoted = {}

Fault == faults < MaxFaults /\ faults' = faults + 1

IsRest(m) == table[m] # None /\ table[m].source = "rest"

MinutesOf(ticks) == {ticks[i] : i \in DOMAIN ticks}

-----------------------------------------------------------------------------
(* The exchange (external). *)

\* A trade; its tick is sent to a subscriber.
Trade ==
  /\ now <= MaxMinute /\ SumFunction(trades) < MaxTrades
  /\ trades' = [trades EXCEPT ![now] = @ + 1]
  /\ IF link = "up" /\ subscribed
     THEN Len(wire) < MaxWire /\ wire' = Append(wire, now) /\ UNCHANGED gaps
     ELSE gaps' = gaps \cup {now} /\ UNCHANGED wire
  /\ UNCHANGED <<now, table, link, subscribed, partial, completed, jobVars,
                 boundVars, markVars>>

NextMinute ==
  /\ now <= MaxMinute
  /\ now' = now + 1
  /\ UNCHANGED <<trades, table, streamVars, jobVars, boundVars, gaps,
                 markVars>>

-----------------------------------------------------------------------------
(* LiveTickStream. *)

StartStream ==
  /\ link = "off"
  /\ link' = "down"
  /\ UNCHANGED <<exchangeVars, table, subscribed, wire, partial, completed,
                 jobVars, boundVars, gaps, markVars>>

\* _connect_and_listen(): subscribe, which KIS may refuse.  It may also send
\* a recent trade once more.
Connect(accepted, resent) ==
  /\ link = "down"
  /\ link' = "up"
  /\ subscribed' = accepted
  /\ Len(resent) <= MaxWire
  /\ \A m \in MinutesOf(resent) : accepted /\ trades[m] > 0
  /\ wire' = resent
  /\ gaps' = gaps \cup MinutesOf(resent)
  /\ UNCHANGED <<exchangeVars, table, partial, completed, jobVars,
                 boundVars, markVars>>

\* _connect_and_listen() ends; what was on its way is lost, what has been
\* aggregated stays.
Disconnected(lost) ==
  /\ link' = "down"
  /\ subscribed' = FALSE
  /\ wire' = <<>>
  /\ gaps' = gaps \cup MinutesOf(wire) \cup lost

\* Faulty variant: every connection starts with an empty aggregator.
DisconnectForgetting ==
  /\ link = "up" /\ completed = None
  /\ Fault
  /\ Disconnected({})
  /\ partial' = None
  /\ UNCHANGED <<exchangeVars, table, completed, jobVars, runs, markVars>>

Disconnect ==
  /\ link = "up" /\ completed = None
  /\ Fault
  /\ Disconnected({})
  /\ UNCHANGED <<exchangeVars, table, partial, completed, jobVars, runs,
                 markVars>>

\* The daemon ends: the minute in progress is never flushed.
StopStream ==
  /\ link # "off"
  /\ Fault
  /\ link' = "off" /\ subscribed' = FALSE /\ wire' = <<>>
  /\ partial' = None /\ completed' = None
  /\ gaps' = gaps \cup MinutesOf(wire)
               \cup {b.minute : b \in {partial, completed} \ {None}}
  /\ UNCHANGED <<exchangeVars, table, jobVars, runs, markVars>>

Opening(m) == [minute |-> m, volume |-> 1]

\* add(): a tick of the minute in progress.
Extend(m) ==
  /\ partial # None /\ m = partial.minute
  /\ partial' = [partial EXCEPT !.volume = @ + 1]
  /\ wire' = Tail(wire)
  /\ UNCHANGED <<link, subscribed, completed, gaps>>

\* add(): the first tick of all.
Open(m) ==
  /\ partial = None
  /\ partial' = Opening(m)
  /\ wire' = Tail(wire)
  /\ UNCHANGED <<link, subscribed, completed, gaps>>

\* add(): a tick of a later minute completes the bar before it.
Complete(m) ==
  /\ partial # None /\ m > partial.minute
  /\ completed' = partial
  /\ partial' = Opening(m)
  /\ wire' = Tail(wire)
  /\ UNCHANGED <<link, subscribed, gaps>>

\* add() raises on an older tick, which ends the connection.
OutOfOrder(m) ==
  /\ partial # None /\ m < partial.minute
  /\ Disconnected({})
  /\ UNCHANGED <<partial, completed>>

Receive ==
  /\ link = "up" /\ completed = None /\ wire # <<>>
  /\ LET m == Head(wire) IN Extend(m) \/ Open(m) \/ Complete(m) \/ OutOfOrder(m)
  /\ UNCHANGED <<exchangeVars, table, jobVars, boundVars, markVars>>

\* Faulty variant: the columns store() does not name keep their values.
WsRowKeepingValue(bar) ==
  [source |-> "ws", volume |-> bar.volume,
   trade_value |-> IF table[bar.minute] = None THEN None
                   ELSE table[bar.minute].trade_value]

WsRow(bar) == [source |-> "ws", volume |-> bar.volume, trade_value |-> None]

\* on_bar: live_bars.store() replaces whatever row there is.
StoreBar ==
  /\ completed # None
  /\ table' = [table EXCEPT ![completed.minute] = WsRow(completed)]
  /\ demoted' = IF IsRest(completed.minute) THEN demoted \cup {completed.minute}
                ELSE demoted
  /\ completed' = None
  /\ UNCHANGED <<exchangeVars, link, subscribed, wire, partial, jobVars,
                 boundVars, gaps, broken>>

\* store() raises, which ends the connection; the bar is gone.
StoreBarFails ==
  /\ completed # None
  /\ Fault
  /\ Disconnected({completed.minute})
  /\ completed' = None
  /\ UNCHANGED <<exchangeVars, table, partial, jobVars, runs, markVars>>

-----------------------------------------------------------------------------
(* collect_minutes(). *)

DayOf(m) == (m - 1) \div DayLength

\* _floor().
floor == started - Reach

\* Faulty variant: rows of the stream count as collected.
LastStoredAny == Max({m \in Minutes : table[m] # None} \cup {0})

\* _last_stored(): rows of the stream do not count.
LastStored == Max({m \in Minutes : IsRest(m)} \cup {0})

Begin ==
  /\ job = "idle" /\ runs < MaxRuns
  /\ job' = "fetch"
  /\ runs' = runs + 1
  /\ refetch' \in BOOLEAN
  /\ started' = now /\ reference' = now
  /\ newest' = IF refetch' THEN 0 ELSE LastStored
  /\ pages' = 0 /\ page' = {}
  /\ UNCHANGED <<exchangeVars, table, streamVars, faults, gaps, markVars>>

\* KIS (external): the last PageSize finished bars up to the reference.
Listed(ref) == {m \in Minutes : trades[m] > 0 /\ m < now /\ m <= ref}
PageAt(ref) ==
  {m \in Listed(ref) : Cardinality({n \in Listed(ref) : n > m}) < PageSize}

Fetch ==
  /\ job = "fetch" /\ pages < MaxPages
  /\ page' = PageAt(reference)
  /\ pages' = pages + 1
  /\ job' = IF page' = {} THEN "done" ELSE "store"
  /\ UNCHANGED <<exchangeVars, table, streamVars, refetch, started, newest,
                 reference, boundVars, gaps, markVars>>

\* acml_tr_pbmn: the value traded so far that day.
Accumulated(m) ==
  SumFunctionOnSet(trades, {n \in Minutes : DayOf(n) = DayOf(m) /\ n <= m})

\* _parse_page(): the difference to the row before, the accumulated value
\* itself for the first row of a day in the page.
TradeValue(m) ==
  LET before == {n \in page : n < m /\ DayOf(n) = DayOf(m)}
  IN Accumulated(m) - IF before = {} THEN 0 ELSE Accumulated(Max(before))

RestRow(m) ==
  [source |-> "rest", volume |-> trades[m], trade_value |-> TradeValue(m)]

\* Faulty variant: the oldest bar is stored with the others.
KeptWithOldest == {m \in page : m >= floor}

\* The oldest bar of the page is left to the next page, unless it is alone.
Kept ==
  LET keep == {m \in page : m >= floor}
  IN IF Cardinality(keep) > 1 /\ Min(keep) = Min(page) THEN keep \ {Min(page)}
     ELSE keep

\* _next_reference(): the oldest bar, or the end of the day before where the
\* same page has come back.
NextReference ==
  IF Min(page) < reference THEN Min(page) ELSE DayOf(reference) * DayLength

\* The floor, or a bar the collector has stored before, ends the run.
Covered ==
  \/ Min(page) <= floor
  \/ newest # 0 /\ Min(page) <= newest
  \/ NextReference <= floor

StorePage ==
  /\ job = "store"
  /\ table' = [m \in Minutes |-> IF m \in Kept THEN RestRow(m) ELSE table[m]]
  /\ demoted' = demoted \ Kept
  /\ job' = IF Covered THEN "done" ELSE "fetch"
  /\ reference' = IF Covered THEN reference ELSE NextReference
  /\ page' = {}
  /\ UNCHANGED <<exchangeVars, streamVars, refetch, started, newest, pages,
                 boundVars, gaps, broken>>

\* The limit of calls ends the run.
PageLimit ==
  /\ job = "fetch" /\ pages = MaxPages
  /\ job' = "done"
  /\ broken' = TRUE
  /\ UNCHANGED <<exchangeVars, table, streamVars, refetch, started, newest,
                 reference, pages, page, boundVars, gaps, demoted>>

\* The local variables of a run end with it.
EndRun ==
  /\ job' = "idle" /\ refetch' = FALSE
  /\ started' = 0 /\ newest' = 0 /\ reference' = 0 /\ pages' = 0 /\ page' = {}

\* A call or a write fails for good, or the process dies: the pages stored so
\* far stay.
Abort ==
  /\ job \in {"fetch", "store"}
  /\ Fault
  /\ EndRun
  /\ broken' = TRUE
  /\ UNCHANGED <<exchangeVars, table, streamVars, runs, gaps, demoted>>

Return ==
  /\ job = "done"
  /\ EndRun
  /\ broken' = (broken /\ (~refetch \/ pages = MaxPages))
  /\ UNCHANGED <<exchangeVars, table, streamVars, boundVars, gaps, demoted>>

-----------------------------------------------------------------------------
Stream ==
  \/ StartStream \/ Disconnect \/ StopStream
  \/ \E accepted \in BOOLEAN, m \in Minutes :
       Connect(accepted, <<>>) \/ Connect(accepted, <<m>>)
  \/ Receive \/ StoreBar \/ StoreBarFails

Collector == Begin \/ Fetch \/ StorePage \/ PageLimit \/ Abort \/ Return

Next == Trade \/ NextMinute \/ Stream \/ Collector

Spec == Init /\ [][Next]_vars

-----------------------------------------------------------------------------
(* Properties. *)

\* A row marked rest is the exchange's bar: its volume and, wherever the pages
\* were cut and runs ended, its traded value are those of its minute.
RestRowsAreTrue ==
  \A m \in Minutes :
    IsRest(m) => /\ table[m].volume = trades[m]
                 /\ table[m].trade_value = trades[m]

\* A run that ends by itself leaves no hole: every bar the exchange had above
\* the floor is stored as rest, or was overwritten by the stream since.  An
\* incremental run promises it only if no run before it was cut short.
CollectedRangeIsWhole ==
  job = "done" /\ pages < MaxPages /\ (refetch \/ ~broken) =>
    \A m \in Minutes :
      trades[m] > 0 /\ floor < m /\ m < started => IsRest(m) \/ m \in demoted

\* Across lost connections, refused subscriptions and late ticks the stream
\* falsifies and skips no minute whose ticks arrived once: its row is the
\* exchange's bar, and once the aggregator works on a later minute the row is
\* there (adapters/live_ws.py, live_ticks.py).
StreamIsWhole ==
  \A m \in Minutes \ gaps :
    /\ table[m] # None /\ table[m].source = "ws" => table[m].volume = trades[m]
    /\ ( /\ trades[m] > 0 /\ partial # None /\ m < partial.minute
         /\ completed # None => completed.minute # m )
       => table[m] # None
=============================================================================
