------------------------------ MODULE Universe ------------------------------
(***************************************************************************)
(* The lists the daemon and the backtest choose from: the master of listed *)
(* symbols (data/master.py), the daily watchlist (data/universe.py, with   *)
(* core/filters.py, momentum.py and watchlist.py) and the list for day     *)
(* trading (data/daytrade_universe.py), with the commands of cli.py that   *)
(* build them day by day or again for a range of the past.                 *)
(***************************************************************************)
EXTENDS Integers, Sequences, FiniteSets, SequencesExt

CONSTANTS
  None,
  Symbols,        \* symbol codes, as numbers
  Market,         \* symbol -> its market
  ListingDate,    \* symbol -> day it was listed
  Shapes,         \* days the exchange can have: symbol -> its bar, or None
  FirstBars,      \* the bars of the days before the first
  FirstDay,
  MaxDay,         \* bound: days
  MaxChanges,     \* bound: restated, missed and late bars, changes of the master
  MaxBuilds,      \* bound: builds by hand
  LOOKBACK_BARS, SKIP_BARS, HALT_LOOKBACK_BARS, LIQUIDITY_BARS,
  RECENCY_LIMIT_DAYS, MIN_LISTING_DAYS,
  MIN_BASE_PRICE, MIN_AVG_TRADE_VALUE,
  ENTER_RANK, EXIT_RANK,
  TOP_N           \* DEFAULT_TOP_N of the day trading list

Bar == [close : Nat, volume : Nat, value : Nat]

ASSUME UniverseAssumption ==
  /\ Symbols \subseteq Nat /\ IsFiniteSet(Symbols) /\ None \notin Int
  /\ FirstDay \in Nat \ {0} /\ MaxDay \in Nat /\ FirstDay <= MaxDay
  /\ FirstBars = [s \in Symbols |-> FirstBars[s]]
  /\ \A s \in Symbols : /\ DOMAIN FirstBars[s] \subseteq 1..(FirstDay - 1)
                       /\ FirstBars[s] \in [DOMAIN FirstBars[s] -> Bar]
  /\ \A shape \in Shapes : \A s \in Symbols : shape[s] \in Bar \cup {None}
  /\ SKIP_BARS \in Nat /\ LOOKBACK_BARS \in Nat /\ SKIP_BARS < LOOKBACK_BARS
  /\ ENTER_RANK \in Nat \ {0} /\ EXIT_RANK \in Nat /\ ENTER_RANK <= EXIT_RANK
  /\ {HALT_LOOKBACK_BARS, LIQUIDITY_BARS, TOP_N} \subseteq Nat \ {0}

VARIABLES
  day,
  market,      \* the day is over: its bars can be collected
  bars,        \* table stock_candles_1d: symbol -> (day -> [close, volume, value])
  missed,      \* symbol -> bars of the day that were not collected
  listed,      \* the symbols the exchange lists, and those it has flagged
  master,      \* table symbol_master: symbol -> [flagged]
  chain,       \* how far daily_collect.sh has come today
  range,       \* build-universe --from --to
  snapshots,   \* table watchlist_snapshots: day -> symbol -> rank
  daytrade,    \* table daytrade_watchlist_snapshots: day -> symbol -> rank
  builds,      \* Bound: builds by hand
  changes,     \* Bound: changes of the past and of the master
  last,        \* Ghost: the day just built again, from what its first build knew
  first        \* Ghost: day -> what the first build of the day knew and gave

tables == <<bars, master, snapshots, daytrade>>
ghosts == <<last, first>>
vars == <<day, market, bars, missed, listed, master, chain, range, snapshots,
          daytrade, builds, changes, ghosts>>

Days == 1..MaxDay
Idle == [stage |-> "idle"]

Init ==
  /\ day = FirstDay /\ market = "open"
  /\ bars = FirstBars
  /\ missed = [s \in Symbols |-> None]
  /\ listed = [symbols |-> Symbols, flagged |-> {}]
  /\ master = [s \in Symbols |-> [flagged |-> FALSE]]
  /\ chain = "waiting" /\ range = Idle
  /\ snapshots = [d \in Days |-> <<>>]
  /\ daytrade = [d \in Days |-> <<>>]
  /\ builds = 0 /\ changes = 0
  /\ last = None /\ first = [d \in Days |-> None]

-----------------------------------------------------------------------------
(* From bars to a list. *)

\* The trading days of the table.
TradingDays == UNION {DOMAIN bars[s] : s \in Symbols}

\* Days in ascending order: the i-th is the one with i days up to it.
InOrder(days) ==
  [i \in 1..Cardinality(days) |->
     CHOOSE d \in days : Cardinality({e \in days : e <= d}) = i]

BarsUpTo(s, asOf) == Restrict(bars[s], {d \in DOMAIN bars[s] : d <= asOf})

\* _load_series(): the bars of s up to a day, oldest first.
Series(s, asOf) ==
  LET stored == BarsUpTo(s, asOf)
      days   == InOrder(DOMAIN stored)
  IN [i \in DOMAIN days |-> stored[days[i]]]

LastBar(s, asOf) == Max(DOMAIN BarsUpTo(s, asOf))

LastOf(seq, n) == SubSeq(seq, Max({1, Len(seq) - n + 1}), Len(seq))

HasRecentHalt(series) ==
  \E i \in DOMAIN LastOf(series, HALT_LOOKBACK_BARS) :
    LastOf(series, HALT_LOOKBACK_BARS)[i].volume = 0

IsPenny(series) == Last(series).close < MIN_BASE_PRICE

IsLiquid(series) ==
  LET recent == LastOf(series, LIQUIDITY_BARS)
  IN FoldSeq(LAMBDA b, sum : sum + b.value, 0, recent) >= MIN_AVG_TRADE_VALUE * Len(recent)

\* momentum_score(), scaled to an integer: what matters is the order of scores.
MomentumScore(series) ==
  LET bar(back) == series[Len(series) - back]
  IN (bar(SKIP_BARS).close * 1000) \div bar(LOOKBACK_BARS).close

IsTradeable(s) == ~master[s].flagged

IsCollectable(s, today) == today - ListingDate[s] >= MIN_LISTING_DAYS

\* Faulty variant: whether a symbol was listed long enough is asked of today.
CandidatesOfToday(asOf, scope) ==
  {s \in DOMAIN master :
     IF scope = "tradeable_now" THEN IsTradeable(s) ELSE IsCollectable(s, day)}

\* _load_candidates(): the flags of the master are those of the last download, so
\* the structural scope looks at nothing but the listing date.
Candidates(asOf, scope) ==
  {s \in DOMAIN master :
     IF scope = "tradeable_now" THEN IsTradeable(s) ELSE IsCollectable(s, asOf)}

Passes(s, asOf) ==
  LET series == Series(s, asOf)
  IN /\ series # <<>>
     /\ asOf - LastBar(s, asOf) <= RECENCY_LIMIT_DAYS
     /\ ~HasRecentHalt(series) /\ ~IsPenny(series) /\ IsLiquid(series)
     /\ Len(series) >= LOOKBACK_BARS + 1
     /\ series[Len(series) - LOOKBACK_BARS].close > 0

Scores(asOf, scope) ==
  [s \in {x \in Candidates(asOf, scope) : Passes(x, asOf)} |-> MomentumScore(Series(s, asOf))]

Rank(scores, s) ==
  1 + Cardinality({t \in DOMAIN scores :
                     scores[t] > scores[s] \/ (scores[t] = scores[s] /\ t < s)})

\* Faulty variant: the rank at which a symbol leaves is counted from zero.
WatchlistOneLonger(scores, previous) ==
  [s \in {x \in DOMAIN scores :
            \/ Rank(scores, x) <= ENTER_RANK
            \/ x \in previous /\ Rank(scores, x) <= EXIT_RANK + 1} |-> Rank(scores, s)]

\* build_watchlist(): in at ENTER_RANK, out after EXIT_RANK.
Watchlist(scores, previous) ==
  [s \in {x \in DOMAIN scores :
            \/ Rank(scores, x) <= ENTER_RANK
            \/ x \in previous /\ Rank(scores, x) <= EXIT_RANK} |-> Rank(scores, s)]

\* A day without a list has no row either, and is passed over.
StoredDays == {d \in Days : snapshots[d] # <<>>}

\* _previous_watchlist(): the last list before the day, never the day's own.
PreviousWatchlist(asOf) ==
  LET before == {d \in StoredDays : d < asOf}
  IN IF before = {} THEN {} ELSE DOMAIN snapshots[Max(before)]

\* _effective_date(): the day whose bars are the last there are.
EffectiveDate(asOf) == Max({d \in TradingDays : d <= asOf})

\* What could be known on the evening of a day: its bars and those before, who is
\* listed, and the list of the day before.
Known(d) ==
  [bars |-> [s \in Symbols |-> BarsUpTo(s, d)],
   symbols |-> DOMAIN master, previous |-> PreviousWatchlist(d)]

\* build_snapshot(): without a bar an error; the rows of the effective day are
\* replaced.
BuildSnapshot(asOf, scope) ==
  LET d    == EffectiveDate(asOf)
      list == Watchlist(Scores(d, scope), PreviousWatchlist(d))
  IN /\ \E e \in TradingDays : e <= asOf
     /\ snapshots' = [snapshots EXCEPT ![d] = list]
     /\ first' = IF first[d] = None /\ scope = "structural"
                 THEN [first EXCEPT ![d] = [known |-> Known(d), list |-> list]] ELSE first
     /\ last' = IF scope = "structural" /\ first'[d].known = Known(d) THEN d ELSE None

-----------------------------------------------------------------------------
(* The commands. *)

\* _upsert(): the bar of a day added to the bars of s.
WithBar(s, d, bar) ==
  [e \in DOMAIN bars[s] \cup {d} |-> IF e = d THEN bar ELSE bars[s][e]]

\* collect-prices after the close: all bars of the day, or with an error some.
CollectPrices ==
  /\ market = "closed" /\ chain = "waiting"
  /\ \E got \in SUBSET {s \in Symbols : missed[s] # None} :
       /\ got # {s \in Symbols : missed[s] # None} => changes < MaxChanges
       /\ bars' = [s \in Symbols |->
            IF s \in got THEN WithBar(s, day, missed[s]) ELSE bars[s]]
       /\ missed' = [s \in Symbols |-> IF s \in got THEN None ELSE missed[s]]
       /\ chain' = IF missed' = [s \in Symbols |-> None] THEN "collected" ELSE "failed"
       /\ changes' = IF chain' = "failed" THEN changes + 1 ELSE changes
  /\ last' = None
  /\ UNCHANGED <<day, market, listed, master, range, snapshots, daytrade, builds, first>>

\* The second command of daily_collect.sh, only after the first has succeeded.
BuildDaily ==
  /\ chain = "collected" /\ chain' = "built"
  /\ BuildSnapshot(day, "structural")
  /\ UNCHANGED <<day, market, bars, missed, listed, master, range, daytrade, builds,
                 changes>>

\* build-universe --date, at any time.
BuildByHand ==
  /\ builds < MaxBuilds /\ builds' = builds + 1
  /\ \E asOf \in FirstDay..day, scope \in {"structural", "tradeable_now"} :
       BuildSnapshot(asOf, scope)
  /\ UNCHANGED <<day, market, bars, missed, listed, master, chain, range, daytrade,
                 changes>>

\* build-universe --from --to: the days are looked up, and all lists between
\* deleted, before the first is built.
StartRange ==
  /\ range = Idle /\ builds < MaxBuilds /\ builds' = builds + 1
  /\ \E from \in FirstDay..day, scope \in {"structural", "tradeable_now"} :
       LET days == {d \in TradingDays : from <= d /\ d <= day}
       IN /\ days # {}
          /\ range' = [stage |-> "running", days |-> InOrder(days), scope |-> scope]
          /\ snapshots' = [d \in Days |-> IF d \in from..day THEN <<>> ELSE snapshots[d]]
  /\ last' = None
  /\ UNCHANGED <<day, market, bars, missed, listed, master, chain, daytrade,
                 changes, first>>

BuildNext ==
  /\ range # Idle
  /\ BuildSnapshot(Head(range.days), range.scope)
  /\ range' = IF Tail(range.days) = <<>> THEN Idle ELSE [range EXCEPT !.days = Tail(@)]
  /\ UNCHANGED <<day, market, bars, missed, listed, master, chain, daytrade, builds,
                 changes>>

\* An interruption, a failure or a kill: what was deleted and not built is gone.
StopRange ==
  /\ range # Idle /\ range' = Idle /\ last' = None
  /\ UNCHANGED <<day, market, tables, missed, listed, chain, builds, changes, first>>

\* upsert_master(): what the file has is written, what it has no more is removed,
\* of one market.
Refreshed(m) ==
  LET kept == {s \in DOMAIN master : Market[s] # m}
      rows == {s \in listed.symbols : Market[s] = m}
  IN [s \in kept \cup rows |->
        IF s \in kept THEN master[s] ELSE [flagged |-> s \in listed.flagged]]

\* collect-master: one market after the other; the download of one may fail.  A
\* file without a row changes nothing.
CollectMaster ==
  /\ \E m \in {Market[s] : s \in Symbols} :
       /\ \E s \in listed.symbols : Market[s] = m
       /\ Refreshed(m) # master
       /\ master' = Refreshed(m)
  /\ last' = None
  /\ UNCHANGED <<day, market, bars, missed, listed, chain, range, snapshots, daytrade,
                 builds, changes, first>>

-----------------------------------------------------------------------------
(* The list for day trading. *)

\* select(): the liquid ones, by volume, value and code.
Select(source) ==
  LET bar(s)       == bars[s][source]
      liquid       == {s \in Symbols : source \in DOMAIN bars[s]
                                       /\ bar(s).value >= MIN_AVG_TRADE_VALUE}
      before(s, t) == \/ bar(s).volume > bar(t).volume
                      \/ bar(s).volume = bar(t).volume /\ bar(s).value > bar(t).value
                      \/ /\ bar(s).volume = bar(t).volume /\ bar(s).value = bar(t).value
                         /\ s < t
      rank(s)      == 1 + Cardinality({t \in liquid : before(t, s)})
  IN [s \in {x \in liquid : rank(x) <= TOP_N} |-> rank(s)]

\* Faulty variant: the list of the day is chosen again whenever it is asked for.
DaytradeListAnew(asOf) == Select(Max({d \in TradingDays : d < asOf}))

\* build_snapshot() of day trading: what is stored for the day is returned as it
\* is; otherwise the last trading day before is the source.
DaytradeList(asOf) ==
  IF daytrade[asOf] # <<>> THEN daytrade[asOf]
  ELSE Select(Max({d \in TradingDays : d < asOf}))

BuildDaytrade ==
  /\ market = "open" /\ DaytradeList(day) # <<>>
  /\ daytrade' = [daytrade EXCEPT ![day] = DaytradeList(day)]
  /\ daytrade' # daytrade
  /\ last' = None
  /\ UNCHANGED <<day, market, bars, missed, listed, master, chain, range, snapshots,
                 builds, changes, first>>

-----------------------------------------------------------------------------
(* The exchange. *)

Close ==
  /\ market = "open" /\ market' = "closed"
  /\ \E shape \in Shapes :
       missed' = [s \in Symbols |-> IF s \in listed.symbols THEN shape[s] ELSE None]
  /\ last' = None
  /\ UNCHANGED <<day, tables, listed, chain, range, builds, changes, first>>

\* The bars that were missed come with the next collection, and nobody builds the
\* list of their day again.
NextDay ==
  /\ market = "closed" /\ chain # "waiting" /\ day < MaxDay
  /\ day' = day + 1 /\ market' = "open" /\ chain' = "waiting"
  /\ bars' = [s \in Symbols |->
       IF missed[s] = None THEN bars[s] ELSE WithBar(s, day, missed[s])]
  /\ missed' = [s \in Symbols |-> None]
  /\ last' = None
  /\ UNCHANGED <<listed, master, range, snapshots, daytrade, builds, changes, first>>

Restated(bar) ==
  [close |-> 2 * bar.close, volume |-> bar.volume \div 2, value |-> bar.value]

\* A corporate action restates the stored bars of s (see DailyPrices).
Restate(s) ==
  /\ changes < MaxChanges /\ changes' = changes + 1
  /\ bars' = [bars EXCEPT ![s] = [d \in DOMAIN bars[s] |-> Restated(bars[s][d])]]
  /\ last' = None
  /\ UNCHANGED <<day, market, missed, listed, master, chain, range, snapshots, daytrade,
                 builds, first>>

\* A symbol is flagged, cleared or delisted; the master learns of it when it is
\* collected.
ChangeListing(s) ==
  /\ s \in listed.symbols /\ changes < MaxChanges /\ changes' = changes + 1
  /\ \/ listed' = [listed EXCEPT !.flagged = (@ \cup {s}) \ (@ \cap {s})]
     \/ listed' = [listed EXCEPT !.symbols = @ \ {s}]
  /\ last' = None
  /\ UNCHANGED <<day, market, tables, missed, chain, range, builds, first>>

Next ==
  \/ CollectPrices \/ BuildDaily \/ BuildByHand \/ StartRange \/ BuildNext \/ StopRange
  \/ CollectMaster \/ BuildDaytrade \/ Close \/ NextDay
  \/ \E s \in Symbols : Restate(s) \/ ChangeListing(s)

Spec == Init /\ [][Next]_vars

-----------------------------------------------------------------------------
(* Properties. *)

\* A list: symbols with different ranks within the limit.
Ranked(list, limit) ==
  /\ DOMAIN list \subseteq Symbols
  /\ \A s \in DOMAIN list : list[s] \in 1..limit
  /\ \A s, t \in DOMAIN list : s # t => list[s] # list[t]

\* Well-formedness of tables and commands; a list is never longer than EXIT_RANK.
TypeOK ==
  /\ day \in FirstDay..MaxDay /\ market \in {"open", "closed"}
  /\ \A s \in Symbols : DOMAIN bars[s] \subseteq Days
  /\ listed.symbols \subseteq Symbols /\ listed.flagged \subseteq Symbols
  /\ DOMAIN master \subseteq Symbols
  /\ chain \in {"waiting", "collected", "failed", "built"}
  /\ range = Idle \/ range.days \in Seq(Days)
  /\ \A d \in Days : Ranked(snapshots[d], EXIT_RANK) /\ Ranked(daytrade[d], TOP_N)
  /\ last \in Days \cup {None}

\* Building the list of a day again, alone or in a range, on the day or later,
\* repeats what its first build gave, if the bars up to that day, the symbols and
\* the list before are the same: nothing that came later has a part in it (data/universe.py: the same data
\* give the same list, and the structural scope is free of later knowledge).
BuildRepeatsThePast ==
  last # None => snapshots[last] = first[last].list

\* The day trading list of a day stays what it was before the opening, although
\* the bars it was chosen from are restated (data/daytrade_universe.py).
DaytradeListIsFixed ==
  [][\A d \in Days : daytrade[d] # <<>> => daytrade'[d] = daytrade[d]]_vars
=============================================================================
