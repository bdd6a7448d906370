---------------------------- MODULE DailyPrices ----------------------------
(***************************************************************************)
(* Table stock_candles_1d (data/prices.py) and the two commands that write *)
(* it: collect-prices goes forward from the last stored bar, and           *)
(* backfill-prices goes back from the first.  The exchange states all      *)
(* prices on the basis of the last corporate action: every action restates *)
(* the whole history of its symbol.  A bar is abstracted to the basis its  *)
(* close and volume are stated on and to whether its day was over.         *)
(***************************************************************************)
EXTENDS Integers, Sequences, FiniteSets, SequencesExt

CONSTANTS
  None,
  Symbols,
  FirstDay,          \* the day the first command may be run; days before are history
  MaxDay,            \* bound: days
  MaxActions,        \* bound: corporate actions
  MaxCollects,       \* bound: runs of collect-prices
  MaxBackfills,      \* bound: runs of backfill-prices
  LookbackDays,      \* --lookback-days
  OverlapDays,       \* OVERLAP_DAYS
  WindowDays,        \* WINDOW_DAYS
  EmptyTolerance,    \* BACKFILL_EMPTY_TOLERANCE
  MaxConsecutive,    \* MAX_CONSECUTIVE_FAILURES
  Pauses,            \* sets of days of the history on which a symbol may not be traded
  Floors,            \* listing dates and --earliest: the day a backfill stops at, or None
  MayOverlap         \* whether both commands may run at the same time

ASSUME DailyPricesAssumption ==
  /\ IsFiniteSet(Symbols) /\ Symbols # {}
  /\ FirstDay \in Nat \ {0} /\ MaxDay \in Nat /\ FirstDay <= MaxDay
  /\ MaxActions \in Nat /\ MaxCollects \in Nat /\ MaxBackfills \in Nat
  /\ LookbackDays \in Nat /\ OverlapDays \in Nat \ {0} /\ WindowDays \in Nat \ {0}
  /\ EmptyTolerance \in Nat \ {0} /\ MaxConsecutive \in Nat \ {0}
  /\ Floors \subseteq Int \cup {None} /\ None \notin Int
  /\ MayOverlap \in BOOLEAN

VARIABLES
  day,
  final,      \* BAR_FINAL_AFTER is past: the bars of the day do not change any more
  traded,     \* symbol -> days on which it has a bar
  basis,      \* symbol -> number of its corporate actions so far
  candles,    \* the table: symbol -> (day -> [basis, final])
  collect,    \* local variables of collect-prices
  backfill,   \* local variables of backfill-prices
  exit,       \* exit code of the last collect-prices, with the day it was run on
              \* and whether it had come to its end
  runs,       \* Bound: commands started
  notice      \* Ghost: symbol -> "done", "due" after a corporate action until a
              \* collection succeeds, or "missed" if that one had nothing to compare

exchange == <<day, final, traded, basis>>
vars == <<exchange, candles, collect, backfill, exit, runs, notice>>

Idle == [stage |-> "idle"]

Init ==
  /\ day = FirstDay /\ final = FALSE
  /\ \E paused \in [Symbols -> Pauses] : traded = [s \in Symbols |-> (0..FirstDay) \ paused[s]]
  /\ basis = [s \in Symbols |-> 0]
  /\ candles = [s \in Symbols |-> <<>>]
  /\ collect = Idle /\ backfill = Idle
  /\ exit = None
  /\ runs = [collect |-> 0, backfill |-> 0]
  /\ notice = [s \in Symbols |-> "done"]

-----------------------------------------------------------------------------
(* The exchange. *)

\* What KIS answers for a range of days.
Quote(s, first, last) ==
  [d \in {x \in traded[s] : first <= x /\ x <= last} |->
     [basis |-> basis[s], final |-> d < day \/ final]]

Session == /\ ~final /\ final' = TRUE
           /\ UNCHANGED <<day, traded, basis, candles, collect, backfill, exit, runs, notice>>

\* A symbol may be without a bar for any number of days; overnight one symbol
\* may be split.
NextDay ==
  /\ day < MaxDay /\ final /\ collect = Idle
  /\ day' = day + 1 /\ final' = FALSE
  /\ \E trading \in SUBSET Symbols, split \in SUBSET Symbols :
       /\ Cardinality(split) <= 1
       /\ MapThenSumSet(LAMBDA s : basis[s], Symbols) + Cardinality(split) <= MaxActions
       /\ traded' = [s \in Symbols |->
            IF s \in trading THEN traded[s] \cup {day + 1} ELSE traded[s]]
       /\ basis' = [s \in Symbols |-> IF s \in split THEN basis[s] + 1 ELSE basis[s]]
       /\ notice' = [s \in Symbols |->
            IF s \in split /\ notice[s] = "done" THEN "due" ELSE notice[s]]
  /\ UNCHANGED <<candles, collect, backfill, exit, runs>>

-----------------------------------------------------------------------------
(* The table. *)

Stored(s) == DOMAIN candles[s]

FirstStored(s) == IF Stored(s) = {} THEN None ELSE Min(Stored(s))
LastStored(s) == IF Stored(s) = {} THEN None ELSE Max(Stored(s))

Upsert(s, rows) ==
  [candles EXCEPT ![s] = [d \in DOMAIN rows \cup Stored(s) |->
     IF d \in DOMAIN rows THEN rows[d] ELSE candles[s][d]]]

\* Faulty variant: the bar of a running session is stored as well.
KeepFinalAll(rows, today, includeToday) == rows

\* The bar of today is stored only if it is final.
KeepFinal(rows, today, includeToday) ==
  Restrict(rows, {d \in DOMAIN rows : includeToday \/ d < today})

\* A bar before today and before the last stored one is not what it was.
WasAdjusted(s, rows, today, last) ==
  \E d \in DOMAIN rows \cap Stored(s) :
    d < Min({today, last}) /\ candles[s][d] # rows[d]

-----------------------------------------------------------------------------
(* collect-prices: _run_collect_prices(), collect_daily_all(), collect_daily(). *)

StartCollect ==
  /\ collect = Idle /\ (MayOverlap \/ backfill = Idle)
  /\ runs.collect < MaxCollects /\ runs' = [runs EXCEPT !.collect = @ + 1]
  /\ \E order \in SetToSeqs(Symbols) :
       collect' = [stage |-> "next", today |-> day, includeToday |-> final,
                   todo |-> order, failures |-> 0, streak |-> 0]
  /\ UNCHANGED <<exchange, candles, backfill, exit, notice>>

Collecting == Head(collect.todo)

\* Faulty variant: only the last symbol decides whether the command succeeded.
ExitCodeLast(failures, streak) == IF streak > 0 THEN 1 ELSE 0

ExitCode(failures, streak) == IF failures > 0 THEN 1 ELSE 0

Ends(code, done) ==
  /\ collect' = Idle
  /\ exit' = [code |-> code, on |-> collect.today, whole |-> collect.includeToday,
              done |-> done]

\* The next symbol, or the end of the command.
Advance(failures, streak) ==
  LET left == Tail(collect.todo)
      aborted == streak >= MaxConsecutive
  IN IF left = <<>> \/ aborted
     THEN Ends(ExitCode(failures, streak), TRUE)
     ELSE /\ collect' = [stage |-> "next", today |-> collect.today,
                         includeToday |-> collect.includeToday, todo |-> left,
                         failures |-> failures, streak |-> streak]
          /\ UNCHANGED exit

\* Faulty variant: nothing that is stored is read again.
FetchFromLast(last, today) == IF last = None THEN today - LookbackDays ELSE last

FetchFrom(last, today) == IF last = None THEN today - LookbackDays ELSE last - OverlapDays

\* The overlap, or the lookback of a symbol without a bar, is read from KIS.
FetchNew ==
  /\ collect.stage = "next"
  /\ LET s == Collecting
         last == LastStored(s)
         start == FetchFrom(last, collect.today)
     IN collect' = [stage |-> "fetched", today |-> collect.today,
                    includeToday |-> collect.includeToday, todo |-> collect.todo,
                    failures |-> collect.failures, streak |-> collect.streak,
                    last |-> last, rows |-> Quote(s, start, collect.today)]
  /\ UNCHANGED <<exchange, candles, backfill, exit, runs, notice>>

Adjusted ==
  /\ collect.last # None
  /\ WasAdjusted(Collecting, collect.rows, collect.today, collect.last)

\* The overlap has no bar before the last one, which is not compared, although
\* the table has: trade has paused for too long before it.
NothingToCompare(s) ==
  \E last \in Stored(s) :
    /\ \A d \in Stored(s) : d <= last /\ (d < last => last - d > OverlapDays)
    /\ \E d \in Stored(s) : d < last

AfterSuccess(s) ==
  IF notice[s] = "due" /\ ~NothingToCompare(s) THEN "done"
  ELSE IF notice[s] = "due" THEN "missed" ELSE notice[s]

\* Nothing was restated: the new bars are stored.
StoreNew ==
  /\ collect.stage = "fetched" /\ ~Adjusted
  /\ candles' = Upsert(Collecting, KeepFinal(collect.rows, collect.today, collect.includeToday))
  /\ notice' = [notice EXCEPT ![Collecting] = AfterSuccess(Collecting)]
  /\ Advance(collect.failures, 0)
  /\ UNCHANGED <<exchange, backfill, runs>>

\* Faulty variant: only the lookback is read again.
RefetchFromLookback(oldest, today) == today - LookbackDays

RefetchFrom(oldest, today) ==
  IF oldest = None THEN today - LookbackDays ELSE Min({oldest, today - LookbackDays})

\* Everything is read again, from the first stored bar on ...
FetchAgain ==
  /\ collect.stage = "fetched" /\ Adjusted
  /\ collect' = [collect EXCEPT !.stage = "refetched",
       !.rows = KeepFinal(Quote(Collecting,
                                RefetchFrom(FirstStored(Collecting), collect.today),
                                collect.today),
                          collect.today, collect.includeToday)]
  /\ UNCHANGED <<exchange, candles, backfill, exit, runs, notice>>

\* ... and takes the place of all rows in one transaction.
Replace ==
  /\ collect.stage = "refetched"
  /\ candles' = [candles EXCEPT ![Collecting] = collect.rows]
  /\ notice' = [notice EXCEPT ![Collecting] = "done"]
  /\ Advance(collect.failures, 0)
  /\ UNCHANGED <<exchange, backfill, runs>>

\* KIS or the database fails, after the retries: the symbol is left as it is.
CollectFails ==
  /\ collect # Idle
  /\ Advance(collect.failures + 1, collect.streak + 1)
  /\ UNCHANGED <<exchange, candles, backfill, runs, notice>>

\* KeyboardInterrupt: the command stops where it is and reports success.
CollectInterrupted ==
  /\ collect # Idle /\ Ends(0, FALSE)
  /\ UNCHANGED <<exchange, candles, backfill, runs, notice>>

\* The process is killed, or fails outside the loop over the symbols.
CollectDies ==
  /\ collect # Idle /\ Ends(1, FALSE)
  /\ UNCHANGED <<exchange, candles, backfill, runs, notice>>

-----------------------------------------------------------------------------
(* backfill-prices: backfill_daily_all(), backfill_daily(). *)

StartBackfill ==
  /\ backfill = Idle /\ (MayOverlap \/ collect = Idle)
  /\ runs.backfill < MaxBackfills /\ runs' = [runs EXCEPT !.backfill = @ + 1]
  /\ \E order \in SetToSeqs(Symbols), floor \in Floors :
       backfill' = [stage |-> "next", todo |-> order, floor |-> floor]
  /\ UNCHANGED <<exchange, candles, collect, exit, notice>>

Filling == Head(backfill.todo)

NextFill ==
  LET left == Tail(backfill.todo)
  IN backfill' = IF left = <<>> THEN Idle
                 ELSE [stage |-> "next", todo |-> left, floor |-> backfill.floor]

\* Faulty variant: the window below the floor is read as well.
AbovePast(cursor) == backfill.floor = None \/ cursor >= backfill.floor - 1

Above(cursor) == backfill.floor = None \/ cursor >= backfill.floor

\* A symbol without a bar has no place to go back from.
BeginFill ==
  /\ backfill.stage = "next"
  /\ IF FirstStored(Filling) = None \/ ~Above(FirstStored(Filling) - 1) THEN NextFill
     ELSE backfill' = [stage |-> "page", todo |-> backfill.todo, floor |-> backfill.floor,
                       cursor |-> FirstStored(Filling) - 1, empty |-> 0]
  /\ UNCHANGED <<exchange, candles, collect, exit, runs, notice>>

\* One window is read and its bars are stored, without comparing them.
FillPage ==
  /\ backfill.stage = "page"
  /\ LET window == backfill.cursor - WindowDays + 1
         first == IF backfill.floor = None THEN window ELSE Max({window, backfill.floor})
         rows == Quote(Filling, first, backfill.cursor)
         empty == IF DOMAIN rows = {} THEN backfill.empty + 1 ELSE 0
     IN /\ candles' = Upsert(Filling, rows)
        /\ IF empty >= EmptyTolerance \/ ~Above(first - 1) THEN NextFill
           ELSE backfill' = [stage |-> "page", todo |-> backfill.todo, floor |-> backfill.floor,
                             cursor |-> first - 1, empty |-> empty]
  /\ UNCHANGED <<exchange, collect, exit, runs, notice>>

FillFails ==
  /\ backfill # Idle /\ NextFill
  /\ UNCHANGED <<exchange, candles, collect, exit, runs, notice>>

FillDies ==
  /\ backfill # Idle /\ backfill' = Idle
  /\ UNCHANGED <<exchange, candles, collect, exit, runs, notice>>

-----------------------------------------------------------------------------

Exchange == Session \/ NextDay
Collect == StartCollect \/ FetchNew \/ StoreNew \/ FetchAgain \/ Replace
             \/ CollectFails \/ CollectInterrupted \/ CollectDies
Backfill == StartBackfill \/ BeginFill \/ FillPage \/ FillFails \/ FillDies

Next == Exchange \/ Collect \/ Backfill

Spec == Init /\ [][Next]_vars

-----------------------------------------------------------------------------
(* Properties. *)

Row == [basis : Nat, final : BOOLEAN]

\* Well-formedness of the table and of the variables of both commands.
TypeOK ==
  /\ day \in FirstDay..MaxDay /\ final \in BOOLEAN
  /\ \A s \in Symbols : traded[s] \subseteq 0..day /\ basis[s] \in Nat
  /\ \A s \in Symbols : /\ Stored(s) \subseteq traded[s]
                        /\ \A d \in Stored(s) : candles[s][d] \in Row
  /\ collect.stage \in {"idle", "next", "fetched", "refetched"}
  /\ collect # Idle => collect.todo # <<>> /\ collect.streak < MaxConsecutive
  /\ backfill.stage \in {"idle", "next", "page"}
  /\ backfill # Idle => backfill.todo # <<>>
  /\ (backfill.stage = "page" /\ backfill.floor # None) => backfill.cursor >= backfill.floor
  /\ notice \in [Symbols -> {"done", "due", "missed"}]

\* Between the first and the last stored bar of a symbol no bar is missing, and
\* each of them is the bar of a day that was over, whatever failed or was
\* killed on the way (data/prices.py: pages join, a replacement is atomic, and
\* what is stored in a session is not a bar).
HistoryIsWhole ==
  \A s \in Symbols : Stored(s) # {} =>
    /\ traded[s] \cap FirstStored(s)..LastStored(s) \subseteq Stored(s)
    /\ \A d \in Stored(s) : candles[s][d].final

\* Once a collection has succeeded after a corporate action, all stored bars of
\* the symbol are on the new basis, and a backfill joins bars of the same basis,
\* whatever failed in between and however long trade paused; only if the first
\* such collection found no bar in the overlap to compare the action may have
\* been missed (data/prices.py, _was_adjusted and backfill_daily).
HistoryHasOneBasis ==
  \A s \in Symbols : notice[s] = "done" =>
    \A d \in Stored(s) : candles[s][d].basis = basis[s]

\* Every finished bar in the lookback of the last collection is stored.
Collected ==
  \A s \in Symbols : \A d \in traded[s] :
    (d <= exit.on /\ (d < exit.on \/ exit.whole) /\ d >= exit.on - LookbackDays)
    => d \in Stored(s)

\* A collection that went through all symbols and reports success has stored
\* every finished bar of every one of them up to its day, whichever of them
\* failed and however the runs before it ended (cli.py, collect_daily_all).  One
\* that is interrupted reports success without it (CollectInterrupted), although
\* scripts/daily_collect.sh goes on to the watchlist by the exit code alone.
SuccessMeansCollected == (exit # None /\ exit.code = 0 /\ exit.done) => Collected

\* No stored bar is ever given up: a replacement starts at the first bar, so
\* that what backfill-prices has filled in stays (data/prices.py,
\* collect_daily).
BackfilledPastIsKept ==
  [][\A s \in Symbols : Stored(s) \subseteq DOMAIN candles'[s]]_vars
=============================================================================
