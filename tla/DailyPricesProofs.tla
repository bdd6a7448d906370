------------------------- MODULE DailyPricesProofs -------------------------
(***************************************************************************)
(* Theorems about DailyPrices, for any number of symbols, days, commands   *)
(* and failures, any overlap and any size of a window, as long as the two  *)
(* commands do not run at the same time.                                   *)
(***************************************************************************)
EXTENDS DailyPrices, FiniteSetTheorems, WellFoundedInduction, TLAPS

-----------------------------------------------------------------------------
(* The invariant. *)

TableTypes ==
  /\ day \in Nat /\ final \in BOOLEAN
  /\ traded \in [Symbols -> SUBSET (0..day)]
  /\ candles = [s \in Symbols |-> candles[s]]
  /\ \A s \in Symbols : Stored(s) \subseteq traded[s]

\* Between two stored bars every bar is stored.
NoHoles ==
  \A s \in Symbols : \A c, e \in Stored(s), d \in traded[s] :
    c < d /\ d < e => d \in Stored(s)

\* What is stored is final, so that the bar of today is stored only after hours.
BarsAreFinal ==
  \A s \in Symbols : /\ \A d \in Stored(s) : candles[s][d].final
                     /\ day \in Stored(s) => final

OneCommand == collect = Idle \/ backfill = Idle

\* A collection ends on the day it began, and what it takes for the final bars
\* is final.
CollectInPlace ==
  collect # Idle =>
    /\ collect.stage \in {"next", "fetched", "refetched"}
    /\ collect.today = day /\ collect.includeToday \in BOOLEAN
    /\ collect.todo \in Seq(Symbols) /\ collect.todo # <<>>
    /\ IF collect.includeToday THEN final ELSE \A s \in Symbols : day \notin Stored(s)

\* The bars that were read are those of the range, up to today.
AnswerIsTrue ==
  collect.stage = "fetched" =>
    /\ collect = [stage |-> "fetched", today |-> collect.today,
                  includeToday |-> collect.includeToday, todo |-> collect.todo,
                  failures |-> collect.failures, streak |-> collect.streak,
                  last |-> collect.last, rows |-> collect.rows]
    /\ IF Stored(Collecting) = {} THEN collect.last = None
       ELSE collect.last \in Stored(Collecting)
    /\ DOMAIN collect.rows =
         {d \in traded[Collecting] : FetchFrom(collect.last, day) <= d /\ d <= day}
    /\ \A d \in DOMAIN collect.rows :
         d < day \/ collect.includeToday => collect.rows[d].final

\* What will replace the rows of a symbol has all of them, no hole, and only
\* final bars.
ReplacementIsWhole ==
  collect.stage = "refetched" =>
    LET rows == DOMAIN collect.rows
    IN /\ Stored(Collecting) \subseteq rows /\ rows \subseteq traded[Collecting]
       /\ \A c, e \in rows, d \in traded[Collecting] : c < d /\ d < e => d \in rows
       /\ \A d \in rows : collect.rows[d].final
       /\ day \in rows => collect.includeToday

\* The page that is read next joins what is stored.
PageJoins ==
  /\ backfill # Idle =>
       /\ backfill.stage \in {"next", "page"}
       /\ backfill.todo \in Seq(Symbols) /\ backfill.todo # <<>>
       /\ backfill.floor \in Int \cup {None}
  /\ backfill.stage = "page" =>
       /\ backfill.cursor \in Int /\ Above(backfill.cursor)
       /\ Stored(Filling) # {}
       /\ \A e \in Stored(Filling) : backfill.cursor < e
       /\ \A e \in Stored(Filling), d \in traded[Filling] :
            backfill.cursor < d /\ d < e => d \in Stored(Filling)

TableInv ==
  /\ TableTypes /\ NoHoles /\ BarsAreFinal /\ OneCommand
  /\ CollectInPlace /\ AnswerIsTrue /\ ReplacementIsWhole /\ PageJoins

-----------------------------------------------------------------------------
(* The first and the last of some days. *)

LEMMA LeastOf ==
  ASSUME NEW S, S \subseteq Nat, S # {}
  PROVE  \E x \in S : \A y \in S : x <= y
<1>1. \E x \in S : \A y \in S : <<y, x>> \notin OpToRel(<, Nat)
  BY NatLessThanWellFounded, WFMin
<1>2. PICK x \in S : \A y \in S : <<y, x>> \notin OpToRel(<, Nat)
  BY <1>1
<1>3. ASSUME NEW y \in S PROVE x <= y
  <2>1. ~ (y < x)
    BY <1>2 DEF OpToRel
  <2> QED
    BY <2>1
<1> QED
  BY <1>2, <1>3

LEMMA MinOfDays ==
  ASSUME NEW S, S \subseteq Nat, S # {}
  PROVE  Min(S) \in S /\ \A y \in S : Min(S) <= y
BY LeastOf DEF Min

LEMMA MaxOfDays ==
  ASSUME NEW n \in Nat, NEW S, S \subseteq 0..n, S # {}
  PROVE  Max(S) \in S /\ \A y \in S : Max(S) >= y
<1> DEFINE T == {n - x : x \in S}
<1>1. T \subseteq Nat /\ T # {}
  <2>1. PICK x \in S : TRUE
    OBVIOUS
  <2>2. n - x \in T
    BY <2>1
  <2>3. T \subseteq Nat
    OBVIOUS
  <2> QED
    BY <2>2, <2>3
<1>2. PICK t \in T : \A u \in T : t <= u
  BY <1>1, LeastOf
<1>3. PICK x \in S : t = n - x
  BY <1>2
<1>4. ASSUME NEW y \in S PROVE x >= y
  <2>1. n - y \in T
    OBVIOUS
  <2> QED
    BY <1>2, <1>3, <2>1
<1> QED
  BY <1>3, <1>4 DEF Max

LEMMA MinOfTwo ==
  ASSUME NEW a \in Int, NEW b \in Int
  PROVE  Min({a, b}) = IF a <= b THEN a ELSE b
BY DEF Min

LEMMA MaxOfTwo ==
  ASSUME NEW a \in Int, NEW b \in Int
  PROVE  Max({a, b}) = IF a >= b THEN a ELSE b
BY DEF Max

\* The first and the last stored bar of a symbol.
LEMMA EndsOfHistory ==
  ASSUME TableTypes, NEW s \in Symbols, Stored(s) # {}
  PROVE  /\ FirstStored(s) \in Stored(s) /\ LastStored(s) \in Stored(s)
         /\ \A d \in Stored(s) : FirstStored(s) <= d /\ d <= LastStored(s)
         /\ Stored(s) \subseteq 0..day
<1>1. Stored(s) \subseteq 0..day /\ day \in Nat
  BY DEF TableTypes
<1>2. Stored(s) \subseteq Nat
  BY <1>1
<1> HIDE DEF Stored
<1>3. FirstStored(s) = Min(Stored(s)) /\ LastStored(s) = Max(Stored(s))
  BY DEF FirstStored, LastStored
<1>4. Min(Stored(s)) \in Stored(s) /\ \A y \in Stored(s) : Min(Stored(s)) <= y
  BY <1>2, MinOfDays
<1>5. Max(Stored(s)) \in Stored(s) /\ \A y \in Stored(s) : Max(Stored(s)) >= y
  BY <1>1, MaxOfDays
<1> QED
  BY <1>1, <1>2, <1>3, <1>4, <1>5

-----------------------------------------------------------------------------
(* What the steps have in common. *)

LEMMA IdleParts ==
  /\ collect = Idle => CollectInPlace /\ AnswerIsTrue /\ ReplacementIsWhole
  /\ backfill = Idle => PageJoins
BY DEF Idle, CollectInPlace, AnswerIsTrue, ReplacementIsWhole, PageJoins

History == TableTypes /\ NoHoles /\ BarsAreFinal

\* Rows without a hole, all of them final, take the place of those of a symbol.
LEMMA NewRows ==
  ASSUME History, NEW s \in Symbols, NEW rows,
         UNCHANGED exchange, candles' = [candles EXCEPT ![s] = rows],
         DOMAIN rows \subseteq traded[s],
         \A c, e \in DOMAIN rows, d \in traded[s] : c < d /\ d < e => d \in DOMAIN rows,
         \A d \in DOMAIN rows : rows[d].final,
         day \in DOMAIN rows => final
  PROVE  /\ History'
         /\ Stored(s)' = DOMAIN rows
         /\ \A t \in Symbols \ {s} : Stored(t)' = Stored(t)
<1>1. candles'[s] = rows /\ \A t \in Symbols \ {s} : candles'[t] = candles[t]
  BY DEF History, TableTypes
<1>2. candles' = [t \in Symbols |-> candles'[t]]
  BY DEF History, TableTypes
<1>3. Stored(s)' = DOMAIN rows /\ \A t \in Symbols \ {s} : Stored(t)' = Stored(t)
  BY <1>1 DEF Stored
<1>4. day' = day /\ final' = final /\ traded' = traded
  BY DEF exchange
<1>5. TableTypes'
  BY <1>2, <1>3, <1>4 DEF History, TableTypes
<1>6. NoHoles'
  <2> SUFFICES ASSUME NEW t \in Symbols, NEW c \in Stored(t)', NEW e \in Stored(t)',
                      NEW d \in traded[t], c < d, d < e
               PROVE  d \in Stored(t)'
    BY <1>4 DEF NoHoles
  <2> QED
    BY <1>3 DEF History, NoHoles
<1>7. BarsAreFinal'
  BY <1>1, <1>3, <1>4 DEF History, BarsAreFinal
<1> QED
  BY <1>3, <1>5, <1>6, <1>7 DEF History

\* A symbol is done with.
LEMMA AdvanceStep ==
  ASSUME CollectInPlace, collect # Idle, NEW failures, NEW streak, Advance(failures, streak),
         UNCHANGED exchange,
         ~collect.includeToday => \A s \in Symbols : day \notin Stored(s)'
  PROVE  CollectInPlace' /\ AnswerIsTrue' /\ ReplacementIsWhole'
<1>1. CASE collect' = Idle
  BY <1>1, IdleParts DEF Idle, CollectInPlace, AnswerIsTrue, ReplacementIsWhole
<1>2. CASE collect' # Idle
  <2>1. /\ collect' = [stage |-> "next", today |-> collect.today,
                       includeToday |-> collect.includeToday, todo |-> Tail(collect.todo),
                       failures |-> failures, streak |-> streak]
        /\ Tail(collect.todo) # <<>>
    BY <1>2 DEF Advance, Ends
  <2>2. Tail(collect.todo) \in Seq(Symbols)
    BY DEF CollectInPlace
  <2>3. collect'.stage = "next" /\ collect'.todo = Tail(collect.todo)
        /\ collect'.today = collect.today /\ collect'.includeToday = collect.includeToday
    BY <2>1
  <2>4. CollectInPlace'
    BY <2>1, <2>2, <2>3 DEF CollectInPlace, exchange
  <2> QED
    BY <2>3, <2>4 DEF AnswerIsTrue, ReplacementIsWhole
<1> QED
  BY <1>1, <1>2

LEMMA NextFillStep ==
  ASSUME PageJoins, backfill # Idle, NextFill
  PROVE  PageJoins'
<1>1. CASE backfill' = Idle
  BY <1>1 DEF Idle, PageJoins
<1>2. CASE backfill' # Idle
  <2>1. /\ backfill' = [stage |-> "next", todo |-> Tail(backfill.todo),
                        floor |-> backfill.floor]
        /\ Tail(backfill.todo) # <<>>
    BY <1>2 DEF NextFill
  <2>2. Tail(backfill.todo) \in Seq(Symbols)
    BY DEF PageJoins
  <2>3. backfill'.stage = "next" /\ backfill'.todo = Tail(backfill.todo)
        /\ backfill'.floor = backfill.floor
    BY <2>1
  <2> QED
    BY <2>1, <2>2, <2>3 DEF PageJoins
<1> QED
  BY <1>1, <1>2

\* The order in which a command takes the symbols.
LEMMA OrderOfSymbols ==
  ASSUME NEW order \in SetToSeqs(Symbols)
  PROVE  order \in Seq(Symbols) /\ order # <<>>
<1>1. Cardinality(Symbols) \in Nat /\ Cardinality(Symbols) # 0
  BY DailyPricesAssumption, FS_CardinalityType, FS_EmptySet
<1>2. order \in [1..Cardinality(Symbols) -> Symbols]
  BY DEF SetToSeqs
<1>3. order \in Seq(Symbols) /\ Len(order) = Cardinality(Symbols)
  BY <1>1, <1>2
<1> QED
  BY <1>1, <1>3

-----------------------------------------------------------------------------
(* The collection. *)

\* New bars join what is stored.
LEMMA StoreNewStep ==
  ASSUME TableInv, StoreNew
  PROVE  TableInv' /\ \A s \in Symbols : Stored(s) \subseteq Stored(s)'
<1>0. PICK s \in Symbols : s = Collecting
  <2>1. collect.todo \in Seq(Symbols) /\ collect.todo # <<>>
    BY DEF StoreNew, Idle, TableInv, CollectInPlace
  <2> QED
    BY <2>1 DEF Collecting
<1> DEFINE kept == KeepFinal(collect.rows, collect.today, collect.includeToday)
           rows == [d \in DOMAIN kept \cup Stored(s) |->
                      IF d \in DOMAIN kept THEN kept[d] ELSE candles[s][d]]
           start == FetchFrom(collect.last, day)
<1>1. collect # Idle /\ backfill = Idle /\ backfill' = Idle /\ UNCHANGED exchange
  BY DEF StoreNew, Idle, TableInv, OneCommand
<1>2. /\ collect.today = day /\ collect.includeToday \in BOOLEAN
      /\ IF collect.includeToday THEN final ELSE \A t \in Symbols : day \notin Stored(t)
  BY <1>1 DEF TableInv, CollectInPlace
<1>3. /\ IF Stored(s) = {} THEN collect.last = None ELSE collect.last \in Stored(s)
      /\ DOMAIN collect.rows = {d \in traded[s] : start <= d /\ d <= day}
      /\ \A d \in DOMAIN collect.rows :
           d < day \/ collect.includeToday => collect.rows[d].final
  BY <1>0 DEF StoreNew, TableInv, AnswerIsTrue
<1>4. candles' = [candles EXCEPT ![s] = rows]
  BY <1>0 DEF StoreNew, Upsert
<1>5. /\ DOMAIN kept = {d \in DOMAIN collect.rows : collect.includeToday \/ d < day}
      /\ \A d \in DOMAIN kept : kept[d] = collect.rows[d]
  BY <1>2 DEF KeepFinal, Restrict
<1>6. Stored(s) \subseteq traded[s] /\ traded[s] \subseteq 0..day /\ day \in Nat
  BY <1>2 DEF TableInv, TableTypes
<1>7. Stored(s) # {} => /\ collect.last \in 0..day /\ start \in Int
                        /\ start <= collect.last
  <2> SUFFICES ASSUME Stored(s) # {} PROVE /\ collect.last \in 0..day /\ start \in Int
                                           /\ start <= collect.last
    OBVIOUS
  <2>1. collect.last \in 0..day /\ collect.last # None /\ OverlapDays \in Nat
    BY <1>3, <1>6, DailyPricesAssumption
  <2> QED
    BY <2>1 DEF FetchFrom
<1>8. start \in Int
  <2>1. CASE Stored(s) = {}
    <3>1. start = day - LookbackDays
      BY <1>3, <2>1 DEF FetchFrom
    <3> QED
      BY <3>1, <1>6, DailyPricesAssumption
  <2> QED
    BY <1>7, <2>1
<1> HIDE DEF kept, start
<1>9. DOMAIN rows = DOMAIN kept \cup Stored(s)
  OBVIOUS
<1>10. DOMAIN rows \subseteq traded[s]
  BY <1>3, <1>5, <1>6, <1>9
<1>11. ASSUME NEW c \in DOMAIN rows, NEW e \in DOMAIN rows, NEW d \in traded[s], c < d, d < e
       PROVE  d \in DOMAIN rows
  <2>0. c \in 0..day /\ e \in 0..day /\ d \in 0..day /\ d < day
    BY <1>6, <1>10, <1>11
  <2>1. CASE start <= d
    BY <1>3, <1>5, <1>9, <2>0, <2>1
  <2>2. CASE ~ (start <= d)
    <3>1. c \notin DOMAIN kept
      BY <1>3, <1>5, <1>8, <2>0, <2>2, <1>11
    <3>2. c \in Stored(s) /\ collect.last \in Stored(s) /\ collect.last \in 0..day
      BY <1>3, <1>7, <1>9, <3>1
    <3>3. d < collect.last
      BY <1>7, <1>8, <2>0, <2>2, <3>2
    <3>4. d \in Stored(s)
      BY <1>2, <1>11, <3>2, <3>3 DEF TableInv, NoHoles
    <3> QED
      BY <1>9, <3>4
  <2> QED
    BY <2>1, <2>2
<1>12. \A d \in DOMAIN rows : rows[d].final
  <2> SUFFICES ASSUME NEW d \in DOMAIN rows PROVE rows[d].final
    OBVIOUS
  <2>1. CASE d \in DOMAIN kept
    BY <1>3, <1>5, <2>1
  <2>2. CASE d \notin DOMAIN kept
    <3>1. d \in Stored(s) /\ rows[d] = candles[s][d]
      BY <2>2
    <3> QED
      BY <1>2, <3>1 DEF TableInv, BarsAreFinal
  <2> QED
    BY <2>1, <2>2
<1>13. day \in DOMAIN rows => final /\ collect.includeToday
  <2>1. day \in DOMAIN kept => collect.includeToday
    BY <1>5, <1>6
  <2>2. day \in Stored(s) => collect.includeToday
    BY <1>2
  <2> QED
    BY <1>2, <1>9, <2>1, <2>2
<1> HIDE DEF rows
<1>14. /\ History' /\ Stored(s)' = DOMAIN rows
       /\ \A t \in Symbols \ {s} : Stored(t)' = Stored(t)
  BY <1>1, <1>2, <1>4, <1>10, <1>11, <1>12, <1>13, NewRows DEF TableInv, History
<1>15. ~collect.includeToday => \A t \in Symbols : day \notin Stored(t)'
  BY <1>2, <1>13, <1>14
<1>16. CollectInPlace' /\ AnswerIsTrue' /\ ReplacementIsWhole'
  BY <1>1, <1>15, AdvanceStep DEF StoreNew, TableInv
<1>17. PageJoins' /\ OneCommand'
  BY <1>1, IdleParts DEF Idle, PageJoins, OneCommand
<1> QED
  BY <1>9, <1>14, <1>16, <1>17 DEF TableInv, History

\* The symbol at the head of the list is one of the symbols.
LEMMA CollectingIsSymbol ==
  ASSUME TableInv, collect # Idle
  PROVE  Collecting \in Symbols
<1>1. collect.todo \in Seq(Symbols) /\ collect.todo # <<>>
  BY DEF TableInv, CollectInPlace
<1> QED
  BY <1>1 DEF Collecting

LEMMA FillingIsSymbol ==
  ASSUME TableInv, backfill # Idle
  PROVE  Filling \in Symbols
<1>1. backfill.todo \in Seq(Symbols) /\ backfill.todo # <<>>
  BY DEF TableInv, PageJoins
<1> QED
  BY <1>1 DEF Filling

\* Nothing happens to the table.
LEMMA SameHistory ==
  ASSUME History, UNCHANGED <<exchange, candles>>
  PROVE  History' /\ \A s : Stored(s)' = Stored(s)
BY DEF History, TableTypes, NoHoles, BarsAreFinal, Stored, exchange

LEMMA FetchNewStep ==
  ASSUME TableInv, FetchNew
  PROVE  TableInv'
<1>1. collect # Idle /\ backfill = Idle /\ backfill' = Idle /\ UNCHANGED <<exchange, candles>>
  BY DEF FetchNew, Idle, TableInv, OneCommand
<1>2. PICK s \in Symbols : s = Collecting
  BY <1>1, CollectingIsSymbol
<1>3. /\ collect.today = day /\ collect.includeToday \in BOOLEAN
      /\ collect.todo \in Seq(Symbols) /\ collect.todo # <<>>
      /\ IF collect.includeToday THEN final ELSE \A t \in Symbols : day \notin Stored(t)
  BY <1>1 DEF TableInv, CollectInPlace
<1> DEFINE last == LastStored(s)
           rows == Quote(s, FetchFrom(last, day), day)
<1>4. collect' = [stage |-> "fetched", today |-> day,
                  includeToday |-> collect.includeToday, todo |-> collect.todo,
                  failures |-> collect.failures, streak |-> collect.streak,
                  last |-> last, rows |-> rows]
  BY <1>2, <1>3 DEF FetchNew
<1>5. IF Stored(s) = {} THEN last = None ELSE last \in Stored(s)
  BY EndsOfHistory DEF LastStored, TableInv
<1>6. DOMAIN rows = {d \in traded[s] : FetchFrom(last, day) <= d /\ d <= day}
  BY DEF Quote
<1>7. \A d \in DOMAIN rows : d < day \/ collect.includeToday => rows[d].final
  BY <1>3 DEF Quote
<1> HIDE DEF last, rows
<1>8. /\ collect'.stage = "fetched" /\ collect'.today = day
      /\ collect'.includeToday = collect.includeToday /\ collect'.todo = collect.todo
      /\ collect'.last = last /\ collect'.rows = rows
  BY <1>4
<1>9. History' /\ (\A t : Stored(t)' = Stored(t)) /\ UNCHANGED <<day, traded, final>>
  BY <1>1, SameHistory DEF TableInv, History, exchange
<1>10. Collecting' = s
  BY <1>2, <1>8 DEF Collecting
<1>11. CollectInPlace'
  BY <1>3, <1>8, <1>9 DEF CollectInPlace
<1>12. AnswerIsTrue'
  <2>1. collect' = [stage |-> "fetched", today |-> collect'.today,
                    includeToday |-> collect'.includeToday, todo |-> collect'.todo,
                    failures |-> collect'.failures, streak |-> collect'.streak,
                    last |-> collect'.last, rows |-> collect'.rows]
    BY <1>4
  <2>2. IF Stored(Collecting)' = {} THEN collect'.last = None
        ELSE collect'.last \in Stored(Collecting)'
    <3>1. Stored(Collecting)' = Stored(s)
      BY <1>1, <1>10 DEF Stored
    <3> QED
      BY <1>5, <1>8, <3>1
  <2> QED
    BY <1>6, <1>7, <1>8, <1>9, <1>10, <2>1, <2>2 DEF AnswerIsTrue
<1>13. ReplacementIsWhole' /\ PageJoins' /\ OneCommand'
  BY <1>1, <1>8, IdleParts DEF ReplacementIsWhole, PageJoins, OneCommand, Idle
<1> QED
  BY <1>9, <1>11, <1>12, <1>13 DEF TableInv, History

\* What is read again begins at the first stored bar, or before it.
LEMMA FetchAgainStep ==
  ASSUME TableInv, FetchAgain
  PROVE  TableInv'
<1>1. collect # Idle /\ backfill = Idle /\ backfill' = Idle /\ UNCHANGED <<exchange, candles>>
  BY DEF FetchAgain, Idle, TableInv, OneCommand
<1>2. PICK s \in Symbols : s = Collecting
  BY <1>1, CollectingIsSymbol
<1>3. /\ collect.today = day /\ collect.includeToday \in BOOLEAN
      /\ collect.todo \in Seq(Symbols) /\ collect.todo # <<>>
      /\ IF collect.includeToday THEN final ELSE \A t \in Symbols : day \notin Stored(t)
  BY <1>1 DEF TableInv, CollectInPlace
<1> DEFINE from == RefetchFrom(FirstStored(s), day)
           read == Quote(s, from, day)
           rows == KeepFinal(read, day, collect.includeToday)
<1>4. collect' = [stage |-> "refetched", today |-> day,
                  includeToday |-> collect.includeToday, todo |-> collect.todo,
                  failures |-> collect.failures, streak |-> collect.streak,
                  last |-> collect.last, rows |-> rows]
  <2>1. collect = [stage |-> "fetched", today |-> collect.today,
                   includeToday |-> collect.includeToday, todo |-> collect.todo,
                   failures |-> collect.failures, streak |-> collect.streak,
                   last |-> collect.last, rows |-> collect.rows]
    BY DEF FetchAgain, TableInv, AnswerIsTrue
  <2>2. collect' = [collect EXCEPT !.stage = "refetched", !.rows = rows]
    BY <1>2, <1>3 DEF FetchAgain
  <2> HIDE DEF rows
  <2> QED
    BY <1>3, <2>1, <2>2
<1>5. Stored(s) # {}
  BY <1>2 DEF FetchAgain, Adjusted, TableInv, AnswerIsTrue
<1>6. /\ FirstStored(s) \in Stored(s) /\ \A d \in Stored(s) : FirstStored(s) <= d
      /\ Stored(s) \subseteq traded[s] /\ traded[s] \subseteq 0..day /\ day \in Nat
  BY <1>2, <1>5, EndsOfHistory DEF TableInv, TableTypes
<1>7. from \in Int /\ \A d \in Stored(s) : from <= d
  <2>1. FirstStored(s) \in 0..day /\ FirstStored(s) # None /\ LookbackDays \in Nat
    BY <1>6, DailyPricesAssumption
  <2>2. day - LookbackDays \in Int /\ FirstStored(s) \in Int
    BY <1>6, <2>1
  <2>3. Min({FirstStored(s), day - LookbackDays})
          = IF FirstStored(s) <= day - LookbackDays THEN FirstStored(s) ELSE day - LookbackDays
    BY <2>2, MinOfTwo, Zenon
  <2>4. from = Min({FirstStored(s), day - LookbackDays})
    BY <2>1 DEF RefetchFrom
  <2>5. from \in Int /\ from <= FirstStored(s)
    BY <2>2, <2>3, <2>4
  <2> HIDE DEF from
  <2>6. \A d \in Stored(s) : d \in Int
    BY <1>6
  <2> QED
    BY <1>6, <2>2, <2>5, <2>6
<1>8. /\ DOMAIN read = {d \in traded[s] : from <= d /\ d <= day}
      /\ \A d \in DOMAIN read : d < day \/ final => read[d].final
  BY DEF Quote
<1>9. /\ DOMAIN rows = {d \in DOMAIN read : collect.includeToday \/ d < day}
      /\ \A d \in DOMAIN rows : rows[d] = read[d]
  BY DEF KeepFinal, Restrict
<1> HIDE DEF from, read, rows
<1>10. Stored(s) \subseteq DOMAIN rows
  <2> SUFFICES ASSUME NEW d \in Stored(s) PROVE d \in DOMAIN rows
    OBVIOUS
  <2>1. d \in traded[s] /\ d \in 0..day /\ from <= d
    BY <1>6, <1>7
  <2>2. collect.includeToday \/ d < day
    BY <1>2, <1>3, <1>6, <2>1
  <2> QED
    BY <1>6, <1>8, <1>9, <2>1, <2>2
<1>11. /\ DOMAIN rows \subseteq traded[s]
       /\ \A d \in DOMAIN rows : rows[d].final
       /\ day \in DOMAIN rows => collect.includeToday
  BY <1>3, <1>6, <1>8, <1>9
<1>12. ASSUME NEW c \in DOMAIN rows, NEW e \in DOMAIN rows, NEW d \in traded[s], c < d, d < e
       PROVE  d \in DOMAIN rows
  <2>1. c \in 0..day /\ e \in 0..day /\ d \in 0..day
    BY <1>6, <1>11
  <2>2. from <= d /\ d < day
    BY <1>6, <1>7, <1>8, <1>9, <1>12, <2>1
  <2> QED
    BY <1>8, <1>9, <2>1, <2>2
<1>13. /\ collect'.stage = "refetched" /\ collect'.today = day
       /\ collect'.includeToday = collect.includeToday /\ collect'.todo = collect.todo
       /\ collect'.rows = rows
  BY <1>4
<1>14. History' /\ (\A t : Stored(t)' = Stored(t)) /\ UNCHANGED <<day, traded, final>>
  BY <1>1, SameHistory DEF TableInv, History, exchange
<1>15. Collecting' = s /\ Stored(Collecting)' = Stored(s)
  BY <1>1, <1>2, <1>13 DEF Collecting, Stored
<1>16. CollectInPlace'
  BY <1>3, <1>13, <1>14 DEF CollectInPlace
<1>17. ReplacementIsWhole'
  BY <1>10, <1>11, <1>12, <1>13, <1>14, <1>15 DEF ReplacementIsWhole
<1>18. AnswerIsTrue' /\ PageJoins' /\ OneCommand'
  BY <1>1, <1>13, IdleParts DEF AnswerIsTrue, PageJoins, OneCommand, Idle
<1> QED
  BY <1>14, <1>16, <1>17, <1>18 DEF TableInv, History

\* A replacement has whatever it replaces.
LEMMA ReplaceStep ==
  ASSUME TableInv, Replace
  PROVE  TableInv' /\ \A s \in Symbols : Stored(s) \subseteq Stored(s)'
<1>1. collect # Idle /\ backfill = Idle /\ backfill' = Idle /\ UNCHANGED exchange
  BY DEF Replace, Idle, TableInv, OneCommand
<1>2. PICK s \in Symbols : s = Collecting
  BY <1>1, CollectingIsSymbol
<1>3. IF collect.includeToday THEN final ELSE \A t \in Symbols : day \notin Stored(t)
  BY <1>1 DEF TableInv, CollectInPlace
<1> DEFINE rows == collect.rows
<1>4. /\ Stored(s) \subseteq DOMAIN rows /\ DOMAIN rows \subseteq traded[s]
      /\ \A c, e \in DOMAIN rows, d \in traded[s] : c < d /\ d < e => d \in DOMAIN rows
      /\ \A d \in DOMAIN rows : rows[d].final
      /\ day \in DOMAIN rows => collect.includeToday
  BY <1>2 DEF Replace, TableInv, ReplacementIsWhole
<1>5. candles' = [candles EXCEPT ![s] = rows]
  BY <1>2 DEF Replace
<1> HIDE DEF rows
<1>6. /\ History' /\ Stored(s)' = DOMAIN rows
      /\ \A t \in Symbols \ {s} : Stored(t)' = Stored(t)
  BY <1>1, <1>3, <1>4, <1>5, NewRows DEF TableInv, History
<1>7. ~collect.includeToday => \A t \in Symbols : day \notin Stored(t)'
  BY <1>3, <1>4, <1>6
<1>8. CollectInPlace' /\ AnswerIsTrue' /\ ReplacementIsWhole'
  BY <1>1, <1>7, AdvanceStep DEF Replace, TableInv
<1>9. PageJoins' /\ OneCommand'
  BY <1>1, IdleParts DEF Idle, PageJoins, OneCommand
<1> QED
  BY <1>4, <1>6, <1>8, <1>9 DEF TableInv, History

-----------------------------------------------------------------------------
(* The backfill. *)

LEMMA BeginFillStep ==
  ASSUME TableInv, BeginFill
  PROVE  TableInv'
<1>1. backfill # Idle /\ collect = Idle /\ collect' = Idle /\ UNCHANGED <<exchange, candles>>
  BY DEF BeginFill, Idle, TableInv, OneCommand
<1>2. PICK s \in Symbols : s = Filling
  BY <1>1, FillingIsSymbol
<1>3. History' /\ (\A t : Stored(t)' = Stored(t)) /\ UNCHANGED <<day, traded, final>>
  BY <1>1, SameHistory DEF TableInv, History, exchange
<1>4. CollectInPlace' /\ AnswerIsTrue' /\ ReplacementIsWhole' /\ OneCommand'
  BY <1>1 DEF CollectInPlace, AnswerIsTrue, ReplacementIsWhole, OneCommand, Idle
<1>5. PageJoins'
  <2>1. CASE NextFill
    BY <1>1, <2>1, NextFillStep DEF TableInv
  <2>2. CASE ~NextFill
    <3> DEFINE cursor == FirstStored(s) - 1
    <3>1. /\ backfill' = [stage |-> "page", todo |-> backfill.todo,
                          floor |-> backfill.floor, cursor |-> cursor, empty |-> 0]
          /\ FirstStored(s) # None /\ Above(cursor)
      BY <1>2, <2>2 DEF BeginFill
    <3>2. /\ backfill'.stage = "page" /\ backfill'.todo = backfill.todo
          /\ backfill'.floor = backfill.floor /\ backfill'.cursor = cursor
          /\ backfill'.empty = 0
      BY <3>1
    <3>3. Stored(s) # {}
      BY <3>1 DEF FirstStored
    <3>4. /\ FirstStored(s) \in Stored(s) /\ \A d \in Stored(s) : FirstStored(s) <= d
          /\ Stored(s) \subseteq 0..day /\ traded[s] \subseteq 0..day /\ day \in Nat
      BY <3>3, EndsOfHistory DEF TableInv, TableTypes
    <3>5. cursor \in Int /\ \A e \in Stored(s) : cursor < e
      BY <3>4
    <3>6. ASSUME NEW e \in Stored(s), NEW d \in traded[s], cursor < d, d < e
          PROVE  d \in Stored(s)
      <4>1. FirstStored(s) <= d
        BY <3>4, <3>6
      <4>2. CASE d = FirstStored(s)
        BY <3>4, <4>2
      <4>3. CASE d # FirstStored(s)
        <5>1. FirstStored(s) < d
          BY <3>4, <4>1, <4>3
        <5> QED
          BY <3>4, <3>6, <5>1 DEF TableInv, NoHoles
      <4> QED
        BY <4>2, <4>3
    <3>7. Filling' = s /\ Stored(Filling)' = Stored(s) /\ traded'[s] = traded[s]
      BY <1>1, <1>2, <3>2 DEF Filling, Stored, exchange
    <3>8. backfill.todo \in Seq(Symbols) /\ backfill.todo # <<>>
          /\ backfill.floor \in Int \cup {None}
      BY <1>1 DEF TableInv, PageJoins
    <3> HIDE DEF cursor
    <3>9. backfill'.floor = None \/ backfill'.cursor >= backfill'.floor
      BY <3>1, <3>2 DEF Above
    <3> QED
      BY <3>1, <3>2, <3>3, <3>5, <3>6, <3>7, <3>8, <3>9 DEF PageJoins, Above
  <2> QED
    BY <2>1, <2>2
<1> QED
  BY <1>3, <1>4, <1>5 DEF TableInv, History

\* A page ends where the stored bars begin, and all of its days are past.
LEMMA FillPageStep ==
  ASSUME TableInv, FillPage
  PROVE  TableInv' /\ \A s \in Symbols : Stored(s) \subseteq Stored(s)'
<1>1. backfill # Idle /\ collect = Idle /\ collect' = Idle /\ UNCHANGED exchange
  BY DEF FillPage, Idle, TableInv, OneCommand
<1>2. PICK s \in Symbols : s = Filling
  BY <1>1, FillingIsSymbol
<1> DEFINE cursor == backfill.cursor
           window == cursor - WindowDays + 1
           first == IF backfill.floor = None THEN window ELSE Max({window, backfill.floor})
           page == Quote(s, first, cursor)
           empty == IF DOMAIN page = {} THEN backfill.empty + 1 ELSE 0
           rows == [d \in DOMAIN page \cup Stored(s) |->
                      IF d \in DOMAIN page THEN page[d] ELSE candles[s][d]]
<1>3. /\ cursor \in Int /\ Above(cursor) /\ Stored(s) # {}
      /\ \A e \in Stored(s) : cursor < e
      /\ \A e \in Stored(s), d \in traded[s] : cursor < d /\ d < e => d \in Stored(s)
  BY <1>2 DEF FillPage, TableInv, PageJoins
<1>4. /\ backfill.todo \in Seq(Symbols) /\ backfill.todo # <<>>
      /\ backfill.floor \in Int \cup {None}
  BY <1>1 DEF TableInv, PageJoins
<1>5. /\ candles' = [candles EXCEPT ![s] = rows]
      /\ \/ NextFill
         \/ /\ Above(first - 1)
            /\ backfill' = [stage |-> "page", todo |-> backfill.todo, floor |-> backfill.floor,
                            cursor |-> first - 1, empty |-> empty]
  BY <1>2 DEF FillPage, Upsert
<1>6. first \in Int /\ first <= cursor
  <2>1. window \in Int /\ window <= cursor
    BY <1>3, DailyPricesAssumption
  <2>2. CASE backfill.floor = None
    BY <2>1, <2>2
  <2>3. CASE backfill.floor # None
    <3>1. backfill.floor \in Int /\ backfill.floor <= cursor
      BY <1>3, <1>4, <2>3 DEF Above
    <3> HIDE DEF window
    <3>2. Max({window, backfill.floor})
            = IF window >= backfill.floor THEN window ELSE backfill.floor
      BY <2>1, <3>1, MaxOfTwo, Zenon
    <3>3. first = Max({window, backfill.floor})
      BY <2>3
    <3> QED
      BY <2>1, <3>1, <3>2, <3>3
  <2> QED
    BY <2>2, <2>3
<1>7. /\ Stored(s) \subseteq traded[s] /\ traded[s] \subseteq 0..day /\ day \in Nat
  BY DEF TableInv, TableTypes
<1>8. cursor < day
  BY <1>3, <1>7
<1>9. /\ DOMAIN page = {d \in traded[s] : first <= d /\ d <= cursor}
      /\ \A d \in DOMAIN page : d < day => page[d].final
  BY DEF Quote
<1> HIDE DEF first, page, empty
<1>10. \A d \in DOMAIN page : page[d].final
  BY <1>3, <1>7, <1>8, <1>9
<1>11. DOMAIN rows = DOMAIN page \cup Stored(s) /\ DOMAIN rows \subseteq traded[s]
  BY <1>7, <1>9
<1>12. \A d \in DOMAIN rows : rows[d].final
  <2> SUFFICES ASSUME NEW d \in DOMAIN rows PROVE rows[d].final
    OBVIOUS
  <2>1. CASE d \in DOMAIN page
    BY <1>10, <2>1
  <2>2. CASE d \notin DOMAIN page
    <3>1. d \in Stored(s) /\ rows[d] = candles[s][d]
      BY <2>2
    <3> QED
      BY <3>1 DEF TableInv, BarsAreFinal
  <2> QED
    BY <2>1, <2>2
<1> HIDE DEF rows, cursor
<1>13. day \in DOMAIN rows => final
  BY <1>3, <1>7, <1>8, <1>9, <1>11 DEF TableInv, BarsAreFinal
<1>14. ASSUME NEW e \in DOMAIN rows, NEW d \in traded[s], first <= d, d < e
       PROVE  d \in DOMAIN rows
  <2>1. d \in 0..day /\ e \in 0..day
    BY <1>7, <1>11
  <2>2. CASE d <= cursor
    BY <1>9, <1>11, <1>14, <2>2
  <2>3. CASE ~ (d <= cursor)
    <3>1. e \in Stored(s) /\ cursor < d
      BY <1>3, <1>9, <1>11, <1>14, <2>1, <2>3
    <3> QED
      BY <1>3, <1>11, <1>14, <3>1
  <2> QED
    BY <2>2, <2>3
<1>15. \A e \in DOMAIN rows : first <= e
  BY <1>3, <1>6, <1>7, <1>9, <1>11
<1>16. ASSUME NEW c \in DOMAIN rows, NEW e \in DOMAIN rows, NEW d \in traded[s], c < d, d < e
       PROVE  d \in DOMAIN rows
  <2>1. first <= c /\ c \in Int /\ d \in Int
    BY <1>7, <1>11, <1>15
  <2>2. first <= d
    BY <1>6, <1>16, <2>1
  <2> QED
    BY <1>14, <1>16, <2>2
<1>17. /\ History' /\ Stored(s)' = DOMAIN rows
       /\ \A t \in Symbols \ {s} : Stored(t)' = Stored(t)
  BY <1>1, <1>5, <1>11, <1>12, <1>13, <1>16, NewRows DEF TableInv, History
<1>18. CollectInPlace' /\ AnswerIsTrue' /\ ReplacementIsWhole' /\ OneCommand'
  BY <1>1 DEF CollectInPlace, AnswerIsTrue, ReplacementIsWhole, OneCommand, Idle
<1>19. PageJoins'
  <2>1. CASE NextFill
    BY <1>1, <2>1, NextFillStep DEF TableInv
  <2>2. CASE ~NextFill
    <3>1. /\ backfill' = [stage |-> "page", todo |-> backfill.todo,
                          floor |-> backfill.floor, cursor |-> first - 1, empty |-> empty]
          /\ Above(first - 1)
      BY <1>5, <2>2
    <3>2. /\ backfill'.stage = "page" /\ backfill'.todo = backfill.todo
          /\ backfill'.floor = backfill.floor /\ backfill'.cursor = first - 1
          /\ backfill'.empty = empty
      BY <3>1
    <3>3. Filling' = s /\ traded' = traded
      BY <1>1, <1>2, <3>2 DEF Filling, exchange
    <3>4. Stored(Filling)' = DOMAIN rows
      <4>1. Stored(Filling)' = DOMAIN candles'[s]
        BY <3>3 DEF Stored
      <4> QED
        BY <1>17, <4>1 DEF Stored
    <3>5. DOMAIN rows # {} /\ \A e \in DOMAIN rows : first - 1 < e
      BY <1>3, <1>6, <1>7, <1>11, <1>15
    <3>6. \A e \in DOMAIN rows, d \in traded[s] : first - 1 < d /\ d < e => d \in DOMAIN rows
      BY <1>6, <1>7, <1>14
    <3>7. backfill'.floor = None \/ backfill'.cursor >= backfill'.floor
      BY <3>1, <3>2 DEF Above
    <3> QED
      BY <1>4, <1>6, <3>1, <3>2, <3>3, <3>4, <3>5, <3>6, <3>7 DEF PageJoins, Above
  <2> QED
    BY <2>1, <2>2
<1> QED
  BY <1>11, <1>17, <1>18, <1>19 DEF TableInv, History

-----------------------------------------------------------------------------
(* The exchange, the starts and the failures. *)

LEMMA InitTableInv == Init => TableInv
<1> SUFFICES ASSUME Init PROVE TableInv
  OBVIOUS
<1>1. \A s \in Symbols : Stored(s) = {}
  BY DEF Init, Stored
<1>2. day \in Nat /\ final = FALSE
  BY DailyPricesAssumption DEF Init
<1>3. traded \in [Symbols -> SUBSET (0..day)]
  BY <1>2 DEF Init
<1>4. candles = [s \in Symbols |-> candles[s]]
  BY DEF Init
<1>5. TableTypes /\ NoHoles /\ BarsAreFinal
  BY <1>1, <1>2, <1>3, <1>4 DEF TableTypes, NoHoles, BarsAreFinal
<1>6. collect = Idle /\ backfill = Idle
  BY DEF Init
<1> QED
  BY <1>5, <1>6, IdleParts DEF TableInv, OneCommand

LEMMA SessionStep ==
  ASSUME TableInv, Session
  PROVE  TableInv'
<1>1. final' = TRUE /\ UNCHANGED <<day, traded, candles, collect, backfill>>
  BY DEF Session
<1>2. \A s : Stored(s)' = Stored(s)
  BY <1>1 DEF Stored
<1>3. TableTypes' /\ NoHoles' /\ BarsAreFinal' /\ OneCommand'
  BY <1>1, <1>2 DEF TableInv, TableTypes, NoHoles, BarsAreFinal, OneCommand
<1>4. CollectInPlace'
  BY <1>1, <1>2 DEF TableInv, CollectInPlace
<1>5. AnswerIsTrue' /\ ReplacementIsWhole'
  BY <1>1 DEF TableInv, AnswerIsTrue, ReplacementIsWhole, Stored, Collecting
<1>6. PageJoins'
  BY <1>1 DEF TableInv, PageJoins, Stored, Filling, Above
<1> QED
  BY <1>3, <1>4, <1>5, <1>6 DEF TableInv

\* The new day is after every stored bar.
LEMMA NextDayStep ==
  ASSUME TableInv, NextDay
  PROVE  TableInv'
<1>1. /\ day' = day + 1 /\ final' = FALSE /\ collect = Idle
      /\ UNCHANGED <<candles, collect, backfill>>
  BY DEF NextDay
<1>2. PICK trading \in SUBSET Symbols :
        traded' = [s \in Symbols |->
          IF s \in trading THEN traded[s] \cup {day + 1} ELSE traded[s]]
  BY DEF NextDay
<1>3. day \in Nat /\ traded \in [Symbols -> SUBSET (0..day)]
      /\ \A s \in Symbols : Stored(s) \subseteq traded[s]
  BY DEF TableInv, TableTypes
<1>4. \A s : Stored(s)' = Stored(s)
  BY <1>1 DEF Stored
<1>5. \A s \in Symbols : /\ traded[s] \subseteq traded'[s]
                         /\ traded'[s] \subseteq traded[s] \cup {day + 1}
  BY <1>2
<1>6. \A s \in Symbols : \A e \in Stored(s) : e \in 0..day
  BY <1>3
<1>7. TableTypes'
  <2>1. traded' \in [Symbols -> SUBSET (0..day')]
    <3>1. \A s \in Symbols : traded'[s] \subseteq 0..day'
      BY <1>1, <1>3, <1>5
    <3> QED
      BY <1>2, <3>1
  <2>2. \A s \in Symbols : Stored(s)' \subseteq traded'[s]
    BY <1>3, <1>4, <1>5
  <2>3. candles' = [s \in Symbols |-> candles'[s]]
    BY <1>1 DEF TableInv, TableTypes
  <2>4. day' \in Nat
    BY <1>1, <1>3
  <2>5. final' \in BOOLEAN
    BY <1>1, Zenon
  <2> QED
    BY <2>1, <2>2, <2>3, <2>4, <2>5 DEF TableTypes
<1>8. NoHoles'
  <2> SUFFICES ASSUME NEW s \in Symbols, NEW c \in Stored(s), NEW e \in Stored(s),
                      NEW d \in traded'[s], c < d, d < e
               PROVE  d \in Stored(s)
    BY <1>4 DEF NoHoles
  <2>1. d \in traded[s]
    BY <1>3, <1>5, <1>6
  <2> QED
    BY <2>1 DEF TableInv, NoHoles
<1>9. BarsAreFinal'
  BY <1>1, <1>3, <1>4, <1>6 DEF TableInv, BarsAreFinal
<1>10. CollectInPlace' /\ AnswerIsTrue' /\ ReplacementIsWhole' /\ OneCommand'
  BY <1>1 DEF CollectInPlace, AnswerIsTrue, ReplacementIsWhole, OneCommand, Idle
<1>11. PageJoins'
  <2>1. CASE backfill = Idle
    BY <1>1, <2>1 DEF PageJoins, Idle
  <2>2. CASE backfill # Idle
    <3>1. PICK s \in Symbols : s = Filling
      BY <2>2, FillingIsSymbol
    <3>2. Filling' = s /\ Stored(Filling)' = Stored(s)
      BY <1>1, <3>1 DEF Filling, Stored
    <3>3. \A e \in Stored(s), d \in traded'[s] : d < e => d \in traded[s]
      BY <1>3, <1>5, <1>6
    <3> QED
      BY <1>1, <3>1, <3>2, <3>3 DEF TableInv, PageJoins, Above
  <2> QED
    BY <2>1, <2>2
<1> QED
  BY <1>7, <1>8, <1>9, <1>10, <1>11 DEF TableInv

LEMMA StartCollectStep ==
  ASSUME MayOverlap = FALSE, TableInv, StartCollect
  PROVE  TableInv'
<1>1. backfill = Idle /\ backfill' = Idle /\ UNCHANGED <<exchange, candles>>
  BY DEF StartCollect
<1>2. PICK order \in SetToSeqs(Symbols) :
        collect' = [stage |-> "next", today |-> day, includeToday |-> final,
                    todo |-> order, failures |-> 0, streak |-> 0]
  BY DEF StartCollect
<1>3. order \in Seq(Symbols) /\ order # <<>>
  BY OrderOfSymbols
<1>4. collect'.stage = "next" /\ collect'.today = day /\ collect'.includeToday = final
      /\ collect'.todo = order
  BY <1>2
<1>5. History' /\ (\A t : Stored(t)' = Stored(t)) /\ UNCHANGED <<day, traded, final>>
  BY <1>1, SameHistory DEF TableInv, History, exchange
<1>6. CollectInPlace'
  BY <1>3, <1>4, <1>5 DEF TableInv, TableTypes, BarsAreFinal, CollectInPlace
<1>7. AnswerIsTrue' /\ ReplacementIsWhole' /\ PageJoins' /\ OneCommand'
  BY <1>1, <1>4 DEF AnswerIsTrue, ReplacementIsWhole, PageJoins, OneCommand, Idle
<1> QED
  BY <1>5, <1>6, <1>7 DEF TableInv, History

LEMMA StartBackfillStep ==
  ASSUME MayOverlap = FALSE, TableInv, StartBackfill
  PROVE  TableInv'
<1>1. collect = Idle /\ collect' = Idle /\ UNCHANGED <<exchange, candles>>
  BY DEF StartBackfill
<1>2. PICK order \in SetToSeqs(Symbols), floor \in Floors :
        backfill' = [stage |-> "next", todo |-> order, floor |-> floor]
  BY DEF StartBackfill
<1>3. order \in Seq(Symbols) /\ order # <<>> /\ floor \in Int \cup {None}
  BY OrderOfSymbols, DailyPricesAssumption
<1>4. backfill'.stage = "next" /\ backfill'.todo = order /\ backfill'.floor = floor
  BY <1>2
<1>5. History'
  BY <1>1, SameHistory DEF TableInv, History
<1>6. PageJoins'
  BY <1>3, <1>4 DEF PageJoins
<1>7. CollectInPlace' /\ AnswerIsTrue' /\ ReplacementIsWhole' /\ OneCommand'
  BY <1>1 DEF CollectInPlace, AnswerIsTrue, ReplacementIsWhole, OneCommand, Idle
<1> QED
  BY <1>5, <1>6, <1>7 DEF TableInv, History

\* A symbol that fails and a process that is killed leave the table as it is.
LEMMA CollectEndsStep ==
  ASSUME TableInv, CollectFails \/ CollectInterrupted \/ CollectDies
  PROVE  TableInv'
<1>1. collect # Idle /\ backfill = Idle /\ backfill' = Idle /\ UNCHANGED <<exchange, candles>>
  BY DEF CollectFails, CollectInterrupted, CollectDies, TableInv, OneCommand
<1>2. History' /\ \A t : Stored(t)' = Stored(t)
  BY <1>1, SameHistory DEF TableInv, History
<1>3. PageJoins' /\ OneCommand'
  BY <1>1 DEF PageJoins, OneCommand, Idle
<1>4. CollectInPlace' /\ AnswerIsTrue' /\ ReplacementIsWhole'
  <2>1. CASE CollectFails
    <3>1. ~collect.includeToday => \A t \in Symbols : day \notin Stored(t)'
      BY <1>1, <1>2 DEF TableInv, CollectInPlace
    <3> QED
      BY <1>1, <2>1, <3>1, AdvanceStep DEF CollectFails, TableInv
  <2>2. CASE CollectInterrupted \/ CollectDies
    BY <2>2 DEF CollectInterrupted, CollectDies, Ends, CollectInPlace, AnswerIsTrue, ReplacementIsWhole, Idle
  <2> QED
    BY <2>1, <2>2
<1> QED
  BY <1>2, <1>3, <1>4 DEF TableInv, History

LEMMA FillEndsStep ==
  ASSUME TableInv, FillFails \/ FillDies
  PROVE  TableInv'
<1>1. backfill # Idle /\ collect = Idle /\ collect' = Idle /\ UNCHANGED <<exchange, candles>>
  BY DEF FillFails, FillDies, TableInv, OneCommand
<1>2. History'
  BY <1>1, SameHistory DEF TableInv, History
<1>3. CollectInPlace' /\ AnswerIsTrue' /\ ReplacementIsWhole' /\ OneCommand'
  BY <1>1 DEF CollectInPlace, AnswerIsTrue, ReplacementIsWhole, OneCommand, Idle
<1>4. PageJoins'
  <2>1. CASE FillFails
    BY <1>1, <2>1, NextFillStep DEF FillFails, TableInv
  <2>2. CASE FillDies
    BY <2>2 DEF FillDies, PageJoins, Idle
  <2> QED
    BY <2>1, <2>2
<1> QED
  BY <1>2, <1>3, <1>4 DEF TableInv, History

LEMMA StutterStep ==
  ASSUME TableInv, UNCHANGED vars
  PROVE  TableInv'
BY DEF vars, exchange, TableInv, TableTypes, NoHoles, BarsAreFinal, OneCommand, CollectInPlace,
       AnswerIsTrue, ReplacementIsWhole, PageJoins, Stored, Collecting, Filling, Above

-----------------------------------------------------------------------------
(* The basis of the bars. *)

\* No bar is on a basis that is still to come.
BasisIsPast ==
  /\ basis \in [Symbols -> Nat] /\ notice \in [Symbols -> {"done", "due", "missed"}]
  /\ \A s \in Symbols : \A d \in Stored(s) :
       candles[s][d].basis \in Nat /\ candles[s][d].basis <= basis[s]

IsLast(s, d) == d \in Stored(s) /\ \A x \in Stored(s) : x <= d

\* If a bar before the last one is on another basis than the exchange, then the
\* overlap has such a bar, or no bar at all before the last one.
ActionShows ==
  \A s \in Symbols : notice[s] # "missed" => \A e \in Stored(s) : IsLast(s, e) =>
    \/ \A d \in Stored(s) : d < e => candles[s][d].basis = basis[s]
    \/ \E p \in Stored(s) : /\ p < e /\ e - p <= OverlapDays
                            /\ candles[s][p].basis # basis[s]
    \/ \A p \in Stored(s) : p < e => e - p > OverlapDays

\* A collection has bars of the present basis in memory.
AnswerIsCurrent ==
  /\ collect.stage = "fetched" =>
       /\ \A d \in DOMAIN collect.rows : collect.rows[d].basis = basis[Collecting]
       /\ Stored(Collecting) # {} => IsLast(Collecting, collect.last)
  /\ collect.stage = "refetched" =>
       \A d \in DOMAIN collect.rows : collect.rows[d].basis = basis[Collecting]

TableBasis == BasisIsPast /\ ActionShows /\ HistoryHasOneBasis

BasisInv == TableBasis /\ AnswerIsCurrent

LEMMA InitBasisInv == Init => BasisInv
<1> SUFFICES ASSUME Init PROVE BasisInv
  OBVIOUS
<1>1. \A s \in Symbols : Stored(s) = {}
  BY DEF Init, Stored
<1>2. BasisIsPast /\ ActionShows /\ HistoryHasOneBasis
  BY <1>1 DEF Init, BasisIsPast, ActionShows, HistoryHasOneBasis
<1>3. collect.stage = "idle"
  BY DEF Init, Idle
<1> QED
  BY <1>2, <1>3 DEF BasisInv, TableBasis, AnswerIsCurrent

\* Steps that leave the table, the basis and the symbols as they are.
LEMMA SameBasis ==
  ASSUME TableBasis, UNCHANGED <<day, traded, basis, candles, notice>>
  PROVE  TableBasis'
BY DEF TableBasis, BasisIsPast, ActionShows, HistoryHasOneBasis, IsLast, Stored

\* Overnight, a new basis shows on every stored bar.
LEMMA NextDayBasis ==
  ASSUME TableInv, BasisInv, NextDay
  PROVE  BasisInv'
<1>1. day' = day + 1 /\ collect = Idle /\ UNCHANGED <<candles, collect>>
  BY DEF NextDay
<1>2. PICK trading \in SUBSET Symbols, split \in SUBSET Symbols :
        /\ traded' = [s \in Symbols |->
             IF s \in trading THEN traded[s] \cup {day + 1} ELSE traded[s]]
        /\ basis' = [s \in Symbols |-> IF s \in split THEN basis[s] + 1 ELSE basis[s]]
        /\ notice' = [s \in Symbols |->
             IF s \in split /\ notice[s] = "done" THEN "due" ELSE notice[s]]
  BY DEF NextDay
<1>3. /\ day \in Nat /\ OverlapDays \in Nat /\ OverlapDays # 0
      /\ \A s \in Symbols : traded[s] \subseteq 0..day /\ Stored(s) \subseteq traded[s]
      /\ basis \in [Symbols -> Nat]
  BY DailyPricesAssumption DEF TableInv, TableTypes, BasisInv, TableBasis, BasisIsPast
<1>4. \A s : Stored(s)' = Stored(s)
  BY <1>1 DEF Stored
<1>5. \A s \in Symbols : basis'[s] = IF s \in split THEN basis[s] + 1 ELSE basis[s]
  BY <1>2
<1>7. BasisIsPast'
  <2>1. basis' \in [Symbols -> Nat]
    BY <1>2, <1>3
  <2>2. notice' \in [Symbols -> {"done", "due", "missed"}]
    <3>1. notice \in [Symbols -> {"done", "due", "missed"}]
      BY DEF BasisInv, TableBasis, BasisIsPast
    <3> QED
      BY <1>2, <3>1
  <2>3. ASSUME NEW s \in Symbols, NEW d \in Stored(s)
        PROVE  candles[s][d].basis \in Nat /\ candles[s][d].basis <= basis'[s]
    <3>1. candles[s][d].basis \in Nat /\ candles[s][d].basis <= basis[s]
      BY DEF BasisInv, TableBasis, BasisIsPast
    <3>2. basis[s] \in Nat /\ basis[s] <= basis'[s]
      BY <1>3, <1>5
    <3> QED
      BY <1>3, <1>5, <3>1, <3>2
  <2> QED
    BY <1>1, <1>4, <2>1, <2>2, <2>3 DEF BasisIsPast
<1>8. ActionShows'
  <2> SUFFICES ASSUME NEW s \in Symbols, notice'[s] # "missed",
                      NEW e \in Stored(s), IsLast(s, e)
               PROVE  \/ \A d \in Stored(s) : d < e => candles[s][d].basis = basis'[s]
                      \/ \E p \in Stored(s) : /\ p < e /\ e - p <= OverlapDays
                                              /\ candles[s][p].basis # basis'[s]
                      \/ \A p \in Stored(s) : p < e => e - p > OverlapDays
    BY <1>1, <1>4 DEF ActionShows, IsLast
  <2>1. CASE basis'[s] = basis[s]
    <3>1. notice[s] # "missed"
      BY <1>2
    <3> QED
      BY <2>1, <3>1 DEF BasisInv, TableBasis, ActionShows
  <2>2. CASE basis'[s] = basis[s] + 1
    <3>1. \A d \in Stored(s) : candles[s][d].basis # basis'[s]
      <4>1. basis[s] \in Nat
        BY <1>3
      <4>2. \A d \in Stored(s) : /\ candles[s][d].basis \in Nat
                                 /\ candles[s][d].basis <= basis[s]
        BY DEF BasisInv, TableBasis, BasisIsPast
      <4> QED
        BY <2>2, <4>1, <4>2
    <3>2. ASSUME NEW p \in Stored(s), p < e
          PROVE  e - p <= OverlapDays \/ e - p > OverlapDays
      <4>1. p \in Int /\ e \in Int /\ OverlapDays \in Int
        BY <1>3
      <4> QED
        BY <4>1
    <3> QED
      BY <3>1, <3>2
  <2> QED
    BY <1>5, <2>1, <2>2
<1>9. HistoryHasOneBasis'
  <2> SUFFICES ASSUME NEW s \in Symbols, notice'[s] = "done", NEW d \in Stored(s)
               PROVE  candles[s][d].basis = basis'[s]
    BY <1>1, <1>4 DEF HistoryHasOneBasis
  <2>1. notice[s] = "done" /\ s \notin split
    BY <1>2
  <2> QED
    BY <1>5, <2>1 DEF BasisInv, TableBasis, HistoryHasOneBasis
<1>10. AnswerIsCurrent'
  BY <1>1 DEF AnswerIsCurrent, Idle
<1> QED
  BY <1>7, <1>8, <1>9, <1>10 DEF BasisInv, TableBasis

\* All rows of a symbol are on the present basis after a collection that had
\* something to compare.
LEMMA HealStep ==
  ASSUME TableInv, BasisInv, NEW s \in Symbols, NEW rows, NEW k \in {"done", "missed"},
         UNCHANGED exchange, candles' = [candles EXCEPT ![s] = rows],
         notice' = [notice EXCEPT ![s] = k],
         \A d \in DOMAIN rows : rows[d].basis \in Nat /\ rows[d].basis <= basis[s],
         k = "done" => \A d \in DOMAIN rows : rows[d].basis = basis[s]
  PROVE  TableBasis'
<1>1. UNCHANGED <<day, traded, basis>>
  BY DEF exchange
<1>2. candles'[s] = rows /\ \A t \in Symbols \ {s} : candles'[t] = candles[t]
  BY DEF TableInv, TableTypes
<1>3. Stored(s)' = DOMAIN rows /\ \A t \in Symbols \ {s} : Stored(t)' = Stored(t)
  BY <1>2 DEF Stored
<1>5. basis \in [Symbols -> Nat] /\ notice \in [Symbols -> {"done", "due", "missed"}]
  BY DEF BasisInv, TableBasis, BasisIsPast
<1>6. /\ notice' \in [Symbols -> {"done", "due", "missed"}] /\ notice'[s] = k
      /\ \A t \in Symbols \ {s} : notice'[t] = notice[t]
  BY <1>5
<1>7. BasisIsPast'
  <2>1. ASSUME NEW t \in Symbols, NEW d \in Stored(t)'
        PROVE  candles'[t][d].basis \in Nat /\ candles'[t][d].basis <= basis[t]
    <3>1. basis[t] \in Nat
      BY <1>5
    <3>2. CASE t = s
      BY <1>2, <1>3, <2>1, <3>1, <3>2
    <3>3. CASE t # s
      BY <1>2, <1>3, <2>1, <3>3 DEF BasisInv, TableBasis, BasisIsPast
    <3> QED
      BY <3>2, <3>3
  <2> QED
    BY <1>1, <1>5, <1>6, <2>1 DEF BasisIsPast
<1>8. ActionShows'
  <2> SUFFICES ASSUME NEW t \in Symbols, notice'[t] # "missed",
                      NEW e \in Stored(t)', IsLast(t, e)'
               PROVE  \/ \A d \in Stored(t)' : d < e => candles'[t][d].basis = basis[t]
                      \/ \E p \in Stored(t)' : /\ p < e /\ e - p <= OverlapDays
                                               /\ candles'[t][p].basis # basis[t]
                      \/ \A p \in Stored(t)' : p < e => e - p > OverlapDays
    BY <1>1 DEF ActionShows
  <2>1. CASE t = s
    BY <1>2, <1>3, <1>6, <2>1
  <2>2. CASE t # s
    <3>1. e \in Stored(t) /\ IsLast(t, e)
      BY <1>3, <2>2 DEF IsLast
    <3> QED
      BY <1>2, <1>3, <1>6, <2>2, <3>1 DEF BasisInv, TableBasis, ActionShows
  <2> QED
    BY <2>1, <2>2
<1>9. HistoryHasOneBasis'
  <2> SUFFICES ASSUME NEW t \in Symbols, notice'[t] = "done", NEW d \in Stored(t)'
               PROVE  candles'[t][d].basis = basis[t]
    BY <1>1 DEF HistoryHasOneBasis
  <2>1. CASE t = s
    BY <1>2, <1>3, <1>6, <2>1
  <2>2. CASE t # s
    BY <1>2, <1>3, <1>6, <2>2 DEF BasisInv, TableBasis, HistoryHasOneBasis
  <2> QED
    BY <2>1, <2>2
<1> QED
  BY <1>7, <1>8, <1>9 DEF TableBasis

\* After a symbol, nothing of it is left in memory.
LEMMA AdvanceForgets ==
  ASSUME NEW failures, NEW streak, Advance(failures, streak)
  PROVE  AnswerIsCurrent'
BY DEF Advance, Ends, AnswerIsCurrent, Idle

\* Nothing in the overlap was restated, hence nothing before it: only the last
\* bar can be of the basis before, and it is stored anew.  Without a bar to
\* compare nothing is known, and the symbol counts as one whose action was missed.
LEMMA StoreNewBasis ==
  ASSUME TableInv, BasisInv, StoreNew
  PROVE  BasisInv'
<1>1. collect # Idle /\ UNCHANGED exchange
  BY DEF StoreNew, Idle
<1>2. PICK s \in Symbols : s = Collecting
  BY <1>1, CollectingIsSymbol
<1> DEFINE kept == KeepFinal(collect.rows, collect.today, collect.includeToday)
           rows == [d \in DOMAIN kept \cup Stored(s) |->
                      IF d \in DOMAIN kept THEN kept[d] ELSE candles[s][d]]
           last == collect.last
           k == AfterSuccess(s)
<1>3. candles' = [candles EXCEPT ![s] = rows] /\ notice' = [notice EXCEPT ![s] = k]
  BY <1>2 DEF StoreNew, Upsert
<1>4. /\ collect.today = day /\ collect.includeToday \in BOOLEAN
      /\ IF collect.includeToday THEN final ELSE \A t \in Symbols : day \notin Stored(t)
  BY <1>1 DEF TableInv, CollectInPlace
<1>5. /\ Stored(s) # {} => last \in Stored(s)
      /\ DOMAIN collect.rows = {d \in traded[s] : FetchFrom(last, day) <= d /\ d <= day}
  BY <1>2 DEF StoreNew, TableInv, AnswerIsTrue
<1>6. /\ \A d \in DOMAIN collect.rows : collect.rows[d].basis = basis[s]
      /\ Stored(s) # {} => IsLast(s, last)
  BY <1>2 DEF StoreNew, BasisInv, AnswerIsCurrent
<1>7. /\ DOMAIN kept = {d \in DOMAIN collect.rows : collect.includeToday \/ d < day}
      /\ \A d \in DOMAIN kept : kept[d] = collect.rows[d]
  BY <1>4 DEF KeepFinal, Restrict
<1>8. /\ Stored(s) \subseteq traded[s] /\ traded[s] \subseteq 0..day /\ day \in Nat
      /\ OverlapDays \in Nat
  BY DailyPricesAssumption DEF TableInv, TableTypes
<1> HIDE DEF kept
<1>13. /\ notice[s] \in {"done", "due", "missed"} /\ k \in {"done", "missed"}
       /\ k = "done" => notice[s] = "done" \/ (notice[s] = "due" /\ ~NothingToCompare(s))
  BY DEF BasisInv, TableBasis, BasisIsPast, AfterSuccess
<1> HIDE DEF k
<1>9. ASSUME NEW d \in Stored(s), d \notin DOMAIN kept, k = "done"
      PROVE  candles[s][d].basis = basis[s]
  <2>1. last \in 0..day /\ last \in Stored(s) /\ IsLast(s, last) /\ last # None
    BY <1>5, <1>6, <1>8, DailyPricesAssumption
  <2>2. FetchFrom(last, day) = last - OverlapDays
    BY <2>1 DEF FetchFrom
  <2>3. last \in DOMAIN collect.rows
    BY <1>5, <1>8, <2>1, <2>2
  <2>4. last \in DOMAIN kept
    BY <1>2, <1>4, <1>7, <1>8, <2>1, <2>3
  <2>5. d \in 0..day /\ d < last
    BY <1>8, <1>9, <2>1, <2>4 DEF IsLast
  <2>6. ~WasAdjusted(s, collect.rows, day, last)
    BY <1>2, <1>4, <2>1 DEF StoreNew, Adjusted
  <2>7. ASSUME NEW p \in Stored(s), p < last, last - p <= OverlapDays
        PROVE  candles[s][p].basis = basis[s]
    <3>1. p \in 0..day /\ p \in DOMAIN collect.rows
      BY <1>5, <1>8, <2>1, <2>2, <2>7
    <3>2. day \in Int /\ last \in Int /\ p < day
      BY <1>8, <2>1, <2>7, <3>1
    <3>3. Min({day, last}) = IF day <= last THEN day ELSE last
      BY <3>2, MinOfTwo, Zenon
    <3>4. p < Min({day, last})
      BY <2>7, <3>2, <3>3
    <3>5. candles[s][p] = collect.rows[p]
      BY <2>6, <3>1, <3>4 DEF WasAdjusted, Stored
    <3> QED
      BY <1>6, <3>1, <3>5
  <2>8. CASE notice[s] = "done"
    BY <2>8 DEF BasisInv, TableBasis, HistoryHasOneBasis
  <2>9. CASE ~NothingToCompare(s) /\ notice[s] # "missed"
    <3>1. ~ \A p \in Stored(s) : p < last => last - p > OverlapDays
      BY <1>9, <2>1, <2>5, <2>9 DEF NothingToCompare, IsLast
    <3>2. \A x \in Stored(s) : x < last => candles[s][x].basis = basis[s]
      BY <2>1, <2>7, <2>9, <3>1 DEF BasisInv, TableBasis, ActionShows
    <3> QED
      BY <2>5, <3>2
  <2> QED
    BY <1>9, <1>13, <2>8, <2>9
<1>10. ASSUME NEW d \in DOMAIN rows
       PROVE  /\ rows[d].basis \in Nat
              /\ rows[d].basis <= basis[s]
              /\ k = "done" => rows[d].basis = basis[s]
  <2>1. basis[s] \in Nat /\ basis[s] <= basis[s]
    BY DEF BasisInv, TableBasis, BasisIsPast
  <2>2. CASE d \in DOMAIN kept
    BY <1>6, <1>7, <2>1, <2>2
  <2>3. CASE d \notin DOMAIN kept
    <3>1. d \in Stored(s) /\ rows[d] = candles[s][d]
      BY <2>3
    <3>2. candles[s][d].basis \in Nat /\ candles[s][d].basis <= basis[s]
      BY <3>1 DEF BasisInv, TableBasis, BasisIsPast
    <3> QED
      BY <1>9, <2>3, <3>1, <3>2
  <2> QED
    BY <2>2, <2>3
<1> HIDE DEF rows
<1>11. TableBasis'
  BY <1>1, <1>3, <1>10, <1>13, HealStep
<1>12. AnswerIsCurrent'
  BY AdvanceForgets DEF StoreNew
<1> QED
  BY <1>11, <1>12 DEF BasisInv

LEMMA ReplaceBasis ==
  ASSUME TableInv, BasisInv, Replace
  PROVE  BasisInv'
<1>1. collect # Idle /\ UNCHANGED exchange
  BY DEF Replace, Idle
<1>2. PICK s \in Symbols : s = Collecting
  BY <1>1, CollectingIsSymbol
<1>3. /\ candles' = [candles EXCEPT ![s] = collect.rows]
      /\ notice' = [notice EXCEPT ![s] = "done"]
  BY <1>2 DEF Replace
<1>4. /\ \A d \in DOMAIN collect.rows : collect.rows[d].basis = basis[s]
      /\ basis[s] \in Nat /\ basis[s] <= basis[s]
  BY <1>2 DEF Replace, BasisInv, AnswerIsCurrent, TableBasis, BasisIsPast
<1>5. TableBasis'
  BY <1>1, <1>3, <1>4, HealStep
<1>6. AnswerIsCurrent'
  BY AdvanceForgets DEF Replace
<1> QED
  BY <1>5, <1>6 DEF BasisInv

\* A page is before all stored bars, and on the present basis.
LEMMA FillPageBasis ==
  ASSUME TableInv, BasisInv, FillPage
  PROVE  BasisInv'
<1>1. backfill # Idle /\ collect = Idle /\ UNCHANGED <<exchange, collect, notice>>
  BY DEF FillPage, Idle, TableInv, OneCommand
<1>2. PICK s \in Symbols : s = Filling
  BY <1>1, FillingIsSymbol
<1> DEFINE cursor == backfill.cursor
           window == cursor - WindowDays + 1
           first == IF backfill.floor = None THEN window ELSE Max({window, backfill.floor})
           page == Quote(s, first, cursor)
           rows == [d \in DOMAIN page \cup Stored(s) |->
                      IF d \in DOMAIN page THEN page[d] ELSE candles[s][d]]
<1>3. candles' = [candles EXCEPT ![s] = rows]
  BY <1>2 DEF FillPage, Upsert
<1>4. /\ cursor \in Int /\ Stored(s) # {} /\ \A e \in Stored(s) : cursor < e
  BY <1>2 DEF FillPage, TableInv, PageJoins
<1>5. \A d \in DOMAIN page : /\ d \in traded[s] /\ d <= cursor
                             /\ page[d].basis = basis[s]
  BY DEF Quote
<1>6. /\ Stored(s) \subseteq traded[s] /\ traded[s] \subseteq 0..day /\ day \in Nat
  BY DEF TableInv, TableTypes
<1> HIDE DEF page, cursor
<1>7. UNCHANGED <<day, traded, basis>>
  BY <1>1 DEF exchange
<1>8. \A d \in DOMAIN page, e \in Stored(s) : d < e
  BY <1>4, <1>5, <1>6
<1>9. DOMAIN rows = DOMAIN page \cup Stored(s)
  OBVIOUS
<1>10. /\ \A d \in DOMAIN page : rows[d].basis = basis[s]
       /\ \A d \in Stored(s) : rows[d] = candles[s][d]
  <2>1. \A d \in Stored(s) : d \notin DOMAIN page
    BY <1>6, <1>8
  <2>2. \A d \in DOMAIN page : rows[d] = page[d]
    OBVIOUS
  <2> QED
    BY <1>5, <1>9, <2>1, <2>2
<1> HIDE DEF rows
<1>11. candles'[s] = rows /\ \A t \in Symbols \ {s} : candles'[t] = candles[t]
  BY <1>3 DEF TableInv, TableTypes
<1>12. Stored(s)' = DOMAIN rows /\ \A t \in Symbols \ {s} : Stored(t)' = Stored(t)
  BY <1>11 DEF Stored
<1>14. BasisIsPast'
  <2>1. ASSUME NEW t \in Symbols, NEW d \in Stored(t)'
        PROVE  candles'[t][d].basis \in Nat /\ candles'[t][d].basis <= basis[t]
    <3>1. basis[t] \in Nat /\ \A x \in Stored(t) :
            candles[t][x].basis \in Nat /\ candles[t][x].basis <= basis[t]
      BY DEF BasisInv, TableBasis, BasisIsPast
    <3>2. CASE t = s
      BY <1>9, <1>10, <1>11, <1>12, <2>1, <3>1, <3>2
    <3>3. CASE t # s
      BY <1>11, <1>12, <2>1, <3>1, <3>3
    <3> QED
      BY <3>2, <3>3
  <2> QED
    BY <1>1, <1>7, <2>1 DEF BasisInv, TableBasis, BasisIsPast
<1>15. ActionShows'
  <2> SUFFICES ASSUME NEW t \in Symbols, notice[t] # "missed",
                      NEW e \in Stored(t)', IsLast(t, e)'
               PROVE  \/ \A d \in Stored(t)' : d < e => candles'[t][d].basis = basis[t]
                      \/ \E p \in Stored(t)' : /\ p < e /\ e - p <= OverlapDays
                                               /\ candles'[t][p].basis # basis[t]
                      \/ \A p \in Stored(t)' : p < e => e - p > OverlapDays
    BY <1>1, <1>7 DEF ActionShows
  <2>1. CASE t = s
    <3>1. e \in DOMAIN rows /\ \A x \in DOMAIN rows : x <= e
      BY <1>12, <2>1 DEF IsLast
    <3>2. e \in Stored(s)
      <4>1. PICK x \in Stored(s) : TRUE
        BY <1>4
      <4>2. x <= e /\ x \in 0..day
        BY <1>6, <1>9, <3>1
      <4>3. e \notin DOMAIN page
        <5> SUFFICES ASSUME e \in DOMAIN page PROVE FALSE
          OBVIOUS
        <5>1. e < x /\ e \in 0..day
          BY <1>5, <1>6, <1>8
        <5> QED
          BY <4>2, <5>1
      <4> QED
        BY <1>9, <3>1, <4>3
    <3>3. IsLast(s, e)
      BY <1>9, <3>1, <3>2 DEF IsLast
    <3>4. CASE \A d \in Stored(s) : d < e => candles[s][d].basis = basis[s]
      BY <1>9, <1>10, <1>11, <1>12, <2>1, <3>4
    <3>5. CASE \E p \in Stored(s) : /\ p < e /\ e - p <= OverlapDays
                                    /\ candles[s][p].basis # basis[s]
      BY <1>9, <1>10, <1>11, <1>12, <2>1, <3>5
    <3>6. CASE (\A p \in Stored(s) : p < e => e - p > OverlapDays) /\ \E x \in Stored(s) : x < e
      <4>1. PICK x \in Stored(s) : x < e
        BY <3>6
      <4>2. e \in Int /\ x \in Int /\ OverlapDays \in Int /\ e - x > OverlapDays
        BY <1>6, <3>2, <3>6, <4>1, DailyPricesAssumption
      <4>3. ASSUME NEW p \in DOMAIN page
            PROVE  e - p > OverlapDays
        <5>1. p < x /\ p \in Int
          BY <1>5, <1>6, <1>8
        <5> QED
          BY <4>2, <5>1
      <4> QED
        BY <1>9, <1>12, <2>1, <3>6, <4>3
    <3>7. CASE \A x \in Stored(s) : ~(x < e)
      BY <1>9, <1>10, <1>11, <1>12, <2>1, <3>7
    <3> QED
      BY <2>1, <3>2, <3>3, <3>4, <3>5, <3>6, <3>7 DEF BasisInv, TableBasis, ActionShows
  <2>2. CASE t # s
    <3>1. e \in Stored(t) /\ IsLast(t, e)
      BY <1>12, <2>2 DEF IsLast
    <3> QED
      BY <1>11, <1>12, <2>2, <3>1 DEF BasisInv, TableBasis, ActionShows
  <2> QED
    BY <2>1, <2>2
<1>16. HistoryHasOneBasis'
  <2> SUFFICES ASSUME NEW t \in Symbols, notice[t] = "done", NEW d \in Stored(t)'
               PROVE  candles'[t][d].basis = basis[t]
    BY <1>1, <1>7 DEF HistoryHasOneBasis
  <2>1. \A x \in Stored(t) : candles[t][x].basis = basis[t]
    BY DEF BasisInv, TableBasis, HistoryHasOneBasis
  <2>2. CASE t = s
    BY <1>9, <1>10, <1>11, <1>12, <2>1, <2>2
  <2>3. CASE t # s
    BY <1>11, <1>12, <2>1, <2>3
  <2> QED
    BY <2>2, <2>3
<1>17. AnswerIsCurrent'
  BY <1>1 DEF AnswerIsCurrent, Idle
<1> QED
  BY <1>14, <1>15, <1>16, <1>17 DEF BasisInv, TableBasis

LEMMA FetchNewBasis ==
  ASSUME TableInv, BasisInv, FetchNew
  PROVE  BasisInv'
<1>1. collect # Idle /\ UNCHANGED <<exchange, candles, notice>>
  BY DEF FetchNew, Idle
<1>2. PICK s \in Symbols : s = Collecting
  BY <1>1, CollectingIsSymbol
<1> DEFINE read == Quote(s, FetchFrom(LastStored(s), collect.today), collect.today)
<1>3. collect' = [stage |-> "fetched", today |-> collect.today,
                  includeToday |-> collect.includeToday, todo |-> collect.todo,
                  failures |-> collect.failures, streak |-> collect.streak,
                  last |-> LastStored(s), rows |-> read]
  BY <1>2 DEF FetchNew
<1>4. \A d \in DOMAIN read : read[d].basis = basis[s]
  BY DEF Quote
<1> HIDE DEF read
<1>5. /\ collect'.stage = "fetched" /\ collect'.rows = read /\ collect'.last = LastStored(s)
      /\ collect'.todo = collect.todo
  BY <1>3
<1>6. Collecting' = s /\ UNCHANGED <<day, traded, basis>> /\ \A t : Stored(t)' = Stored(t)
  BY <1>1, <1>2, <1>5 DEF Collecting, exchange, Stored
<1>7. Stored(s) # {} => IsLast(s, LastStored(s))
  BY EndsOfHistory DEF TableInv, IsLast
<1>8. Stored(s)' # {} => IsLast(s, LastStored(s))
  BY <1>6, <1>7
<1>9. AnswerIsCurrent'
  <2>1. (Stored(Collecting) # {} => IsLast(Collecting, collect.last))'
    <3>1. Stored(Collecting)' = Stored(s)
      BY <1>1, <1>6 DEF Stored
    <3> QED
      BY <1>5, <1>6, <1>7, <3>1 DEF IsLast
  <2> QED
    BY <1>4, <1>5, <1>6, <2>1 DEF AnswerIsCurrent
<1>10. TableBasis'
  BY <1>1, <1>6, SameBasis DEF BasisInv
<1> QED
  BY <1>9, <1>10 DEF BasisInv

LEMMA FetchAgainBasis ==
  ASSUME TableInv, BasisInv, FetchAgain
  PROVE  BasisInv'
<1>1. collect # Idle /\ UNCHANGED <<exchange, candles, notice>>
  BY DEF FetchAgain, Idle
<1>2. PICK s \in Symbols : s = Collecting
  BY <1>1, CollectingIsSymbol
<1> DEFINE read == Quote(s, RefetchFrom(FirstStored(s), collect.today), collect.today)
           rows == KeepFinal(read, collect.today, collect.includeToday)
<1>3. \A d \in DOMAIN rows : rows[d].basis = basis[s]
  <2>1. \A d \in DOMAIN read : read[d].basis = basis[s]
    BY DEF Quote
  <2> HIDE DEF read
  <2> QED
    BY <2>1 DEF KeepFinal, Restrict
<1>4. collect'.stage = "refetched" /\ collect'.rows = rows /\ collect'.todo = collect.todo
  <2>1. collect = [stage |-> "fetched", today |-> collect.today,
                   includeToday |-> collect.includeToday, todo |-> collect.todo,
                   failures |-> collect.failures, streak |-> collect.streak,
                   last |-> collect.last, rows |-> collect.rows]
    BY DEF FetchAgain, TableInv, AnswerIsTrue
  <2>2. collect' = [collect EXCEPT !.stage = "refetched", !.rows = rows]
    BY <1>2 DEF FetchAgain
  <2> HIDE DEF rows
  <2> QED
    BY <2>1, <2>2
<1> HIDE DEF rows
<1>5. Collecting' = s /\ UNCHANGED <<day, traded, basis>>
  BY <1>1, <1>2, <1>4 DEF Collecting, exchange
<1>6. AnswerIsCurrent'
  BY <1>3, <1>4, <1>5 DEF AnswerIsCurrent
<1>7. TableBasis'
  BY <1>1, <1>5, SameBasis DEF BasisInv
<1> QED
  BY <1>6, <1>7 DEF BasisInv

\* Steps that touch neither the table nor what a collection has read.
LEMMA OtherBasis ==
  ASSUME BasisInv, UNCHANGED <<day, traded, basis, candles, notice>>,
         UNCHANGED collect \/ AnswerIsCurrent'
  PROVE  BasisInv'
<1>1. TableBasis'
  BY SameBasis DEF BasisInv
<1>2. UNCHANGED collect => AnswerIsCurrent'
  BY DEF BasisInv, AnswerIsCurrent, Collecting, IsLast, Stored
<1> QED
  BY <1>1, <1>2 DEF BasisInv

-----------------------------------------------------------------------------
(* What a collection has stored when it reports success. *)

\* The finished bars in the lookback of a day.
Wanted(bars, on, whole) ==
  {d \in bars : d <= on /\ (d < on \/ whole) /\ d >= on - LookbackDays}

\* Within the lookback of today no bar before a stored one is missing: what a
\* first collection left out is too old for any later one.
RecentIsStored ==
  \A s \in Symbols : \A e \in Stored(s), d \in traded[s] :
    d >= day - LookbackDays /\ d < e => d \in Stored(s)

Pending(todo, s) == \E i \in DOMAIN todo : todo[i] = s

\* Without a failure so far, the symbols that are done are collected.
Tally ==
  collect # Idle =>
    /\ collect.failures \in Nat /\ collect.streak \in Nat
    /\ collect.streak < MaxConsecutive
    /\ collect.failures = 0 =>
         \A s \in Symbols :
           \/ Pending(collect.todo, s)
           \/ Wanted(traded[s], collect.today, collect.includeToday) \subseteq Stored(s)

ReplacementReaches ==
  collect.stage = "refetched" =>
    Wanted(traded[Collecting], collect.today, collect.includeToday)
      \subseteq DOMAIN collect.rows

ExitIsTrue ==
  exit # None =>
    /\ exit.on \in Nat /\ exit.on <= day
    /\ exit.code = 0 /\ exit.done # FALSE =>
         \A s \in Symbols : Wanted(traded[s], exit.on, exit.whole) \subseteq Stored(s)

CollectedInv == RecentIsStored /\ Tally /\ ReplacementReaches /\ ExitIsTrue

LEMMA SameCollected ==
  ASSUME CollectedInv, UNCHANGED <<day, traded, candles, collect, exit>>
  PROVE  CollectedInv'
BY DEF CollectedInv, RecentIsStored, Tally, ReplacementReaches, ExitIsTrue, Stored, Collecting

\* Of what is pending only the head is done with.
LEMMA PendingInTail ==
  ASSUME NEW todo \in Seq(Symbols), todo # <<>>, NEW s, Pending(todo, s), s # Head(todo)
  PROVE  Pending(Tail(todo), s)
<1>1. PICK i \in DOMAIN todo : todo[i] = s
  BY DEF Pending
<1>2. i # 1
  BY <1>1
<1>3. i - 1 \in DOMAIN Tail(todo) /\ Tail(todo)[i - 1] = todo[i]
  BY <1>2
<1> QED
  BY <1>1, <1>3 DEF Pending

\* The end of a symbol; the command ends without a failure only when nothing is
\* pending.
LEMMA SymbolIsDone ==
  ASSUME TableInv, CollectedInv, collect # Idle, NEW c \in Symbols, c = Collecting,
         NEW failures \in Nat, NEW streak \in Nat, Advance(failures, streak),
         UNCHANGED <<day, traded>>,
         failures = 0 => /\ streak = 0 /\ collect.failures = 0
                         /\ Wanted(traded[c], day, collect.includeToday) \subseteq Stored(c)',
         \A s \in Symbols : Stored(s) \subseteq Stored(s)'
  PROVE  Tally' /\ ReplacementReaches' /\ ExitIsTrue'
<1> DEFINE left == Tail(collect.todo)
           whole == collect.includeToday
<1>1. /\ collect.today = day /\ day \in Nat
      /\ collect.todo \in Seq(Symbols) /\ collect.todo # <<>>
      /\ MaxConsecutive \in Nat \ {0}
  BY DailyPricesAssumption DEF TableInv, CollectInPlace, TableTypes
<1>2. ASSUME NEW s \in Symbols, failures = 0
      PROVE  Pending(left, s) \/ Wanted(traded[s], day, whole) \subseteq Stored(s)'
  <2>1. Pending(collect.todo, s) \/ Wanted(traded[s], day, whole) \subseteq Stored(s)
    BY <1>1, <1>2 DEF CollectedInv, Tally
  <2>2. CASE s = c
    BY <1>2, <2>2
  <2>3. CASE s # c /\ Pending(collect.todo, s)
    BY <1>1, <2>3, PendingInTail DEF Collecting
  <2>4. CASE Wanted(traded[s], day, whole) \subseteq Stored(s)
    <3>1. Stored(s) \subseteq Stored(s)'
      OBVIOUS
    <3> QED
      BY <2>4, <3>1
  <2> QED
    BY <2>1, <2>2, <2>3, <2>4
<1> HIDE DEF whole
<1>3. CASE left = <<>> \/ streak >= MaxConsecutive
  <2>1. /\ collect' = Idle
        /\ exit' = [code |-> ExitCode(failures, streak), on |-> day, whole |-> whole,
                    done |-> TRUE]
    BY <1>1, <1>3 DEF Advance, Ends, whole
  <2>2. exit'.on = day /\ exit'.whole = whole /\ exit'.code = ExitCode(failures, streak)
    BY <2>1
  <2>3. ASSUME NEW s \in Symbols, ExitCode(failures, streak) = 0
        PROVE  Wanted(traded[s], day, whole) \subseteq Stored(s)'
    <3>1. failures = 0 /\ streak = 0
      BY <2>3 DEF ExitCode
    <3>2. left = <<>>
      BY <1>1, <1>3, <3>1
    <3>3. ~Pending(left, s)
      BY <3>2 DEF Pending
    <3> QED
      BY <1>2, <3>1, <3>3
  <2>4. ExitIsTrue'
    <3>1. exit'.on \in Nat /\ exit'.on <= day'
      BY <1>1, <2>2
    <3>2. ASSUME NEW s \in Symbols, exit'.code = 0
          PROVE  Wanted(traded'[s], exit'.on, exit'.whole) \subseteq Stored(s)'
      BY <2>2, <2>3, <3>2
    <3> QED
      BY <3>1, <3>2, Zenon DEF ExitIsTrue
  <2> QED
    BY <2>1, <2>4 DEF Tally, ReplacementReaches, Idle
<1>4. CASE ~ (left = <<>> \/ streak >= MaxConsecutive)
  <2>1. /\ collect' = [stage |-> "next", today |-> day, includeToday |-> whole,
                       todo |-> left, failures |-> failures, streak |-> streak]
        /\ exit' = exit
    BY <1>1, <1>4 DEF Advance, whole
  <2> HIDE DEF left
  <2>2. /\ collect'.stage = "next" /\ collect'.today = day /\ collect'.includeToday = whole
        /\ collect'.todo = left /\ collect'.failures = failures /\ collect'.streak = streak
    BY <2>1
  <2>3. Tally'
    BY <1>1, <1>2, <1>4, <2>2 DEF Tally
  <2>4. ExitIsTrue'
    <3>1. ASSUME NEW s \in Symbols, exit # None, exit.code = 0, exit.done # FALSE
          PROVE  Wanted(traded[s], exit.on, exit.whole) \subseteq Stored(s)'
      <4>1. Wanted(traded[s], exit.on, exit.whole) \subseteq Stored(s)
        BY <3>1 DEF CollectedInv, ExitIsTrue
      <4>2. Stored(s) \subseteq Stored(s)'
        OBVIOUS
      <4> QED
        BY <4>1, <4>2
    <3> QED
      BY <2>1, <3>1 DEF CollectedInv, ExitIsTrue
  <2> QED
    BY <2>2, <2>3, <2>4 DEF ReplacementReaches
<1> QED
  BY <1>3, <1>4

LEMMA InitCollected == Init => CollectedInv
BY DEF Init, CollectedInv, RecentIsStored, Tally, ReplacementReaches, ExitIsTrue, Stored, Idle

LEMMA NextDayCollected ==
  ASSUME TableInv, CollectedInv, NextDay
  PROVE  CollectedInv'
<1>1. /\ day' = day + 1 /\ collect = Idle /\ UNCHANGED <<candles, collect, exit>>
  BY DEF NextDay
<1>2. PICK trading \in SUBSET Symbols :
        traded' = [s \in Symbols |->
          IF s \in trading THEN traded[s] \cup {day + 1} ELSE traded[s]]
  BY DEF NextDay
<1>3. /\ day \in Nat /\ LookbackDays \in Nat
      /\ \A s \in Symbols : traded[s] \subseteq 0..day /\ Stored(s) \subseteq traded[s]
  BY DailyPricesAssumption DEF TableInv, TableTypes
<1>4. \A s : Stored(s)' = Stored(s)
  BY <1>1 DEF Stored
<1>5. \A s \in Symbols : \A d \in traded'[s] : d \in traded[s] \/ d = day + 1
  BY <1>2
<1>6. RecentIsStored'
  <2> SUFFICES ASSUME NEW s \in Symbols, NEW e \in Stored(s), NEW d \in traded'[s],
                      d >= day + 1 - LookbackDays, d < e
               PROVE  d \in Stored(s)
    BY <1>1, <1>3, <1>4 DEF RecentIsStored
  <2>1. e \in 0..day
    BY <1>3
  <2>2. d \in traded[s] /\ d \in 0..day
    BY <1>3, <1>5, <2>1
  <2>3. d >= day - LookbackDays
    BY <1>3, <2>2
  <2> QED
    BY <2>2, <2>3 DEF CollectedInv, RecentIsStored
<1>7. ExitIsTrue'
  <2> SUFFICES ASSUME exit # None
               PROVE  /\ exit.on \in Nat /\ exit.on <= day + 1
                      /\ exit.code = 0 /\ exit.done # FALSE => \A s \in Symbols :
                           Wanted(traded'[s], exit.on, exit.whole) \subseteq Stored(s)
    BY <1>1, <1>4 DEF ExitIsTrue
  <2>1. exit.on \in Nat /\ exit.on <= day
    BY DEF CollectedInv, ExitIsTrue
  <2>2. \A s \in Symbols : Wanted(traded'[s], exit.on, exit.whole)
                             \subseteq Wanted(traded[s], exit.on, exit.whole)
    BY <1>3, <1>5, <2>1 DEF Wanted
  <2>3. ASSUME NEW s \in Symbols, exit.code = 0, exit.done # FALSE
        PROVE  Wanted(traded'[s], exit.on, exit.whole) \subseteq Stored(s)
    <3>1. Wanted(traded[s], exit.on, exit.whole) \subseteq Stored(s)
      BY <2>3 DEF CollectedInv, ExitIsTrue
    <3> QED
      BY <2>2, <3>1
  <2>4. exit.on <= day + 1
    BY <1>3, <2>1
  <2> QED
    BY <2>1, <2>3, <2>4
<1> QED
  BY <1>1, <1>6, <1>7 DEF CollectedInv, Tally, ReplacementReaches, Idle

\* At first every symbol is pending.
LEMMA AllArePending ==
  ASSUME NEW order \in SetToSeqs(Symbols), NEW s \in Symbols
  PROVE  Pending(order, s)
<1> DEFINE n == Cardinality(Symbols)
<1>1. n \in Nat /\ IsFiniteSet(Symbols)
  BY DailyPricesAssumption, FS_CardinalityType
<1>2. order \in [1..n -> Symbols] /\ \A i, j \in 1..n : i # j => order[i] # order[j]
  BY DEF SetToSeqs
<1>3. order \in Injection(1..n, Symbols)
  BY <1>2 DEF Injection, IsInjective
<1>4. Cardinality(1..n) = n
  BY <1>1, FS_Interval
<1> HIDE DEF n
<1>5. order \in Surjection(1..n, Symbols)
  BY <1>1, <1>3, <1>4, FS_Injection DEF n
<1>6. \E i \in 1..n : order[i] = s
  BY <1>5 DEF Surjection
<1> QED
  BY <1>2, <1>6 DEF Pending

LEMMA StartCollectCollected ==
  ASSUME TableInv, CollectedInv, StartCollect
  PROVE  CollectedInv'
<1>1. UNCHANGED <<exchange, candles, exit>>
  BY DEF StartCollect
<1>2. PICK order \in SetToSeqs(Symbols) :
        collect' = [stage |-> "next", today |-> day, includeToday |-> final,
                    todo |-> order, failures |-> 0, streak |-> 0]
  BY DEF StartCollect
<1>3. /\ collect'.stage = "next" /\ collect'.todo = order /\ collect'.failures = 0
      /\ collect'.streak = 0
  BY <1>2
<1>4. \A s \in Symbols : Pending(order, s)
  BY AllArePending
<1>5. Tally'
  BY <1>3, <1>4, DailyPricesAssumption DEF Tally
<1>6. RecentIsStored' /\ ExitIsTrue'
  BY <1>1 DEF CollectedInv, RecentIsStored, ExitIsTrue, Stored, exchange
<1> QED
  BY <1>3, <1>5, <1>6 DEF CollectedInv, ReplacementReaches

\* A collection goes on with the same symbols.
LEMMA FetchedCollected ==
  ASSUME TableInv, CollectedInv, collect # Idle, UNCHANGED <<exchange, candles, exit>>,
         collect'.today = collect.today, collect'.includeToday = collect.includeToday,
         collect'.todo = collect.todo, collect'.failures = collect.failures,
         collect'.streak = collect.streak, ReplacementReaches'
  PROVE  CollectedInv'
<1>1. UNCHANGED <<day, traded>> /\ \A s : Stored(s)' = Stored(s)
  BY DEF exchange, Stored
<1>2. RecentIsStored' /\ ExitIsTrue'
  BY <1>1 DEF CollectedInv, RecentIsStored, ExitIsTrue
<1>3. Tally'
  BY <1>1 DEF CollectedInv, Tally
<1> QED
  BY <1>2, <1>3 DEF CollectedInv

LEMMA FetchNewCollected ==
  ASSUME TableInv, CollectedInv, FetchNew
  PROVE  CollectedInv'
<1>1. collect # Idle /\ UNCHANGED <<exchange, candles, exit>>
  BY DEF FetchNew, Idle
<1>2. PICK last, rows :
        collect' = [stage |-> "fetched", today |-> collect.today,
                    includeToday |-> collect.includeToday, todo |-> collect.todo,
                    failures |-> collect.failures, streak |-> collect.streak,
                    last |-> last, rows |-> rows]
  BY DEF FetchNew
<1>3. /\ collect'.today = collect.today /\ collect'.includeToday = collect.includeToday
      /\ collect'.todo = collect.todo /\ collect'.failures = collect.failures
      /\ collect'.streak = collect.streak /\ collect'.stage = "fetched"
  BY <1>2
<1>4. ReplacementReaches'
  BY <1>3 DEF ReplacementReaches
<1> QED
  BY <1>1, <1>3, <1>4, FetchedCollected

\* What is read again reaches over the lookback as well.
LEMMA FetchAgainCollected ==
  ASSUME TableInv, CollectedInv, FetchAgain
  PROVE  CollectedInv'
<1>1. collect # Idle /\ UNCHANGED <<exchange, candles, exit>>
  BY DEF FetchAgain, Idle
<1>2. PICK s \in Symbols : s = Collecting
  BY <1>1, CollectingIsSymbol
<1>3. /\ collect.today = day /\ day \in Nat /\ traded[s] \subseteq 0..day
      /\ LookbackDays \in Nat /\ Stored(s) \subseteq traded[s]
  BY <1>1, DailyPricesAssumption DEF TableInv, CollectInPlace, TableTypes
<1> DEFINE from == RefetchFrom(FirstStored(s), day)
           read == Quote(s, from, day)
           rows == KeepFinal(read, day, collect.includeToday)
<1>4. from \in Int /\ from <= day - LookbackDays
  <2>1. CASE FirstStored(s) = None
    BY <1>3, <2>1 DEF RefetchFrom
  <2>2. CASE FirstStored(s) # None
    <3>1. Stored(s) # {}
      BY <2>2 DEF FirstStored
    <3>2. FirstStored(s) \in Stored(s)
      BY <3>1, EndsOfHistory DEF TableInv
    <3>3. FirstStored(s) \in Int /\ day - LookbackDays \in Int
      BY <1>3, <3>2
    <3>4. Min({FirstStored(s), day - LookbackDays})
            = IF FirstStored(s) <= day - LookbackDays THEN FirstStored(s) ELSE day - LookbackDays
      BY <3>3, MinOfTwo, Zenon
    <3>5. from = Min({FirstStored(s), day - LookbackDays})
      BY <2>2 DEF RefetchFrom
    <3> QED
      BY <3>3, <3>4, <3>5
  <2> QED
    BY <2>1, <2>2
<1>5. DOMAIN read = {d \in traded[s] : from <= d /\ d <= day}
  BY DEF Quote
<1>6. DOMAIN rows = {d \in DOMAIN read : collect.includeToday \/ d < day}
  BY DEF KeepFinal, Restrict
<1>7. /\ collect'.stage = "refetched" /\ collect'.rows = rows
      /\ collect'.today = collect.today /\ collect'.includeToday = collect.includeToday
      /\ collect'.todo = collect.todo /\ collect'.failures = collect.failures
      /\ collect'.streak = collect.streak
  <2>1. collect = [stage |-> "fetched", today |-> collect.today,
                   includeToday |-> collect.includeToday, todo |-> collect.todo,
                   failures |-> collect.failures, streak |-> collect.streak,
                   last |-> collect.last, rows |-> collect.rows]
    BY DEF FetchAgain, TableInv, AnswerIsTrue
  <2>2. collect' = [collect EXCEPT !.stage = "refetched", !.rows = rows]
    BY <1>2, <1>3 DEF FetchAgain
  <2> HIDE DEF rows
  <2> QED
    BY <2>1, <2>2
<1> HIDE DEF from, read, rows
<1>8. Wanted(traded[s], day, collect.includeToday) \subseteq DOMAIN rows
  BY <1>3, <1>4, <1>5, <1>6 DEF Wanted
<1>9. ReplacementReaches'
  BY <1>1, <1>2, <1>3, <1>7, <1>8 DEF ReplacementReaches, Collecting, exchange
<1> QED
  BY <1>1, <1>7, <1>9, FetchedCollected

LEMMA StoreNewCollected ==
  ASSUME TableInv, CollectedInv, StoreNew
  PROVE  CollectedInv'
<1>1. collect # Idle /\ UNCHANGED <<day, traded>>
  BY DEF StoreNew, Idle, exchange
<1>2. PICK s \in Symbols : s = Collecting
  BY <1>1, CollectingIsSymbol
<1>3. /\ collect.today = day /\ day \in Nat /\ traded[s] \subseteq 0..day
      /\ LookbackDays \in Nat /\ OverlapDays \in Nat /\ Stored(s) \subseteq traded[s]
      /\ None \notin Int /\ collect.includeToday \in BOOLEAN
  BY <1>1, DailyPricesAssumption DEF TableInv, CollectInPlace, TableTypes
<1> DEFINE kept == KeepFinal(collect.rows, collect.today, collect.includeToday)
           start == FetchFrom(collect.last, day)
           new == [d \in DOMAIN kept \cup Stored(s) |->
                     IF d \in DOMAIN kept THEN kept[d] ELSE candles[s][d]]
<1>4. /\ IF Stored(s) = {} THEN collect.last = None ELSE collect.last \in Stored(s)
      /\ DOMAIN collect.rows = {d \in traded[s] : start <= d /\ d <= day}
  BY <1>2 DEF StoreNew, TableInv, AnswerIsTrue
<1>5. DOMAIN kept = {d \in DOMAIN collect.rows : collect.includeToday \/ d < day}
  BY <1>3 DEF KeepFinal, Restrict
<1>6. candles' = [candles EXCEPT ![s] = new] /\ DOMAIN new = DOMAIN kept \cup Stored(s)
  BY <1>2 DEF StoreNew, Upsert
<1>7. Stored(s)' = DOMAIN kept \cup Stored(s) /\ \A t \in Symbols \ {s} : Stored(t)' = Stored(t)
  <2> HIDE DEF new, kept
  <2>1. candles'[s] = new /\ \A t \in Symbols \ {s} : candles'[t] = candles[t]
    BY <1>6 DEF TableInv, TableTypes
  <2> QED
    BY <1>6, <2>1 DEF Stored
<1>8. \A t \in Symbols : Stored(t) \subseteq Stored(t)'
  BY StoreNewStep
<1>9. ASSUME NEW d \in traded[s], d >= day - LookbackDays, d < day \/ collect.includeToday
      PROVE  d \in DOMAIN kept \cup Stored(s)
  <2>0. d \in 0..day
    BY <1>3
  <2>1. CASE Stored(s) = {}
    <3>1. start = day - LookbackDays
      BY <1>4, <2>1 DEF FetchFrom
    <3> QED
      BY <1>4, <1>5, <1>9, <2>0, <3>1
  <2>2. CASE Stored(s) # {}
    <3>1. collect.last \in Stored(s) /\ collect.last \in 0..day /\ collect.last # None
      BY <1>3, <1>4, <2>2
    <3>2. start = collect.last - OverlapDays
      BY <3>1 DEF FetchFrom
    <3>3. CASE d < collect.last
      BY <1>9, <3>1, <3>3 DEF CollectedInv, RecentIsStored
    <3>4. CASE ~ (d < collect.last)
      BY <1>3, <1>4, <1>5, <1>9, <2>0, <3>1, <3>2, <3>4
    <3> QED
      BY <3>3, <3>4
  <2> QED
    BY <2>1, <2>2
<1>10. DOMAIN kept \subseteq 0..day /\ Stored(s) \subseteq 0..day
  BY <1>3, <1>4, <1>5
<1> HIDE DEF kept, start, new
<1>11. RecentIsStored'
  <2> SUFFICES ASSUME NEW t \in Symbols, NEW e \in Stored(t)', NEW d \in traded[t],
                      d >= day - LookbackDays, d < e
               PROVE  d \in Stored(t)'
    BY <1>1 DEF RecentIsStored
  <2>1. CASE t # s
    BY <1>7, <2>1 DEF CollectedInv, RecentIsStored
  <2>2. CASE t = s
    <3>1. e \in 0..day /\ d \in 0..day
      BY <1>3, <1>7, <1>10, <2>2
    <3>2. d < day
      BY <1>3, <3>1
    <3> QED
      BY <1>7, <1>9, <2>2, <3>2
  <2> QED
    BY <2>1, <2>2
<1>12. Wanted(traded[s], day, collect.includeToday) \subseteq Stored(s)'
  BY <1>3, <1>7, <1>9 DEF Wanted
<1>13. Tally' /\ ReplacementReaches' /\ ExitIsTrue'
  <2>1. Advance(collect.failures, 0)
    BY DEF StoreNew
  <2>2. collect.failures \in Nat
    BY <1>1 DEF CollectedInv, Tally
  <2> QED
    BY <1>1, <1>2, <1>8, <1>12, <2>1, <2>2, SymbolIsDone
<1> QED
  BY <1>11, <1>13 DEF CollectedInv

\* What takes the place of the rows reaches over the lookback.
LEMMA ReplaceCollected ==
  ASSUME TableInv, CollectedInv, Replace
  PROVE  CollectedInv'
<1>1. collect # Idle /\ UNCHANGED <<day, traded>> /\ collect.stage = "refetched"
  BY DEF Replace, Idle, exchange
<1>2. PICK s \in Symbols : s = Collecting
  BY <1>1, CollectingIsSymbol
<1>3. /\ collect.today = day /\ day \in Nat /\ traded[s] \subseteq 0..day
      /\ LookbackDays \in Nat /\ DOMAIN collect.rows \subseteq traded[s]
  BY <1>1, <1>2, DailyPricesAssumption
     DEF TableInv, CollectInPlace, TableTypes, ReplacementIsWhole
<1>4. Wanted(traded[s], day, collect.includeToday) \subseteq DOMAIN collect.rows
  BY <1>1, <1>2, <1>3 DEF CollectedInv, ReplacementReaches
<1>5. /\ Stored(s)' = DOMAIN collect.rows
      /\ \A t \in Symbols \ {s} : Stored(t)' = Stored(t)
  <2>1. candles' = [candles EXCEPT ![s] = collect.rows]
    BY <1>2 DEF Replace
  <2>2. candles'[s] = collect.rows /\ \A t \in Symbols \ {s} : candles'[t] = candles[t]
    BY <2>1 DEF TableInv, TableTypes
  <2> QED
    BY <2>2 DEF Stored
<1>6. \A t \in Symbols : Stored(t) \subseteq Stored(t)'
  BY ReplaceStep
<1>7. RecentIsStored'
  <2> SUFFICES ASSUME NEW t \in Symbols, NEW e \in Stored(t)', NEW d \in traded[t],
                      d >= day - LookbackDays, d < e
               PROVE  d \in Stored(t)'
    BY <1>1 DEF RecentIsStored
  <2>1. CASE t # s
    BY <1>5, <2>1 DEF CollectedInv, RecentIsStored
  <2>2. CASE t = s
    <3>1. e \in 0..day /\ d \in 0..day
      BY <1>3, <1>5, <2>2
    <3>2. d <= day /\ d < day
      BY <1>3, <3>1
    <3>3. d \in Wanted(traded[s], day, collect.includeToday)
      BY <2>2, <3>2 DEF Wanted
    <3> QED
      BY <1>4, <1>5, <2>2, <3>3
  <2> QED
    BY <2>1, <2>2
<1>8. Tally' /\ ReplacementReaches' /\ ExitIsTrue'
  <2>1. Advance(collect.failures, 0)
    BY DEF Replace
  <2>2. collect.failures \in Nat
    BY <1>1 DEF CollectedInv, Tally
  <2> QED
    BY <1>1, <1>2, <1>4, <1>5, <1>6, <2>1, <2>2, SymbolIsDone
<1> QED
  BY <1>7, <1>8 DEF CollectedInv

\* A page lies before the first stored bar: within the lookback it has nothing new.
LEMMA FillPageCollected ==
  ASSUME TableInv, CollectedInv, FillPage
  PROVE  CollectedInv'
<1>1. /\ backfill # Idle /\ collect = Idle /\ collect' = Idle
      /\ UNCHANGED <<day, traded, exit>>
  BY DEF FillPage, Idle, TableInv, OneCommand, exchange
<1>2. PICK s \in Symbols : s = Filling
  BY <1>1, FillingIsSymbol
<1>3. /\ backfill.cursor \in Int /\ Stored(s) # {} /\ traded[s] \subseteq 0..day
      /\ Stored(s) \subseteq traded[s] /\ \A e \in Stored(s) : backfill.cursor < e
      /\ day \in Nat /\ LookbackDays \in Nat
  BY <1>2, DailyPricesAssumption DEF FillPage, TableInv, PageJoins, TableTypes
<1>4. PICK first :
        candles' = Upsert(Filling, Quote(Filling, first, backfill.cursor))
  BY DEF FillPage
<1> DEFINE rows == Quote(s, first, backfill.cursor)
           new == [d \in DOMAIN rows \cup Stored(s) |->
                     IF d \in DOMAIN rows THEN rows[d] ELSE candles[s][d]]
<1>5. DOMAIN rows = {d \in traded[s] : first <= d /\ d <= backfill.cursor}
  BY DEF Quote
<1>6. candles' = [candles EXCEPT ![s] = new] /\ DOMAIN new = DOMAIN rows \cup Stored(s)
  BY <1>2, <1>4 DEF Upsert
<1> HIDE DEF new, rows
<1>7. Stored(s)' = DOMAIN rows \cup Stored(s) /\ \A t \in Symbols \ {s} : Stored(t)' = Stored(t)
  <2>1. candles'[s] = new /\ \A t \in Symbols \ {s} : candles'[t] = candles[t]
    BY <1>6 DEF TableInv, TableTypes
  <2> QED
    BY <1>6, <2>1 DEF Stored
<1>8. RecentIsStored'
  <2> SUFFICES ASSUME NEW t \in Symbols, NEW e \in Stored(t)', NEW d \in traded[t],
                      d >= day - LookbackDays, d < e
               PROVE  d \in Stored(t)'
    BY <1>1 DEF RecentIsStored
  <2>1. CASE t # s
    BY <1>7, <2>1 DEF CollectedInv, RecentIsStored
  <2>2. CASE t = s
    <3>1. PICK f \in Stored(s) : e <= f
      <4>1. CASE e \in Stored(s)
        BY <1>3, <4>1
      <4>2. CASE e \in DOMAIN rows
        <5>1. PICK f \in Stored(s) : backfill.cursor < f
          BY <1>3
        <5>2. e \in Int /\ f \in Int /\ e <= backfill.cursor
          BY <1>3, <1>5, <4>2
        <5> QED
          BY <1>3, <5>1, <5>2
      <4> QED
        BY <1>7, <2>2, <4>1, <4>2
    <3>2. d \in Int /\ e \in Int /\ f \in Int
      BY <1>3, <1>5, <1>7, <2>2
    <3>3. d < f
      BY <3>1, <3>2
    <3>4. d \in Stored(s)
      BY <2>2, <3>3 DEF CollectedInv, RecentIsStored
    <3> QED
      BY <1>7, <2>2, <3>4
  <2> QED
    BY <2>1, <2>2
<1>9. ExitIsTrue'
  <2>1. ASSUME NEW t \in Symbols, exit # None, exit.code = 0, exit.done # FALSE
        PROVE  Wanted(traded[t], exit.on, exit.whole) \subseteq Stored(t)'
    <3>1. Wanted(traded[t], exit.on, exit.whole) \subseteq Stored(t)
      BY <2>1 DEF CollectedInv, ExitIsTrue
    <3>2. Stored(t) \subseteq Stored(t)'
      BY FillPageStep
    <3> QED
      BY <3>1, <3>2
  <2> QED
    BY <1>1, <2>1 DEF CollectedInv, ExitIsTrue
<1> QED
  BY <1>1, <1>8, <1>9 DEF CollectedInv, Tally, ReplacementReaches, Idle

LEMMA CollectFailsCollected ==
  ASSUME TableInv, CollectedInv, CollectFails
  PROVE  CollectedInv'
<1>1. collect # Idle /\ UNCHANGED <<day, traded, candles>>
  BY DEF CollectFails, exchange
<1>2. PICK s \in Symbols : s = Collecting
  BY <1>1, CollectingIsSymbol
<1>3. \A t : Stored(t)' = Stored(t)
  BY <1>1 DEF Stored
<1>4. collect.failures \in Nat /\ collect.streak \in Nat
  BY <1>1 DEF CollectedInv, Tally
<1>5. /\ collect.failures + 1 \in Nat /\ collect.failures + 1 # 0 /\ collect.streak + 1 \in Nat
      /\ Advance(collect.failures + 1, collect.streak + 1)
  BY <1>4 DEF CollectFails
<1>6. Tally' /\ ReplacementReaches' /\ ExitIsTrue'
  BY <1>1, <1>2, <1>3, <1>5, SymbolIsDone
<1>7. RecentIsStored'
  BY <1>1, <1>3 DEF CollectedInv, RecentIsStored
<1> QED
  BY <1>6, <1>7 DEF CollectedInv

LEMMA CollectStopsCollected ==
  ASSUME TableInv, CollectedInv, CollectInterrupted \/ CollectDies
  PROVE  CollectedInv'
<1>1. PICK code \in {0, 1} :
        /\ collect' = Idle
        /\ exit' = [code |-> code, on |-> collect.today, whole |-> collect.includeToday,
                    done |-> FALSE]
  BY DEF CollectInterrupted, CollectDies, Ends
<1>2. collect # Idle /\ UNCHANGED <<day, traded, candles>>
  BY DEF CollectInterrupted, CollectDies, exchange
<1>3. exit'.on = day /\ exit'.done = FALSE /\ day \in Nat
  BY <1>1, <1>2 DEF TableInv, TableTypes, CollectInPlace
<1>4. RecentIsStored'
  BY <1>2 DEF CollectedInv, RecentIsStored, Stored
<1>5. ExitIsTrue'
  <2>1. exit'.on \in Nat /\ exit'.on <= day'
    BY <1>2, <1>3
  <2> QED
    BY <1>3, <2>1, Zenon DEF ExitIsTrue
<1> QED
  BY <1>1, <1>4, <1>5 DEF CollectedInv, Tally, ReplacementReaches, Idle

\* What is wanted has its name in the property.
LEMMA CollectedIsEnough == CollectedInv => SuccessMeansCollected
BY DEF CollectedInv, ExitIsTrue, SuccessMeansCollected, Collected, Wanted

-----------------------------------------------------------------------------
(* The rows of the table and of an answer. *)

AreRows(rows) == \A d \in DOMAIN rows : rows[d] \in Row

RowInv ==
  /\ day \in FirstDay..MaxDay
  /\ \A s \in Symbols : AreRows(candles[s])
  /\ collect.stage \in {"fetched", "refetched"} => AreRows(collect.rows)

LEMMA QuoteIsRows ==
  ASSUME BasisInv, NEW s \in Symbols, NEW first, NEW last
  PROVE  AreRows(Quote(s, first, last))
<1>1. basis[s] \in Nat
  BY DEF BasisInv, TableBasis, BasisIsPast
<1>2. \A d : [basis |-> basis[s], final |-> d < day \/ final] \in Row
  BY <1>1 DEF Row
<1> QED
  BY <1>2 DEF Quote, AreRows

LEMMA KeptAreRows ==
  ASSUME NEW rows, AreRows(rows), NEW today, NEW whole
  PROVE  AreRows(KeepFinal(rows, today, whole))
BY DEF AreRows, KeepFinal, Restrict

\* The rows of one symbol are written and the collection goes on or ends.
LEMMA WrittenRows ==
  ASSUME TableInv, RowInv, UNCHANGED exchange, NEW s \in Symbols, NEW rows, AreRows(rows),
         candles' = [candles EXCEPT ![s] = rows],
         collect'.stage \notin {"fetched", "refetched"}
  PROVE  RowInv'
<1>1. candles'[s] = rows /\ \A t \in Symbols \ {s} : candles'[t] = candles[t]
  BY DEF TableInv, TableTypes
<1>2. \A t \in Symbols : AreRows(candles'[t])
  BY <1>1 DEF RowInv
<1> QED
  BY <1>2 DEF RowInv, exchange, AreRows

LEMMA UpsertedRows ==
  ASSUME RowInv, NEW s \in Symbols, NEW rows, AreRows(rows)
  PROVE  AreRows([d \in DOMAIN rows \cup Stored(s) |->
                    IF d \in DOMAIN rows THEN rows[d] ELSE candles[s][d]])
BY DEF RowInv, AreRows, Stored

LEMMA AdvanceIsShort ==
  ASSUME NEW failures, NEW streak, Advance(failures, streak)
  PROVE  collect'.stage \notin {"fetched", "refetched"}
BY DEF Advance, Ends, Idle

LEMMA RowStep ==
  ASSUME TableInv, BasisInv, RowInv, [Next]_vars
  PROVE  RowInv'
<1>0. FirstDay \in Nat /\ MaxDay \in Nat /\ day \in FirstDay..MaxDay
  BY DailyPricesAssumption DEF RowInv
<1>1. CASE NextDay
  <2>1. /\ day' = day + 1 /\ day < MaxDay /\ collect = Idle /\ UNCHANGED <<candles, collect>>
    BY <1>1 DEF NextDay
  <2> QED
    BY <1>0, <2>1 DEF RowInv, AreRows, Idle
<1>2. CASE FetchNew
  <2>1. collect # Idle /\ UNCHANGED <<exchange, candles>>
    BY <1>2 DEF FetchNew, Idle
  <2>2. PICK s \in Symbols : s = Collecting
    BY <2>1, CollectingIsSymbol
  <2>3. PICK first, last : collect'.rows = Quote(s, first, last)
    BY <1>2, <2>2 DEF FetchNew
  <2>4. AreRows(collect'.rows)
    BY <2>3, QuoteIsRows
  <2> QED
    BY <2>1, <2>4 DEF RowInv, AreRows, exchange
<1>3. CASE FetchAgain
  <2>1. collect # Idle /\ UNCHANGED <<exchange, candles>>
    BY <1>3 DEF FetchAgain, Idle
  <2>2. PICK s \in Symbols : s = Collecting
    BY <2>1, CollectingIsSymbol
  <2>3. PICK first, last :
          collect' = [collect EXCEPT !.stage = "refetched",
                        !.rows = KeepFinal(Quote(s, first, last), collect.today,
                                           collect.includeToday)]
    BY <1>3, <2>2 DEF FetchAgain
  <2> DEFINE rows == KeepFinal(Quote(s, first, last), collect.today, collect.includeToday)
  <2>4. AreRows(rows)
    BY QuoteIsRows, KeptAreRows
  <2>5. collect'.rows = rows
    <3>1. collect = [stage |-> "fetched", today |-> collect.today,
                     includeToday |-> collect.includeToday, todo |-> collect.todo,
                     failures |-> collect.failures, streak |-> collect.streak,
                     last |-> collect.last, rows |-> collect.rows]
      BY <1>3 DEF FetchAgain, TableInv, AnswerIsTrue
    <3> HIDE DEF rows
    <3> QED
      BY <2>3, <3>1 DEF rows
  <2> HIDE DEF rows
  <2>6. AreRows(collect'.rows)
    BY <2>4, <2>5
  <2> QED
    BY <2>1, <2>6 DEF RowInv, AreRows, exchange
<1>4. CASE StoreNew
  <2>1. collect # Idle /\ UNCHANGED exchange /\ collect.stage = "fetched"
    BY <1>4 DEF StoreNew, Idle
  <2>2. PICK s \in Symbols : s = Collecting
    BY <2>1, CollectingIsSymbol
  <2> DEFINE kept == KeepFinal(collect.rows, collect.today, collect.includeToday)
  <2>3. AreRows(kept)
    BY <2>1, KeptAreRows DEF RowInv
  <2>4. candles' = [candles EXCEPT ![s] = [d \in DOMAIN kept \cup Stored(s) |->
                      IF d \in DOMAIN kept THEN kept[d] ELSE candles[s][d]]]
    BY <1>4, <2>2 DEF StoreNew, Upsert
  <2>5. collect'.stage \notin {"fetched", "refetched"}
    BY <1>4, AdvanceIsShort DEF StoreNew
  <2> HIDE DEF kept
  <2> QED
    BY <2>1, <2>3, <2>4, <2>5, UpsertedRows, WrittenRows
<1>5. CASE Replace
  <2>1. collect # Idle /\ UNCHANGED exchange /\ collect.stage = "refetched"
    BY <1>5 DEF Replace, Idle
  <2>2. PICK s \in Symbols : s = Collecting
    BY <2>1, CollectingIsSymbol
  <2>3. candles' = [candles EXCEPT ![s] = collect.rows] /\ AreRows(collect.rows)
    BY <1>5, <2>1, <2>2 DEF Replace, RowInv
  <2>4. collect'.stage \notin {"fetched", "refetched"}
    BY <1>5, AdvanceIsShort DEF Replace
  <2> QED
    BY <2>1, <2>3, <2>4, WrittenRows
<1>6. CASE FillPage
  <2>1. /\ backfill # Idle /\ collect = Idle /\ collect' = Idle /\ UNCHANGED exchange
    BY <1>6 DEF FillPage, Idle, TableInv, OneCommand
  <2>2. PICK s \in Symbols : s = Filling
    BY <2>1, FillingIsSymbol
  <2>3. PICK first : candles' = Upsert(s, Quote(s, first, backfill.cursor))
    BY <1>6, <2>2 DEF FillPage
  <2> DEFINE rows == Quote(s, first, backfill.cursor)
  <2>4. AreRows(rows)
    BY QuoteIsRows
  <2>5. candles' = [candles EXCEPT ![s] = [d \in DOMAIN rows \cup Stored(s) |->
                      IF d \in DOMAIN rows THEN rows[d] ELSE candles[s][d]]]
    BY <2>3 DEF Upsert
  <2>6. collect'.stage \notin {"fetched", "refetched"}
    BY <2>1 DEF Idle
  <2> HIDE DEF rows
  <2> QED
    BY <2>1, <2>4, <2>5, <2>6, UpsertedRows, WrittenRows
<1>7. CASE UNCHANGED <<day, candles>>
           /\ (UNCHANGED collect \/ collect'.stage \notin {"fetched", "refetched"})
  BY <1>7 DEF RowInv, AreRows
<1>8. CASE CollectFails
  BY <1>7, <1>8, AdvanceIsShort DEF CollectFails, exchange
<1>9. CASE StartCollect \/ CollectInterrupted \/ CollectDies
  BY <1>7, <1>9 DEF StartCollect, CollectInterrupted, CollectDies, Ends, Idle, exchange
<1>10. CASE Session \/ StartBackfill \/ BeginFill \/ FillFails \/ FillDies \/ UNCHANGED vars
  BY <1>7, <1>10 DEF Session, StartBackfill, BeginFill, FillFails, FillDies, vars, exchange
<1> QED
  BY <1>1, <1>2, <1>3, <1>4, <1>5, <1>6, <1>8, <1>9, <1>10
     DEF Next, Exchange, Collect, Backfill

LEMMA RowsAreEnough ==
  ASSUME TableInv, BasisInv, CollectedInv, RowInv
  PROVE  TypeOK
<1>1. /\ day \in FirstDay..MaxDay /\ final \in BOOLEAN
      /\ \A s \in Symbols : traded[s] \subseteq 0..day /\ basis[s] \in Nat
      /\ notice \in [Symbols -> {"done", "due", "missed"}]
  BY DEF TableInv, TableTypes, BasisInv, TableBasis, BasisIsPast, RowInv
<1>2. \A s \in Symbols : /\ Stored(s) \subseteq traded[s]
                         /\ \A d \in Stored(s) : candles[s][d] \in Row
  BY DEF TableInv, TableTypes, RowInv, AreRows, Stored
<1>3. /\ collect.stage \in {"idle", "next", "fetched", "refetched"}
      /\ collect # Idle => collect.todo # <<>> /\ collect.streak < MaxConsecutive
  BY DEF TableInv, CollectInPlace, CollectedInv, Tally, Idle
<1>4. /\ backfill.stage \in {"idle", "next", "page"}
      /\ backfill # Idle => backfill.todo # <<>>
      /\ (backfill.stage = "page" /\ backfill.floor # None) => backfill.cursor >= backfill.floor
  BY DEF TableInv, PageJoins, Above, Idle
<1> QED
  BY <1>1, <1>2, <1>3, <1>4 DEF TypeOK

-----------------------------------------------------------------------------
(* The theorems. *)

LEMMA TableStep ==
  ASSUME MayOverlap = FALSE, TableInv, [Next]_vars
  PROVE  TableInv' /\ \A s \in Symbols : Stored(s) \subseteq Stored(s)'
<1>1. UNCHANGED candles => \A s \in Symbols : Stored(s) \subseteq Stored(s)'
  BY DEF Stored
<1>2. CASE Session
  BY <1>1, <1>2, SessionStep DEF Session
<1>3. CASE NextDay
  BY <1>1, <1>3, NextDayStep DEF NextDay
<1>4. CASE StartCollect
  BY <1>1, <1>4, StartCollectStep DEF StartCollect
<1>5. CASE FetchNew
  BY <1>1, <1>5, FetchNewStep DEF FetchNew
<1>6. CASE StoreNew
  BY <1>6, StoreNewStep
<1>7. CASE FetchAgain
  BY <1>1, <1>7, FetchAgainStep DEF FetchAgain
<1>8. CASE Replace
  BY <1>8, ReplaceStep
<1>9. CASE CollectFails \/ CollectInterrupted \/ CollectDies
  BY <1>1, <1>9, CollectEndsStep DEF CollectFails, CollectInterrupted, CollectDies
<1>10. CASE StartBackfill
  BY <1>1, <1>10, StartBackfillStep DEF StartBackfill
<1>11. CASE BeginFill
  BY <1>1, <1>11, BeginFillStep DEF BeginFill
<1>12. CASE FillPage
  BY <1>12, FillPageStep
<1>13. CASE FillFails \/ FillDies
  BY <1>1, <1>13, FillEndsStep DEF FillFails, FillDies
<1>14. CASE UNCHANGED vars
  BY <1>1, <1>14, StutterStep DEF vars
<1> QED
  BY <1>2, <1>3, <1>4, <1>5, <1>6, <1>7, <1>8, <1>9, <1>10, <1>11, <1>12, <1>13, <1>14
     DEF Next, Exchange, Collect, Backfill

LEMMA BasisStep ==
  ASSUME TableInv, BasisInv, [Next]_vars
  PROVE  BasisInv'
<1>1. CASE NextDay
  BY <1>1, NextDayBasis
<1>2. CASE FetchNew
  BY <1>2, FetchNewBasis
<1>3. CASE StoreNew
  BY <1>3, StoreNewBasis
<1>4. CASE FetchAgain
  BY <1>4, FetchAgainBasis
<1>5. CASE Replace
  BY <1>5, ReplaceBasis
<1>6. CASE FillPage
  BY <1>6, FillPageBasis
<1>7. CASE Session \/ StartBackfill \/ BeginFill \/ FillFails \/ FillDies \/ UNCHANGED vars
  BY <1>7, OtherBasis
     DEF Session, StartBackfill, BeginFill, FillFails, FillDies, vars, exchange
<1>8. CASE StartCollect \/ CollectInterrupted \/ CollectDies
  <2>1. AnswerIsCurrent'
    BY <1>8 DEF StartCollect, CollectInterrupted, CollectDies, Ends, AnswerIsCurrent, Idle
  <2> QED
    BY <1>8, <2>1, OtherBasis DEF StartCollect, CollectInterrupted, CollectDies, exchange
<1>9. CASE CollectFails
  <2>1. AnswerIsCurrent'
    BY <1>9, AdvanceForgets DEF CollectFails
  <2> QED
    BY <1>9, <2>1, OtherBasis DEF CollectFails, exchange
<1> QED
  BY <1>1, <1>2, <1>3, <1>4, <1>5, <1>6, <1>7, <1>8, <1>9 DEF Next, Exchange, Collect, Backfill

\* The first and the last stored bar are the ends of what has no hole.
LEMMA TableInvIsEnough == TableInv => HistoryIsWhole
<1> SUFFICES ASSUME TableInv, NEW s \in Symbols, Stored(s) # {}
             PROVE  /\ traded[s] \cap FirstStored(s)..LastStored(s) \subseteq Stored(s)
                    /\ \A d \in Stored(s) : candles[s][d].final
  BY DEF HistoryIsWhole
<1>1. /\ FirstStored(s) \in Stored(s) /\ LastStored(s) \in Stored(s)
      /\ Stored(s) \subseteq 0..day
  BY EndsOfHistory DEF TableInv
<1>2. ASSUME NEW d \in traded[s], d \in FirstStored(s)..LastStored(s)
      PROVE  d \in Stored(s)
  <2>1. FirstStored(s) \in Int /\ LastStored(s) \in Int /\ d \in Int
    BY <1>1, <1>2
  <2>2. CASE d = FirstStored(s) \/ d = LastStored(s)
    BY <1>1, <2>2
  <2>3. CASE d # FirstStored(s) /\ d # LastStored(s)
    <3>1. FirstStored(s) < d /\ d < LastStored(s)
      BY <1>2, <2>1, <2>3
    <3> QED
      BY <1>1, <3>1 DEF TableInv, NoHoles
  <2> QED
    BY <2>2, <2>3
<1> QED
  BY <1>2 DEF TableInv, BarsAreFinal

\* As long as the two commands do not run at the same time, the stored bars of a
\* symbol have no hole and each of them is of a day that was over, whatever
\* failed or was killed, for any overlap, window and listing date
\* (data/prices.py, collect_daily() and backfill_daily()).
THEOREM HistoryStaysWhole ==
  ASSUME MayOverlap = FALSE PROVE Spec => []HistoryIsWhole
<1>1. Init => TableInv
  BY InitTableInv
<1>2. TableInv /\ [Next]_vars => TableInv'
  BY TableStep
<1>3. TableInv => HistoryIsWhole
  BY TableInvIsEnough
<1> QED
  BY <1>1, <1>2, <1>3, PTL DEF Spec

\* As long as the two commands do not run at the same time, no stored bar is
\* ever given up: what replaces the rows of a symbol after a corporate action
\* reaches back to its first bar (data/prices.py, collect_daily()).
THEOREM PastIsKept ==
  ASSUME MayOverlap = FALSE PROVE Spec => BackfilledPastIsKept
<1>1. Init => TableInv
  BY InitTableInv
<1>2. TableInv /\ [Next]_vars => TableInv'
  BY TableStep
<1>3. TableInv /\ [Next]_vars =>
        [\A s \in Symbols : Stored(s) \subseteq DOMAIN candles'[s]]_vars
  BY TableStep DEF Stored
<1> QED
  BY <1>1, <1>2, <1>3, PTL DEF Spec, BackfilledPastIsKept

\* As long as the two commands do not run at the same time, all stored bars of a
\* symbol are on the basis of its last corporate action once a collection has
\* succeeded after it that had a bar in the overlap to compare, for any number of
\* actions, any overlap and pauses of trade of any length (data/prices.py,
\* _was_adjusted()).
THEOREM BasisIsOne ==
  ASSUME MayOverlap = FALSE PROVE Spec => []HistoryHasOneBasis
<1>1. Init => TableInv /\ BasisInv
  BY InitTableInv, InitBasisInv
<1>2. TableInv /\ BasisInv /\ [Next]_vars => (TableInv /\ BasisInv)'
  BY TableStep, BasisStep
<1>3. BasisInv => HistoryHasOneBasis
  BY DEF BasisInv, TableBasis
<1> QED
  BY <1>1, <1>2, <1>3, PTL DEF Spec

LEMMA CollectedStep ==
  ASSUME TableInv, CollectedInv, [Next]_vars
  PROVE  CollectedInv'
<1>1. CASE NextDay
  BY <1>1, NextDayCollected
<1>2. CASE StartCollect
  BY <1>2, StartCollectCollected
<1>3. CASE FetchNew
  BY <1>3, FetchNewCollected
<1>4. CASE StoreNew
  BY <1>4, StoreNewCollected
<1>5. CASE FetchAgain
  BY <1>5, FetchAgainCollected
<1>6. CASE Replace
  BY <1>6, ReplaceCollected
<1>7. CASE CollectFails
  BY <1>7, CollectFailsCollected
<1>8. CASE CollectInterrupted \/ CollectDies
  BY <1>8, CollectStopsCollected
<1>9. CASE FillPage
  BY <1>9, FillPageCollected
<1>10. CASE Session \/ StartBackfill \/ BeginFill \/ FillFails \/ FillDies \/ UNCHANGED vars
  BY <1>10, SameCollected
     DEF Session, StartBackfill, BeginFill, FillFails, FillDies, vars, exchange
<1> QED
  BY <1>1, <1>2, <1>3, <1>4, <1>5, <1>6, <1>7, <1>8, <1>9, <1>10
     DEF Next, Exchange, Collect, Backfill

\* As long as the two commands do not run at the same time, a collection that
\* went through all symbols and reports success has stored every finished bar in
\* the lookback of every one, whatever failed in it or was killed or interrupted
\* before it; one that is interrupted reports success as well (cli.py,
\* _run_collect_prices(), and data/prices.py, collect_daily_all()).
THEOREM SuccessIsTrue ==
  ASSUME MayOverlap = FALSE PROVE Spec => []SuccessMeansCollected
<1>1. Init => TableInv /\ CollectedInv
  BY InitTableInv, InitCollected
<1>2. TableInv /\ CollectedInv /\ [Next]_vars => (TableInv /\ CollectedInv)'
  BY TableStep, CollectedStep
<1>3. CollectedInv => SuccessMeansCollected
  BY CollectedIsEnough
<1> QED
  BY <1>1, <1>2, <1>3, PTL DEF Spec

\* As long as the two commands do not run at the same time, the table holds rows
\* of bars that were traded, a collection never goes on after MaxConsecutive
\* failures in a row, and a backfill never reads below its floor (data/prices.py).
THEOREM TablesAreWellFormed ==
  ASSUME MayOverlap = FALSE PROVE Spec => []TypeOK
<1> DEFINE Inv == TableInv /\ BasisInv /\ CollectedInv /\ RowInv
<1>1. Init => Inv
  <2>1. Init => RowInv
    BY DailyPricesAssumption DEF Init, RowInv, AreRows, Idle
  <2> QED
    BY <2>1, InitTableInv, InitBasisInv, InitCollected
<1>2. Inv /\ [Next]_vars => Inv'
  BY TableStep, BasisStep, CollectedStep, RowStep
<1>3. Inv => TypeOK
  BY RowsAreEnough
<1> QED
  BY <1>1, <1>2, <1>3, PTL DEF Spec
=============================================================================
