--------------------------- MODULE UniverseProofs ---------------------------
(***************************************************************************)
(* Theorems about Universe, for any set of symbols, any bars, any number   *)
(* of days, builds and changes, and any parameters of the filters and the  *)
(* ranking.                                                                *)
(***************************************************************************)
EXTENDS Universe, FiniteSetTheorems, TLAPS

-----------------------------------------------------------------------------
(* Days and bars. *)

LEMMA LeastOf ==
  ASSUME NEW S, S \subseteq Nat, S # {}
  PROVE  \E x \in S : \A y \in S : x <= y
<1>1. \E x \in S : \A y \in S : <<y, x>> \notin OpToRel(<, Nat)
  BY NatLessThanWellFounded, WFMin
<1>2. PICK x \in S : \A y \in S : <<y, x>> \notin OpToRel(<, Nat)
  BY <1>1
<1>3. ASSUME NEW y \in S PROVE x <= y
  <2>1. ~ (y < x)
    BY <1>2 DEF OpToRel
  <2> QED
    BY <2>1
<1> QED
  BY <1>2, <1>3

LEMMA MaxOfDays ==
  ASSUME NEW n \in Nat, NEW S, S \subseteq 0..n, S # {}
  PROVE  Max(S) \in S /\ \A y \in S : Max(S) >= y
<1> DEFINE T == {n - x : x \in S}
<1>1. T \subseteq Nat /\ T # {}
  <2>1. PICK x \in S : TRUE
    OBVIOUS
  <2>2. n - x \in T
    BY <2>1
  <2>3. T \subseteq Nat
    OBVIOUS
  <2> QED
    BY <2>2, <2>3
<1>2. PICK t \in T : \A u \in T : t <= u
  <2> HIDE DEF T
  <2> QED
    BY <1>1, LeastOf
<1>3. PICK x \in S : t = n - x
  BY <1>2
<1>4. ASSUME NEW y \in S PROVE x >= y
  <2>1. n - y \in T /\ x \in Int /\ y \in Int
    OBVIOUS
  <2> QED
    BY <2>1, <1>2, <1>3
<1> QED
  BY <1>4 DEF Max

LEMMA SeqOfMore ==
  ASSUME NEW A, NEW B, A \subseteq B, NEW q \in Seq(A)
  PROVE  q \in Seq(B)
<1>1. Len(q) \in Nat /\ q \in [1..Len(q) -> A]
  OBVIOUS
<1>2. q \in [1..Len(q) -> B]
  BY <1>1
<1> QED
  BY <1>1, <1>2

\* Days in ascending order are again these days.
LEMMA InOrderOf ==
  ASSUME NEW S, S \subseteq Nat, IsFiniteSet(S)
  PROVE  /\ Cardinality(S) \in Nat
         /\ InOrder(S) \in [1..Cardinality(S) -> S]
<1> DEFINE UpTo(d) == {e \in S : e <= d}
           n       == Cardinality(S)
           place   == [d \in S |-> Cardinality(UpTo(d))]
<1>1. n \in Nat
  BY FS_CardinalityType
<1>2. ASSUME NEW d \in S
      PROVE  IsFiniteSet(UpTo(d)) /\ Cardinality(UpTo(d)) \in 1..n
  <2>1. UpTo(d) \subseteq S /\ d \in UpTo(d)
    OBVIOUS
  <2>2. IsFiniteSet(UpTo(d)) /\ Cardinality(UpTo(d)) <= n
    BY <2>1, FS_Subset
  <2>3. Cardinality(UpTo(d)) \in Nat
    BY <2>2, FS_CardinalityType
  <2>4. Cardinality(UpTo(d)) # 0
    BY <2>1, <2>2, FS_EmptySet
  <2> QED
    BY <1>1, <2>2, <2>3, <2>4
<1>3. ASSUME NEW d \in S, NEW e \in S, d < e
      PROVE  Cardinality(UpTo(d)) # Cardinality(UpTo(e))
  <2>1. UpTo(d) \subseteq UpTo(e)
    <3>1. ASSUME NEW f \in S, f <= d PROVE f <= e
      <4>1. d \in Nat /\ e \in Nat /\ f \in Nat
        OBVIOUS
      <4> QED
        BY <1>3, <3>1, <4>1
    <3> QED
      BY <3>1
  <2>2. e \in UpTo(e) /\ e \notin UpTo(d)
    <3>1. d \in Nat /\ e \in Nat
      OBVIOUS
    <3> QED
      BY <1>3, <3>1
  <2>3. UpTo(d) # UpTo(e)
    BY <2>2
  <2> HIDE DEF UpTo
  <2> QED
    BY <1>2, <2>1, <2>3, FS_Subset
<1>4. place \in Injection(S, 1..n)
  <2>1. place \in [S -> 1..n]
    BY <1>2
  <2>2. ASSUME NEW d \in S, NEW e \in S, place[d] = place[e] PROVE d = e
    <3>1. d \in Nat /\ e \in Nat
      OBVIOUS
    <3>2. CASE d < e
      BY <3>2, <2>2, <1>3
    <3>3. CASE e < d
      BY <3>3, <2>2, <1>3
    <3> QED
      BY <3>1, <3>2, <3>3
  <2> QED
    BY <2>1, <2>2 DEF Injection, IsInjective
<1>5. IsFiniteSet(1..n) /\ Cardinality(1..n) = n
  BY <1>1, FS_Interval
<1>6. place \in Surjection(S, 1..n)
  <2> HIDE DEF place
  <2> QED
    BY <1>4, <1>5, FS_Injection
<1>7. ASSUME NEW i \in 1..n
      PROVE  InOrder(S)[i] \in S
  <2>1. PICK d \in S : place[d] = i
    <3> HIDE DEF place
    <3> QED
      BY <1>6 DEF Surjection
  <2>2. Cardinality({e \in S : e <= d}) = i
    BY <2>1
  <2> QED
    BY <2>2 DEF InOrder
<1> QED
  BY <1>1, <1>7 DEF InOrder


\* WithBar() adds one day.
LEMMA WithBarAdds ==
  ASSUME NEW s \in Symbols, NEW d \in 1..day, NEW bar \in Bar,
         DOMAIN bars[s] \subseteq 1..day, bars[s] \in [DOMAIN bars[s] -> Bar]
  PROVE  /\ DOMAIN WithBar(s, d, bar) \subseteq 1..day
         /\ WithBar(s, d, bar) \in [DOMAIN WithBar(s, d, bar) -> Bar]
<1>1. DOMAIN WithBar(s, d, bar) = DOMAIN bars[s] \cup {d}
  BY DEF WithBar
<1>2. ASSUME NEW e \in DOMAIN bars[s] \cup {d}
      PROVE  WithBar(s, d, bar)[e] \in Bar
  BY DEF WithBar
<1>3. WithBar(s, d, bar) = [e \in DOMAIN bars[s] \cup {d} |-> WithBar(s, d, bar)[e]]
  BY DEF WithBar
<1> QED
  BY <1>1, <1>2, <1>3

-----------------------------------------------------------------------------
(* Ranks. *)

\* A set with one element more than another has another size.
LEMMA OneMore ==
  ASSUME NEW S, IsFiniteSet(S), NEW A, NEW B, A \subseteq B, B \subseteq S,
         NEW t \in B, t \notin A
  PROVE  Cardinality(A) # Cardinality(B)
<1>1. IsFiniteSet(B)
  BY FS_Subset
<1>2. A # B
  OBVIOUS
<1> QED
  BY <1>1, <1>2, FS_Subset

LEMMA RankIsPlace ==
  ASSUME NEW S, IsFiniteSet(S), NEW T \in SUBSET S
  PROVE  1 + Cardinality(T) \in Nat \ {0}
<1>1. Cardinality(T) \in Nat
  BY FS_Subset, FS_CardinalityType
<1> QED
  BY <1>1

\* The ranks of scores are different places.
LEMMA RankOf ==
  ASSUME NEW S, S \subseteq Symbols, NEW scores \in [S -> Int]
  PROVE  /\ \A s \in S : Rank(scores, s) \in Nat \ {0}
         /\ \A s, t \in S : s # t => Rank(scores, s) # Rank(scores, t)
<1> DEFINE Above(t, s) == scores[t] > scores[s] \/ (scores[t] = scores[s] /\ t < s)
           A(s) == {t \in S : Above(t, s)}
<1>1. IsFiniteSet(S) /\ S \subseteq Nat /\ DOMAIN scores = S
  BY FS_Subset, UniverseAssumption
<1>2. \A s \in S : A(s) \in SUBSET S /\ Rank(scores, s) = 1 + Cardinality(A(s))
  BY <1>1 DEF Rank
<1>3. ASSUME NEW s \in S, NEW t \in S, s # t, Above(t, s)
      PROVE  Rank(scores, s) # Rank(scores, t)
  <2>1. ASSUME NEW u \in S, Above(u, t) PROVE Above(u, s)
    <3>1. /\ u \in Nat /\ s \in Nat /\ t \in Nat
          /\ scores[u] \in Int /\ scores[s] \in Int /\ scores[t] \in Int
      BY <1>1
    <3> QED
      BY <1>3, <2>1, <3>1
  <2>2. A(t) \subseteq A(s)
    BY <2>1
  <2>3. t \in A(s) /\ t \notin A(t)
    <3>1. t \in Nat /\ scores[t] \in Int
      BY <1>1
    <3> QED
      BY <1>3, <3>1
  <2> HIDE DEF A
  <2>4. Cardinality(A(t)) # Cardinality(A(s))
    BY <1>1, <1>2, <2>2, <2>3, OneMore
  <2>5. Cardinality(A(t)) \in Nat /\ Cardinality(A(s)) \in Nat
    BY <1>1, <1>2, FS_Subset, FS_CardinalityType
  <2> QED
    BY <1>2, <2>4, <2>5
<1>4. ASSUME NEW s \in S, NEW t \in S, s # t
      PROVE  Rank(scores, s) # Rank(scores, t)
  <2>1. Above(t, s) \/ Above(s, t)
    <3>1. s \in Nat /\ t \in Nat /\ scores[s] \in Int /\ scores[t] \in Int
      BY <1>1
    <3> QED
      BY <1>4, <3>1
  <2> QED
    BY <1>3, <1>4, <2>1
<1>5. ASSUME NEW s \in S PROVE Rank(scores, s) \in Nat \ {0}
  <2> HIDE DEF A
  <2> QED
    BY <1>1, <1>2, RankIsPlace
<1> QED
  BY <1>4, <1>5

\* build_watchlist(): symbols with different ranks within EXIT_RANK.
LEMMA WatchlistIsRanked ==
  ASSUME NEW S, S \subseteq Symbols, NEW scores \in [S -> Int], NEW previous
  PROVE  Ranked(Watchlist(scores, previous), EXIT_RANK)
<1> DEFINE W == Watchlist(scores, previous)
<1>1. DOMAIN scores = S
  OBVIOUS
<1>2. /\ DOMAIN W \subseteq S
      /\ \A s \in DOMAIN W : /\ W[s] = Rank(scores, s)
                             /\ W[s] <= ENTER_RANK \/ W[s] <= EXIT_RANK
  BY <1>1 DEF Watchlist
<1> HIDE DEF W
<1>3. \A s \in DOMAIN W : W[s] \in 1..EXIT_RANK
  <2>1. ASSUME NEW s \in DOMAIN W PROVE W[s] \in 1..EXIT_RANK
    <3>1. W[s] \in Nat \ {0}
      BY <1>2, RankOf
    <3> QED
      BY <1>2, <3>1, UniverseAssumption
  <2> QED
    BY <2>1
<1>4. \A s, t \in DOMAIN W : s # t => W[s] # W[t]
  BY <1>2, RankOf
<1>5. Ranked(W, EXIT_RANK)
  BY <1>2, <1>3, <1>4 DEF Ranked
<1> QED
  BY <1>5 DEF W

-----------------------------------------------------------------------------
(* The invariant. *)

TableTypes ==
  /\ day \in FirstDay..MaxDay /\ market \in {"open", "closed"}
  /\ bars = [s \in Symbols |-> bars[s]]
  /\ \A s \in Symbols : /\ DOMAIN bars[s] \subseteq 1..day
                       /\ bars[s] \in [DOMAIN bars[s] -> Bar]
  /\ \A s \in Symbols : missed[s] \in Bar \cup {None}
  /\ listed = [symbols |-> listed.symbols, flagged |-> listed.flagged]
  /\ listed.symbols \subseteq Symbols /\ listed.flagged \subseteq Symbols
  /\ DOMAIN master \subseteq Symbols

ListTypes ==
  /\ chain \in {"waiting", "collected", "failed", "built"}
  /\ range # Idle => /\ range.days \in Seq(1..day) /\ range.days # <<>>
                     /\ range = [stage |-> "running", days |-> range.days,
                                 scope |-> range.scope]
  /\ snapshots = [d \in Days |-> snapshots[d]]
  /\ daytrade = [d \in Days |-> daytrade[d]]
  /\ first = [d \in Days |-> first[d]]
  /\ \A d \in Days : Ranked(snapshots[d], EXIT_RANK) /\ Ranked(daytrade[d], TOP_N)
  /\ last \in Days \cup {None}

\* What build_snapshot() gives in the structural scope, from what could be known
\* on the day.
PastSeries(known, s) ==
  LET days == InOrder(DOMAIN known.bars[s])
  IN [i \in DOMAIN days |-> known.bars[s][days[i]]]

PastPasses(known, s, d) ==
  LET series == PastSeries(known, s)
  IN /\ series # <<>>
     /\ d - Max(DOMAIN known.bars[s]) <= RECENCY_LIMIT_DAYS
     /\ ~HasRecentHalt(series) /\ ~IsPenny(series) /\ IsLiquid(series)
     /\ Len(series) >= LOOKBACK_BARS + 1
     /\ series[Len(series) - LOOKBACK_BARS].close > 0

PastList(known, d) ==
  Watchlist([s \in {x \in known.symbols : IsCollectable(x, d) /\ PastPasses(known, x, d)} |->
               MomentumScore(PastSeries(known, s))],
            known.previous)

\* The first list of a day is what its past gives.
FirstFromPast ==
  \A d \in Days : first[d] # None => first[d].list = PastList(first[d].known, d)

UniverseInv == TableTypes /\ ListTypes /\ FirstFromPast /\ BuildRepeatsThePast

-----------------------------------------------------------------------------
(* Lists. *)

\* The series of a symbol: bars, the last of them at or before the day.
LEMMA SeriesOf ==
  ASSUME TableTypes, NEW s \in Symbols, NEW d \in Nat
  PROVE  Series(s, d) \in Seq(Bar)
<1> DEFINE stored == BarsUpTo(s, d)
           D      == DOMAIN stored
<1>1. /\ D \subseteq 1..day /\ D \subseteq DOMAIN bars[s]
      /\ \A e \in D : stored[e] \in Bar
  BY DEF BarsUpTo, Restrict, TableTypes
<1>2. day \in Nat
  BY UniverseAssumption DEF TableTypes
<1> HIDE DEF D
<1>3. D \subseteq Nat /\ IsFiniteSet(D)
  <2>1. IsFiniteSet(1..day)
    BY <1>2, FS_Interval
  <2>2. IsFiniteSet(D)
    BY <1>1, <2>1, FS_Subset
  <2>3. 1..day \subseteq Nat
    BY <1>2
  <2> QED
    BY <1>1, <2>2, <2>3
<1>4. Cardinality(D) \in Nat /\ InOrder(D) \in [1..Cardinality(D) -> D]
  BY <1>3, InOrderOf
<1>5. DOMAIN InOrder(D) = 1..Cardinality(D)
  BY <1>4
<1>6. Series(s, d) = [i \in 1..Cardinality(D) |-> stored[InOrder(D)[i]]]
  BY <1>5 DEF Series, D
<1>7. \A i \in 1..Cardinality(D) : stored[InOrder(D)[i]] \in Bar
  BY <1>1, <1>4
<1> QED
  BY <1>4, <1>6, <1>7

\* momentum_score() of enough bars is a number.
LEMMA ScoreIsNumber ==
  ASSUME NEW series \in Seq(Bar), Len(series) >= LOOKBACK_BARS + 1,
         series[Len(series) - LOOKBACK_BARS].close > 0
  PROVE  MomentumScore(series) \in Int
<1>1. /\ SKIP_BARS \in Nat /\ LOOKBACK_BARS \in Nat /\ SKIP_BARS < LOOKBACK_BARS
      /\ Len(series) \in Nat
  BY UniverseAssumption
<1>2. /\ Len(series) - SKIP_BARS \in 1..Len(series)
      /\ Len(series) - LOOKBACK_BARS \in 1..Len(series)
  BY <1>1
<1>3. /\ series[Len(series) - SKIP_BARS] \in Bar
      /\ series[Len(series) - LOOKBACK_BARS] \in Bar
  BY <1>2
<1>4. ASSUME NEW a \in Nat, NEW b \in Nat \ {0}
      PROVE  (a * 1000) \div b \in Int
  OBVIOUS
<1>5. /\ series[Len(series) - SKIP_BARS].close \in Nat
      /\ series[Len(series) - LOOKBACK_BARS].close \in Nat \ {0}
  BY <1>3 DEF Bar
<1> QED
  BY <1>4, <1>5 DEF MomentumScore

LEMMA ScoresAreNumbers ==
  ASSUME TableTypes, NEW d \in Nat, NEW scope
  PROVE  /\ DOMAIN Scores(d, scope) \subseteq Symbols
         /\ Scores(d, scope) \in [DOMAIN Scores(d, scope) -> Int]
<1> DEFINE S == {x \in Candidates(d, scope) : Passes(x, d)}
<1>1. S \subseteq Symbols
  BY DEF Candidates, TableTypes
<1>2. ASSUME NEW s \in S PROVE MomentumScore(Series(s, d)) \in Int
  <2>1. /\ s \in Symbols /\ Len(Series(s, d)) >= LOOKBACK_BARS + 1
        /\ Series(s, d)[Len(Series(s, d)) - LOOKBACK_BARS].close > 0
    BY <1>1 DEF Passes
  <2>2. Series(s, d) \in Seq(Bar)
    BY <2>1, SeriesOf
  <2> QED
    BY <2>1, <2>2, ScoreIsNumber
<1> HIDE DEF S
<1>3. Scores(d, scope) = [s \in S |-> MomentumScore(Series(s, d))]
  BY DEF Scores, S
<1> QED
  BY <1>1, <1>2, <1>3

\* The structural scope looks at nothing but what could be known on the day.
LEMMA StructuralFromPast ==
  ASSUME TableTypes, NEW d \in Nat
  PROVE  Watchlist(Scores(d, "structural"), PreviousWatchlist(d)) = PastList(Known(d), d)
<1> DEFINE K == Known(d)
<1>1. /\ K.previous = PreviousWatchlist(d) /\ K.symbols = DOMAIN master
      /\ \A s \in Symbols : K.bars[s] = BarsUpTo(s, d)
  BY DEF Known
<1> HIDE DEF K
<1>2. \A s \in Symbols : Series(s, d) = PastSeries(K, s)
  BY <1>1 DEF Series, PastSeries
<1>3. \A s \in Symbols : Passes(s, d) <=> PastPasses(K, s, d)
  BY <1>1, <1>2 DEF Passes, PastPasses, LastBar
<1>4. Candidates(d, "structural") = {s \in DOMAIN master : IsCollectable(s, d)}
  BY DEF Candidates
<1>5. {x \in Candidates(d, "structural") : Passes(x, d)}
        = {x \in K.symbols : IsCollectable(x, d) /\ PastPasses(K, x, d)}
  BY <1>1, <1>3, <1>4 DEF TableTypes
<1>6. Scores(d, "structural")
        = [s \in {x \in K.symbols : IsCollectable(x, d) /\ PastPasses(K, x, d)} |->
             MomentumScore(PastSeries(K, s))]
  BY <1>1, <1>2, <1>5 DEF Scores, TableTypes
<1> QED
  BY <1>1, <1>6 DEF PastList, K

\* select() of day trading: symbols with different ranks within TOP_N.
LEMMA SelectIsRanked ==
  ASSUME TableTypes, NEW source
  PROVE  Ranked(Select(source), TOP_N)
<1> DEFINE bar(s)    == bars[s][source]
           L         == {s \in Symbols : source \in DOMAIN bars[s]
                                         /\ bar(s).value >= MIN_AVG_TRADE_VALUE}
           before(s, t) == \/ bar(s).volume > bar(t).volume
                           \/ bar(s).volume = bar(t).volume /\ bar(s).value > bar(t).value
                           \/ /\ bar(s).volume = bar(t).volume
                              /\ bar(s).value = bar(t).value /\ s < t
           A(s)      == {t \in L : before(t, s)}
           rank(s)   == 1 + Cardinality(A(s))
           R         == Select(source)
<1>1. IsFiniteSet(L) /\ L \subseteq Nat /\ L \subseteq Symbols
  <2>1. L \subseteq Symbols
    OBVIOUS
  <2> HIDE DEF L
  <2> QED
    BY <2>1, FS_Subset, UniverseAssumption
<1>2. \A s \in L : s \in Nat /\ bar(s).volume \in Nat /\ bar(s).value \in Nat
  <2>1. ASSUME NEW s \in L PROVE bar(s) \in Bar
    BY DEF TableTypes
  <2> QED
    BY <1>1, <2>1 DEF Bar
<1>3. R = [s \in {x \in L : rank(x) <= TOP_N} |-> rank(s)]
  BY DEF Select
<1> HIDE DEF L, R
<1>4. ASSUME NEW s \in L, NEW t \in L, before(t, s)
      PROVE  rank(s) # rank(t)
  <2>1. ASSUME NEW u \in L, before(u, t) PROVE before(u, s)
    BY <1>2, <1>4, <2>1
  <2>2. A(t) \subseteq A(s)
    BY <2>1
  <2>3. t \in A(s) /\ t \notin A(t)
    BY <1>2, <1>4
  <2>4. A(s) \in SUBSET L /\ A(t) \in SUBSET L
    OBVIOUS
  <2> HIDE DEF A
  <2>5. Cardinality(A(t)) # Cardinality(A(s))
    BY <1>1, <2>2, <2>3, <2>4, OneMore
  <2>6. Cardinality(A(t)) \in Nat /\ Cardinality(A(s)) \in Nat
    BY <1>1, <2>4, FS_Subset, FS_CardinalityType
  <2> QED
    BY <2>5, <2>6
<1>5. ASSUME NEW s \in L, NEW t \in L, s # t
      PROVE  rank(s) # rank(t)
  <2>1. before(t, s) \/ before(s, t)
    BY <1>2, <1>5
  <2> HIDE DEF before, rank
  <2> QED
    BY <1>4, <2>1
<1>6. ASSUME NEW s \in L PROVE rank(s) \in Nat \ {0}
  <2>1. A(s) \in SUBSET L
    OBVIOUS
  <2> HIDE DEF A
  <2> QED
    BY <1>1, <2>1, RankIsPlace
<1>7. /\ DOMAIN R \subseteq L
      /\ \A s \in DOMAIN R : R[s] = rank(s) /\ rank(s) <= TOP_N
  <2> HIDE DEF rank
  <2> QED
    BY <1>3
<1> HIDE DEF rank
<1>8. \A s \in DOMAIN R : R[s] \in 1..TOP_N
  BY <1>6, <1>7, UniverseAssumption
<1>9. \A s, t \in DOMAIN R : s # t => R[s] # R[t]
  BY <1>5, <1>7
<1> QED
  BY <1>1, <1>7, <1>8, <1>9 DEF Ranked, R

-----------------------------------------------------------------------------
(* The invariant holds at the beginning, and every step keeps it. *)

LEMMA EmptyIsRanked ==
  ASSUME NEW limit
  PROVE  Ranked(<<>>, limit)
<1>1. DOMAIN <<>> = {}
  OBVIOUS
<1> QED
  BY <1>1 DEF Ranked

LEMMA InvInit ==
  Init => UniverseInv
<1> SUFFICES ASSUME Init PROVE UniverseInv
  OBVIOUS
<1>1. TableTypes
  <2>1. \A s \in Symbols : /\ DOMAIN bars[s] \subseteq 1..day
                           /\ bars[s] \in [DOMAIN bars[s] -> Bar]
    <3>1. 1..(FirstDay - 1) \subseteq 1..FirstDay
      BY UniverseAssumption
    <3> QED
      BY <3>1, UniverseAssumption DEF Init
  <2>2. day \in FirstDay..MaxDay
    BY UniverseAssumption DEF Init
  <2>3. bars = [s \in Symbols |-> bars[s]]
    BY UniverseAssumption DEF Init
  <2>4. DOMAIN master \subseteq Symbols
    BY DEF Init
  <2> QED
    BY <2>1, <2>2, <2>3, <2>4 DEF Init, TableTypes
<1>2. ListTypes
  BY EmptyIsRanked DEF Init, ListTypes
<1>3. FirstFromPast
  BY DEF Init, FirstFromPast
<1>4. BuildRepeatsThePast
  BY DEF Init, BuildRepeatsThePast
<1> QED
  BY <1>1, <1>2, <1>3, <1>4 DEF UniverseInv

\* The day that is built is a trading day.
LEMMA EffectiveDateOf ==
  ASSUME TableTypes, NEW asOf, \E e \in TradingDays : e <= asOf
  PROVE  EffectiveDate(asOf) \in 1..day /\ EffectiveDate(asOf) \in Days
<1> DEFINE D == {d \in TradingDays : d <= asOf}
<1>1. day \in Nat /\ day <= MaxDay /\ MaxDay \in Nat
  BY UniverseAssumption DEF TableTypes
<1>2. D \subseteq 1..day /\ D # {}
  BY DEF TradingDays, TableTypes
<1> HIDE DEF D
<1>3. D \subseteq 0..day
  BY <1>1, <1>2
<1>4. Max(D) \in 1..day
  BY <1>1, <1>2, <1>3, MaxOfDays
<1> QED
  BY <1>1, <1>4 DEF EffectiveDate, D, Days

\* build_snapshot() keeps what is known of the lists, and repeats the past.
LEMMA BuildKeeps ==
  ASSUME UniverseInv, NEW asOf, NEW scope, BuildSnapshot(asOf, scope)
  PROVE  /\ snapshots' = [d \in Days |-> snapshots'[d]]
         /\ first' = [d \in Days |-> first'[d]]
         /\ \A d \in Days : Ranked(snapshots'[d], EXIT_RANK)
         /\ last' \in Days \cup {None}
         /\ \A d \in Days : first'[d] # None => first'[d].list = PastList(first'[d].known, d)
         /\ last' # None => snapshots'[last'] = first'[last'].list
<1> USE DEF UniverseInv
<1> DEFINE b    == EffectiveDate(asOf)
           list == Watchlist(Scores(b, scope), PreviousWatchlist(b))
           new  == [known |-> Known(b), list |-> list]
<1>1. /\ snapshots' = [snapshots EXCEPT ![b] = list]
      /\ first' = IF first[b] = None /\ scope = "structural"
                  THEN [first EXCEPT ![b] = new] ELSE first
      /\ last' = IF scope = "structural" /\ first'[b].known = Known(b) THEN b ELSE None
  BY DEF BuildSnapshot
<1>2. b \in Days /\ b \in Nat
  <2>1. b \in 1..day /\ b \in Days
    BY EffectiveDateOf DEF BuildSnapshot
  <2> QED
    BY <2>1
<1>3. Ranked(list, EXIT_RANK)
  BY <1>2, ScoresAreNumbers, WatchlistIsRanked
<1>4. scope = "structural" => list = PastList(Known(b), b)
  BY <1>2, StructuralFromPast
<1>5. new.known = Known(b) /\ new.list = list
  OBVIOUS
<1> HIDE DEF b, list, new
<1>6. /\ snapshots' = [d \in Days |-> snapshots'[d]] /\ snapshots'[b] = list
      /\ \A d \in Days : d # b => snapshots'[d] = snapshots[d]
  BY <1>1, <1>2 DEF ListTypes
<1>7. /\ first' = [d \in Days |-> first'[d]]
      /\ \A d \in Days : d # b => first'[d] = first[d]
      /\ first'[b] = IF first[b] = None /\ scope = "structural" THEN new ELSE first[b]
  BY <1>1, <1>2 DEF ListTypes
<1>8. \A d \in Days : Ranked(snapshots'[d], EXIT_RANK)
  BY <1>3, <1>6 DEF ListTypes
<1>9. last' \in Days \cup {None}
  BY <1>1, <1>2
<1>10. \A d \in Days : first'[d] # None => first'[d].list = PastList(first'[d].known, d)
  BY <1>4, <1>5, <1>7 DEF FirstFromPast
<1>11. ASSUME last' # None PROVE snapshots'[last'] = first'[last'].list
  <2>1. scope = "structural" /\ first'[b].known = Known(b) /\ last' = b
    BY <1>1, <1>11
  <2>2. CASE first[b] = None
    BY <1>5, <1>6, <1>7, <2>1, <2>2
  <2>3. CASE first[b] # None
    BY <1>2, <1>4, <1>6, <1>7, <2>1, <2>3 DEF FirstFromPast
  <2> QED
    BY <2>2, <2>3
<1> QED
  BY <1>6, <1>7, <1>8, <1>9, <1>10, <1>11

\* A step that builds nothing keeps what is known of the first lists.
LEMMA NothingBuilt ==
  ASSUME UniverseInv, first' = first, last' = None
  PROVE  FirstFromPast' /\ BuildRepeatsThePast'
<1>1. FirstFromPast'
  BY DEF UniverseInv, FirstFromPast
<1> QED
  BY <1>1 DEF BuildRepeatsThePast

\* Days in ascending order are a command to build them.
LEMMA DaysToBuild ==
  ASSUME TableTypes, NEW D, D \subseteq 1..day, D # {}
  PROVE  InOrder(D) \in Seq(1..day) /\ InOrder(D) # <<>>
<1>1. day \in Nat
  BY UniverseAssumption DEF TableTypes
<1>2. IsFiniteSet(D) /\ D \subseteq Nat
  <2>1. IsFiniteSet(1..day)
    BY <1>1, FS_Interval
  <2>2. IsFiniteSet(D)
    BY <2>1, FS_Subset
  <2>3. 1..day \subseteq Nat
    BY <1>1
  <2> QED
    BY <2>2, <2>3
<1>3. Cardinality(D) \in Nat /\ InOrder(D) \in [1..Cardinality(D) -> D]
  BY <1>2, InOrderOf
<1>4. Cardinality(D) # 0
  BY <1>2, FS_EmptySet
<1>5. InOrder(D) \in Seq(D) /\ Len(InOrder(D)) = Cardinality(D)
  BY <1>3
<1>6. InOrder(D) \in Seq(1..day)
  BY <1>5, SeqOfMore
<1> QED
  BY <1>3, <1>4, <1>5, <1>6

LEMMA InvNext ==
  UniverseInv /\ [Next]_vars => UniverseInv'
<1> SUFFICES ASSUME UniverseInv, [Next]_vars PROVE UniverseInv'
  OBVIOUS
<1> USE DEF UniverseInv
<1>1. ASSUME CollectPrices PROVE UniverseInv'
  <2>1. PICK got \in SUBSET {s \in Symbols : missed[s] # None} :
          /\ bars' = [s \in Symbols |->
               IF s \in got THEN WithBar(s, day, missed[s]) ELSE bars[s]]
          /\ missed' = [s \in Symbols |-> IF s \in got THEN None ELSE missed[s]]
          /\ chain' = IF missed' = [s \in Symbols |-> None] THEN "collected" ELSE "failed"
    BY <1>1 DEF CollectPrices
  <2>2. /\ UNCHANGED <<day, market, listed, master, range, snapshots, daytrade, first>>
        /\ last' = None
    BY <1>1 DEF CollectPrices
  <2>3. day \in Nat /\ day \in 1..day
    BY UniverseAssumption DEF TableTypes
  <2>4. ASSUME NEW s \in Symbols
        PROVE  /\ DOMAIN bars'[s] \subseteq 1..day
               /\ bars'[s] \in [DOMAIN bars'[s] -> Bar]
    <3>1. CASE s \in got
      <4>1. /\ missed[s] \in Bar /\ DOMAIN bars[s] \subseteq 1..day
            /\ bars[s] \in [DOMAIN bars[s] -> Bar]
        BY <3>1 DEF TableTypes
      <4>2. bars'[s] = WithBar(s, day, missed[s])
        BY <2>1, <3>1
      <4>3. /\ DOMAIN WithBar(s, day, missed[s]) \subseteq 1..day
            /\ WithBar(s, day, missed[s]) \in [DOMAIN WithBar(s, day, missed[s]) -> Bar]
        BY <2>3, <4>1, WithBarAdds
      <4> QED
        BY <4>2, <4>3
    <3>2. CASE s \notin got
      BY <2>1, <3>2 DEF TableTypes
    <3> QED
      BY <3>1, <3>2
  <2>5. \A s \in Symbols : missed'[s] \in Bar \cup {None}
    BY <2>1 DEF TableTypes
  <2>6. TableTypes'
    BY <2>1, <2>2, <2>4, <2>5 DEF TableTypes
  <2>7. ListTypes'
    BY <2>1, <2>2 DEF ListTypes
  <2> QED
    BY <2>2, <2>6, <2>7, NothingBuilt
<1>2. ASSUME BuildDaily PROVE UniverseInv'
  <2>1. /\ BuildSnapshot(day, "structural") /\ chain' = "built"
        /\ UNCHANGED <<day, market, bars, missed, listed, master, range, daytrade>>
    BY <1>2 DEF BuildDaily
  <2>2. TableTypes'
    BY <2>1 DEF TableTypes
  <2> QED
    BY <2>1, <2>2, BuildKeeps DEF ListTypes, FirstFromPast, BuildRepeatsThePast
<1>3. ASSUME BuildByHand PROVE UniverseInv'
  <2>1. PICK asOf \in FirstDay..day, scope \in {"structural", "tradeable_now"} :
          BuildSnapshot(asOf, scope)
    BY <1>3 DEF BuildByHand
  <2>2. UNCHANGED <<day, market, bars, missed, listed, master, chain, range, daytrade>>
    BY <1>3 DEF BuildByHand
  <2>3. TableTypes'
    BY <2>2 DEF TableTypes
  <2> QED
    BY <2>1, <2>2, <2>3, BuildKeeps DEF ListTypes, FirstFromPast, BuildRepeatsThePast
<1>4. ASSUME StartRange PROVE UniverseInv'
  <2>1. PICK from \in FirstDay..day, scope \in {"structural", "tradeable_now"} :
          LET days == {d \in TradingDays : from <= d /\ d <= day}
          IN /\ days # {}
             /\ range' = [stage |-> "running", days |-> InOrder(days), scope |-> scope]
             /\ snapshots' = [d \in Days |-> IF d \in from..day THEN <<>> ELSE snapshots[d]]
    BY <1>4 DEF StartRange
  <2> DEFINE days == {d \in TradingDays : from <= d /\ d <= day}
  <2>2. /\ UNCHANGED <<day, market, bars, missed, listed, master, chain, daytrade, first>>
        /\ last' = None
    BY <1>4 DEF StartRange
  <2>3. days \subseteq 1..day /\ days # {}
    BY <2>1 DEF TradingDays, TableTypes
  <2> HIDE DEF days
  <2>4. InOrder(days) \in Seq(1..day) /\ InOrder(days) # <<>>
    BY <2>3, DaysToBuild
  <2>5. range' = [stage |-> "running", days |-> InOrder(days), scope |-> scope]
    BY <2>1 DEF days
  <2>6. /\ range'.days \in Seq(1..day') /\ range'.days # <<>>
        /\ range' = [stage |-> "running", days |-> range'.days, scope |-> range'.scope]
    BY <2>2, <2>4, <2>5
  <2>7. \A d \in Days : Ranked(snapshots'[d], EXIT_RANK)
    BY <2>1, EmptyIsRanked DEF ListTypes
  <2>8. snapshots' = [d \in Days |-> snapshots'[d]]
    BY <2>1
  <2>9. TableTypes'
    BY <2>2 DEF TableTypes
  <2>10. ListTypes'
    BY <2>2, <2>6, <2>7, <2>8 DEF ListTypes
  <2> QED
    BY <2>2, <2>9, <2>10, NothingBuilt
<1>5. ASSUME BuildNext PROVE UniverseInv'
  <2>1. /\ range # Idle /\ BuildSnapshot(Head(range.days), range.scope)
        /\ range' = IF Tail(range.days) = <<>> THEN Idle
                    ELSE [range EXCEPT !.days = Tail(@)]
        /\ UNCHANGED <<day, market, bars, missed, listed, master, chain, daytrade>>
    BY <1>5 DEF BuildNext
  <2>2. TableTypes'
    BY <2>1 DEF TableTypes
  <2>3. range' # Idle => /\ range'.days \in Seq(1..day') /\ range'.days # <<>>
                         /\ range' = [stage |-> "running", days |-> range'.days,
                                      scope |-> range'.scope]
    <3> SUFFICES ASSUME range' # Idle
                 PROVE  /\ range'.days \in Seq(1..day') /\ range'.days # <<>>
                        /\ range' = [stage |-> "running", days |-> range'.days,
                                     scope |-> range'.scope]
      OBVIOUS
    <3>1. Tail(range.days) # <<>> /\ Tail(range.days) \in Seq(1..day)
      BY <2>1 DEF ListTypes
    <3>2. range = [stage |-> "running", days |-> range.days, scope |-> range.scope]
      BY <2>1 DEF ListTypes
    <3>3. range' = [stage |-> "running", days |-> Tail(range.days), scope |-> range.scope]
      <4>1. ASSUME NEW a, NEW b, NEW c, NEW e
            PROVE  [[stage |-> a, days |-> b, scope |-> c] EXCEPT !.days = e]
                     = [stage |-> a, days |-> e, scope |-> c]
        OBVIOUS
      <4>2. range' = [range EXCEPT !.days = Tail(range.days)]
        BY <2>1, <3>1
      <4>3. PICK e : e = Tail(range.days)
        OBVIOUS
      <4>4. PICK b, c : range = [stage |-> "running", days |-> b, scope |-> c]
        BY <3>2
      <4>5. range' = [[stage |-> "running", days |-> b, scope |-> c] EXCEPT !.days = e]
        BY <4>2, <4>3, <4>4
      <4>6. range' = [stage |-> "running", days |-> e, scope |-> c] /\ c = range.scope
        BY <4>1, <4>4, <4>5
      <4> QED
        BY <4>3, <4>6
    <3> QED
      BY <2>1, <3>1, <3>3
  <2> QED
    BY <2>1, <2>2, <2>3, BuildKeeps DEF ListTypes, FirstFromPast, BuildRepeatsThePast
<1>6. ASSUME StopRange PROVE UniverseInv'
  <2>1. /\ range' = Idle /\ last' = None
        /\ UNCHANGED <<day, market, tables, missed, listed, chain, first>>
    BY <1>6 DEF StopRange
  <2>2. TableTypes' /\ ListTypes'
    BY <2>1 DEF TableTypes, ListTypes, tables
  <2> QED
    BY <2>1, <2>2, NothingBuilt
<1>7. ASSUME CollectMaster PROVE UniverseInv'
  <2>1. PICK m \in {Market[s] : s \in Symbols} : master' = Refreshed(m)
    BY <1>7 DEF CollectMaster
  <2>2. /\ UNCHANGED <<day, market, bars, missed, listed, chain, range, snapshots,
                       daytrade, first>>
        /\ last' = None
    BY <1>7 DEF CollectMaster
  <2>3. DOMAIN master' \subseteq Symbols
    BY <2>1 DEF Refreshed, TableTypes
  <2>4. TableTypes'
    BY <2>2, <2>3 DEF TableTypes
  <2>5. ListTypes'
    BY <2>2 DEF ListTypes
  <2> QED
    BY <2>2, <2>4, <2>5, NothingBuilt
<1>8. ASSUME BuildDaytrade PROVE UniverseInv'
  <2>1. /\ daytrade' = [daytrade EXCEPT ![day] = DaytradeList(day)] /\ last' = None
        /\ UNCHANGED <<day, market, bars, missed, listed, master, chain, range,
                       snapshots, first>>
    BY <1>8 DEF BuildDaytrade
  <2>2. day \in Days
    BY UniverseAssumption DEF TableTypes, Days
  <2>3. Ranked(DaytradeList(day), TOP_N)
    BY <2>2, SelectIsRanked DEF DaytradeList, ListTypes
  <2>4. /\ daytrade' = [d \in Days |-> daytrade'[d]]
        /\ \A d \in Days : Ranked(daytrade'[d], TOP_N)
    BY <2>1, <2>2, <2>3 DEF ListTypes
  <2>5. TableTypes'
    BY <2>1 DEF TableTypes
  <2>6. ListTypes'
    BY <2>1, <2>4 DEF ListTypes
  <2> QED
    BY <2>1, <2>5, <2>6, NothingBuilt
<1>9. ASSUME Close PROVE UniverseInv'
  <2>1. PICK shape \in Shapes :
          missed' = [s \in Symbols |-> IF s \in listed.symbols THEN shape[s] ELSE None]
    BY <1>9 DEF Close
  <2>2. /\ market' = "closed" /\ last' = None
        /\ UNCHANGED <<day, tables, listed, chain, range, first>>
    BY <1>9 DEF Close
  <2>3. \A s \in Symbols : missed'[s] \in Bar \cup {None}
    BY <2>1, UniverseAssumption
  <2>4. TableTypes'
    BY <2>2, <2>3 DEF TableTypes, tables
  <2>5. ListTypes'
    BY <2>2 DEF ListTypes, tables
  <2> QED
    BY <2>2, <2>4, <2>5, NothingBuilt
<1>10. ASSUME NextDay PROVE UniverseInv'
  <2>1. /\ day < MaxDay /\ day' = day + 1 /\ market' = "open" /\ chain' = "waiting"
        /\ bars' = [s \in Symbols |->
             IF missed[s] = None THEN bars[s] ELSE WithBar(s, day, missed[s])]
        /\ missed' = [s \in Symbols |-> None] /\ last' = None
        /\ UNCHANGED <<listed, master, range, snapshots, daytrade, first>>
    BY <1>10 DEF NextDay
  <2>2. day \in Nat /\ day \in 1..day /\ 1..day \subseteq 1..day'
    BY <2>1, UniverseAssumption DEF TableTypes
  <2>3. ASSUME NEW s \in Symbols
        PROVE  /\ DOMAIN bars'[s] \subseteq 1..day'
               /\ bars'[s] \in [DOMAIN bars'[s] -> Bar]
    <3>1. /\ DOMAIN bars'[s] \subseteq 1..day
          /\ bars'[s] \in [DOMAIN bars'[s] -> Bar]
      <4>1. CASE missed[s] # None
        <5>1. /\ missed[s] \in Bar /\ DOMAIN bars[s] \subseteq 1..day
              /\ bars[s] \in [DOMAIN bars[s] -> Bar]
          BY <4>1 DEF TableTypes
        <5>2. bars'[s] = WithBar(s, day, missed[s])
          BY <2>1, <4>1
        <5>3. /\ DOMAIN WithBar(s, day, missed[s]) \subseteq 1..day
              /\ WithBar(s, day, missed[s]) \in [DOMAIN WithBar(s, day, missed[s]) -> Bar]
          BY <2>2, <5>1, WithBarAdds
        <5> QED
          BY <5>2, <5>3
      <4>2. CASE missed[s] = None
        BY <2>1, <4>2 DEF TableTypes
      <4> QED
        BY <4>1, <4>2
    <3> QED
      BY <2>2, <3>1
  <2>4. day' \in FirstDay..MaxDay
    BY <2>1, UniverseAssumption DEF TableTypes
  <2>5. TableTypes'
    BY <2>1, <2>3, <2>4 DEF TableTypes
  <2>6. range' # Idle => range'.days \in Seq(1..day')
    BY <2>1, <2>2 DEF ListTypes
  <2>7. ListTypes'
    BY <2>1, <2>6 DEF ListTypes
  <2> QED
    BY <2>1, <2>5, <2>7, NothingBuilt
<1>11. ASSUME NEW s \in Symbols, Restate(s) PROVE UniverseInv'
  <2> DEFINE row == [d \in DOMAIN bars[s] |-> Restated(bars[s][d])]
  <2>1. /\ bars' = [bars EXCEPT ![s] = row] /\ last' = None
        /\ UNCHANGED <<day, market, missed, listed, master, chain, range, snapshots,
                       daytrade, first>>
    BY <1>11 DEF Restate
  <2>2. row \in [DOMAIN bars[s] -> Bar]
    <3>1. ASSUME NEW b \in Bar PROVE Restated(b) \in Bar
      <4>1. 2 * b.close \in Nat /\ b.volume \div 2 \in Nat /\ b.value \in Nat
        BY DEF Bar
      <4> QED
        BY <4>1 DEF Bar, Restated
    <3>2. \A d \in DOMAIN bars[s] : bars[s][d] \in Bar
      BY DEF TableTypes
    <3> QED
      BY <3>1, <3>2
  <2>3. DOMAIN row = DOMAIN bars[s]
    OBVIOUS
  <2> HIDE DEF row
  <2>4. bars'[s] = row /\ \A t \in Symbols : t # s => bars'[t] = bars[t]
    BY <2>1 DEF TableTypes
  <2>5. \A t \in Symbols : /\ DOMAIN bars'[t] \subseteq 1..day
                           /\ bars'[t] \in [DOMAIN bars'[t] -> Bar]
    BY <2>2, <2>3, <2>4 DEF TableTypes
  <2>6. bars' = [t \in Symbols |-> bars'[t]]
    BY <2>1 DEF TableTypes
  <2>7. TableTypes'
    BY <2>1, <2>5, <2>6 DEF TableTypes
  <2>8. ListTypes'
    BY <2>1 DEF ListTypes
  <2> QED
    BY <2>1, <2>7, <2>8, NothingBuilt
<1>12. ASSUME NEW s \in Symbols, ChangeListing(s) PROVE UniverseInv'
  <2>1. /\ \/ listed' = [listed EXCEPT !.flagged = (@ \cup {s}) \ (@ \cap {s})]
           \/ listed' = [listed EXCEPT !.symbols = @ \ {s}]
        /\ last' = None
        /\ UNCHANGED <<day, market, tables, missed, chain, range, first>>
    BY <1>12 DEF ChangeListing
  <2>2. /\ listed' = [symbols |-> listed'.symbols, flagged |-> listed'.flagged]
        /\ listed'.symbols \subseteq Symbols /\ listed'.flagged \subseteq Symbols
    BY <2>1 DEF TableTypes
  <2>3. TableTypes'
    BY <2>1, <2>2 DEF TableTypes, tables
  <2>4. ListTypes'
    BY <2>1 DEF ListTypes, tables
  <2> QED
    BY <2>1, <2>3, <2>4, NothingBuilt
<1>13. ASSUME UNCHANGED vars PROVE UniverseInv'
  BY <1>13 DEF vars, ghosts, TableTypes, ListTypes, FirstFromPast, BuildRepeatsThePast
<1> QED
  BY <1>1, <1>2, <1>3, <1>4, <1>5, <1>6, <1>7, <1>8, <1>9, <1>10, <1>11, <1>12, <1>13
     DEF Next

-----------------------------------------------------------------------------
(* The theorems. *)

THEOREM UniverseInvariant ==
  Spec => []UniverseInv
BY InvInit, InvNext, PTL DEF Spec

\* The tables and the commands stay well-formed; a list has different ranks, and
\* is never longer than EXIT_RANK, or TOP_N for day trading (core/watchlist.py,
\* data/daytrade_universe.py).
THEOREM TablesAreWellFormed ==
  Spec => []TypeOK
<1>1. UniverseInv => TypeOK
  <2> SUFFICES ASSUME UniverseInv PROVE TypeOK
    OBVIOUS
  <2>1. 1..day \subseteq Days
    BY UniverseAssumption DEF UniverseInv, TableTypes, Days
  <2>2. \A s \in Symbols : DOMAIN bars[s] \subseteq Days
    BY <2>1 DEF UniverseInv, TableTypes
  <2>3. range = Idle \/ range.days \in Seq(Days)
    BY <2>1, SeqOfMore DEF UniverseInv, ListTypes
  <2> QED
    BY <2>2, <2>3 DEF UniverseInv, TableTypes, ListTypes, TypeOK
<1> QED
  BY <1>1, UniverseInvariant, PTL

\* Whatever was collected, restated, flagged or delisted since, and in whatever
\* order lists were built, deleted and built again: a structural build repeats
\* the first build of its day if what could be known on the day is the same
\* (data/universe.py: build_snapshot() with StructuralInfo).
THEOREM BuildsRepeatThePast ==
  Spec => []BuildRepeatsThePast
<1>1. UniverseInv => BuildRepeatsThePast
  BY DEF UniverseInv
<1> QED
  BY <1>1, UniverseInvariant, PTL

\* A stored day trading list is returned as it is, and never chosen again
\* (data/daytrade_universe.py: build_snapshot()).
THEOREM DaytradeListsAreFixed ==
  Spec => DaytradeListIsFixed
<1>1. ASSUME UniverseInv, [Next]_vars
      PROVE  [\A d \in Days : daytrade[d] # <<>> => daytrade'[d] = daytrade[d]]_vars
  <2>1. CASE BuildDaytrade
    <3>1. daytrade' = [daytrade EXCEPT ![day] = DaytradeList(day)]
      BY <2>1 DEF BuildDaytrade
    <3> QED
      BY <1>1, <3>1 DEF DaytradeList, UniverseInv, ListTypes
  <2>2. CASE ~BuildDaytrade
    <3>1. daytrade' = daytrade \/ UNCHANGED vars
      BY <1>1, <2>2
         DEF Next, CollectPrices, BuildDaily, BuildByHand, StartRange, BuildNext,
             StopRange, CollectMaster, Close, NextDay, Restate, ChangeListing, tables
    <3> QED
      BY <3>1
  <2> QED
    BY <2>1, <2>2
<1> QED
  BY <1>1, UniverseInvariant, PTL DEF Spec, DaytradeListIsFixed

=============================================================================
