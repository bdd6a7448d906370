--------------------------- MODULE BacktestProofs ---------------------------
(***************************************************************************)
(* Theorems about Backtest, for every set of symbols, events and prices,   *)
(* every configuration and every number of cycles.                         *)
(***************************************************************************)
EXTENDS Backtest, FiniteSetTheorems, TLAPS

-----------------------------------------------------------------------------
(* Sums.  What follows about SumFunctionOnSet() holds for all numbers.     *)

LEMMA LeastOf ==
  ASSUME NEW S, S \subseteq Nat, S # {}
  PROVE  \E x \in S : \A y \in S : x <= y
<1>1. \E x \in S : \A y \in S : <<y, x>> \notin OpToRel(<, Nat)
  BY NatLessThanWellFounded, WFMin
<1>2. PICK x \in S : \A y \in S : <<y, x>> \notin OpToRel(<, Nat)
  BY <1>1
<1>3. ASSUME NEW y \in S PROVE x <= y
  <2>1. ~ (y < x)
    BY <1>2 DEF OpToRel
  <2> QED
    BY <2>1
<1> QED
  BY <1>2, <1>3

\* Induction, for a set of numbers.
LEMMA NumbersByInduction ==
  ASSUME NEW N, 0 \in N, \A n \in Nat : n \in N => n + 1 \in N
  PROVE  Nat \subseteq N
<1> SUFFICES ASSUME Nat \ N # {} PROVE FALSE
  OBVIOUS
<1>1. PICK n \in Nat \ N : \A m \in Nat \ N : n <= m
  BY LeastOf
<1>2. n # 0 /\ n - 1 \in Nat
  BY <1>1
<1>3. n - 1 \in N
  <2>1. n - 1 \notin Nat \ N
    BY <1>1, <1>2
  <2> QED
    BY <1>2, <2>1
<1>4. (n - 1) + 1 \in N
  BY <1>2, <1>3
<1> QED
  BY <1>1, <1>2, <1>4

\* The element a sum over S takes first.
Taken(S) == CHOOSE x \in S : TRUE

\* g has the sums of f over the sets of F.
AreSums(g, f, F) ==
  g = [s \in F |-> IF s = {} THEN 0 ELSE f[Taken(s)] + g[s \ {Taken(s)}]]

AreAllSums(g, f, S) == AreSums(g, f, SUBSET S)

LEMMA SumFunctionOnSetDef ==
  ASSUME NEW f, NEW S
  PROVE  SumFunctionOnSet(f, S) = (CHOOSE g : AreAllSums(g, f, S))[S]
BY DEF SumFunctionOnSet, FoldFunctionOnSet, MapThenFoldSet, AreAllSums, AreSums,
   Taken

LEMMA OneLess ==
  ASSUME NEW S, IsFiniteSet(S), NEW x \in S
  PROVE  /\ IsFiniteSet(S \ {x}) /\ Cardinality(S) \in Nat
         /\ Cardinality(S \ {x}) \in Nat
         /\ Cardinality(S \ {x}) = Cardinality(S) - 1
BY FS_RemoveElement, FS_CardinalityType

LEMMA SumsExist ==
  ASSUME NEW f, NEW S, IsFiniteSet(S)
  PROVE  \E g : AreAllSums(g, f, S)
<1> DEFINE F(n) == {s \in SUBSET S : Cardinality(s) <= n}
           N == {n \in Nat : \E g : AreSums(g, f, F(n))}
<1>1. \A s \in SUBSET S : IsFiniteSet(s) /\ Cardinality(s) \in Nat
  BY FS_Subset, FS_CardinalityType
<1>2. \A s \in SUBSET S : s # {} => /\ Taken(s) \in s /\ s \ {Taken(s)} \in SUBSET S
                                    /\ Cardinality(s \ {Taken(s)}) = Cardinality(s) - 1
  <2>1. ASSUME NEW s \in SUBSET S, s # {}
        PROVE  /\ Taken(s) \in s /\ s \ {Taken(s)} \in SUBSET S
               /\ Cardinality(s \ {Taken(s)}) = Cardinality(s) - 1
    <3>1. Taken(s) \in s
      BY <2>1 DEF Taken
    <3>2. Cardinality(s \ {Taken(s)}) = Cardinality(s) - 1
      BY <1>1, <3>1, OneLess
    <3> QED
      BY <3>1, <3>2
  <2> QED
    BY <2>1
<1>3. 0 \in N
  <2>1. \A s \in F(0) : s = {}
    BY <1>1, FS_EmptySet
  <2>2. AreSums([s \in F(0) |-> 0], f, F(0))
    <3> HIDE DEF F
    <3> QED
      BY <2>1 DEF AreSums
  <2> HIDE DEF F
  <2> QED
    BY <2>2
<1>4. ASSUME NEW n \in Nat, n \in N PROVE n + 1 \in N
  <2>1. PICK g : AreSums(g, f, F(n))
    BY <1>4
  <2> DEFINE h == [s \in F(n + 1) |->
                     IF s = {} THEN 0 ELSE f[Taken(s)] + g[s \ {Taken(s)}]]
  <2>2. F(n) \subseteq F(n + 1)
    BY <1>1
  <2>3. \A s \in F(n + 1) : s # {} => s \ {Taken(s)} \in F(n)
    BY <1>1, <1>2
  <2> HIDE DEF F
  <2>4. \A s \in F(n) : h[s] = g[s]
    BY <2>1, <2>2 DEF AreSums
  <2>5. AreSums(h, f, F(n + 1))
    BY <2>3, <2>4 DEF AreSums
  <2> HIDE DEF h
  <2> QED
    BY <2>5
<1> HIDE DEF N
<1>5. Nat \subseteq N
  BY <1>3, <1>4, NumbersByInduction
<1>6. Cardinality(S) \in N
  BY <1>1, <1>5
<1>7. F(Cardinality(S)) = SUBSET S
  <2>1. \A s \in SUBSET S : Cardinality(s) <= Cardinality(S)
    BY FS_Subset
  <2> QED
    BY <2>1
<1>8. \E g : AreSums(g, f, F(Cardinality(S)))
  BY <1>6 DEF N
<1> QED
  BY <1>7, <1>8 DEF AreAllSums

LEMMA SumsAreOne ==
  ASSUME NEW f, NEW S, IsFiniteSet(S), NEW T, T \subseteq S,
         NEW g, AreAllSums(g, f, S), NEW h, AreAllSums(h, f, T)
  PROVE  g[T] = h[T]
<1> DEFINE N == {n \in Nat : \A s \in SUBSET T : Cardinality(s) = n => g[s] = h[s]}
<1>1. \A s \in SUBSET T : IsFiniteSet(s) /\ Cardinality(s) \in Nat /\ s \in SUBSET S
  BY FS_Subset, FS_CardinalityType
<1>2. \A s \in SUBSET T : /\ g[s] = IF s = {} THEN 0 ELSE f[Taken(s)] + g[s \ {Taken(s)}]
                          /\ h[s] = IF s = {} THEN 0 ELSE f[Taken(s)] + h[s \ {Taken(s)}]
  BY <1>1 DEF AreAllSums, AreSums
<1>3. 0 \in N
  <2>1. \A s \in SUBSET T : Cardinality(s) = 0 => s = {}
    BY <1>1, FS_EmptySet
  <2> QED
    BY <1>2, <2>1
<1>4. ASSUME NEW n \in Nat, n \in N PROVE n + 1 \in N
  <2>1. ASSUME NEW s \in SUBSET T, Cardinality(s) = n + 1 PROVE g[s] = h[s]
    <3>1. s # {}
      BY <1>1, <2>1, FS_EmptySet
    <3>2. Taken(s) \in s
      BY <3>1 DEF Taken
    <3>3. Cardinality(s \ {Taken(s)}) = n
      BY <1>1, <2>1, <3>2, OneLess
    <3>4. g[s \ {Taken(s)}] = h[s \ {Taken(s)}]
      BY <1>4, <3>3
    <3> QED
      BY <1>2, <3>1, <3>4
  <2> QED
    BY <2>1
<1> HIDE DEF N
<1>5. Cardinality(T) \in N
  BY <1>1, <1>3, <1>4, NumbersByInduction
<1> QED
  BY <1>5 DEF N

LEMMA SumTakesFirst ==
  ASSUME NEW f, NEW S, IsFiniteSet(S)
  PROVE  SumFunctionOnSet(f, S) =
           IF S = {} THEN 0 ELSE f[Taken(S)] + SumFunctionOnSet(f, S \ {Taken(S)})
<1> DEFINE T == S \ {Taken(S)}
           g == CHOOSE g : AreAllSums(g, f, S)
           h == CHOOSE h : AreAllSums(h, f, T)
<1>1. IsFiniteSet(T) /\ T \subseteq S
  BY FS_Subset
<1>2. AreAllSums(g, f, S)
  BY SumsExist
<1>3. AreAllSums(h, f, T)
  <2> HIDE DEF T
  <2> QED
    BY <1>1, SumsExist
<1>4. SumFunctionOnSet(f, S) = g[S] /\ SumFunctionOnSet(f, T) = h[T]
  BY SumFunctionOnSetDef
<1> HIDE DEF g, h
<1>5. g[T] = h[T]
  <2> HIDE DEF T
  <2> QED
    BY <1>1, <1>2, <1>3, SumsAreOne
<1>6. g[S] = IF S = {} THEN 0 ELSE f[Taken(S)] + g[T]
  <2>1. S \in SUBSET S
    OBVIOUS
  <2> QED
    BY <1>2, <2>1 DEF AreAllSums, AreSums
<1> HIDE DEF T
<1>7. SumFunctionOnSet(f, S) = IF S = {} THEN 0 ELSE f[Taken(S)] + SumFunctionOnSet(f, T)
  BY <1>4, <1>5, <1>6
<1> QED
  BY <1>7 DEF T

\* A sum of numbers of a set that is closed under addition is in the set.
LEMMA SumStaysIn ==
  ASSUME NEW R, 0 \in R, \A i, j \in R : i + j \in R,
         NEW f, NEW S, IsFiniteSet(S), \A x \in S : f[x] \in R
  PROVE  SumFunctionOnSet(f, S) \in R
<1> DEFINE Sum(s) == SumFunctionOnSet(f, s)
           N == {n \in Nat : \A s \in SUBSET S : Cardinality(s) = n => Sum(s) \in R}
<1>1. \A s \in SUBSET S : IsFiniteSet(s) /\ Cardinality(s) \in Nat
  BY FS_Subset, FS_CardinalityType
<1>2. \A s \in SUBSET S : Sum(s) = IF s = {} THEN 0 ELSE f[Taken(s)] + Sum(s \ {Taken(s)})
  BY <1>1, SumTakesFirst
<1> HIDE DEF Sum
<1>3. 0 \in N
  <2>1. \A s \in SUBSET S : Cardinality(s) = 0 => s = {}
    BY <1>1, FS_EmptySet
  <2>2. \A s \in SUBSET S : Cardinality(s) = 0 => Sum(s) = 0
    BY <1>2, <2>1
  <2> QED
    BY <2>2
<1>4. ASSUME NEW n \in Nat, n \in N PROVE n + 1 \in N
  <2>1. ASSUME NEW s \in SUBSET S, Cardinality(s) = n + 1 PROVE Sum(s) \in R
    <3>1. s # {}
      BY <1>1, <2>1, FS_EmptySet
    <3>2. Taken(s) \in s
      BY <3>1 DEF Taken
    <3>3. Cardinality(s \ {Taken(s)}) = n
      BY <1>1, <2>1, <3>2, OneLess
    <3>4. Sum(s \ {Taken(s)}) \in R /\ f[Taken(s)] \in R
      BY <1>4, <3>2, <3>3
    <3> QED
      BY <1>2, <3>1, <3>4
  <2> QED
    BY <2>1
<1> HIDE DEF N
<1>5. Cardinality(S) \in N
  BY <1>1, <1>3, <1>4, NumbersByInduction
<1> QED
  BY <1>5 DEF N, Sum

LEMMA SumIsInt ==
  ASSUME NEW f, NEW S, IsFiniteSet(S), \A x \in S : f[x] \in Int
  PROVE  SumFunctionOnSet(f, S) \in Int
<1>1. 0 \in Int /\ \A i, j \in Int : i + j \in Int
  OBVIOUS
<1> QED
  BY <1>1, SumStaysIn

LEMMA SumIsNat ==
  ASSUME NEW f, NEW S, IsFiniteSet(S), \A x \in S : f[x] \in Nat
  PROVE  SumFunctionOnSet(f, S) \in Nat
<1>1. 0 \in Nat /\ \A i, j \in Nat : i + j \in Nat
  OBVIOUS
<1> QED
  BY <1>1, SumStaysIn

LEMMA SumOfZeros ==
  ASSUME NEW f, NEW S, IsFiniteSet(S), \A x \in S : f[x] = 0
  PROVE  SumFunctionOnSet(f, S) = 0
<1>1. 0 \in {0} /\ \A i, j \in {0} : i + j \in {0}
  OBVIOUS
<1>2. \A x \in S : f[x] \in {0}
  OBVIOUS
<1>3. SumFunctionOnSet(f, S) \in {0}
  BY <1>1, <1>2, SumStaysIn
<1> QED
  BY <1>3

\* A sum may take any of its elements first.
LEMMA SumTakesAny ==
  ASSUME NEW f, NEW S, IsFiniteSet(S), \A x \in S : f[x] \in Int, NEW e \in S
  PROVE  SumFunctionOnSet(f, S) = f[e] + SumFunctionOnSet(f, S \ {e})
<1> DEFINE Sum(s) == SumFunctionOnSet(f, s)
           N == {n \in Nat : \A s \in SUBSET S : Cardinality(s) = n =>
                               \A x \in s : Sum(s) = f[x] + Sum(s \ {x})}
<1>1. \A s \in SUBSET S : IsFiniteSet(s) /\ Cardinality(s) \in Nat
  BY FS_Subset, FS_CardinalityType
<1>2. \A s \in SUBSET S : s # {} => Sum(s) = f[Taken(s)] + Sum(s \ {Taken(s)})
  BY <1>1, SumTakesFirst
<1>3. \A s \in SUBSET S : Sum(s) \in Int
  <2>1. ASSUME NEW s \in SUBSET S PROVE Sum(s) \in Int
    <3>1. IsFiniteSet(s) /\ \A x \in s : f[x] \in Int
      BY <1>1
    <3> QED
      BY <3>1, SumIsInt
  <2> QED
    BY <2>1
<1> HIDE DEF Sum
<1>4. 0 \in N
  BY <1>1, FS_EmptySet
<1>5. ASSUME NEW n \in Nat, n \in N PROVE n + 1 \in N
  <2>1. ASSUME NEW s \in SUBSET S, Cardinality(s) = n + 1, NEW x \in s
        PROVE  Sum(s) = f[x] + Sum(s \ {x})
    <3> DEFINE c == Taken(s)
    <3>1. c \in s /\ Sum(s) = f[c] + Sum(s \ {c})
      BY <1>2 DEF Taken
    <3> HIDE DEF c
    <3>2. CASE x # c
      <4>1. \A y \in s : Cardinality(s \ {y}) = n /\ s \ {y} \in SUBSET S
        BY <1>1, <2>1, OneLess
      <4>2. Sum(s \ {c}) = f[x] + Sum((s \ {c}) \ {x})
        BY <1>5, <3>1, <3>2, <4>1
      <4>3. Sum(s \ {x}) = f[c] + Sum((s \ {x}) \ {c})
        BY <1>5, <3>1, <3>2, <4>1
      <4>4. Sum((s \ {c}) \ {x}) = Sum((s \ {x}) \ {c})
        <5>1. (s \ {c}) \ {x} = (s \ {x}) \ {c}
          OBVIOUS
        <5> QED
          BY <5>1, Zenon
      <4>5. Sum((s \ {x}) \ {c}) \in Int /\ f[x] \in Int /\ f[c] \in Int
        BY <1>3, <3>1
      <4> QED
        BY <3>1, <4>2, <4>3, <4>4, <4>5
    <3> QED
      BY <3>1, <3>2
  <2> QED
    BY <2>1
<1> HIDE DEF N
<1>6. Cardinality(S) \in N
  BY <1>1, <1>4, <1>5, NumbersByInduction
<1> QED
  BY <1>6 DEF N, Sum

\* Sums of the same numbers are the same.
LEMMA SumOfEqual ==
  ASSUME NEW f, NEW g, NEW S, IsFiniteSet(S), \A x \in S : f[x] = g[x]
  PROVE  SumFunctionOnSet(f, S) = SumFunctionOnSet(g, S)
<1> DEFINE N == {n \in Nat : \A s \in SUBSET S : Cardinality(s) = n =>
                               SumFunctionOnSet(f, s) = SumFunctionOnSet(g, s)}
<1>1. \A s \in SUBSET S : IsFiniteSet(s) /\ Cardinality(s) \in Nat
  BY FS_Subset, FS_CardinalityType
<1>2. 0 \in N
  <2>1. \A s \in SUBSET S : Cardinality(s) = 0 => s = {}
    BY <1>1, FS_EmptySet
  <2> QED
    BY <2>1, FS_EmptySet, SumTakesFirst
<1>3. ASSUME NEW n \in Nat, n \in N PROVE n + 1 \in N
  <2>1. ASSUME NEW s \in SUBSET S, Cardinality(s) = n + 1
        PROVE  SumFunctionOnSet(f, s) = SumFunctionOnSet(g, s)
    <3>1. s # {}
      BY <1>1, <2>1, FS_EmptySet
    <3>2. Taken(s) \in s
      BY <3>1 DEF Taken
    <3>3. Cardinality(s \ {Taken(s)}) = n
      BY <1>1, <2>1, <3>2, OneLess
    <3>4. SumFunctionOnSet(f, s \ {Taken(s)}) = SumFunctionOnSet(g, s \ {Taken(s)})
      BY <1>3, <3>3
    <3> QED
      BY <1>1, <3>1, <3>2, <3>4, SumTakesFirst
  <2> QED
    BY <2>1
<1> HIDE DEF N
<1>4. Cardinality(S) \in N
  BY <1>1, <1>2, <1>3, NumbersByInduction
<1> QED
  BY <1>4 DEF N

\* One number is changed: so is the sum.
LEMMA SumAfterChange ==
  ASSUME NEW f, NEW g, NEW S, IsFiniteSet(S),
         \A x \in S : f[x] \in Int /\ g[x] \in Int,
         NEW e, \A x \in S : x # e => g[x] = f[x]
  PROVE  SumFunctionOnSet(g, S) =
           IF e \in S THEN SumFunctionOnSet(f, S) + (g[e] - f[e]) ELSE SumFunctionOnSet(f, S)
<1>1. CASE e \in S
  <2>1. IsFiniteSet(S \ {e})
    BY FS_RemoveElement
  <2>2. SumFunctionOnSet(f, S) = f[e] + SumFunctionOnSet(f, S \ {e})
    BY <1>1, SumTakesAny
  <2>3. SumFunctionOnSet(g, S) = g[e] + SumFunctionOnSet(g, S \ {e})
    BY <1>1, SumTakesAny
  <2>4. SumFunctionOnSet(f, S \ {e}) = SumFunctionOnSet(g, S \ {e})
    BY <2>1, SumOfEqual
  <2>5. SumFunctionOnSet(f, S \ {e}) \in Int
    BY <2>1, SumIsInt
  <2> QED
    BY <1>1, <2>2, <2>3, <2>4, <2>5
<1>2. CASE e \notin S
  BY <1>2, SumOfEqual
<1> QED
  BY <1>1, <1>2

\* A sum over two parts.
LEMMA SumOfParts ==
  ASSUME NEW f, NEW S, IsFiniteSet(S), \A x \in S : f[x] \in Int, NEW T \in SUBSET S
  PROVE  SumFunctionOnSet(f, S) = SumFunctionOnSet(f, T) + SumFunctionOnSet(f, S \ T)
<1> DEFINE Sum(s) == SumFunctionOnSet(f, s)
           N == {n \in Nat : \A s \in SUBSET T : Cardinality(s) = n =>
                               Sum(S) = Sum(s) + Sum(S \ s)}
<1>1. \A s \in SUBSET S : IsFiniteSet(s) /\ Cardinality(s) \in Nat
  BY FS_Subset, FS_CardinalityType
<1>2. \A s \in SUBSET S : Sum(s) \in Int /\ \A x \in s : Sum(s) = f[x] + Sum(s \ {x})
  <2>1. ASSUME NEW s \in SUBSET S
        PROVE  Sum(s) \in Int /\ \A x \in s : Sum(s) = f[x] + Sum(s \ {x})
    <3>1. IsFiniteSet(s) /\ \A x \in s : f[x] \in Int
      BY <1>1
    <3> QED
      BY <3>1, SumIsInt, SumTakesAny
  <2> QED
    BY <2>1
<1>3. Sum({}) = 0
  BY FS_EmptySet, SumTakesFirst
<1> HIDE DEF Sum
<1>4. 0 \in N
  <2>1. \A s \in SUBSET T : Cardinality(s) = 0 => s = {}
    BY <1>1, FS_EmptySet
  <2>2. S \ {} = S /\ Sum(S) \in Int
    BY <1>2
  <2>3. Sum(S) = Sum({}) + Sum(S \ {})
    <3>1. Sum(S \ {}) = Sum(S)
      BY <2>2, Zenon
    <3> QED
      BY <1>3, <2>2, <3>1
  <2>4. \A s \in SUBSET T : Cardinality(s) = 0 => Sum(S) = Sum(s) + Sum(S \ s)
    BY <2>1, <2>3, Zenon
  <2> QED
    BY <2>4
<1>5. ASSUME NEW n \in Nat, n \in N PROVE n + 1 \in N
  <2>1. ASSUME NEW s \in SUBSET T, Cardinality(s) = n + 1 PROVE Sum(S) = Sum(s) + Sum(S \ s)
    <3>1. s # {}
      BY <1>1, <2>1, FS_EmptySet
    <3>2. PICK x \in s : TRUE
      BY <3>1
    <3>3. Cardinality(s \ {x}) = n
      BY <1>1, <2>1, <3>2, OneLess
    <3>4. Sum(S) = Sum(s \ {x}) + Sum(S \ (s \ {x}))
      BY <1>5, <3>3
    <3>5. Sum(s) = f[x] + Sum(s \ {x})
      BY <1>2, <3>2
    <3>6. Sum(S \ (s \ {x})) = f[x] + Sum((S \ (s \ {x})) \ {x})
      BY <1>2, <3>2
    <3>7. Sum((S \ (s \ {x})) \ {x}) = Sum(S \ s)
      <4>1. (S \ (s \ {x})) \ {x} = S \ s
        BY <3>2
      <4> QED
        BY <4>1, Zenon
    <3>8. f[x] \in Int /\ Sum(s \ {x}) \in Int /\ Sum(S \ s) \in Int
      BY <1>2, <3>2
    <3> QED
      BY <3>4, <3>5, <3>6, <3>7, <3>8
  <2> QED
    BY <2>1
<1> HIDE DEF N
<1>6. Cardinality(T) \in N
  BY <1>1, <1>4, <1>5, NumbersByInduction
<1> QED
  BY <1>6 DEF N, Sum

-----------------------------------------------------------------------------
(* The two books: the inductive invariant. *)

BookTypes ==
  /\ phase \in Phases
  /\ holdings \in [Symbols -> Nat] /\ heldQty \in [Symbols -> Nat]
  /\ held \in [Symbols -> Meta \cup {None}]
  /\ nextBar \in [Symbols -> Bar \cup {None}]
  /\ plan \subseteq Order /\ results \subseteq Result
  /\ newEvents \subseteq Events
  /\ \A r \in results : Counts(r) => r.at \in BarTimes

\* Orders and results are there while the cycle needs them.
InPlace ==
  /\ phase \in {"start", "decide", "book", "done"} => plan = {}
  /\ phase \in {"start", "decide", "settle", "done"} => results = {}

\* A cycle has one order of a symbol, submitted or not, and a sale is of all shares.
OneOrderEach ==
  /\ \A x, y \in plan : x.symbol = y.symbol => x = y
  /\ \A r, t \in results : r.order.symbol = t.order.symbol => r = t
  /\ \A x \in plan, r \in results : x.symbol # r.order.symbol
  /\ \A x \in plan : x.side = "sell" => x.qty = heldQty[x.symbol]
  /\ \A r \in results : r.order.side = "sell" => r.order.qty = heldQty[r.order.symbol]

\* The shares of a symbol after a result of the cycle.
After(r) ==
  LET q == heldQty[r.order.symbol] IN
  CASE r.status # "filled"     -> q
    [] r.status = "filled" /\ r.order.side = "buy"  -> q + r.order.qty
    [] r.status = "filled" /\ r.order.side = "sell" -> 0

Unbooked(s) == \E r \in results : r.order.symbol = s

\* The broker is ahead of the driver by exactly the results not booked yet.
BrokerIsAhead ==
  /\ \A r \in results : holdings[r.order.symbol] = After(r)
  /\ phase \in {"decide", "settle", "fill"} =>
       \A s \in Symbols : ~Unbooked(s) => holdings[s] = heldQty[s]

DriverKnows ==
  \A s \in Symbols :
    held[s] # None <=>
      IF phase \in {"start", "done"} \/ (phase = "book" /\ ~Unbooked(s))
      THEN holdings[s] > 0
      ELSE heldQty[s] > 0

BookInv == BookTypes /\ InPlace /\ OneOrderEach /\ BrokerIsAhead /\ DriverKnows

LEMMA InitBookInv == Init => BookInv
<1> SUFFICES ASSUME Init PROVE BookInv
  OBVIOUS
<1>1. BookTypes /\ InPlace /\ OneOrderEach
  BY DEF Init, BrokerInit, BookTypes, InPlace, OneOrderEach, Phases
<1>2. BrokerIsAhead /\ DriverKnows
  BY DEF Init, BrokerInit, BrokerIsAhead, DriverKnows
<1> QED
  BY <1>1, <1>2 DEF BookInv

LEMMA BookInvIsEnough == BookInv => BooksAgree
<1> SUFFICES ASSUME BookInv PROVE BooksAgree
  OBVIOUS
<1>1. phase = "start" => HeldSymbols = BrokerSymbols
  BY DEF BookInv, DriverKnows, HeldSymbols, BrokerSymbols
<1>2. ASSUME phase \in {"settle", "fill"}, NEW x \in plan, x.side = "sell"
      PROVE  x.qty <= holdings[x.symbol]
  <2>1. x.symbol \in Symbols /\ x.qty \in Nat /\ ~Unbooked(x.symbol)
    BY DEF BookInv, BookTypes, Order, OneOrderEach, Unbooked
  <2> QED
    BY <1>2, <2>1 DEF BookInv, OneOrderEach, BrokerIsAhead
<1>3. ASSUME NEW r \in results, phase = "book", r.order.side = "sell"
      PROVE  held[r.order.symbol] # None
  <2>1. r.order.symbol \in Symbols /\ r.order.qty \in Nat \ {0} /\ Unbooked(r.order.symbol)
    BY DEF BookInv, BookTypes, Order, Result, Unbooked
  <2> QED
    BY <1>3, <2>1 DEF BookInv, OneOrderEach, DriverKnows
<1> QED
  BY <1>1, <1>2, <1>3 DEF BooksAgree

-----------------------------------------------------------------------------
(* Steps. *)

\* A step between two phases that moves neither book, plan nor results.
LEMMA SameBooks ==
  ASSUME BookInv, phase' \in Phases,
         UNCHANGED <<holdings, heldQty, held, nextBar, plan, results, newEvents>>
  PROVE  BookTypes' /\ OneOrderEach'
BY DEF BookInv, BookTypes, OneOrderEach, Counts

\* What every fill does to the driver's side.
LEMMA FillStep ==
  ASSUME BookInv, phase = "fill", NEW x \in plan, NEW status \in {"filled", "rejected", "unknown"},
         NEW at \in BarTimes \cup {None}, status = "filled" => at \in BarTimes,
         Returned(x, status, at),
         nextBar' \in [Symbols -> Bar \cup {None}],
         holdings' \in [Symbols -> Nat],
         \A s \in Symbols \ {x.symbol} : holdings'[s] = holdings[s],
         status # "filled" => holdings'[x.symbol] = holdings[x.symbol],
         status = "filled" /\ x.side = "buy" => holdings'[x.symbol] = holdings[x.symbol] + x.qty,
         status = "filled" /\ x.side = "sell" => holdings'[x.symbol] = holdings[x.symbol] - x.qty
  PROVE  BookInv'
<1> DEFINE new == [order |-> x, status |-> status, at |-> at]
<1>1. /\ plan' = plan \ {x} /\ results' = results \cup {new} /\ phase' = "fill"
      /\ UNCHANGED <<held, heldQty, newEvents>>
  BY DEF Returned
<1>2. /\ x \in Order /\ x.symbol \in Symbols /\ x.side \in {"buy", "sell"} /\ x.qty \in Nat \ {0}
      /\ new \in Result
  BY DEF BookInv, BookTypes, Order, Result
<1>3. new.order = x /\ new.status = status /\ new.at = at
  OBVIOUS
<1> HIDE DEF new
<1>4. BookTypes'
  BY <1>1, <1>2, <1>3 DEF BookInv, BookTypes, Phases, Counts
<1>5. InPlace'
  BY <1>1 DEF InPlace
<1>6. OneOrderEach'
  BY <1>1, <1>3 DEF BookInv, OneOrderEach
<1>7. holdings[x.symbol] = heldQty[x.symbol]
  BY <1>2 DEF BookInv, BrokerIsAhead, OneOrderEach, Unbooked
<1>8. holdings'[x.symbol] = After(new)'
  <2>1. x.side = "sell" => holdings[x.symbol] - x.qty = 0
    BY <1>2, <1>7 DEF BookInv, OneOrderEach, BookTypes
  <2> QED
    BY <1>1, <1>2, <1>3, <1>7, <2>1 DEF After
<1>9. BrokerIsAhead'
  <2>1. ASSUME NEW r \in results PROVE holdings'[r.order.symbol] = After(r)'
    <3>1. r.order.symbol # x.symbol /\ r.order.symbol \in Symbols
      BY DEF BookInv, OneOrderEach, BookTypes, Result, Order
    <3>2. After(r)' = After(r)
      BY <1>1 DEF After
    <3> QED
      BY <3>1, <3>2 DEF BookInv, BrokerIsAhead
  <2>2. ASSUME NEW s \in Symbols, ~Unbooked(s)' PROVE holdings'[s] = heldQty'[s]
    <3>1. s # x.symbol /\ ~Unbooked(s)
      BY <1>1, <1>3, <2>2 DEF Unbooked
    <3> QED
      BY <1>1, <3>1 DEF BookInv, BrokerIsAhead
  <2> QED
    BY <1>1, <1>3, <1>8, <2>1, <2>2 DEF BrokerIsAhead
<1>10. DriverKnows'
  BY <1>1 DEF BookInv, DriverKnows
<1> QED
  BY <1>4, <1>5, <1>6, <1>9, <1>10 DEF BookInv

\* What every result that is booked does to the driver's side.
LEMMA BookStep ==
  ASSUME BookInv, phase = "book", NEW r \in results, results' = results \ {r},
         UNCHANGED <<phase, holdings, heldQty, nextBar, plan, newEvents>>,
         held' \in [Symbols -> Meta \cup {None}],
         \A s \in Symbols \ {r.order.symbol} : held'[s] = held[s],
         held'[r.order.symbol] # None <=> After(r) > 0
  PROVE  BookInv'
<1>1. BookTypes' /\ InPlace' /\ OneOrderEach'
  BY DEF BookInv, BookTypes, InPlace, OneOrderEach, Counts
<1>2. BrokerIsAhead'
  BY DEF BookInv, BrokerIsAhead, After
<1>3. DriverKnows'
  <2> SUFFICES ASSUME NEW s \in Symbols
               PROVE  held'[s] # None <=> IF Unbooked(s)' THEN heldQty[s] > 0 ELSE holdings[s] > 0
    BY DEF DriverKnows
  <2>1. CASE s = r.order.symbol
    <3>1. ~Unbooked(s)'
      BY <2>1 DEF BookInv, OneOrderEach, Unbooked
    <3> QED
      BY <2>1, <3>1 DEF BookInv, BrokerIsAhead
  <2>2. CASE s # r.order.symbol
    <3>1. Unbooked(s)' <=> Unbooked(s)
      BY <2>2 DEF Unbooked
    <3> QED
      BY <2>2, <3>1 DEF BookInv, DriverKnows
  <2> QED
    BY <2>1, <2>2
<1> QED
  BY <1>1, <1>2, <1>3 DEF BookInv

\* The orders of a cycle: one of a symbol, and sales of all its shares.
LEMMA OrdersAreApart ==
  ASSUME BookInv, phase = "decide",
         NEW signalled \in SUBSET Positions, NEW topUps \in SUBSET (Positions \ signalled),
         NEW E \in Entries, NEW qty \in [Symbols -> 1..MaxQty], GatePasses(signalled, E)
  PROVE  LET orders == OrdersFor(signalled, topUps, E, qty)
         IN /\ orders \subseteq Order
            /\ \A x, y \in orders : x.symbol = y.symbol => x = y
            /\ \A x \in orders : x.side = "sell" => x.qty = heldQty[x.symbol]
<1> DEFINE sales == {Sale(s) : s \in signalled}
           tops == {Purchase(s, held[s].event, qty[s]) : s \in topUps}
           entries == {Purchase(x[1], x[2], qty[x[1]]) : x \in E}
<1>1. \A s \in Positions : /\ s \in Symbols /\ held[s].event \in Events \cup {None}
                           /\ heldQty[s] \in Nat \ {0} /\ qty[s] \in Nat \ {0}
  BY BacktestAssumption DEF Positions, HeldSymbols, BrokerSymbols, BookInv, BookTypes,
     BrokerIsAhead, InPlace, Unbooked, Meta
<1>2. \A x \in E : /\ x[1] \in Symbols /\ x[2] \in Events \cup {None}
                   /\ x[1] \notin Positions /\ qty[x[1]] \in Nat \ {0}
  BY BacktestAssumption DEF Entries, Triggers, GatePasses, BookInv, BookTypes
<1>3. \A x \in sales : x \in Order /\ x.symbol \in signalled /\ x.qty = heldQty[x.symbol]
                       /\ x = Sale(x.symbol)
  BY <1>1 DEF Sale, Order
<1>4. \A x \in tops : x \in Order /\ x.symbol \in topUps /\ x.side = "buy"
                      /\ x = Purchase(x.symbol, held[x.symbol].event, qty[x.symbol])
  BY <1>1 DEF Purchase, Order
<1>5. \A x \in entries : x \in Order /\ x.symbol \notin Positions /\ x.side = "buy"
  BY <1>2 DEF Purchase, Order
<1>6. ASSUME NEW x \in entries, NEW y \in entries, x.symbol = y.symbol PROVE x = y
  <2>1. PICK v \in E : x = Purchase(v[1], v[2], qty[v[1]])
    OBVIOUS
  <2>2. PICK w \in E : y = Purchase(w[1], w[2], qty[w[1]])
    OBVIOUS
  <2>3. v[1] = w[1]
    BY <1>6, <2>1, <2>2 DEF Purchase
  <2>4. v = w
    BY <2>3 DEF Entries
  <2> QED
    BY <2>1, <2>2, <2>4
<1> HIDE DEF sales, tops, entries
<1>7. OrdersFor(signalled, topUps, E, qty) = sales \cup tops \cup entries
  BY DEF OrdersFor, sales, tops, entries
<1> QED
  BY <1>3, <1>4, <1>5, <1>6, <1>7

LEMMA BookStepAll == BookInv /\ [Next]_vars => BookInv'
<1> SUFFICES ASSUME BookInv, [Next]_vars PROVE BookInv'
  OBVIOUS
<1>1. CASE BeginCycle
  <2>1. /\ phase = "start" /\ phase' = "decide" /\ heldQty' = holdings
        /\ newEvents' \subseteq Events
        /\ UNCHANGED <<holdings, nextBar, held, plan, results>>
    BY <1>1 DEF BeginCycle, brokerVars, BookInv, BookTypes
  <2>2. plan = {} /\ results = {}
    BY <2>1 DEF BookInv, InPlace
  <2>3. BookTypes' /\ InPlace' /\ OneOrderEach'
    BY <2>1, <2>2 DEF BookInv, BookTypes, InPlace, OneOrderEach, Phases
  <2>4. BrokerIsAhead' /\ DriverKnows'
    BY <2>1, <2>2 DEF BookInv, BrokerIsAhead, DriverKnows
  <2> QED
    BY <2>3, <2>4 DEF BookInv
<1>2. CASE Decide
  <2>1. /\ phase = "decide" /\ phase' = "settle"
        /\ UNCHANGED <<holdings, nextBar, held, heldQty, results, newEvents>>
        /\ plan' \subseteq Order
        /\ \A x, y \in plan' : x.symbol = y.symbol => x = y
        /\ \A x \in plan' : x.side = "sell" => x.qty = heldQty[x.symbol]
    BY <1>2, OrdersAreApart DEF Decide, brokerVars
  <2>2. results = {}
    BY <2>1 DEF BookInv, InPlace
  <2>3. BookTypes' /\ InPlace' /\ OneOrderEach'
    BY <2>1, <2>2 DEF BookInv, BookTypes, InPlace, OneOrderEach, Phases
  <2>4. BrokerIsAhead' /\ DriverKnows'
    BY <2>1, <2>2 DEF BookInv, BrokerIsAhead, DriverKnows, Unbooked
  <2> QED
    BY <2>3, <2>4 DEF BookInv
<1>3. CASE SettleDue
  <2>1. /\ phase = "settle" /\ phase' = "fill"
        /\ UNCHANGED <<holdings, nextBar, held, heldQty, plan, results, newEvents>>
    BY <1>3 DEF SettleDue, Settle
  <2>2. BookTypes' /\ OneOrderEach'
    BY <2>1, SameBooks DEF Phases
  <2>3. InPlace' /\ BrokerIsAhead' /\ DriverKnows'
    BY <2>1 DEF BookInv, InPlace, BrokerIsAhead, DriverKnows, Unbooked, After
  <2> QED
    BY <2>2, <2>3 DEF BookInv
<1>4. CASE Submitted
  <2>1. /\ phase = "fill" /\ phase' = "book" /\ plan = {}
        /\ UNCHANGED <<holdings, nextBar, held, heldQty, plan, results, newEvents>>
    BY <1>4 DEF Submitted, brokerVars
  <2>2. BookTypes' /\ OneOrderEach'
    BY <2>1, SameBooks DEF Phases
  <2>3. InPlace' /\ BrokerIsAhead' /\ DriverKnows'
    BY <2>1 DEF BookInv, InPlace, BrokerIsAhead, DriverKnows, Unbooked, After
  <2> QED
    BY <2>2, <2>3 DEF BookInv
<1>5. CASE NextCycle \/ EndReplay
  <2>1. /\ phase \in {"start", "book"} /\ results = {} /\ plan = {} /\ phase' \in {"start", "done"}
        /\ UNCHANGED <<holdings, nextBar, held, heldQty, plan, results, newEvents>>
    BY <1>5 DEF NextCycle, EndReplay, brokerVars, BookInv, InPlace
  <2>2. BookTypes' /\ OneOrderEach'
    BY <2>1, SameBooks DEF Phases
  <2>3. InPlace' /\ BrokerIsAhead' /\ DriverKnows'
    BY <2>1 DEF BookInv, InPlace, BrokerIsAhead, DriverKnows, Unbooked
  <2> QED
    BY <2>2, <2>3 DEF BookInv
<1>6. ASSUME NEW x \in plan, Unfilled(x) PROVE BookInv'
  BY <1>6, FillStep DEF Unfilled, FillNothing, BookInv, BookTypes
<1>7. ASSUME NEW x \in plan, NEW bar \in FillBars(x, now),
             Buy(x, bar) \/ Reject(x, bar) \/ Sell(x, bar)
      PROVE  BookInv'
  <2>0. x.symbol \in Symbols /\ x.qty \in Nat \ {0}
    BY DEF BookInv, BookTypes, Order
  <2>1. bar \in Bar /\ bar.at \in BarTimes
    BY <2>0 DEF FillBars, Bar, BookInv, BookTypes
  <2>2. phase = "fill" /\ nextBar' = [nextBar EXCEPT ![x.symbol] = bar]
    BY <1>7 DEF Buy, Reject, Sell, FindBar
  <2>3. nextBar' \in [Symbols -> Bar \cup {None}]
    BY <2>1, <2>2 DEF BookInv, BookTypes
  <2>4. holdings \in [Symbols -> Nat]
    BY DEF BookInv, BookTypes
  <2>5. CASE Buy(x, bar)
    <3>1. x.side = "buy" /\ holdings' = [holdings EXCEPT ![x.symbol] = @ + x.qty]
          /\ Returned(x, "filled", bar.at)
      BY <2>5 DEF Buy, FillBuy
    <3> QED
      BY <2>0, <2>1, <2>2, <2>3, <2>4, <3>1, FillStep
  <2>6. CASE Reject(x, bar)
    <3>1. holdings' = holdings /\ Returned(x, "rejected", None)
      BY <2>6 DEF Reject, RejectBuy
    <3> QED
      BY <2>0, <2>2, <2>3, <2>4, <3>1, FillStep
  <2>7. CASE Sell(x, bar)
    <3>1. /\ x.side = "sell" /\ holdings' = [holdings EXCEPT ![x.symbol] = @ - x.qty]
          /\ holdings[x.symbol] >= x.qty /\ Returned(x, "filled", bar.at)
      BY <2>7 DEF Sell, FillSell
    <3>2. holdings' \in [Symbols -> Nat]
      BY <2>0, <2>4, <3>1
    <3> QED
      BY <2>0, <2>1, <2>2, <2>3, <2>4, <3>1, <3>2, FillStep
  <2> QED
    BY <1>7, <2>5, <2>6, <2>7
<1>8. ASSUME NEW r \in results, BookNothing(r) \/ BookBuy(r) \/ BookSell(r) PROVE BookInv'
  <2> DEFINE s == r.order.symbol
  <2>0. /\ s \in Symbols /\ r.order.qty \in Nat \ {0} /\ r.order.side \in {"buy", "sell"}
        /\ r.order.event \in Events \cup {None} /\ heldQty[s] \in Nat /\ Unbooked(s)
    BY DEF BookInv, BookTypes, Result, Order, Unbooked
  <2>1. /\ phase = "book" /\ results' = results \ {r}
        /\ UNCHANGED <<phase, holdings, heldQty, nextBar, plan, newEvents>>
    BY <1>8 DEF BookNothing, BookBuy, BookSell, brokerVars
  <2>2. held[s] # None <=> heldQty[s] > 0
    BY <2>0, <2>1 DEF BookInv, DriverKnows
  <2>3. held \in [Symbols -> Meta \cup {None}]
    BY DEF BookInv, BookTypes
  <2>4. CASE BookNothing(r)
    <3>1. held' = held /\ After(r) = heldQty[s]
      BY <2>4 DEF BookNothing, Counts, After
    <3> QED
      BY <2>0, <2>1, <2>2, <2>3, <3>1, BookStep
  <2>5. CASE BookBuy(r)
    <3> DEFINE entry == [enteredAt |-> r.at, event |-> r.order.event]
    <3>1. /\ r.status = "filled" /\ r.order.side = "buy"
          /\ held' = IF heldQty[s] = 0 THEN [held EXCEPT ![s] = entry] ELSE held
      BY <2>5 DEF BookBuy, Counts, HeldBefore
    <3>2. After(r) > 0
      BY <2>0, <3>1 DEF After
    <3>3. entry \in Meta /\ entry # None
      <4>1. r.at \in BarTimes
        BY <3>1 DEF BookInv, BookTypes, Counts
      <4>2. entry \in Meta
        BY <2>0, <4>1 DEF Meta
      <4> QED
        BY <4>2, NoneAssumption
    <3> HIDE DEF entry
    <3>4. held' \in [Symbols -> Meta \cup {None}] /\ held'[s] # None
      BY <2>0, <2>2, <2>3, <3>1, <3>3
    <3> QED
      BY <2>0, <2>1, <2>3, <3>1, <3>2, <3>4, BookStep
  <2>6. CASE BookSell(r)
    <3>1. r.status = "filled" /\ r.order.side = "sell" /\ r.order.qty = heldQty[s]
      BY <2>6 DEF BookSell, Counts, BookInv, OneOrderEach
    <3>2. held' = [held EXCEPT ![s] = None]
      BY <2>0, <2>6, <3>1 DEF BookSell, HeldBefore
    <3>3. After(r) = 0
      BY <3>1 DEF After
    <3> QED
      BY <2>0, <2>1, <2>3, <3>2, <3>3, BookStep
  <2> QED
    BY <1>8, <2>4, <2>5, <2>6
<1>9. CASE UNCHANGED vars
  <2>1. UNCHANGED <<phase, holdings, nextBar, held, heldQty, plan, results, newEvents>>
    BY <1>9 DEF vars, brokerVars, replayVars
  <2>2. BookTypes' /\ OneOrderEach'
    BY <2>1, SameBooks DEF BookInv, BookTypes
  <2>3. InPlace' /\ BrokerIsAhead' /\ DriverKnows'
    BY <2>1 DEF BookInv, InPlace, BrokerIsAhead, DriverKnows, Unbooked, After
  <2> QED
    BY <2>2, <2>3 DEF BookInv
<1> QED
  BY <1>1, <1>2, <1>3, <1>4, <1>5, <1>6, <1>7, <1>8, <1>9 DEF Next, Submit, Book, Terminated

\* The broker's shares and the driver's entries stay in step, a sale finds its
\* shares and a closed position its entry, for any number of symbols, events,
\* prices and cycles (apps/backtest.py, _apply_fills(), _reconstruct_positions()).
THEOREM BooksStayInStep == Spec => []BooksAgree
<1>1. Init => BookInv
  BY InitBookInv
<1>2. BookInv /\ [Next]_vars => BookInv'
  BY BookStepAll
<1>3. BookInv => BooksAgree
  BY BookInvIsEnough
<1> QED
  BY <1>1, <1>2, <1>3, PTL DEF Spec

-----------------------------------------------------------------------------
(* Money: the inductive invariant. *)

TradeDays == 0..Day(MaxTime + 1)

MoneyTypes ==
  /\ cfg \in Configs
  /\ now \in 1..(MaxTime + 1) /\ (phase \notin {"start", "done"} => now <= MaxTime)
  /\ cash \in Nat /\ costs \in Nat
  /\ owed \in [Days -> Nat]
  /\ turnover \in [TradeDays -> [bought : Nat, sold : Nat]]

\* What is owed on a day is not more than was sold so many days before.
OwedWasSold ==
  \A d \in Days :
    owed[d] <= IF d >= SettlementDays THEN turnover[d - SettlementDays].sold ELSE 0

Balance ==
  cash + pending_settlement + costs = InitialCash + SoldOn(DOMAIN turnover) - Bought

Settled == {d \in TradeDays : d + SettlementDays <= Day(now)}
Due     == {d \in Days : Matured(d, Day(now))}

\* Cash, with what could be paid out by now, comes from sales of settled days.
CashIsSettled ==
  cash + SumFunctionOnSet(owed, Due) <= InitialCash - Bought + SoldOn(Settled)

MoneyInv == MoneyTypes /\ OwedWasSold /\ Balance /\ CashIsSettled

\* Days follow times.
LEMMA DaysOfTimes ==
  ASSUME MoneyTypes
  PROVE  /\ \A t \in BarTimes : Day(t) \in TradeDays
         /\ \A t \in Times : Day(t + 1) \in {Day(t), Day(t) + 1}
         /\ \A d \in TradeDays : d \in Days /\ d + SettlementDays \in Days
         /\ \A d \in Days : d >= SettlementDays => d - SettlementDays \in TradeDays
         /\ IsFiniteSet(Days) /\ IsFiniteSet(TradeDays)
         /\ TradeDays \subseteq Nat /\ Days \subseteq Nat
<1>1. BarsPerDay \in Nat \ {0} /\ MaxTime \in Nat \ {0} /\ SettlementDays \in Nat
  BY BrokerAssumption DEF MoneyTypes, BarsPerDay
<1>2. \A k \in Nat \ {0}, a \in Nat, b \in Nat :
        /\ a \div k \in Nat
        /\ a <= b => a \div k <= b \div k
        /\ (a + 1) \div k \in {a \div k, (a \div k) + 1}
  OBVIOUS
<1>3. \A t \in BarTimes : Day(t) \in Nat /\ Day(t) <= Day(MaxTime + 1)
  BY <1>1, <1>2 DEF Day, BarTimes
<1>4. \A t \in Times : Day(t + 1) \in {Day(t), Day(t) + 1}
  <2>1. ASSUME NEW t \in Times PROVE Day(t + 1) \in {Day(t), Day(t) + 1}
    <3>1. t - 1 \in Nat /\ (t + 1) - 1 = (t - 1) + 1
      BY <1>1 DEF Times
    <3>2. ((t - 1) + 1) \div BarsPerDay \in {(t - 1) \div BarsPerDay,
                                            ((t - 1) \div BarsPerDay) + 1}
      BY <1>1, <1>2, <3>1
    <3> QED
      BY <3>1, <3>2 DEF Day
  <2> QED
    BY <2>1
<1>5. Day(MaxTime + 1) \in Nat
  BY <1>1, <1>3 DEF BarTimes
<1>6. IsFiniteSet(Days) /\ IsFiniteSet(TradeDays)
  BY <1>1, <1>5, FS_Interval DEF Days, TradeDays, LastDay
<1> QED
  BY <1>1, <1>3, <1>4, <1>5, <1>6 DEF Days, TradeDays, LastDay

LEMMA InitMoneyInv == Init => MoneyInv
<1> SUFFICES ASSUME Init PROVE MoneyInv
  OBVIOUS
<1>1. MoneyTypes
  BY BrokerAssumption DEF Init, BrokerInit, MoneyTypes, TradeDays, Days
<1>2. OwedWasSold
  BY <1>1, DaysOfTimes DEF Init, BrokerInit, OwedWasSold, TradeDays
<1>3. /\ DOMAIN owed = Days /\ DOMAIN turnover = TradeDays /\ Due \subseteq Days
      /\ Settled \subseteq TradeDays /\ IsFiniteSet(Days) /\ IsFiniteSet(TradeDays)
  BY <1>1, DaysOfTimes DEF MoneyTypes, Due, Settled
<1>4. pending_settlement = 0 /\ SumFunctionOnSet(owed, Due) = 0
  <2>1. \A d \in Days : owed[d] = 0
    BY DEF Init, BrokerInit
  <2>2. IsFiniteSet(Due) /\ \A d \in Due : owed[d] = 0
    BY <1>3, <2>1, FS_Subset
  <2> QED
    BY <1>3, <2>1, <2>2, SumOfZeros DEF pending_settlement, SumFunction
<1>5. Bought = 0 /\ SoldOn(DOMAIN turnover) = 0 /\ SoldOn(Settled) = 0
  <2> DEFINE b == [d \in DOMAIN turnover |-> turnover[d].bought]
             s == [d \in DOMAIN turnover |-> turnover[d].sold]
  <2>1. \A d \in TradeDays : b[d] = 0 /\ s[d] = 0
    BY DEF Init, TradeDays
  <2>2. DOMAIN b = TradeDays
    BY <1>3
  <2>3. IsFiniteSet(Settled) /\ \A d \in Settled : s[d] = 0
    BY <1>3, <2>1, FS_Subset
  <2> HIDE DEF b, s
  <2>4. /\ SumFunctionOnSet(b, TradeDays) = 0 /\ SumFunctionOnSet(s, TradeDays) = 0
        /\ SumFunctionOnSet(s, Settled) = 0
    BY <1>3, <2>1, <2>3, SumOfZeros
  <2> QED
    BY <1>3, <2>2, <2>4 DEF Bought, SoldOn, SumFunction, b, s
<1> QED
  BY <1>1, <1>2, <1>4, <1>5, BrokerAssumption
     DEF MoneyInv, Balance, CashIsSettled, Init, BrokerInit

\* What was bought and sold, by day.
BoughtAt(t) == [d \in DOMAIN t |-> t[d].bought]
SoldAt(t)   == [d \in DOMAIN t |-> t[d].sold]

LEMMA TurnoverIsNat ==
  ASSUME NEW X, NEW t \in [X -> [bought : Nat, sold : Nat]]
  PROVE  /\ DOMAIN BoughtAt(t) = X /\ DOMAIN SoldAt(t) = X
         /\ \A d \in X : /\ BoughtAt(t)[d] = t[d].bought /\ BoughtAt(t)[d] \in Nat
                         /\ SoldAt(t)[d] = t[d].sold /\ SoldAt(t)[d] \in Nat
BY DEF BoughtAt, SoldAt

\* The sums of the invariant, as sums over finite sets of days.
MoneySums ==
  /\ Due \in SUBSET Days /\ Settled \in SUBSET TradeDays
  /\ IsFiniteSet(Due) /\ IsFiniteSet(Settled)
  /\ pending_settlement = SumFunctionOnSet(owed, Days)
  /\ Bought = SumFunctionOnSet(BoughtAt(turnover), TradeDays)
  /\ SoldOn(DOMAIN turnover) = SumFunctionOnSet(SoldAt(turnover), TradeDays)
  /\ SoldOn(Settled) = SumFunctionOnSet(SoldAt(turnover), Settled)
  /\ SumFunctionOnSet(owed, Days) \in Nat /\ SumFunctionOnSet(owed, Due) \in Nat
  /\ Bought \in Nat /\ SoldOn(DOMAIN turnover) \in Nat /\ SoldOn(Settled) \in Nat

LEMMA MoneySumsHold == MoneyTypes => MoneySums
<1> SUFFICES ASSUME MoneyTypes PROVE MoneySums
  OBVIOUS
<1>1. /\ DOMAIN owed = Days /\ DOMAIN turnover = TradeDays
      /\ Due \in SUBSET Days /\ Settled \in SUBSET TradeDays
  BY DEF MoneyTypes, Due, Settled
<1>2. /\ IsFiniteSet(Due) /\ IsFiniteSet(Settled)
      /\ IsFiniteSet(Days) /\ IsFiniteSet(TradeDays)
  BY <1>1, DaysOfTimes, FS_Subset
<1>3. /\ DOMAIN BoughtAt(turnover) = TradeDays /\ DOMAIN SoldAt(turnover) = TradeDays
      /\ \A d \in TradeDays : /\ BoughtAt(turnover)[d] \in Nat
                              /\ SoldAt(turnover)[d] \in Nat
  BY TurnoverIsNat DEF MoneyTypes
<1>4. pending_settlement = SumFunctionOnSet(owed, Days)
  BY <1>1, Zenon DEF pending_settlement, SumFunction
<1>5. /\ Bought = SumFunctionOnSet(BoughtAt(turnover), TradeDays)
      /\ SoldOn(DOMAIN turnover) = SumFunctionOnSet(SoldAt(turnover), TradeDays)
      /\ SoldOn(Settled) = SumFunctionOnSet(SoldAt(turnover), Settled)
  <2>1. Bought = SumFunctionOnSet(BoughtAt(turnover), DOMAIN BoughtAt(turnover))
    BY Zenon DEF Bought, SumFunction, BoughtAt
  <2>2. \A D : SoldOn(D) = SumFunctionOnSet(SoldAt(turnover), D)
    BY Zenon DEF SoldOn, SoldAt
  <2> QED
    BY <1>1, <1>3, <2>1, <2>2, Zenon
<1>6. \A d \in Days : owed[d] \in Nat
  BY DEF MoneyTypes
<1>7. SumFunctionOnSet(owed, Days) \in Nat /\ SumFunctionOnSet(owed, Due) \in Nat
  <2>1. \A d \in Due : owed[d] \in Nat
    BY <1>1, <1>6
  <2> QED
    BY <1>2, <1>6, <2>1, SumIsNat
<1>8. Bought \in Nat /\ SoldOn(DOMAIN turnover) \in Nat /\ SoldOn(Settled) \in Nat
  <2>1. \A d \in Settled : SoldAt(turnover)[d] \in Nat
    BY <1>1, <1>3
  <2> QED
    BY <1>2, <1>3, <1>5, <2>1, SumIsNat
<1> QED
  BY <1>1, <1>2, <1>4, <1>5, <1>7, <1>8 DEF MoneySums

\* A trade is entered in the turnover of its day.
Entered(X, t, u, e, v, w) ==
  /\ t \in [X -> [bought : Nat, sold : Nat]] /\ u \in [X -> [bought : Nat, sold : Nat]]
  /\ e \in X /\ v \in Nat /\ w \in Nat
  /\ u[e].bought = t[e].bought + v /\ u[e].sold = t[e].sold + w
  /\ \A d \in X : d # e => u[d] = t[d]

LEMMA LogEnters ==
  ASSUME NEW X, NEW t \in [X -> [bought : Nat, sold : Nat]],
         NEW e \in X, NEW v \in Nat, NEW w \in Nat,
         NEW u, u = [t EXCEPT ![e] = [bought |-> @.bought + v, sold |-> @.sold + w]]
  PROVE  Entered(X, t, u, e, v, w)
<1>1. t[e] \in [bought : Nat, sold : Nat]
  OBVIOUS
<1> QED
  BY <1>1 DEF Entered

\* So are the sums.
LEMMA LogAdds ==
  ASSUME NEW X, NEW t, NEW u, NEW e, NEW v, NEW w, Entered(X, t, u, e, v, w)
  PROVE  \A D \in SUBSET X : IsFiniteSet(D) =>
           /\ SumFunctionOnSet(BoughtAt(u), D) =
                SumFunctionOnSet(BoughtAt(t), D) + (IF e \in D THEN v ELSE 0)
           /\ SumFunctionOnSet(SoldAt(u), D) =
                SumFunctionOnSet(SoldAt(t), D) + (IF e \in D THEN w ELSE 0)
<1> DEFINE bt == BoughtAt(t)  bu == BoughtAt(u)
           st == SoldAt(t)    su == SoldAt(u)
<1>1. \A d \in X : /\ bt[d] = t[d].bought /\ bt[d] \in Int
                   /\ st[d] = t[d].sold /\ st[d] \in Int
  BY TurnoverIsNat DEF Entered
<1>2. \A d \in X : /\ bu[d] = u[d].bought /\ bu[d] \in Int
                   /\ su[d] = u[d].sold /\ su[d] \in Int
  BY TurnoverIsNat DEF Entered
<1>3. t[e].bought \in Nat /\ t[e].sold \in Nat /\ v \in Nat /\ w \in Nat
  BY DEF Entered
<1> HIDE DEF bt, bu, st, su
<1>4. \A d \in X : d # e => bu[d] = bt[d] /\ su[d] = st[d]
  BY <1>1, <1>2 DEF Entered
<1>5. bu[e] - bt[e] = v /\ su[e] - st[e] = w
  BY <1>1, <1>2, <1>3 DEF Entered
<1>6. ASSUME NEW D \in SUBSET X, IsFiniteSet(D)
      PROVE  /\ SumFunctionOnSet(bu, D) =
                  SumFunctionOnSet(bt, D) + (IF e \in D THEN v ELSE 0)
             /\ SumFunctionOnSet(su, D) =
                  SumFunctionOnSet(st, D) + (IF e \in D THEN w ELSE 0)
  <2>1. /\ \A d \in D : bt[d] \in Int /\ bu[d] \in Int
        /\ \A d \in D : st[d] \in Int /\ su[d] \in Int
        /\ \A d \in D : d # e => bu[d] = bt[d]
        /\ \A d \in D : d # e => su[d] = st[d]
    BY <1>1, <1>2, <1>4
  <2>2. SumFunctionOnSet(bt, D) \in Int /\ SumFunctionOnSet(st, D) \in Int
    BY <1>6, <2>1, SumIsInt
  <2>3. SumFunctionOnSet(bu, D) =
          IF e \in D THEN SumFunctionOnSet(bt, D) + (bu[e] - bt[e])
          ELSE SumFunctionOnSet(bt, D)
    BY <1>6, <2>1, SumAfterChange
  <2>4. SumFunctionOnSet(su, D) =
          IF e \in D THEN SumFunctionOnSet(st, D) + (su[e] - st[e])
          ELSE SumFunctionOnSet(st, D)
    BY <1>6, <2>1, SumAfterChange
  <2> QED
    BY <1>5, <2>2, <2>3, <2>4
<1> QED
  BY <1>6 DEF bt, bu, st, su

LEMMA SameDays ==
  ASSUME cfg' = cfg, now' = now
  PROVE  /\ Due' = Due /\ Settled' = Settled /\ Days' = Days /\ TradeDays' = TradeDays
         /\ \A t \in BarTimes : Day(t)' = Day(t)
BY DEF Due, Settled, Matured, Days, TradeDays, LastDay, Day, BarsPerDay

\* A trade on day e takes out of cash, or adds to what is owed, what the turnover
\* and the costs say.
Traded(e, v, w, out, in, fees) ==
  /\ {v, w, out, in, fees} \subseteq Nat
  /\ out <= cash /\ v <= out /\ in <= w /\ in + fees + v = w + out
  /\ UNCHANGED <<cfg, now, phase>>
  /\ turnover' = [turnover EXCEPT ![e] = [bought |-> @.bought + v, sold |-> @.sold + w]]
  /\ cash' = cash - out /\ costs' = costs + fees
  /\ owed' = [owed EXCEPT ![e + SettlementDays] = @ + in]

LEMMA TradeKeepsMoney ==
  ASSUME MoneyInv, NEW e \in TradeDays, NEW v, NEW w, NEW out, NEW in, NEW fees,
         Traded(e, v, w, out, in, fees)
  PROVE  MoneyInv'
<1>0. /\ v \in Nat /\ w \in Nat /\ out \in Nat /\ in \in Nat /\ fees \in Nat
      /\ out <= cash /\ v <= out /\ in <= w /\ in + fees + v = w + out
      /\ cfg' = cfg /\ now' = now /\ phase' = phase
      /\ turnover' = [turnover EXCEPT ![e] = [bought |-> @.bought + v, sold |-> @.sold + w]]
      /\ cash' = cash - out /\ costs' = costs + fees
      /\ owed' = [owed EXCEPT ![e + SettlementDays] = @ + in]
  BY DEF Traded
<1> DEFINE f == e + SettlementDays
<1>1. /\ SettlementDays \in Nat /\ e \in Nat /\ f \in Days /\ f \in Nat
      /\ IsFiniteSet(Days) /\ IsFiniteSet(TradeDays) /\ Days \subseteq Nat
      /\ \A d \in Days : d >= SettlementDays => d - SettlementDays \in TradeDays
  BY DaysOfTimes, BrokerAssumption DEF MoneyInv
<1>2. /\ Due' = Due /\ Settled' = Settled /\ Days' = Days /\ TradeDays' = TradeDays
  BY <1>0, SameDays
<1>3. /\ turnover \in [TradeDays -> [bought : Nat, sold : Nat]] /\ owed \in [Days -> Nat]
      /\ cash \in Nat /\ costs \in Nat
  BY DEF MoneyInv, MoneyTypes
<1>4. Entered(TradeDays, turnover, turnover', e, v, w)
  BY <1>0, <1>3, LogEnters
<1>5. /\ owed' \in [Days -> Nat] /\ owed'[f] = owed[f] + in
      /\ \A d \in Days : d # f => owed'[d] = owed[d]
  BY <1>0, <1>1, <1>3
<1>6. MoneyTypes'
  BY <1>0, <1>2, <1>3, <1>4, <1>5 DEF MoneyInv, MoneyTypes, Entered
<1>7. MoneySums /\ MoneySums'
  <2>1. MoneyTypes => MoneySums
    BY MoneySumsHold
  <2>2. MoneyTypes' => MoneySums'
    BY MoneySumsHold, PTL
  <2> QED
    BY <1>6, <2>1, <2>2 DEF MoneyInv
<1>8. OwedWasSold'
  <2>1. ASSUME NEW d \in Days, d >= SettlementDays
        PROVE  owed'[d] <= turnover'[d - SettlementDays].sold
    <3>1. owed[d] <= turnover[d - SettlementDays].sold /\ d - SettlementDays \in TradeDays
      BY <1>1, <2>1 DEF MoneyInv, OwedWasSold
    <3>2. turnover[d - SettlementDays].sold \in Nat /\ owed[d] \in Nat /\ d \in Nat
      BY <1>1, <1>3, <3>1
    <3>3. CASE d = f
      BY <1>0, <1>1, <1>4, <1>5, <3>1, <3>2, <3>3 DEF Entered
    <3>4. CASE d # f
      <4>1. d - SettlementDays # e
        BY <1>1, <3>2, <3>4
      <4> QED
        BY <1>4, <1>5, <3>1, <3>4, <4>1 DEF Entered
    <3> QED
      BY <3>3, <3>4
  <2>2. ASSUME NEW d \in Days, ~ (d >= SettlementDays)
        PROVE  owed'[d] <= 0
    <3>1. owed[d] <= 0 /\ d # f
      BY <1>1, <2>2 DEF MoneyInv, OwedWasSold
    <3> QED
      BY <1>5, <3>1
  <2> QED
    BY <1>2, <2>1, <2>2 DEF OwedWasSold
<1>9. \A D \in SUBSET TradeDays : IsFiniteSet(D) =>
        /\ SumFunctionOnSet(BoughtAt(turnover'), D) =
             SumFunctionOnSet(BoughtAt(turnover), D) + (IF e \in D THEN v ELSE 0)
        /\ SumFunctionOnSet(SoldAt(turnover'), D) =
             SumFunctionOnSet(SoldAt(turnover), D) + (IF e \in D THEN w ELSE 0)
  BY <1>4, LogAdds
<1>10. \A D \in SUBSET Days : IsFiniteSet(D) =>
         SumFunctionOnSet(owed', D) = SumFunctionOnSet(owed, D) + (IF f \in D THEN in ELSE 0)
  <2>1. ASSUME NEW D \in SUBSET Days, IsFiniteSet(D)
        PROVE  SumFunctionOnSet(owed', D)
                 = SumFunctionOnSet(owed, D) + (IF f \in D THEN in ELSE 0)
    <3> DEFINE o == owed  p == owed'
    <3>1. /\ \A d \in D : o[d] \in Int /\ p[d] \in Int
          /\ \A d \in D : d # f => p[d] = o[d]
          /\ p[f] - o[f] = in
      BY <1>0, <1>1, <1>3, <1>5
    <3> HIDE DEF o, p, f
    <3>2. SumFunctionOnSet(o, D) \in Int
      BY <2>1, <3>1, SumIsInt
    <3>3. SumFunctionOnSet(p, D) =
            IF f \in D THEN SumFunctionOnSet(o, D) + (p[f] - o[f]) ELSE SumFunctionOnSet(o, D)
      BY <2>1, <3>1, SumAfterChange
    <3>4. SumFunctionOnSet(p, D) = SumFunctionOnSet(o, D) + (IF f \in D THEN in ELSE 0)
      BY <3>1, <3>2, <3>3
    <3> QED
      BY <3>4 DEF o, p
  <2> QED
    BY <2>1
<1>11. pending_settlement' = pending_settlement + in /\ Bought' = Bought + v
       /\ SoldOn(DOMAIN turnover)' = SoldOn(DOMAIN turnover) + w
  BY <1>0, <1>1, <1>2, <1>7, <1>9, <1>10 DEF MoneySums
<1>12. f \in Due <=> e \in Settled
  BY <1>1 DEF Due, Settled, Matured
<1>13. /\ SumFunctionOnSet(owed, Due)' = SumFunctionOnSet(owed, Due)
                                           + (IF e \in Settled THEN in ELSE 0)
       /\ SoldOn(Settled)' = SoldOn(Settled) + (IF e \in Settled THEN w ELSE 0)
  BY <1>2, <1>7, <1>9, <1>10, <1>12 DEF MoneySums
<1>14. Balance'
  BY <1>0, <1>3, <1>7, <1>11, BrokerAssumption DEF Balance, MoneyInv, MoneySums
<1>15. CashIsSettled'
  BY <1>0, <1>3, <1>7, <1>11, <1>13, BrokerAssumption DEF CashIsSettled, MoneyInv, MoneySums
<1> QED
  BY <1>6, <1>8, <1>14, <1>15 DEF MoneyInv

\* _settle() pays out all that is due.
LEMMA SettleKeepsMoney ==
  ASSUME MoneyInv, SettleDue
  PROVE  MoneyInv'
<1>1. /\ Due \in SUBSET Days /\ IsFiniteSet(Due) /\ IsFiniteSet(Days)
      /\ IsFiniteSet(Days \ Due) /\ now <= MaxTime
  BY DaysOfTimes, MoneySumsHold, FS_Subset
     DEF MoneyInv, MoneySums, SettleDue, MoneyTypes
<1>2. /\ cash' = cash + SumFunctionOnSet(owed, Due)
      /\ owed' = [d \in Days |-> IF d \in Due THEN 0 ELSE owed[d]]
      /\ UNCHANGED <<cfg, now, costs, turnover>> /\ phase' = "fill"
  <2>1. Due = {d \in Days : Matured(d, Day(now))}
    BY DEF Due
  <2>2. \A d \in Days : Matured(d, Day(now)) <=> d \in Due
    BY <2>1
  <2>3. cash' = cash + SumFunctionOnSet(owed, {d \in Days : Matured(d, Day(now))})
    BY DEF SettleDue, Settle
  <2>4. cash' = cash + SumFunctionOnSet(owed, Due)
    BY <2>3 DEF Due
  <2> QED
    BY <2>2, <2>4 DEF SettleDue, Settle
<1>3. /\ Due' = Due /\ Settled' = Settled /\ Days' = Days /\ TradeDays' = TradeDays
  BY <1>2, SameDays
<1>4. /\ owed \in [Days -> Nat] /\ owed' \in [Days -> Nat] /\ cash \in Nat /\ costs \in Nat
      /\ turnover \in [TradeDays -> [bought : Nat, sold : Nat]]
  BY <1>2 DEF MoneyInv, MoneyTypes
<1>5. MoneySums
  BY MoneySumsHold DEF MoneyInv
<1>6. MoneyTypes'
  <2>1. cash' \in Nat
    BY <1>2, <1>4, <1>5 DEF MoneySums
  <2> QED
    BY <1>1, <1>2, <1>3, <1>4, <2>1 DEF MoneyInv, MoneyTypes
<1>7. MoneySums'
  <2>1. MoneyTypes' => MoneySums'
    BY MoneySumsHold, PTL
  <2> QED
    BY <1>6, <2>1
<1>8. OwedWasSold'
  <2>1. \A d \in Days : owed'[d] <= owed[d] /\ owed'[d] \in Nat /\ owed[d] \in Nat
    BY <1>2, <1>4
  <2>2. ASSUME NEW d \in Days
        PROVE  owed'[d] <= IF d >= SettlementDays THEN turnover[d - SettlementDays].sold ELSE 0
    <3>1. owed[d] <= IF d >= SettlementDays THEN turnover[d - SettlementDays].sold ELSE 0
      BY DEF MoneyInv, OwedWasSold
    <3>2. d >= SettlementDays => turnover[d - SettlementDays].sold \in Nat
      BY <1>4, DaysOfTimes DEF MoneyInv
    <3> QED
      BY <2>1, <3>1, <3>2
  <2> QED
    BY <1>2, <1>3, <2>2 DEF OwedWasSold
<1>9. /\ SumFunctionOnSet(owed', Due) = 0
      /\ SumFunctionOnSet(owed, Days) = SumFunctionOnSet(owed, Due) + SumFunctionOnSet(owed', Days)
  <2> DEFINE o == owed  p == owed'  D == Due  X == Days
  <2>1. /\ D \in SUBSET X /\ IsFiniteSet(D) /\ IsFiniteSet(X) /\ IsFiniteSet(X \ D)
        /\ \A d \in X : o[d] \in Int /\ p[d] \in Int
        /\ \A d \in D : p[d] = 0
        /\ \A d \in X \ D : p[d] = o[d]
    BY <1>1, <1>2, <1>4
  <2> HIDE DEF o, p, D, X
  <2>2. SumFunctionOnSet(p, D) = 0
    BY <2>1, SumOfZeros
  <2>3. SumFunctionOnSet(o, X) = SumFunctionOnSet(o, D) + SumFunctionOnSet(o, X \ D)
    BY <2>1, SumOfParts
  <2>4. SumFunctionOnSet(p, X) = SumFunctionOnSet(p, D) + SumFunctionOnSet(p, X \ D)
    BY <2>1, SumOfParts
  <2>5. SumFunctionOnSet(p, X \ D) = SumFunctionOnSet(o, X \ D)
    BY <2>1, SumOfEqual
  <2>6. SumFunctionOnSet(p, X) \in Int /\ SumFunctionOnSet(p, X \ D) \in Int
    <3>1. \A d \in X \ D : p[d] \in Int
      BY <2>1
    <3> QED
      BY <2>1, <3>1, SumIsInt
  <2>7. SumFunctionOnSet(o, X) = SumFunctionOnSet(o, D) + SumFunctionOnSet(p, X)
    BY <2>2, <2>3, <2>4, <2>5, <2>6
  <2> QED
    BY <2>2, <2>7 DEF o, p, D, X
<1>10. /\ Bought' = Bought /\ SoldOn(DOMAIN turnover)' = SoldOn(DOMAIN turnover)
       /\ SoldOn(Settled)' = SoldOn(Settled)
  BY <1>2, <1>3, <1>5, <1>7 DEF MoneySums
<1>11. Balance'
  BY <1>2, <1>3, <1>4, <1>5, <1>7, <1>9, <1>10 DEF Balance, MoneyInv, MoneySums
<1>12. CashIsSettled'
  BY <1>2, <1>3, <1>4, <1>5, <1>7, <1>9, <1>10 DEF CashIsSettled, MoneyInv, MoneySums
<1> QED
  BY <1>6, <1>8, <1>11, <1>12 DEF MoneyInv

\* The next cycle may be of the next day: what was sold settlement_days before
\* it is settled then, and not less than what becomes due.
LEMMA NextDayKeepsMoney ==
  ASSUME MoneyInv, NextCycle
  PROVE  MoneyInv'
<1>1. /\ UNCHANGED <<cfg, cash, owed, costs, turnover>> /\ now' = now + 1 /\ phase' = "start"
      /\ now \in Times /\ SettlementDays \in Nat
  BY BrokerAssumption DEF NextCycle, brokerVars, MoneyInv, MoneyTypes, Times
<1>2. Days' = Days /\ TradeDays' = TradeDays
  BY <1>1 DEF Days, TradeDays, LastDay, Day, BarsPerDay
<1>3. MoneyTypes'
  BY <1>1, <1>2, BrokerAssumption DEF MoneyInv, MoneyTypes, Times
<1>4. OwedWasSold'
  BY <1>1, <1>2 DEF MoneyInv, OwedWasSold
<1>5. MoneySums /\ MoneySums'
  <2>1. MoneyTypes => MoneySums
    BY MoneySumsHold
  <2>2. MoneyTypes' => MoneySums'
    BY MoneySumsHold, PTL
  <2> QED
    BY <1>3, <2>1, <2>2 DEF MoneyInv
<1>6. /\ pending_settlement' = pending_settlement /\ Bought' = Bought
      /\ SoldOn(DOMAIN turnover)' = SoldOn(DOMAIN turnover)
  BY <1>1, <1>2, <1>5 DEF MoneySums
<1>7. Balance'
  BY <1>1, <1>6 DEF MoneyInv, Balance
<1>8. /\ Day(now) \in Nat /\ Day(now)' = Day(now + 1) /\ Day(now + 1) \in Days
      /\ Day(now + 1) \in {Day(now), Day(now) + 1}
  <2>1. Day(now)' = Day(now + 1)
    BY <1>1 DEF Day, BarsPerDay
  <2>2. now \in BarTimes /\ now + 1 \in BarTimes
    BY <1>1, BrokerAssumption DEF Times, BarTimes
  <2> QED
    BY <1>1, <2>1, <2>2, DaysOfTimes DEF MoneyInv
<1>9. CASE Day(now + 1) = Day(now)
  <2>1. Due' = Due /\ Settled' = Settled
    BY <1>2, <1>8, <1>9 DEF Due, Settled, Matured
  <2>2. SoldOn(Settled)' = SoldOn(Settled)
    BY <1>1, <2>1, <1>5 DEF MoneySums
  <2>3. SumFunctionOnSet(owed, Due)' = SumFunctionOnSet(owed, Due)
    BY <1>1, <2>1
  <2> QED
    BY <1>1, <1>3, <1>4, <1>6, <1>7, <2>2, <2>3 DEF MoneyInv, CashIsSettled
<1>10. CASE Day(now + 1) = Day(now) + 1
  <2> DEFINE e == Day(now) + 1
  <2>1. e \in Days /\ e \in Nat /\ e \notin Due
    BY <1>8, <1>10 DEF Due, Matured
  <2>2. Due' = Due \cup {e}
    BY <1>2, <1>8, <1>10, <2>1, DaysOfTimes DEF Due, Matured, MoneyInv
  <2>3. /\ Due' \ {e} = Due /\ e \in Due' /\ IsFiniteSet(Due') /\ Due' \in SUBSET Days
    BY <1>2, <1>5, <2>1, <2>2 DEF MoneySums
  <2>4. \A d \in Days : owed[d] \in Nat
    BY DEF MoneyInv, MoneyTypes
  <2>5. SumFunctionOnSet(owed, Due') = owed[e] + SumFunctionOnSet(owed, Due)
    <3> DEFINE D == Due'
    <3>1. IsFiniteSet(D) /\ e \in D /\ D \ {e} = Due /\ \A d \in D : owed[d] \in Int
      BY <2>3, <2>4
    <3> HIDE DEF D, e
    <3>2. SumFunctionOnSet(owed, D) = owed[e] + SumFunctionOnSet(owed, D \ {e})
      BY <3>1, SumTakesAny
    <3>3. SumFunctionOnSet(owed, D \ {e}) = SumFunctionOnSet(owed, Due)
      BY <3>1, Zenon
    <3>4. SumFunctionOnSet(owed, D) = owed[e] + SumFunctionOnSet(owed, Due)
      BY <3>2, <3>3
    <3> QED
      BY <3>4 DEF D
  <2>6. \A d \in TradeDays : SoldAt(turnover)[d] \in Nat
                            /\ SoldAt(turnover)[d] = turnover[d].sold
    BY TurnoverIsNat DEF MoneyInv, MoneyTypes
  <2>7. SoldOn(Settled)' >= SoldOn(Settled) + owed[e]
    <3>1. CASE e >= SettlementDays
      <4> DEFINE g == e - SettlementDays
      <4>1. g \in TradeDays /\ g \notin Settled /\ TradeDays \subseteq Nat
        <5>1. /\ \A d \in Days : d >= SettlementDays => d - SettlementDays \in TradeDays
              /\ TradeDays \subseteq Nat
          BY DaysOfTimes DEF MoneyInv
        <5>2. g \in TradeDays
          BY <2>1, <3>1, <5>1
        <5>3. ~ (g + SettlementDays <= Day(now))
          BY <1>1, <1>8
        <5> QED
          BY <5>1, <5>2, <5>3 DEF Settled
      <4>2. Settled' = Settled \cup {g}
        <5>1. \A d \in TradeDays : d + SettlementDays <= Day(now) + 1
                                   <=> d + SettlementDays <= Day(now) \/ d = g
          BY <1>1, <1>8, <4>1
        <5> QED
          BY <1>2, <1>8, <1>10, <4>1, <5>1 DEF Settled
      <4>3. /\ Settled' \ {g} = Settled /\ g \in Settled' /\ IsFiniteSet(Settled')
            /\ Settled' \in SUBSET TradeDays
        BY <1>2, <1>5, <4>1, <4>2 DEF MoneySums
      <4>4. owed[e] <= SoldAt(turnover)[g]
        BY <2>1, <2>6, <3>1, <4>1 DEF MoneyInv, OwedWasSold
      <4>5. SumFunctionOnSet(SoldAt(turnover), Settled')
              = SoldAt(turnover)[g] + SumFunctionOnSet(SoldAt(turnover), Settled)
        <5> DEFINE D == Settled'  f == SoldAt(turnover)
        <5>1. IsFiniteSet(D) /\ g \in D /\ D \ {g} = Settled /\ \A d \in D : f[d] \in Int
          BY <2>6, <4>3
        <5> HIDE DEF D, f, g, e
        <5>2. SumFunctionOnSet(f, D) = f[g] + SumFunctionOnSet(f, D \ {g})
          BY <5>1, SumTakesAny
        <5>3. SumFunctionOnSet(f, D \ {g}) = SumFunctionOnSet(f, Settled)
          BY <5>1, Zenon
        <5>4. SumFunctionOnSet(f, D) = f[g] + SumFunctionOnSet(f, Settled)
          BY <5>2, <5>3
        <5> QED
          BY <5>4 DEF D, f
      <4>6. SoldOn(Settled)' = SumFunctionOnSet(SoldAt(turnover), Settled')
        BY <1>1, <1>5 DEF MoneySums
      <4>7. owed[e] \in Nat /\ SoldAt(turnover)[g] \in Nat /\ SoldOn(Settled) \in Nat
        BY <1>5, <2>1, <2>4, <2>6, <4>1 DEF MoneySums
      <4> QED
        BY <1>5, <4>4, <4>5, <4>6, <4>7 DEF MoneySums
    <3>2. CASE ~ (e >= SettlementDays)
      <4>1. owed[e] = 0
        BY <2>1, <2>4, <3>2 DEF MoneyInv, OwedWasSold
      <4>2. Settled' = Settled
        BY <1>1, <1>2, <1>8, <1>10, <3>2, DaysOfTimes DEF Settled, MoneyInv
      <4>3. SoldOn(Settled)' = SoldOn(Settled) /\ SoldOn(Settled) \in Nat
        BY <1>1, <4>2, <1>5 DEF MoneySums
      <4> QED
        BY <4>1, <4>3
    <3> QED
      BY <3>1, <3>2
  <2>8. SumFunctionOnSet(owed, Due)' = owed[e] + SumFunctionOnSet(owed, Due)
    BY <1>1, <2>5
  <2>9. CashIsSettled'
    <3>1. /\ cash \in Nat /\ owed[e] \in Nat /\ SumFunctionOnSet(owed, Due) \in Nat
          /\ Bought \in Nat /\ SoldOn(Settled) \in Nat /\ SoldOn(Settled)' \in Nat
          /\ InitialCash \in Nat
      BY <1>5, <2>1, <2>4, BrokerAssumption DEF MoneySums, MoneyInv, MoneyTypes
    <3>2. cash + SumFunctionOnSet(owed, Due) <= InitialCash - Bought + SoldOn(Settled)
      BY DEF MoneyInv, CashIsSettled
    <3> HIDE DEF e
    <3>3. cash' + SumFunctionOnSet(owed, Due)' <= InitialCash - Bought' + SoldOn(Settled)'
      BY <1>1, <1>6, <2>7, <2>8, <3>1, <3>2
    <3> QED
      BY <3>3 DEF CashIsSettled
  <2> QED
    BY <1>3, <1>4, <1>7, <2>9 DEF MoneyInv
<1> QED
  BY <1>8, <1>9, <1>10

\* Fees are whole numbers, and those of a sale not more than its proceeds.
LEMMA ShareIsNat ==
  ASSUME NEW a \in Nat, NEW p \in Nat
  PROVE  Share(a, p) \in Nat /\ 200 * Share(a, p) <= 2 * a * p + 100
<1>1. \A n \in Nat : n \div 200 \in Nat /\ 200 * (n \div 200) <= n
  OBVIOUS
<1>2. a * p \in Nat
  OBVIOUS
<1>3. 2 * a * p + 100 \in Nat
  BY <1>2
<1> QED
  BY <1>1, <1>3 DEF Share

LEMMA FeesAreCovered ==
  ASSUME NEW g \in Nat \ {0}
  PROVE  /\ Share(g, CommissionPct) \in Nat /\ Share(g, TaxPct) \in Nat
         /\ Share(g, CommissionPct) + Share(g, TaxPct) <= g
<1> DEFINE c == CommissionPct  t == TaxPct  x == Share(g, c)  y == Share(g, t)
<1>1. c \in Nat /\ t \in Nat /\ c + t <= 50
  BY BrokerAssumption
<1> HIDE DEF c, t
<1>2. x \in Nat /\ y \in Nat /\ 200 * x <= 2 * g * c + 100 /\ 200 * y <= 2 * g * t + 100
  BY <1>1, ShareIsNat
<1>3. g * c \in Nat /\ g * t \in Nat /\ g * c + g * t <= 50 * g
  <2>1. g * c + g * t = g * (c + t)
    BY <1>1
  <2>2. \A i, j \in Nat : i <= j => g * i <= g * j
    OBVIOUS
  <2>3. g * (c + t) <= g * 50
    BY <1>1, <2>2
  <2> QED
    BY <1>1, <2>1, <2>3
<1>4. 2 * g * c = 2 * (g * c) /\ 2 * g * t = 2 * (g * t)
  BY <1>1
<1> HIDE DEF x, y
<1>5. 200 * x + 200 * y <= 100 * g + 200
  <2> DEFINE gc == g * c  gt == g * t
  <2>1. /\ gc \in Nat /\ gt \in Nat /\ gc + gt <= 50 * g
        /\ 200 * x <= 2 * gc + 100 /\ 200 * y <= 2 * gt + 100
    BY <1>2, <1>3, <1>4
  <2> HIDE DEF gc, gt
  <2> QED
    BY <1>2, <2>1
<1>6. x + y <= g
  BY <1>2, <1>5
<1> QED
  BY <1>2, <1>6 DEF x, y, c, t

LEMMA MoneyStep == BookInv /\ MoneyInv /\ [Next]_vars => MoneyInv'
<1> SUFFICES ASSUME BookInv, MoneyInv, [Next]_vars PROVE MoneyInv'
  OBVIOUS
<1>1. ASSUME UNCHANGED <<cfg, now, cash, costs, owed, turnover>>,
             phase' \notin {"start", "done"} => now <= MaxTime
      PROVE  MoneyInv'
  <2>1. /\ Due' = Due /\ Settled' = Settled /\ Days' = Days /\ TradeDays' = TradeDays
    BY <1>1, SameDays
  <2>2. MoneyTypes' /\ OwedWasSold'
    BY <1>1, <2>1 DEF MoneyInv, MoneyTypes, OwedWasSold
  <2>3. MoneySums /\ MoneySums'
    <3>1. MoneyTypes => MoneySums
      BY MoneySumsHold
    <3>2. MoneyTypes' => MoneySums'
      BY MoneySumsHold, PTL
    <3> QED
      BY <2>2, <3>1, <3>2 DEF MoneyInv
  <2>4. /\ pending_settlement' = pending_settlement /\ Bought' = Bought
        /\ SoldOn(DOMAIN turnover)' = SoldOn(DOMAIN turnover)
        /\ SoldOn(Settled)' = SoldOn(Settled)
        /\ SumFunctionOnSet(owed, Due)' = SumFunctionOnSet(owed, Due)
    BY <1>1, <2>1, <2>3 DEF MoneySums
  <2> QED
    BY <1>1, <2>2, <2>4 DEF MoneyInv, Balance, CashIsSettled
<1>2. CASE BeginCycle \/ EndReplay \/ Decide \/ Submitted
  <2>1. /\ UNCHANGED <<cfg, now, cash, costs, owed, turnover>>
        /\ phase' \notin {"start", "done"} => now <= MaxTime
    BY <1>2 DEF BeginCycle, EndReplay, Decide, Submitted, brokerVars, MoneyInv, MoneyTypes
  <2> QED
    BY <1>1, <2>1
<1>3. CASE SettleDue
  BY <1>3, SettleKeepsMoney
<1>4. CASE NextCycle
  BY <1>4, NextDayKeepsMoney
<1>5. ASSUME NEW x \in plan, Unfilled(x) PROVE MoneyInv'
  <2>1. /\ UNCHANGED <<cfg, now, cash, costs, owed, turnover>>
        /\ phase' \notin {"start", "done"} => now <= MaxTime
    BY <1>5 DEF Unfilled, FillNothing, Returned, MoneyInv, MoneyTypes
  <2> QED
    BY <1>1, <2>1
<1>6. ASSUME NEW x \in plan, NEW bar \in FillBars(x, now),
             Buy(x, bar) \/ Reject(x, bar) \/ Sell(x, bar)
      PROVE  MoneyInv'
  <2> DEFINE gross == bar.price * x.qty
             e == Day(bar.at)
  <2>1. x.symbol \in Symbols /\ x.qty \in Nat \ {0}
    BY DEF BookInv, BookTypes, Order
  <2>2. bar \in Bar
    BY <2>1 DEF FillBars, Bar, BookInv, BookTypes
  <2>3. bar.at \in BarTimes /\ bar.price \in Nat \ {0}
    BY <2>2, BrokerAssumption DEF Bar
  <2>4. gross \in Nat \ {0} /\ e \in TradeDays /\ e + SettlementDays \in Days
    <3>1. \A i, j \in Nat \ {0} : i * j \in Nat \ {0}
      OBVIOUS
    <3> QED
      BY <2>1, <2>3, <3>1, DaysOfTimes DEF MoneyInv
  <2>5. /\ Share(gross, CommissionPct) \in Nat /\ Share(gross, TaxPct) \in Nat
        /\ Share(gross, CommissionPct) + Share(gross, TaxPct) <= gross
    BY <2>4, FeesAreCovered
  <2>6. phase' = phase /\ phase = "fill" /\ now' = now /\ cfg' = cfg
    BY <1>6 DEF Buy, Reject, Sell, Returned
  <2>7. owed \in [Days -> Nat] /\ cash \in Nat
    BY DEF MoneyInv, MoneyTypes
  <2>8. CASE Reject(x, bar)
    <3>1. /\ UNCHANGED <<cfg, now, cash, costs, owed, turnover>>
          /\ phase' \notin {"start", "done"} => now <= MaxTime
      BY <2>6, <2>8 DEF Reject, RejectBuy, MoneyInv, MoneyTypes
    <3> QED
      BY <1>1, <3>1
  <2>9. CASE Buy(x, bar)
    <3> DEFINE fee == Share(gross, CommissionPct)
    <3>0. owed' = owed
      BY <2>9 DEF Buy, FillBuy
    <3>1. /\ cash' = cash - (gross + fee) /\ costs' = costs + fee
          /\ gross + fee <= cash
          /\ turnover' = [turnover EXCEPT ![e] = [bought |-> @.bought + gross,
                                                 sold |-> @.sold + 0]]
      BY <2>9 DEF Buy, FillBuy, Affordable, BuyCost, Log
    <3>2. owed' = [owed EXCEPT ![e + SettlementDays] = @ + 0]
      BY <2>4, <2>7, <3>0
    <3> HIDE DEF gross, e, fee
    <3>3. gross + fee \in Nat /\ gross <= gross + fee /\ fee \in Nat
      BY <2>4, <2>5 DEF fee
    <3>4. 0 + fee + gross = 0 + (gross + fee)
      BY <2>4, <3>3
    <3>5. Traded(e, gross, 0, gross + fee, 0, fee)
      BY <3>4, <2>4, <2>6, <3>1, <3>2, <3>3 DEF Traded
    <3> QED
      BY <2>4, <3>5, TradeKeepsMoney
  <2>10. CASE Sell(x, bar)
    <3> DEFINE fee == Share(gross, CommissionPct) + Share(gross, TaxPct)
    <3>1. /\ cash' = cash - 0 /\ costs' = costs + fee
          /\ owed' = [owed EXCEPT ![e + SettlementDays] = @ + gross - fee]
          /\ turnover' = [turnover EXCEPT ![e] = [bought |-> @.bought + 0,
                                                 sold |-> @.sold + gross]]
      BY <2>7, <2>10 DEF Sell, FillSell, Log
    <3>2. owed' = [owed EXCEPT ![e + SettlementDays] = @ + (gross - fee)]
      BY <2>4, <2>5, <2>7, <3>1
    <3> HIDE DEF gross, e, fee
    <3>3. gross - fee \in Nat /\ fee \in Nat /\ gross - fee <= gross
          /\ (gross - fee) + fee + 0 = gross + 0
      BY <2>4, <2>5 DEF fee
    <3>4. Traded(e, 0, gross, 0, gross - fee, fee)
      BY <2>4, <2>6, <2>7, <3>1, <3>2, <3>3 DEF Traded
    <3> QED
      BY <2>4, <3>4, TradeKeepsMoney
  <2> QED
    BY <1>6, <2>8, <2>9, <2>10
<1>7. ASSUME NEW r \in results, BookNothing(r) \/ BookBuy(r) \/ BookSell(r) PROVE MoneyInv'
  <2>1. /\ UNCHANGED <<cfg, now, cash, costs, owed, turnover>>
        /\ phase' \notin {"start", "done"} => now <= MaxTime
    BY <1>7 DEF BookNothing, BookBuy, BookSell, brokerVars, MoneyInv, MoneyTypes
  <2> QED
    BY <1>1, <2>1
<1>8. CASE UNCHANGED vars
  <2>1. /\ UNCHANGED <<cfg, now, cash, costs, owed, turnover>>
        /\ phase' \notin {"start", "done"} => now <= MaxTime
    BY <1>8 DEF vars, brokerVars, replayVars, MoneyInv, MoneyTypes
  <2> QED
    BY <1>1, <2>1
<1> QED
  BY <1>2, <1>3, <1>4, <1>5, <1>6, <1>7, <1>8 DEF Next, Submit, Book, Terminated

LEMMA MoneyInvIsEnough == MoneyInv => MoneyIsConserved
<1> SUFFICES ASSUME MoneyInv PROVE MoneyIsConserved
  OBVIOUS
<1>1. MoneySums /\ DOMAIN turnover = TradeDays
  BY MoneySumsHold DEF MoneyInv, MoneyTypes
<1>2. {d \in DOMAIN turnover : d + SettlementDays <= Day(now)} = Settled
  BY <1>1 DEF Settled
<1>3. SoldOn({d \in DOMAIN turnover : d + SettlementDays <= Day(now)}) = SoldOn(Settled)
  BY <1>2, Zenon
<1>4. cash <= InitialCash - Bought + SoldOn(Settled)
  BY <1>1, BrokerAssumption DEF MoneyInv, MoneyTypes, CashIsSettled, MoneySums
<1> QED
  BY <1>3, <1>4 DEF MoneyIsConserved, MoneyInv, MoneyTypes, Balance

\* No money is made or lost, cash is never negative, and proceeds of a sale are
\* not spent before their settlement day, for any prices, quantities, numbers of
\* symbols and cycles (adapters/broker_sim.py, submit(), _settle()).
THEOREM MoneyStaysConserved == Spec => []MoneyIsConserved
<1>1. Init => BookInv /\ MoneyInv
  BY InitBookInv, InitMoneyInv
<1>2. BookInv /\ MoneyInv /\ [Next]_vars => (BookInv /\ MoneyInv)'
  BY BookStepAll, MoneyStep
<1>3. MoneyInv => MoneyIsConserved
  BY MoneyInvIsEnough
<1> QED
  BY <1>1, <1>2, <1>3, PTL DEF Spec

-----------------------------------------------------------------------------
(* The other variables have their types. *)

RestTypes ==
  /\ ended \subseteq Symbols
  /\ used \subseteq Events /\ exposed \subseteq Events
  /\ lastExitAt \in [Symbols -> BarTimes \cup {None}]

LEMMA RestStep == BookInv /\ RestTypes /\ [Next]_vars => RestTypes'
<1> SUFFICES ASSUME BookInv, RestTypes, [Next]_vars PROVE RestTypes'
  OBVIOUS
<1>1. ASSUME UNCHANGED <<ended, used, lastExitAt, exposed>> PROVE RestTypes'
  BY <1>1 DEF RestTypes
<1>2. CASE BeginCycle
  BY <1>2 DEF BeginCycle, brokerVars, RestTypes
<1>3. CASE EndReplay \/ Decide \/ SettleDue \/ Submitted \/ NextCycle \/ UNCHANGED vars
  <2>1. UNCHANGED <<ended, used, lastExitAt, exposed>>
    BY <1>3 DEF EndReplay, Decide, SettleDue, Settle, Submitted, NextCycle, vars, brokerVars,
       replayVars
  <2> QED
    BY <1>1, <2>1
<1>4. ASSUME NEW x \in plan, Unfilled(x) PROVE RestTypes'
  <2>1. x.symbol \in Symbols
    BY DEF BookInv, BookTypes, Order
  <2> QED
    BY <1>4, <2>1 DEF Unfilled, FillNothing, Returned, RestTypes
<1>5. ASSUME NEW x \in plan, NEW bar \in FillBars(x, now),
             Buy(x, bar) \/ Reject(x, bar) \/ Sell(x, bar)
      PROVE  RestTypes'
  <2>1. UNCHANGED <<ended, used, lastExitAt, exposed>>
    BY <1>5 DEF Buy, Reject, Sell, FindBar, Returned
  <2> QED
    BY <1>1, <2>1
<1>6. ASSUME NEW r \in results, BookNothing(r) \/ BookBuy(r) \/ BookSell(r) PROVE RestTypes'
  <2>1. /\ r.order.symbol \in Symbols /\ r.order.event \in Events \cup {None}
        /\ r.at \in BarTimes \cup {None} /\ UNCHANGED <<ended, exposed>>
    BY <1>6 DEF BookInv, BookTypes, Result, Order, BookNothing, BookBuy, BookSell, brokerVars
  <2>2. CASE BookNothing(r)
    BY <2>1, <2>2, <1>1 DEF BookNothing
  <2>3. CASE BookBuy(r)
    BY <2>1, <2>3 DEF BookBuy, RestTypes
  <2>4. CASE BookSell(r)
    BY <2>1, <2>4 DEF BookSell, RestTypes
  <2> QED
    BY <1>6, <2>2, <2>3, <2>4
<1> QED
  BY <1>2, <1>3, <1>4, <1>5, <1>6 DEF Next, Submit, Book, Terminated

LEMMA TypesAreEnough == BookInv /\ MoneyInv /\ RestTypes => TypeOK
<1> SUFFICES ASSUME BookInv, MoneyInv, RestTypes PROVE TypeOK
  OBVIOUS
<1>1. BrokerTypeOK
  BY DEF BookInv, BookTypes, MoneyInv, MoneyTypes, RestTypes, BrokerTypeOK
<1> QED
  BY <1>1 DEF BookInv, BookTypes, MoneyInv, MoneyTypes, RestTypes, TypeOK, TradeDays

\* Both books are well-formed.
THEOREM BooksAreWellFormed == Spec => []TypeOK
<1>1. Init => BookInv /\ MoneyInv /\ RestTypes
  <2>1. Init => RestTypes
    BY DEF Init, BrokerInit, RestTypes
  <2> QED
    BY <2>1, InitBookInv, InitMoneyInv
<1>2. BookInv /\ MoneyInv /\ RestTypes /\ [Next]_vars => (BookInv /\ MoneyInv /\ RestTypes)'
  BY BookStepAll, MoneyStep, RestStep
<1>3. BookInv /\ MoneyInv /\ RestTypes => TypeOK
  BY TypesAreEnough
<1> QED
  BY <1>1, <1>2, <1>3, PTL DEF Spec

-----------------------------------------------------------------------------
(* Slots: the inductive invariant.  Between its decision and its last fill a  *)
(* cycle owns the slots it will leave occupied, not those occupied now: an    *)
(* exit that has no bar yet has given its slot away.                          *)

HasOrder(s, side) == \E x \in plan : x.symbol = s /\ x.side = side

\* The symbols held after the cycle, if every order is filled.
Future ==
  {s \in Symbols : (holdings[s] > 0 /\ ~HasOrder(s, "sell")) \/ HasOrder(s, "buy")}

Slots ==
  Cardinality(IF phase \in {"settle", "fill"} THEN Future ELSE BrokerSymbols) <= MaxPositions

SlotInv == cfg \in Configs /\ (~BarsEnd => ended = {} /\ Slots)

\* A set that is not larger than before keeps its slots.
LEMMA FewerSymbols ==
  ASSUME NEW A, NEW B, A \subseteq B, B \subseteq Symbols, NEW n \in Nat, Cardinality(B) <= n
  PROVE  Cardinality(A) <= n
<1>1. IsFiniteSet(B)
  BY BacktestAssumption, FS_Subset
<1>2. IsFiniteSet(A) /\ Cardinality(A) <= Cardinality(B)
  BY <1>1, FS_Subset
<1> QED
  BY <1>1, <1>2, FS_CardinalityType

\* Entries are of different symbols: there are as many symbols as entries.
LEMMA EntriesAreSymbols ==
  ASSUME NEW E \in Entries
  PROVE  LET T == {s \in Symbols : \E x \in E : x[1] = s}
         IN IsFiniteSet(T) /\ IsFiniteSet(E) /\ Cardinality(T) = Cardinality(E)
<1> DEFINE T == {s \in Symbols : \E x \in E : x[1] = s}
           f == [x \in E |-> x[1]]
<1>1. /\ \A x \in E : x[1] \in T
      /\ \A x, y \in E : x[1] = y[1] => x = y
      /\ \A s \in T : \E x \in E : x[1] = s
  BY DEF Entries
<1>2. IsFiniteSet(T)
  BY BacktestAssumption, FS_Subset
<1> HIDE DEF T
<1>3. f \in Injection(E, T) /\ f \in Surjection(E, T)
  BY <1>1 DEF Injection, Surjection, IsInjective
<1> HIDE DEF f
<1>4. IsFiniteSet(E) /\ Cardinality(E) = Cardinality(T)
  BY <1>2, <1>3, FS_Injection
<1> QED
  BY <1>2, <1>4 DEF T

\* What the gate lets through fits in the slots.
LEMMA DecisionsFit ==
  ASSUME BookInv, SlotInv, ~BarsEnd, Decide
  PROVE  Cardinality(Future') <= MaxPositions
<1>1. PICK signalled \in SUBSET Positions, topUps \in SUBSET Positions,
           E \in Entries, qty \in [Symbols -> 1..MaxQty] :
        /\ topUps \cap signalled = {}
        /\ GatePasses(signalled, E) /\ plan' = OrdersFor(signalled, topUps, E, qty)
  BY DEF Decide
<1>2. phase = "decide" /\ holdings' = holdings /\ results = {}
  BY DEF Decide, brokerVars, BookInv, InPlace
<1>3. Positions = BrokerSymbols
  BY <1>2 DEF BookInv, BrokerIsAhead, DriverKnows, Unbooked, Positions, HeldSymbols, BrokerSymbols
<1> DEFINE T == {s \in Symbols : \E x \in E : x[1] = s}
           K == Positions \ signalled
<1>4. \A s \in signalled : Sale(s) \in plan' /\ Sale(s).symbol = s /\ Sale(s).side = "sell"
  BY <1>1 DEF OrdersFor, Sale
<1>5. ASSUME NEW x \in plan', x.side = "buy" PROVE x.symbol \in topUps \/ x.symbol \in T
  <2>1. \A s \in signalled : Sale(s).side = "sell"
    BY DEF Sale
  <2>2. x \in {Purchase(s, held[s].event, qty[s]) : s \in topUps}
        \/ x \in {Purchase(y[1], y[2], qty[y[1]]) : y \in E}
    BY <1>1, <1>5, <2>1 DEF OrdersFor
  <2>3. \A y \in E : y[1] \in Symbols
    BY DEF Entries
  <2> QED
    BY <2>2, <2>3 DEF Purchase
<1>6. Future' \subseteq K \cup T
  <2>1. ASSUME NEW s \in Symbols, s \in Future' PROVE s \in K \cup T
    <3>1. CASE \E x \in plan' : x.symbol = s /\ x.side = "buy"
      BY <1>1, <1>5, <2>1, <3>1
    <3>2. CASE ~ \E x \in plan' : x.symbol = s /\ x.side = "buy"
      <4>1. holdings[s] > 0 /\ ~ \E x \in plan' : x.symbol = s /\ x.side = "sell"
        BY <1>2, <2>1, <3>2 DEF Future, HasOrder
      <4>2. s \notin signalled
        BY <1>4, <2>1, <4>1
      <4> QED
        BY <1>3, <2>1, <4>1, <4>2 DEF BrokerSymbols
    <3> QED
      BY <3>1, <3>2
  <2>2. Future' \subseteq Symbols
    BY DEF Future
  <2> HIDE DEF K, T
  <2> QED
    BY <2>1, <2>2
<1>7. /\ IsFiniteSet(K) /\ IsFiniteSet(T) /\ IsFiniteSet(E) /\ Cardinality(T) = Cardinality(E)
      /\ K \subseteq Symbols /\ T \subseteq Symbols
  <2>1. K \subseteq Symbols
    BY DEF Positions, HeldSymbols
  <2> QED
    BY <2>1, EntriesAreSymbols, BacktestAssumption, FS_Subset
<1>8. MaxPositions \in Nat
  BY BacktestAssumption DEF SlotInv, MaxPositions
<1>9. CASE E = {}
  <2>1. Future' \subseteq BrokerSymbols /\ BrokerSymbols \subseteq Symbols
    BY <1>3, <1>6, <1>9 DEF BrokerSymbols
  <2>2. Cardinality(BrokerSymbols) <= MaxPositions
    BY <1>2 DEF SlotInv, Slots
  <2> QED
    BY <1>8, <2>1, <2>2, FewerSymbols
<1>10. CASE E # {}
  <2>1. Cardinality(K) + Cardinality(E) <= MaxPositions
    BY <1>1, <1>10 DEF GatePasses
  <2> HIDE DEF K, T
  <2>2. Cardinality(K \cup T) <= MaxPositions
    <3>1. IsFiniteSet(K \cap T)
      BY <1>7, FS_Subset
    <3>2. Cardinality(K \cup T) = Cardinality(K) + Cardinality(T) - Cardinality(K \cap T)
      BY <1>7, FS_Union
    <3>3. Cardinality(K) \in Nat /\ Cardinality(T) \in Nat /\ Cardinality(K \cap T) \in Nat
      BY <1>7, <3>1, FS_CardinalityType
    <3> QED
      BY <1>7, <1>8, <2>1, <3>2, <3>3
  <2>3. K \cup T \subseteq Symbols
    BY <1>7
  <2> QED
    BY <1>6, <1>8, <2>2, <2>3, FewerSymbols
<1> QED
  BY <1>9, <1>10

LEMMA SlotStep == BookInv /\ BookInv' /\ SlotInv /\ [Next]_vars => SlotInv'
<1> SUFFICES ASSUME BookInv, BookInv', SlotInv, [Next]_vars PROVE SlotInv'
  OBVIOUS
<1>1. cfg' = cfg
  BY DEF Next, Submit, Book, Terminated, BeginCycle, EndReplay, Decide, SettleDue, Submitted,
     NextCycle, Unfilled, Buy, Reject, Sell, Returned, BookNothing, BookBuy, BookSell, vars
<1>2. BarsEnd' = BarsEnd /\ MaxPositions' = MaxPositions /\ MaxPositions \in Nat
  BY <1>1, BacktestAssumption DEF BarsEnd, MaxPositions, SlotInv
<1>3. SUFFICES ASSUME ~BarsEnd PROVE ended' = {} /\ Slots'
  BY <1>1, <1>2 DEF SlotInv
<1>4. ended = {} /\ Slots /\ Future \subseteq Symbols /\ BrokerSymbols \subseteq Symbols
  BY <1>3 DEF SlotInv, Future, BrokerSymbols
<1>5. ASSUME UNCHANGED <<ended, holdings>>,
             phase \notin {"settle", "fill"}, phase' \notin {"settle", "fill"}
      PROVE  ended' = {} /\ Slots'
  <2>1. BrokerSymbols' = BrokerSymbols
    BY <1>5 DEF BrokerSymbols
  <2> QED
    BY <1>2, <1>4, <1>5, <2>1 DEF Slots
<1>6. ASSUME ended' = ended, phase \in {"settle", "fill"}, phase' \in {"settle", "fill"},
             Future' \subseteq Future
      PROVE  ended' = {} /\ Slots'
  <2>1. Cardinality(Future) <= MaxPositions
    BY <1>4, <1>6 DEF Slots
  <2>2. Cardinality(Future') <= MaxPositions
    BY <1>2, <1>4, <1>6, <2>1, FewerSymbols
  <2> QED
    BY <1>2, <1>4, <1>6, <2>2 DEF Slots
<1>7. CASE BeginCycle \/ EndReplay \/ NextCycle
  <2>1. UNCHANGED <<ended, holdings>> /\ phase \notin {"settle", "fill"}
        /\ phase' \notin {"settle", "fill"}
    BY <1>7 DEF BeginCycle, EndReplay, NextCycle, brokerVars
  <2> QED
    BY <1>5, <2>1
<1>8. CASE Decide
  <2>1. ended' = ended /\ phase' = "settle"
    BY <1>8 DEF Decide, brokerVars
  <2>2. Cardinality(Future') <= MaxPositions
    BY <1>3, <1>8, DecisionsFit
  <2> QED
    BY <1>2, <1>4, <2>1, <2>2 DEF Slots
<1>9. CASE SettleDue
  <2>1. /\ phase = "settle" /\ phase' = "fill"
        /\ UNCHANGED <<ended, holdings, plan>>
    BY <1>9 DEF SettleDue, Settle
  <2>2. Future' = Future
    BY <2>1 DEF Future, HasOrder
  <2> QED
    BY <1>6, <2>1, <2>2
<1>10. CASE Submitted
  <2>1. /\ phase = "fill" /\ phase' = "book" /\ plan = {}
        /\ UNCHANGED <<ended, holdings>>
    BY <1>10 DEF Submitted, brokerVars
  <2>2. Future = BrokerSymbols /\ BrokerSymbols' = BrokerSymbols
    BY <2>1 DEF Future, HasOrder, BrokerSymbols
  <2> QED
    BY <1>2, <1>4, <2>1, <2>2 DEF Slots
<1>11. ASSUME NEW x \in plan, Unfilled(x) PROVE FALSE
  BY <1>3, <1>4, <1>11 DEF Unfilled, FillNothing, MayEnd
<1>12. ASSUME NEW x \in plan, NEW bar \in FillBars(x, now),
             Buy(x, bar) \/ Reject(x, bar) \/ Sell(x, bar)
      PROVE  ended' = {} /\ Slots'
  <2>1. /\ ended' = ended /\ phase = "fill" /\ phase' = "fill" /\ plan' = plan \ {x}
        /\ holdings \in [Symbols -> Nat] /\ x.symbol \in Symbols /\ x.qty \in Nat \ {0}
    BY <1>12 DEF Buy, Reject, Sell, FindBar, Returned, BookInv, BookTypes, Order
  <2>2. \A y \in plan : y.symbol = x.symbol => y = x
    BY DEF BookInv, OneOrderEach
  <2>3. \A s \in Symbols, side \in {"buy", "sell"} :
          HasOrder(s, side)' <=> HasOrder(s, side) /\ s # x.symbol
    BY <2>1, <2>2 DEF HasOrder
  <2>4. /\ \A s \in Symbols \ {x.symbol} : holdings'[s] = holdings[s]
        /\ x.side = "sell" => holdings'[x.symbol] = 0
        /\ x.side = "buy" => HasOrder(x.symbol, "buy")
        /\ x.side \in {"buy", "sell"}
    <3>1. CASE Buy(x, bar)
      BY <2>1, <3>1 DEF Buy, FillBuy, HasOrder
    <3>2. CASE Reject(x, bar)
      BY <3>2 DEF Reject, RejectBuy, HasOrder
    <3>3. CASE Sell(x, bar)
      <4>1. holdings[x.symbol] = x.qty
        <5>1. ~Unbooked(x.symbol) /\ x.side = "sell"
          BY <3>3 DEF BookInv, OneOrderEach, Unbooked, Sell, FillSell
        <5> QED
          BY <2>1, <5>1 DEF BookInv, OneOrderEach, BrokerIsAhead
      <4> QED
        BY <2>1, <3>3, <4>1 DEF Sell, FillSell
    <3> QED
      BY <1>12, <3>1, <3>2, <3>3
  <2>5. Future' \subseteq Future
    <3> SUFFICES ASSUME NEW s \in Symbols, s \in Future' PROVE s \in Future
      BY DEF Future
    <3>1. CASE s = x.symbol
      BY <2>3, <2>4, <3>1 DEF Future
    <3>2. CASE s # x.symbol
      BY <2>3, <2>4, <3>2 DEF Future
    <3> QED
      BY <3>1, <3>2
  <2> QED
    BY <1>6, <2>1, <2>5
<1>13. ASSUME NEW r \in results, BookNothing(r) \/ BookBuy(r) \/ BookSell(r)
       PROVE  ended' = {} /\ Slots'
  <2>1. UNCHANGED <<ended, holdings>> /\ phase \notin {"settle", "fill"}
        /\ phase' \notin {"settle", "fill"}
    BY <1>13 DEF BookNothing, BookBuy, BookSell, brokerVars
  <2> QED
    BY <1>5, <2>1
<1>14. CASE UNCHANGED vars
  <2>1. UNCHANGED <<ended, holdings, phase, plan>>
    BY <1>14 DEF vars, brokerVars, replayVars
  <2>2. Future' = Future
    BY <2>1 DEF Future, HasOrder
  <2> QED
    BY <1>5, <1>6, <2>1, <2>2
<1> QED
  BY <1>7, <1>8, <1>9, <1>10, <1>11, <1>12, <1>13, <1>14 DEF Next, Submit, Book, Terminated

\* Never more positions than slots between cycles, as long as every symbol keeps
\* trading: for any number of symbols, and although an exit may be waiting for its
\* bar while the entry that took its slot is filled (core/gate.py, max_positions).
THEOREM SlotsAreKept == Spec => []SlotsHold
<1>1. Init => BookInv /\ SlotInv
  <2>1. ASSUME Init PROVE SlotInv
    <3>1. BrokerSymbols = {}
      BY <2>1 DEF Init, BrokerInit, BrokerSymbols
    <3>2. Cardinality(BrokerSymbols) = 0
      BY <3>1, FS_EmptySet
    <3>3. cfg \in Configs /\ MaxPositions \in Nat /\ ended = {} /\ phase = "start"
      BY <2>1, BacktestAssumption DEF Init, BrokerInit, MaxPositions
    <3> QED
      BY <3>2, <3>3 DEF SlotInv, Slots
  <2> QED
    BY <2>1, InitBookInv
<1>2. BookInv /\ SlotInv /\ [Next]_vars => (BookInv /\ SlotInv)'
  BY BookStepAll, SlotStep
<1>3. SlotInv => SlotsHold
  BY DEF SlotInv, Slots, SlotsHold
<1> QED
  BY <1>1, <1>2, <1>3, PTL DEF Spec

-----------------------------------------------------------------------------
(* The order of the trades of a symbol.                                    *)

\* The last bar found for s is not before t.
LastBar(s, t) == nextBar[s] # None /\ t <= nextBar[s].at

TradesAreBehind ==
  \A s \in Symbols :
    /\ held[s] # None => LastBar(s, held[s].enteredAt)
    /\ lastExitAt[s] # None => LastBar(s, lastExitAt[s])

\* A fill that is not booked yet is at the last bar found for its symbol.
FillsAreLatest ==
  \A r \in results :
    Counts(r) => /\ nextBar[r.order.symbol] # None /\ r.at = nextBar[r.order.symbol].at
                 /\ r.at >= now

\* The cooldown of a symbol that is to be bought was over when it was decided,
\* and nothing of the cycle begins it anew.
EntriesAreCool ==
  /\ \A x \in plan :
       (x.side = "buy" /\ heldQty[x.symbol] = 0) => ~InCooldown(x.symbol)
  /\ \A r \in results :
       (r.order.side = "buy" /\ heldQty[r.order.symbol] = 0) => ~InCooldown(r.order.symbol)

TradeInv == TradesAreBehind /\ FillsAreLatest /\ EntriesAreCool

LEMMA LaterDays ==
  ASSUME MoneyTypes
  PROVE  \A t, u \in BarTimes : /\ Day(t) \in Nat /\ t \in Nat \ {0}
                                /\ t <= u => Day(t) <= Day(u)
<1>1. BarsPerDay \in Nat \ {0} /\ MaxTime \in Nat \ {0}
  BY BrokerAssumption DEF MoneyTypes, BarsPerDay
<1>2. \A k \in Nat \ {0}, a \in Nat, b \in Nat :
        a \div k \in Nat /\ (a <= b => a \div k <= b \div k)
  OBVIOUS
<1> QED
  BY <1>1, <1>2 DEF Day, BarTimes

\* Steps that neither fill nor book, and those between two cycles.
LEMMA OthersKeepTrades ==
  ASSUME TradeInv, UNCHANGED <<held, lastExitAt, nextBar>>,
         \/ /\ UNCHANGED <<cfg, now, heldQty>>
            /\ results' \subseteq results /\ plan' \subseteq plan
         \/ results' = {} /\ plan' = {}
  PROVE  TradeInv'
<1>1. TradesAreBehind'
  BY DEF TradeInv, TradesAreBehind, LastBar
<1>2. FillsAreLatest'
  BY DEF TradeInv, FillsAreLatest, Counts
<1>3. EntriesAreCool'
  BY DEF TradeInv, EntriesAreCool, InCooldown, Day, BarsPerDay, CooldownDays
<1> QED
  BY <1>1, <1>2, <1>3 DEF TradeInv

LEMMA DecideKeepsTrades ==
  ASSUME BookInv, TradeInv, Decide
  PROVE  TradeInv'
<1>1. /\ phase = "decide" /\ UNCHANGED <<cfg, now, held, lastExitAt, nextBar, heldQty, results>>
  BY DEF Decide, brokerVars
<1>2. results = {} /\ \A s \in Symbols : holdings[s] = heldQty[s]
  BY <1>1 DEF BookInv, InPlace, BrokerIsAhead, Unbooked
<1>3. TradesAreBehind' /\ FillsAreLatest'
  BY <1>1, <1>2 DEF TradeInv, TradesAreBehind, LastBar, FillsAreLatest
<1>4. ASSUME NEW x \in plan', x.side = "buy", heldQty[x.symbol] = 0 PROVE ~InCooldown(x.symbol)
  <2>1. PICK signalled \in SUBSET Positions, topUps \in SUBSET Positions, E \in Entries,
             qty \in [Symbols -> 1..MaxQty] :
          GatePasses(signalled, E) /\ plan' = OrdersFor(signalled, topUps, E, qty)
    <3>1. PICK signalled \in SUBSET Positions :
            \E topUps \in SUBSET (Positions \ signalled) : \E E \in Entries :
            \E qty \in [Symbols -> 1..MaxQty] :
              GatePasses(signalled, E) /\ plan' = OrdersFor(signalled, topUps, E, qty)
      BY DEF Decide
    <3> QED
      BY <3>1
  <2>2. CASE \E s \in signalled : x = Sale(s)
    BY <1>4, <2>2 DEF Sale
  <2>3. CASE \E s \in topUps : x = Purchase(s, held[s].event, qty[s])
    <3>1. x.symbol \in Positions
      BY <2>3 DEF Purchase
    <3>2. x.symbol \in Symbols /\ holdings[x.symbol] > 0
      BY <3>1 DEF Positions, BrokerSymbols
    <3> QED
      BY <1>2, <1>4, <3>2
  <2>4. CASE \E v \in E : x = Purchase(v[1], v[2], qty[v[1]])
    BY <2>1, <2>4 DEF GatePasses, Purchase
  <2> QED
    BY <2>1, <2>2, <2>3, <2>4 DEF OrdersFor
<1>5. EntriesAreCool'
  BY <1>1, <1>2, <1>4 DEF EntriesAreCool, InCooldown, Day, BarsPerDay, CooldownDays
<1> QED
  BY <1>3, <1>5 DEF TradeInv

\* Whatever becomes of an order: at most a later bar is found.
LEMMA FillKeepsTrades ==
  ASSUME BookInv, TradeInv, NEW x \in plan, NEW status, NEW at, Returned(x, status, at),
         UNCHANGED lastExitAt,
         \A s \in Symbols \ {x.symbol} : nextBar'[s] = nextBar[s],
         \A t \in BarTimes : LastBar(x.symbol, t) => LastBar(x.symbol, t)',
         RestTypes,
         status = "filled" => /\ nextBar'[x.symbol] # None /\ at = nextBar'[x.symbol].at
                              /\ at >= now
  PROVE  TradeInv'
<1> DEFINE new == [order |-> x, status |-> status, at |-> at]
<1>1. /\ plan' = plan \ {x} /\ results' = results \cup {new}
      /\ UNCHANGED <<cfg, now, held, heldQty, lastExitAt>>
  BY DEF Returned
<1>2. new.order = x /\ new.status = status /\ new.at = at
  OBVIOUS
<1> HIDE DEF new
<1>3. \A r \in results : r.order.symbol \in Symbols /\ r.order.symbol # x.symbol
  BY DEF BookInv, BookTypes, OneOrderEach, Result, Order
<1>4. TradesAreBehind'
  <2>1. ASSUME NEW s \in Symbols, NEW t \in BarTimes, LastBar(s, t) PROVE LastBar(s, t)'
    BY <2>1 DEF LastBar
  <2>2. \A s \in Symbols : /\ held[s] # None => held[s].enteredAt \in BarTimes
                           /\ lastExitAt[s] # None => lastExitAt[s] \in BarTimes
    BY DEF BookInv, BookTypes, RestTypes, Meta
  <2> QED
    BY <1>1, <2>1, <2>2 DEF TradeInv, TradesAreBehind
<1>5. FillsAreLatest'
  BY <1>1, <1>2, <1>3 DEF TradeInv, FillsAreLatest, Counts
<1>6. EntriesAreCool'
  <2>1. \A s : InCooldown(s)' <=> InCooldown(s)
    BY <1>1 DEF InCooldown, Day, BarsPerDay, CooldownDays
  <2> QED
    BY <1>1, <1>2, <2>1 DEF TradeInv, EntriesAreCool
<1> QED
  BY <1>4, <1>5, <1>6 DEF TradeInv

LEMMA SubmitKeepsTrades ==
  ASSUME BookInv, MoneyTypes, RestTypes, TradeInv, Submit
  PROVE  TradeInv'
<1>1. ASSUME NEW x \in plan, Unfilled(x) PROVE TradeInv'
  <2>1. Returned(x, "unknown", None) /\ UNCHANGED <<nextBar, lastExitAt>>
    BY <1>1 DEF Unfilled, FillNothing, Returned
  <2>2. \A t \in BarTimes : LastBar(x.symbol, t) => LastBar(x.symbol, t)'
    BY <2>1 DEF LastBar
  <2> QED
    BY <2>1, <2>2, FillKeepsTrades
<1>2. ASSUME NEW x \in plan, NEW bar \in FillBars(x, now),
             Buy(x, bar) \/ Reject(x, bar) \/ Sell(x, bar)
      PROVE  TradeInv'
  <2>1. x.symbol \in Symbols /\ nextBar \in [Symbols -> Bar \cup {None}] /\ now \in Nat
    BY BrokerAssumption DEF BookInv, BookTypes, Order, MoneyTypes
  <2>2. \A b \in Bar : b.at \in Nat
    BY BrokerAssumption DEF Bar, BarTimes
  <2>3. bar \in Bar /\ bar.at \in Nat /\ Eligible(bar.at, now)
    BY <2>1, <2>2 DEF FillBars, Bar
  <2>4. bar.at >= now
    BY <2>1, <2>3 DEF Eligible
  <2>5. nextBar' = [nextBar EXCEPT ![x.symbol] = bar] /\ UNCHANGED lastExitAt
    BY <1>2 DEF Buy, Reject, Sell, FindBar, Returned
  <2>6. /\ \A s \in Symbols \ {x.symbol} : nextBar'[s] = nextBar[s]
        /\ nextBar'[x.symbol] = bar
    BY <2>1, <2>5
  <2>7. bar # None
    BY <2>3, NoneAssumption
  <2>8. nextBar[x.symbol] # None => nextBar[x.symbol].at <= bar.at
    <3>1. CASE nextBar[x.symbol] # None /\ Eligible(nextBar[x.symbol].at, now)
      <4>1. bar = nextBar[x.symbol]
        BY <3>1 DEF FillBars
      <4> QED
        BY <2>3, <4>1
    <3>2. CASE nextBar[x.symbol] # None /\ ~Eligible(nextBar[x.symbol].at, now)
      <4>1. nextBar[x.symbol].at \in Nat /\ nextBar[x.symbol].at <= now
        BY <2>1, <2>2, <3>2 DEF Eligible
      <4> QED
        BY <2>1, <2>3, <2>4, <4>1
    <3> QED
      BY <3>1, <3>2
  <2>9. \A t \in BarTimes : LastBar(x.symbol, t) => LastBar(x.symbol, t)'
    <3>1. nextBar[x.symbol] # None => nextBar[x.symbol].at \in Nat
      BY <2>1, <2>2
    <3>2. \A t \in BarTimes : t \in Nat
      BY BrokerAssumption DEF BarTimes
    <3> QED
      BY <2>3, <2>6, <2>7, <2>8, <3>1, <3>2 DEF LastBar
  <2>10. PICK status, at : /\ Returned(x, status, at)
                           /\ status = "filled" => at = bar.at
    BY <1>2 DEF Buy, Reject, Sell
  <2> QED
    BY <2>4, <2>5, <2>6, <2>7, <2>9, <2>10, FillKeepsTrades
<1> QED
  BY <1>1, <1>2 DEF Submit

\* What booking a result does: the trade is at the last bar found for its symbol.
LEMMA BookingFacts ==
  ASSUME BookInv, MoneyTypes, RestTypes, TradeInv, NEW r \in results, Counts(r), phase = "book"
  PROVE  /\ r.order.symbol \in Symbols /\ plan = {}
         /\ r.at \in BarTimes /\ LastBar(r.order.symbol, r.at) /\ r.at >= now
         /\ \A t : LastBar(r.order.symbol, t) => t <= r.at
         /\ now \in BarTimes
         /\ \A p \in results \ {r} : p.order.symbol # r.order.symbol /\ p.order.symbol \in Symbols
<1>1. r.order.symbol \in Symbols /\ r.at \in BarTimes /\ plan = {}
  BY DEF BookInv, BookTypes, InPlace, Result, Order
<1>2. nextBar[r.order.symbol] # None /\ r.at = nextBar[r.order.symbol].at /\ r.at >= now
  BY DEF TradeInv, FillsAreLatest
<1>3. r.at \in Nat /\ now \in BarTimes
  BY <1>1, BrokerAssumption DEF MoneyTypes, BarTimes
<1>4. \A p \in results \ {r} : p.order.symbol # r.order.symbol /\ p.order.symbol \in Symbols
  BY DEF BookInv, BookTypes, OneOrderEach, Result, Order
<1> QED
  BY <1>1, <1>2, <1>3, <1>4 DEF LastBar

LEMMA BookKeepsTrades ==
  ASSUME BookInv, MoneyTypes, RestTypes, TradeInv, Book
  PROVE  TradeInv'
<1>1. ASSUME NEW r \in results, BookNothing(r) PROVE TradeInv'
  BY <1>1, OthersKeepTrades DEF BookNothing, brokerVars
<1>2. ASSUME NEW r \in results, BookBuy(r) PROVE TradeInv'
  <2> DEFINE s == r.order.symbol
             row == [enteredAt |-> r.at, event |-> r.order.event]
  <2>1. /\ phase = "book" /\ Counts(r) /\ results' = results \ {r}
        /\ held' = held \/ held' = [held EXCEPT ![s] = row]
        /\ UNCHANGED <<cfg, now, lastExitAt, nextBar, heldQty, plan>>
    BY <1>2 DEF BookBuy, brokerVars
  <2>2. LastBar(s, row.enteredAt)
    BY <2>1, BookingFacts
  <2>3. \A t \in Symbols : held'[t] = held[t] \/ (t = s /\ held'[t] = row)
    BY <2>1 DEF BookInv, BookTypes
  <2> HIDE DEF row
  <2>4. TradesAreBehind'
    BY <2>1, <2>2, <2>3 DEF TradeInv, TradesAreBehind, LastBar
  <2>5. FillsAreLatest' /\ EntriesAreCool'
    BY <2>1 DEF TradeInv, FillsAreLatest, EntriesAreCool, Counts,
                InCooldown, Day, BarsPerDay, CooldownDays
  <2> QED
    BY <2>4, <2>5 DEF TradeInv
<1>3. ASSUME NEW r \in results, BookSell(r) PROVE TradeInv'
  <2> DEFINE s == r.order.symbol
  <2>1. /\ phase = "book" /\ Counts(r) /\ results' = results \ {r}
        /\ held' = held \/ held' = [held EXCEPT ![s] = None]
        /\ lastExitAt' = lastExitAt \/ lastExitAt' = [lastExitAt EXCEPT ![s] = r.at]
        /\ UNCHANGED <<cfg, now, nextBar, heldQty, plan>>
    BY <1>3 DEF BookSell, brokerVars
  <2>2. /\ LastBar(s, r.at) /\ plan = {}
        /\ \A p \in results' : p.order.symbol # s /\ p.order.symbol \in Symbols
    BY <2>1, BookingFacts
  <2>3. /\ \A t \in Symbols : held'[t] = held[t] \/ held'[t] = None
        /\ \A t \in Symbols : lastExitAt'[t] = lastExitAt[t] \/ (t = s /\ lastExitAt'[t] = r.at)
        /\ \A t \in Symbols : t # s => lastExitAt'[t] = lastExitAt[t]
    BY <2>1 DEF BookInv, BookTypes, RestTypes
  <2>4. TradesAreBehind'
    BY <2>1, <2>2, <2>3 DEF TradeInv, TradesAreBehind, LastBar
  <2>5. FillsAreLatest'
    BY <2>1 DEF TradeInv, FillsAreLatest, Counts
  <2>6. EntriesAreCool'
    <3>1. \A t \in Symbols \ {s} : InCooldown(t)' <=> InCooldown(t)
      BY <2>1, <2>3 DEF InCooldown, Day, BarsPerDay, CooldownDays
    <3> QED
      BY <2>1, <2>2, <3>1 DEF TradeInv, EntriesAreCool
  <2> QED
    BY <2>4, <2>5, <2>6 DEF TradeInv
<1> QED
  BY <1>1, <1>2, <1>3 DEF Book

LEMMA TradeStep == BookInv /\ MoneyInv /\ RestTypes /\ TradeInv /\ [Next]_vars => TradeInv'
<1> SUFFICES ASSUME BookInv, MoneyTypes, RestTypes, TradeInv, [Next]_vars
             PROVE  TradeInv'
  BY DEF MoneyInv
<1>1. CASE BeginCycle \/ NextCycle
  <2>1. plan' = {} /\ results' = {} /\ UNCHANGED <<held, lastExitAt, nextBar>>
    BY <1>1 DEF BeginCycle, NextCycle, brokerVars, BookInv, InPlace
  <2> QED
    BY <2>1, OthersKeepTrades
<1>2. CASE EndReplay \/ Terminated \/ SettleDue \/ Submitted \/ UNCHANGED vars
  <2>1. UNCHANGED <<cfg, now, held, heldQty, lastExitAt, nextBar, plan, results>>
    BY <1>2 DEF EndReplay, Terminated, SettleDue, Settle, Submitted, vars, brokerVars, replayVars
  <2> QED
    BY <2>1, OthersKeepTrades
<1> QED
  BY <1>1, <1>2, DecideKeepsTrades, SubmitKeepsTrades, BookKeepsTrades DEF Next

\* The trades of a symbol follow each other: no exit before its entry, no entry
\* before the last exit or in its cooldown, for any number of cycles, symbols and
\* halts (apps/backtest.py: _apply_fills(); adapters/broker_sim.py).
THEOREM TradesStayInOrder == Spec => TradesFollowEachOther
<1> DEFINE Ordered ==
      \A s \in Symbols :
        /\ held[s] # None /\ held'[s] = None
             => lastExitAt'[s] >= held[s].enteredAt
        /\ held[s] = None /\ held'[s] # None /\ lastExitAt[s] # None
             => /\ held'[s].enteredAt >= lastExitAt[s]
                /\ Day(held'[s].enteredAt) - Day(lastExitAt[s]) >= CooldownDays
<1>1. Init => BookInv /\ MoneyInv /\ RestTypes /\ TradeInv
  <2>1. Init => RestTypes
    BY DEF Init, BrokerInit, RestTypes
  <2>2. Init => TradeInv
    BY DEF Init, BrokerInit, TradeInv, TradesAreBehind, FillsAreLatest, EntriesAreCool
  <2> QED
    BY <2>1, <2>2, InitBookInv, InitMoneyInv
<1>2. BookInv /\ MoneyInv /\ RestTypes /\ TradeInv /\ [Next]_vars
        => (BookInv /\ MoneyInv /\ RestTypes /\ TradeInv)'
  BY BookStepAll, MoneyStep, RestStep, TradeStep
<1>3. ASSUME BookInv, MoneyInv, RestTypes, TradeInv, [Next]_vars PROVE Ordered
  <2> SUFFICES ASSUME NEW s \in Symbols, held'[s] # held[s]
               PROVE  /\ held[s] # None /\ held'[s] = None
                           => lastExitAt'[s] >= held[s].enteredAt
                      /\ held[s] = None /\ held'[s] # None /\ lastExitAt[s] # None
                           => /\ held'[s].enteredAt >= lastExitAt[s]
                              /\ Day(held'[s].enteredAt) - Day(lastExitAt[s]) >= CooldownDays
    OBVIOUS
  <2>1. MoneyTypes /\ held \in [Symbols -> Meta \cup {None}]
    BY <1>3 DEF MoneyInv, BookInv, BookTypes
  <2>2. PICK r \in results : BookBuy(r) \/ BookSell(r)
    <3>1. Book \/ held' = held
      BY <1>3 DEF Next, BeginCycle, EndReplay, Terminated, Decide, SettleDue, Submit, Unfilled,
                  Buy, Reject, Sell, Returned, Submitted, NextCycle, vars, replayVars
    <3> QED
      BY <3>1 DEF Book, BookNothing
  <2>3. phase = "book" /\ Counts(r) /\ r.order.symbol = s
    BY <2>1, <2>2 DEF BookBuy, BookSell
  <2>4. /\ r.at \in BarTimes /\ LastBar(s, r.at) /\ r.at >= now /\ now \in BarTimes
        /\ \A t : LastBar(s, t) => t <= r.at
    BY <1>3, <2>1, <2>3, BookingFacts
  <2>5. /\ held[s] # None => held[s].enteredAt <= r.at /\ held[s].enteredAt \in BarTimes
        /\ lastExitAt[s] # None => lastExitAt[s] <= r.at /\ lastExitAt[s] \in BarTimes
    BY <1>3, <2>1, <2>4 DEF TradeInv, TradesAreBehind, RestTypes, Meta
  <2>6. \A t, u \in BarTimes : Day(t) \in Nat /\ t \in Nat /\ (t <= u => Day(t) <= Day(u))
    BY <2>1, LaterDays
  <2>7. CASE BookBuy(r)
    <3>1. /\ r.order.side = "buy"
          /\ held' = IF HeldBefore(s) = 0
                     THEN [held EXCEPT ![s] = [enteredAt |-> r.at, event |-> r.order.event]]
                     ELSE held
      BY <2>3, <2>7 DEF BookBuy
    <3>2. HeldBefore(s) = 0 /\ held'[s] = [enteredAt |-> r.at, event |-> r.order.event]
      BY <2>1, <3>1
    <3>3. held'[s].enteredAt = r.at /\ held'[s] # None
      <4>1. r.order.event \in Events \cup {None}
        BY <1>3 DEF BookInv, BookTypes, Result, Order
      <4>2. held'[s] \in Meta
        BY <2>4, <3>2, <4>1 DEF Meta
      <4> QED
        BY <3>2, <4>2, NoneAssumption
    <3>4. ~InCooldown(s)
      BY <1>3, <2>3, <3>1, <3>2 DEF TradeInv, EntriesAreCool, HeldBefore
    <3>5. CooldownDays \in Nat
      BY <2>1, BacktestAssumption DEF MoneyTypes, CooldownDays
    <3>6. CooldownDays > 0 /\ lastExitAt[s] # None
            => Day(now) - Day(lastExitAt[s]) >= CooldownDays
      BY <2>4, <2>5, <2>6, <3>4, <3>5 DEF InCooldown
    <3>7. Day(now) <= Day(r.at) /\ Day(now) \in Nat /\ Day(r.at) \in Nat
      BY <2>4, <2>6
    <3>8. lastExitAt[s] # None => Day(lastExitAt[s]) <= Day(r.at) /\ Day(lastExitAt[s]) \in Nat
      BY <2>4, <2>5, <2>6
    <3>9. lastExitAt[s] # None => Day(r.at) - Day(lastExitAt[s]) >= CooldownDays
      BY <3>5, <3>6, <3>7, <3>8
    <3> QED
      BY <2>5, <2>6, <3>3, <3>9
  <2>8. CASE BookSell(r)
    <3>1. /\ held' \in {held, [held EXCEPT ![s] = None]}
          /\ held' # held => lastExitAt' = [lastExitAt EXCEPT ![s] = r.at]
      BY <2>3, <2>8 DEF BookSell
    <3>2. held'[s] = None /\ lastExitAt' = [lastExitAt EXCEPT ![s] = r.at]
      BY <2>1, <3>1
    <3>3. lastExitAt'[s] = r.at
      BY <1>3, <3>2 DEF RestTypes
    <3> QED
      BY <2>4, <2>5, <2>6, <3>2, <3>3
  <2> QED
    BY <2>2, <2>7, <2>8
<1>4. BookInv /\ MoneyInv /\ RestTypes /\ TradeInv /\ [Next]_vars => [Ordered]_vars
  BY <1>3
<1> QED
  BY <1>1, <1>2, <1>4, PTL DEF Spec, TradesFollowEachOther

=============================================================================
