-------------------------- MODULE MinuteBarsProofs --------------------------
(***************************************************************************)
(* Theorems about MinuteBars, for any number of minutes, trades, runs and  *)
(* faults, any lengths of day, page and wire.                              *)
(***************************************************************************)
EXTENDS MinuteBars, FiniteSetTheorems, TLAPS

-----------------------------------------------------------------------------
(* Sums.  What follows about SumFunctionOnSet() holds for all numbers.     *)

LEMMA LeastOf ==
  ASSUME NEW S, S \subseteq Nat, S # {}
  PROVE  \E x \in S : \A y \in S : x <= y
<1>1. \E x \in S : \A y \in S : <<y, x>> \notin OpToRel(<, Nat)
  BY NatLessThanWellFounded, WFMin
<1>2. PICK x \in S : \A y \in S : <<y, x>> \notin OpToRel(<, Nat)
  BY <1>1
<1>3. ASSUME NEW y \in S PROVE x <= y
  <2>1. ~ (y < x)
    BY <1>2 DEF OpToRel
  <2> QED
    BY <2>1
<1> QED
  BY <1>2, <1>3

\* Induction, for a set of numbers.
LEMMA NumbersByInduction ==
  ASSUME NEW N, 0 \in N, \A n \in Nat : n \in N => n + 1 \in N
  PROVE  Nat \subseteq N
<1> SUFFICES ASSUME Nat \ N # {} PROVE FALSE
  OBVIOUS
<1>1. PICK n \in Nat \ N : \A m \in Nat \ N : n <= m
  BY LeastOf
<1>2. n # 0 /\ n - 1 \in Nat
  BY <1>1
<1>3. n - 1 \in N
  <2>1. n - 1 \notin Nat \ N
    BY <1>1, <1>2
  <2> QED
    BY <1>2, <2>1
<1>4. (n - 1) + 1 \in N
  BY <1>2, <1>3
<1> QED
  BY <1>1, <1>2, <1>4

\* The element a sum over S takes first.
Taken(S) == CHOOSE x \in S : TRUE

\* g has the sums of f over the sets of F.
AreSums(g, f, F) ==
  g = [s \in F |-> IF s = {} THEN 0 ELSE f[Taken(s)] + g[s \ {Taken(s)}]]

AreAllSums(g, f, S) == AreSums(g, f, SUBSET S)

LEMMA SumFunctionOnSetDef ==
  ASSUME NEW f, NEW S
  PROVE  SumFunctionOnSet(f, S) = (CHOOSE g : AreAllSums(g, f, S))[S]
BY DEF SumFunctionOnSet, FoldFunctionOnSet, MapThenFoldSet, AreAllSums, AreSums,
   Taken

LEMMA OneLess ==
  ASSUME NEW S, IsFiniteSet(S), NEW x \in S
  PROVE  /\ IsFiniteSet(S \ {x}) /\ Cardinality(S) \in Nat
         /\ Cardinality(S \ {x}) \in Nat
         /\ Cardinality(S \ {x}) = Cardinality(S) - 1
BY FS_RemoveElement, FS_CardinalityType

LEMMA SumsExist ==
  ASSUME NEW f, NEW S, IsFiniteSet(S)
  PROVE  \E g : AreAllSums(g, f, S)
<1> DEFINE F(n) == {s \in SUBSET S : Cardinality(s) <= n}
           N == {n \in Nat : \E g : AreSums(g, f, F(n))}
<1>1. \A s \in SUBSET S : IsFiniteSet(s) /\ Cardinality(s) \in Nat
  BY FS_Subset, FS_CardinalityType
<1>2. \A s \in SUBSET S : s # {} => /\ Taken(s) \in s /\ s \ {Taken(s)} \in SUBSET S
                                    /\ Cardinality(s \ {Taken(s)}) = Cardinality(s) - 1
  <2>1. ASSUME NEW s \in SUBSET S, s # {}
        PROVE  /\ Taken(s) \in s /\ s \ {Taken(s)} \in SUBSET S
               /\ Cardinality(s \ {Taken(s)}) = Cardinality(s) - 1
    <3>1. Taken(s) \in s
      BY <2>1 DEF Taken
    <3>2. Cardinality(s \ {Taken(s)}) = Cardinality(s) - 1
      BY <1>1, <3>1, OneLess
    <3> QED
      BY <3>1, <3>2
  <2> QED
    BY <2>1
<1>3. 0 \in N
  <2>1. \A s \in F(0) : s = {}
    BY <1>1, FS_EmptySet
  <2>2. AreSums([s \in F(0) |-> 0], f, F(0))
    <3> HIDE DEF F
    <3> QED
      BY <2>1 DEF AreSums
  <2> HIDE DEF F
  <2> QED
    BY <2>2
<1>4. ASSUME NEW n \in Nat, n \in N PROVE n + 1 \in N
  <2>1. PICK g : AreSums(g, f, F(n))
    BY <1>4
  <2> DEFINE h == [s \in F(n + 1) |->
                     IF s = {} THEN 0 ELSE f[Taken(s)] + g[s \ {Taken(s)}]]
  <2>2. F(n) \subseteq F(n + 1)
    BY <1>1
  <2>3. \A s \in F(n + 1) : s # {} => s \ {Taken(s)} \in F(n)
    BY <1>1, <1>2
  <2> HIDE DEF F
  <2>4. \A s \in F(n) : h[s] = g[s]
    BY <2>1, <2>2 DEF AreSums
  <2>5. AreSums(h, f, F(n + 1))
    BY <2>3, <2>4 DEF AreSums
  <2> HIDE DEF h
  <2> QED
    BY <2>5
<1> HIDE DEF N
<1>5. Nat \subseteq N
  BY <1>3, <1>4, NumbersByInduction
<1>6. Cardinality(S) \in N
  BY <1>1, <1>5
<1>7. F(Cardinality(S)) = SUBSET S
  <2>1. \A s \in SUBSET S : Cardinality(s) <= Cardinality(S)
    BY FS_Subset
  <2> QED
    BY <2>1
<1>8. \E g : AreSums(g, f, F(Cardinality(S)))
  BY <1>6 DEF N
<1> QED
  BY <1>7, <1>8 DEF AreAllSums

LEMMA SumsAreOne ==
  ASSUME NEW f, NEW S, IsFiniteSet(S), NEW T, T \subseteq S,
         NEW g, AreAllSums(g, f, S), NEW h, AreAllSums(h, f, T)
  PROVE  g[T] = h[T]
<1> DEFINE N == {n \in Nat : \A s \in SUBSET T : Cardinality(s) = n => g[s] = h[s]}
<1>1. \A s \in SUBSET T : IsFiniteSet(s) /\ Cardinality(s) \in Nat /\ s \in SUBSET S
  BY FS_Subset, FS_CardinalityType
<1>2. \A s \in SUBSET T : /\ g[s] = IF s = {} THEN 0 ELSE f[Taken(s)] + g[s \ {Taken(s)}]
                          /\ h[s] = IF s = {} THEN 0 ELSE f[Taken(s)] + h[s \ {Taken(s)}]
  BY <1>1 DEF AreAllSums, AreSums
<1>3. 0 \in N
  <2>1. \A s \in SUBSET T : Cardinality(s) = 0 => s = {}
    BY <1>1, FS_EmptySet
  <2> QED
    BY <1>2, <2>1
<1>4. ASSUME NEW n \in Nat, n \in N PROVE n + 1 \in N
  <2>1. ASSUME NEW s \in SUBSET T, Cardinality(s) = n + 1 PROVE g[s] = h[s]
    <3>1. s # {}
      BY <1>1, <2>1, FS_EmptySet
    <3>2. Taken(s) \in s
      BY <3>1 DEF Taken
    <3>3. Cardinality(s \ {Taken(s)}) = n
      BY <1>1, <2>1, <3>2, OneLess
    <3>4. g[s \ {Taken(s)}] = h[s \ {Taken(s)}]
      BY <1>4, <3>3
    <3> QED
      BY <1>2, <3>1, <3>4
  <2> QED
    BY <2>1
<1> HIDE DEF N
<1>5. Cardinality(T) \in N
  BY <1>1, <1>3, <1>4, NumbersByInduction
<1> QED
  BY <1>5 DEF N

LEMMA SumTakesFirst ==
  ASSUME NEW f, NEW S, IsFiniteSet(S)
  PROVE  SumFunctionOnSet(f, S) =
           IF S = {} THEN 0 ELSE f[Taken(S)] + SumFunctionOnSet(f, S \ {Taken(S)})
<1> DEFINE T == S \ {Taken(S)}
           g == CHOOSE g : AreAllSums(g, f, S)
           h == CHOOSE h : AreAllSums(h, f, T)
<1>1. IsFiniteSet(T) /\ T \subseteq S
  BY FS_Subset
<1>2. AreAllSums(g, f, S)
  BY SumsExist
<1>3. AreAllSums(h, f, T)
  <2> HIDE DEF T
  <2> QED
    BY <1>1, SumsExist
<1>4. SumFunctionOnSet(f, S) = g[S] /\ SumFunctionOnSet(f, T) = h[T]
  BY SumFunctionOnSetDef
<1> HIDE DEF g, h
<1>5. g[T] = h[T]
  <2> HIDE DEF T
  <2> QED
    BY <1>1, <1>2, <1>3, SumsAreOne
<1>6. g[S] = IF S = {} THEN 0 ELSE f[Taken(S)] + g[T]
  <2>1. S \in SUBSET S
    OBVIOUS
  <2> QED
    BY <1>2, <2>1 DEF AreAllSums, AreSums
<1> HIDE DEF T
<1>7. SumFunctionOnSet(f, S) = IF S = {} THEN 0 ELSE f[Taken(S)] + SumFunctionOnSet(f, T)
  BY <1>4, <1>5, <1>6
<1> QED
  BY <1>7 DEF T

\* A sum of numbers of a set that is closed under addition is in the set.
LEMMA SumStaysIn ==
  ASSUME NEW R, 0 \in R, \A i, j \in R : i + j \in R,
         NEW f, NEW S, IsFiniteSet(S), \A x \in S : f[x] \in R
  PROVE  SumFunctionOnSet(f, S) \in R
<1> DEFINE Sum(s) == SumFunctionOnSet(f, s)
           N == {n \in Nat : \A s \in SUBSET S : Cardinality(s) = n => Sum(s) \in R}
<1>1. \A s \in SUBSET S : IsFiniteSet(s) /\ Cardinality(s) \in Nat
  BY FS_Subset, FS_CardinalityType
<1>2. \A s \in SUBSET S : Sum(s) = IF s = {} THEN 0 ELSE f[Taken(s)] + Sum(s \ {Taken(s)})
  BY <1>1, SumTakesFirst
<1> HIDE DEF Sum
<1>3. 0 \in N
  <2>1. \A s \in SUBSET S : Cardinality(s) = 0 => s = {}
    BY <1>1, FS_EmptySet
  <2>2. \A s \in SUBSET S : Cardinality(s) = 0 => Sum(s) = 0
    BY <1>2, <2>1
  <2> QED
    BY <2>2
<1>4. ASSUME NEW n \in Nat, n \in N PROVE n + 1 \in N
  <2>1. ASSUME NEW s \in SUBSET S, Cardinality(s) = n + 1 PROVE Sum(s) \in R
    <3>1. s # {}
      BY <1>1, <2>1, FS_EmptySet
    <3>2. Taken(s) \in s
      BY <3>1 DEF Taken
    <3>3. Cardinality(s \ {Taken(s)}) = n
      BY <1>1, <2>1, <3>2, OneLess
    <3>4. Sum(s \ {Taken(s)}) \in R /\ f[Taken(s)] \in R
      BY <1>4, <3>2, <3>3
    <3> QED
      BY <1>2, <3>1, <3>4
  <2> QED
    BY <2>1
<1> HIDE DEF N
<1>5. Cardinality(S) \in N
  BY <1>1, <1>3, <1>4, NumbersByInduction
<1> QED
  BY <1>5 DEF N, Sum

LEMMA SumIsInt ==
  ASSUME NEW f, NEW S, IsFiniteSet(S), \A x \in S : f[x] \in Int
  PROVE  SumFunctionOnSet(f, S) \in Int
<1>1. 0 \in Int /\ \A i, j \in Int : i + j \in Int
  OBVIOUS
<1> QED
  BY <1>1, SumStaysIn

LEMMA SumIsNat ==
  ASSUME NEW f, NEW S, IsFiniteSet(S), \A x \in S : f[x] \in Nat
  PROVE  SumFunctionOnSet(f, S) \in Nat
<1>1. 0 \in Nat /\ \A i, j \in Nat : i + j \in Nat
  OBVIOUS
<1> QED
  BY <1>1, SumStaysIn

\* A sum may take any of its elements first.
LEMMA SumTakesAny ==
  ASSUME NEW f, NEW S, IsFiniteSet(S), \A x \in S : f[x] \in Int, NEW e \in S
  PROVE  SumFunctionOnSet(f, S) = f[e] + SumFunctionOnSet(f, S \ {e})
<1> DEFINE Sum(s) == SumFunctionOnSet(f, s)
           N == {n \in Nat : \A s \in SUBSET S : Cardinality(s) = n =>
                               \A x \in s : Sum(s) = f[x] + Sum(s \ {x})}
<1>1. \A s \in SUBSET S : IsFiniteSet(s) /\ Cardinality(s) \in Nat
  BY FS_Subset, FS_CardinalityType
<1>2. \A s \in SUBSET S : s # {} => Sum(s) = f[Taken(s)] + Sum(s \ {Taken(s)})
  BY <1>1, SumTakesFirst
<1>3. \A s \in SUBSET S : Sum(s) \in Int
  <2>1. ASSUME NEW s \in SUBSET S PROVE Sum(s) \in Int
    <3>1. IsFiniteSet(s) /\ \A x \in s : f[x] \in Int
      BY <1>1
    <3> QED
      BY <3>1, SumIsInt
  <2> QED
    BY <2>1
<1> HIDE DEF Sum
<1>4. 0 \in N
  BY <1>1, FS_EmptySet
<1>5. ASSUME NEW n \in Nat, n \in N PROVE n + 1 \in N
  <2>1. ASSUME NEW s \in SUBSET S, Cardinality(s) = n + 1, NEW x \in s
        PROVE  Sum(s) = f[x] + Sum(s \ {x})
    <3> DEFINE c == Taken(s)
    <3>1. c \in s /\ Sum(s) = f[c] + Sum(s \ {c})
      BY <1>2 DEF Taken
    <3> HIDE DEF c
    <3>2. CASE x # c
      <4>1. \A y \in s : Cardinality(s \ {y}) = n /\ s \ {y} \in SUBSET S
        BY <1>1, <2>1, OneLess
      <4>2. Sum(s \ {c}) = f[x] + Sum((s \ {c}) \ {x})
        BY <1>5, <3>1, <3>2, <4>1
      <4>3. Sum(s \ {x}) = f[c] + Sum((s \ {x}) \ {c})
        BY <1>5, <3>1, <3>2, <4>1
      <4>4. Sum((s \ {c}) \ {x}) = Sum((s \ {x}) \ {c})
        <5>1. (s \ {c}) \ {x} = (s \ {x}) \ {c}
          OBVIOUS
        <5> QED
          BY <5>1, Zenon
      <4>5. Sum((s \ {x}) \ {c}) \in Int /\ f[x] \in Int /\ f[c] \in Int
        BY <1>3, <3>1
      <4> QED
        BY <3>1, <4>2, <4>3, <4>4, <4>5
    <3> QED
      BY <3>1, <3>2
  <2> QED
    BY <2>1
<1> HIDE DEF N
<1>6. Cardinality(S) \in N
  BY <1>1, <1>4, <1>5, NumbersByInduction
<1> QED
  BY <1>6 DEF N, Sum

\* A sum over two parts.
LEMMA SumOfParts ==
  ASSUME NEW f, NEW S, IsFiniteSet(S), \A x \in S : f[x] \in Int, NEW T \in SUBSET S
  PROVE  SumFunctionOnSet(f, S) = SumFunctionOnSet(f, T) + SumFunctionOnSet(f, S \ T)
<1> DEFINE Sum(s) == SumFunctionOnSet(f, s)
           N == {n \in Nat : \A s \in SUBSET T : Cardinality(s) = n =>
                               Sum(S) = Sum(s) + Sum(S \ s)}
<1>1. \A s \in SUBSET S : IsFiniteSet(s) /\ Cardinality(s) \in Nat
  BY FS_Subset, FS_CardinalityType
<1>2. \A s \in SUBSET S : Sum(s) \in Int /\ \A x \in s : Sum(s) = f[x] + Sum(s \ {x})
  <2>1. ASSUME NEW s \in SUBSET S
        PROVE  Sum(s) \in Int /\ \A x \in s : Sum(s) = f[x] + Sum(s \ {x})
    <3>1. IsFiniteSet(s) /\ \A x \in s : f[x] \in Int
      BY <1>1
    <3> QED
      BY <3>1, SumIsInt, SumTakesAny
  <2> QED
    BY <2>1
<1>3. Sum({}) = 0
  BY FS_EmptySet, SumTakesFirst
<1> HIDE DEF Sum
<1>4. 0 \in N
  <2>1. \A s \in SUBSET T : Cardinality(s) = 0 => s = {}
    BY <1>1, FS_EmptySet
  <2>2. S \ {} = S /\ Sum(S) \in Int
    BY <1>2
  <2>3. Sum(S) = Sum({}) + Sum(S \ {})
    <3>1. Sum(S \ {}) = Sum(S)
      BY <2>2, Zenon
    <3> QED
      BY <1>3, <2>2, <3>1
  <2>4. \A s \in SUBSET T : Cardinality(s) = 0 => Sum(S) = Sum(s) + Sum(S \ s)
    BY <2>1, <2>3, Zenon
  <2> QED
    BY <2>4
<1>5. ASSUME NEW n \in Nat, n \in N PROVE n + 1 \in N
  <2>1. ASSUME NEW s \in SUBSET T, Cardinality(s) = n + 1 PROVE Sum(S) = Sum(s) + Sum(S \ s)
    <3>1. s # {}
      BY <1>1, <2>1, FS_EmptySet
    <3>2. PICK x \in s : TRUE
      BY <3>1
    <3>3. Cardinality(s \ {x}) = n
      BY <1>1, <2>1, <3>2, OneLess
    <3>4. Sum(S) = Sum(s \ {x}) + Sum(S \ (s \ {x}))
      BY <1>5, <3>3
    <3>5. Sum(s) = f[x] + Sum(s \ {x})
      BY <1>2, <3>2
    <3>6. Sum(S \ (s \ {x})) = f[x] + Sum((S \ (s \ {x})) \ {x})
      BY <1>2, <3>2
    <3>7. Sum((S \ (s \ {x})) \ {x}) = Sum(S \ s)
      <4>1. (S \ (s \ {x})) \ {x} = S \ s
        BY <3>2
      <4> QED
        BY <4>1, Zenon
    <3>8. f[x] \in Int /\ Sum(s \ {x}) \in Int /\ Sum(S \ s) \in Int
      BY <1>2, <3>2
    <3> QED
      BY <3>4, <3>5, <3>6, <3>7, <3>8
  <2> QED
    BY <2>1
<1> HIDE DEF N
<1>6. Cardinality(T) \in N
  BY <1>1, <1>4, <1>5, NumbersByInduction
<1> QED
  BY <1>6 DEF N, Sum

\* A sum of nothing but zeros, but for one number.
LEMMA SumOfOne ==
  ASSUME NEW f, NEW S, IsFiniteSet(S), \A x \in S : f[x] \in Int, NEW e \in S,
         \A x \in S \ {e} : f[x] = 0
  PROVE  SumFunctionOnSet(f, S) = f[e]
<1>1. SumFunctionOnSet(f, S) = f[e] + SumFunctionOnSet(f, S \ {e})
  BY SumTakesAny
<1>2. SumFunctionOnSet(f, S \ {e}) \in {0}
  <2> DEFINE Z == {0}
  <2>1. 0 \in Z /\ \A i, j \in Z : i + j \in Z
    OBVIOUS
  <2>2. IsFiniteSet(S \ {e}) /\ \A x \in S \ {e} : f[x] \in Z
    BY FS_Subset
  <2> HIDE DEF Z
  <2>3. SumFunctionOnSet(f, S \ {e}) \in Z
    BY <2>1, <2>2, SumStaysIn
  <2> QED
    BY <2>3 DEF Z
<1> QED
  BY <1>1, <1>2

-----------------------------------------------------------------------------
(* Numbers and minutes.                                                    *)

LEMMA ProductsGrow ==
  ASSUME NEW a \in Nat, NEW b \in Nat, NEW d \in Nat, a <= b
  PROVE  a * d \in Nat /\ b * d \in Nat /\ a * d <= b * d
OBVIOUS

LEMMA Quotient ==
  ASSUME NEW a \in Nat, NEW d \in Nat \ {0}
  PROVE  /\ a \div d \in Nat /\ (a \div d) * d \in Nat
         /\ (a \div d) * d <= a /\ a < (a \div d) * d + d
<1> DEFINE q == a \div d
           r == a % d
<1>1. q \in Nat /\ r \in 0..(d - 1) /\ a = d * q + r
  OBVIOUS
<1>2. d * q \in Nat /\ d * q = q * d
  BY <1>1
<1> HIDE DEF q, r
<1> QED
  BY <1>1, <1>2 DEF q

LEMMA QuotientsGrow ==
  ASSUME NEW a \in Nat, NEW b \in Nat, NEW d \in Nat \ {0}, a <= b
  PROVE  a \div d <= b \div d
<1> DEFINE p == a \div d
           q == b \div d
<1>1. /\ p \in Nat /\ p * d \in Nat /\ p * d <= a
      /\ q \in Nat /\ q * d \in Nat /\ b < q * d + d
  BY Quotient
<1> HIDE DEF p, q
<1>2. ASSUME q + 1 <= p PROVE FALSE
  <2> DEFINE n == q + 1
  <2>1. n \in Nat /\ n * d = q * d + d
    BY <1>1
  <2>2. n * d <= p * d
    <3>1. n <= p
      BY <1>2
    <3> HIDE DEF n
    <3> QED
      BY <1>1, <2>1, <3>1, ProductsGrow
  <2> HIDE DEF n
  <2> QED
    BY <1>1, <2>1, <2>2
<1>3. p <= q
  BY <1>1, <1>2
<1> QED
  BY <1>3 DEF p, q

LEMMA MinutesFacts ==
  /\ Minutes \subseteq Nat \ {0} /\ IsFiniteSet(Minutes)
  /\ \A S \in SUBSET Minutes : IsFiniteSet(S)
<1>1. MaxMinute \in Nat
  BY MinuteAssumption
<1>2. Minutes \subseteq Nat \ {0}
  BY <1>1 DEF Minutes
<1>3. IsFiniteSet(Minutes)
  BY <1>1, FS_Interval DEF Minutes
<1> QED
  BY <1>2, <1>3, FS_Subset

\* Days are in order.
LEMMA DaysGrow ==
  ASSUME NEW m \in Minutes, NEW n \in Minutes, m <= n
  PROVE  DayOf(m) \in Nat /\ DayOf(n) \in Nat /\ DayOf(m) <= DayOf(n)
<1>1. m \in Nat \ {0} /\ n \in Nat \ {0} /\ DayLength \in Nat \ {0}
  BY MinutesFacts, MinuteAssumption
<1> DEFINE a == m - 1
           b == n - 1
<1>2. a \in Nat /\ b \in Nat /\ a <= b
  BY <1>1
<1> HIDE DEF a, b
<1>3. a \div DayLength \in Nat /\ b \div DayLength \in Nat /\ a \div DayLength <= b \div DayLength
  BY <1>1, <1>2, Quotient, QuotientsGrow
<1> QED
  BY <1>3 DEF DayOf, a, b

\* The end of the day before.
LEMMA DayBefore ==
  ASSUME NEW m \in Nat \ {0}
  PROVE  DayOf(m) * DayLength \in Nat /\ DayOf(m) * DayLength < m
<1> DEFINE a == m - 1
<1>1. a \in Nat /\ a < m /\ DayLength \in Nat \ {0}
  BY MinuteAssumption
<1> HIDE DEF a
<1>2. (a \div DayLength) * DayLength \in Nat /\ (a \div DayLength) * DayLength <= a
  BY <1>1, Quotient
<1> DEFINE d == (a \div DayLength) * DayLength
<1>3. DayOf(m) * DayLength = d
  BY DEF DayOf, a
<1> HIDE DEF d
<1>4. d \in Nat /\ d < m
  BY <1>1, <1>2 DEF d
<1> QED
  BY <1>3, <1>4

LEMMA LatestOf ==
  ASSUME NEW S \in SUBSET Minutes, S # {}
  PROVE  Max(S) \in S /\ \A x \in S : x <= Max(S)
<1> DEFINE D == {MaxMinute - x : x \in S}
<1>1. MaxMinute \in Nat /\ \A x \in S : x \in Nat /\ x <= MaxMinute
  BY MinuteAssumption DEF Minutes
<1>2. D \subseteq Nat /\ D # {}
  BY <1>1
<1>3. PICK d \in D : \A y \in D : d <= y
  BY <1>2, LeastOf
<1>4. PICK x \in S : d = MaxMinute - x
  OBVIOUS
<1>5. \A y \in S : x >= y
  BY <1>1, <1>3, <1>4
<1>6. Max(S) \in S /\ \A y \in S : Max(S) >= y
  BY <1>5 DEF Max
<1> QED
  BY <1>1, <1>6

LEMMA EarliestOf ==
  ASSUME NEW S \in SUBSET Minutes, S # {}
  PROVE  Min(S) \in S /\ \A x \in S : Min(S) <= x
<1>1. \E x \in S : \A y \in S : x <= y
  BY LeastOf, MinutesFacts
<1> QED
  BY <1>1 DEF Min

-----------------------------------------------------------------------------
(* Ticks on the wire.                                                      *)

\* How many of the ticks are of minute m.
TicksOf(ticks, m) == Cardinality({i \in DOMAIN ticks : ticks[i] = m})

LEMMA TicksAreCounted ==
  ASSUME NEW ticks \in Seq(Minutes), NEW m
  PROVE  /\ IsFiniteSet({i \in DOMAIN ticks : ticks[i] = m})
         /\ TicksOf(ticks, m) \in Nat
         /\ TicksOf(ticks, m) = 0 <=> m \notin MinutesOf(ticks)
<1> DEFINE S == {i \in DOMAIN ticks : ticks[i] = m}
<1>1. IsFiniteSet(DOMAIN ticks)
  BY FS_Interval
<1>2. IsFiniteSet(S)
  BY <1>1, FS_Subset
<1>3. Cardinality(S) \in Nat /\ (Cardinality(S) = 0 <=> S = {})
  BY <1>2, FS_CardinalityType, FS_EmptySet
<1> QED
  BY <1>2, <1>3 DEF TicksOf, MinutesOf

LEMMA TickArrives ==
  ASSUME NEW ticks \in Seq(Minutes), NEW n \in Minutes, NEW m
  PROVE  TicksOf(Append(ticks, n), m) = TicksOf(ticks, m) + IF n = m THEN 1 ELSE 0
<1> DEFINE more == Append(ticks, n)
           last == Len(ticks) + 1
           S == {i \in DOMAIN ticks : ticks[i] = m}
           T == {i \in DOMAIN more : more[i] = m}
<1>1. /\ DOMAIN ticks = 1..Len(ticks) /\ Len(ticks) \in Nat
      /\ DOMAIN more = 1..last /\ more[last] = n
      /\ \A i \in DOMAIN ticks : more[i] = ticks[i]
  OBVIOUS
<1>2. IsFiniteSet(S) /\ Cardinality(S) \in Nat
  BY TicksAreCounted DEF TicksOf
<1>3. last \notin S
  BY <1>1
<1>4. T = IF n = m THEN S \cup {last} ELSE S
  <2>1. DOMAIN more = DOMAIN ticks \cup {last}
    BY <1>1
  <2> HIDE DEF more, last
  <2> QED
    BY <1>1, <2>1
<1> HIDE DEF S, T
<1>5. Cardinality(T) = Cardinality(S) + IF n = m THEN 1 ELSE 0
  <2>1. CASE n = m
    BY <1>2, <1>3, <1>4, <2>1, FS_AddElement
  <2>2. CASE n # m
    BY <1>2, <1>4, <2>2
  <2> QED
    BY <2>1, <2>2
<1> QED
  BY <1>5 DEF TicksOf, S, T

LEMMA TickIsTaken ==
  ASSUME NEW ticks \in Seq(Minutes), ticks # <<>>, NEW m
  PROVE  TicksOf(ticks, m) = TicksOf(Tail(ticks), m) + IF Head(ticks) = m THEN 1 ELSE 0
<1> DEFINE rest == Tail(ticks)
           S == {i \in DOMAIN ticks : ticks[i] = m}
           R == {i \in DOMAIN rest : rest[i] = m}
           later == [i \in R |-> i + 1]
<1>1. /\ DOMAIN ticks = 1..Len(ticks) /\ Len(ticks) \in Nat \ {0}
      /\ DOMAIN rest = 1..(Len(ticks) - 1)
      /\ \A i \in DOMAIN rest : rest[i] = ticks[i + 1]
      /\ Head(ticks) = ticks[1] /\ rest \in Seq(Minutes)
  OBVIOUS
<1>2. IsFiniteSet(S) /\ IsFiniteSet(R)
  BY <1>1, TicksAreCounted
<1>3. later \in Bijection(R, S \ {1})
  <2>1. \A i \in R : i + 1 \in S \ {1}
    BY <1>1
  <2>2. \A j \in S \ {1} : j - 1 \in R /\ (j - 1) + 1 = j
    BY <1>1
  <2>3. later \in [R -> S \ {1}]
    BY <2>1
  <2>4. \A i, j \in R : later[i] = later[j] => i = j
    BY <1>1
  <2>5. \A j \in S \ {1} : \E i \in R : later[i] = j
    BY <2>2
  <2> HIDE DEF later, R, S
  <2>6. later \in Injection(R, S \ {1})
    BY <2>3, <2>4 DEF Injection, IsInjective
  <2>7. later \in Surjection(R, S \ {1})
    BY <2>3, <2>5 DEF Surjection
  <2> QED
    BY <2>6, <2>7 DEF Bijection
<1> HIDE DEF S, R, later
<1>4. Cardinality(S \ {1}) = Cardinality(R)
  BY <1>2, <1>3, FS_Bijection DEF ExistsBijection
<1>5. Cardinality(S) \in Nat /\ Cardinality(R) \in Nat
  BY <1>2, FS_CardinalityType
<1>6. Cardinality(S) = Cardinality(R) + IF 1 \in S THEN 1 ELSE 0
  <2>1. Cardinality(S \ {1}) = IF 1 \in S THEN Cardinality(S) - 1 ELSE Cardinality(S)
    BY <1>2, FS_RemoveElement
  <2> QED
    BY <1>4, <1>5, <2>1
<1>7. 1 \in S <=> Head(ticks) = m
  BY <1>1 DEF S
<1> QED
  BY <1>6, <1>7 DEF TicksOf, S, R

LEMMA OneTick ==
  ASSUME NEW n \in Minutes, NEW m, m # n
  PROVE  TicksOf(<<n>>, m) = 0 /\ TicksOf(<<>>, m) = 0
<1>1. <<n>> \in Seq(Minutes) /\ <<>> \in Seq(Minutes)
  OBVIOUS
<1>2. m \notin MinutesOf(<<n>>) /\ m \notin MinutesOf(<<>>)
  BY DEF MinutesOf
<1> QED
  BY <1>1, <1>2, TicksAreCounted

-----------------------------------------------------------------------------
(* The stream: every tick of a minute outside gaps is counted once.        *)

OnWire(m) == TicksOf(wire, m)
InPartial(m) == IF partial # None /\ partial.minute = m THEN partial.volume ELSE 0
InCompleted(m) == IF completed # None /\ completed.minute = m THEN completed.volume ELSE 0
Carried(m) == OnWire(m) + InPartial(m) + InCompleted(m)

IsWs(m) == table[m] # None /\ table[m].source = "ws"

\* All trades of the minute are on their way to the table, or all are there.
Underway(m) == Carried(m) = trades[m] /\ ~IsWs(m)
Stored(m) == /\ Carried(m) = 0 /\ m < now /\ table[m] # None
             /\ IsWs(m) => table[m].volume = trades[m]

TickInv == \A m \in Minutes \ gaps : Underway(m) \/ Stored(m)

\* Ticks come in order, and only those that are resent are older than the bar
\* in progress.
WireInv ==
  /\ link # "up" => wire = <<>>
  /\ \A i \in DOMAIN wire : wire[i] <= now
  /\ \A i, j \in DOMAIN wire : i <= j => wire[i] <= wire[j]
  /\ partial # None => partial.minute <= now
  /\ completed # None => partial # None /\ completed.minute < partial.minute
  /\ \A i \in DOMAIN wire : (wire[i] \notin gaps /\ partial # None) => partial.minute <= wire[i]

ExchangeInv == \A m \in Minutes : trades[m] > 0 => m <= now

StreamInv == ExchangeInv /\ WireInv /\ TickInv

LEMMA CarriedFacts ==
  ASSUME TypeOK, NEW m \in Minutes
  PROVE  /\ OnWire(m) \in Nat /\ InPartial(m) \in Nat /\ InCompleted(m) \in Nat
         /\ trades[m] \in Nat /\ m \in Nat \ {0} /\ now \in Nat \ {0}
<1>1. OnWire(m) \in Nat
  BY TicksAreCounted DEF TypeOK, OnWire
<1>2. InPartial(m) \in Nat /\ InCompleted(m) \in Nat
  BY DEF TypeOK, InPartial, InCompleted, PartialBar
<1>3. trades[m] \in Nat /\ now \in Nat \ {0}
  BY MinuteAssumption DEF TypeOK
<1> QED
  BY <1>1, <1>2, <1>3, MinutesFacts

\* The ticks of m only move.
LEMMA TicksMove ==
  ASSUME NEW m \in Minutes, Underway(m) \/ Stored(m),
         Carried(m)' = Carried(m), trades' = trades, now' = now, table'[m] = table[m]
  PROVE  (Underway(m) \/ Stored(m))'
BY DEF Underway, Stored, IsWs

LEMMA TradeKeepsStream ==
  ASSUME TypeOK, StreamInv, Trade
  PROVE  StreamInv'
<1>1. /\ now \in Minutes /\ now \in Nat \ {0}
      /\ trades' = [trades EXCEPT ![now] = @ + 1]
      /\ UNCHANGED <<now, table, link, subscribed, partial, completed>>
  BY MinutesFacts, MinuteAssumption DEF Trade, TypeOK, Minutes
<1>2. trades \in [Minutes -> Nat] /\ wire \in Seq(Minutes)
  BY MinuteAssumption DEF TypeOK
<1>3. ExchangeInv'
  BY <1>1, <1>2 DEF StreamInv, ExchangeInv
<1>4. CASE link = "up" /\ subscribed
  <2>1. wire' = Append(wire, now) /\ gaps' = gaps
    BY <1>4 DEF Trade
  <2>2. \A m \in Minutes : OnWire(m)' = OnWire(m) + IF now = m THEN 1 ELSE 0
    BY <1>1, <1>2, <2>1, TickArrives DEF OnWire
  <2>3. TickInv'
    <3> SUFFICES ASSUME NEW m \in Minutes \ gaps PROVE (Underway(m) \/ Stored(m))'
      BY <2>1 DEF TickInv
    <3>1. Underway(m) \/ Stored(m)
      BY DEF StreamInv, TickInv
    <3>2. InPartial(m)' = InPartial(m) /\ InCompleted(m)' = InCompleted(m) /\ IsWs(m)' = IsWs(m)
      BY <1>1 DEF InPartial, InCompleted, IsWs
    <3>3. OnWire(m) \in Nat /\ InPartial(m) \in Nat /\ InCompleted(m) \in Nat /\ trades[m] \in Nat
      BY CarriedFacts
    <3>4. Carried(m)' = Carried(m) + IF now = m THEN 1 ELSE 0
      BY <2>2, <3>2, <3>3 DEF Carried
    <3>5. trades'[m] = trades[m] + IF now = m THEN 1 ELSE 0
      BY <1>1, <1>2, <3>3
    <3>6. CASE Underway(m)
      BY <3>2, <3>4, <3>5, <3>6 DEF Underway
    <3>7. CASE Stored(m)
      <4>1. now # m /\ Carried(m) = 0
        BY <1>1, <3>7, MinutesFacts DEF Stored
      <4>2. Carried(m)' = 0 /\ trades'[m] = trades[m]
        BY <3>3, <3>4, <3>5, <4>1
      <4> QED
        BY <1>1, <3>2, <3>7, <4>2 DEF Stored
    <3> QED
      BY <3>1, <3>6, <3>7
  <2>4. WireInv'
    <3> DEFINE last == Len(wire) + 1
    <3>1. /\ DOMAIN wire' = 1..last /\ wire'[last] = now
          /\ DOMAIN wire = 1..(last - 1) /\ last \in Nat
          /\ \A i \in DOMAIN wire : wire'[i] = wire[i] /\ wire[i] \in Nat
      BY <1>2, <2>1, MinutesFacts
    <3> HIDE DEF last
    <3>2. partial # None => partial.minute \in Nat
      BY MinutesFacts DEF TypeOK, PartialBar
    <3>3. \A i \in DOMAIN wire' : i \in DOMAIN wire \/ i = last
      BY <3>1
    <3>4. \A i \in DOMAIN wire' : wire'[i] <= now'
      BY <1>1, <3>1, <3>3 DEF StreamInv, WireInv
    <3>5. \A i, j \in DOMAIN wire' : i <= j => wire'[i] <= wire'[j]
      BY <1>1, <3>1, <3>3, <3>4 DEF StreamInv, WireInv
    <3>6. \A i \in DOMAIN wire' : (wire'[i] \notin gaps' /\ partial' # None)
                                   => partial'.minute <= wire'[i]
      BY <1>1, <2>1, <3>1, <3>3 DEF StreamInv, WireInv
    <3> QED
      BY <1>1, <1>4, <3>4, <3>5, <3>6 DEF StreamInv, WireInv
  <2> QED
    BY <1>3, <2>3, <2>4 DEF StreamInv
<1>5. CASE ~(link = "up" /\ subscribed)
  <2>1. wire' = wire /\ gaps' = gaps \cup {now}
    BY <1>5 DEF Trade
  <2>2. TickInv'
    <3> SUFFICES ASSUME NEW m \in Minutes \ gaps, m # now PROVE (Underway(m) \/ Stored(m))'
      BY <2>1 DEF TickInv
    <3>1. Carried(m)' = Carried(m) /\ trades'[m] = trades[m]
      BY <1>1, <1>2, <2>1 DEF Carried, OnWire, InPartial, InCompleted
    <3> QED
      BY <1>1, <3>1 DEF StreamInv, TickInv, Underway, Stored, IsWs
  <2>3. WireInv'
    BY <1>1, <2>1 DEF StreamInv, WireInv
  <2> QED
    BY <1>3, <2>2, <2>3 DEF StreamInv
<1> QED
  BY <1>4, <1>5

\* A connection ends: what is not kept is marked.
LEMMA WireCut ==
  ASSUME TypeOK, StreamInv, NEW lost,
         UNCHANGED <<now, trades, table>>,
         wire' = <<>>, gaps' = gaps \cup MinutesOf(wire) \cup lost,
         partial' = partial \/ (partial' = None /\ completed' = None),
         completed' = completed \/ completed' = None,
         (completed # None /\ completed' = None) => completed.minute \in lost,
         (partial # None /\ partial' = None) => partial.minute \in lost
  PROVE  StreamInv'
<1>1. ExchangeInv'
  BY DEF StreamInv, ExchangeInv
<1>2. WireInv'
  BY DEF StreamInv, WireInv
<1>3. ASSUME NEW m \in Minutes \ gaps' PROVE (Underway(m) \/ Stored(m))'
  <2>1. Underway(m) \/ Stored(m)
    BY <1>3 DEF StreamInv, TickInv
  <2>2. OnWire(m) = 0 /\ OnWire(m)' = 0
    <3>1. m \notin MinutesOf(wire) /\ m \notin MinutesOf(wire')
      BY <1>3 DEF MinutesOf
    <3>2. wire \in Seq(Minutes) /\ wire' \in Seq(Minutes)
      BY DEF TypeOK
    <3> QED
      BY <3>1, <3>2, TicksAreCounted DEF OnWire
  <2>3. InPartial(m)' = InPartial(m) /\ InCompleted(m)' = InCompleted(m)
    BY <1>3 DEF InPartial, InCompleted
  <2>4. Carried(m)' = Carried(m)
    BY <2>2, <2>3 DEF Carried
  <2> QED
    BY <2>1, <2>4, TicksMove
<1>4. TickInv'
  BY <1>3 DEF TickInv
<1> QED
  BY <1>1, <1>2, <1>4 DEF StreamInv

LEMMA CutsKeepStream ==
  ASSUME TypeOK, StreamInv,
         Disconnect \/ StopStream \/ StoreBarFails
  PROVE  StreamInv'
<1>1. CASE Disconnect
  BY <1>1, WireCut DEF Disconnect, Disconnected, exchangeVars
<1>2. CASE StopStream
  <2> DEFINE lost == {b.minute : b \in {partial, completed} \ {None}}
  <2>1. /\ UNCHANGED <<now, trades, table>>
        /\ wire' = <<>> /\ partial' = None /\ completed' = None
        /\ gaps' = gaps \cup MinutesOf(wire) \cup lost
    BY <1>2 DEF StopStream, exchangeVars
  <2>2. /\ completed # None => completed.minute \in lost
        /\ partial # None => partial.minute \in lost
    OBVIOUS
  <2> HIDE DEF lost
  <2> QED
    BY <2>1, <2>2, WireCut
<1>3. CASE StoreBarFails
  <2> DEFINE lost == {completed.minute}
  <2>1. /\ UNCHANGED <<now, trades, table, partial>>
        /\ wire' = <<>> /\ completed' = None
        /\ gaps' = gaps \cup MinutesOf(wire) \cup lost
    BY <1>3 DEF StoreBarFails, Disconnected, exchangeVars
  <2>2. completed.minute \in lost
    OBVIOUS
  <2> HIDE DEF lost
  <2> QED
    BY <2>1, <2>2, WireCut
<1> QED
  BY <1>1, <1>2, <1>3

LEMMA ConnectKeepsStream ==
  ASSUME TypeOK, StreamInv, NEW accepted, NEW n \in Minutes, NEW resent,
         resent = <<>> \/ resent = <<n>>, Connect(accepted, resent)
  PROVE  StreamInv'
<1>1. /\ wire = <<>> /\ wire' = resent /\ gaps' = gaps \cup MinutesOf(resent)
      /\ UNCHANGED <<now, trades, table, partial, completed>>
      /\ link' = "up"
      /\ \A m \in MinutesOf(resent) : trades[m] > 0
  BY DEF Connect, StreamInv, WireInv, exchangeVars
<1>2. ExchangeInv'
  BY <1>1 DEF StreamInv, ExchangeInv
<1>3. \A i \in DOMAIN resent : resent[i] = n /\ n \in MinutesOf(resent)
  BY DEF MinutesOf
<1>4. WireInv'
  <2>1. \A i \in DOMAIN resent : n <= now /\ n \in Nat /\ n \in gaps'
    BY <1>1, <1>3, MinutesFacts DEF StreamInv, ExchangeInv
  <2> QED
    BY <1>1, <1>3, <2>1 DEF StreamInv, WireInv
<1>5. ASSUME NEW m \in Minutes \ gaps' PROVE (Underway(m) \/ Stored(m))'
  <2>1. Underway(m) \/ Stored(m)
    BY <1>1, <1>5 DEF StreamInv, TickInv
  <2>2. resent = <<n>> => m # n
    BY <1>1, <1>5 DEF MinutesOf
  <2>3. OnWire(m)' = OnWire(m)
    BY <1>1, <2>2, OneTick DEF OnWire
  <2>4. Carried(m)' = Carried(m)
    BY <1>1, <2>3 DEF Carried, InPartial, InCompleted
  <2> QED
    BY <1>1, <2>1, <2>4, TicksMove
<1>6. TickInv'
  BY <1>5 DEF TickInv
<1> QED
  BY <1>2, <1>4, <1>6 DEF StreamInv

\* The first tick of the wire leaves it.
LEMMA TickLeaves ==
  ASSUME TypeOK, StreamInv, wire # <<>>, wire' = Tail(wire)
  PROVE  /\ Head(wire) \in Minutes /\ Head(wire) <= now
         /\ \A m \in Minutes : OnWire(m) = OnWire(m)' + IF Head(wire) = m THEN 1 ELSE 0
         /\ \A m \in Minutes : OnWire(m)' \in Nat
         /\ \A m \in Minutes : m < Head(wire) => OnWire(m) = 0
         /\ \A i \in DOMAIN wire' : i + 1 \in DOMAIN wire /\ wire'[i] = wire[i + 1]
         /\ \A i \in DOMAIN wire' : Head(wire) <= wire'[i]
<1>1. wire \in Seq(Minutes) /\ wire' \in Seq(Minutes)
  BY DEF TypeOK
<1>2. /\ Head(wire) = wire[1] /\ 1 \in DOMAIN wire
      /\ \A i \in DOMAIN wire : i \in Nat /\ 1 <= i
      /\ \A i \in DOMAIN wire' : i + 1 \in DOMAIN wire /\ wire'[i] = wire[i + 1]
  BY <1>1
<1>3. Head(wire) \in Minutes /\ Head(wire) <= now
  BY <1>1, <1>2 DEF StreamInv, WireInv
<1>4. \A i \in DOMAIN wire : Head(wire) <= wire[i]
  BY <1>2 DEF StreamInv, WireInv
<1>5. \A m \in Minutes : OnWire(m) = OnWire(m)' + IF Head(wire) = m THEN 1 ELSE 0
  BY <1>1, TickIsTaken DEF OnWire
<1>6. \A m \in Minutes : OnWire(m)' \in Nat
  BY <1>1, TicksAreCounted DEF OnWire
<1>7. ASSUME NEW m \in Minutes, m < Head(wire) PROVE OnWire(m) = 0
  <2>1. m \notin MinutesOf(wire)
    <3> SUFFICES ASSUME NEW i \in DOMAIN wire, wire[i] = m PROVE FALSE
      BY DEF MinutesOf
    <3>1. Head(wire) <= m /\ m \in Nat /\ Head(wire) \in Nat
      BY <1>3, <1>4, MinutesFacts
    <3> QED
      BY <1>7, <3>1
  <2> QED
    BY <1>1, <2>1, TicksAreCounted DEF OnWire
<1> QED
  BY <1>2, <1>3, <1>4, <1>5, <1>6, <1>7

\* A tick becomes part of the bar in progress, or opens one.
Aggregates(m) ==
  /\ link = "up" /\ completed = None /\ wire # <<>> /\ m = Head(wire)
  /\ wire' = Tail(wire)
  /\ UNCHANGED <<now, trades, table, link, gaps>>
  /\ partial' # None /\ partial'.minute = m

LEMMA AggregateKeepsWire ==
  ASSUME TypeOK, StreamInv, NEW m, Aggregates(m),
         completed' = None \/ (completed' # None /\ completed'.minute < m)
  PROVE  ExchangeInv' /\ WireInv'
<1>1. /\ Head(wire) = m /\ m \in Minutes /\ m <= now
      /\ \A i \in DOMAIN wire' : i + 1 \in DOMAIN wire /\ wire'[i] = wire[i + 1]
      /\ \A i \in DOMAIN wire' : m <= wire'[i]
  BY TickLeaves DEF Aggregates
<1>2. \A i \in DOMAIN wire' : i \in Nat
  BY DEF TypeOK, Aggregates
<1>3. ExchangeInv'
  BY DEF Aggregates, StreamInv, ExchangeInv
<1>4. \A i \in DOMAIN wire' : wire'[i] <= now'
  BY <1>1 DEF Aggregates, StreamInv, WireInv
<1>5. \A i, j \in DOMAIN wire' : i <= j => wire'[i] <= wire'[j]
  BY <1>1, <1>2 DEF StreamInv, WireInv
<1> QED
  BY <1>1, <1>3, <1>4, <1>5 DEF Aggregates, WireInv

LEMMA ExtendKeepsStream ==
  ASSUME TypeOK, StreamInv, Receive, NEW m, m = Head(wire), Extend(m)
  PROVE  StreamInv'
<1>1. /\ partial # None /\ partial.minute = m /\ partial \in PartialBar
      /\ partial' = [partial EXCEPT !.volume = @ + 1]
      /\ completed' = completed /\ completed = None
  BY DEF TypeOK, Extend, Receive
<1>2. partial.volume \in Nat /\ partial' \in PartialBar
      /\ partial'.minute = m /\ partial'.volume = partial.volume + 1
  BY <1>1 DEF PartialBar
<1>3. partial' # None
  BY <1>2, NoneAssumption
<1>4. Aggregates(m)
  BY <1>2, <1>3 DEF Extend, Receive, Aggregates, exchangeVars
<1>5. ExchangeInv' /\ WireInv'
  BY <1>1, <1>4, AggregateKeepsWire
<1>6. ASSUME NEW n \in Minutes \ gaps' PROVE (Underway(n) \/ Stored(n))'
  <2>1. OnWire(n) = OnWire(n)' + IF m = n THEN 1 ELSE 0
    BY <1>4, TickLeaves DEF Aggregates
  <2>2. InPartial(n)' = InPartial(n) + IF m = n THEN 1 ELSE 0
    BY <1>1, <1>2, <1>3, CarriedFacts DEF InPartial
  <2>3. InCompleted(n)' = InCompleted(n)
    BY <1>1 DEF InCompleted
  <2>4. /\ OnWire(n) \in Nat /\ InPartial(n) \in Nat /\ InCompleted(n) \in Nat
        /\ OnWire(n)' \in Nat
    BY <1>4, CarriedFacts, TickLeaves DEF Aggregates
  <2>5. Carried(n)' = Carried(n)
    BY <2>1, <2>2, <2>3, <2>4 DEF Carried
  <2> QED
    BY <1>4, <1>6, <2>5, TicksMove DEF Aggregates, StreamInv, TickInv
<1> QED
  BY <1>5, <1>6 DEF StreamInv, TickInv

\* Open and Complete start a bar; the one before, if any, waits to be stored.
Starts(m) ==
  /\ Aggregates(m)
  /\ partial' = Opening(m)
  /\ completed' = partial
  /\ partial # None => partial.minute < m

LEMMA StartKeepsStream ==
  ASSUME TypeOK, StreamInv, NEW m, Starts(m)
  PROVE  StreamInv'
<1>1. /\ m = Head(wire) /\ m \in Minutes
      /\ \A n \in Minutes : n < m => OnWire(n) = 0
  BY TickLeaves DEF Starts, Aggregates
<1>2. ExchangeInv' /\ WireInv'
  BY AggregateKeepsWire DEF Starts
<1>3. ASSUME NEW n \in Minutes \ gaps' PROVE (Underway(n) \/ Stored(n))'
  <2>1. OnWire(n) = OnWire(n)' + IF m = n THEN 1 ELSE 0
    BY <1>1, TickLeaves DEF Starts, Aggregates
  <2>2. InPartial(n)' = IF m = n THEN 1 ELSE 0
    BY DEF Starts, Aggregates, InPartial, Opening
  <2>3. InCompleted(n)' = InPartial(n)
    BY DEF Starts, InCompleted, InPartial
  <2>4. InCompleted(n) = 0
    BY DEF Starts, Aggregates, InCompleted
  <2>5. /\ OnWire(n) \in Nat /\ InPartial(n) \in Nat /\ OnWire(n)' \in Nat
    BY CarriedFacts, TickLeaves DEF Starts, Aggregates
  <2>6. Carried(n)' = Carried(n)
    BY <2>1, <2>2, <2>3, <2>4, <2>5 DEF Carried
  <2> QED
    BY <1>3, <2>6, TicksMove DEF Starts, Aggregates, StreamInv, TickInv
<1> QED
  BY <1>2, <1>3 DEF StreamInv, TickInv

LEMMA ReceiveKeepsStream ==
  ASSUME TypeOK, StreamInv, Receive
  PROVE  StreamInv'
<1> DEFINE m == Head(wire)
<1>1. /\ link = "up" /\ completed = None /\ wire # <<>>
      /\ Extend(m) \/ Open(m) \/ Complete(m) \/ OutOfOrder(m)
      /\ UNCHANGED <<now, trades, table>>
  BY DEF Receive, exchangeVars
<1>2. Opening(m) # None /\ Opening(m).minute = m
  <2>1. Opening(m) \in PartialBar
    BY <1>1 DEF TypeOK, Opening, PartialBar
  <2> QED
    BY <2>1, NoneAssumption DEF Opening
<1>3. CASE Extend(m)
  BY <1>3, ExtendKeepsStream
<1>4. CASE Open(m)
  <2>1. Starts(m)
    BY <1>1, <1>2, <1>4 DEF Open, Starts, Aggregates
  <2> QED
    BY <2>1, StartKeepsStream
<1>5. CASE Complete(m)
  <2>1. partial.minute < m
    BY <1>1, <1>5, MinutesFacts DEF TypeOK, Complete, PartialBar
  <2>2. Starts(m)
    BY <1>1, <1>2, <1>5, <2>1 DEF Complete, Starts, Aggregates
  <2> QED
    BY <2>2, StartKeepsStream
<1>6. CASE OutOfOrder(m)
  BY <1>1, <1>6, WireCut DEF OutOfOrder, Disconnected
<1> QED
  BY <1>1, <1>3, <1>4, <1>5, <1>6

LEMMA StoreBarKeepsStream ==
  ASSUME TypeOK, StreamInv, StoreBar
  PROVE  StreamInv'
<1>1. /\ completed # None /\ completed' = None
      /\ table' = [table EXCEPT ![completed.minute] = WsRow(completed)]
      /\ UNCHANGED <<now, trades, link, wire, partial, gaps>>
  BY DEF StoreBar, exchangeVars
<1> DEFINE c == completed.minute
<1>2. /\ completed \in PartialBar /\ c \in Minutes /\ completed.volume \in Nat \ {0}
      /\ partial # None /\ c < partial.minute /\ partial.minute <= now
      /\ partial.minute \in Minutes
  BY <1>1 DEF TypeOK, PartialBar, StreamInv, WireInv
<1>3. c \in Nat /\ partial.minute \in Nat /\ now \in Nat
  <2>1. now \in Nat
    BY CarriedFacts, <1>2
  <2> QED
    BY <1>2, <2>1, MinutesFacts
<1>4. table \in [Minutes -> Row \cup {None}]
  BY DEF TypeOK
<1>5. WsRow(completed) # None
  <2>1. WsRow(completed) \in Row
    BY <1>2 DEF WsRow, Row
  <2> QED
    BY <2>1, NoneAssumption
<1>6. ExchangeInv' /\ WireInv'
  BY <1>1 DEF StreamInv, ExchangeInv, WireInv
<1>7. ASSUME NEW m \in Minutes \ gaps' PROVE (Underway(m) \/ Stored(m))'
  <2>1. Underway(m) \/ Stored(m)
    BY <1>1, <1>7 DEF StreamInv, TickInv
  <2>2. OnWire(m)' = OnWire(m) /\ InPartial(m)' = InPartial(m) /\ InCompleted(m)' = 0
    BY <1>1 DEF OnWire, InPartial, InCompleted
  <2>3. OnWire(m) \in Nat /\ InPartial(m) \in Nat /\ InCompleted(m) \in Nat /\ trades[m] \in Nat
    BY CarriedFacts
  <2>4. CASE m # c
    <3>1. InCompleted(m) = 0
      BY <2>4 DEF InCompleted
    <3>2. Carried(m)' = Carried(m) /\ table'[m] = table[m]
      BY <1>1, <1>4, <2>2, <2>3, <2>4, <3>1 DEF Carried
    <3> QED
      BY <1>1, <2>1, <3>2, TicksMove
  <2>5. CASE m = c
    <3>1. InCompleted(m) = completed.volume /\ InPartial(m) = 0
      <4>1. partial.minute # m
        BY <1>2, <1>3, <2>5
      <4> QED
        BY <1>1, <2>5, <4>1 DEF InCompleted, InPartial
    <3>2. OnWire(m) = 0
      <4>1. m \notin MinutesOf(wire)
        <5> SUFFICES ASSUME NEW i \in DOMAIN wire, wire[i] = m PROVE FALSE
          BY DEF MinutesOf
        <5>1. partial.minute <= m
          BY <1>1, <1>2, <1>7 DEF StreamInv, WireInv
        <5> QED
          BY <1>2, <1>3, <2>5, <5>1
      <4> QED
        BY <4>1, TicksAreCounted DEF TypeOK, OnWire
    <3>3. Carried(m) = completed.volume
      BY <1>2, <3>1, <3>2 DEF Carried
    <3>4. Underway(m)
      BY <1>2, <2>1, <3>3 DEF Stored
    <3>5. completed.volume = trades[m]
      BY <3>3, <3>4 DEF Underway
    <3>6. Carried(m)' = 0
      BY <2>2, <3>1, <3>2 DEF Carried
    <3>7. m < now
      BY <1>2, <1>3, <2>5
    <3>8. table'[m] = WsRow(completed)
      BY <1>1, <1>4, <2>5
    <3>9. Stored(m)'
      BY <1>1, <1>5, <3>5, <3>6, <3>7, <3>8 DEF Stored, IsWs, WsRow
    <3> QED
      BY <3>9
  <2> QED
    BY <2>4, <2>5
<1> QED
  BY <1>6, <1>7 DEF StreamInv, TickInv

LEMMA ClockKeepsStream ==
  ASSUME TypeOK, StreamInv, NextMinute
  PROVE  StreamInv'
<1>1. now' = now + 1 /\ now \in Nat \ {0}
  BY MinuteAssumption DEF NextMinute, TypeOK
<1>2. UNCHANGED <<trades, table, link, wire, partial, completed, gaps>>
  BY DEF NextMinute, streamVars
<1>3. \A m \in Minutes : m \in Nat
  BY MinutesFacts
<1>4. ExchangeInv'
  BY <1>1, <1>2, <1>3 DEF StreamInv, ExchangeInv
<1>5. WireInv'
  <2>1. \A i \in DOMAIN wire : wire[i] \in Nat
    BY <1>3 DEF TypeOK
  <2>2. partial # None => partial.minute \in Nat
    BY <1>3 DEF TypeOK, PartialBar
  <2> QED
    BY <1>1, <1>2, <2>1, <2>2 DEF StreamInv, WireInv
<1>6. ASSUME NEW m \in Minutes PROVE Carried(m)' = Carried(m) /\ (m < now => m < now')
  BY <1>1, <1>2, <1>3 DEF Carried, OnWire, InPartial, InCompleted
<1>7. TickInv'
  BY <1>2, <1>6 DEF StreamInv, TickInv, Underway, Stored, IsWs
<1> QED
  BY <1>4, <1>5, <1>7 DEF StreamInv

LEMMA OthersKeepStream ==
  ASSUME StreamInv, UNCHANGED <<now, trades, table, wire, partial, completed, gaps>>,
         link' = link \/ wire = <<>>
  PROVE  StreamInv'
BY DEF StreamInv, ExchangeInv, WireInv, TickInv, Underway, Stored, IsWs, Carried,
       OnWire, InPartial, InCompleted

\* Rows of the collector replace rows, and are none of the stream's.
LEMMA PageKeepsStream ==
  ASSUME TypeOK, StreamInv, StorePage, \A m \in Kept : RestRow(m) # None
  PROVE  StreamInv'
<1>1. /\ UNCHANGED <<now, trades, link, wire, partial, completed, gaps>>
      /\ table' = [m \in Minutes |-> IF m \in Kept THEN RestRow(m) ELSE table[m]]
  BY DEF StorePage, exchangeVars, streamVars
<1>2. ExchangeInv' /\ WireInv'
  BY <1>1 DEF StreamInv, ExchangeInv, WireInv
<1>3. ASSUME NEW m \in Minutes \ gaps' PROVE (Underway(m) \/ Stored(m))'
  <2>1. Underway(m) \/ Stored(m)
    BY <1>1, <1>3 DEF StreamInv, TickInv
  <2>2. Carried(m)' = Carried(m)
    BY <1>1 DEF Carried, OnWire, InPartial, InCompleted
  <2>3. CASE m \in Kept
    <3>1. table'[m] # None /\ table'[m].source = "rest"
      BY <1>1, <2>3 DEF RestRow
    <3> QED
      BY <1>1, <2>1, <2>2, <3>1 DEF Underway, Stored, IsWs
  <2>4. CASE m \notin Kept
    <3>1. table'[m] = table[m]
      BY <1>1, <2>4
    <3> QED
      BY <1>1, <2>1, <2>2, <3>1, TicksMove
  <2> QED
    BY <2>3, <2>4
<1> QED
  BY <1>2, <1>3 DEF StreamInv, TickInv

-----------------------------------------------------------------------------
(* Pages.                                                                  *)

\* A page is the latest of what is listed, and not one bar alone if there is
\* another.
LEMMA PageFacts ==
  ASSUME NEW ref
  PROVE  /\ PageAt(ref) \subseteq Listed(ref) /\ Listed(ref) \subseteq Minutes
         /\ Listed(ref) # {} => PageAt(ref) # {}
         /\ \A p \in PageAt(ref), n \in Listed(ref) : n > p => n \in PageAt(ref)
         /\ \A p \in PageAt(ref), n \in Listed(ref) : PageAt(ref) = {p} => ~(n < p)
<1> DEFINE L == Listed(ref)
           after(p) == {n \in L : n > p}
<1>1. L \in SUBSET Minutes
  BY DEF Listed
<1>2. \A p : IsFiniteSet(after(p)) /\ Cardinality(after(p)) \in Nat
  <2>1. ASSUME NEW p PROVE IsFiniteSet(after(p)) /\ Cardinality(after(p)) \in Nat
    <3>1. after(p) \in SUBSET Minutes
      BY <1>1
    <3> HIDE DEF after
    <3> QED
      BY <3>1, MinutesFacts, FS_CardinalityType
  <2> HIDE DEF after
  <2> QED
    BY <2>1
<1>3. PageAt(ref) = {p \in L : Cardinality(after(p)) < PageSize}
  BY DEF PageAt
<1>4. PageSize \in Nat /\ PageSize > 1
  BY MinuteAssumption
<1>5. \A n \in L : n \in Nat
  BY <1>1, MinutesFacts
<1>6. ASSUME L # {} PROVE PageAt(ref) # {}
  <2>1. Max(L) \in L /\ \A n \in L : n <= Max(L)
    BY <1>1, <1>6, LatestOf
  <2>2. after(Max(L)) = {}
    BY <1>5, <2>1
  <2>3. Cardinality(after(Max(L))) = 0
    BY <2>2, FS_EmptySet
  <2> HIDE DEF after, L
  <2> QED
    BY <1>3, <1>4, <2>1, <2>3
<1>7. ASSUME NEW p \in PageAt(ref), NEW n \in L, n > p PROVE n \in PageAt(ref)
  <2>1. p \in L /\ Cardinality(after(p)) < PageSize
    BY <1>3
  <2>2. after(n) \in SUBSET after(p)
    BY <1>5, <1>7, <2>1
  <2> HIDE DEF after
  <2>3. Cardinality(after(n)) <= Cardinality(after(p))
    BY <1>2, <2>2, FS_Subset
  <2>4. Cardinality(after(n)) < PageSize
    BY <1>2, <1>4, <2>1, <2>3
  <2> QED
    BY <1>3, <2>4
<1>8. ASSUME NEW p \in PageAt(ref), NEW n \in L, PageAt(ref) = {p}, n < p PROVE FALSE
  <2> DEFINE E == {x \in L : x < p}
             e == Max(E)
  <2>1. p \in L
    BY <1>3
  <2>2. E \in SUBSET Minutes /\ E # {}
    BY <1>1, <1>8
  <2>3. e \in E /\ \A x \in E : x <= e
    BY <2>2, LatestOf
  <2> HIDE DEF e
  <2>4. e \in L /\ e < p
    BY <2>3
  <2>5. \A x \in L : x > p => x \in PageAt(ref)
    BY <1>7
  <2>6. after(e) = {p}
    <3>1. \A x \in L : x > e => x = p
      <4> SUFFICES ASSUME NEW x \in L, x > e PROVE x = p
        OBVIOUS
      <4>1. ~(x < p)
        BY <1>5, <2>3, <2>4
      <4>2. ~(x > p)
        BY <1>5, <1>8, <2>1, <2>5
      <4> QED
        BY <1>5, <2>1, <4>1, <4>2
    <3> QED
      BY <1>5, <2>1, <2>4, <3>1
  <2>7. Cardinality(after(e)) = 1
    BY <2>6, FS_Singleton
  <2> HIDE DEF after, E
  <2>8. e \in PageAt(ref)
    BY <1>3, <1>4, <2>4, <2>7
  <2> QED
    BY <1>5, <1>8, <2>1, <2>4, <2>8
<1> QED
  BY <1>1, <1>3, <1>6, <1>7, <1>8

Collected(m) == IsRest(m) \/ m \in demoted

\* A page that waits to be stored: all that was traded up to its reference and
\* from its oldest bar on.
PageInv ==
  job = "store" =>
    /\ page # {}
    /\ \A p \in page : trades[p] > 0 /\ p < now /\ p <= reference
    /\ \A n \in Minutes :
         ( /\ trades[n] > 0 /\ n <= reference
           /\ \E p \in page : p < n
           /\ n < started \/ \E p \in page : n < p )
         => n \in page
    /\ \A p \in page : page = {p} => \A n \in Minutes : n < p => trades[n] = 0

LEMMA KeptFacts ==
  ASSUME TypeOK, page # {}
  PROVE  /\ Kept \subseteq page /\ page \in SUBSET Minutes
         /\ Min(page) \in page /\ \A p \in page : Min(page) <= p
         /\ \A m \in Kept : m >= floor /\ (m # Min(page) \/ page = {m})
         /\ \A m \in page : (m >= floor /\ (m # Min(page) \/ page = {m})) => m \in Kept
<1> DEFINE keep == {m \in page : m >= floor}
           first == Min(page)
<1>1. page \in SUBSET Minutes /\ floor \in Int
  BY MinuteAssumption DEF TypeOK, floor
<1>2. first \in page /\ \A p \in page : first <= p
  BY <1>1, EarliestOf
<1>3. Kept = IF Cardinality(keep) > 1 /\ Min(keep) = first THEN keep \ {first} ELSE keep
  BY DEF Kept
<1>4. \A p \in page : p \in Nat
  BY <1>1, MinutesFacts
<1> HIDE DEF first
<1>5. keep # {} => Min(keep) \in keep /\ \A p \in keep : Min(keep) <= p
  <2>1. keep \in SUBSET Minutes
    BY <1>1
  <2> HIDE DEF keep
  <2> QED
    BY <2>1, EarliestOf
<1>6. IsFiniteSet(keep) /\ Cardinality(keep) \in Nat
  <2>1. keep \in SUBSET Minutes
    BY <1>1
  <2> HIDE DEF keep
  <2> QED
    BY <2>1, MinutesFacts, FS_CardinalityType
<1>7. CASE first \in keep
  <2>1. keep = page
    BY <1>1, <1>2, <1>4, <1>7
  <2>2. Min(keep) = first
    BY <1>2, <1>4, <1>5, <1>7, <2>1
  <2>3. CASE page = {first}
    <3>1. Cardinality(keep) = 1
      BY <2>1, <2>3, FS_Singleton
    <3>2. Kept = page
      BY <1>3, <2>1, <3>1
    <3> QED
      BY <1>1, <1>2, <1>7, <2>1, <2>3, <3>2 DEF first
  <2>4. CASE page # {first}
    <3>1. Cardinality(keep) > 1
      <4>1. Cardinality(keep) # 0 /\ Cardinality(keep) # 1
        BY <1>2, <1>6, <2>1, <2>4, FS_EmptySet, FS_Singleton
      <4> QED
        BY <1>6, <4>1
    <3>2. Kept = page \ {first}
      BY <1>3, <2>1, <2>2, <3>1
    <3> QED
      BY <1>1, <1>2, <2>1, <2>4, <3>2 DEF first
  <2> QED
    BY <2>3, <2>4
<1>8. CASE first \notin keep
  <2>1. Kept = keep
    <3>1. keep # {} => Min(keep) # first
      BY <1>5, <1>8
    <3>2. keep = {} => Cardinality(keep) = 0
      BY FS_EmptySet
    <3> QED
      BY <1>3, <3>1, <3>2
  <2> QED
    BY <1>1, <1>2, <1>8, <2>1 DEF first
<1> QED
  BY <1>7, <1>8

\* The minutes whose trades are in the accumulated value of m.
UpTo(m) == {n \in Minutes : DayOf(n) = DayOf(m) /\ n <= m}

LEMMA AccumulatedFacts ==
  ASSUME TypeOK
  PROVE  /\ \A m \in Minutes : /\ UpTo(m) \in SUBSET Minutes /\ IsFiniteSet(UpTo(m)) /\ m \in UpTo(m)
                               /\ Accumulated(m) = SumFunctionOnSet(trades, UpTo(m))
                               /\ Accumulated(m) \in Nat
         /\ \A m \in Minutes : trades[m] \in Nat /\ trades[m] \in Int
<1>1. \A m \in Minutes : trades[m] \in Nat /\ trades[m] \in Int
  BY CarriedFacts
<1>2. ASSUME NEW m \in Minutes
      PROVE  /\ UpTo(m) \in SUBSET Minutes /\ IsFiniteSet(UpTo(m)) /\ m \in UpTo(m)
             /\ Accumulated(m) = SumFunctionOnSet(trades, UpTo(m))
             /\ Accumulated(m) \in Nat
  <2>1. UpTo(m) \in SUBSET Minutes /\ m \in UpTo(m)
    BY MinutesFacts DEF UpTo
  <2>2. IsFiniteSet(UpTo(m))
    BY <2>1, MinutesFacts
  <2>3. Accumulated(m) = SumFunctionOnSet(trades, UpTo(m))
    BY DEF Accumulated, UpTo
  <2>4. \A n \in UpTo(m) : trades[n] \in Nat
    BY <1>1, <2>1
  <2>5. SumFunctionOnSet(trades, UpTo(m)) \in Nat
    BY <2>2, <2>4, SumIsNat
  <2> QED
    BY <2>1, <2>2, <2>3, <2>5
<1> QED
  BY <1>1, <1>2

\* Whatever the page starts with, the difference is the value of the minute.
LEMMA TradeValueIsTrue ==
  ASSUME TypeOK, PageInv, job = "store", NEW m \in Kept
  PROVE  TradeValue(m) = trades[m]
<1>1. /\ page # {} /\ page \in SUBSET Minutes
      /\ \A p \in page : trades[p] > 0 /\ p < now /\ p <= reference
      /\ \A n \in Minutes, p, q \in page :
           (trades[n] > 0 /\ p < n /\ n < q) => n \in page
      /\ \A p \in page : page = {p} => \A n \in Minutes : n < p => trades[n] = 0
  <2>1. page \in SUBSET Minutes /\ reference \in Int
    BY DEF TypeOK
  <2>2. \A p \in page : p <= reference
    BY DEF PageInv
  <2>3. \A n \in Minutes, q \in page : n < q => n <= reference
    BY <2>1, <2>2, MinutesFacts
  <2> QED
    BY <2>1, <2>3 DEF PageInv
<1>2. /\ m \in page /\ m \in Minutes
      /\ Min(page) \in page /\ \A p \in page : Min(page) <= p
      /\ m # Min(page) \/ page = {m}
  BY <1>1, KeptFacts
<1> DEFINE before == {n \in page : n < m /\ DayOf(n) = DayOf(m)}
           first == Min(page)
<1>3. /\ UpTo(m) \in SUBSET Minutes /\ IsFiniteSet(UpTo(m)) /\ m \in UpTo(m)
      /\ Accumulated(m) = SumFunctionOnSet(trades, UpTo(m))
      /\ \A n \in Minutes : trades[n] \in Nat /\ trades[n] \in Int
  BY <1>2, AccumulatedFacts
<1>4. \A n \in Minutes : n \in Nat
  BY MinutesFacts
<1>5. TradeValue(m) = Accumulated(m) - IF before = {} THEN 0 ELSE Accumulated(Max(before))
  BY DEF TradeValue
<1>6. \A n \in UpTo(m) : n \in Minutes /\ n <= m /\ DayOf(n) = DayOf(m)
  BY DEF UpTo
<1>7. CASE before = {}
  <2>1. ASSUME NEW n \in UpTo(m) \ {m} PROVE trades[n] = 0
    <3>1. n \in Minutes /\ n < m /\ DayOf(n) = DayOf(m)
      BY <1>2, <1>4, <1>6
    <3>2. CASE page = {m}
      BY <1>1, <1>2, <3>1, <3>2
    <3>3. CASE m # first
      <4>1. first \in Minutes /\ first < m
        BY <1>1, <1>2, <1>4, <3>3
      <4>2. first < n
        <5> SUFFICES ASSUME n <= first PROVE FALSE
          BY <1>4, <3>1, <4>1
        <5>1. DayOf(n) <= DayOf(first) /\ DayOf(n) \in Nat /\ DayOf(first) \in Nat
          BY <3>1, <4>1, DaysGrow
        <5>2. DayOf(first) <= DayOf(m) /\ DayOf(m) \in Nat
          BY <1>2, <1>4, <4>1, DaysGrow
        <5>3. DayOf(first) = DayOf(m)
          BY <3>1, <5>1, <5>2
        <5> QED
          BY <1>2, <1>7, <4>1, <5>3
      <4>3. n \notin page
        BY <1>7, <3>1
      <4>4. ~(trades[n] > 0)
        BY <1>1, <1>2, <3>1, <4>2, <4>3
      <4> QED
        BY <1>3, <3>1, <4>4
    <3> QED
      BY <1>2, <3>2, <3>3
  <2>2. \A x \in UpTo(m) : trades[x] \in Int
    BY <1>3
  <2>3. SumFunctionOnSet(trades, UpTo(m)) = trades[m]
    BY <1>3, <2>1, <2>2, SumOfOne
  <2> QED
    BY <1>2, <1>3, <1>5, <1>7, <2>3
<1>8. CASE before # {}
  <2> DEFINE b == Max(before)
             D == UpTo(m)
             E == UpTo(b)
  <2>1. b \in before /\ \A x \in before : x <= b
    <3>1. before \in SUBSET Minutes
      BY <1>1
    <3> HIDE DEF before
    <3> QED
      BY <1>8, <3>1, LatestOf
  <2> HIDE DEF b
  <2>2. b \in page /\ b \in Minutes /\ b < m /\ DayOf(b) = DayOf(m)
    BY <1>1, <2>1
  <2>3. Accumulated(b) = SumFunctionOnSet(trades, E) /\ Accumulated(b) \in Nat
    BY <2>2, AccumulatedFacts
  <2>4. E \in SUBSET D /\ m \in D \ E
    BY <1>2, <1>3, <1>4, <2>2 DEF UpTo
  <2>5. ASSUME NEW n \in (D \ E) \ {m} PROVE trades[n] = 0
    <3>1. n \in Minutes /\ n < m /\ b < n /\ DayOf(n) = DayOf(m)
      BY <1>2, <1>4, <2>2 DEF UpTo
    <3>2. n \notin page
      <4> SUFFICES ASSUME n \in before PROVE FALSE
        BY <3>1
      <4> QED
        BY <1>4, <2>1, <2>2, <3>1
    <3>3. ~(trades[n] > 0)
      BY <1>1, <1>2, <2>2, <3>1, <3>2
    <3> QED
      BY <1>3, <3>1, <3>3
  <2>6. \A x \in D : trades[x] \in Int
    BY <1>3
  <2>7. IsFiniteSet(D) /\ IsFiniteSet(D \ E)
    BY <1>3, FS_Subset
  <2> HIDE DEF D, E
  <2>8. SumFunctionOnSet(trades, D) = SumFunctionOnSet(trades, E) + SumFunctionOnSet(trades, D \ E)
    BY <2>4, <2>6, <2>7, SumOfParts
  <2>9. SumFunctionOnSet(trades, D \ E) = trades[m]
    BY <2>4, <2>5, <2>6, <2>7, SumOfOne
  <2>10. Accumulated(m) = Accumulated(b) + trades[m]
    BY <1>3, <2>3, <2>8, <2>9 DEF D
  <2>11. TradeValue(m) = Accumulated(m) - Accumulated(b)
    BY <1>5, <1>8 DEF b
  <2> QED
    BY <1>2, <1>3, <2>3, <2>10, <2>11
<1> QED
  BY <1>7, <1>8

-----------------------------------------------------------------------------
(* The collector.                                                          *)

\* Rows of the collector are true, and of minutes that are over.
RestInv ==
  \A m \in Minutes : IsRest(m) =>
    m < now /\ table[m].volume = trades[m] /\ table[m].trade_value = trades[m]

JobInv ==
  job # "idle" =>
    /\ started <= now /\ reference \in Nat /\ reference <= started
    /\ \A m \in Minutes : IsRest(m) => m <= started
    /\ refetch => newest = 0
    /\ newest < now /\ pages <= MaxPages

\* Unless a run was cut short there is no hole below a row, as far back as a
\* run reaches.
PastInv ==
  /\ (job = "idle" /\ ~broken) =>
       \A m, n \in Minutes :
         (trades[m] > 0 /\ m <= n /\ IsRest(n) /\ m > now - Reach) => Collected(m)
  /\ (job # "idle" /\ ~broken) =>
       \A m \in Minutes : (trades[m] > 0 /\ m <= newest /\ m > floor) => Collected(m)

\* A run has collected what lies above its reference, and at its end all.
RunInv ==
  /\ job \in {"fetch", "store"} =>
       \A m \in Minutes :
         (trades[m] > 0 /\ m > reference /\ m > floor /\ m < started) => Collected(m)
  /\ (job = "done" /\ (~broken \/ (refetch /\ pages < MaxPages))) =>
       \A m \in Minutes : (trades[m] > 0 /\ m > floor /\ m < started) => Collected(m)

CollectorInv == RestInv /\ JobInv /\ PageInv /\ PastInv /\ RunInv

LEMMA CollectorTypes ==
  ASSUME TypeOK
  PROVE  /\ now \in Nat /\ started \in Nat /\ newest \in Nat /\ pages \in Nat
         /\ reference \in Int /\ floor \in Int /\ floor = started - Reach
         /\ Reach \in Nat \ {0} /\ MaxPages \in Nat /\ DayLength \in Nat
         /\ page \in SUBSET Minutes /\ MaxMinute \in Nat
         /\ \A m \in Minutes : m \in Nat \ {0} /\ trades[m] \in Nat
<1>1. Reach \in Nat \ {0} /\ MaxPages \in Nat /\ DayLength \in Nat /\ MaxMinute \in Nat
  BY MinuteAssumption
<1>2. \A m \in Minutes : m \in Nat \ {0} /\ trades[m] \in Nat
  BY CarriedFacts
<1>3. now \in Nat
  BY <1>1 DEF TypeOK
<1>4. /\ started \in Nat /\ newest \in Nat /\ pages \in Nat
      /\ reference \in Int /\ page \in SUBSET Minutes
  BY DEF TypeOK
<1>5. floor \in Int /\ floor = started - Reach
  BY <1>1, <1>4 DEF floor
<1> QED
  BY <1>1, <1>2, <1>3, <1>4, <1>5

\* Nothing of the past changes: rows stay, or are known to be overwritten.
LEMMA ClockKeepsCollector ==
  ASSUME TypeOK, CollectorInv,
         UNCHANGED <<table, jobVars, broken, demoted>>,
         now' \in Nat, now <= now',
         \A m \in Minutes : m < now => trades'[m] = trades[m]
  PROVE  CollectorInv'
<1>1. /\ now \in Nat /\ started \in Nat /\ newest \in Nat /\ reference \in Int
      /\ Reach \in Nat \ {0} /\ page \in SUBSET Minutes
      /\ \A m \in Minutes : m \in Nat \ {0}
  BY CollectorTypes
<1>2. UNCHANGED <<table, job, refetch, started, newest, reference, pages, page, broken, demoted>>
  BY DEF jobVars
<1>3. /\ \A m : IsRest(m)' <=> IsRest(m)
      /\ \A m : Collected(m)' <=> Collected(m)
      /\ floor' = floor
  BY <1>2 DEF IsRest, Collected, floor
<1>4. RestInv'
  BY <1>1, <1>2, <1>3 DEF CollectorInv, RestInv
<1>5. JobInv'
  BY <1>1, <1>2, <1>3 DEF CollectorInv, JobInv
<1>6. job # "idle" => /\ started <= now /\ reference \in Nat /\ reference <= started
                      /\ newest < now
  BY DEF CollectorInv, JobInv
<1>7. PageInv'
  <2> SUFFICES ASSUME job = "store" PROVE PageInv'
    BY <1>2 DEF PageInv
  <2>1. /\ page # {}
        /\ \A p \in page : trades[p] > 0 /\ p < now /\ p <= reference /\ p \in Minutes
        /\ \A p \in page : page = {p} => \A n \in Minutes : n < p => trades[n] = 0
    BY <1>1 DEF CollectorInv, PageInv
  <2>2. \A p \in page : trades'[p] > 0 /\ p < now' /\ p <= reference'
    BY <1>1, <1>2, <2>1
  <2>3. \A p \in page : page = {p} => \A n \in Minutes : n < p => trades'[n] = 0
    BY <1>1, <2>1
  <2>4. ASSUME NEW n \in Minutes, trades'[n] > 0, n <= reference,
               \E p \in page : p < n,
               n < started \/ \E p \in page : n < p
        PROVE  n \in page
    <3>1. n < now
      BY <1>1, <1>6, <2>1, <2>4
    <3>2. trades[n] > 0
      BY <2>4, <3>1
    <3> QED
      BY <2>4, <3>2 DEF CollectorInv, PageInv
  <2> QED
    BY <1>2, <2>1, <2>2, <2>3, <2>4 DEF PageInv
<1>8. PastInv'
  <2>1. ASSUME job = "idle", ~broken, NEW m \in Minutes, NEW n \in Minutes,
               trades'[m] > 0, m <= n, IsRest(n), m > now' - Reach
        PROVE  Collected(m)
    <3>1. n < now
      BY <2>1 DEF CollectorInv, RestInv
    <3>2. m < now /\ m > now - Reach
      BY <1>1, <2>1, <3>1
    <3>3. trades[m] > 0
      BY <2>1, <3>2
    <3> QED
      BY <2>1, <3>2, <3>3 DEF CollectorInv, PastInv
  <2>2. ASSUME job # "idle", ~broken, NEW m \in Minutes,
               trades'[m] > 0, m <= newest, m > floor
        PROVE  Collected(m)
    <3>1. m < now
      BY <1>1, <1>6, <2>2
    <3>2. trades[m] > 0
      BY <2>2, <3>1
    <3> QED
      BY <2>2, <3>2 DEF CollectorInv, PastInv
  <2> QED
    BY <1>2, <1>3, <2>1, <2>2 DEF PastInv
<1>9. RunInv'
  <2>1. ASSUME job # "idle", NEW m \in Minutes, m < started
        PROVE  trades'[m] = trades[m]
    BY <1>1, <1>6, <2>1
  <2> QED
    BY <1>2, <1>3, <2>1 DEF CollectorInv, RunInv
<1> QED
  BY <1>4, <1>5, <1>7, <1>8, <1>9 DEF CollectorInv

LEMMA StoreBarKeepsCollector ==
  ASSUME TypeOK, CollectorInv, StoreBar
  PROVE  CollectorInv'
<1>0. PICK c \in Minutes : c = completed.minute
  BY DEF StoreBar, TypeOK, PartialBar
<1>1. /\ completed # None
      /\ table' = [table EXCEPT ![c] = WsRow(completed)]
      /\ demoted' = IF IsRest(c) THEN demoted \cup {c} ELSE demoted
      /\ UNCHANGED <<now, trades, job, refetch, started, newest, reference, pages, page, broken>>
  BY <1>0 DEF StoreBar, exchangeVars, jobVars
<1>2. table \in [Minutes -> Row \cup {None}]
  BY DEF TypeOK
<1>3. /\ \A m \in Minutes : m # c => table'[m] = table[m]
      /\ table'[c] = WsRow(completed)
  BY <1>1, <1>2
<1>4. \A m \in Minutes : IsRest(m)' => IsRest(m) /\ table'[m] = table[m]
  <2>1. ~IsRest(c)'
    BY <1>3 DEF IsRest, WsRow
  <2> QED
    BY <1>3, <2>1 DEF IsRest
<1>5. \A m \in Minutes : Collected(m) => Collected(m)'
  <2>1. \A m \in Minutes : (IsRest(m) /\ m # c) => IsRest(m)'
    BY <1>3 DEF IsRest
  <2> QED
    BY <1>1, <2>1 DEF Collected
<1>6. floor' = floor
  BY <1>1 DEF floor
<1>7. RestInv' /\ JobInv' /\ PageInv'
  BY <1>1, <1>4 DEF CollectorInv, RestInv, JobInv, PageInv
<1>8. PastInv' /\ RunInv'
  BY <1>1, <1>4, <1>5, <1>6 DEF CollectorInv, PastInv, RunInv
<1> QED
  BY <1>7, <1>8 DEF CollectorInv

LEMMA LastStoredFacts ==
  ASSUME TypeOK
  PROVE  LastStored \in Nat /\ (LastStored # 0 => LastStored \in Minutes /\ IsRest(LastStored))
<1> DEFINE S == {m \in Minutes : IsRest(m)} \cup {0}
           D == {MaxMinute - x : x \in S}
<1>1. MaxMinute \in Nat /\ \A x \in S : x \in Nat /\ x <= MaxMinute
  BY MinuteAssumption DEF Minutes
<1>2. D \subseteq Nat /\ D # {}
  BY <1>1
<1>3. PICK d \in D : \A y \in D : d <= y
  BY <1>2, LeastOf
<1>4. PICK x \in S : d = MaxMinute - x
  OBVIOUS
<1>5. \A y \in S : x >= y
  <2>1. \A y \in S : MaxMinute - y \in D
    OBVIOUS
  <2>2. \A y \in S : d <= MaxMinute - y
    BY <1>3, <2>1
  <2> HIDE DEF D
  <2> QED
    BY <1>1, <1>4, <2>2
<1>6. LastStored \in S
  <2>1. LastStored = Max(S)
    BY DEF LastStored
  <2> HIDE DEF S
  <2>2. Max(S) \in S
    BY <1>5 DEF Max
  <2> QED
    BY <2>1, <2>2
<1> QED
  BY <1>1, <1>6

LEMMA BeginKeepsCollector ==
  ASSUME TypeOK, CollectorInv, Begin
  PROVE  CollectorInv'
<1>1. /\ now \in Nat /\ \A m \in Minutes : m \in Nat \ {0}
      /\ Reach \in Nat /\ MaxPages \in Nat
  BY CollectorTypes
<1>2. /\ job = "idle" /\ job' = "fetch" /\ started' = now /\ reference' = now
      /\ newest' = IF refetch' THEN 0 ELSE LastStored
      /\ pages' = 0 /\ UNCHANGED <<now, trades, table, broken, demoted>>
  BY DEF Begin, exchangeVars, markVars
<1>3. /\ \A m : IsRest(m)' <=> IsRest(m)
      /\ \A m : Collected(m)' <=> Collected(m)
      /\ floor' = now - Reach
  BY <1>2 DEF IsRest, Collected, floor
<1>4. LastStored \in Nat /\ (LastStored # 0 => LastStored \in Minutes /\ IsRest(LastStored))
  BY LastStoredFacts
<1>5. \A m \in Minutes : IsRest(m) => m < now
  BY DEF CollectorInv, RestInv
<1>6. RestInv' /\ PageInv'
  BY <1>2, <1>3 DEF CollectorInv, RestInv, PageInv
<1>7. JobInv'
  <2>1. newest' < now
    <3>1. now > 0
      BY DEF TypeOK
    <3> QED
      BY <1>1, <1>2, <1>4, <1>5, <3>1
  <2>2. refetch' => newest' = 0
    BY <1>2
  <2>3. \A m \in Minutes : IsRest(m) => m <= now
    BY <1>1, <1>5
  <2>4. JobInv' <=> /\ started' <= now' /\ reference' \in Nat /\ reference' <= started'
                    /\ \A m \in Minutes : IsRest(m)' => m <= started'
                    /\ refetch' => newest' = 0
                    /\ newest' < now' /\ pages' <= MaxPages
    BY <1>2 DEF JobInv
  <2> QED
    BY <1>1, <1>2, <1>3, <2>1, <2>2, <2>3, <2>4
<1>8. PastInv'
  <2> SUFFICES ASSUME ~broken, NEW m \in Minutes,
                      trades[m] > 0, m <= newest', m > now - Reach
               PROVE  Collected(m)
    BY <1>2, <1>3 DEF PastInv
  <2>1. newest' = LastStored /\ LastStored # 0
    BY <1>1, <1>2, <1>4
  <2> QED
    BY <1>2, <1>4, <2>1 DEF CollectorInv, PastInv
<1>9. RunInv'
  BY <1>1, <1>2 DEF RunInv
<1> QED
  BY <1>6, <1>7, <1>8, <1>9 DEF CollectorInv

LEMMA FetchKeepsCollector ==
  ASSUME TypeOK, CollectorInv, Fetch
  PROVE  CollectorInv'
<1>1. /\ now \in Nat /\ started \in Nat /\ reference \in Int /\ pages \in Nat /\ MaxPages \in Nat
      /\ \A m \in Minutes : m \in Nat \ {0} /\ trades[m] \in Nat
  BY CollectorTypes
<1>2. /\ job = "fetch" /\ pages < MaxPages /\ page' = PageAt(reference) /\ pages' = pages + 1
      /\ job' = IF page' = {} THEN "done" ELSE "store"
      /\ UNCHANGED <<now, trades, table, refetch, started, newest, reference, broken, demoted>>
  BY DEF Fetch, exchangeVars, markVars
<1>3. /\ \A m : IsRest(m)' <=> IsRest(m)
      /\ \A m : Collected(m)' <=> Collected(m)
      /\ floor' = floor
  BY <1>2 DEF IsRest, Collected, floor
<1>4. started <= now
  BY <1>2 DEF CollectorInv, JobInv
<1>5. RestInv'
  BY <1>2, <1>3 DEF CollectorInv, RestInv
<1>6. JobInv'
  <2>1. pages' <= MaxPages
    BY <1>1, <1>2
  <2> QED
    BY <1>2, <1>3, <2>1 DEF CollectorInv, JobInv
<1>7. PastInv'
  BY <1>2, <1>3 DEF CollectorInv, PastInv
<1>8. \A m : m \in Listed(reference) <=> m \in Minutes /\ trades[m] > 0 /\ m < now /\ m <= reference
  BY DEF Listed
<1>9. /\ page' \subseteq Listed(reference)
      /\ Listed(reference) # {} => page' # {}
      /\ \A p \in page', n \in Listed(reference) : n > p => n \in page'
      /\ \A p \in page', n \in Listed(reference) : page' = {p} => ~(n < p)
  BY <1>2, PageFacts
<1>10. PageInv'
  <2> SUFFICES ASSUME page' # {} PROVE PageInv'
    BY <1>2 DEF PageInv
  <2>1. \A p \in page' : p \in Minutes /\ trades[p] > 0 /\ p < now /\ p <= reference
    BY <1>8, <1>9
  <2>2. ASSUME NEW n \in Minutes, trades[n] > 0, n <= reference,
               \E p \in page' : p < n,
               n < started \/ \E p \in page' : n < p
        PROVE  n \in page'
    <3>1. n < now
      BY <1>1, <1>4, <2>1, <2>2
    <3>2. n \in Listed(reference)
      BY <1>8, <2>2, <3>1
    <3> QED
      BY <1>1, <1>9, <2>1, <2>2, <3>2
  <2>3. ASSUME NEW p \in page', page' = {p}, NEW n \in Minutes, n < p PROVE trades[n] = 0
    <3>1. n < now /\ n <= reference
      BY <1>1, <2>1, <2>3
    <3>2. ~(trades[n] > 0)
      BY <1>8, <1>9, <2>3, <3>1
    <3> QED
      BY <1>1, <3>2
  <2> QED
    BY <1>2, <2>1, <2>2, <2>3 DEF PageInv
<1>11. RunInv'
  <2>1. \A m \in Minutes :
          (trades[m] > 0 /\ m > reference /\ m > floor /\ m < started) => Collected(m)
    BY <1>2 DEF CollectorInv, RunInv
  <2>2. ASSUME page' = {}, NEW m \in Minutes, trades[m] > 0, m < started PROVE m > reference
    <3>1. m \notin Listed(reference) /\ m < now
      BY <1>1, <1>4, <1>9, <2>2
    <3> QED
      BY <1>1, <1>8, <2>2, <3>1
  <2> QED
    BY <1>2, <1>3, <2>1, <2>2 DEF RunInv
<1> QED
  BY <1>5, <1>6, <1>7, <1>10, <1>11 DEF CollectorInv

\* The ways a run ends.
LEMMA EndKeepsCollector ==
  ASSUME TypeOK, CollectorInv, PageLimit \/ Abort \/ Return
  PROVE  CollectorInv'
<1>1. /\ now \in Nat /\ started \in Nat /\ pages \in Nat /\ MaxPages \in Nat /\ Reach \in Nat
      /\ floor = started - Reach
      /\ \A m \in Minutes : m \in Nat \ {0} /\ trades[m] \in Nat
  BY CollectorTypes
<1>2. UNCHANGED <<now, trades, table, demoted>>
  BY DEF PageLimit, Abort, Return, exchangeVars
<1>3. /\ \A m : IsRest(m)' <=> IsRest(m)
      /\ \A m : Collected(m)' <=> Collected(m)
  BY <1>2 DEF IsRest, Collected
<1>4. RestInv'
  BY <1>2, <1>3 DEF CollectorInv, RestInv
<1>5. CASE PageLimit
  <2>1. /\ job = "fetch" /\ pages = MaxPages /\ job' = "done" /\ broken' = TRUE
        /\ UNCHANGED <<refetch, started, newest, reference, pages, page>>
    BY <1>5 DEF PageLimit
  <2>2. JobInv'
    BY <1>2, <1>3, <2>1 DEF CollectorInv, JobInv
  <2>3. PageInv' /\ PastInv'
    BY <2>1 DEF PageInv, PastInv
  <2>4. RunInv'
    BY <1>1, <2>1 DEF RunInv
  <2> QED
    BY <1>4, <2>2, <2>3, <2>4 DEF CollectorInv
<1>6. CASE Abort
  <2>1. job' = "idle" /\ broken' = TRUE
    BY <1>6 DEF Abort, EndRun
  <2> QED
    BY <1>4, <2>1 DEF CollectorInv, JobInv, PageInv, PastInv, RunInv
<1>7. CASE Return
  <2>1. /\ job = "done" /\ job' = "idle"
        /\ broken' = (broken /\ (~refetch \/ pages = MaxPages))
    BY <1>7 DEF Return, EndRun
  <2>2. started <= now /\ pages <= MaxPages /\ \A m \in Minutes : IsRest(m) => m <= started
    BY <2>1 DEF CollectorInv, JobInv
  <2>3. PastInv'
    <3> SUFFICES ASSUME ~broken', NEW m \in Minutes, NEW n \in Minutes,
                        trades[m] > 0, m <= n, IsRest(n), m > now - Reach
                 PROVE  Collected(m)
      BY <1>2, <1>3, <2>1 DEF PastInv
    <3>0. ~broken \/ (refetch /\ pages # MaxPages)
      BY <2>1, Zenon
    <3>1. ~broken \/ (refetch /\ pages < MaxPages)
      <4>1. pages # MaxPages => pages < MaxPages
        BY <1>1, <2>2
      <4> QED
        BY <3>0, <4>1
    <3>2. m > floor
      BY <1>1, <2>2
    <3>3. m <= started /\ (m = started => m = n)
      BY <1>1, <2>2
    <3>4. CASE m = started
      BY <3>3, <3>4 DEF Collected
    <3>5. CASE m # started
      <4>1. m < started
        BY <1>1, <3>3, <3>5
      <4> QED
        BY <2>1, <3>1, <3>2, <4>1 DEF CollectorInv, RunInv
    <3> QED
      BY <3>4, <3>5
  <2> QED
    BY <1>4, <2>1, <2>3 DEF CollectorInv, JobInv, PageInv, RunInv
<1> QED
  BY <1>5, <1>6, <1>7

\* The rows of a page.
LEMMA RestRows ==
  ASSUME TypeOK, PageInv, job = "store"
  PROVE  \A m \in Kept :
           /\ m \in page /\ m \in Minutes /\ RestRow(m) \in Row /\ RestRow(m) # None
           /\ RestRow(m).source = "rest"
           /\ RestRow(m).volume = trades[m] /\ RestRow(m).trade_value = trades[m]
<1> SUFFICES ASSUME NEW m \in Kept
             PROVE  /\ m \in page /\ m \in Minutes /\ RestRow(m) \in Row /\ RestRow(m) # None
                    /\ RestRow(m).source = "rest"
                    /\ RestRow(m).volume = trades[m] /\ RestRow(m).trade_value = trades[m]
  OBVIOUS
<1>1. page # {} /\ \A p \in page : trades[p] > 0
  BY DEF PageInv
<1>2. m \in page /\ m \in Minutes
  BY <1>1, KeptFacts
<1>3. trades[m] \in Nat \ {0}
  BY <1>1, <1>2, CollectorTypes
<1>4. TradeValue(m) = trades[m]
  BY TradeValueIsTrue
<1>5. RestRow(m) = [source |-> "rest", volume |-> trades[m], trade_value |-> trades[m]]
  BY <1>4 DEF RestRow
<1>6. RestRow(m) \in Row
  BY <1>3, <1>5 DEF Row
<1> QED
  BY <1>2, <1>5, <1>6, NoneAssumption

LEMMA NextReferenceFacts ==
  ASSUME TypeOK, CollectorInv, job = "store"
  PROVE  NextReference \in Nat /\ NextReference <= started
<1>1. /\ Min(page) \in page /\ \A p \in page : p \in Nat \ {0} /\ p <= reference
      /\ reference \in Int /\ started \in Nat /\ reference <= started
  <2>1. page # {} /\ \A p \in page : p <= reference
    BY DEF CollectorInv, PageInv
  <2>2. reference <= started
    BY DEF CollectorInv, JobInv
  <2> QED
    BY <2>1, <2>2, KeptFacts, CollectorTypes
<1>2. CASE Min(page) < reference
  <2>1. NextReference = Min(page)
    BY <1>2 DEF NextReference
  <2> QED
    BY <1>1, <1>2, <2>1
<1>3. CASE ~(Min(page) < reference)
  <2>1. NextReference = DayOf(reference) * DayLength
    BY <1>3 DEF NextReference
  <2>2. reference \in Nat \ {0}
    BY <1>1
  <2>3. DayOf(reference) * DayLength \in Nat /\ DayOf(reference) * DayLength < reference
    BY <2>2, DayBefore
  <2> QED
    BY <1>1, <2>1, <2>3
<1> QED
  BY <1>2, <1>3

LEMMA StorePageKeepsCollector ==
  ASSUME TypeOK, CollectorInv, StorePage
  PROVE  CollectorInv'
<1>1. /\ now \in Nat /\ started \in Nat /\ newest \in Nat /\ reference \in Int
      /\ floor \in Int /\ page \in SUBSET Minutes
      /\ \A m \in Minutes : m \in Nat \ {0} /\ trades[m] \in Nat
  BY CollectorTypes
<1>2. /\ job = "store"
      /\ table' = [m \in Minutes |-> IF m \in Kept THEN RestRow(m) ELSE table[m]]
      /\ demoted' = demoted \ Kept
      /\ job' = IF Covered THEN "done" ELSE "fetch"
      /\ reference' = IF Covered THEN reference ELSE NextReference
      /\ UNCHANGED <<now, trades, refetch, started, newest, pages, broken>>
  BY DEF StorePage, exchangeVars
<1>3. /\ page # {}
      /\ \A p \in page : trades[p] > 0 /\ p < now /\ p <= reference
      /\ \A n \in Minutes :
           ( trades[n] > 0 /\ n <= reference /\ n < started /\ \E p \in page : p < n ) => n \in page
      /\ \A p \in page : page = {p} => \A n \in Minutes : n < p => trades[n] = 0
  BY <1>2 DEF CollectorInv, PageInv
<1>4. /\ Min(page) \in page /\ \A p \in page : Min(page) <= p
      /\ \A m \in page : (m >= floor /\ (m # Min(page) \/ page = {m})) => m \in Kept
  BY <1>3, KeptFacts
<1>5. \A m \in Kept : /\ m \in page /\ m \in Minutes /\ RestRow(m) \in Row /\ RestRow(m) # None
                      /\ RestRow(m).source = "rest"
                      /\ RestRow(m).volume = trades[m] /\ RestRow(m).trade_value = trades[m]
  BY <1>2, RestRows DEF CollectorInv
<1>6. /\ started <= now /\ reference \in Nat /\ reference <= started
      /\ \A m \in Minutes : IsRest(m) => m <= started
      /\ refetch => newest = 0
      /\ newest < now /\ pages <= MaxPages
  BY <1>2 DEF CollectorInv, JobInv
<1>7. /\ \A m \in Minutes : m \in Kept => table'[m] = RestRow(m)
      /\ \A m \in Minutes : m \notin Kept => table'[m] = table[m]
  BY <1>2
<1>8. \A m \in Minutes : m \in Kept => IsRest(m)'
  BY <1>5, <1>7 DEF IsRest
<1>9. \A m \in Minutes : m \notin Kept => (IsRest(m)' <=> IsRest(m))
  BY <1>7 DEF IsRest
<1>10. \A m \in Minutes : Collected(m) => Collected(m)'
  BY <1>2, <1>8, <1>9 DEF Collected
<1>11. floor' = floor
  BY <1>2 DEF floor
<1>12. NextReference \in Nat /\ NextReference <= started
  BY <1>2, NextReferenceFacts
<1>13. RestInv'
  <2> SUFFICES ASSUME NEW m \in Minutes, IsRest(m)'
               PROVE  m < now /\ table'[m].volume = trades[m] /\ table'[m].trade_value = trades[m]
    BY <1>2 DEF RestInv
  <2>1. CASE m \in Kept
    BY <1>3, <1>5, <1>7, <2>1
  <2>2. CASE m \notin Kept
    BY <1>7, <1>9, <2>2 DEF CollectorInv, RestInv
  <2> QED
    BY <2>1, <2>2
<1>14. JobInv'
  <2>1. reference' \in Nat /\ reference' <= started
    BY <1>2, <1>6, <1>12
  <2>2. ASSUME NEW m \in Minutes, IsRest(m)' PROVE m <= started
    <3>1. CASE m \in Kept
      BY <1>1, <1>3, <1>5, <1>6, <3>1
    <3>2. CASE m \notin Kept
      BY <1>6, <1>9, <2>2, <3>2
    <3> QED
      BY <3>1, <3>2
  <2> QED
    BY <1>2, <1>6, <2>1, <2>2 DEF JobInv
<1>15. PageInv'
  BY <1>2 DEF PageInv
<1>16. PastInv'
  BY <1>2, <1>10, <1>11 DEF CollectorInv, PastInv
\* What is collected once the page is stored.
<1>17. \A m \in Minutes :
         (trades[m] > 0 /\ m > reference /\ m > floor /\ m < started) => Collected(m)'
  BY <1>2, <1>10 DEF CollectorInv, RunInv
<1>18. ASSUME NEW m \in Minutes, trades[m] > 0, m > floor, m < started, m > Min(page)
       PROVE  Collected(m)'
  <2>1. CASE m > reference
    BY <1>17, <1>18, <2>1
  <2>2. CASE ~(m > reference)
    <3>1. m \in page
      BY <1>1, <1>3, <1>4, <1>18, <2>2
    <3>2. m \in Kept
      BY <1>1, <1>4, <1>18, <3>1
    <3> QED
      BY <1>8, <3>2 DEF Collected
  <2> QED
    BY <2>1, <2>2
<1>19. ASSUME NEW m \in Minutes, trades[m] > 0, m > floor, m < started, m > NextReference
       PROVE  Collected(m)'
  <2>1. CASE Min(page) < reference
    <3>1. NextReference = Min(page)
      BY <2>1 DEF NextReference
    <3> QED
      BY <1>18, <1>19, <3>1
  <2>2. CASE ~(Min(page) < reference)
    <3>1. Min(page) = reference /\ page = {reference}
      BY <1>1, <1>3, <1>4, <2>2
    <3>2. m >= reference
      BY <1>1, <1>3, <1>19, <3>1
    <3>3. CASE m = reference
      <4>1. m \in Kept
        BY <1>1, <1>4, <1>19, <3>1, <3>3
      <4> QED
        BY <1>8, <4>1 DEF Collected
    <3>4. CASE m # reference
      BY <1>1, <1>17, <1>19, <3>2, <3>4
    <3> QED
      BY <3>3, <3>4
  <2> QED
    BY <2>1, <2>2
<1>20. RunInv'
  <2>1. CASE ~Covered
    BY <1>2, <1>11, <1>19, <2>1 DEF RunInv
  <2>2. CASE Covered
    <3> SUFFICES ASSUME ~broken \/ (refetch /\ pages < MaxPages),
                        NEW m \in Minutes, trades[m] > 0, m > floor, m < started
                 PROVE  Collected(m)'
      BY <1>2, <1>11, <2>2 DEF RunInv
    <3>1. NextReference <= floor => m > NextReference
      BY <1>1, <1>12
    <3>2. Min(page) <= floor => m > Min(page)
      BY <1>1, <1>4
    <3>3. ASSUME newest # 0, Min(page) <= newest, ~(m > Min(page)) PROVE Collected(m)'
      <4>1. ~broken
        BY <1>6, <3>3
      <4>2. m <= newest
        BY <1>1, <1>4, <3>3
      <4>3. Collected(m)
        BY <1>2, <4>1, <4>2 DEF CollectorInv, PastInv
      <4> QED
        BY <1>10, <4>3
    <3> QED
      BY <1>18, <1>19, <2>2, <3>1, <3>2, <3>3 DEF Covered
  <2> QED
    BY <2>1, <2>2
<1> QED
  BY <1>13, <1>14, <1>15, <1>16, <1>20 DEF CollectorInv

-----------------------------------------------------------------------------
(* Steps.                                                                  *)

\* Lost ticks are of minutes.
LEMMA WireMinutes ==
  ASSUME TypeOK
  PROVE  MinutesOf(wire) \subseteq Minutes
BY DEF TypeOK, MinutesOf

LEMMA TradeIsWellFormed ==
  ASSUME TypeOK, Trade
  PROVE  TypeOK'
<1>1. /\ now <= MaxMinute /\ SumFunction(trades) < MaxTrades
      /\ trades' = [trades EXCEPT ![now] = trades[now] + 1]
      /\ \/ Len(wire) < MaxWire /\ wire' = Append(wire, now) /\ gaps' = gaps
         \/ gaps' = gaps \cup {now} /\ wire' = wire
      /\ UNCHANGED <<now, table, link, subscribed, partial, completed, job, refetch, started,
                     newest, reference, pages, page, runs, faults, broken, demoted>>
  BY DEF Trade, jobVars, boundVars, markVars
<1>2. MaxMinute \in Nat /\ MaxTrades \in Nat /\ MaxWire \in Nat
  BY MinuteAssumption
<1>3. now \in Minutes /\ trades \in [Minutes -> 0..MaxTrades]
  BY <1>1, <1>2 DEF TypeOK, Minutes
<1>4. trades[now] + 1 <= MaxTrades
  <2>1. \A m \in Minutes : trades[m] \in Nat /\ trades[m] \in Int
    BY <1>2, <1>3
  <2>2. IsFiniteSet(Minutes) /\ IsFiniteSet(Minutes \ {now})
    BY MinutesFacts
  <2>3. SumFunction(trades) = SumFunctionOnSet(trades, Minutes)
    <3>1. DOMAIN trades = Minutes
      BY <1>3
    <3> QED
      BY <3>1, Zenon DEF SumFunction
  <2>4. SumFunctionOnSet(trades, Minutes) = trades[now] + SumFunctionOnSet(trades, Minutes \ {now})
    BY <1>3, <2>1, <2>2, SumTakesAny
  <2>5. SumFunctionOnSet(trades, Minutes \ {now}) \in Nat
    BY <2>1, <2>2, SumIsNat
  <2> QED
    BY <1>1, <1>2, <1>3, <2>1, <2>3, <2>4, <2>5
<1>5. trades' \in [Minutes -> 0..MaxTrades]
  BY <1>1, <1>2, <1>3, <1>4
<1>6. wire' \in Seq(Minutes) /\ Len(wire') <= MaxWire /\ gaps' \subseteq Minutes
  <2>1. wire \in Seq(Minutes) /\ Len(wire) \in Nat /\ Len(wire) <= MaxWire /\ gaps \subseteq Minutes
    BY DEF TypeOK
  <2>2. Append(wire, now) \in Seq(Minutes) /\ Len(Append(wire, now)) = Len(wire) + 1
    BY <1>3, <2>1
  <2> QED
    <3>1. CASE Len(wire) < MaxWire /\ wire' = Append(wire, now) /\ gaps' = gaps
      BY <1>2, <2>1, <2>2, <3>1
    <3>2. CASE gaps' = gaps \cup {now} /\ wire' = wire
      BY <1>3, <2>1, <3>2
    <3> QED
      BY <1>1, <3>1, <3>2
<1> QED
  BY <1>1, <1>5, <1>6 DEF TypeOK

LEMMA CutIsWellFormed ==
  ASSUME TypeOK, NEW lost \in SUBSET Minutes, Disconnected(lost),
         partial' \in {partial, None}, completed' \in {completed, None},
         faults' = faults \/ Fault,
         UNCHANGED <<now, trades, table, job, refetch, started, newest, reference, pages, page,
                     runs, broken, demoted>>
  PROVE  TypeOK'
<1>1. MaxWire \in Nat /\ MaxFaults \in Nat
  BY MinuteAssumption
<1>2. faults' \in 0..MaxFaults
  BY <1>1 DEF Fault, TypeOK
<1>3. /\ link' = "down" /\ subscribed' = FALSE /\ wire' = <<>>
      /\ gaps' \subseteq Minutes
  BY WireMinutes DEF Disconnected, TypeOK
<1>4. wire' \in Seq(Minutes) /\ Len(wire') <= MaxWire
  BY <1>1, <1>3
<1> QED
  BY <1>2, <1>3, <1>4 DEF TypeOK

LEMMA StreamIsWellFormed ==
  ASSUME TypeOK, Stream
  PROVE  TypeOK'
<1>1. MaxWire \in Nat /\ MaxFaults \in Nat
  BY MinuteAssumption
<1>2. CASE StartStream
  BY <1>2 DEF StartStream, TypeOK, exchangeVars, jobVars, boundVars, markVars
<1>3. CASE Disconnect
  BY <1>3, CutIsWellFormed DEF Disconnect, exchangeVars, jobVars, markVars
<1>4. CASE StopStream
  <2>1. /\ link' = "off" /\ subscribed' = FALSE /\ wire' = <<>> /\ partial' = None /\ completed' = None
        /\ gaps' = gaps \cup MinutesOf(wire) \cup {b.minute : b \in {partial, completed} \ {None}}
        /\ Fault
        /\ UNCHANGED <<now, trades, table, job, refetch, started, newest, reference, pages, page,
                       runs, broken, demoted>>
    BY <1>4 DEF StopStream, exchangeVars, jobVars, markVars
  <2>2. {b.minute : b \in {partial, completed} \ {None}} \subseteq Minutes
    BY DEF TypeOK, PartialBar
  <2>3. gaps' \subseteq Minutes
    BY <2>1, <2>2, WireMinutes DEF TypeOK
  <2>4. faults' \in 0..MaxFaults
    BY <1>1, <2>1 DEF Fault, TypeOK
  <2>5. wire' \in Seq(Minutes) /\ Len(wire') <= MaxWire
    BY <1>1, <2>1
  <2> QED
    BY <2>1, <2>3, <2>4, <2>5 DEF TypeOK
<1>5. ASSUME NEW accepted \in BOOLEAN, NEW n \in Minutes, NEW resent,
             resent = <<>> \/ resent = <<n>>, Connect(accepted, resent)
      PROVE  TypeOK'
  <2>1. /\ link' = "up" /\ subscribed' = accepted /\ wire' = resent /\ Len(resent) <= MaxWire
        /\ gaps' = gaps \cup MinutesOf(resent)
        /\ UNCHANGED <<now, trades, table, partial, completed, job, refetch, started, newest,
                       reference, pages, page, runs, faults, broken, demoted>>
    BY <1>5 DEF Connect, exchangeVars, jobVars, boundVars, markVars
  <2>2. resent \in Seq(Minutes)
    <3>1. <<>> \in Seq(Minutes) /\ <<n>> \in Seq(Minutes)
      OBVIOUS
    <3> QED
      BY <1>5, <3>1
  <2>3. MinutesOf(resent) \subseteq Minutes
    BY <2>2 DEF MinutesOf
  <2> QED
    BY <2>1, <2>2, <2>3 DEF TypeOK
<1>6. CASE Receive
  <2> DEFINE m == Head(wire)
  <2>1. /\ wire # <<>> /\ (Extend(m) \/ Open(m) \/ Complete(m) \/ OutOfOrder(m))
        /\ UNCHANGED <<now, trades, table, job, refetch, started, newest, reference, pages, page,
                       runs, faults, broken, demoted>>
    BY <1>6 DEF Receive, exchangeVars, jobVars, boundVars, markVars
  <2>2. wire \in Seq(Minutes) /\ Len(wire) <= MaxWire
    BY DEF TypeOK
  <2>3. m \in Minutes /\ Tail(wire) \in Seq(Minutes) /\ Len(Tail(wire)) <= MaxWire
    BY <1>1, <2>1, <2>2
  <2> HIDE DEF m
  <2>4. Opening(m) \in PartialBar
    BY <2>3 DEF Opening, PartialBar
  <2>5. CASE Extend(m)
    <3>1. /\ partial # None /\ partial' = [partial EXCEPT !.volume = partial.volume + 1]
          /\ wire' = Tail(wire) /\ UNCHANGED <<link, subscribed, completed, gaps>>
      BY <2>5 DEF Extend
    <3>2. partial' \in PartialBar
      <4>1. PICK p \in PartialBar : p = partial
        BY <3>1 DEF TypeOK
      <4>2. [p EXCEPT !.volume = p.volume + 1] \in PartialBar
        BY <4>1 DEF PartialBar
      <4> QED
        BY <3>1, <4>1, <4>2
    <3> QED
      BY <2>1, <2>3, <3>1, <3>2 DEF TypeOK
  <2>6. CASE Open(m)
    BY <2>1, <2>3, <2>4, <2>6 DEF Open, TypeOK
  <2>7. CASE Complete(m)
    BY <2>1, <2>3, <2>4, <2>7 DEF Complete, TypeOK
  <2>8. CASE OutOfOrder(m)
    BY <2>1, <2>8, CutIsWellFormed DEF OutOfOrder
  <2> QED
    BY <2>1, <2>5, <2>6, <2>7, <2>8
<1>7. CASE StoreBar
  <2>1. PICK c \in PartialBar : c = completed
    BY <1>7 DEF StoreBar, TypeOK
  <2>2. /\ table' = [table EXCEPT ![c.minute] = WsRow(c)]
        /\ demoted' = (IF IsRest(c.minute) THEN demoted \cup {c.minute} ELSE demoted)
        /\ completed' = None
        /\ UNCHANGED <<now, trades, link, subscribed, wire, partial, job, refetch, started, newest,
                       reference, pages, page, runs, faults, gaps, broken>>
    BY <1>7, <2>1 DEF StoreBar, exchangeVars, jobVars, boundVars
  <2>3. c.minute \in Minutes /\ WsRow(c) \in Row
    BY <2>1 DEF PartialBar, WsRow, Row
  <2>4. table' \in [Minutes -> Row \cup {None}] /\ demoted' \subseteq Minutes
    BY <2>2, <2>3 DEF TypeOK
  <2> QED
    BY <2>2, <2>4 DEF TypeOK
<1>8. CASE StoreBarFails
  <2>1. {completed.minute} \in SUBSET Minutes
    BY <1>8 DEF StoreBarFails, TypeOK, PartialBar
  <2> QED
    BY <1>8, <2>1, CutIsWellFormed DEF StoreBarFails, exchangeVars, jobVars, markVars
<1> QED
  BY <1>2, <1>3, <1>4, <1>5, <1>6, <1>7, <1>8 DEF Stream

LEMMA CollectorIsWellFormed ==
  ASSUME TypeOK, CollectorInv, Collector
  PROVE  TypeOK'
<1>1. /\ MaxRuns \in Nat /\ MaxFaults \in Nat /\ now \in Nat
  BY MinuteAssumption, CollectorTypes
<1>2. CASE Begin
  <2>1. /\ job' = "fetch" /\ runs < MaxRuns /\ runs' = runs + 1 /\ refetch' \in BOOLEAN
        /\ started' = now /\ reference' = now
        /\ newest' = IF refetch' THEN 0 ELSE LastStored
        /\ pages' = 0 /\ page' = {}
        /\ UNCHANGED <<now, trades, table, link, subscribed, wire, partial, completed, faults, gaps,
                       broken, demoted>>
    BY <1>2 DEF Begin, exchangeVars, streamVars, markVars
  <2>2. runs' \in 0..MaxRuns
    BY <1>1, <2>1 DEF TypeOK
  <2>3. newest' \in Nat
    BY <2>1, LastStoredFacts
  <2> QED
    BY <1>1, <2>1, <2>2, <2>3 DEF TypeOK
<1>3. CASE Fetch
  <2>1. /\ page' = PageAt(reference) /\ pages' = pages + 1
        /\ job' \in {"done", "store"}
        /\ UNCHANGED <<now, trades, table, link, subscribed, wire, partial, completed, refetch,
                       started, newest, reference, runs, faults, gaps, broken, demoted>>
    BY <1>3 DEF Fetch, exchangeVars, streamVars, boundVars, markVars
  <2>2. page' \subseteq Minutes
    BY <2>1, PageFacts
  <2> QED
    BY <2>1, <2>2 DEF TypeOK
<1>4. CASE StorePage
  <2>1. /\ job = "store"
        /\ table' = [m \in Minutes |-> IF m \in Kept THEN RestRow(m) ELSE table[m]]
        /\ demoted' = demoted \ Kept
        /\ job' \in {"done", "fetch"}
        /\ reference' \in {reference, NextReference}
        /\ page' = {}
        /\ UNCHANGED <<now, trades, link, subscribed, wire, partial, completed, refetch, started,
                       newest, pages, runs, faults, gaps, broken>>
    BY <1>4 DEF StorePage, exchangeVars, streamVars, boundVars
  <2>2. \A m \in Kept : RestRow(m) \in Row
    BY <2>1, RestRows DEF CollectorInv
  <2>3. table' \in [Minutes -> Row \cup {None}]
    BY <2>1, <2>2 DEF TypeOK
  <2>4. reference' \in Int
    BY <2>1, NextReferenceFacts DEF TypeOK
  <2> QED
    BY <2>1, <2>3, <2>4 DEF TypeOK
<1>5. CASE PageLimit
  BY <1>5 DEF PageLimit, TypeOK, exchangeVars, streamVars, boundVars
<1>6. CASE Abort
  <2>1. faults' \in 0..MaxFaults
    BY <1>1, <1>6 DEF Abort, Fault, TypeOK
  <2>2. /\ job' = "idle" /\ refetch' = FALSE
        /\ started' = 0 /\ newest' = 0 /\ reference' = 0 /\ pages' = 0 /\ page' = {}
        /\ broken' \in BOOLEAN
        /\ UNCHANGED <<now, trades, table, link, subscribed, wire, partial, completed, runs, gaps,
                       demoted>>
    BY <1>6 DEF Abort, EndRun, exchangeVars, streamVars
  <2>3. {started', newest', pages'} \subseteq Nat /\ reference' \in Int /\ page' \subseteq Minutes
    BY <2>2
  <2> QED
    BY <2>1, <2>2, <2>3 DEF TypeOK
<1>7. CASE Return
  <2>1. broken' \in BOOLEAN
    BY <1>7 DEF Return
  <2>2. /\ job' = "idle" /\ refetch' = FALSE
        /\ started' = 0 /\ newest' = 0 /\ reference' = 0 /\ pages' = 0 /\ page' = {}
        /\ UNCHANGED <<now, trades, table, link, subscribed, wire, partial, completed, runs, faults,
                       gaps, demoted>>
    BY <1>7 DEF Return, EndRun, exchangeVars, streamVars, boundVars
  <2>3. {started', newest', pages'} \subseteq Nat /\ reference' \in Int /\ page' \subseteq Minutes
    BY <2>2
  <2> QED
    BY <2>1, <2>2, <2>3 DEF TypeOK
<1> QED
  BY <1>2, <1>3, <1>4, <1>5, <1>6, <1>7 DEF Collector

MinuteInv == TypeOK /\ StreamInv /\ CollectorInv

LEMMA InvInit == Init => MinuteInv
<1> SUFFICES ASSUME Init PROVE MinuteInv
  OBVIOUS
<1>1. MaxMinute \in Nat /\ MaxTrades \in Nat /\ MaxWire \in Nat /\ MaxRuns \in Nat /\ MaxFaults \in Nat
  BY MinuteAssumption
<1>2. /\ \A m \in Minutes : trades[m] = 0 /\ table[m] = None
      /\ now = 1 /\ wire = <<>> /\ partial = None /\ completed = None /\ job = "idle"
  BY DEF Init
<1>3. TypeOK
  <2>1. <<>> \in Seq(Minutes) /\ Len(<<>>) <= MaxWire
    BY <1>1
  <2>2. now \in 1..(MaxMinute + 1) /\ runs \in 0..MaxRuns /\ faults \in 0..MaxFaults
    BY <1>1 DEF Init
  <2>3. trades \in [Minutes -> 0..MaxTrades] /\ table \in [Minutes -> Row \cup {None}]
    BY <1>1 DEF Init
  <2>4. {started, newest, pages} \subseteq Nat /\ reference \in Int /\ page \subseteq Minutes
    BY DEF Init
  <2> QED
    BY <2>1, <2>2, <2>3, <2>4 DEF Init, TypeOK
<1>4. StreamInv
  <2>1. ASSUME NEW m \in Minutes PROVE Underway(m)
    <3>1. <<>> \in Seq(Minutes) /\ m \notin MinutesOf(<<>>)
      BY DEF MinutesOf
    <3>2. TicksOf(<<>>, m) = 0
      BY <3>1, TicksAreCounted
    <3> QED
      BY <1>2, <3>2 DEF Underway, IsWs, Carried, OnWire, InPartial, InCompleted
  <2> QED
    BY <1>2, <2>1 DEF StreamInv, ExchangeInv, WireInv, TickInv
<1>5. CollectorInv
  <2>1. \A m \in Minutes : ~IsRest(m)
    BY <1>2 DEF IsRest
  <2> QED
    BY <1>2, <2>1 DEF CollectorInv, RestInv, JobInv, PageInv, PastInv, RunInv
<1> QED
  BY <1>3, <1>4, <1>5 DEF MinuteInv

LEMMA StreamStep ==
  ASSUME MinuteInv, [Next]_vars
  PROVE  StreamInv'
<1> USE DEF MinuteInv
<1>1. CASE Trade \/ NextMinute
  BY <1>1, TradeKeepsStream, ClockKeepsStream
<1>2. CASE StartStream
  <2>1. wire = <<>>
    BY <1>2 DEF StreamInv, WireInv, StartStream
  <2> QED
    BY <1>2, <2>1, OthersKeepStream DEF StartStream, exchangeVars
<1>3. CASE Disconnect \/ StopStream \/ StoreBarFails
  BY <1>3, CutsKeepStream
<1>4. ASSUME NEW accepted \in BOOLEAN, NEW m \in Minutes,
             Connect(accepted, <<>>) \/ Connect(accepted, <<m>>)
      PROVE  StreamInv'
  <2>1. CASE Connect(accepted, <<>>)
    BY <2>1, ConnectKeepsStream
  <2>2. CASE Connect(accepted, <<m>>)
    BY <2>2, ConnectKeepsStream
  <2> QED
    BY <1>4, <2>1, <2>2
<1>5. CASE Receive \/ StoreBar
  BY <1>5, ReceiveKeepsStream, StoreBarKeepsStream
<1>6. CASE StorePage
  <2>1. \A m \in Kept : RestRow(m) # None
    BY <1>6, RestRows DEF StorePage, CollectorInv
  <2> QED
    BY <1>6, <2>1, PageKeepsStream
<1>7. CASE Begin \/ Fetch \/ PageLimit \/ Abort \/ Return \/ UNCHANGED vars
  <2>1. UNCHANGED <<now, trades, table, wire, partial, completed, gaps, link>>
    BY <1>7 DEF Begin, Fetch, PageLimit, Abort, Return, vars, exchangeVars, streamVars
  <2> QED
    BY <2>1, OthersKeepStream
<1> QED
  BY <1>1, <1>2, <1>3, <1>4, <1>5, <1>6, <1>7 DEF Next, Stream, Collector

LEMMA CollectorStep ==
  ASSUME MinuteInv, [Next]_vars
  PROVE  CollectorInv'
<1> USE DEF MinuteInv
<1>0. now \in Nat
  BY CollectorTypes
<1>1. CASE Trade
  <2>1. UNCHANGED <<now, table, jobVars, broken, demoted>>
    BY <1>1 DEF Trade, markVars
  <2>2. trades' = [trades EXCEPT ![now] = trades[now] + 1] /\ trades \in [Minutes -> 0..MaxTrades]
    BY <1>1 DEF Trade, TypeOK
  <2>3. \A m \in Minutes : m < now => trades'[m] = trades[m]
    BY <1>0, <2>2
  <2> QED
    BY <1>0, <2>1, <2>3, ClockKeepsCollector
<1>2. CASE NextMinute
  BY <1>0, <1>2, ClockKeepsCollector DEF NextMinute, markVars
<1>3. CASE StoreBar
  BY <1>3, StoreBarKeepsCollector
<1>4. CASE (Stream /\ ~StoreBar) \/ UNCHANGED vars
  <2>1. UNCHANGED <<now, trades, table, jobVars, broken, demoted>>
    BY <1>4 DEF Stream, StartStream, Connect, Disconnect, StopStream, StoreBarFails, Receive,
                vars, exchangeVars, markVars
  <2> QED
    BY <1>0, <2>1, ClockKeepsCollector
<1>5. CASE Collector
  BY <1>5, BeginKeepsCollector, FetchKeepsCollector, StorePageKeepsCollector, EndKeepsCollector
     DEF Collector
<1> QED
  BY <1>1, <1>2, <1>3, <1>4, <1>5 DEF Next

LEMMA InvNext == MinuteInv /\ [Next]_vars => MinuteInv'
<1> SUFFICES ASSUME MinuteInv, [Next]_vars PROVE MinuteInv'
  OBVIOUS
<1>1. TypeOK'
  <2>1. CASE NextMinute
    <3>1. MaxMinute \in Nat
      BY MinuteAssumption
    <3>2. now' \in 1..(MaxMinute + 1)
      BY <2>1, <3>1 DEF NextMinute, MinuteInv, TypeOK
    <3> QED
      BY <2>1, <3>2 DEF NextMinute, MinuteInv, TypeOK, streamVars, jobVars, boundVars, markVars
  <2>2. CASE UNCHANGED vars
    BY <2>2 DEF MinuteInv, TypeOK, vars, exchangeVars, streamVars, jobVars, boundVars, markVars
  <2> QED
    BY <2>1, <2>2, TradeIsWellFormed, StreamIsWellFormed, CollectorIsWellFormed
       DEF MinuteInv, Next
<1> QED
  BY <1>1, StreamStep, CollectorStep DEF MinuteInv

-----------------------------------------------------------------------------
(* The theorems.                                                           *)

THEOREM MinuteInvariant == Spec => []MinuteInv
BY InvInit, InvNext, PTL DEF Spec

\* The table, the aggregator and the collector stay well-formed; a row of the
\* stream has no traded value (data/live_bars.py, data/minutes.py).
THEOREM TablesAreWellFormed == Spec => []TypeOK
<1>1. MinuteInv => TypeOK
  BY DEF MinuteInv
<1> QED
  BY <1>1, MinuteInvariant, PTL

\* Across lost connections, refused subscriptions, late ticks and failed writes
\* the stream falsifies and skips no minute whose ticks arrived once
\* (adapters/live_ws.py, live_ticks.py).
THEOREM StreamStaysWhole == Spec => []StreamIsWhole
<1>1. MinuteInv => StreamIsWhole
  <2> SUFFICES ASSUME MinuteInv, NEW m \in Minutes \ gaps
               PROVE  /\ IsWs(m) => table[m].volume = trades[m]
                      /\ ( /\ trades[m] > 0 /\ partial # None /\ m < partial.minute
                           /\ completed # None => completed.minute # m )
                         => table[m] # None
    BY DEF StreamIsWhole, IsWs
  <2>1. TypeOK /\ WireInv /\ (Underway(m) \/ Stored(m))
    BY DEF MinuteInv, StreamInv, TickInv
  <2>2. IsWs(m) => table[m].volume = trades[m]
    BY <2>1 DEF Underway, Stored
  <2>3. ASSUME trades[m] > 0, partial # None, m < partial.minute,
               completed # None => completed.minute # m, Underway(m)
        PROVE  FALSE
    <3>1. OnWire(m) \in Nat /\ m \in Nat
      BY <2>1, CarriedFacts
    <3>2. partial.minute \in Nat
      BY <2>1, <2>3, MinutesFacts DEF TypeOK, PartialBar
    <3>3. OnWire(m) # 0
      BY <2>3, <3>1, <3>2 DEF Underway, Carried, InPartial, InCompleted
    <3>4. m \in MinutesOf(wire)
      BY <2>1, <3>3, TicksAreCounted DEF TypeOK, OnWire
    <3>5. partial.minute <= m
      BY <2>1, <2>3, <3>4 DEF WireInv, MinutesOf
    <3> QED
      BY <2>3, <3>1, <3>2, <3>5
  <2> QED
    BY <2>1, <2>2, <2>3 DEF Stored
<1> QED
  BY <1>1, MinuteInvariant, PTL

\* A row of the collector is the exchange's bar, its traded value too, wherever
\* the page that brought it was cut and whatever run it was of
\* (data/minutes.py: _parse_page(), _collect_symbol()).
THEOREM RestRowsStayTrue == Spec => []RestRowsAreTrue
<1>1. MinuteInv => RestRowsAreTrue
  BY DEF MinuteInv, CollectorInv, RestInv, RestRowsAreTrue
<1> QED
  BY <1>1, MinuteInvariant, PTL

\* A run that ends by itself leaves no hole above its floor, though it asked for
\* no more than what lies above the newest row of the run before
\* (data/minutes.py: _last_stored(), _next_reference(), _collect_symbol()).
THEOREM CollectedRangeStaysWhole == Spec => []CollectedRangeIsWhole
<1>1. MinuteInv => CollectedRangeIsWhole
  BY DEF MinuteInv, CollectorInv, RunInv, Collected, CollectedRangeIsWhole
<1> QED
  BY <1>1, MinuteInvariant, PTL

=============================================================================
