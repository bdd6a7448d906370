--------------------------- MODULE TradingProofs ---------------------------
(***************************************************************************)
(* Theorems about Trading, for every finite set of symbols, every verdict  *)
(* of the judge, every configuration and ranking, any bars and any number  *)
(* of days.                                                                *)
(***************************************************************************)
EXTENDS Trading, FiniteSetTheorems, TLAPS

-----------------------------------------------------------------------------
(* Sums.  What follows about SumFunctionOnSet() holds for all numbers.     *)

LEMMA LeastOf ==
  ASSUME NEW S, S \subseteq Nat, S # {}
  PROVE  \E x \in S : \A y \in S : x <= y
<1>1. \E x \in S : \A y \in S : <<y, x>> \notin OpToRel(<, Nat)
  BY NatLessThanWellFounded, WFMin
<1>2. PICK x \in S : \A y \in S : <<y, x>> \notin OpToRel(<, Nat)
  BY <1>1
<1>3. ASSUME NEW y \in S PROVE x <= y
  <2>1. ~ (y < x)
    BY <1>2 DEF OpToRel
  <2> QED
    BY <2>1
<1> QED
  BY <1>2, <1>3

\* Induction, for a set of numbers.
LEMMA NumbersByInduction ==
  ASSUME NEW N, 0 \in N, \A n \in Nat : n \in N => n + 1 \in N
  PROVE  Nat \subseteq N
<1> SUFFICES ASSUME Nat \ N # {} PROVE FALSE
  OBVIOUS
<1>1. PICK n \in Nat \ N : \A m \in Nat \ N : n <= m
  BY LeastOf
<1>2. n # 0 /\ n - 1 \in Nat
  BY <1>1
<1>3. n - 1 \in N
  <2>1. n - 1 \notin Nat \ N
    BY <1>1, <1>2
  <2> QED
    BY <1>2, <2>1
<1>4. (n - 1) + 1 \in N
  BY <1>2, <1>3
<1> QED
  BY <1>1, <1>2, <1>4

\* The element a sum over S takes first.
Taken(S) == CHOOSE x \in S : TRUE

\* g has the sums of f over the sets of F.
AreSums(g, f, F) ==
  g = [s \in F |-> IF s = {} THEN 0 ELSE f[Taken(s)] + g[s \ {Taken(s)}]]

AreAllSums(g, f, S) == AreSums(g, f, SUBSET S)

LEMMA SumFunctionOnSetDef ==
  ASSUME NEW f, NEW S
  PROVE  SumFunctionOnSet(f, S) = (CHOOSE g : AreAllSums(g, f, S))[S]
BY DEF SumFunctionOnSet, FoldFunctionOnSet, MapThenFoldSet, AreAllSums, AreSums,
   Taken

LEMMA OneLess ==
  ASSUME NEW S, IsFiniteSet(S), NEW x \in S
  PROVE  /\ IsFiniteSet(S \ {x}) /\ Cardinality(S) \in Nat
         /\ Cardinality(S \ {x}) \in Nat
         /\ Cardinality(S \ {x}) = Cardinality(S) - 1
BY FS_RemoveElement, FS_CardinalityType

LEMMA SumsExist ==
  ASSUME NEW f, NEW S, IsFiniteSet(S)
  PROVE  \E g : AreAllSums(g, f, S)
<1> DEFINE F(n) == {s \in SUBSET S : Cardinality(s) <= n}
           N == {n \in Nat : \E g : AreSums(g, f, F(n))}
<1>1. \A s \in SUBSET S : IsFiniteSet(s) /\ Cardinality(s) \in Nat
  BY FS_Subset, FS_CardinalityType
<1>2. \A s \in SUBSET S : s # {} => /\ Taken(s) \in s /\ s \ {Taken(s)} \in SUBSET S
                                    /\ Cardinality(s \ {Taken(s)}) = Cardinality(s) - 1
  <2>1. ASSUME NEW s \in SUBSET S, s # {}
        PROVE  /\ Taken(s) \in s /\ s \ {Taken(s)} \in SUBSET S
               /\ Cardinality(s \ {Taken(s)}) = Cardinality(s) - 1
    <3>1. Taken(s) \in s
      BY <2>1 DEF Taken
    <3>2. Cardinality(s \ {Taken(s)}) = Cardinality(s) - 1
      BY <1>1, <3>1, OneLess
    <3> QED
      BY <3>1, <3>2
  <2> QED
    BY <2>1
<1>3. 0 \in N
  <2>1. \A s \in F(0) : s = {}
    BY <1>1, FS_EmptySet
  <2>2. AreSums([s \in F(0) |-> 0], f, F(0))
    <3> HIDE DEF F
    <3> QED
      BY <2>1 DEF AreSums
  <2> HIDE DEF F
  <2> QED
    BY <2>2
<1>4. ASSUME NEW n \in Nat, n \in N PROVE n + 1 \in N
  <2>1. PICK g : AreSums(g, f, F(n))
    BY <1>4
  <2> DEFINE h == [s \in F(n + 1) |->
                     IF s = {} THEN 0 ELSE f[Taken(s)] + g[s \ {Taken(s)}]]
  <2>2. F(n) \subseteq F(n + 1)
    BY <1>1
  <2>3. \A s \in F(n + 1) : s # {} => s \ {Taken(s)} \in F(n)
    BY <1>1, <1>2
  <2> HIDE DEF F
  <2>4. \A s \in F(n) : h[s] = g[s]
    BY <2>1, <2>2 DEF AreSums
  <2>5. AreSums(h, f, F(n + 1))
    BY <2>3, <2>4 DEF AreSums
  <2> HIDE DEF h
  <2> QED
    BY <2>5
<1> HIDE DEF N
<1>5. Nat \subseteq N
  BY <1>3, <1>4, NumbersByInduction
<1>6. Cardinality(S) \in N
  BY <1>1, <1>5
<1>7. F(Cardinality(S)) = SUBSET S
  <2>1. \A s \in SUBSET S : Cardinality(s) <= Cardinality(S)
    BY FS_Subset
  <2> QED
    BY <2>1
<1>8. \E g : AreSums(g, f, F(Cardinality(S)))
  BY <1>6 DEF N
<1> QED
  BY <1>7, <1>8 DEF AreAllSums

LEMMA SumsAreOne ==
  ASSUME NEW f, NEW S, IsFiniteSet(S), NEW T, T \subseteq S,
         NEW g, AreAllSums(g, f, S), NEW h, AreAllSums(h, f, T)
  PROVE  g[T] = h[T]
<1> DEFINE N == {n \in Nat : \A s \in SUBSET T : Cardinality(s) = n => g[s] = h[s]}
<1>1. \A s \in SUBSET T : IsFiniteSet(s) /\ Cardinality(s) \in Nat /\ s \in SUBSET S
  BY FS_Subset, FS_CardinalityType
<1>2. \A s \in SUBSET T : /\ g[s] = IF s = {} THEN 0 ELSE f[Taken(s)] + g[s \ {Taken(s)}]
                          /\ h[s] = IF s = {} THEN 0 ELSE f[Taken(s)] + h[s \ {Taken(s)}]
  BY <1>1 DEF AreAllSums, AreSums
<1>3. 0 \in N
  <2>1. \A s \in SUBSET T : Cardinality(s) = 0 => s = {}
    BY <1>1, FS_EmptySet
  <2> QED
    BY <1>2, <2>1
<1>4. ASSUME NEW n \in Nat, n \in N PROVE n + 1 \in N
  <2>1. ASSUME NEW s \in SUBSET T, Cardinality(s) = n + 1 PROVE g[s] = h[s]
    <3>1. s # {}
      BY <1>1, <2>1, FS_EmptySet
    <3>2. Taken(s) \in s
      BY <3>1 DEF Taken
    <3>3. Cardinality(s \ {Taken(s)}) = n
      BY <1>1, <2>1, <3>2, OneLess
    <3>4. g[s \ {Taken(s)}] = h[s \ {Taken(s)}]
      BY <1>4, <3>3
    <3> QED
      BY <1>2, <3>1, <3>4
  <2> QED
    BY <2>1
<1> HIDE DEF N
<1>5. Cardinality(T) \in N
  BY <1>1, <1>3, <1>4, NumbersByInduction
<1> QED
  BY <1>5 DEF N

LEMMA SumTakesFirst ==
  ASSUME NEW f, NEW S, IsFiniteSet(S)
  PROVE  SumFunctionOnSet(f, S) =
           IF S = {} THEN 0 ELSE f[Taken(S)] + SumFunctionOnSet(f, S \ {Taken(S)})
<1> DEFINE T == S \ {Taken(S)}
           g == CHOOSE g : AreAllSums(g, f, S)
           h == CHOOSE h : AreAllSums(h, f, T)
<1>1. IsFiniteSet(T) /\ T \subseteq S
  BY FS_Subset
<1>2. AreAllSums(g, f, S)
  BY SumsExist
<1>3. AreAllSums(h, f, T)
  <2> HIDE DEF T
  <2> QED
    BY <1>1, SumsExist
<1>4. SumFunctionOnSet(f, S) = g[S] /\ SumFunctionOnSet(f, T) = h[T]
  BY SumFunctionOnSetDef
<1> HIDE DEF g, h
<1>5. g[T] = h[T]
  <2> HIDE DEF T
  <2> QED
    BY <1>1, <1>2, <1>3, SumsAreOne
<1>6. g[S] = IF S = {} THEN 0 ELSE f[Taken(S)] + g[T]
  <2>1. S \in SUBSET S
    OBVIOUS
  <2> QED
    BY <1>2, <2>1 DEF AreAllSums, AreSums
<1> HIDE DEF T
<1>7. SumFunctionOnSet(f, S) = IF S = {} THEN 0 ELSE f[Taken(S)] + SumFunctionOnSet(f, T)
  BY <1>4, <1>5, <1>6
<1> QED
  BY <1>7 DEF T

\* A sum of numbers of a set that is closed under addition is in the set.
LEMMA SumStaysIn ==
  ASSUME NEW R, 0 \in R, \A i, j \in R : i + j \in R,
         NEW f, NEW S, IsFiniteSet(S), \A x \in S : f[x] \in R
  PROVE  SumFunctionOnSet(f, S) \in R
<1> DEFINE Sum(s) == SumFunctionOnSet(f, s)
           N == {n \in Nat : \A s \in SUBSET S : Cardinality(s) = n => Sum(s) \in R}
<1>1. \A s \in SUBSET S : IsFiniteSet(s) /\ Cardinality(s) \in Nat
  BY FS_Subset, FS_CardinalityType
<1>2. \A s \in SUBSET S : Sum(s) = IF s = {} THEN 0 ELSE f[Taken(s)] + Sum(s \ {Taken(s)})
  BY <1>1, SumTakesFirst
<1> HIDE DEF Sum
<1>3. 0 \in N
  <2>1. \A s \in SUBSET S : Cardinality(s) = 0 => s = {}
    BY <1>1, FS_EmptySet
  <2>2. \A s \in SUBSET S : Cardinality(s) = 0 => Sum(s) = 0
    BY <1>2, <2>1
  <2> QED
    BY <2>2
<1>4. ASSUME NEW n \in Nat, n \in N PROVE n + 1 \in N
  <2>1. ASSUME NEW s \in SUBSET S, Cardinality(s) = n + 1 PROVE Sum(s) \in R
    <3>1. s # {}
      BY <1>1, <2>1, FS_EmptySet
    <3>2. Taken(s) \in s
      BY <3>1 DEF Taken
    <3>3. Cardinality(s \ {Taken(s)}) = n
      BY <1>1, <2>1, <3>2, OneLess
    <3>4. Sum(s \ {Taken(s)}) \in R /\ f[Taken(s)] \in R
      BY <1>4, <3>2, <3>3
    <3> QED
      BY <1>2, <3>1, <3>4
  <2> QED
    BY <2>1
<1> HIDE DEF N
<1>5. Cardinality(S) \in N
  BY <1>1, <1>3, <1>4, NumbersByInduction
<1> QED
  BY <1>5 DEF N, Sum

LEMMA SumIsInt ==
  ASSUME NEW f, NEW S, IsFiniteSet(S), \A x \in S : f[x] \in Int
  PROVE  SumFunctionOnSet(f, S) \in Int
<1>1. 0 \in Int /\ \A i, j \in Int : i + j \in Int
  OBVIOUS
<1> QED
  BY <1>1, SumStaysIn

LEMMA SumIsNat ==
  ASSUME NEW f, NEW S, IsFiniteSet(S), \A x \in S : f[x] \in Nat
  PROVE  SumFunctionOnSet(f, S) \in Nat
<1>1. 0 \in Nat /\ \A i, j \in Nat : i + j \in Nat
  OBVIOUS
<1> QED
  BY <1>1, SumStaysIn

\* A sum may take any of its elements first.
LEMMA SumTakesAny ==
  ASSUME NEW f, NEW S, IsFiniteSet(S), \A x \in S : f[x] \in Int, NEW e \in S
  PROVE  SumFunctionOnSet(f, S) = f[e] + SumFunctionOnSet(f, S \ {e})
<1> DEFINE Sum(s) == SumFunctionOnSet(f, s)
           N == {n \in Nat : \A s \in SUBSET S : Cardinality(s) = n =>
                               \A x \in s : Sum(s) = f[x] + Sum(s \ {x})}
<1>1. \A s \in SUBSET S : IsFiniteSet(s) /\ Cardinality(s) \in Nat
  BY FS_Subset, FS_CardinalityType
<1>2. \A s \in SUBSET S : s # {} => Sum(s) = f[Taken(s)] + Sum(s \ {Taken(s)})
  BY <1>1, SumTakesFirst
<1>3. \A s \in SUBSET S : Sum(s) \in Int
  <2>1. ASSUME NEW s \in SUBSET S PROVE Sum(s) \in Int
    <3>1. IsFiniteSet(s) /\ \A x \in s : f[x] \in Int
      BY <1>1
    <3> QED
      BY <3>1, SumIsInt
  <2> QED
    BY <2>1
<1> HIDE DEF Sum
<1>4. 0 \in N
  BY <1>1, FS_EmptySet
<1>5. ASSUME NEW n \in Nat, n \in N PROVE n + 1 \in N
  <2>1. ASSUME NEW s \in SUBSET S, Cardinality(s) = n + 1, NEW x \in s
        PROVE  Sum(s) = f[x] + Sum(s \ {x})
    <3> DEFINE c == Taken(s)
    <3>1. c \in s /\ Sum(s) = f[c] + Sum(s \ {c})
      BY <1>2 DEF Taken
    <3> HIDE DEF c
    <3>2. CASE x # c
      <4>1. \A y \in s : Cardinality(s \ {y}) = n /\ s \ {y} \in SUBSET S
        BY <1>1, <2>1, OneLess
      <4>2. Sum(s \ {c}) = f[x] + Sum((s \ {c}) \ {x})
        BY <1>5, <3>1, <3>2, <4>1
      <4>3. Sum(s \ {x}) = f[c] + Sum((s \ {x}) \ {c})
        BY <1>5, <3>1, <3>2, <4>1
      <4>4. Sum((s \ {c}) \ {x}) = Sum((s \ {x}) \ {c})
        <5>1. (s \ {c}) \ {x} = (s \ {x}) \ {c}
          OBVIOUS
        <5> QED
          BY <5>1, Zenon
      <4>5. Sum((s \ {x}) \ {c}) \in Int /\ f[x] \in Int /\ f[c] \in Int
        BY <1>3, <3>1
      <4> QED
        BY <3>1, <4>2, <4>3, <4>4, <4>5
    <3> QED
      BY <3>1, <3>2
  <2> QED
    BY <2>1
<1> HIDE DEF N
<1>6. Cardinality(S) \in N
  BY <1>1, <1>4, <1>5, NumbersByInduction
<1> QED
  BY <1>6 DEF N, Sum

\* Sums of the same numbers are the same.
LEMMA SumOfEqual ==
  ASSUME NEW f, NEW g, NEW S, IsFiniteSet(S), \A x \in S : f[x] = g[x]
  PROVE  SumFunctionOnSet(f, S) = SumFunctionOnSet(g, S)
<1> DEFINE N == {n \in Nat : \A s \in SUBSET S : Cardinality(s) = n =>
                               SumFunctionOnSet(f, s) = SumFunctionOnSet(g, s)}
<1>1. \A s \in SUBSET S : IsFiniteSet(s) /\ Cardinality(s) \in Nat
  BY FS_Subset, FS_CardinalityType
<1>2. 0 \in N
  <2>1. \A s \in SUBSET S : Cardinality(s) = 0 => s = {}
    BY <1>1, FS_EmptySet
  <2> QED
    BY <2>1, FS_EmptySet, SumTakesFirst
<1>3. ASSUME NEW n \in Nat, n \in N PROVE n + 1 \in N
  <2>1. ASSUME NEW s \in SUBSET S, Cardinality(s) = n + 1
        PROVE  SumFunctionOnSet(f, s) = SumFunctionOnSet(g, s)
    <3>1. s # {}
      BY <1>1, <2>1, FS_EmptySet
    <3>2. Taken(s) \in s
      BY <3>1 DEF Taken
    <3>3. Cardinality(s \ {Taken(s)}) = n
      BY <1>1, <2>1, <3>2, OneLess
    <3>4. SumFunctionOnSet(f, s \ {Taken(s)}) = SumFunctionOnSet(g, s \ {Taken(s)})
      BY <1>3, <3>3
    <3> QED
      BY <1>1, <3>1, <3>2, <3>4, SumTakesFirst
  <2> QED
    BY <2>1
<1> HIDE DEF N
<1>4. Cardinality(S) \in N
  BY <1>1, <1>2, <1>3, NumbersByInduction
<1> QED
  BY <1>4 DEF N

\* A sum over two parts.
LEMMA SumOfParts ==
  ASSUME NEW f, NEW S, IsFiniteSet(S), \A x \in S : f[x] \in Int, NEW T \in SUBSET S
  PROVE  SumFunctionOnSet(f, S) = SumFunctionOnSet(f, T) + SumFunctionOnSet(f, S \ T)
<1> DEFINE Sum(s) == SumFunctionOnSet(f, s)
           N == {n \in Nat : \A s \in SUBSET T : Cardinality(s) = n =>
                               Sum(S) = Sum(s) + Sum(S \ s)}
<1>1. \A s \in SUBSET S : IsFiniteSet(s) /\ Cardinality(s) \in Nat
  BY FS_Subset, FS_CardinalityType
<1>2. \A s \in SUBSET S : Sum(s) \in Int /\ \A x \in s : Sum(s) = f[x] + Sum(s \ {x})
  <2>1. ASSUME NEW s \in SUBSET S
        PROVE  Sum(s) \in Int /\ \A x \in s : Sum(s) = f[x] + Sum(s \ {x})
    <3>1. IsFiniteSet(s) /\ \A x \in s : f[x] \in Int
      BY <1>1
    <3> QED
      BY <3>1, SumIsInt, SumTakesAny
  <2> QED
    BY <2>1
<1>3. Sum({}) = 0
  BY FS_EmptySet, SumTakesFirst
<1> HIDE DEF Sum
<1>4. 0 \in N
  <2>1. \A s \in SUBSET T : Cardinality(s) = 0 => s = {}
    BY <1>1, FS_EmptySet
  <2>2. S \ {} = S /\ Sum(S) \in Int
    BY <1>2
  <2>3. Sum(S) = Sum({}) + Sum(S \ {})
    <3>1. Sum(S \ {}) = Sum(S)
      BY <2>2, Zenon
    <3> QED
      BY <1>3, <2>2, <3>1
  <2>4. \A s \in SUBSET T : Cardinality(s) = 0 => Sum(S) = Sum(s) + Sum(S \ s)
    BY <2>1, <2>3, Zenon
  <2> QED
    BY <2>4
<1>5. ASSUME NEW n \in Nat, n \in N PROVE n + 1 \in N
  <2>1. ASSUME NEW s \in SUBSET T, Cardinality(s) = n + 1 PROVE Sum(S) = Sum(s) + Sum(S \ s)
    <3>1. s # {}
      BY <1>1, <2>1, FS_EmptySet
    <3>2. PICK x \in s : TRUE
      BY <3>1
    <3>3. Cardinality(s \ {x}) = n
      BY <1>1, <2>1, <3>2, OneLess
    <3>4. Sum(S) = Sum(s \ {x}) + Sum(S \ (s \ {x}))
      BY <1>5, <3>3
    <3>5. Sum(s) = f[x] + Sum(s \ {x})
      BY <1>2, <3>2
    <3>6. Sum(S \ (s \ {x})) = f[x] + Sum((S \ (s \ {x})) \ {x})
      BY <1>2, <3>2
    <3>7. Sum((S \ (s \ {x})) \ {x}) = Sum(S \ s)
      <4>1. (S \ (s \ {x})) \ {x} = S \ s
        BY <3>2
      <4> QED
        BY <4>1, Zenon
    <3>8. f[x] \in Int /\ Sum(s \ {x}) \in Int /\ Sum(S \ s) \in Int
      BY <1>2, <3>2
    <3> QED
      BY <3>4, <3>5, <3>6, <3>7, <3>8
  <2> QED
    BY <2>1
<1> HIDE DEF N
<1>6. Cardinality(T) \in N
  BY <1>1, <1>4, <1>5, NumbersByInduction
<1> QED
  BY <1>6 DEF N, Sum

-----------------------------------------------------------------------------
(* Select(): a part of a sequence.                                         *)

\* f has the parts selected from the first items of seq, up to m of them.
IsChosen(f, seq, keep, m) ==
  f = [n \in 0..m |->
         IF n = 0 THEN <<>>
         ELSE IF seq[n] \in keep THEN Append(f[n - 1], seq[n]) ELSE f[n - 1]]

LEMMA SelectDef ==
  ASSUME NEW seq, NEW keep
  PROVE  Select(seq, keep) = (CHOOSE f : IsChosen(f, seq, keep, Len(seq)))[Len(seq)]
BY DEF Select, IsChosen

LEMMA ChosenExists ==
  ASSUME NEW seq, NEW keep, NEW m \in Nat
  PROVE  \E f : IsChosen(f, seq, keep, m)
<1> DEFINE N == {n \in Nat : \E f : IsChosen(f, seq, keep, n)}
<1>1. 0 \in N
  <2>1. IsChosen([n \in 0..0 |-> <<>>], seq, keep, 0)
    BY DEF IsChosen
  <2> QED
    BY <2>1
<1>2. ASSUME NEW n \in Nat, n \in N PROVE n + 1 \in N
  <2>1. PICK f : IsChosen(f, seq, keep, n)
    BY <1>2
  <2> DEFINE g == [i \in 0..(n + 1) |->
                     IF i <= n THEN f[i]
                     ELSE IF seq[i] \in keep THEN Append(f[i - 1], seq[i]) ELSE f[i - 1]]
  <2>2. \A i \in 0..n : g[i] = f[i]
    OBVIOUS
  <2>3. \A i \in 0..n : f[i] = IF i = 0 THEN <<>>
                               ELSE IF seq[i] \in keep THEN Append(f[i - 1], seq[i])
                               ELSE f[i - 1]
    BY <2>1 DEF IsChosen
  <2>4. \A i \in 0..(n + 1) : g[i] = IF i = 0 THEN <<>>
                               ELSE IF seq[i] \in keep THEN Append(g[i - 1], seq[i])
                               ELSE g[i - 1]
    <3>1. ASSUME NEW i \in 0..(n + 1), i # 0 PROVE i - 1 \in 0..n
      BY <3>1
    <3> QED
      BY <2>2, <2>3, <3>1
  <2>5. IsChosen(g, seq, keep, n + 1)
    <3>1. g = [i \in 0..(n + 1) |-> g[i]]
      OBVIOUS
    <3> HIDE DEF g
    <3> QED
      BY <2>4, <3>1 DEF IsChosen
  <2> QED
    BY <2>5
<1> HIDE DEF N
<1>3. m \in N
  BY <1>1, <1>2, NumbersByInduction
<1> QED
  BY <1>3 DEF N

\* The items of part are those of the first n of seq that are in keep.
PartOf(part, seq, keep, n) ==
  /\ \A i \in 1..n : seq[i] \in keep => \E j \in 1..Len(part) : part[j] = seq[i]
  /\ \A j \in 1..Len(part) : part[j] \in keep
  /\ \E place \in [1..Len(part) -> 1..n] :
       IsInjective(place) /\ \A j \in 1..Len(part) : part[j] = seq[place[j]]

LEMMA PartGrows ==
  ASSUME NEW S, NEW seq \in Seq(S), NEW keep, NEW n \in Nat, n + 1 <= Len(seq),
         NEW part \in Seq(S), PartOf(part, seq, keep, n)
  PROVE  IF seq[n + 1] \in keep
         THEN /\ Append(part, seq[n + 1]) \in Seq(S)
              /\ PartOf(Append(part, seq[n + 1]), seq, keep, n + 1)
         ELSE PartOf(part, seq, keep, n + 1)
<1>1. PICK place \in [1..Len(part) -> 1..n] :
        IsInjective(place) /\ \A j \in 1..Len(part) : part[j] = seq[place[j]]
  BY DEF PartOf
<1>2. CASE seq[n + 1] \in keep
  <2> DEFINE longer == Append(part, seq[n + 1])
             places == [j \in 1..(Len(part) + 1) |-> IF j <= Len(part) THEN place[j] ELSE n + 1]
  <2>1. /\ longer \in Seq(S) /\ Len(longer) = Len(part) + 1
        /\ \A j \in 1..Len(part) : longer[j] = part[j]
        /\ longer[Len(part) + 1] = seq[n + 1]
    OBVIOUS
  <2> HIDE DEF longer
  <2>2. \A i \in 1..(n + 1) : seq[i] \in keep => \E j \in 1..Len(longer) : longer[j] = seq[i]
    BY <2>1 DEF PartOf
  <2>3. \A j \in 1..Len(longer) : longer[j] \in keep
    BY <1>2, <2>1 DEF PartOf
  <2>4. places \in [1..Len(longer) -> 1..(n + 1)]
    BY <2>1
  <2>5. IsInjective(places)
    BY <1>1 DEF IsInjective
  <2>6. \A j \in 1..Len(longer) : longer[j] = seq[places[j]]
    BY <1>1, <2>1
  <2>7. PartOf(longer, seq, keep, n + 1)
    <3> HIDE DEF places
    <3> QED
      BY <2>2, <2>3, <2>4, <2>5, <2>6 DEF PartOf
  <2> QED
    BY <1>2, <2>1, <2>7 DEF longer
<1>3. CASE seq[n + 1] \notin keep
  <2>1. place \in [1..Len(part) -> 1..(n + 1)]
    OBVIOUS
  <2>2. \A i \in 1..(n + 1) : seq[i] \in keep => i \in 1..n
    BY <1>3
  <2> QED
    BY <1>1, <1>3, <2>1, <2>2 DEF PartOf
<1> QED
  BY <1>2, <1>3

LEMMA SelectIsPart ==
  ASSUME NEW S, NEW seq \in Seq(S), NEW keep
  PROVE  /\ Select(seq, keep) \in Seq(S)
         /\ PartOf(Select(seq, keep), seq, keep, Len(seq))
<1> DEFINE f == CHOOSE f : IsChosen(f, seq, keep, Len(seq))
           N == {n \in Nat : n <= Len(seq) => f[n] \in Seq(S) /\ PartOf(f[n], seq, keep, n)}
<1>1. IsChosen(f, seq, keep, Len(seq))
  BY ChosenExists
<1>2. Select(seq, keep) = f[Len(seq)]
  BY SelectDef
<1> HIDE DEF f
<1>3. \A n \in 0..Len(seq) : f[n] = IF n = 0 THEN <<>>
                             ELSE IF seq[n] \in keep THEN Append(f[n - 1], seq[n]) ELSE f[n - 1]
  BY <1>1 DEF IsChosen
<1>4. 0 \in N
  <2>1. f[0] = <<>>
    BY <1>3
  <2>2. <<>> \in Seq(S) /\ Len(<<>>) = 0
    OBVIOUS
  <2>3. PartOf(<<>>, seq, keep, 0)
    <3> DEFINE place == [j \in 1..0 |-> 1]
    <3>1. place \in [1..0 -> 1..0] /\ IsInjective(place)
      BY DEF IsInjective
    <3>2. 1..0 = {}
      OBVIOUS
    <3> HIDE DEF place
    <3>3. PICK empty : empty = <<>> /\ Len(empty) = 0
      BY <2>2
    <3>4. PartOf(empty, seq, keep, 0)
      BY <3>1, <3>2, <3>3 DEF PartOf
    <3> QED
      BY <3>3, <3>4
  <2> QED
    BY <2>1, <2>2, <2>3
<1>5. ASSUME NEW n \in Nat, n \in N PROVE n + 1 \in N
  <2> SUFFICES ASSUME n + 1 <= Len(seq)
               PROVE  f[n + 1] \in Seq(S) /\ PartOf(f[n + 1], seq, keep, n + 1)
    OBVIOUS
  <2>1. f[n] \in Seq(S) /\ PartOf(f[n], seq, keep, n)
    BY <1>5
  <2>2. f[n + 1] = IF seq[n + 1] \in keep THEN Append(f[n], seq[n + 1]) ELSE f[n]
    BY <1>3
  <2> QED
    BY <2>1, <2>2, PartGrows
<1> HIDE DEF N
<1>6. Len(seq) \in N
  BY <1>4, <1>5, NumbersByInduction
<1> QED
  BY <1>2, <1>6 DEF N

\* The items of part are items of seq at different places.
Picked(part, seq) ==
  \E place \in [DOMAIN part -> DOMAIN seq] :
    IsInjective(place) /\ \A j \in DOMAIN part : part[j] = seq[place[j]]

\* What is selected, and that nothing is selected twice.
LEMMA SelectFacts ==
  ASSUME NEW S, NEW seq \in Seq(S), NEW keep
  PROVE  /\ Select(seq, keep) \in Seq(S)
         /\ ToSet(Select(seq, keep)) = ToSet(seq) \cap keep
         /\ Picked(Select(seq, keep), seq)
<1> DEFINE part == Select(seq, keep)
<1>1. part \in Seq(S) /\ PartOf(part, seq, keep, Len(seq))
  BY SelectIsPart
<1> HIDE DEF part
<1>2. DOMAIN part = 1..Len(part) /\ DOMAIN seq = 1..Len(seq)
  BY <1>1
<1>3. ToSet(part) \subseteq ToSet(seq) \cap keep
  BY <1>1, <1>2 DEF PartOf, ToSet
<1>4. ToSet(seq) \cap keep \subseteq ToSet(part)
  BY <1>1, <1>2 DEF PartOf, ToSet
<1> QED
  BY <1>1, <1>2, <1>3, <1>4 DEF PartOf, Picked, part

LEMMA FunctionIsSeq ==
  ASSUME NEW S, NEW n \in Nat, NEW f \in [1..n -> S]
  PROVE  f \in Seq(S) /\ Len(f) = n /\ DOMAIN f = 1..n
OBVIOUS

\* whole is s and then t.
Joined(whole, s, t) ==
  /\ Len(whole) = Len(s) + Len(t) /\ Len(s) \in Nat /\ Len(t) \in Nat
  /\ DOMAIN s = 1..Len(s) /\ DOMAIN t = 1..Len(t)
  /\ DOMAIN whole = 1..(Len(s) + Len(t))
  /\ \A i \in 1..Len(s) : whole[i] = s[i]
  /\ \A i \in (Len(s) + 1)..(Len(s) + Len(t)) :
       whole[i] = t[i - Len(s)] /\ i - Len(s) \in DOMAIN t

LEMMA ConcatFacts ==
  ASSUME NEW S, NEW s \in Seq(S), NEW t \in Seq(S)
  PROVE  s \o t \in Seq(S) /\ Joined(s \o t, s, t)
BY DEF Joined

-----------------------------------------------------------------------------
(* The context of a decision.                                              *)

LEMMA MaxOfTwo ==
  ASSUME NEW a \in Int, NEW b \in Int
  PROVE  Max({a, b}) \in {a, b} /\ Max({a, b}) >= a /\ Max({a, b}) >= b
<1>1. \E x \in {a, b} : \A y \in {a, b} : x >= y
  <2>1. CASE a >= b
    BY <2>1
  <2>2. CASE b >= a
    BY <2>2
  <2> QED
    BY <2>1, <2>2
<1>2. Max({a, b}) \in {a, b} /\ \A y \in {a, b} : Max({a, b}) >= y
  BY <1>1 DEF Max
<1> QED
  BY <1>2

LEMMA MinOfTwo ==
  ASSUME NEW a \in Int, NEW b \in Int
  PROVE  Min({a, b}) \in {a, b} /\ Min({a, b}) <= a /\ Min({a, b}) <= b
<1>1. \E x \in {a, b} : \A y \in {a, b} : x <= y
  <2>1. CASE a <= b
    BY <2>1
  <2>2. CASE b <= a
    BY <2>2
  <2> QED
    BY <2>1, <2>2
<1>2. Min({a, b}) \in {a, b} /\ \A y \in {a, b} : Min({a, b}) <= y
  BY <1>1 DEF Min
<1> QED
  BY <1>2

\* What a decision relies on: bars of the past, one position of a symbol, and an
\* account that is worth at least what any of its positions is.
GoodContext(ctx) ==
  /\ ctx.day \in Nat
  /\ \A s \in Symbols : ctx.bars[s] \in Seq(Bar)
  /\ \A s \in Symbols : \A i \in DOMAIN ctx.bars[s] :
       ctx.bars[s][i].day <= ctx.day /\ ctx.bars[s][i].close > 0
  /\ ctx.watchlist \in Seq(Symbols) /\ IsInjective(ctx.watchlist)
  /\ ctx.positions \in Seq(Position)
  /\ \A i, j \in DOMAIN ctx.positions :
       ctx.positions[i].symbol = ctx.positions[j].symbol => i = j
  /\ ctx.events \in Seq(Events)
  /\ ctx.cash \in Nat /\ ctx.equity \in Nat
  /\ \A p \in ToSet(ctx.positions) :
       HasBar(ctx, p.symbol) => p.qty * Latest(ctx, p.symbol).close <= ctx.equity

LEMMA BarsAreSeen ==
  ASSUME NEW ctx, NEW s \in Symbols, ctx.bars[s] \in Seq(Bar),
         \A i \in DOMAIN ctx.bars[s] : ctx.bars[s][i].day <= ctx.day
  PROVE  /\ HasBar(ctx, s) <=> ctx.bars[s] # <<>>
         /\ HasBar(ctx, s) => /\ Latest(ctx, s) = Last(ctx.bars[s])
                              /\ Len(ctx.bars[s]) \in DOMAIN ctx.bars[s]
<1> DEFINE known == ctx.bars[s]
           end == Len(known)
<1>1. known \in Seq(Bar) /\ DOMAIN known = 1..end /\ end \in Nat
  OBVIOUS
<1>2. VisibleEnd(ctx, s) = end
  <2>1. {i \in DOMAIN ctx.bars[s] : ctx.bars[s][i].day <= ctx.day} = 1..end
    BY <1>1
  <2>2. Cardinality(1..end) = end
    BY <1>1, FS_Interval
  <2> QED
    BY <2>1, <2>2 DEF VisibleEnd
<1>3. Max({1, end - 1 + 1}) \in Nat \ {0} /\ (end > 0 => Max({1, end - 1 + 1}) = end)
       /\ (end = 0 => Max({1, end - 1 + 1}) = 1)
  <2> HIDE DEF end
  <2>1. end - 1 + 1 = end /\ end \in Int /\ 1 \in Int
    BY <1>1
  <2>2. Max({1, end}) \in {1, end} /\ Max({1, end}) >= 1 /\ Max({1, end}) >= end
    BY <2>1, MaxOfTwo
  <2> QED
    BY <1>1, <2>1, <2>2
<1>4. CASE end > 0
  <2>1. History(ctx, s, 1) = SubSeq(known, end, end)
    BY <1>2, <1>3, <1>4 DEF History
  <2>2. Len(SubSeq(known, end, end)) = 1 /\ SubSeq(known, end, end)[1] = known[end]
    BY <1>1, <1>4
  <2> QED
    BY <1>1, <1>4, <2>1, <2>2 DEF HasBar, Latest, Last
<1>5. CASE end = 0
  <2>1. History(ctx, s, 1) = SubSeq(known, 1, 0)
    BY <1>2, <1>3, <1>5 DEF History
  <2>2. SubSeq(known, 1, 0) = <<>> /\ known = <<>>
    BY <1>1, <1>5
  <2> QED
    BY <2>1, <2>2 DEF HasBar
<1> QED
  BY <1>1, <1>4, <1>5

LEMMA LatestClose ==
  ASSUME NEW ctx, GoodContext(ctx), NEW s \in Symbols, HasBar(ctx, s)
  PROVE  Latest(ctx, s).close \in Nat \ {0}
<1>1. /\ ctx.bars[s] \in Seq(Bar)
      /\ \A i \in DOMAIN ctx.bars[s] : ctx.bars[s][i].day <= ctx.day /\ ctx.bars[s][i].close > 0
  BY DEF GoodContext
<1>2. Latest(ctx, s) = Last(ctx.bars[s]) /\ Len(ctx.bars[s]) \in DOMAIN ctx.bars[s]
  BY <1>1, BarsAreSeen
<1>3. Last(ctx.bars[s]) = ctx.bars[s][Len(ctx.bars[s])]
  BY DEF Last
<1>4. Last(ctx.bars[s]) \in Bar /\ Last(ctx.bars[s]).close > 0
  BY <1>1, <1>2, <1>3
<1> QED
  BY <1>2, <1>4 DEF Bar

LEMMA HeldPosition ==
  ASSUME NEW ctx, GoodContext(ctx), NEW s \in HeldSymbols(ctx)
  PROVE  /\ PositionOf(ctx, s) \in ToSet(ctx.positions)
         /\ PositionOf(ctx, s) \in Position /\ PositionOf(ctx, s).symbol = s
         /\ s \in Symbols
         /\ \A p \in ToSet(ctx.positions) : p.symbol = s => p = PositionOf(ctx, s)
<1>1. \E p \in ToSet(ctx.positions) : p.symbol = s
  BY DEF HeldSymbols
<1>2. PositionOf(ctx, s) \in ToSet(ctx.positions) /\ PositionOf(ctx, s).symbol = s
  BY <1>1 DEF PositionOf
<1>3. \A p \in ToSet(ctx.positions) : p \in Position
  BY DEF GoodContext, ToSet
<1>4. \A p, q \in ToSet(ctx.positions) : p.symbol = q.symbol => p = q
  BY DEF GoodContext, ToSet
<1>5. s \in Symbols
  BY <1>2, <1>3 DEF Position
<1> QED
  BY <1>2, <1>3, <1>4, <1>5

-----------------------------------------------------------------------------
(* What is wanted: BuildTarget().                                          *)

TargetItem ==
  [symbol : Symbols, weight : Nat, event : Events \cup {None}, rule : ExitRule \cup {None}]

\* There is a reason to sell p: its exit rule, or the watchlist dropped it.
Due(p, ctx, config) ==
  \/ Evaluate(p, History(ctx, p.symbol, config.history), ctx.day, ctx.barsLeft) # None
  \/ config.exitWhenDropped /\ p.symbol \notin ToSet(ctx.watchlist)

LEMMA EntryWeightIsPositive ==
  ASSUME NEW ctx, GoodContext(ctx), NEW config, CycleConfig(config)
  PROVE  EntryWeight(ctx, config) \in Nat \ {0} /\ Scale(ctx) \in Nat \ {0}
<1>1. ctx.equity \in Int /\ 1 \in Int
  BY DEF GoodContext
<1>2. Scale(ctx) \in Nat \ {0}
  <2>1. Max({ctx.equity, 1}) \in {ctx.equity, 1} /\ Max({ctx.equity, 1}) >= 1
    BY <1>1, MaxOfTwo
  <2> QED
    BY <1>1, <2>1 DEF Scale
<1>3. config.entryWeight \in Nat \ {0}
  BY DEF CycleConfig
<1>4. \A a, b \in Nat \ {0} : a * b \in Nat \ {0}
  OBVIOUS
<1> QED
  BY <1>2, <1>3, <1>4 DEF EntryWeight

\* A position that is kept keeps its shares: its weight buys no fewer of them.
LEMMA WeightCoversPosition ==
  ASSUME NEW ctx, GoodContext(ctx), NEW config, CycleConfig(config),
         NEW p \in ToSet(ctx.positions)
  PROVE  /\ CurrentWeight(p, ctx, config) \in Nat \ {0}
         /\ (ctx.equity > 0 /\ HasBar(ctx, p.symbol)) =>
              (CurrentWeight(p, ctx, config) \div 100)
                \div Latest(ctx, p.symbol).close >= p.qty
<1>1. EntryWeight(ctx, config) \in Nat \ {0}
  BY EntryWeightIsPositive
<1>2. CASE ctx.equity <= 0 \/ ~HasBar(ctx, p.symbol)
  BY <1>1, <1>2 DEF CurrentWeight, GoodContext
<1>3. CASE ctx.equity > 0 /\ HasBar(ctx, p.symbol)
  <2> DEFINE close == Latest(ctx, p.symbol).close
             worth == p.qty * close
             least == Min({(p.qty * close + close - 1) * 100, 100 * ctx.equity})
             weight == CurrentWeight(p, ctx, config)
  <2>1. p \in Position
    BY DEF GoodContext, ToSet
  <2>2. p.qty \in Nat \ {0} /\ p.symbol \in Symbols
    BY <2>1 DEF Position
  <2>3. close \in Nat \ {0}
    BY <1>3, <2>2, LatestClose
  <2>4. worth <= ctx.equity /\ ctx.equity \in Nat
    BY <1>3 DEF GoodContext
  <2>5. weight = Max({EntryWeight(ctx, config), least})
    BY <1>3, <2>4 DEF CurrentWeight
  <2> HIDE DEF close
  <2>6. worth \in Nat
    BY <2>2, <2>3
  <2>7. least \in Nat /\ least >= worth * 100
    <3>1. (worth + close - 1) * 100 \in Int /\ 100 * ctx.equity \in Int
      BY <2>3, <2>4, <2>6
    <3>2. least \in {(worth + close - 1) * 100, 100 * ctx.equity}
      BY <3>1, MinOfTwo
    <3> HIDE DEF least, worth
    <3> QED
      BY <2>3, <2>4, <2>6, <3>2
  <2> HIDE DEF least, weight
  <2>8. weight \in Nat \ {0} /\ weight >= least
    <3>1. EntryWeight(ctx, config) \in Int /\ least \in Int
      BY <1>1, <2>7
    <3> DEFINE entry == EntryWeight(ctx, config)
    <3>2. Max({entry, least}) \in {entry, least} /\ Max({entry, least}) >= least
      BY <3>1, MaxOfTwo
    <3> HIDE DEF entry
    <3>3. weight \in {entry, least} /\ weight >= least
      BY <2>5, <3>2 DEF entry
    <3>4. entry \in Nat \ {0} /\ weight >= entry
      <4>1. Max({entry, least}) >= entry
        BY <3>1, MaxOfTwo DEF entry
      <4> QED
        BY <1>1, <2>5, <4>1 DEF entry
    <3> QED
      BY <2>7, <3>3, <3>4
  <2>9. weight >= worth * 100
    <3> HIDE DEF worth
    <3> QED
      BY <2>6, <2>7, <2>8
  <2>10. weight \div 100 \in Nat /\ weight \div 100 >= worth
    <3> HIDE DEF worth
    <3> QED
      BY <2>6, <2>8, <2>9
  <2>11. \A a, c, q \in Nat : (c > 0 /\ a >= q * c) => a \div c >= q
    <3>1. ASSUME NEW a \in Nat, NEW c \in Nat, NEW q \in Nat, c > 0, a >= q * c
          PROVE  a \div c >= q
      <4> DEFINE d == a \div c
      <4>1. d \in Nat /\ a < (d + 1) * c
        BY <3>1
      <4> HIDE DEF d
      <4>2. ASSUME d + 1 <= q PROVE FALSE
        <5>1. (d + 1) * c <= q * c
          BY <3>1, <4>1, <4>2
        <5> QED
          BY <3>1, <4>1, <5>1
      <4> QED
        BY <4>1, <4>2 DEF d
    <3> QED
      BY <3>1
  <2>12. (weight \div 100) \div close >= p.qty
    BY <2>2, <2>3, <2>10, <2>11
  <2> QED
    BY <2>8, <2>12 DEF weight, close
<1> QED
  BY <1>2, <1>3 DEF GoodContext

LEMMA HeldItemFacts ==
  ASSUME NEW ctx, GoodContext(ctx), NEW config, CycleConfig(config),
         NEW p \in ToSet(ctx.positions)
  PROVE  /\ HeldItem(p, ctx, config) \in TargetItem
         /\ HeldItem(p, ctx, config).symbol = p.symbol
         /\ HeldItem(p, ctx, config).event = p.event
         /\ Due(p, ctx, config) => HeldItem(p, ctx, config).weight = 0
         /\ ~Due(p, ctx, config) =>
              /\ HeldItem(p, ctx, config).weight = CurrentWeight(p, ctx, config)
              /\ HeldItem(p, ctx, config).rule = p.rule
<1>1. p \in Position
  BY DEF GoodContext, ToSet
<1>2. CurrentWeight(p, ctx, config) \in Nat
  BY WeightCoversPosition
<1>3. HeldItem(p, ctx, config) =
        IF Due(p, ctx, config) THEN Item(p.symbol, 0, p.event, None)
        ELSE Item(p.symbol, CurrentWeight(p, ctx, config), p.event, p.rule)
  BY DEF HeldItem, Due
<1> QED
  BY <1>1, <1>2, <1>3 DEF Item, TargetItem, Position

\* One of several numbered candidates comes first: the highest r, then the
\* lowest number.
LEMMA FirstOf ==
  ASSUME NEW S, S \subseteq Nat, IsFiniteSet(S), S # {}, NEW r, \A x \in S : r[x] \in Nat
  PROVE  \E x \in S : \A y \in S : r[y] < r[x] \/ (r[y] = r[x] /\ x <= y)
<1> DEFINE First(x, T) == \A y \in T : r[y] < r[x] \/ (r[y] = r[x] /\ x <= y)
           N == {n \in Nat : \A T \in SUBSET S :
                   (Cardinality(T) = n /\ T # {}) => \E x \in T : First(x, T)}
<1>1. \A T \in SUBSET S : IsFiniteSet(T) /\ Cardinality(T) \in Nat
  BY FS_Subset, FS_CardinalityType
<1>2. 0 \in N
  BY <1>1, FS_EmptySet
<1>3. ASSUME NEW n \in Nat, n \in N PROVE n + 1 \in N
  <2>1. ASSUME NEW T \in SUBSET S, Cardinality(T) = n + 1, T # {}
        PROVE  \E x \in T : First(x, T)
    <3>1. PICK z \in T : TRUE
      BY <2>1
    <3>2. Cardinality(T \ {z}) = n /\ T \ {z} \in SUBSET S
      BY <1>1, <2>1, OneLess
    <3>3. CASE T \ {z} = {}
      BY <3>1, <3>3
    <3>4. CASE T \ {z} # {}
      <4>1. PICK x \in T \ {z} : First(x, T \ {z})
        BY <1>3, <3>2, <3>4
      <4>2. x \in Nat /\ z \in Nat /\ r[x] \in Nat /\ r[z] \in Nat
        OBVIOUS
      <4>3. CASE r[z] < r[x] \/ (r[z] = r[x] /\ x <= z)
        BY <4>1, <4>3
      <4>4. CASE ~(r[z] < r[x] \/ (r[z] = r[x] /\ x <= z))
        <5>1. First(z, T)
          <6> SUFFICES ASSUME NEW y \in T
                       PROVE  r[y] < r[z] \/ (r[y] = r[z] /\ z <= y)
            OBVIOUS
          <6>1. y \in Nat /\ r[y] \in Nat
            OBVIOUS
          <6>2. y = z \/ r[y] < r[x] \/ (r[y] = r[x] /\ x <= y)
            BY <4>1
          <6> QED
            BY <4>2, <4>4, <6>1, <6>2
        <5> QED
          BY <5>1
      <4> QED
        BY <4>3, <4>4
    <3> QED
      BY <3>3, <3>4
  <2> QED
    BY <2>1
<1> HIDE DEF N
<1>4. Cardinality(S) \in N
  BY <1>1, <1>2, <1>3, NumbersByInduction
<1> QED
  BY <1>4 DEF N

\* The place of s among the candidates: the number of those before it, and one.
Before(S, r, s) == {t \in S : r[t] > r[s] \/ (r[t] = r[s] /\ t < s)}

\* Every place is taken, by one candidate.
LEMMA PlacesAreTaken ==
  ASSUME NEW S, S \subseteq Nat, IsFiniteSet(S), NEW r, \A s \in S : r[s] \in Nat,
         NEW i \in 1..Cardinality(S)
  PROVE  \E s \in S : Cardinality(Before(S, r, s)) + 1 = i
<1> DEFINE m == Cardinality(S)
           place == [s \in S |-> Cardinality(Before(S, r, s)) + 1]
<1>1. m \in Nat
  BY FS_CardinalityType
<1>2. ASSUME NEW s \in S PROVE place[s] \in 1..m
  <2>1. Before(S, r, s) \subseteq S \ {s}
    BY DEF Before
  <2>2. IsFiniteSet(S \ {s}) /\ Cardinality(S \ {s}) = m - 1
    BY OneLess
  <2>3. IsFiniteSet(Before(S, r, s)) /\ Cardinality(Before(S, r, s)) <= m - 1
    BY <2>1, <2>2, FS_Subset
  <2>4. Cardinality(Before(S, r, s)) \in Nat
    BY <2>3, FS_CardinalityType
  <2> HIDE DEF m
  <2> QED
    BY <1>1, <2>3, <2>4
<1>3. ASSUME NEW s \in S, NEW t \in S, s \in Before(S, r, t) PROVE place[s] < place[t]
  <2>1. Before(S, r, s) \subseteq Before(S, r, t) \ {s}
    <3> SUFFICES ASSUME NEW u \in Before(S, r, s) PROVE u \in Before(S, r, t) /\ u # s
      OBVIOUS
    <3>1. u \in S /\ (r[u] > r[s] \/ (r[u] = r[s] /\ u < s))
      BY DEF Before
    <3>2. r[s] > r[t] \/ (r[s] = r[t] /\ s < t)
      BY <1>3 DEF Before
    <3>3. /\ r[u] \in Int /\ r[s] \in Int /\ r[t] \in Int
          /\ u \in Int /\ s \in Int /\ t \in Int
      BY <3>1
    <3>4. r[u] > r[t] \/ (r[u] = r[t] /\ u < t)
      BY <3>1, <3>2, <3>3
    <3> QED
      BY <3>1, <3>3, <3>4 DEF Before
  <2>2. IsFiniteSet(Before(S, r, t))
    BY FS_Subset DEF Before
  <2>3. /\ IsFiniteSet(Before(S, r, t) \ {s}) /\ Cardinality(Before(S, r, t)) \in Nat
        /\ Cardinality(Before(S, r, t) \ {s}) = Cardinality(Before(S, r, t)) - 1
    BY <1>3, <2>2, OneLess
  <2>4. /\ IsFiniteSet(Before(S, r, s))
        /\ Cardinality(Before(S, r, s)) <= Cardinality(Before(S, r, t) \ {s})
    BY <2>1, <2>3, FS_Subset
  <2>5. Cardinality(Before(S, r, s)) \in Nat
    BY <2>4, FS_CardinalityType
  <2> QED
    BY <2>3, <2>4, <2>5
<1>4. \A s, t \in S : s \in Before(S, r, t) \/ t \in Before(S, r, s) \/ s = t
  BY DEF Before
<1>5. place \in [S -> 1..m]
  BY <1>2
<1>6. IsInjective(place)
  <2> SUFFICES ASSUME NEW s \in S, NEW t \in S, place[s] = place[t] PROVE s = t
    BY DEF IsInjective
  <2>1. place[s] \in Int
    BY <1>1, <1>2
  <2> HIDE DEF place
  <2> QED
    BY <1>3, <1>4, <2>1
<1>7. IsFiniteSet(1..m) /\ Cardinality(1..m) = m
  BY <1>1, FS_Interval
<1> HIDE DEF place, m
<1>8. place \in Injection(S, 1..m)
  BY <1>5, <1>6 DEF Injection
<1>9. place \in Surjection(S, 1..m)
  BY <1>7, <1>8, FS_Injection DEF m
<1>10. \E s \in S : place[s] = i
  BY <1>9 DEF Surjection, m
<1> QED
  BY <1>10 DEF place

LEMMA BestSignalExists ==
  ASSUME NEW ctx, GoodContext(ctx), NEW s, Signals(ctx, s) # {}
  PROVE  BestSignal(ctx, s) \in Signals(ctx, s) /\ Confidence(ctx, BestSignal(ctx, s)) \in Nat
<1> DEFINE r == [i \in DOMAIN ctx.events |-> Confidence(ctx, i)]
<1>1. ctx.events \in Seq(Events) /\ DOMAIN ctx.events = 1..Len(ctx.events)
  BY DEF GoodContext
<1>2. /\ Signals(ctx, s) \subseteq DOMAIN ctx.events /\ Signals(ctx, s) \subseteq Nat
      /\ IsFiniteSet(Signals(ctx, s))
  <2>1. Signals(ctx, s) \subseteq 1..Len(ctx.events)
    BY <1>1 DEF Signals
  <2>2. IsFiniteSet(1..Len(ctx.events))
    BY <1>1, FS_Interval
  <2>3. IsFiniteSet(Signals(ctx, s))
    BY <2>1, <2>2, FS_Subset
  <2> QED
    BY <1>1, <2>1, <2>3
<1>3. \A i \in DOMAIN ctx.events : ctx.events[i] \in Events
  BY <1>1
<1>4. \A i \in Signals(ctx, s) : r[i] = Confidence(ctx, i) /\ r[i] \in Nat
  BY <1>2, <1>3, JudgmentAssumption DEF Confidence
<1> HIDE DEF r
<1>5. PICK i \in Signals(ctx, s) :
        \A j \in Signals(ctx, s) : r[j] < r[i] \/ (r[j] = r[i] /\ i <= j)
  BY <1>2, <1>4, FirstOf
<1>6. \A j \in Signals(ctx, s) :
        \/ Confidence(ctx, j) < Confidence(ctx, i)
        \/ Confidence(ctx, j) = Confidence(ctx, i) /\ i <= j
  BY <1>4, <1>5
<1>7. BestSignal(ctx, s) \in Signals(ctx, s)
  BY <1>6 DEF BestSignal
<1> QED
  BY <1>4, <1>7

SymbolsDiffer(seq) ==
  \A i, j \in DOMAIN seq : seq[i].symbol = seq[j].symbol => i = j

\* An item that would open a position.
NewItems(ctx) ==
  {item \in TargetItem : item.symbol \notin HeldSymbols(ctx) /\ item.rule \in ExitRule}

LEMMA EventEntriesAreNew ==
  ASSUME NEW ctx, GoodContext(ctx), NEW config, CycleConfig(config)
  PROVE  /\ EventEntries(ctx, config) \in Seq(NewItems(ctx))
         /\ SymbolsDiffer(EventEntries(ctx, config))
<1> DEFINE wanted == {s \in ToSet(ctx.watchlist) \ HeldSymbols(ctx) : Signals(ctx, s) # {}}
           rank(s) == Confidence(ctx, BestSignal(ctx, s))
           entry(s) == Item(s, EntryWeight(ctx, config), ctx.events[BestSignal(ctx, s)],
                            Judgment[ctx.events[BestSignal(ctx, s)]].rule)
           before(s) == {t \in wanted : rank(t) > rank(s) \/ (rank(t) = rank(s) /\ t < s)}
           place(s) == Cardinality(before(s)) + 1
           taker(i) == CHOOSE s \in wanted : place(s) = i
           m == Cardinality(wanted)
<1>1. EventEntries(ctx, config) = [i \in 1..m |-> entry(taker(i))]
  BY DEF EventEntries
<1>2. ToSet(ctx.watchlist) \subseteq Symbols
  BY DEF GoodContext, ToSet
<1>3. wanted \subseteq Symbols /\ wanted \subseteq Nat /\ IsFiniteSet(wanted) /\ m \in Nat
  <2>1. wanted \subseteq Symbols
    BY <1>2
  <2>2. IsFiniteSet(wanted)
    BY <2>1, JudgmentAssumption, FS_Subset
  <2> HIDE DEF wanted
  <2> QED
    BY <2>1, <2>2, JudgmentAssumption, FS_CardinalityType
<1>4. \A s \in wanted : BestSignal(ctx, s) \in Signals(ctx, s) /\ rank(s) \in Nat
  BY BestSignalExists
<1>5. ASSUME NEW s \in wanted PROVE entry(s) \in NewItems(ctx) /\ entry(s).symbol = s
  <2> DEFINE e == ctx.events[BestSignal(ctx, s)]
  <2>1. BestSignal(ctx, s) \in DOMAIN ctx.events /\ Judgment[e].verdict
    BY <1>4 DEF Signals
  <2>2. e \in Events
    BY <2>1 DEF GoodContext
  <2>3. Judgment[e].rule \in ExitRule
    BY <2>1, <2>2, JudgmentAssumption
  <2>4. EntryWeight(ctx, config) \in Nat
    BY EntryWeightIsPositive
  <2>5. s \in Symbols \ HeldSymbols(ctx)
    BY <1>3
  <2> HIDE DEF e, wanted
  <2>6. entry(s) = Item(s, EntryWeight(ctx, config), e, Judgment[e].rule)
    BY DEF e
  <2> HIDE DEF entry
  <2> QED
    BY <2>2, <2>3, <2>4, <2>5, <2>6 DEF Item, NewItems, TargetItem
<1>6. ASSUME NEW i \in 1..m PROVE \E s \in wanted : place(s) = i
  <2> DEFINE r == [s \in wanted |-> rank(s)]
  <2>1. \A s \in wanted : r[s] = rank(s) /\ r[s] \in Nat
    BY <1>4
  <2> HIDE DEF wanted, rank, r
  <2>2. PICK s \in wanted : Cardinality(Before(wanted, r, s)) + 1 = i
    BY <1>3, <2>1, PlacesAreTaken
  <2>3. Before(wanted, r, s) = before(s)
    BY <2>1 DEF Before
  <2> QED
    BY <2>2, <2>3
<1> HIDE DEF wanted, entry, place
<1>7. \A i \in 1..m : taker(i) \in wanted /\ place(taker(i)) = i
  BY <1>6
<1> HIDE DEF taker, m
<1>8. EventEntries(ctx, config) \in Seq(NewItems(ctx))
  <2>1. EventEntries(ctx, config) \in [1..m -> NewItems(ctx)]
    BY <1>1, <1>5, <1>7
  <2>2. m \in Nat
    BY <1>3 DEF m
  <2> QED
    BY <2>1, <2>2, FunctionIsSeq
<1>9. SymbolsDiffer(EventEntries(ctx, config))
  <2> SUFFICES ASSUME NEW i \in 1..m, NEW j \in 1..m,
                      entry(taker(i)).symbol = entry(taker(j)).symbol
               PROVE  i = j
    BY <1>1 DEF SymbolsDiffer
  <2>1. taker(i) = taker(j)
    BY <1>5, <1>7
  <2> QED
    BY <1>7, <2>1
<1> QED
  BY <1>8, <1>9

LEMMA WatchlistEntriesAreNew ==
  ASSUME NEW ctx, GoodContext(ctx), NEW config, CycleConfig(config)
  PROVE  /\ WatchlistEntries(ctx, config) \in Seq(NewItems(ctx))
         /\ SymbolsDiffer(WatchlistEntries(ctx, config))
<1> DEFINE wanted == Select(ctx.watchlist, Symbols \ HeldSymbols(ctx))
           entry(s) == Item(s, EntryWeight(ctx, config), None, config.rule)
<1>1. ctx.watchlist \in Seq(Symbols) /\ IsInjective(ctx.watchlist)
  BY DEF GoodContext
<1>2. /\ wanted \in Seq(Symbols) /\ ToSet(wanted) \subseteq Symbols \ HeldSymbols(ctx)
      /\ Picked(wanted, ctx.watchlist)
  BY <1>1, SelectFacts
<1>3. PICK place \in [DOMAIN wanted -> DOMAIN ctx.watchlist] :
        IsInjective(place) /\ \A j \in DOMAIN wanted : wanted[j] = ctx.watchlist[place[j]]
  <2> HIDE DEF wanted
  <2> QED
    BY <1>2 DEF Picked
<1>4. WatchlistEntries(ctx, config) = [i \in DOMAIN wanted |-> entry(wanted[i])]
  BY DEF WatchlistEntries
<1> HIDE DEF wanted
<1>5. \A i \in DOMAIN wanted : wanted[i] \in Symbols \ HeldSymbols(ctx)
  BY <1>2 DEF ToSet
<1>6. \A s \in Symbols \ HeldSymbols(ctx) : entry(s) \in NewItems(ctx) /\ entry(s).symbol = s
  BY EntryWeightIsPositive DEF Item, NewItems, TargetItem, CycleConfig
<1> HIDE DEF entry
<1>7. WatchlistEntries(ctx, config) \in Seq(NewItems(ctx))
  <2>1. DOMAIN wanted = 1..Len(wanted) /\ Len(wanted) \in Nat
    BY <1>2
  <2> QED
    BY <1>4, <1>5, <1>6, <2>1
<1>8. SymbolsDiffer(WatchlistEntries(ctx, config))
  <2> SUFFICES ASSUME NEW i \in DOMAIN wanted, NEW j \in DOMAIN wanted,
                      entry(wanted[i]).symbol = entry(wanted[j]).symbol
               PROVE  i = j
    BY <1>4 DEF SymbolsDiffer
  <2>1. wanted[i] = wanted[j]
    BY <1>5, <1>6
  <2>2. place[i] = place[j]
    BY <1>1, <1>3, <2>1 DEF IsInjective
  <2> QED
    BY <1>3, <2>2 DEF IsInjective
<1> QED
  BY <1>7, <1>8

\* What the target has of every position and of the other symbols.
TargetOf(target, ctx, config) ==
  /\ target \in Seq(TargetItem) /\ SymbolsDiffer(target)
  /\ \A i \in DOMAIN target :
       IF target[i].symbol \in HeldSymbols(ctx)
       THEN target[i] = HeldItem(PositionOf(ctx, target[i].symbol), ctx, config)
       ELSE target[i].rule \in ExitRule
  /\ \A s \in HeldSymbols(ctx) : \E i \in DOMAIN target : target[i].symbol = s

LEMMA BuildTargetFacts ==
  ASSUME NEW ctx, GoodContext(ctx), NEW config, CycleConfig(config)
  PROVE  TargetOf(BuildTarget(ctx, config), ctx, config)
<1> DEFINE held == [i \in DOMAIN ctx.positions |-> HeldItem(ctx.positions[i], ctx, config)]
           new == IF config.trigger = "event" THEN EventEntries(ctx, config)
                  ELSE WatchlistEntries(ctx, config)
           n == Len(ctx.positions)
           target == BuildTarget(ctx, config)
<1>1. ctx.positions \in Seq(Position) /\ DOMAIN ctx.positions = 1..n /\ n \in Nat
  BY DEF GoodContext
<1>2. \A i \in 1..n : ctx.positions[i] \in ToSet(ctx.positions)
  BY <1>1 DEF ToSet
<1>3. \A i \in 1..n : /\ held[i] \in TargetItem /\ held[i].symbol = ctx.positions[i].symbol
                      /\ held[i].symbol \in HeldSymbols(ctx)
                      /\ held[i] = HeldItem(PositionOf(ctx, held[i].symbol), ctx, config)
  <2> SUFFICES ASSUME NEW i \in 1..n
               PROVE  /\ HeldItem(ctx.positions[i], ctx, config) \in TargetItem
                      /\ HeldItem(ctx.positions[i], ctx, config).symbol
                           = ctx.positions[i].symbol
                      /\ ctx.positions[i].symbol \in HeldSymbols(ctx)
                      /\ ctx.positions[i] = PositionOf(ctx, ctx.positions[i].symbol)
    BY <1>1
  <2>1. ctx.positions[i] \in ToSet(ctx.positions)
    BY <1>2
  <2>2. ctx.positions[i].symbol \in HeldSymbols(ctx)
    BY <2>1 DEF HeldSymbols
  <2> QED
    BY <2>1, <2>2, HeldItemFacts, HeldPosition
<1>4. held \in Seq(TargetItem) /\ Len(held) = n
  <2>1. held \in [1..n -> TargetItem]
    <3>1. held = [i \in 1..n |-> held[i]]
      BY <1>1
    <3> HIDE DEF held
    <3> QED
      BY <1>3, <3>1
  <2> HIDE DEF held
  <2> QED
    BY <1>1, <2>1, FunctionIsSeq
<1>5. new \in Seq(NewItems(ctx)) /\ SymbolsDiffer(new)
  BY EventEntriesAreNew, WatchlistEntriesAreNew
<1>6. target = held \o new
  BY DEF BuildTarget
<1> HIDE DEF held, new, target
<1>7. new \in Seq(TargetItem)
  BY <1>5 DEF NewItems
<1>8. /\ target \in Seq(TargetItem) /\ Len(target) = n + Len(new)
      /\ DOMAIN target = 1..(n + Len(new))
      /\ \A i \in 1..n : target[i] = held[i]
      /\ \A i \in (n + 1)..(n + Len(new)) : target[i] = new[i - n] /\ i - n \in DOMAIN new
  <2>1. held \o new \in Seq(TargetItem) /\ Joined(held \o new, held, new)
    BY <1>4, <1>7, ConcatFacts
  <2> HIDE DEF n
  <2>2. target \in Seq(TargetItem) /\ Joined(target, held, new)
    BY <1>6, <2>1, Zenon
  <2> QED
    BY <1>4, <2>2 DEF Joined
<1>9. \A i \in DOMAIN new : new[i].symbol \notin HeldSymbols(ctx) /\ new[i].rule \in ExitRule
  BY <1>5 DEF NewItems
<1>10. \A i \in DOMAIN target : i \in 1..n \/ i \in (n + 1)..(n + Len(new))
  BY <1>1, <1>7, <1>8
<1> HIDE DEF n
<1>11. SymbolsDiffer(target)
  <2> SUFFICES ASSUME NEW i \in DOMAIN target, NEW j \in DOMAIN target,
                      target[i].symbol = target[j].symbol
               PROVE  i = j
    BY DEF SymbolsDiffer
  <2>1. CASE i \in 1..n
    <3>1. target[j].symbol \in HeldSymbols(ctx)
      BY <1>3, <1>8, <2>1
    <3>2. j \in 1..n
      BY <1>8, <1>9, <1>10, <3>1
    <3> QED
      BY <1>1, <1>3, <1>8, <2>1, <3>2 DEF GoodContext
  <2>2. CASE i \in (n + 1)..(n + Len(new))
    <3>1. target[j].symbol \notin HeldSymbols(ctx)
      BY <1>8, <1>9, <2>2
    <3>2. j \in (n + 1)..(n + Len(new))
      BY <1>3, <1>8, <1>10, <3>1
    <3>3. i - n = j - n
      BY <1>5, <1>8, <2>2, <3>2 DEF SymbolsDiffer
    <3> QED
      BY <1>1, <2>2, <3>2, <3>3
  <2> QED
    BY <1>10, <2>1, <2>2
<1>12. \A i \in DOMAIN target :
         IF target[i].symbol \in HeldSymbols(ctx)
         THEN target[i] = HeldItem(PositionOf(ctx, target[i].symbol), ctx, config)
         ELSE target[i].rule \in ExitRule
  BY <1>3, <1>8, <1>9, <1>10
<1>13. ASSUME NEW s \in HeldSymbols(ctx) PROVE \E i \in DOMAIN target : target[i].symbol = s
  <2>1. PICK i \in 1..n : ctx.positions[i].symbol = s
    BY <1>1 DEF HeldSymbols, ToSet
  <2>2. i \in DOMAIN target
    BY <1>1, <1>7, <1>8
  <2> QED
    BY <1>3, <1>8, <2>1, <2>2
<1> QED
  BY <1>8, <1>11, <1>12, <1>13 DEF TargetOf, target

-----------------------------------------------------------------------------
(* What may pass: Gate() and ApplyKillSwitch().                            *)

\* The gate after the first n items of the target.
GateAt(passed, target, n, ctx, config) ==
  /\ passed.kept \in Seq(TargetItem) /\ SymbolsDiffer(passed.kept)
  /\ UsedEvents(ctx) \subseteq passed.used
  /\ \A j \in DOMAIN passed.kept : \E i \in 1..n :
       /\ passed.kept[j].symbol = target[i].symbol
       /\ passed.kept[j].rule = target[i].rule
       /\ target[i].symbol \in HeldSymbols(ctx) => passed.kept[j] = target[i]
  /\ \A i \in 1..n : target[i].symbol \in HeldSymbols(ctx) =>
       \E j \in DOMAIN passed.kept : passed.kept[j] = target[i]
  /\ \A j \in DOMAIN passed.kept : passed.kept[j].symbol \notin HeldSymbols(ctx) =>
       /\ ~InCooldown(passed.kept[j].symbol, ctx, config)
       /\ passed.kept[j].event # None =>
            passed.kept[j].event \in passed.used \ UsedEvents(ctx)
  /\ \A j, k \in DOMAIN passed.kept :
       (/\ passed.kept[j].symbol \notin HeldSymbols(ctx)
        /\ passed.kept[k].symbol \notin HeldSymbols(ctx)
        /\ passed.kept[j].event # None /\ passed.kept[j].event = passed.kept[k].event)
       => j = k

LEMMA AppendFacts ==
  ASSUME NEW S, NEW s \in Seq(S), NEW x \in S
  PROVE  /\ Append(s, x) \in Seq(S)
         /\ Len(Append(s, x)) = Len(s) + 1 /\ Len(s) \in Nat
         /\ DOMAIN s = 1..Len(s) /\ DOMAIN Append(s, x) = 1..(Len(s) + 1)
         /\ \A j \in DOMAIN s : Append(s, x)[j] = s[j]
         /\ Append(s, x)[Len(s) + 1] = x
OBVIOUS

\* The gate lets one more item of the target pass.
LEMMA GateGrows ==
  ASSUME NEW ctx, NEW config, NEW target, TargetOf(target, ctx, config),
         NEW n \in Nat, n + 1 <= Len(target),
         NEW passed, GateAt(passed, target, n, ctx, config),
         NEW item \in TargetItem, NEW next,
         next.kept = Append(passed.kept, item), passed.used \subseteq next.used,
         item.symbol = target[n + 1].symbol, item.rule = target[n + 1].rule,
         item.symbol \in HeldSymbols(ctx) => item = target[n + 1],
         item.symbol \notin HeldSymbols(ctx) =>
           /\ ~InCooldown(item.symbol, ctx, config)
           /\ item.event # None => item.event \in next.used \ passed.used
  PROVE  GateAt(next, target, n + 1, ctx, config)
<1> DEFINE kept == passed.kept
           longer == next.kept
           m == Len(kept)
<1>1. kept \in Seq(TargetItem) /\ SymbolsDiffer(kept) /\ UsedEvents(ctx) \subseteq passed.used
  BY DEF GateAt
<1>2. /\ longer \in Seq(TargetItem) /\ m \in Nat
      /\ DOMAIN kept = 1..m /\ DOMAIN longer = 1..(m + 1)
      /\ \A j \in 1..m : longer[j] = kept[j]
      /\ longer[m + 1] = item
  <2> HIDE DEF kept
  <2>1. longer = Append(kept, item)
    BY DEF kept
  <2> HIDE DEF longer
  <2> QED
    BY <1>1, <2>1, AppendFacts
<1>3. DOMAIN target = 1..Len(target) /\ Len(target) \in Nat
  BY DEF TargetOf
<1> HIDE DEF kept, longer, m
<1>4. \A j \in 1..(m + 1) : j \in 1..m \/ j = m + 1
  BY <1>2
<1>5. \A j \in 1..m : \E i \in 1..n :
        /\ kept[j].symbol = target[i].symbol
        /\ kept[j].rule = target[i].rule
        /\ target[i].symbol \in HeldSymbols(ctx) => kept[j] = target[i]
  BY <1>2 DEF GateAt, kept
<1>6. \A j \in 1..m : kept[j].symbol # item.symbol
  <2> SUFFICES ASSUME NEW j \in 1..m, kept[j].symbol = item.symbol PROVE FALSE
    OBVIOUS
  <2>1. PICK i \in 1..n : kept[j].symbol = target[i].symbol
    BY <1>5
  <2>2. i \in DOMAIN target /\ n + 1 \in DOMAIN target
    BY <1>3
  <2>3. i = n + 1
    BY <2>1, <2>2 DEF TargetOf, SymbolsDiffer
  <2> QED
    BY <2>3
<1>7. SymbolsDiffer(longer)
  <2> SUFFICES ASSUME NEW i \in 1..(m + 1), NEW j \in 1..(m + 1),
                      longer[i].symbol = longer[j].symbol
               PROVE  i = j
    BY <1>2 DEF SymbolsDiffer
  <2> QED
    BY <1>1, <1>2, <1>4, <1>6 DEF SymbolsDiffer
<1>8. \A j \in DOMAIN longer : \E i \in 1..(n + 1) :
        /\ longer[j].symbol = target[i].symbol
        /\ longer[j].rule = target[i].rule
        /\ target[i].symbol \in HeldSymbols(ctx) => longer[j] = target[i]
  <2> SUFFICES ASSUME NEW j \in 1..(m + 1)
               PROVE  \E i \in 1..(n + 1) :
                        /\ longer[j].symbol = target[i].symbol
                        /\ longer[j].rule = target[i].rule
                        /\ target[i].symbol \in HeldSymbols(ctx) => longer[j] = target[i]
    BY <1>2
  <2>1. CASE j \in 1..m
    <3>1. PICK i \in 1..n : /\ kept[j].symbol = target[i].symbol
                            /\ kept[j].rule = target[i].rule
                            /\ target[i].symbol \in HeldSymbols(ctx) => kept[j] = target[i]
      BY <1>5, <2>1
    <3>2. i \in 1..(n + 1) /\ longer[j] = kept[j]
      BY <1>2, <2>1
    <3> QED
      BY <3>1, <3>2
  <2>2. CASE j = m + 1
    <3>1. n + 1 \in 1..(n + 1) /\ longer[j] = item
      BY <1>2, <2>2
    <3> QED
      BY <3>1
  <2> QED
    BY <1>4, <2>1, <2>2
<1>9. \A i \in 1..(n + 1) : target[i].symbol \in HeldSymbols(ctx) =>
        \E j \in DOMAIN longer : longer[j] = target[i]
  <2> SUFFICES ASSUME NEW i \in 1..(n + 1), target[i].symbol \in HeldSymbols(ctx)
               PROVE  \E j \in 1..(m + 1) : longer[j] = target[i]
    BY <1>2
  <2>1. CASE i \in 1..n
    <3>1. PICK j \in 1..m : kept[j] = target[i]
      BY <1>2, <2>1 DEF GateAt, kept
    <3>2. j \in 1..(m + 1) /\ longer[j] = kept[j]
      BY <1>2
    <3> QED
      BY <3>1, <3>2
  <2>2. CASE i = n + 1
    <3>1. m + 1 \in 1..(m + 1)
      BY <1>2
    <3> QED
      BY <1>2, <2>2, <3>1
  <2> QED
    BY <2>1, <2>2
<1>10. \A j \in 1..m : kept[j].symbol \notin HeldSymbols(ctx) =>
         /\ ~InCooldown(kept[j].symbol, ctx, config)
         /\ kept[j].event # None => kept[j].event \in passed.used \ UsedEvents(ctx)
  BY <1>2 DEF GateAt, kept
<1>11. \A j \in DOMAIN longer : longer[j].symbol \notin HeldSymbols(ctx) =>
         /\ ~InCooldown(longer[j].symbol, ctx, config)
         /\ longer[j].event # None => longer[j].event \in next.used \ UsedEvents(ctx)
  BY <1>1, <1>2, <1>4, <1>10
<1>12. \A j, k \in DOMAIN longer :
         (/\ longer[j].symbol \notin HeldSymbols(ctx)
          /\ longer[k].symbol \notin HeldSymbols(ctx)
          /\ longer[j].event # None /\ longer[j].event = longer[k].event) => j = k
  <2>1. \A j, k \in 1..m :
          (/\ kept[j].symbol \notin HeldSymbols(ctx)
           /\ kept[k].symbol \notin HeldSymbols(ctx)
           /\ kept[j].event # None /\ kept[j].event = kept[k].event) => j = k
    BY <1>2 DEF GateAt, kept
  <2>2. \A j \in 1..m : (/\ kept[j].symbol \notin HeldSymbols(ctx)
                         /\ kept[j].event # None /\ kept[j].event = item.event)
                        => item.symbol \in HeldSymbols(ctx)
    BY <1>10
  <2> QED
    BY <1>2, <1>4, <2>1, <2>2
<1> QED
  BY <1>1, <1>2, <1>7, <1>8, <1>9, <1>11, <1>12 DEF GateAt, longer

\* The fields of the gate's state.
GateRecord(passed) ==
  passed = [kept |-> passed.kept, occupied |-> passed.occupied, used |-> passed.used]

LEMMA ClampFacts ==
  ASSUME NEW ctx, GoodContext(ctx), NEW config, CycleConfig(config), NEW item \in TargetItem
  PROVE  /\ Clamp(item, ctx, config) \in TargetItem
         /\ Clamp(item, ctx, config).symbol = item.symbol
         /\ Clamp(item, ctx, config).rule = item.rule
         /\ Clamp(item, ctx, config).event = item.event
<1> DEFINE limit == config.maxWeight * Scale(ctx)
           least == Min({item.weight, limit})
<1>1. limit \in Nat
  <2>1. config.maxWeight \in Nat /\ Scale(ctx) \in Nat
    BY EntryWeightIsPositive DEF CycleConfig
  <2>2. \A a, b \in Nat : a * b \in Nat
    OBVIOUS
  <2> QED
    BY <2>1, <2>2
<1>2. item.weight \in Nat
  BY DEF TargetItem
<1> HIDE DEF limit
<1>3. item.weight \in Int /\ limit \in Int
  BY <1>1, <1>2
<1>4. least \in {item.weight, limit}
  BY <1>3, MinOfTwo
<1>5. least \in Nat
  BY <1>1, <1>2, <1>4
<1>6. Clamp(item, ctx, config) = [item EXCEPT !.weight = least]
  BY DEF Clamp, limit
<1> HIDE DEF least
<1> QED
  BY <1>5, <1>6 DEF TargetItem

LEMMA GateItemFacts ==
  ASSUME NEW ctx, GoodContext(ctx), NEW config, CycleConfig(config),
         NEW target, TargetOf(target, ctx, config),
         NEW n \in Nat, n + 1 <= Len(target),
         NEW passed, GateRecord(passed), GateAt(passed, target, n, ctx, config)
  PROVE  /\ GateRecord(GateItem(passed, target[n + 1], ctx, config))
         /\ GateAt(GateItem(passed, target[n + 1], ctx, config), target, n + 1, ctx, config)
<1> DEFINE item == target[n + 1]
           next == GateItem(passed, item, ctx, config)
<1>1. item \in TargetItem
  BY DEF TargetOf
<1>2. CASE item.symbol \in HeldSymbols(ctx)
  <2>1. next = [passed EXCEPT !.kept = Append(@, item)]
    BY <1>2 DEF GateItem
  <2> HIDE DEF next
  <2>2. GateRecord(next) /\ next.kept = Append(passed.kept, item) /\ next.used = passed.used
    BY <2>1 DEF GateRecord
  <2>3. GateAt(next, target, n + 1, ctx, config)
    BY <1>1, <1>2, <2>2, GateGrows
  <2> QED
    BY <2>2, <2>3 DEF next
<1>3. CASE item.symbol \notin HeldSymbols(ctx) /\ Rejected(item, passed, ctx, config)
  <2>1. next = passed
    BY <1>3 DEF GateItem
  <2>2. GateAt(passed, target, n + 1, ctx, config)
    <3>1. \A i \in 1..(n + 1) : target[i].symbol \in HeldSymbols(ctx) => i \in 1..n
      BY <1>3
    <3>2. 1..n \subseteq 1..(n + 1)
      OBVIOUS
    <3> QED
      BY <3>1, <3>2 DEF GateAt
  <2> QED
    BY <2>1, <2>2
<1>4. CASE item.symbol \notin HeldSymbols(ctx) /\ ~Rejected(item, passed, ctx, config)
  <2> DEFINE clamped == Clamp(item, ctx, config)
  <2>1. next = [kept     |-> Append(passed.kept, clamped),
                occupied |-> passed.occupied + 1,
                used     |-> passed.used \cup ({item.event} \ {None})]
    BY <1>4 DEF GateItem
  <2> HIDE DEF next, clamped
  <2>2. /\ GateRecord(next) /\ next.kept = Append(passed.kept, clamped)
        /\ next.used = passed.used \cup ({item.event} \ {None})
    BY <2>1 DEF GateRecord
  <2>3. /\ clamped \in TargetItem /\ clamped.symbol = item.symbol
        /\ clamped.rule = item.rule /\ clamped.event = item.event
    BY <1>1, ClampFacts DEF clamped
  <2>4. /\ ~InCooldown(item.symbol, ctx, config)
        /\ item.event # None => item.event \notin passed.used
    BY <1>4 DEF Rejected
  <2>5. passed.used \subseteq next.used
    BY <2>2
  <2>6. clamped.symbol \notin HeldSymbols(ctx)
    BY <1>4, <2>3
  <2>7. /\ ~InCooldown(clamped.symbol, ctx, config)
        /\ clamped.event # None => clamped.event \in next.used \ passed.used
    BY <2>2, <2>3, <2>4
  <2>8. GateAt(next, target, n + 1, ctx, config)
    BY <2>2, <2>3, <2>5, <2>6, <2>7, GateGrows
  <2> QED
    BY <2>2, <2>8 DEF next
<1> QED
  BY <1>2, <1>3, <1>4

\* f has the states of the gate after the first items of the target.
IsGate(f, target, m, ctx, config) ==
  f = [n \in 0..m |->
         IF n = 0
         THEN [kept |-> <<>>, occupied |-> Occupied(target, ctx), used |-> UsedEvents(ctx)]
         ELSE GateItem(f[n - 1], target[n], ctx, config)]

LEMMA GateDef ==
  ASSUME NEW target, NEW ctx, NEW config
  PROVE  Gate(target, ctx, config) =
           (CHOOSE f : IsGate(f, target, Len(target), ctx, config))[Len(target)].kept
BY DEF Gate, IsGate

LEMMA GateExists ==
  ASSUME NEW target, NEW ctx, NEW config, NEW m \in Nat
  PROVE  \E f : IsGate(f, target, m, ctx, config)
<1> DEFINE N == {n \in Nat : \E f : IsGate(f, target, n, ctx, config)}
           start == [kept |-> <<>>, occupied |-> Occupied(target, ctx), used |-> UsedEvents(ctx)]
<1> HIDE DEF start
<1>1. 0 \in N
  <2>1. IsGate([n \in 0..0 |-> start], target, 0, ctx, config)
    BY DEF IsGate, start
  <2> QED
    BY <2>1
<1>2. ASSUME NEW n \in Nat, n \in N PROVE n + 1 \in N
  <2>1. PICK f : IsGate(f, target, n, ctx, config)
    BY <1>2
  <2> DEFINE g == [i \in 0..(n + 1) |->
                     IF i <= n THEN f[i] ELSE GateItem(f[i - 1], target[i], ctx, config)]
  <2>2. \A i \in 0..n : g[i] = f[i]
    OBVIOUS
  <2>3. \A i \in 0..n : f[i] = IF i = 0 THEN start
                               ELSE GateItem(f[i - 1], target[i], ctx, config)
    BY <2>1 DEF IsGate, start
  <2>4. \A i \in 0..(n + 1) : g[i] = IF i = 0 THEN start
                                     ELSE GateItem(g[i - 1], target[i], ctx, config)
    <3>1. ASSUME NEW i \in 0..(n + 1), i # 0 PROVE i - 1 \in 0..n
      BY <3>1
    <3> QED
      BY <2>2, <2>3, <3>1
  <2>5. IsGate(g, target, n + 1, ctx, config)
    <3>1. g = [i \in 0..(n + 1) |-> g[i]]
      OBVIOUS
    <3> HIDE DEF g
    <3> QED
      BY <2>4, <3>1 DEF IsGate, start
  <2> QED
    BY <2>5
<1> HIDE DEF N
<1>3. m \in N
  BY <1>1, <1>2, NumbersByInduction
<1> QED
  BY <1>3 DEF N

\* What the gate lets pass opens positions on events that were not used, each on
\* an event of its own, and not before the cooldown is over.
Fresh(target, ctx, config) ==
  /\ \A j \in DOMAIN target : target[j].symbol \notin HeldSymbols(ctx) =>
       /\ ~InCooldown(target[j].symbol, ctx, config)
       /\ target[j].event # None => target[j].event \notin UsedEvents(ctx)
  /\ \A j, k \in DOMAIN target :
       (/\ target[j].symbol \notin HeldSymbols(ctx) /\ target[k].symbol \notin HeldSymbols(ctx)
        /\ target[j].event # None /\ target[j].event = target[k].event) => j = k

LEMMA GateFacts ==
  ASSUME NEW ctx, GoodContext(ctx), NEW config, CycleConfig(config),
         NEW target, TargetOf(target, ctx, config)
  PROVE  /\ TargetOf(Gate(target, ctx, config), ctx, config)
         /\ Fresh(Gate(target, ctx, config), ctx, config)
<1> DEFINE m == Len(target)
           f == CHOOSE f : IsGate(f, target, m, ctx, config)
           kept == Gate(target, ctx, config)
           N == {n \in Nat : n <= m => /\ GateRecord(f[n])
                                       /\ GateAt(f[n], target, n, ctx, config)}
<1>1. m \in Nat /\ DOMAIN target = 1..m
  BY DEF TargetOf
<1> HIDE DEF m
<1>2. IsGate(f, target, m, ctx, config)
  BY <1>1, GateExists
<1>3. kept = f[m].kept
  BY GateDef DEF m
<1> HIDE DEF f
<1>4. \A n \in 0..m : f[n] =
        IF n = 0
        THEN [kept |-> <<>>, occupied |-> Occupied(target, ctx), used |-> UsedEvents(ctx)]
        ELSE GateItem(f[n - 1], target[n], ctx, config)
  BY <1>2 DEF IsGate
<1>5. 0 \in N
  <2>1. f[0] = [kept |-> <<>>, occupied |-> Occupied(target, ctx), used |-> UsedEvents(ctx)]
    BY <1>1, <1>4
  <2> DEFINE start == f[0]
  <2> HIDE DEF start
  <2>2. GateRecord(start) /\ start.kept = <<>> /\ start.used = UsedEvents(ctx)
    BY <2>1 DEF GateRecord, start
  <2>3. start.kept \in Seq(TargetItem) /\ DOMAIN start.kept = {}
    BY <2>2
  <2>4. GateAt(start, target, 0, ctx, config)
    BY <2>2, <2>3 DEF GateAt, SymbolsDiffer
  <2> QED
    BY <2>2, <2>4 DEF start
<1>6. ASSUME NEW n \in Nat, n \in N PROVE n + 1 \in N
  <2> SUFFICES ASSUME n + 1 <= m
               PROVE  GateRecord(f[n + 1]) /\ GateAt(f[n + 1], target, n + 1, ctx, config)
    OBVIOUS
  <2>1. GateRecord(f[n]) /\ GateAt(f[n], target, n, ctx, config)
    BY <1>1, <1>6
  <2>2. f[n + 1] = GateItem(f[n], target[n + 1], ctx, config)
    BY <1>1, <1>4
  <2> QED
    BY <2>1, <2>2, GateItemFacts DEF m
<1> HIDE DEF N
<1>7. m \in N
  BY <1>1, <1>5, <1>6, NumbersByInduction
<1>8. GateAt(f[m], target, m, ctx, config)
  BY <1>1, <1>7 DEF N
<1> HIDE DEF kept
<1>9. kept \in Seq(TargetItem) /\ SymbolsDiffer(kept)
  BY <1>3, <1>8 DEF GateAt
<1>10. \A j \in DOMAIN kept :
         IF kept[j].symbol \in HeldSymbols(ctx)
         THEN kept[j] = HeldItem(PositionOf(ctx, kept[j].symbol), ctx, config)
         ELSE kept[j].rule \in ExitRule
  <2> SUFFICES ASSUME NEW j \in DOMAIN kept
               PROVE  IF kept[j].symbol \in HeldSymbols(ctx)
                      THEN kept[j] = HeldItem(PositionOf(ctx, kept[j].symbol), ctx, config)
                      ELSE kept[j].rule \in ExitRule
    OBVIOUS
  <2>1. PICK i \in 1..m : /\ kept[j].symbol = target[i].symbol
                          /\ kept[j].rule = target[i].rule
                          /\ target[i].symbol \in HeldSymbols(ctx) => kept[j] = target[i]
    BY <1>3, <1>8 DEF GateAt
  <2>2. IF target[i].symbol \in HeldSymbols(ctx)
        THEN target[i] = HeldItem(PositionOf(ctx, target[i].symbol), ctx, config)
        ELSE target[i].rule \in ExitRule
    BY <1>1 DEF TargetOf
  <2> QED
    BY <2>1, <2>2
<1>11. ASSUME NEW s \in HeldSymbols(ctx) PROVE \E j \in DOMAIN kept : kept[j].symbol = s
  <2>1. PICK i \in 1..m : target[i].symbol = s
    BY <1>1 DEF TargetOf
  <2>2. \E j \in DOMAIN kept : kept[j] = target[i]
    BY <1>3, <1>8, <2>1 DEF GateAt
  <2> QED
    BY <2>1, <2>2
<1>12. TargetOf(kept, ctx, config)
  BY <1>9, <1>10, <1>11 DEF TargetOf
<1>13. Fresh(kept, ctx, config)
  BY <1>3, <1>8 DEF GateAt, Fresh
<1> QED
  BY <1>12, <1>13 DEF kept

LEMMA KillSwitchFacts ==
  ASSUME NEW ctx, GoodContext(ctx), NEW config, CycleConfig(config),
         NEW target, TargetOf(target, ctx, config), Fresh(target, ctx, config),
         NEW engaged \in BOOLEAN
  PROVE  /\ TargetOf(ApplyKillSwitch(target, ctx, engaged), ctx, config)
         /\ Fresh(ApplyKillSwitch(target, ctx, engaged), ctx, config)
<1> DEFINE keep == {item \in ToSet(target) : \/ ~engaged
                                             \/ item.symbol \in HeldSymbols(ctx)
                                             \/ item.weight <= 0}
           left == Select(target, keep)
<1>1. target \in Seq(TargetItem)
  BY DEF TargetOf
<1>2. /\ left \in Seq(TargetItem) /\ ToSet(left) = ToSet(target) \cap keep
      /\ Picked(left, target)
  BY <1>1, SelectFacts
<1>3. ApplyKillSwitch(target, ctx, engaged) = left
  BY DEF ApplyKillSwitch
<1> HIDE DEF left
<1>4. PICK place \in [DOMAIN left -> DOMAIN target] :
        IsInjective(place) /\ \A j \in DOMAIN left : left[j] = target[place[j]]
  BY <1>2 DEF Picked
<1>5. \A i, j \in DOMAIN left : place[i] = place[j] => i = j
  BY <1>4 DEF IsInjective
<1>6. \A j \in DOMAIN left : place[j] \in DOMAIN target
  BY <1>4
<1>7. SymbolsDiffer(left)
  BY <1>4, <1>5, <1>6 DEF TargetOf, SymbolsDiffer
<1>8. Fresh(left, ctx, config)
  BY <1>4, <1>5, <1>6 DEF Fresh
<1>9. ASSUME NEW s \in HeldSymbols(ctx) PROVE \E j \in DOMAIN left : left[j].symbol = s
  <2>1. PICK i \in DOMAIN target : target[i].symbol = s
    BY DEF TargetOf
  <2>2. target[i] \in ToSet(target) /\ target[i] \in keep
    BY <2>1 DEF ToSet
  <2>3. target[i] \in ToSet(left)
    BY <1>2, <2>2
  <2> QED
    BY <2>1, <2>3 DEF ToSet
<1>10. \A j \in DOMAIN left :
         IF left[j].symbol \in HeldSymbols(ctx)
         THEN left[j] = HeldItem(PositionOf(ctx, left[j].symbol), ctx, config)
         ELSE left[j].rule \in ExitRule
  BY <1>4, <1>6 DEF TargetOf
<1>11. TargetOf(left, ctx, config)
  BY <1>2, <1>7, <1>9, <1>10 DEF TargetOf
<1> QED
  BY <1>3, <1>8, <1>11

LEMMA FinalTargetFacts ==
  ASSUME NEW ctx, GoodContext(ctx), NEW config, CycleConfig(config), NEW engaged \in BOOLEAN
  PROVE  /\ TargetOf(FinalTarget(ctx, config, engaged), ctx, config)
         /\ Fresh(FinalTarget(ctx, config, engaged), ctx, config)
BY BuildTargetFacts, GateFacts, KillSwitchFacts DEF FinalTarget

-----------------------------------------------------------------------------
(* The orders: Exits() and Rebalances().                                   *)

\* A purchase, as an order of the cycle and as a row of table orders.
Purchase ==
  [symbol : Symbols, side : {"buy"}, qty : Nat \ {0}, event : Events \cup {None},
   rule : ExitRule, ref : Nat \ {0}]

\* What a purchase sets aside.
SetAsideFor(config) == [o \in Purchase |-> o.qty * MarginUnitPrice(o.ref, config)]

LEMMA MarginFacts ==
  ASSUME NEW config, CycleConfig(config), NEW price \in Nat
  PROVE  /\ MarginUnitPrice(price, config) \in Nat \ {0}
         /\ price * (100 + config.priceLimit) \in Nat
         /\ MarginUnitPrice(price, config)
              = ((price * (100 + config.priceLimit)) \div 100) + 1
<1>1. config.priceLimit \in Nat
  BY DEF CycleConfig
<1>2. \A a, b \in Nat : a * b \in Nat
  OBVIOUS
<1>3. price * (100 + config.priceLimit) \in Nat
  BY <1>1, <1>2
<1> QED
  BY <1>3 DEF MarginUnitPrice

LEMMA FloorFacts ==
  ASSUME NEW qty \in Nat, NEW unit \in Nat
  PROVE  FloorToTradingUnit(qty, unit) \in Nat /\ FloorToTradingUnit(qty, unit) <= qty
<1>1. CASE unit <= 1
  BY <1>1 DEF FloorToTradingUnit
<1>2. CASE unit > 1
  <2> DEFINE rest == qty % unit
  <2>1. rest \in Nat /\ rest <= qty
    <3> DEFINE d == qty \div unit
    <3>1. d \in Nat /\ qty = d * unit + rest /\ rest \in 0..(unit - 1)
      BY <1>2
    <3>2. d * unit \in Nat
      BY <3>1
    <3> HIDE DEF d, rest
    <3> QED
      BY <3>1, <3>2
  <2>2. FloorToTradingUnit(qty, unit) = qty - rest
    BY <1>2 DEF FloorToTradingUnit
  <2> HIDE DEF rest
  <2> QED
    BY <2>1, <2>2
<1> QED
  BY <1>1, <1>2

\* What cash pays for can be set aside.
LEMMA AffordableIsPaid ==
  ASSUME NEW c \in Nat, NEW margin \in Nat \ {0}, NEW qty \in Nat, qty <= c \div margin
  PROVE  qty * margin \in Nat /\ qty * margin <= c
<1> DEFINE d == c \div margin
<1>1. d \in Nat /\ d * margin <= c
  OBVIOUS
<1> HIDE DEF d
<1>2. qty <= d
  BY DEF d
<1>3. qty * margin <= d * margin /\ qty * margin \in Nat /\ d * margin \in Nat
  BY <1>1, <1>2
<1> QED
  BY <1>1, <1>3

\* An item that is wanted has a rule, and a position it keeps keeps its shares.
LEMMA WantedItemFacts ==
  ASSUME NEW ctx, GoodContext(ctx), NEW config, CycleConfig(config),
         NEW target, TargetOf(target, ctx, config),
         NEW i \in DOMAIN target, target[i].weight > 0
  PROVE  /\ target[i] \in TargetItem /\ target[i].rule \in ExitRule
         /\ target[i].symbol \in HeldSymbols(ctx) =>
              /\ ~Due(PositionOf(ctx, target[i].symbol), ctx, config)
              /\ PositionOf(ctx, target[i].symbol).qty \in Nat
              /\ (ctx.equity > 0 /\ HasBar(ctx, target[i].symbol)) =>
                   (target[i].weight \div 100) \div Latest(ctx, target[i].symbol).close
                     >= PositionOf(ctx, target[i].symbol).qty
<1> DEFINE item == target[i]
           s == item.symbol
           p == PositionOf(ctx, s)
<1>1. item \in TargetItem
  BY DEF TargetOf
<1>2. CASE s \notin HeldSymbols(ctx)
  BY <1>1, <1>2 DEF TargetOf
<1>3. CASE s \in HeldSymbols(ctx)
  <2>1. item = HeldItem(p, ctx, config)
    BY <1>3 DEF TargetOf
  <2>2. p \in ToSet(ctx.positions) /\ p \in Position /\ p.symbol = s
    BY <1>3, HeldPosition
  <2> HIDE DEF p
  <2>3. ~Due(p, ctx, config)
    BY <2>1, <2>2, HeldItemFacts
  <2>4. item.weight = CurrentWeight(p, ctx, config) /\ item.rule = p.rule
    BY <2>1, <2>2, <2>3, HeldItemFacts
  <2>5. p.qty \in Nat /\ p.rule \in ExitRule
    BY <2>2 DEF Position
  <2>6. (ctx.equity > 0 /\ HasBar(ctx, s)) =>
          (item.weight \div 100) \div Latest(ctx, s).close >= p.qty
    BY <2>2, <2>4, WeightCoversPosition
  <2> QED
    BY <1>1, <2>3, <2>4, <2>5, <2>6 DEF p
<1> QED
  BY <1>2, <1>3

\* The purchase o of the item leads from plan to next; the cash of plan pays for it.
Buys(o, item, plan, next, config) ==
  /\ o.symbol = item.symbol /\ o.event = item.event
  /\ o.qty * MarginUnitPrice(o.ref, config) \in Nat
  /\ o.qty * MarginUnitPrice(o.ref, config) <= plan.cash
  /\ next = [cash   |-> plan.cash - o.qty * MarginUnitPrice(o.ref, config),
             orders |-> Append(plan.orders, o)]

\* The plan after one more item: as it was, or with one more purchase that the
\* remaining cash pays for.
LEMMA RebalanceBuysOrNot ==
  ASSUME NEW ctx, GoodContext(ctx), ctx.equity > 0, NEW config, CycleConfig(config),
         NEW target, TargetOf(target, ctx, config), NEW i \in DOMAIN target,
         NEW plan, plan.cash \in Nat
  PROVE  \/ Rebalance(plan, target[i], ctx, config) = plan
         \/ /\ target[i].weight > 0 /\ target[i].symbol \notin ctx.pending
            /\ \E o \in Purchase :
                 Buys(o, target[i], plan, Rebalance(plan, target[i], ctx, config), config)
<1> DEFINE item == target[i]
<1>1. CASE item.weight <= 0 \/ item.symbol \in ctx.pending \/ ~HasBar(ctx, item.symbol)
  BY <1>1 DEF Rebalance
<1>2. CASE ~(item.weight <= 0 \/ item.symbol \in ctx.pending \/ ~HasBar(ctx, item.symbol))
  <2> DEFINE price   == Latest(ctx, item.symbol).close
             margin  == MarginUnitPrice(price, config)
             current == IF item.symbol \in HeldSymbols(ctx)
                        THEN PositionOf(ctx, item.symbol).qty ELSE 0
             wanted  == (item.weight \div 100) \div price
             delta   == (item.weight \div 100) \div price - current
             affordable == plan.cash \div margin
             capped  == delta > 0 /\ affordable < delta
             qty     == FloorToTradingUnit(IF capped THEN affordable ELSE Abs(delta),
                                           TradingUnit[item.symbol])
             tiny    == \/ qty * price < config.minOrderValue
                        \/ qty * price * 100 < config.noTradeBand * ctx.equity
             nothing == \/ delta = 0 \/ qty = 0
                        \/ delta > 0 /\ affordable <= 0
                        \/ ~capped /\ tiny
             o == Order(item.symbol, "buy", qty, item.event, item.rule, price)
  <2>1. Rebalance(plan, item, ctx, config) =
          IF nothing THEN plan
          ELSE IF delta > 0
          THEN [cash   |-> SetAside(plan.cash, qty, margin), orders |-> Append(plan.orders, o)]
          ELSE [plan EXCEPT !.orders =
                  Append(@, Order(item.symbol, "sell", qty, item.event, None, price))]
    BY <1>2 DEF Rebalance
  <2>2. item \in TargetItem
    BY DEF TargetOf
  <2>3. item.weight \in Nat /\ item.symbol \in Symbols /\ item.event \in Events \cup {None}
    BY <2>2 DEF TargetItem
  <2>4. item.rule \in ExitRule
    BY <1>2, <2>3, WantedItemFacts
  <2>5. price \in Nat \ {0}
    BY <1>2, <2>3, LatestClose
  <2>6. margin \in Nat \ {0}
    BY <2>5, MarginFacts
  <2>7. current \in Nat /\ wanted \in Nat /\ wanted >= current
    <3>1. wanted \in Nat
      <4> HIDE DEF price
      <4> QED
        BY <2>3, <2>5
    <3>2. CASE item.symbol \in HeldSymbols(ctx)
      BY <1>2, <2>3, <3>1, <3>2, WantedItemFacts
    <3>3. CASE item.symbol \notin HeldSymbols(ctx)
      <4>1. current = 0
        BY <3>3
      <4> HIDE DEF wanted, current
      <4> QED
        BY <3>1, <4>1
    <3> QED
      BY <3>2, <3>3
  <2>8. delta \in Nat
    <3>1. delta = wanted - current
      OBVIOUS
    <3> HIDE DEF delta, wanted, current
    <3> QED
      BY <2>7, <3>1
  <2>9. affordable \in Nat
    <3> HIDE DEF margin
    <3> QED
      BY <2>6
  <2>10. TradingUnit[item.symbol] \in Nat
    BY <2>3, JudgmentAssumption
  <2>11. CASE nothing
    BY <2>1, <2>11
  <2>12. CASE ~nothing
    <3>1. delta > 0 /\ qty # 0
      <4>1. delta # 0 /\ qty # 0
        BY <2>12
      <4> HIDE DEF delta, qty
      <4> QED
        BY <2>8, <4>1
    <3>2. qty \in Nat /\ qty <= affordable
      <4> DEFINE most == IF capped THEN affordable ELSE Abs(delta)
      <4>1. most \in Nat /\ most <= affordable
        <5>1. Abs(delta) = delta
          <6> HIDE DEF delta
          <6> QED
            BY <2>8 DEF Abs
        <5> HIDE DEF delta, affordable
        <5> QED
          BY <2>8, <2>9, <3>1, <5>1
      <4>2. qty = FloorToTradingUnit(most, TradingUnit[item.symbol])
        OBVIOUS
      <4> HIDE DEF most, qty, affordable
      <4>3. qty \in Nat /\ qty <= most
        BY <2>10, <4>1, <4>2, FloorFacts
      <4> QED
        BY <2>9, <4>1, <4>3
    <3> HIDE DEF qty
    <3>3. qty * margin \in Nat /\ qty * margin <= plan.cash
      <4> HIDE DEF margin
      <4> QED
        BY <2>6, <3>2, AffordableIsPaid
    <3> HIDE DEF price
    <3>4. /\ o \in Purchase /\ o.symbol = item.symbol /\ o.event = item.event
          /\ o.qty = qty /\ o.ref = price
      <4> HIDE DEF item
      <4> QED
        BY <2>3, <2>4, <2>5, <3>1, <3>2 DEF Order, Purchase
    <3>5. o.qty * MarginUnitPrice(o.ref, config) = qty * margin
      <4> HIDE DEF o
      <4> QED
        BY <3>4
    <3> HIDE DEF nothing, delta, o
    <3>6. Rebalance(plan, item, ctx, config) =
            [cash   |-> plan.cash - o.qty * MarginUnitPrice(o.ref, config),
             orders |-> Append(plan.orders, o)]
      BY <2>1, <2>12, <3>1, <3>5 DEF SetAside
    <3>7. item.weight > 0
      BY <1>2, <2>3
    <3>8. Buys(o, item, plan, Rebalance(plan, item, ctx, config), config)
      BY <3>3, <3>4, <3>5, <3>6 DEF Buys
    <3> QED
      BY <1>2, <3>4, <3>7, <3>8
  <2> QED
    BY <2>11, <2>12
<1> QED
  BY <1>1, <1>2

\* The plan after the first n items of the target.
PlanAt(plan, target, n, ctx, config) ==
  /\ plan.orders \in Seq(Purchase) /\ plan.cash \in Nat
  /\ \A o \in ToSet(plan.orders) :
       /\ o.symbol \notin ctx.pending
       /\ \E i \in 1..n : /\ o.symbol = target[i].symbol /\ o.event = target[i].event
                          /\ target[i].weight > 0
  /\ \A o, x \in ToSet(plan.orders) : o.symbol = x.symbol => o = x
  /\ IsFiniteSet(ToSet(plan.orders))
  /\ SumFunctionOnSet(SetAsideFor(config), ToSet(plan.orders)) + plan.cash = ctx.cash

LEMMA AppendToSet ==
  ASSUME NEW S, NEW s \in Seq(S), NEW x \in S
  PROVE  ToSet(Append(s, x)) = ToSet(s) \cup {x}
<1> DEFINE longer == Append(s, x)
<1>1. /\ Len(s) \in Nat /\ DOMAIN s = 1..Len(s) /\ DOMAIN longer = 1..(Len(s) + 1)
      /\ \A j \in DOMAIN s : longer[j] = s[j]
      /\ longer[Len(s) + 1] = x
  BY AppendFacts
<1> HIDE DEF longer
<1>2. DOMAIN longer = DOMAIN s \cup {Len(s) + 1}
  BY <1>1
<1>3. ToSet(longer) = ToSet(s) \cup {x}
  BY <1>1, <1>2 DEF ToSet
<1> QED
  BY <1>3 DEF longer

LEMMA SetAsideIsNat ==
  ASSUME NEW config, CycleConfig(config)
  PROVE  \A o \in Purchase : /\ SetAsideFor(config)[o] = o.qty * MarginUnitPrice(o.ref, config)
                             /\ SetAsideFor(config)[o] \in Nat
<1> SUFFICES ASSUME NEW o \in Purchase
             PROVE  /\ SetAsideFor(config)[o] = o.qty * MarginUnitPrice(o.ref, config)
                    /\ o.qty * MarginUnitPrice(o.ref, config) \in Nat
  BY DEF SetAsideFor
<1>1. o.qty \in Nat /\ o.ref \in Nat
  BY DEF Purchase
<1>2. MarginUnitPrice(o.ref, config) \in Nat
  BY <1>1, MarginFacts
<1>3. \A a, b \in Nat : a * b \in Nat
  OBVIOUS
<1> QED
  BY <1>1, <1>2, <1>3 DEF SetAsideFor

LEMMA PlanGrows ==
  ASSUME NEW ctx, GoodContext(ctx), ctx.equity > 0, NEW config, CycleConfig(config),
         NEW target, TargetOf(target, ctx, config),
         NEW n \in Nat, n + 1 <= Len(target),
         NEW plan, PlanAt(plan, target, n, ctx, config)
  PROVE  PlanAt(Rebalance(plan, target[n + 1], ctx, config), target, n + 1, ctx, config)
<1> DEFINE next == Rebalance(plan, target[n + 1], ctx, config)
           f == SetAsideFor(config)
           old == ToSet(plan.orders)
<1>1. n + 1 \in DOMAIN target /\ 1..n \subseteq DOMAIN target
  BY DEF TargetOf
<1>2. /\ plan.orders \in Seq(Purchase) /\ plan.cash \in Nat
      /\ IsFiniteSet(old) /\ SumFunctionOnSet(f, old) + plan.cash = ctx.cash
      /\ \A o, x \in old : o.symbol = x.symbol => o = x
      /\ \A o \in old : /\ o.symbol \notin ctx.pending
                        /\ \E i \in 1..n : /\ o.symbol = target[i].symbol
                                           /\ o.event = target[i].event
                                           /\ target[i].weight > 0
  BY DEF PlanAt
<1>3. CASE next = plan
  BY <1>3 DEF PlanAt
<1>4. CASE next # plan
  <2>1. target[n + 1].weight > 0 /\ target[n + 1].symbol \notin ctx.pending
    BY <1>1, <1>2, <1>4, RebalanceBuysOrNot
  <2>2. PICK o \in Purchase : Buys(o, target[n + 1], plan, next, config)
    BY <1>1, <1>2, <1>4, RebalanceBuysOrNot
  <2> DEFINE new == ToSet(next.orders)
  <2>3. f[o] = o.qty * MarginUnitPrice(o.ref, config) /\ f[o] \in Nat
    BY SetAsideIsNat
  <2> HIDE DEF next, f, old
  <2>4. /\ next.cash = plan.cash - f[o] /\ next.orders = Append(plan.orders, o)
        /\ f[o] <= plan.cash
        /\ o.symbol = target[n + 1].symbol /\ o.event = target[n + 1].event
    BY <2>2, <2>3 DEF Buys
  <2>5. next.cash \in Nat /\ next.orders \in Seq(Purchase)
    BY <1>2, <2>3, <2>4
  <2>6. new = old \cup {o}
    BY <1>2, <2>4, AppendToSet DEF old
  <2> HIDE DEF new
  <2>7. \A x \in old : x.symbol # o.symbol
    <3> SUFFICES ASSUME NEW x \in old, x.symbol = o.symbol PROVE FALSE
      OBVIOUS
    <3>1. PICK i \in 1..n : x.symbol = target[i].symbol
      BY <1>2
    <3>2. i = n + 1
      BY <1>1, <2>4, <3>1 DEF TargetOf, SymbolsDiffer
    <3> QED
      BY <3>2
  <2>8. o \notin old
    BY <2>7
  <2>9. IsFiniteSet(new)
    BY <1>2, <2>6, FS_AddElement
  <2>10. \A x, y \in new : x.symbol = y.symbol => x = y
    BY <1>2, <2>6, <2>7
  <2>11. SumFunctionOnSet(f, new) + next.cash = ctx.cash
    <3>1. old \subseteq Purchase
      BY <1>2 DEF old, ToSet
    <3>2. \A x \in new : f[x] \in Int
      BY <2>6, <3>1, SetAsideIsNat DEF f
    <3>3. SumFunctionOnSet(f, new) = f[o] + SumFunctionOnSet(f, new \ {o})
      BY <2>6, <2>9, <3>2, SumTakesAny
    <3>4. new \ {o} = old
      BY <2>6, <2>8
    <3>5. SumFunctionOnSet(f, new) = f[o] + SumFunctionOnSet(f, old)
      BY <3>3, <3>4, Zenon
    <3>6. SumFunctionOnSet(f, old) \in Int
      BY <1>2, <2>6, <3>2, SumIsInt
    <3> QED
      BY <1>2, <2>3, <2>4, <3>5, <3>6
  <2>12. \A x \in new :
           /\ x.symbol \notin ctx.pending
           /\ \E i \in 1..(n + 1) : /\ x.symbol = target[i].symbol /\ x.event = target[i].event
                                    /\ target[i].weight > 0
    <3> SUFFICES ASSUME NEW x \in new
                 PROVE  /\ x.symbol \notin ctx.pending
                        /\ \E i \in 1..(n + 1) : /\ x.symbol = target[i].symbol
                                                 /\ x.event = target[i].event
                                                 /\ target[i].weight > 0
      OBVIOUS
    <3>1. CASE x \in old
      <4>1. \A i \in 1..n : i \in 1..(n + 1)
        OBVIOUS
      <4> QED
        BY <1>2, <3>1, <4>1
    <3>2. CASE x = o
      <4>1. n + 1 \in 1..(n + 1)
        OBVIOUS
      <4> QED
        BY <2>1, <2>4, <3>2, <4>1
    <3> QED
      BY <2>6, <3>1, <3>2
  <2>13. PlanAt(next, target, n + 1, ctx, config)
    BY <2>5, <2>9, <2>10, <2>11, <2>12 DEF PlanAt, new, f
  <2> QED
    BY <2>13 DEF next
<1> QED
  BY <1>3, <1>4

\* f has the plans after the first items of the target.
IsPlan(f, target, m, ctx, config) ==
  f = [n \in 0..m |-> IF n = 0 THEN [cash |-> ctx.cash, orders |-> <<>>]
                      ELSE Rebalance(f[n - 1], target[n], ctx, config)]

LEMMA RebalancesDef ==
  ASSUME NEW target, NEW ctx, NEW config
  PROVE  Rebalances(target, ctx, config) =
           (CHOOSE f : IsPlan(f, target, Len(target), ctx, config))[Len(target)].orders
BY DEF Rebalances, IsPlan

LEMMA PlanExists ==
  ASSUME NEW target, NEW ctx, NEW config, NEW m \in Nat
  PROVE  \E f : IsPlan(f, target, m, ctx, config)
<1> DEFINE N == {n \in Nat : \E f : IsPlan(f, target, n, ctx, config)}
           start == [cash |-> ctx.cash, orders |-> <<>>]
<1> HIDE DEF start
<1>1. 0 \in N
  <2>1. IsPlan([n \in 0..0 |-> start], target, 0, ctx, config)
    BY DEF IsPlan, start
  <2> QED
    BY <2>1
<1>2. ASSUME NEW n \in Nat, n \in N PROVE n + 1 \in N
  <2>1. PICK f : IsPlan(f, target, n, ctx, config)
    BY <1>2
  <2> DEFINE g == [i \in 0..(n + 1) |->
                     IF i <= n THEN f[i] ELSE Rebalance(f[i - 1], target[i], ctx, config)]
  <2>2. \A i \in 0..n : g[i] = f[i]
    OBVIOUS
  <2>3. \A i \in 0..n : f[i] = IF i = 0 THEN start
                               ELSE Rebalance(f[i - 1], target[i], ctx, config)
    BY <2>1 DEF IsPlan, start
  <2>4. \A i \in 0..(n + 1) : g[i] = IF i = 0 THEN start
                                     ELSE Rebalance(g[i - 1], target[i], ctx, config)
    <3>1. ASSUME NEW i \in 0..(n + 1), i # 0 PROVE i - 1 \in 0..n
      BY <3>1
    <3> QED
      BY <2>2, <2>3, <3>1
  <2>5. IsPlan(g, target, n + 1, ctx, config)
    <3>1. g = [i \in 0..(n + 1) |-> g[i]]
      OBVIOUS
    <3> HIDE DEF g
    <3> QED
      BY <2>4, <3>1 DEF IsPlan, start
  <2> QED
    BY <2>5
<1> HIDE DEF N
<1>3. m \in N
  BY <1>1, <1>2, NumbersByInduction
<1> QED
  BY <1>3 DEF N

LEMMA RebalancesFacts ==
  ASSUME NEW ctx, GoodContext(ctx), ctx.equity > 0, NEW config, CycleConfig(config),
         NEW target, TargetOf(target, ctx, config)
  PROVE  \E plan : /\ PlanAt(plan, target, Len(target), ctx, config)
                   /\ Rebalances(target, ctx, config) = plan.orders
<1> DEFINE m == Len(target)
           f == CHOOSE f : IsPlan(f, target, m, ctx, config)
           N == {n \in Nat : n <= m => PlanAt(f[n], target, n, ctx, config)}
<1>1. m \in Nat /\ DOMAIN target = 1..m
  BY DEF TargetOf
<1> HIDE DEF m
<1>2. IsPlan(f, target, m, ctx, config)
  BY <1>1, PlanExists
<1>3. Rebalances(target, ctx, config) = f[m].orders
  BY RebalancesDef DEF m
<1> HIDE DEF f
<1>4. \A n \in 0..m : f[n] = IF n = 0 THEN [cash |-> ctx.cash, orders |-> <<>>]
                             ELSE Rebalance(f[n - 1], target[n], ctx, config)
  BY <1>2 DEF IsPlan
<1>5. 0 \in N
  <2>1. f[0] = [cash |-> ctx.cash, orders |-> <<>>]
    BY <1>1, <1>4
  <2> DEFINE start == f[0]
  <2> HIDE DEF start
  <2>2. start.cash = ctx.cash /\ start.orders = <<>> /\ ctx.cash \in Nat
    BY <2>1 DEF start, GoodContext
  <2>3. start.orders \in Seq(Purchase) /\ ToSet(start.orders) = {}
    BY <2>2 DEF ToSet
  <2>4. IsFiniteSet({}) /\ SumFunctionOnSet(SetAsideFor(config), {}) = 0
    BY FS_EmptySet, SumTakesFirst
  <2>5. /\ IsFiniteSet(ToSet(start.orders))
        /\ SumFunctionOnSet(SetAsideFor(config), ToSet(start.orders)) = 0
    BY <2>3, <2>4, Zenon
  <2>6. PlanAt(start, target, 0, ctx, config)
    BY <2>2, <2>3, <2>5 DEF PlanAt
  <2> QED
    BY <2>6 DEF start
<1>6. ASSUME NEW n \in Nat, n \in N PROVE n + 1 \in N
  <2> SUFFICES ASSUME n + 1 <= m PROVE PlanAt(f[n + 1], target, n + 1, ctx, config)
    OBVIOUS
  <2>1. PlanAt(f[n], target, n, ctx, config)
    BY <1>1, <1>6
  <2>2. f[n + 1] = Rebalance(f[n], target[n + 1], ctx, config)
    BY <1>1, <1>4
  <2> QED
    BY <2>1, <2>2, PlanGrows DEF m
<1> HIDE DEF N
<1>7. m \in N
  BY <1>1, <1>5, <1>6, NumbersByInduction
<1>8. PlanAt(f[m], target, m, ctx, config)
  BY <1>1, <1>7 DEF N
<1> QED
  BY <1>3, <1>8 DEF m

\* A sale, as an order of the cycle and as a row of table orders.
Sale ==
  [symbol : Symbols, side : {"sell"}, qty : Nat \ {0}, event : Events \cup {None},
   rule : {None}, ref : Nat \cup {None}]

\* What is sold: whole positions that are due and have no open order.
Sales(sales, ctx, config) ==
  /\ sales \subseteq Sale /\ IsFiniteSet(sales)
  /\ \A o \in sales : /\ o.symbol \in HeldSymbols(ctx) \ ctx.pending
                      /\ Due(PositionOf(ctx, o.symbol), ctx, config)
                      /\ o.qty = PositionOf(ctx, o.symbol).qty
  /\ \A o, x \in sales : o.symbol = x.symbol => o = x
  /\ \A s \in HeldSymbols(ctx) \ ctx.pending :
       Due(PositionOf(ctx, s), ctx, config) => \E o \in sales : o.symbol = s

LEMMA WantedIsNotDue ==
  ASSUME NEW ctx, GoodContext(ctx), NEW config, CycleConfig(config),
         NEW target, TargetOf(target, ctx, config), NEW s \in HeldSymbols(ctx)
  PROVE  s \in Wanted(target) <=> ~Due(PositionOf(ctx, s), ctx, config)
<1>1. PICK i \in DOMAIN target : target[i].symbol = s
  BY DEF TargetOf
<1>2. target[i] = HeldItem(PositionOf(ctx, s), ctx, config)
  BY <1>1 DEF TargetOf
<1>3. PositionOf(ctx, s) \in ToSet(ctx.positions)
  BY HeldPosition
<1>4. target[i].weight > 0 <=> ~Due(PositionOf(ctx, s), ctx, config)
  BY <1>2, <1>3, HeldItemFacts, WeightCoversPosition
<1>5. s \in Wanted(target) => target[i].weight > 0
  <2> SUFFICES ASSUME s \in Wanted(target) PROVE target[i].weight > 0
    OBVIOUS
  <2>1. PICK j \in DOMAIN target : target[j].weight > 0 /\ target[j].symbol = s
    BY DEF Wanted, ToSet
  <2>2. i = j
    BY <1>1, <2>1 DEF TargetOf, SymbolsDiffer
  <2> QED
    BY <2>1, <2>2
<1>6. target[i].weight > 0 => s \in Wanted(target)
  BY <1>1 DEF Wanted, ToSet
<1> QED
  BY <1>4, <1>5, <1>6

LEMMA SeqToSetIsFinite ==
  ASSUME NEW S, NEW s \in Seq(S)
  PROVE  IsFiniteSet(ToSet(s)) /\ ToSet(s) \subseteq S
<1>1. s \in [1..Len(s) -> S] /\ Len(s) \in Nat /\ DOMAIN s = 1..Len(s)
  OBVIOUS
<1>2. IsFiniteSet(1..Len(s))
  BY <1>1, FS_Interval
<1>3. s \in Surjection(1..Len(s), ToSet(s))
  BY <1>1 DEF Surjection, ToSet
<1>4. IsFiniteSet(ToSet(s))
  BY <1>2, <1>3, FS_Surjection
<1> QED
  BY <1>1, <1>4 DEF ToSet

LEMMA ExitsFacts ==
  ASSUME NEW ctx, GoodContext(ctx), NEW config, CycleConfig(config),
         NEW target, TargetOf(target, ctx, config)
  PROVE  Exits(target, ctx) \in Seq(Sale) /\ Sales(ToSet(Exits(target, ctx)), ctx, config)
<1> DEFINE keep == {p \in ToSet(ctx.positions) :
                      p.symbol \notin ctx.pending \cup Wanted(target)}
           leaving == Leaving(target, ctx)
           exit(p) == Order(p.symbol, "sell", p.qty, p.event, None,
                            IF HasBar(ctx, p.symbol) THEN Latest(ctx, p.symbol).close ELSE None)
           exits == Exits(target, ctx)
<1>1. ctx.positions \in Seq(Position)
  BY DEF GoodContext
<1>2. leaving \in Seq(Position) /\ ToSet(leaving) = ToSet(ctx.positions) \cap keep
  BY <1>1, SelectFacts DEF Leaving
<1>3. exits = [i \in DOMAIN leaving |-> exit(leaving[i])]
  BY DEF Exits
<1>4. \A p \in ToSet(ctx.positions) : p \in Position /\ p.symbol \in HeldSymbols(ctx)
  BY DEF GoodContext, ToSet, HeldSymbols
<1>5. ASSUME NEW p \in ToSet(ctx.positions)
      PROVE  exit(p) \in Sale /\ exit(p).symbol = p.symbol /\ exit(p).qty = p.qty
  <2> DEFINE ref == IF HasBar(ctx, p.symbol) THEN Latest(ctx, p.symbol).close ELSE None
  <2>1. p \in Position /\ p.symbol \in Symbols
    BY <1>4 DEF Position
  <2>2. ref \in Nat \cup {None}
    BY <2>1, LatestClose
  <2>3. exit(p) = Order(p.symbol, "sell", p.qty, p.event, None, ref)
    OBVIOUS
  <2> HIDE DEF ref, exit
  <2> QED
    BY <2>1, <2>2, <2>3 DEF Order, Sale, Position
<1>6. \A i \in DOMAIN leaving : leaving[i] \in ToSet(ctx.positions) /\ leaving[i] \in keep
  BY <1>2 DEF ToSet
<1> HIDE DEF leaving, exit, exits
<1>7. exits \in Seq(Sale)
  <2>1. DOMAIN leaving = 1..Len(leaving) /\ Len(leaving) \in Nat
    BY <1>2
  <2>2. exits \in [1..Len(leaving) -> Sale]
    BY <1>3, <1>5, <1>6, <2>1
  <2> QED
    BY <2>1, <2>2, FunctionIsSeq
<1>8. \A o \in ToSet(exits) : \E p \in ToSet(ctx.positions) : p \in keep /\ o = exit(p)
  BY <1>3, <1>6 DEF ToSet
<1>9. ASSUME NEW p \in ToSet(ctx.positions), p \in keep PROVE exit(p) \in ToSet(exits)
  <2>1. p \in ToSet(leaving)
    BY <1>2, <1>9
  <2>2. PICK i \in DOMAIN leaving : leaving[i] = p
    BY <2>1 DEF ToSet
  <2> QED
    BY <1>3, <2>2 DEF ToSet
<1>10. ToSet(exits) \subseteq Sale /\ IsFiniteSet(ToSet(exits))
  BY <1>7, SeqToSetIsFinite
<1>11. ASSUME NEW o \in ToSet(exits)
       PROVE  /\ o.symbol \in HeldSymbols(ctx) \ ctx.pending
              /\ Due(PositionOf(ctx, o.symbol), ctx, config)
              /\ o.qty = PositionOf(ctx, o.symbol).qty
              /\ o = exit(PositionOf(ctx, o.symbol))
  <2>1. PICK p \in ToSet(ctx.positions) : p \in keep /\ o = exit(p)
    BY <1>8
  <2>2. o.symbol = p.symbol /\ o.qty = p.qty /\ p.symbol \in HeldSymbols(ctx)
    BY <1>4, <1>5, <2>1
  <2>3. p = PositionOf(ctx, o.symbol)
    BY <2>2, HeldPosition
  <2>4. p.symbol \notin ctx.pending /\ p.symbol \notin Wanted(target)
    BY <2>1
  <2>5. Due(p, ctx, config)
    BY <2>2, <2>3, <2>4, WantedIsNotDue
  <2> QED
    BY <2>1, <2>2, <2>3, <2>4, <2>5
<1>12. \A o, x \in ToSet(exits) : o.symbol = x.symbol => o = x
  BY <1>11
<1>13. ASSUME NEW s \in HeldSymbols(ctx) \ ctx.pending, Due(PositionOf(ctx, s), ctx, config)
       PROVE  \E o \in ToSet(exits) : o.symbol = s
  <2> DEFINE p == PositionOf(ctx, s)
  <2>1. p \in ToSet(ctx.positions) /\ p.symbol = s
    BY <1>13, HeldPosition
  <2>2. p \in keep
    BY <1>13, <2>1, WantedIsNotDue
  <2> HIDE DEF p
  <2>3. exit(p) \in ToSet(exits) /\ exit(p).symbol = s
    BY <1>5, <1>9, <2>1, <2>2
  <2> QED
    BY <2>3
<1>14. Sales(ToSet(exits), ctx, config)
  BY <1>10, <1>11, <1>12, <1>13 DEF Sales
<1> QED
  BY <1>7, <1>14 DEF exits

\* The purchases of a cycle: none of a symbol with an open order, all of them paid.
Purchasing(purchases, target, ctx, config) ==
  /\ purchases \subseteq Purchase /\ IsFiniteSet(purchases)
  /\ SumFunctionOnSet(SetAsideFor(config), purchases) <= ctx.cash
  /\ \A o \in purchases :
       /\ o.symbol \notin ctx.pending
       /\ \E i \in DOMAIN target : /\ o.symbol = target[i].symbol /\ o.event = target[i].event
                                   /\ target[i].weight > 0
  /\ \A o, x \in purchases : o.symbol = x.symbol => o = x

LEMMA ConcatToSet ==
  ASSUME NEW S, NEW s \in Seq(S), NEW t \in Seq(S)
  PROVE  ToSet(s \o t) = ToSet(s) \cup ToSet(t)
<1> DEFINE whole == s \o t
<1>1. Joined(whole, s, t)
  BY ConcatFacts
<1> HIDE DEF whole
<1>2. ToSet(whole) \subseteq ToSet(s) \cup ToSet(t)
  <2> SUFFICES ASSUME NEW i \in DOMAIN whole PROVE whole[i] \in ToSet(s) \cup ToSet(t)
    BY DEF ToSet
  <2>1. i \in 1..Len(s) \/ i \in (Len(s) + 1)..(Len(s) + Len(t))
    BY <1>1 DEF Joined
  <2> QED
    BY <1>1, <2>1 DEF Joined, ToSet
<1>3. ToSet(s) \subseteq ToSet(whole)
  <2>1. \A i \in DOMAIN s : i \in DOMAIN whole /\ whole[i] = s[i]
    BY <1>1 DEF Joined
  <2> QED
    BY <2>1 DEF ToSet
<1>4. ToSet(t) \subseteq ToSet(whole)
  <2> SUFFICES ASSUME NEW i \in DOMAIN t PROVE t[i] \in ToSet(whole)
    BY DEF ToSet
  <2>1. i + Len(s) \in (Len(s) + 1)..(Len(s) + Len(t)) /\ (i + Len(s)) - Len(s) = i
    BY <1>1 DEF Joined
  <2>2. whole[i + Len(s)] = t[i] /\ i + Len(s) \in DOMAIN whole
    BY <1>1, <2>1 DEF Joined
  <2> QED
    BY <2>2 DEF ToSet
<1> QED
  BY <1>2, <1>3, <1>4 DEF whole

LEMMA ToOrdersFacts ==
  ASSUME NEW ctx, GoodContext(ctx), NEW config, CycleConfig(config),
         NEW target, TargetOf(target, ctx, config)
  PROVE  \E sales, purchases :
           /\ ToSet(ToOrders(target, ctx, config)) = sales \cup purchases
           /\ Sales(sales, ctx, config)
           /\ Purchasing(purchases, target, ctx, config)
<1> DEFINE exits == Exits(target, ctx)
           rest == IF ctx.equity <= 0 THEN <<>> ELSE Rebalances(target, ctx, config)
<1>1. exits \in Seq(Sale) /\ Sales(ToSet(exits), ctx, config)
  BY ExitsFacts
<1>2. rest \in Seq(Purchase) /\ Purchasing(ToSet(rest), target, ctx, config)
  <2>1. CASE ctx.equity <= 0
    <3>1. rest = <<>>
      BY <2>1
    <3> HIDE DEF rest
    <3>2. rest \in Seq(Purchase) /\ ToSet(rest) = {}
      BY <3>1 DEF ToSet
    <3>3. IsFiniteSet({}) /\ SumFunctionOnSet(SetAsideFor(config), {}) = 0
      BY FS_EmptySet, SumTakesFirst
    <3>4. ctx.cash \in Nat
      BY DEF GoodContext
    <3>5. Purchasing({}, target, ctx, config)
      BY <3>3, <3>4 DEF Purchasing
    <3> QED
      BY <3>2, <3>5
  <2>2. CASE ~(ctx.equity <= 0)
    <3>1. ctx.equity > 0 /\ rest = Rebalances(target, ctx, config)
      BY <2>2 DEF GoodContext
    <3> HIDE DEF rest
    <3>2. PICK plan : /\ PlanAt(plan, target, Len(target), ctx, config)
                      /\ rest = plan.orders
      BY <3>1, RebalancesFacts
    <3>3. DOMAIN target = 1..Len(target)
      BY DEF TargetOf
    <3> DEFINE sum == SumFunctionOnSet(SetAsideFor(config), ToSet(plan.orders))
    <3>4. plan.orders \in Seq(Purchase) /\ plan.cash \in Nat /\ sum + plan.cash = ctx.cash
      BY <3>2 DEF PlanAt
    <3>5. ToSet(plan.orders) \subseteq Purchase /\ IsFiniteSet(ToSet(plan.orders))
      BY <3>4, SeqToSetIsFinite
    <3>6. sum \in Int
      <4>1. \A o \in ToSet(plan.orders) : SetAsideFor(config)[o] \in Int
        BY <3>5, SetAsideIsNat
      <4> QED
        BY <3>5, <4>1, SumIsInt
    <3>7. sum <= ctx.cash
      <4> HIDE DEF sum
      <4> QED
        BY <3>4, <3>6
    <3> QED
      BY <3>2, <3>3, <3>5, <3>7 DEF PlanAt, Purchasing
  <2> QED
    BY <2>1, <2>2
<1>3. ToOrders(target, ctx, config) = exits \o rest
  BY DEF ToOrders
<1> HIDE DEF exits, rest
<1>4. ToSet(exits \o rest) = ToSet(exits) \cup ToSet(rest)
  <2>1. exits \in Seq(Sale \cup Purchase) /\ rest \in Seq(Sale \cup Purchase)
    BY <1>1, <1>2
  <2> QED
    BY <2>1, ConcatToSet
<1> QED
  BY <1>1, <1>2, <1>3, <1>4

-----------------------------------------------------------------------------
(* The tables and the account: the inductive invariant.                    *)

\* Bars lie in the past, and rows have the types of their columns.
RowInv ==
  /\ cfg \in Configs /\ day \in 1..MaxDay
  /\ \A s \in Symbols : bars[s] \in Seq(Bar)
  /\ \A s \in Symbols : \A i \in DOMAIN bars[s] : bars[s][i].day < day /\ bars[s][i].close > 0
  /\ feed \in Seq([event : Events, day : 1..day])
  /\ cash \in Int
  /\ positions \in [Symbols -> Position \cup {None}]
  /\ \A s \in Symbols : positions[s] = None \/ PositionRow(positions[s], s)
  /\ outstanding \subseteq Purchase \cup Sale /\ IsFiniteSet(outstanding)
  /\ usedEvents \subseteq Events
  /\ lastSell \in [Symbols -> (1..day) \cup {None}]
  /\ entries \in [Events -> Nat] /\ lastExit \in [Symbols -> (1..day) \cup {None}]
  /\ limitCosts \in Nat

\* A symbol has one open order, and a sale is of the whole position.
OrderInv ==
  /\ \A o, x \in outstanding : o.symbol = x.symbol => o = x
  /\ \A o \in outstanding :
       o.side = "sell" => positions[o.symbol] # None /\ o.qty = positions[o.symbol].qty

\* The account has what its open purchases set aside, except for the costs that
\* nothing was set aside for.
CashInv == SumFunctionOnSet(SetAsideFor(cfg), Purchases) <= cash + limitCosts

LEMMA ConfigIsValid ==
  ASSUME RowInv
  PROVE  CycleConfig(cfg)
BY TradingAssumption DEF RowInv

LEMMA PurchasesFacts ==
  ASSUME RowInv
  PROVE  /\ Purchases \subseteq Purchase /\ IsFiniteSet(Purchases)
         /\ \A o \in Purchases : SetAsideFor(cfg)[o] \in Nat
         /\ SumFunctionOnSet(SetAsideFor(cfg), Purchases) \in Nat
         /\ \A o \in outstanding : o \notin Purchases => o \in Sale
<1>1. Purchases \subseteq Purchase
  BY DEF RowInv, Purchases, Sale
<1>2. IsFiniteSet(Purchases)
  BY FS_Subset DEF RowInv, Purchases
<1>3. \A o \in Purchases : SetAsideFor(cfg)[o] \in Nat
  BY <1>1, ConfigIsValid, SetAsideIsNat
<1>4. SumFunctionOnSet(SetAsideFor(cfg), Purchases) \in Nat
  BY <1>2, <1>3, SumIsNat
<1>5. \A o \in outstanding : o \notin Purchases => o \in Sale
  BY DEF RowInv, Purchases, Purchase
<1> QED
  BY <1>1, <1>2, <1>3, <1>4, <1>5

LEMMA ReservedIsSum ==
  ASSUME RowInv
  PROVE  /\ Reserved = SumFunctionOnSet(SetAsideFor(cfg), Purchases)
         /\ Reserved \in Nat
<1> DEFINE f == [o \in Purchases |-> o.qty * MarginUnitPrice(o.ref, cfg)]
<1>1. /\ Purchases \subseteq Purchase /\ IsFiniteSet(Purchases)
      /\ SumFunctionOnSet(SetAsideFor(cfg), Purchases) \in Nat
  BY PurchasesFacts
<1>2. DOMAIN f = Purchases
  OBVIOUS
<1>3. \A o \in Purchases : f[o] = SetAsideFor(cfg)[o]
  BY <1>1, ConfigIsValid, SetAsideIsNat
<1>4. Reserved = SumFunctionOnSet(f, DOMAIN f)
  BY DEF Reserved, SumFunction
<1> HIDE DEF f
<1>5. Reserved = SumFunctionOnSet(f, Purchases)
  BY <1>2, <1>4, Zenon
<1>6. SumFunctionOnSet(f, Purchases) = SumFunctionOnSet(SetAsideFor(cfg), Purchases)
  BY <1>1, <1>3, SumOfEqual
<1> QED
  BY <1>1, <1>5, <1>6

LEMMA OrderableCashFacts ==
  ASSUME RowInv
  PROVE  /\ OrderableCash \in Nat
         /\ OrderableCash # 0 =>
              OrderableCash = cash - SumFunctionOnSet(SetAsideFor(cfg), Purchases)
<1> DEFINE rest == cash - Reserved
<1>1. Reserved = SumFunctionOnSet(SetAsideFor(cfg), Purchases) /\ Reserved \in Nat
  BY ReservedIsSum
<1>2. rest \in Int
  BY <1>1 DEF RowInv
<1>3. OrderableCash = Max({0, rest})
  BY DEF OrderableCash
<1>4. rest = cash - SumFunctionOnSet(SetAsideFor(cfg), Purchases)
  BY <1>1
<1> HIDE DEF rest
<1>5. OrderableCash \in {0, rest} /\ OrderableCash >= 0
  BY <1>2, <1>3, MaxOfTwo
<1> QED
  BY <1>2, <1>4, <1>5

LEMMA HeldFacts ==
  ASSUME RowInv
  PROVE  /\ Held \subseteq Symbols /\ IsFiniteSet(Held)
         /\ \A s \in Held : positions[s] \in Position /\ positions[s].symbol = s
<1>1. Held \subseteq Symbols
  BY DEF Held
<1>2. IsFiniteSet(Held)
  BY <1>1, JudgmentAssumption, FS_Subset
<1> QED
  BY <1>1, <1>2 DEF RowInv, Held, PositionRow

LEMMA WorthFacts ==
  ASSUME RowInv, NEW s \in Held
  PROVE  /\ Worth(s) \in Nat
         /\ bars[s] # <<>> => Worth(s) = positions[s].qty * Last(bars[s]).close
<1>1. s \in Symbols /\ positions[s] \in Position
  BY HeldFacts
<1>2. positions[s].qty \in Nat /\ positions[s].cost \in Nat
  BY <1>1 DEF Position
<1>3. CASE bars[s] = <<>>
  BY <1>2, <1>3 DEF Worth
<1>4. CASE bars[s] # <<>>
  <2>1. bars[s] \in Seq(Bar)
    BY <1>1 DEF RowInv
  <2>2. Len(bars[s]) \in DOMAIN bars[s]
    BY <1>4, <2>1
  <2>3. Last(bars[s]) \in Bar
    BY <2>1, <2>2 DEF Last
  <2>4. Last(bars[s]).close \in Nat
    BY <2>3 DEF Bar
  <2>5. \A a, b \in Nat : a * b \in Nat
    OBVIOUS
  <2> QED
    BY <1>2, <1>4, <2>4, <2>5 DEF Worth
<1> QED
  BY <1>3, <1>4

\* The equity of a context is no less than what each position counts for.
LEMMA EquityFacts ==
  ASSUME RowInv, CashInv
  PROVE  /\ OrderableCash + SumFunction([s \in Held |-> Worth(s)]) \in Nat
         /\ \A s \in Held : Worth(s) <= OrderableCash + SumFunction([t \in Held |-> Worth(t)])
<1> DEFINE f == [s \in Held |-> Worth(s)]
           sum == SumFunctionOnSet(f, Held)
<1>1. SumFunction(f) = sum
  <2>1. DOMAIN f = Held
    OBVIOUS
  <2> HIDE DEF f
  <2> QED
    BY <2>1, Zenon DEF SumFunction
<1>2. \A s \in Held : f[s] = Worth(s) /\ f[s] \in Nat
  BY WorthFacts
<1>3. IsFiniteSet(Held)
  BY HeldFacts
<1> HIDE DEF f
<1>4. sum \in Nat
  BY <1>2, <1>3, SumIsNat
<1>5. ASSUME NEW s \in Held PROVE f[s] <= sum
  <2>1. sum = f[s] + SumFunctionOnSet(f, Held \ {s})
    BY <1>2, <1>3, SumTakesAny
  <2>2. SumFunctionOnSet(f, Held \ {s}) \in Nat
    BY <1>2, <1>3, FS_Subset, SumIsNat
  <2> QED
    BY <1>2, <2>1, <2>2
<1>6. OrderableCash \in Nat
  BY OrderableCashFacts
<1> HIDE DEF sum
<1>7. OrderableCash + sum \in Nat /\ \A s \in Held : Worth(s) <= OrderableCash + sum
  BY <1>2, <1>4, <1>5, <1>6
<1> QED
  BY <1>1, <1>7 DEF f

LEMMA RecentEventsFacts ==
  ASSUME RowInv
  PROVE  RecentEvents \in Seq(Events)
<1> DEFINE recent == Select(feed, {f \in ToSet(feed) : day - f.day < EventLookback})
<1>1. recent \in Seq([event : Events, day : 1..day])
  BY SelectFacts DEF RowInv
<1>2. RecentEvents = [i \in DOMAIN recent |-> recent[i].event]
  BY DEF RecentEvents
<1> HIDE DEF recent
<1>3. DOMAIN recent = 1..Len(recent) /\ Len(recent) \in Nat
  BY <1>1
<1>4. \A i \in DOMAIN recent : recent[i].event \in Events
  <2> DEFINE R == [event : Events, day : 1..day]
  <2>1. \A i \in DOMAIN recent : recent[i] \in R
    <3> HIDE DEF R
    <3>1. recent \in Seq(R)
      BY <1>1 DEF R
    <3> QED
      BY <3>1
  <2>2. \A r \in R : r.event \in Events
    OBVIOUS
  <2> QED
    BY <2>1, <2>2
<1>5. RecentEvents \in [1..Len(recent) -> Events]
  BY <1>2, <1>3, <1>4
<1> QED
  BY <1>3, <1>5, FunctionIsSeq

\* The cycle lists every position, once.
LEMMA ListedFacts ==
  ASSUME RowInv, NEW listed \in SetToSeqs(Held)
  PROVE  /\ listed \in Seq(Held) /\ IsInjective(listed)
         /\ \A s \in Held : \E i \in DOMAIN listed : listed[i] = s
<1> DEFINE n == Cardinality(Held)
<1>1. IsFiniteSet(Held) /\ n \in Nat
  BY HeldFacts, FS_CardinalityType
<1>2. listed \in [1..n -> Held] /\ \A i, j \in 1..n : i # j => listed[i] # listed[j]
  BY DEF SetToSeqs
<1>3. IsInjective(listed)
  BY <1>2 DEF IsInjective
<1>4. listed \in Injection(1..n, Held)
  BY <1>2, <1>3 DEF Injection
<1>5. Cardinality(1..n) = n
  BY <1>1, FS_Interval
<1> HIDE DEF n
<1>6. listed \in Surjection(1..n, Held)
  BY <1>1, <1>4, <1>5, FS_Injection DEF n
<1>7. listed \in Seq(Held) /\ DOMAIN listed = 1..n
  BY <1>1, <1>2, FunctionIsSeq
<1> QED
  BY <1>3, <1>6, <1>7 DEF Surjection

LEMMA ContextIsGood ==
  ASSUME RowInv, CashInv, NEW listed \in SetToSeqs(Held), NEW barsLeft
  PROVE  /\ GoodContext(BuildContext(listed, barsLeft))
         /\ HeldSymbols(BuildContext(listed, barsLeft)) = Held
         /\ \A s \in Held : PositionOf(BuildContext(listed, barsLeft), s) = positions[s]
<1> DEFINE ctx == BuildContext(listed, barsLeft)
<1>1. /\ ctx.day = day /\ ctx.bars = bars /\ ctx.watchlist = Watchlist[day]
      /\ ctx.positions = [i \in DOMAIN listed |-> positions[listed[i]]]
      /\ ctx.events = RecentEvents /\ ctx.cash = OrderableCash
      /\ ctx.equity = OrderableCash + SumFunction([s \in Held |-> Worth(s)])
  BY DEF BuildContext
<1> HIDE DEF ctx
<1>2. /\ listed \in Seq(Held) /\ IsInjective(listed)
      /\ \A s \in Held : \E i \in DOMAIN listed : listed[i] = s
  BY ListedFacts
<1>3. DOMAIN listed = 1..Len(listed) /\ Len(listed) \in Nat /\ \A i \in DOMAIN listed : listed[i] \in Held
  BY <1>2
<1>4. /\ Held \subseteq Symbols
      /\ \A s \in Held : positions[s] \in Position /\ positions[s].symbol = s
  BY HeldFacts
<1>5. DOMAIN ctx.positions = DOMAIN listed
      /\ \A i \in DOMAIN listed : ctx.positions[i] = positions[listed[i]]
  BY <1>1
<1>6. ctx.positions \in Seq(Position)
  <2>1. ctx.positions \in [1..Len(listed) -> Position]
    BY <1>1, <1>3, <1>4
  <2> QED
    BY <1>3, <2>1, FunctionIsSeq
<1>7. \A i, j \in DOMAIN ctx.positions :
        ctx.positions[i].symbol = ctx.positions[j].symbol => i = j
  BY <1>2, <1>3, <1>4, <1>5 DEF IsInjective
<1>8. day \in Nat /\ day \in 1..MaxDay
  BY TradingAssumption DEF RowInv
<1>9. ctx.watchlist \in Seq(Symbols) /\ IsInjective(ctx.watchlist)
  <2>1. \A d \in 1..MaxDay : Watchlist[d] \in Seq(Symbols) /\ IsInjective(Watchlist[d])
    BY TradingAssumption
  <2>2. Watchlist[day] \in Seq(Symbols) /\ IsInjective(Watchlist[day])
    BY <1>8, <2>1
  <2> QED
    BY <1>1, <2>2
<1>10. ToSet(ctx.positions) = {positions[s] : s \in Held}
  BY <1>2, <1>3, <1>5 DEF ToSet
<1>11. \A s \in Symbols : ctx.bars[s] \in Seq(Bar)
  BY <1>1 DEF RowInv
<1>12. \A s \in Symbols : \A i \in DOMAIN ctx.bars[s] :
         ctx.bars[s][i].day <= ctx.day /\ ctx.bars[s][i].close > 0
  <2> SUFFICES ASSUME NEW s \in Symbols, NEW i \in DOMAIN bars[s]
               PROVE  bars[s][i].day <= day /\ bars[s][i].close > 0
    BY <1>1
  <2>1. bars[s][i].day < day /\ bars[s][i].close > 0 /\ bars[s] \in Seq(Bar)
    BY DEF RowInv
  <2>2. bars[s][i] \in Bar
    BY <2>1
  <2>3. bars[s][i].day \in Nat
    BY <2>2 DEF Bar
  <2> QED
    BY <1>8, <2>1, <2>3
<1>13. /\ ctx.cash \in Nat /\ ctx.equity \in Nat
       /\ \A s \in Held : Worth(s) <= ctx.equity
  BY <1>1, OrderableCashFacts, EquityFacts
<1>14. ASSUME NEW p \in ToSet(ctx.positions), HasBar(ctx, p.symbol)
       PROVE  p.qty * Latest(ctx, p.symbol).close <= ctx.equity
  <2>1. PICK s \in Held : p = positions[s] /\ p.symbol = s
    BY <1>4, <1>10
  <2>2. s \in Symbols /\ HasBar(ctx, s)
    BY <1>4, <1>14, <2>1
  <2>3. bars[s] # <<>> /\ Latest(ctx, s) = Last(bars[s])
    BY <1>1, <1>11, <1>12, <2>2, BarsAreSeen
  <2>4. Worth(s) = p.qty * Latest(ctx, p.symbol).close
    BY <2>1, <2>3, WorthFacts
  <2> QED
    BY <1>13, <2>1, <2>4
<1>15. ctx.events \in Seq(Events)
  BY <1>1, RecentEventsFacts
<1>16. GoodContext(ctx)
  BY <1>1, <1>6, <1>7, <1>8, <1>9, <1>11, <1>12, <1>13, <1>14, <1>15 DEF GoodContext
<1>17. HeldSymbols(ctx) = Held
  BY <1>4, <1>10 DEF HeldSymbols
<1>18. ASSUME NEW s \in Held PROVE PositionOf(ctx, s) = positions[s]
  <2>1. positions[s] \in ToSet(ctx.positions) /\ positions[s].symbol = s
    BY <1>4, <1>10
  <2>2. s \in HeldSymbols(ctx)
    BY <1>17
  <2> QED
    BY <1>16, <2>1, <2>2, HeldPosition
<1> QED
  BY <1>16, <1>17, <1>18 DEF ctx

-----------------------------------------------------------------------------
(* What a cycle decides in a state.                                        *)

\* The last sale of s is as long ago as the cooldown asks for.
CooledDown(s) ==
  (cfg.cooldownDays > 0 /\ lastSell[s] # None) => day - lastSell[s] >= cfg.cooldownDays

Decided(sales, purchases, ctx) ==
  /\ sales \subseteq Sale /\ IsFiniteSet(sales)
  /\ purchases \subseteq Purchase /\ IsFiniteSet(purchases)
  /\ \A o, x \in sales \cup purchases : o.symbol = x.symbol => o = x
  /\ \A o \in sales \cup purchases : o.symbol \notin PendingSymbols
  /\ \A o \in sales : o.symbol \in Held /\ o.qty = positions[o.symbol].qty
  /\ \A s \in Held \ PendingSymbols :
       (\E o \in sales : o.symbol = s) <=> Due(positions[s], ctx, cfg)
  /\ SumFunctionOnSet(SetAsideFor(cfg), purchases) <= OrderableCash
  /\ \A o \in purchases : o.symbol \notin Held =>
       /\ CooledDown(o.symbol)
       /\ o.event # None => o.event \notin usedEvents
  /\ \A o, x \in purchases :
       (/\ o.symbol \notin Held /\ x.symbol \notin Held
        /\ o.event # None /\ o.event = x.event) => o = x

LEMMA CycleDecides ==
  ASSUME RowInv, CashInv, NEW listed \in SetToSeqs(Held), NEW barsLeft,
         NEW killSwitch \in BOOLEAN
  PROVE  \E sales, purchases :
           /\ ToSet(CycleOrders(BuildContext(listed, barsLeft), cfg, killSwitch))
                = sales \cup purchases
           /\ Decided(sales, purchases, BuildContext(listed, barsLeft))
<1> DEFINE ctx == BuildContext(listed, barsLeft)
           target == FinalTarget(ctx, cfg, killSwitch)
<1>1. /\ ctx.day = day /\ ctx.usedEvents = usedEvents /\ ctx.lastExit = lastSell
      /\ ctx.pending = PendingSymbols /\ ctx.cash = OrderableCash
  BY DEF BuildContext
<1>2. /\ GoodContext(ctx) /\ HeldSymbols(ctx) = Held
      /\ \A s \in Held : PositionOf(ctx, s) = positions[s]
  BY ContextIsGood
<1> HIDE DEF ctx
<1>3. CycleConfig(cfg)
  BY ConfigIsValid
<1>4. TargetOf(target, ctx, cfg) /\ Fresh(target, ctx, cfg)
  BY <1>2, <1>3, FinalTargetFacts
<1>5. CycleOrders(ctx, cfg, killSwitch) = ToOrders(target, ctx, cfg)
  BY DEF CycleOrders
<1> HIDE DEF target
<1>6. PICK sales, purchases :
        /\ ToSet(ToOrders(target, ctx, cfg)) = sales \cup purchases
        /\ Sales(sales, ctx, cfg)
        /\ Purchasing(purchases, target, ctx, cfg)
  BY <1>2, <1>3, <1>4, ToOrdersFacts
<1>7. /\ sales \subseteq Sale /\ IsFiniteSet(sales)
      /\ \A o \in sales : /\ o.symbol \in Held \ PendingSymbols
                          /\ Due(positions[o.symbol], ctx, cfg)
                          /\ o.qty = positions[o.symbol].qty
      /\ \A o, x \in sales : o.symbol = x.symbol => o = x
      /\ \A s \in Held \ PendingSymbols :
           Due(positions[s], ctx, cfg) => \E o \in sales : o.symbol = s
  BY <1>1, <1>2, <1>6 DEF Sales
<1>8. /\ purchases \subseteq Purchase /\ IsFiniteSet(purchases)
      /\ SumFunctionOnSet(SetAsideFor(cfg), purchases) <= OrderableCash
      /\ \A o \in purchases :
           /\ o.symbol \notin PendingSymbols
           /\ \E i \in DOMAIN target : /\ o.symbol = target[i].symbol
                                       /\ o.event = target[i].event
                                       /\ target[i].weight > 0
      /\ \A o, x \in purchases : o.symbol = x.symbol => o = x
  BY <1>1, <1>6 DEF Purchasing
<1>9. \A o \in purchases, x \in sales : o.symbol # x.symbol
  <2> SUFFICES ASSUME NEW o \in purchases, NEW x \in sales, o.symbol = x.symbol PROVE FALSE
    OBVIOUS
  <2>1. PICK i \in DOMAIN target : o.symbol = target[i].symbol /\ target[i].weight > 0
    BY <1>8
  <2>2. o.symbol \in Held /\ Due(positions[o.symbol], ctx, cfg)
    BY <1>7
  <2>3. ~Due(PositionOf(ctx, target[i].symbol), ctx, cfg)
    BY <1>2, <1>3, <1>4, <2>1, <2>2, WantedItemFacts
  <2> QED
    BY <1>2, <2>1, <2>2, <2>3
<1>10. \A o, x \in sales \cup purchases : o.symbol = x.symbol => o = x
  BY <1>7, <1>8, <1>9
<1>11. \A o \in sales \cup purchases : o.symbol \notin PendingSymbols
  BY <1>7, <1>8
<1>12. ASSUME NEW o \in purchases, o.symbol \notin Held
       PROVE  CooledDown(o.symbol) /\ (o.event # None => o.event \notin usedEvents)
  <2>1. PICK i \in DOMAIN target : o.symbol = target[i].symbol /\ o.event = target[i].event
    BY <1>8
  <2>2. /\ ~InCooldown(o.symbol, ctx, cfg)
        /\ o.event # None => o.event \notin UsedEvents(ctx)
    BY <1>2, <1>4, <1>12, <2>1 DEF Fresh
  <2>3. o.symbol \in Symbols
    BY <1>8 DEF Purchase
  <2>4. CooledDown(o.symbol)
    <3>1. lastSell[o.symbol] # None => lastSell[o.symbol] \in Int
      BY <2>3 DEF RowInv
    <3>2. day \in Int /\ cfg.cooldownDays \in Int
      BY <1>3 DEF RowInv, CycleConfig
    <3> QED
      BY <1>1, <2>2, <3>1, <3>2 DEF InCooldown, CooledDown
  <2> QED
    BY <1>1, <2>2, <2>4 DEF UsedEvents
<1>13. ASSUME NEW o \in purchases, NEW x \in purchases,
              o.symbol \notin Held, x.symbol \notin Held,
              o.event # None, o.event = x.event
       PROVE  o = x
  <2>1. PICK i \in DOMAIN target : o.symbol = target[i].symbol /\ o.event = target[i].event
    BY <1>8
  <2>2. PICK j \in DOMAIN target : x.symbol = target[j].symbol /\ x.event = target[j].event
    BY <1>8
  <2>3. i = j
    BY <1>2, <1>4, <1>13, <2>1, <2>2 DEF Fresh
  <2> QED
    BY <1>8, <2>1, <2>2, <2>3
<1>14. \A s \in Held \ PendingSymbols :
         (\E o \in sales : o.symbol = s) <=> Due(positions[s], ctx, cfg)
  BY <1>7
<1>15. Decided(sales, purchases, ctx)
  BY <1>7, <1>8, <1>10, <1>11, <1>12, <1>13, <1>14 DEF Decided
<1> QED
  BY <1>5, <1>6, <1>15 DEF ctx

-----------------------------------------------------------------------------
(* Types, orders and cash are preserved.                                   *)

\* What a cycle changes.
CycleChanges(sales, purchases) ==
  /\ outstanding' = outstanding \cup (sales \cup purchases)
  /\ usedEvents' = usedEvents \cup ({o.event : o \in sales \cup purchases} \ {None})
  /\ lastSell' = [s \in Symbols |-> IF \E o \in sales : o.symbol = s THEN day ELSE lastSell[s]]
  /\ limitCosts' = IF purchases # {} THEN 0 ELSE limitCosts
  /\ UNCHANGED <<cfg, day, bars, feed, cash, positions, entries, lastExit>>

LEMMA CycleEffect ==
  ASSUME RowInv, CashInv, Cycle
  PROVE  \E sales, purchases, ctx :
           Decided(sales, purchases, ctx) /\ CycleChanges(sales, purchases)
<1>1. PICK listed \in SetToSeqs(Held), barsLeft \in SessionBars, killSwitch \in BOOLEAN :
        LET orders == ToSet(CycleOrders(BuildContext(listed, barsLeft), cfg, killSwitch))
            bought == {o \in orders : o.side = "buy"}
            sold   == {o.symbol : o \in {x \in orders : x.side = "sell"}}
        IN /\ orders # {}
           /\ outstanding' = outstanding \cup orders
           /\ usedEvents' = usedEvents \cup ({o.event : o \in orders} \ {None})
           /\ lastSell' = [s \in Symbols |-> IF s \in sold THEN day ELSE lastSell[s]]
           /\ limitCosts' = IF bought # {} THEN 0 ELSE limitCosts
           /\ UNCHANGED <<cfg, market, account, entries, lastExit>>
  BY DEF Cycle
<1> DEFINE ctx == BuildContext(listed, barsLeft)
           orders == ToSet(CycleOrders(ctx, cfg, killSwitch))
           bought == {o \in orders : o.side = "buy"}
           sold   == {o.symbol : o \in {x \in orders : x.side = "sell"}}
<1>2. PICK sales, purchases : orders = sales \cup purchases /\ Decided(sales, purchases, ctx)
  BY CycleDecides
<1>3. /\ outstanding' = outstanding \cup orders
      /\ usedEvents' = usedEvents \cup ({o.event : o \in orders} \ {None})
      /\ lastSell' = [s \in Symbols |-> IF s \in sold THEN day ELSE lastSell[s]]
      /\ limitCosts' = IF bought # {} THEN 0 ELSE limitCosts
      /\ UNCHANGED <<cfg, market, account, entries, lastExit>>
  BY <1>1
<1> HIDE DEF orders, ctx
<1>4. \A s : s \in sold <=> \E o \in sales : o.symbol = s
  BY <1>2 DEF Decided, Sale, Purchase
<1>5. bought = purchases
  BY <1>2 DEF Decided, Sale, Purchase
<1> HIDE DEF sold, bought
<1>6. limitCosts' = IF purchases # {} THEN 0 ELSE limitCosts
  BY <1>3, <1>5
<1>7. CycleChanges(sales, purchases)
  BY <1>2, <1>3, <1>4, <1>6 DEF CycleChanges, market, account
<1> QED
  BY <1>2, <1>7

LEMMA CycleKeepsRows ==
  ASSUME RowInv, CashInv, Cycle
  PROVE  RowInv'
<1>1. PICK sales, purchases, ctx :
        Decided(sales, purchases, ctx) /\ CycleChanges(sales, purchases)
  BY CycleEffect
<1>2. outstanding' \subseteq Purchase \cup Sale /\ IsFiniteSet(outstanding')
  <2>1. IsFiniteSet(sales \cup purchases)
    BY <1>1, FS_Union DEF Decided
  <2>2. IsFiniteSet(outstanding \cup (sales \cup purchases))
    BY <2>1, FS_Union DEF RowInv
  <2> QED
    BY <1>1, <2>2 DEF RowInv, Decided, CycleChanges
<1>3. usedEvents' \subseteq Events
  BY <1>1 DEF RowInv, Decided, CycleChanges, Sale, Purchase
<1>4. lastSell' \in [Symbols -> (1..day) \cup {None}]
  <2>1. day \in 1..day
    BY DEF RowInv
  <2> QED
    BY <1>1, <2>1 DEF RowInv, CycleChanges
<1>5. UNCHANGED <<cfg, day, bars, feed, cash, positions, entries, lastExit>>
  BY <1>1 DEF CycleChanges
<1>6. limitCosts' \in Nat
  BY <1>1 DEF RowInv, CycleChanges
<1> QED
  BY <1>2, <1>3, <1>4, <1>5, <1>6 DEF RowInv, PositionRow

LEMMA CycleKeepsOrders ==
  ASSUME RowInv, CashInv, OrderInv, Cycle
  PROVE  OrderInv'
<1>1. PICK sales, purchases, ctx :
        Decided(sales, purchases, ctx) /\ CycleChanges(sales, purchases)
  BY CycleEffect
<1>2. \A o \in outstanding : o.symbol \in PendingSymbols
  BY DEF PendingSymbols
<1>3. \A o, x \in outstanding' : o.symbol = x.symbol => o = x
  BY <1>1, <1>2 DEF OrderInv, Decided, CycleChanges
<1>4. ASSUME NEW o \in outstanding', o.side = "sell"
      PROVE  positions[o.symbol] # None /\ o.qty = positions[o.symbol].qty
  <2>1. CASE o \in outstanding
    BY <1>4, <2>1 DEF OrderInv
  <2>2. CASE o \in sales
    BY <1>1, <2>2 DEF Decided, Held
  <2>3. CASE o \in purchases
    BY <1>1, <1>4, <2>3 DEF Decided, Purchase
  <2> QED
    BY <1>1, <2>1, <2>2, <2>3 DEF CycleChanges
<1>5. positions' = positions
  BY <1>1 DEF CycleChanges
<1> QED
  BY <1>3, <1>4, <1>5 DEF OrderInv

LEMMA CycleKeepsCash ==
  ASSUME RowInv, CashInv, Cycle
  PROVE  CashInv'
<1>1. PICK sales, purchases, ctx :
        Decided(sales, purchases, ctx) /\ CycleChanges(sales, purchases)
  BY CycleEffect
<1> DEFINE f == SetAsideFor(cfg)
           all == Purchases \cup purchases
<1>2. /\ Purchases \subseteq Purchase /\ IsFiniteSet(Purchases)
      /\ SumFunctionOnSet(f, Purchases) \in Nat
  BY PurchasesFacts
<1>3. /\ purchases \subseteq Purchase /\ IsFiniteSet(purchases)
      /\ SumFunctionOnSet(f, purchases) <= OrderableCash
  BY <1>1 DEF Decided
<1>4. Purchases' = all
  BY <1>1 DEF Purchases, CycleChanges, Decided, Sale, Purchase
<1>5. all \ Purchases = purchases
  BY <1>1, <1>3 DEF Decided, Purchases, PendingSymbols
<1>6. /\ OrderableCash # 0 => OrderableCash = cash - SumFunctionOnSet(f, Purchases)
      /\ cash \in Int /\ limitCosts \in Nat
  BY OrderableCashFacts DEF RowInv
<1>7. \A o \in all : f[o] \in Nat \ {0}
  <2> SUFFICES ASSUME NEW o \in all PROVE f[o] \in Nat \ {0}
    OBVIOUS
  <2>1. o.qty \in Nat \ {0} /\ o.ref \in Nat /\ o \in Purchase
    BY <1>2, <1>3 DEF Purchase
  <2>2. MarginUnitPrice(o.ref, cfg) \in Nat \ {0}
    BY <2>1, ConfigIsValid, MarginFacts
  <2>3. \A a, b \in Nat \ {0} : a * b \in Nat \ {0}
    OBVIOUS
  <2>4. f[o] = o.qty * MarginUnitPrice(o.ref, cfg)
    BY <2>1, ConfigIsValid, SetAsideIsNat
  <2> QED
    BY <2>1, <2>2, <2>3, <2>4
<1>8. IsFiniteSet(all)
  BY <1>2, <1>3, FS_Union
<1>9. cfg' = cfg /\ cash' = cash /\ limitCosts' = IF purchases # {} THEN 0 ELSE limitCosts
  BY <1>1 DEF CycleChanges
<1> HIDE DEF f
<1>10. CASE purchases = {}
  <2>1. Purchases' = Purchases
    BY <1>4, <1>10
  <2>2. limitCosts' = limitCosts
    BY <1>9, <1>10
  <2> QED
    BY <1>9, <2>1, <2>2 DEF CashInv
<1>11. CASE purchases # {}
  <2>1. SumFunctionOnSet(f, all)
          = SumFunctionOnSet(f, Purchases) + SumFunctionOnSet(f, all \ Purchases)
    <3>1. Purchases \in SUBSET all
      OBVIOUS
    <3>2. \A o \in all : f[o] \in Int
      BY <1>7
    <3> HIDE DEF all
    <3> QED
      BY <1>8, <3>1, <3>2, SumOfParts
  <2>2. SumFunctionOnSet(f, all)
          = SumFunctionOnSet(f, Purchases) + SumFunctionOnSet(f, purchases)
    BY <1>5, <2>1, Zenon
  <2>3. SumFunctionOnSet(f, purchases) \in Nat \ {0}
    <3>1. PICK o \in purchases : TRUE
      BY <1>11
    <3>2. \A x \in purchases : f[x] \in Nat \ {0}
      BY <1>7
    <3>3. SumFunctionOnSet(f, purchases) = f[o] + SumFunctionOnSet(f, purchases \ {o})
      <4>1. \A x \in purchases : f[x] \in Int
        BY <3>2
      <4> QED
        BY <1>3, <4>1, SumTakesAny
    <3>4. SumFunctionOnSet(f, purchases \ {o}) \in Nat
      <4>1. IsFiniteSet(purchases \ {o}) /\ \A x \in purchases \ {o} : f[x] \in Nat
        BY <1>3, <3>2, FS_Subset
      <4> QED
        BY <4>1, SumIsNat
    <3> QED
      BY <3>2, <3>3, <3>4
  <2>4. OrderableCash \in Nat
    BY OrderableCashFacts
  <2>5. OrderableCash = cash - SumFunctionOnSet(f, Purchases)
    BY <1>3, <1>6, <2>3, <2>4
  <2>6. SumFunctionOnSet(f, all) <= cash
    BY <1>2, <1>3, <1>6, <2>2, <2>3, <2>5
  <2>7. SumFunctionOnSet(f, all) \in Int
    BY <1>2, <2>2, <2>3
  <2>8. Purchases' = all /\ cash' = cash /\ limitCosts' = 0 /\ cfg' = cfg
    BY <1>4, <1>9, <1>11
  <2>9. SumFunctionOnSet(f, all) <= cash + 0
    BY <1>6, <2>6, <2>7
  <2> HIDE DEF all
  <2> QED
    BY <2>8, <2>9 DEF CashInv, f
<1> QED
  BY <1>10, <1>11

\* What the fill of a purchase changes: row is the position afterwards.
BuyChanges(o, price, row) ==
  /\ o \in Purchases /\ price \in Nat \ {0} /\ price <= MarginUnitPrice(o.ref, cfg)
  /\ row \in Position /\ row.symbol = o.symbol /\ row.entered \in 1..day
  /\ positions' = [positions EXCEPT ![o.symbol] = row]
  /\ cash' = cash - o.qty * price - Cost(o.qty * price)
  /\ limitCosts' = limitCosts + UncoveredCosts(o, price)
  /\ entries' = [e \in Events |->
       IF e = o.event /\ o.symbol \notin Held THEN entries[e] + 1 ELSE entries[e]]
  /\ outstanding' = outstanding \ {o}
  /\ UNCHANGED <<cfg, day, bars, feed, usedEvents, lastSell, lastExit>>

\* What the fill of a sale changes.
SellChanges(o, price) ==
  /\ o \in outstanding /\ o \in Sale /\ price \in Nat \ {0}
  /\ positions' = [positions EXCEPT ![o.symbol] = None]
  /\ cash' = cash + o.qty * price - Cost(o.qty * price)
  /\ lastExit' = [lastExit EXCEPT ![o.symbol] = day]
  /\ outstanding' = outstanding \ {o}
  /\ UNCHANGED <<cfg, day, bars, feed, usedEvents, lastSell, entries, limitCosts>>

\* A fill does not cost more than it is worth.
LEMMA CostFacts ==
  ASSUME NEW value \in Nat
  PROVE  Cost(value) \in Nat /\ Cost(value) <= value
<1> DEFINE product == value * CostPct
<1>1. CostPct \in 0..100
  BY TradingAssumption
<1>2. \A a \in Nat, b \in 0..100 : a * b \in Nat /\ a * b <= a * 100
  OBVIOUS
<1>3. product \in Nat /\ product <= value * 100
  BY <1>1, <1>2
<1>4. Cost(value) = product \div 100
  BY DEF Cost
<1> HIDE DEF product
<1> QED
  BY <1>3, <1>4

LEMMA ProductsOfNumbers ==
  /\ \A a, b \in Nat : a * b \in Nat
  /\ \A a, b \in Nat \ {0} : a * b \in Nat \ {0}
OBVIOUS

LEMMA MoreOfPosition ==
  ASSUME NEW p \in Position, NEW qty \in Nat \ {0}, NEW cost \in Nat \ {0}
  PROVE  LET row == [p EXCEPT !.qty = qty, !.cost = cost]
         IN row \in Position /\ row.symbol = p.symbol /\ row.entered = p.entered
BY DEF Position

LEMMA FillBuyEffect ==
  ASSUME RowInv, NEW o \in outstanding, NEW price \in FillPrices, FillBuy(o, price),
         outstanding' = outstanding \ {o}, UNCHANGED <<cfg, market, history>>
  PROVE  \E row : BuyChanges(o, price, row)
<1> DEFINE p == positions[o.symbol]
           row == IF p # None
                  THEN [p EXCEPT !.qty = @ + o.qty, !.cost = @ + o.qty * price]
                  ELSE [symbol |-> o.symbol, qty |-> o.qty, cost |-> o.qty * price,
                        entered |-> day, rule |-> o.rule, event |-> o.event]
<1>1. o \in Purchases
  BY DEF FillBuy, Purchases
<1>2. o \in Purchase
  BY <1>1, PurchasesFacts
<1>3. /\ o.symbol \in Symbols /\ o.qty \in Nat \ {0} /\ o.event \in Events \cup {None}
      /\ o.rule \in ExitRule /\ o.ref \in Nat \ {0}
  BY <1>2 DEF Purchase
<1>4. price \in Nat \ {0}
  BY TradingAssumption
<1>5. price <= MarginUnitPrice(o.ref, cfg)
  <2> DEFINE highest == o.ref * (100 + cfg.priceLimit)
  <2>1. /\ highest \in Nat
        /\ MarginUnitPrice(o.ref, cfg) = (highest \div 100) + 1
    BY <1>3, ConfigIsValid, MarginFacts
  <2>2. price * 100 <= highest
    BY DEF FillBuy, WithinLimit
  <2> HIDE DEF highest
  <2> QED
    BY <1>4, <2>1, <2>2
<1>6. o.qty * price \in Nat \ {0}
  BY <1>3, <1>4, ProductsOfNumbers
<1>7. day \in 1..day /\ day \in Nat
  BY DEF RowInv
<1>8. p # None => p \in Position /\ p.symbol = o.symbol /\ p.entered \in 1..day
  BY <1>3 DEF RowInv, PositionRow
<1>9. row \in Position /\ row.symbol = o.symbol /\ row.entered \in 1..day
  <2>1. CASE p = None
    <3> DEFINE paid == o.qty * price
    <3>1. row = [symbol |-> o.symbol, qty |-> o.qty, cost |-> paid,
                 entered |-> day, rule |-> o.rule, event |-> o.event]
      BY <2>1
    <3> HIDE DEF paid, row
    <3> QED
      BY <1>3, <1>6, <1>7, <3>1 DEF Position, paid
  <2>2. CASE p # None
    <3> DEFINE paid == o.qty * price
               qty == p.qty + o.qty
               cost == p.cost + paid
    <3>1. p.qty \in Nat \ {0} /\ p.cost \in Nat \ {0}
      BY <1>8, <2>2 DEF Position
    <3>2. qty \in Nat \ {0}
      BY <1>3, <3>1
    <3>3. cost \in Nat \ {0}
      <4> HIDE DEF paid
      <4> QED
        BY <1>6, <3>1 DEF paid
    <3>4. row = [p EXCEPT !.qty = qty, !.cost = cost]
      BY <2>2
    <3> HIDE DEF qty, cost, row
    <3>5. row \in Position /\ row.symbol = p.symbol /\ row.entered = p.entered
      BY <1>8, <2>2, <3>2, <3>3, <3>4, MoreOfPosition
    <3> QED
      BY <1>8, <2>2, <3>5
  <2> HIDE DEF p, row
  <2> QED
    BY <2>1, <2>2
<1>10. positions' = [positions EXCEPT ![o.symbol] = row]
  BY DEF FillBuy
<1>11. /\ cash' = cash - o.qty * price - Cost(o.qty * price) /\ UNCHANGED lastExit
       /\ limitCosts' = limitCosts + UncoveredCosts(o, price)
       /\ entries' = [e \in Events |->
            IF e = o.event /\ o.symbol \notin Held THEN entries[e] + 1 ELSE entries[e]]
  BY DEF FillBuy
<1>12. UNCHANGED <<cfg, day, bars, feed, usedEvents, lastSell>>
  BY DEF market, history
<1> HIDE DEF row
<1> QED
  BY <1>1, <1>4, <1>5, <1>9, <1>10, <1>11, <1>12 DEF BuyChanges

LEMMA FillSellEffect ==
  ASSUME RowInv, OrderInv, NEW o \in outstanding, NEW price \in FillPrices,
         FillSell(o, price), outstanding' = outstanding \ {o},
         UNCHANGED <<cfg, market, history>>
  PROVE  SellChanges(o, price)
<1>1. o.side = "sell"
  BY DEF FillSell
<1>2. o \in Sale
  BY <1>1 DEF RowInv, Purchase
<1>3. price \in Nat \ {0}
  BY TradingAssumption
<1>4. o.qty \in Nat /\ o.qty = positions[o.symbol].qty
  BY <1>1, <1>2 DEF OrderInv, Sale
<1>5. Depleted(o.qty, positions[o.symbol].qty)
  BY <1>4 DEF Depleted
<1>6. /\ positions' = [positions EXCEPT ![o.symbol] = None]
      /\ lastExit' = [lastExit EXCEPT ![o.symbol] = day]
      /\ cash' = cash + o.qty * price - Cost(o.qty * price)
      /\ UNCHANGED <<entries, limitCosts>>
  BY <1>5 DEF FillSell
<1>7. UNCHANGED <<cfg, day, bars, feed, usedEvents, lastSell>>
  BY DEF market, history
<1> QED
  BY <1>2, <1>3, <1>6, <1>7 DEF SellChanges

LEMMA FillEffect ==
  ASSUME RowInv, OrderInv, Fill
  PROVE  \E o, price : SellChanges(o, price) \/ \E row : BuyChanges(o, price, row)
<1>1. PICK o \in outstanding, price \in FillPrices :
        /\ FillBuy(o, price) \/ FillSell(o, price)
        /\ outstanding' = outstanding \ {o}
        /\ UNCHANGED <<cfg, market, history>>
  BY DEF Fill
<1>2. CASE FillBuy(o, price)
  <2>1. \E row : BuyChanges(o, price, row)
    BY <1>1, <1>2, FillBuyEffect
  <2> QED
    BY <2>1
<1>3. CASE FillSell(o, price)
  <2>1. SellChanges(o, price)
    BY <1>1, <1>3, FillSellEffect
  <2> QED
    BY <2>1
<1> QED
  BY <1>1, <1>2, <1>3

LEMMA BuyKeepsAccount ==
  ASSUME RowInv, OrderInv, CashInv, NEW o, NEW price, NEW row, BuyChanges(o, price, row)
  PROVE  RowInv' /\ OrderInv' /\ CashInv'
<1>1. /\ Purchases \subseteq Purchase /\ IsFiniteSet(Purchases)
      /\ \A x \in Purchases : SetAsideFor(cfg)[x] \in Nat
      /\ SumFunctionOnSet(SetAsideFor(cfg), Purchases) \in Nat
  BY PurchasesFacts
<1>2. o \in Purchases /\ o \in Purchase /\ o \in outstanding
  BY <1>1 DEF BuyChanges, Purchases
<1>3. o.symbol \in Symbols /\ o.qty \in Nat /\ o.ref \in Nat /\ o.side = "buy"
  BY <1>2 DEF Purchase
<1>4. price \in Nat /\ o.qty * price \in Nat /\ cash \in Int /\ limitCosts \in Nat
  BY <1>3, ProductsOfNumbers DEF BuyChanges, RowInv
<1> DEFINE paid == o.qty * price
           held == o.qty * MarginUnitPrice(o.ref, cfg)
<1>8. /\ paid \in Nat /\ Cost(paid) \in Nat
      /\ cash' = cash - paid - Cost(paid)
      /\ limitCosts' = limitCosts + IF paid + Cost(paid) > held THEN Cost(paid) ELSE 0
  BY <1>4, CostFacts DEF BuyChanges, UncoveredCosts
<1>5. RowInv'
  <2>1. positions' \in [Symbols -> Position \cup {None}]
    BY <1>3 DEF RowInv, BuyChanges
  <2>2. \A s \in Symbols : positions'[s] = None \/ PositionRow(positions[s], s)'
    BY <1>3 DEF RowInv, BuyChanges, PositionRow
  <2>3. cash' \in Int /\ limitCosts' \in Nat
    <3> HIDE DEF paid, held
    <3> QED
      BY <1>4, <1>8
  <2>4. entries' \in [Events -> Nat]
    BY DEF RowInv, BuyChanges
  <2>5. outstanding' \subseteq Purchase \cup Sale /\ IsFiniteSet(outstanding')
    BY FS_Subset DEF RowInv, BuyChanges
  <2>6. UNCHANGED <<cfg, day, bars, feed, usedEvents, lastSell, lastExit>>
    BY DEF BuyChanges
  <2> QED
    BY <2>1, <2>2, <2>3, <2>4, <2>5, <2>6 DEF RowInv
<1>6. OrderInv'
  <2>1. \A x, y \in outstanding' : x.symbol = y.symbol => x = y
    BY DEF OrderInv, BuyChanges
  <2>2. ASSUME NEW x \in outstanding', x.side = "sell"
        PROVE  positions'[x.symbol] # None /\ x.qty = positions'[x.symbol].qty
    <3>1. x \in outstanding /\ x # o
      BY DEF BuyChanges
    <3>2. x.symbol # o.symbol
      BY <1>2, <3>1 DEF OrderInv
    <3>3. x \in Sale
      BY <2>2, <3>1 DEF RowInv, Purchase
    <3>4. x.symbol \in Symbols
      BY <3>3 DEF Sale
    <3>5. positions'[x.symbol] = positions[x.symbol]
      BY <3>2, <3>4 DEF BuyChanges, RowInv
    <3> QED
      BY <2>2, <3>1, <3>5 DEF OrderInv
  <2> QED
    BY <2>1, <2>2 DEF OrderInv
<1>7. CashInv'
  <2> DEFINE f == SetAsideFor(cfg)
             rest == Purchases \ {o}
             margin == MarginUnitPrice(o.ref, cfg)
  <2>1. Purchases' = rest
    BY DEF Purchases, BuyChanges
  <2>2. f[o] = o.qty * margin
    BY <1>2, ConfigIsValid, SetAsideIsNat
  <2>3. SumFunctionOnSet(f, Purchases) = f[o] + SumFunctionOnSet(f, rest)
    <3> HIDE DEF f
    <3>1. \A x \in Purchases : f[x] \in Int
      BY <1>1 DEF f
    <3> QED
      BY <1>1, <1>2, <3>1, SumTakesAny
  <2>4. SumFunctionOnSet(f, rest) \in Nat
    <3>1. IsFiniteSet(rest) /\ \A x \in rest : f[x] \in Nat
      BY <1>1, FS_Subset
    <3> HIDE DEF f, rest
    <3> QED
      BY <3>1, SumIsNat
  <2>5. margin \in Nat /\ price <= margin
    BY <1>3, ConfigIsValid, MarginFacts DEF BuyChanges
  <2> HIDE DEF f, rest, margin
  <2>6. o.qty * price <= o.qty * margin /\ o.qty * margin \in Nat
    BY <1>3, <1>4, <2>5
  <2>7. SumFunctionOnSet(f, Purchases) <= cash + limitCosts
    BY DEF CashInv, f
  <2>8. paid <= held /\ held \in Nat /\ f[o] = held
    BY <2>2, <2>6 DEF margin
  <2>9. SumFunctionOnSet(f, rest) <= cash' + limitCosts'
    <3> HIDE DEF paid, held
    <3>1. cash' + limitCosts' >= cash + limitCosts - held
      <4>1. CASE paid + Cost(paid) > held
        <5>1. limitCosts' = limitCosts + Cost(paid)
          BY <1>8, <4>1
        <5> QED
          BY <1>4, <1>8, <2>8, <5>1
      <4>2. CASE ~(paid + Cost(paid) > held)
        <5>1. limitCosts' = limitCosts
          BY <1>4, <1>8, <4>2
        <5> QED
          BY <1>4, <1>8, <2>8, <4>2, <5>1
      <4> QED
        BY <4>1, <4>2
    <3>2. SumFunctionOnSet(f, rest) <= cash + limitCosts - held
      <4>1. held + SumFunctionOnSet(f, rest) <= cash + limitCosts
        BY <2>3, <2>7, <2>8
      <4> QED
        BY <1>4, <2>4, <2>8, <4>1
    <3> DEFINE before == cash + limitCosts - held
               after  == cash' + limitCosts'
    <3>3. before \in Int
      BY <1>4, <2>8
    <3>4. after \in Int
      BY <1>4, <1>8
    <3>5. after >= before /\ SumFunctionOnSet(f, rest) <= before
      BY <3>1, <3>2
    <3> HIDE DEF before, after
    <3>6. SumFunctionOnSet(f, rest) <= after
      BY <2>4, <3>3, <3>4, <3>5
    <3> QED
      BY <3>6 DEF after
  <2>10. cfg' = cfg
    BY DEF BuyChanges
  <2> QED
    BY <2>1, <2>9, <2>10 DEF CashInv, f
<1> QED
  BY <1>5, <1>6, <1>7

LEMMA SellKeepsAccount ==
  ASSUME RowInv, OrderInv, CashInv, NEW o, NEW price, SellChanges(o, price)
  PROVE  RowInv' /\ OrderInv' /\ CashInv'
<1>1. o \in outstanding /\ o \in Sale
  BY DEF SellChanges
<1>2. o.symbol \in Symbols /\ o.qty \in Nat /\ o.side = "sell"
  BY <1>1 DEF Sale
<1>3. /\ cash \in Int /\ limitCosts \in Nat /\ limitCosts' = limitCosts
      /\ cash' \in Int /\ cash' >= cash
  <2> DEFINE paid == o.qty * price
  <2>1. paid \in Nat /\ cash' = cash + paid - Cost(paid)
    BY <1>2, ProductsOfNumbers DEF SellChanges
  <2>2. Cost(paid) \in Nat /\ Cost(paid) <= paid
    BY <2>1, CostFacts
  <2>3. cash \in Int /\ limitCosts \in Nat /\ limitCosts' = limitCosts
    BY DEF RowInv, SellChanges
  <2> HIDE DEF paid
  <2> QED
    BY <2>1, <2>2, <2>3
<1>4. RowInv'
  <2>1. /\ positions' \in [Symbols -> Position \cup {None}]
        /\ \A s \in Symbols : positions'[s] = None \/ PositionRow(positions[s], s)'
    BY <1>2 DEF RowInv, SellChanges, PositionRow
  <2>2. cash' \in Int /\ limitCosts' \in Nat
    BY <1>3
  <2>3. lastExit' \in [Symbols -> (1..day) \cup {None}]
    <3>1. day \in 1..day
      BY DEF RowInv
    <3> QED
      BY <3>1 DEF RowInv, SellChanges
  <2>4. outstanding' \subseteq Purchase \cup Sale /\ IsFiniteSet(outstanding')
    BY FS_Subset DEF RowInv, SellChanges
  <2>5. UNCHANGED <<cfg, day, bars, feed, usedEvents, lastSell, entries>>
    BY DEF SellChanges
  <2> QED
    BY <2>1, <2>2, <2>3, <2>4, <2>5 DEF RowInv
<1>5. OrderInv'
  <2>1. \A x, y \in outstanding' : x.symbol = y.symbol => x = y
    BY DEF OrderInv, SellChanges
  <2>2. ASSUME NEW x \in outstanding', x.side = "sell"
        PROVE  positions'[x.symbol] # None /\ x.qty = positions'[x.symbol].qty
    <3>1. x \in outstanding /\ x # o
      BY DEF SellChanges
    <3>2. x.symbol # o.symbol
      BY <1>1, <3>1 DEF OrderInv
    <3>3. x \in Sale
      BY <2>2, <3>1 DEF RowInv, Purchase
    <3>4. x.symbol \in Symbols
      BY <3>3 DEF Sale
    <3>5. positions'[x.symbol] = positions[x.symbol]
      BY <3>2, <3>4 DEF SellChanges, RowInv
    <3> QED
      BY <2>2, <3>1, <3>5 DEF OrderInv
  <2> QED
    BY <2>1, <2>2 DEF OrderInv
<1>6. CashInv'
  <2>1. Purchases' = Purchases
    BY <1>2 DEF Purchases, SellChanges
  <2>2. SumFunctionOnSet(SetAsideFor(cfg), Purchases) \in Nat
    BY PurchasesFacts
  <2>3. cfg' = cfg
    BY DEF SellChanges
  <2>4. SumFunctionOnSet(SetAsideFor(cfg), Purchases) <= cash' + limitCosts'
    BY <1>3, <2>2 DEF CashInv
  <2> QED
    BY <2>1, <2>3, <2>4 DEF CashInv
<1> QED
  BY <1>4, <1>5, <1>6

LEMMA RefuseKeepsAccount ==
  ASSUME RowInv, OrderInv, CashInv, Refuse
  PROVE  RowInv' /\ OrderInv' /\ CashInv'
<1>1. PICK o \in outstanding : outstanding' = outstanding \ {o}
  BY DEF Refuse
<1>2. UNCHANGED <<cfg, day, bars, feed, cash, positions, usedEvents, lastSell,
                  entries, lastExit, limitCosts>>
  BY DEF Refuse, market, account, history, ghosts
<1>3. RowInv'
  <2>1. outstanding' \subseteq Purchase \cup Sale /\ IsFiniteSet(outstanding')
    BY <1>1, FS_Subset DEF RowInv
  <2> QED
    BY <1>2, <2>1 DEF RowInv, PositionRow
<1>4. OrderInv'
  BY <1>1, <1>2 DEF OrderInv
<1>5. CashInv'
  <2> DEFINE f == SetAsideFor(cfg)
  <2>1. /\ Purchases \subseteq Purchase /\ IsFiniteSet(Purchases)
        /\ \A x \in Purchases : f[x] \in Nat
        /\ SumFunctionOnSet(f, Purchases) \in Nat
    BY PurchasesFacts
  <2>2. SumFunctionOnSet(f, Purchases) <= cash + limitCosts /\ cash + limitCosts \in Int
    BY DEF CashInv, RowInv
  <2>3. cfg' = cfg /\ cash' = cash /\ limitCosts' = limitCosts
    BY <1>2
  <2>4. CASE o \notin Purchases
    <3>1. Purchases' = Purchases
      BY <1>1, <2>4 DEF Purchases
    <3> QED
      BY <2>2, <2>3, <3>1 DEF CashInv
  <2>5. CASE o \in Purchases
    <3> DEFINE rest == Purchases \ {o}
    <3>1. Purchases' = rest
      BY <1>1 DEF Purchases
    <3>2. IsFiniteSet(rest) /\ \A x \in rest : f[x] \in Nat
      BY <2>1, FS_Subset
    <3>3. SumFunctionOnSet(f, Purchases) = f[o] + SumFunctionOnSet(f, rest)
      <4> HIDE DEF f
      <4>1. \A x \in Purchases : f[x] \in Int
        BY <2>1
      <4> QED
        BY <2>1, <2>5, <4>1, SumTakesAny
    <3> HIDE DEF f, rest
    <3>4. SumFunctionOnSet(f, rest) \in Nat /\ f[o] \in Nat
      BY <2>1, <2>5, <3>2, SumIsNat
    <3>5. SumFunctionOnSet(f, rest) <= cash + limitCosts
      BY <2>1, <2>2, <3>3, <3>4
    <3> QED
      BY <2>3, <3>1, <3>5 DEF CashInv, f
  <2> QED
    BY <2>4, <2>5
<1> QED
  BY <1>3, <1>4, <1>5

LEMMA NextDayKeepsAccount ==
  ASSUME RowInv, CashInv, NextDay
  PROVE  RowInv' /\ OrderInv' /\ CashInv'
<1>1. /\ day < MaxDay /\ outstanding = {} /\ day' = day + 1
      /\ UNCHANGED <<cfg, feed, cash, positions, outstanding, usedEvents, lastSell,
                     entries, lastExit, limitCosts>>
  BY DEF NextDay, account, history, ghosts
<1>2. PICK today \in Markets :
        bars' = [s \in Symbols |->
          IF today[s] = None THEN bars[s]
          ELSE Append(bars[s], [day   |-> day, high |-> today[s].high,
                                low   |-> today[s].low, close |-> today[s].close])]
  BY DEF NextDay
<1>3. day \in Nat \ {0} /\ day' \in 1..MaxDay /\ MaxDay \in Nat
  BY <1>1, TradingAssumption DEF RowInv
<1>4. 1..day \subseteq 1..day'
  BY <1>1, <1>3
<1>5. ASSUME NEW s \in Symbols
      PROVE  /\ bars'[s] \in Seq(Bar)
             /\ \A i \in DOMAIN bars'[s] : bars'[s][i].day < day' /\ bars'[s][i].close > 0
  <2>1. /\ bars[s] \in Seq(Bar)
        /\ \A i \in DOMAIN bars[s] : bars[s][i].day < day /\ bars[s][i].close > 0
    BY DEF RowInv
  <2>2. \A i \in DOMAIN bars[s] : bars[s][i].day < day'
    <3>1. \A i \in DOMAIN bars[s] : bars[s][i] \in Bar
      BY <2>1
    <3>2. \A i \in DOMAIN bars[s] : bars[s][i].day \in Nat
      BY <3>1 DEF Bar
    <3> QED
      BY <1>1, <1>3, <2>1, <3>2
  <2>3. CASE today[s] = None
    BY <1>2, <2>1, <2>2, <2>3
  <2>4. CASE today[s] # None
    <3> DEFINE bar == [day   |-> day, high |-> today[s].high,
                       low   |-> today[s].low, close |-> today[s].close]
    <3>1. \A x \in Markets, t \in Symbols :
            x[t] # None => {x[t].high, x[t].low, x[t].close} \subseteq Nat \ {0}
      BY TradingAssumption
    <3>2. today[s].high \in Nat /\ today[s].low \in Nat /\ today[s].close \in Nat \ {0}
      BY <2>4, <3>1
    <3>3. bar \in Bar /\ bar.day < day' /\ bar.close > 0
      BY <1>1, <1>3, <3>2 DEF Bar
    <3>4. bars'[s] = Append(bars[s], bar)
      BY <1>2, <2>4
    <3> HIDE DEF bar
    <3> QED
      BY <2>1, <2>2, <3>3, <3>4
  <2> QED
    BY <2>3, <2>4
<1>6. feed' \in Seq([event : Events, day : 1..day'])
  <2> DEFINE R == [event : Events, day : 1..day]
             T == [event : Events, day : 1..day']
  <2>1. R \subseteq T
    BY <1>4
  <2>2. feed' = feed /\ feed \in Seq(R)
    BY <1>1 DEF RowInv
  <2> HIDE DEF R, T
  <2>3. feed' \in Seq(T)
    BY <2>1, <2>2
  <2> QED
    BY <2>3 DEF T
<1>7. /\ lastSell' \in [Symbols -> (1..day') \cup {None}]
      /\ lastExit' \in [Symbols -> (1..day') \cup {None}]
  BY <1>1, <1>4 DEF RowInv
<1>8. \A s \in Symbols : positions'[s] = None \/ PositionRow(positions[s], s)'
  BY <1>1, <1>4 DEF RowInv, PositionRow
<1>9. RowInv'
  BY <1>1, <1>3, <1>5, <1>6, <1>7, <1>8 DEF RowInv
<1>10. OrderInv'
  BY <1>1 DEF OrderInv
<1>11. UNCHANGED <<cash, limitCosts, cfg, outstanding>> /\ Purchases = {} /\ Purchases' = {}
  BY <1>1 DEF Purchases
<1>12. CashInv' <=> CashInv
  BY <1>11 DEF CashInv
<1> QED
  BY <1>9, <1>10, <1>12

LEMMA DiscloseKeepsAccount ==
  ASSUME RowInv, OrderInv, CashInv, Disclose
  PROVE  RowInv' /\ OrderInv' /\ CashInv'
<1>1. PICK e \in Events : feed' = Append(feed, [event |-> e, day |-> day])
  BY DEF Disclose
<1>2. UNCHANGED <<cfg, day, bars, cash, positions, outstanding, usedEvents, lastSell,
                  entries, lastExit, limitCosts>>
  BY DEF Disclose, account, history, ghosts
<1>3. feed' \in Seq([event : Events, day : 1..day])
  <2> DEFINE R == [event : Events, day : 1..day]
             f == [event |-> e, day |-> day]
  <2>1. feed \in Seq(R) /\ f \in R
    BY DEF RowInv
  <2>2. feed' = Append(feed, f)
    BY <1>1
  <2> HIDE DEF R, f
  <2>3. feed' \in Seq(R)
    BY <2>1, <2>2
  <2> QED
    BY <2>3 DEF R
<1>4. RowInv'
  BY <1>2, <1>3 DEF RowInv, PositionRow
<1>5. OrderInv'
  BY <1>2 DEF OrderInv
<1>6. CashInv'
  BY <1>2 DEF CashInv, Purchases
<1> QED
  BY <1>4, <1>5, <1>6

LEMMA AccountStarts ==
  ASSUME Init
  PROVE  RowInv /\ OrderInv /\ CashInv
<1>1. MaxDay \in Nat \ {0} /\ InitialCash \in Nat
  BY TradingAssumption
<1>2. ASSUME NEW s \in Symbols
      PROVE  /\ bars[s] \in Seq(Bar)
             /\ \A i \in DOMAIN bars[s] : bars[s][i].day < day /\ bars[s][i].close > 0
  <2>1. \A t \in Symbols : /\ InitialBars[t] \in Seq(Bar)
                           /\ \A bar \in ToSet(InitialBars[t]) : bar.day = 0 /\ bar.close > 0
    BY TradingAssumption
  <2>2. bars[s] = InitialBars[s] /\ day = 1
    BY DEF Init
  <2>3. \A i \in DOMAIN bars[s] : bars[s][i] \in ToSet(InitialBars[s])
    BY <2>2 DEF ToSet
  <2> QED
    BY <2>1, <2>2, <2>3
<1>3. feed \in Seq([event : Events, day : 1..day])
  BY DEF Init
<1>4. day \in 1..MaxDay /\ cash \in Int
  BY <1>1 DEF Init
<1>5. IsFiniteSet(outstanding) /\ outstanding = {}
  BY FS_EmptySet DEF Init
<1>6. RowInv
  BY <1>2, <1>3, <1>4, <1>5 DEF Init, RowInv
<1>7. OrderInv
  BY DEF Init, OrderInv
<1>8. CashInv
  <2>1. Purchases = {} /\ cash = InitialCash /\ limitCosts = 0
    BY DEF Init, Purchases
  <2>2. SumFunctionOnSet(SetAsideFor(cfg), {}) = 0
    BY FS_EmptySet, SumTakesFirst
  <2> QED
    BY <1>1, <2>1, <2>2 DEF CashInv
<1> QED
  BY <1>6, <1>7, <1>8

AccountInv == RowInv /\ OrderInv /\ CashInv

LEMMA StepKeepsAccount ==
  ASSUME AccountInv, [Next]_vars
  PROVE  AccountInv'
<1> USE DEF AccountInv
<1>1. CASE Cycle
  BY <1>1, CycleKeepsRows, CycleKeepsOrders, CycleKeepsCash
<1>2. CASE Fill
  <2>1. PICK o, price : SellChanges(o, price) \/ \E row : BuyChanges(o, price, row)
    BY <1>2, FillEffect
  <2>2. CASE SellChanges(o, price)
    BY <2>2, SellKeepsAccount
  <2>3. ASSUME NEW row, BuyChanges(o, price, row)
        PROVE  AccountInv'
    BY <2>3, BuyKeepsAccount
  <2> QED
    BY <2>1, <2>2, <2>3
<1>3. CASE Refuse
  BY <1>3, RefuseKeepsAccount
<1>4. CASE NextDay
  BY <1>4, NextDayKeepsAccount
<1>5. CASE Disclose
  BY <1>5, DiscloseKeepsAccount
<1>6. CASE UNCHANGED vars
  <2>1. UNCHANGED <<cfg, day, bars, feed, cash, positions, outstanding, usedEvents, lastSell,
                    entries, lastExit, limitCosts>>
    BY <1>6 DEF vars, market, account, history, ghosts
  <2>2. RowInv'
    BY <2>1 DEF RowInv, PositionRow
  <2>3. OrderInv'
    BY <2>1 DEF OrderInv
  <2>4. CashInv'
    BY <2>1 DEF CashInv, Purchases
  <2> QED
    BY <2>2, <2>3, <2>4
<1> QED
  BY <1>1, <1>2, <1>3, <1>4, <1>5, <1>6 DEF Next, Over

-----------------------------------------------------------------------------
(* Events and cooldowns.                                                   *)

\* The fill of o would open a position on an event.
Opens(o) == o.symbol \notin Held /\ o.event # None

\* The events of open purchases are used; an event that was not used has no
\* position, and one that an open purchase will use has none yet.
EventInv ==
  /\ \A o \in Purchases : o.event # None => o.event \in usedEvents
  /\ \A e \in Events : e \notin usedEvents => entries[e] = 0
  /\ \A e \in Events : entries[e] <= 1
  /\ \A o \in Purchases : Opens(o) => entries[o.event] = 0
  /\ \A o, x \in Purchases : (Opens(o) /\ Opens(x) /\ o.event = x.event) => o = x

\* Table orders knows of every sale when it is decided, and an open purchase of a
\* symbol that is not held was decided after its cooldown.
CooldownInv ==
  /\ \A o \in outstanding : o.side = "sell" => lastSell[o.symbol] = day
  /\ \A s \in Symbols : lastExit[s] # None => lastSell[s] # None /\ lastExit[s] <= lastSell[s]
  /\ \A o \in Purchases : (o.symbol \notin Held /\ lastExit[o.symbol] # None)
       => day - lastExit[o.symbol] >= cfg.cooldownDays

LEMMA CycleKeepsEvents ==
  ASSUME AccountInv, EventInv, NEW sales, NEW purchases, NEW ctx,
         Decided(sales, purchases, ctx), CycleChanges(sales, purchases)
  PROVE  EventInv'
<1>1. Purchases' = Purchases \cup purchases /\ purchases \subseteq Purchase
  BY DEF Purchases, CycleChanges, Decided, Sale, Purchase
<1>2. positions' = positions /\ entries' = entries
  BY DEF CycleChanges
<1>3. /\ usedEvents \subseteq usedEvents'
      /\ \A o \in purchases : o.event # None => o.event \in usedEvents'
  BY DEF CycleChanges
<1>4. \A o : Opens(o)' <=> Opens(o)
  BY <1>2 DEF Opens, Held
<1>5. \A o \in Purchases' : o.event # None => o.event \in usedEvents'
  BY <1>1, <1>3 DEF EventInv
<1>6. \A e \in Events : e \notin usedEvents' => entries'[e] = 0
  BY <1>2, <1>3 DEF EventInv
<1>7. \A e \in Events : entries'[e] <= 1
  BY <1>2 DEF EventInv
<1>8. ASSUME NEW o \in purchases, Opens(o)
      PROVE  o.event \in Events \ usedEvents
  <2>1. o.event \in Events \cup {None}
    BY <1>1, <1>8 DEF Purchase
  <2> QED
    BY <1>8, <2>1 DEF Decided, Opens
<1>9. \A o \in Purchases' : Opens(o)' => entries'[o.event] = 0
  BY <1>1, <1>2, <1>4, <1>8 DEF EventInv
<1>10. ASSUME NEW o \in Purchases', NEW x \in Purchases', Opens(o), Opens(x), o.event = x.event
       PROVE  o = x
  <2>1. CASE o \in Purchases /\ x \in Purchases
    BY <1>10, <2>1 DEF EventInv
  <2>2. CASE o \in purchases /\ x \in purchases
    BY <1>10, <2>2 DEF Decided, Opens
  <2>3. CASE o \in Purchases /\ x \in purchases
    BY <1>8, <1>10, <2>3 DEF EventInv, Opens
  <2>4. CASE o \in purchases /\ x \in Purchases
    BY <1>8, <1>10, <2>4 DEF EventInv, Opens
  <2> QED
    BY <1>1, <2>1, <2>2, <2>3, <2>4
<1> QED
  BY <1>4, <1>5, <1>6, <1>7, <1>9, <1>10 DEF EventInv

LEMMA BuyKeepsEvents ==
  ASSUME AccountInv, EventInv, NEW o, NEW price, NEW row, BuyChanges(o, price, row)
  PROVE  EventInv'
<1>1. o \in Purchases /\ o \in Purchase /\ o.symbol \in Symbols
  BY PurchasesFacts DEF BuyChanges, AccountInv, Purchase
<1>2. /\ Purchases' = Purchases \ {o} /\ usedEvents' = usedEvents
      /\ positions' = [positions EXCEPT ![o.symbol] = row]
      /\ entries' = [e \in Events |->
           IF e = o.event /\ o.symbol \notin Held THEN entries[e] + 1 ELSE entries[e]]
  BY DEF BuyChanges, Purchases
<1>3. row # None
  BY JudgmentAssumption DEF BuyChanges
<1>4. Held' = Held \cup {o.symbol}
  BY <1>1, <1>2, <1>3 DEF Held, AccountInv, RowInv
<1>5. \A x : Opens(x)' => Opens(x)
  BY <1>4 DEF Opens
<1>6. \A e \in Events : entries[e] \in Nat
  BY DEF AccountInv, RowInv
<1>7. \A e \in Events : (e = o.event /\ o.symbol \notin Held) => Opens(o)
  BY JudgmentAssumption DEF Opens
<1>8. ASSUME NEW e \in Events
      PROVE  /\ entries'[e] <= 1
             /\ e \notin usedEvents => entries'[e] = 0
  <2>1. CASE e = o.event /\ o.symbol \notin Held
    <3>1. entries[e] = 0 /\ e \in usedEvents
      BY <1>1, <1>7, <2>1 DEF EventInv, Opens
    <3>2. entries'[e] = 1
      BY <1>2, <2>1, <3>1
    <3> QED
      BY <3>1, <3>2
  <2>2. CASE ~(e = o.event /\ o.symbol \notin Held)
    BY <1>2, <2>2 DEF EventInv
  <2> QED
    BY <2>1, <2>2
<1>9. ASSUME NEW x \in Purchases \ {o}, Opens(x)
      PROVE  entries'[x.event] = 0
  <2>1. x.event \in Events
    BY <1>9, PurchasesFacts DEF AccountInv, Purchase, Opens
  <2>2. ~(x.event = o.event /\ o.symbol \notin Held)
    BY <1>1, <1>7, <1>9, <2>1 DEF EventInv
  <2> QED
    BY <1>2, <1>9, <2>1, <2>2 DEF EventInv
<1>10. \A x \in Purchases' : x.event # None => x.event \in usedEvents'
  BY <1>2 DEF EventInv
<1>11. \A x, y \in Purchases' : (Opens(x)' /\ Opens(y)' /\ x.event = y.event) => x = y
  BY <1>2, <1>5 DEF EventInv
<1> QED
  BY <1>2, <1>5, <1>8, <1>9, <1>10, <1>11 DEF EventInv

LEMMA SellKeepsEvents ==
  ASSUME AccountInv, EventInv, NEW o, NEW price, SellChanges(o, price)
  PROVE  EventInv'
<1>1. o \in outstanding /\ o \in Sale /\ o.symbol \in Symbols /\ o.side = "sell"
  BY DEF SellChanges, Sale
<1>2. Purchases' = Purchases
  BY <1>1 DEF SellChanges, Purchases
<1>3. /\ UNCHANGED <<usedEvents, entries>>
      /\ positions' = [positions EXCEPT ![o.symbol] = None]
  BY DEF SellChanges
<1>4. \A x \in Purchases : x \in outstanding /\ x.symbol # o.symbol /\ x.symbol \in Symbols
  BY <1>1, PurchasesFacts DEF AccountInv, OrderInv, Purchases, Purchase
<1>5. \A x \in Purchases : Opens(x)' <=> Opens(x)
  BY <1>3, <1>4 DEF Opens, Held, AccountInv, RowInv
<1> QED
  BY <1>2, <1>3, <1>5 DEF EventInv

LEMMA CycleKeepsCooldown ==
  ASSUME AccountInv, CooldownInv, NEW sales, NEW purchases, NEW ctx,
         Decided(sales, purchases, ctx), CycleChanges(sales, purchases)
  PROVE  CooldownInv'
<1>1. \A o \in outstanding \cup sales : o.side = "sell" => o \in Sale /\ o.symbol \in Symbols
  BY DEF AccountInv, RowInv, Decided, Purchase, Sale
<1>2. \A o \in purchases : o.side = "buy"
  BY DEF Decided, Purchase
<1>3. /\ outstanding' = outstanding \cup (sales \cup purchases)
      /\ lastSell' = [s \in Symbols |-> IF \E o \in sales : o.symbol = s THEN day ELSE lastSell[s]]
      /\ day' = day /\ lastExit' = lastExit
  BY DEF CycleChanges
<1>4. ASSUME NEW o \in outstanding', o.side = "sell" PROVE lastSell'[o.symbol] = day'
  <2>1. o \in outstanding \cup sales
    BY <1>2, <1>3, <1>4
  <2>2. o.symbol \in Symbols
    BY <1>1, <1>4, <2>1
  <2>3. o \in outstanding => lastSell[o.symbol] = day
    BY <1>4 DEF CooldownInv
  <2> QED
    BY <1>3, <2>1, <2>2, <2>3
<1>5. ASSUME NEW s \in Symbols, lastExit'[s] # None
      PROVE  lastSell'[s] # None /\ lastExit'[s] <= lastSell'[s]
  <2>1. lastExit[s] \in 1..day /\ lastExit[s] # None
    BY <1>3, <1>5 DEF AccountInv, RowInv
  <2>2. lastSell[s] # None /\ lastExit[s] <= lastSell[s]
    BY <2>1 DEF CooldownInv
  <2>3. day \in Int /\ day # None
    BY JudgmentAssumption DEF AccountInv, RowInv
  <2>4. lastExit[s] <= day
    BY <2>1
  <2> QED
    BY <1>3, <2>2, <2>3, <2>4
<1>6. ASSUME NEW o \in Purchases', o.symbol \notin Held', lastExit'[o.symbol] # None
      PROVE  day' - lastExit'[o.symbol] >= cfg'.cooldownDays
  <2>1. UNCHANGED <<day, cfg, positions, lastExit>>
    BY DEF CycleChanges
  <2>2. o.symbol \notin Held /\ lastExit[o.symbol] # None
    BY <1>6, <2>1 DEF Held
  <2>3. CASE o \in Purchases
    BY <2>1, <2>2, <2>3 DEF CooldownInv
  <2>4. CASE o \in purchases
    <3>1. CooledDown(o.symbol) /\ o.symbol \in Symbols
      BY <2>2, <2>4 DEF Decided, Purchase
    <3>2. lastSell[o.symbol] # None /\ lastExit[o.symbol] <= lastSell[o.symbol]
      BY <2>2, <3>1 DEF CooldownInv
    <3>3. lastSell[o.symbol] \in 1..day /\ lastExit[o.symbol] \in 1..day /\ day \in Int
      BY <2>2, <3>1, <3>2 DEF AccountInv, RowInv
    <3>4. cfg.cooldownDays \in Nat
      BY ConfigIsValid DEF CycleConfig, AccountInv
    <3>5. day - lastExit[o.symbol] >= cfg.cooldownDays
      BY <3>1, <3>2, <3>3, <3>4 DEF CooledDown
    <3> QED
      BY <2>1, <3>5
  <2>5. o \in Purchases \/ o \in purchases
    BY <1>6 DEF Purchases, CycleChanges, Decided, Sale
  <2> QED
    BY <2>3, <2>4, <2>5
<1> QED
  BY <1>4, <1>5, <1>6 DEF CooldownInv

LEMMA SellKeepsCooldown ==
  ASSUME AccountInv, CooldownInv, NEW o, NEW price, SellChanges(o, price)
  PROVE  CooldownInv'
<1>1. o \in outstanding /\ o \in Sale /\ o.symbol \in Symbols /\ o.side = "sell"
  BY DEF SellChanges, Sale
<1>2. /\ outstanding' = outstanding \ {o} /\ UNCHANGED <<day, lastSell>>
      /\ lastExit' = [lastExit EXCEPT ![o.symbol] = day]
  BY DEF SellChanges
<1>3. lastSell[o.symbol] = day
  BY <1>1 DEF CooldownInv
<1>4. day \in Int /\ day # None
  BY JudgmentAssumption DEF AccountInv, RowInv
<1>5. ASSUME NEW s \in Symbols, lastExit'[s] # None
      PROVE  lastSell'[s] # None /\ lastExit'[s] <= lastSell'[s]
  <2>1. CASE s = o.symbol
    BY <1>2, <1>3, <1>4, <2>1 DEF AccountInv, RowInv
  <2>2. CASE s # o.symbol
    BY <1>2, <1>5, <2>2 DEF AccountInv, RowInv, CooldownInv
  <2> QED
    BY <2>1, <2>2
<1>6. ASSUME NEW x \in Purchases', x.symbol \notin Held', lastExit'[x.symbol] # None
      PROVE  day' - lastExit'[x.symbol] >= cfg'.cooldownDays
  <2>1. x \in Purchases /\ x \in outstanding /\ x # o
    BY <1>2 DEF Purchases
  <2>2. x.symbol # o.symbol
    BY <1>1, <2>1 DEF AccountInv, OrderInv
  <2>3. x.symbol \in Symbols
    BY <2>1, PurchasesFacts DEF AccountInv, Purchase
  <2>4. /\ positions' = [positions EXCEPT ![o.symbol] = None]
        /\ UNCHANGED <<day, cfg>>
    BY DEF SellChanges
  <2>5. x.symbol \notin Held /\ lastExit'[x.symbol] = lastExit[x.symbol]
    BY <1>2, <1>6, <2>2, <2>3, <2>4 DEF Held, AccountInv, RowInv
  <2> QED
    BY <1>6, <2>1, <2>4, <2>5 DEF CooldownInv
<1> QED
  BY <1>2, <1>5, <1>6 DEF CooldownInv

\* A purchase opens its own position only.
LEMMA BuyKeepsCooldown ==
  ASSUME AccountInv, CooldownInv, NEW o, NEW price, NEW row, BuyChanges(o, price, row)
  PROVE  CooldownInv'
<1>1. o \in Purchases /\ o.symbol \in Symbols /\ row # None
  BY PurchasesFacts, JudgmentAssumption DEF BuyChanges, AccountInv, Purchase
<1>2. /\ outstanding' = outstanding \ {o} /\ UNCHANGED <<cfg, day, lastSell, lastExit>>
      /\ positions' = [positions EXCEPT ![o.symbol] = row]
  BY DEF BuyChanges
<1>3. Purchases' \subseteq Purchases /\ Held \subseteq Held'
  BY <1>1, <1>2 DEF Purchases, Held, AccountInv, RowInv
<1> QED
  BY <1>2, <1>3 DEF CooldownInv

\* Orders are only taken from the open ones, and nothing is bought or sold.
LEMMA FewerOrdersKeepHistory ==
  ASSUME EventInv, CooldownInv, outstanding' \subseteq outstanding,
         day' = day \/ outstanding' = {},
         UNCHANGED <<cfg, positions, usedEvents, lastSell, entries, lastExit>>
  PROVE  EventInv' /\ CooldownInv'
<1>1. Purchases' \subseteq Purchases /\ (outstanding' = {} => Purchases' = {})
  BY DEF Purchases
<1>2. Held' = Held /\ \A o : Opens(o)' <=> Opens(o)
  BY DEF Opens, Held
<1>3. EventInv'
  BY <1>1, <1>2 DEF EventInv
<1>4. CooldownInv'
  BY <1>1, <1>2 DEF CooldownInv
<1> QED
  BY <1>3, <1>4

-----------------------------------------------------------------------------
TradingInv == AccountInv /\ EventInv /\ CooldownInv

LEMMA StepKeepsTrading ==
  ASSUME TradingInv, [Next]_vars
  PROVE  TradingInv'
<1>1. AccountInv /\ EventInv /\ CooldownInv
  BY DEF TradingInv
<1>2. AccountInv'
  BY <1>1, StepKeepsAccount
<1>3. CASE Cycle
  <2>1. RowInv /\ CashInv
    BY <1>1 DEF AccountInv
  <2>2. PICK sales, purchases, ctx :
          Decided(sales, purchases, ctx) /\ CycleChanges(sales, purchases)
    BY <1>3, <2>1, CycleEffect
  <2>3. EventInv'
    BY <1>1, <2>2, CycleKeepsEvents
  <2>4. CooldownInv'
    BY <1>1, <2>2, CycleKeepsCooldown
  <2> QED
    BY <1>2, <2>3, <2>4 DEF TradingInv
<1>4. CASE Fill
  <2>1. PICK o, price : SellChanges(o, price) \/ \E row : BuyChanges(o, price, row)
    BY <1>1, <1>4, FillEffect DEF AccountInv
  <2>2. CASE SellChanges(o, price)
    BY <1>1, <1>2, <2>2, SellKeepsEvents, SellKeepsCooldown DEF TradingInv
  <2>3. ASSUME NEW row, BuyChanges(o, price, row)
        PROVE  TradingInv'
    <3>1. EventInv'
      BY <1>1, <2>3, BuyKeepsEvents
    <3>2. CooldownInv'
      BY <1>1, <2>3, BuyKeepsCooldown
    <3> QED
      BY <1>2, <3>1, <3>2 DEF TradingInv
  <2> QED
    BY <2>1, <2>2, <2>3
<1>5. ASSUME outstanding' \subseteq outstanding,
             day' = day \/ outstanding' = {},
             UNCHANGED <<cfg, positions, usedEvents, lastSell, entries, lastExit>>
      PROVE  TradingInv'
  BY <1>1, <1>2, <1>5, FewerOrdersKeepHistory DEF TradingInv
<1>6. CASE Refuse
  BY <1>5, <1>6 DEF Refuse, market, account, history, ghosts
<1>7. CASE NextDay
  BY <1>5, <1>7 DEF NextDay, account, history, ghosts
<1>8. CASE Disclose
  BY <1>5, <1>8 DEF Disclose, account, history, ghosts
<1>9. CASE UNCHANGED vars
  BY <1>5, <1>9 DEF vars, market, account, history, ghosts
<1> QED
  BY <1>3, <1>4, <1>6, <1>7, <1>8, <1>9 DEF Next, Over

\* What holds in every state of the trading days.
THEOREM TradingInvariant == Spec => []TradingInv
<1>1. Init => TradingInv
  <2> SUFFICES ASSUME Init PROVE TradingInv
    OBVIOUS
  <2>1. AccountInv
    BY AccountStarts DEF AccountInv
  <2>2. Purchases = {} /\ outstanding = {}
    BY DEF Init, Purchases
  <2>3. /\ \A e \in Events : entries[e] = 0
        /\ \A s \in Symbols : lastExit[s] = None
    BY DEF Init
  <2> QED
    BY <2>1, <2>2, <2>3 DEF TradingInv, EventInv, CooldownInv
<1>2. TradingInv /\ [Next]_vars => TradingInv'
  BY StepKeepsTrading
<1> QED
  BY <1>1, <1>2, PTL DEF Spec

\* Account, tables and orders are well-formed in every state.
THEOREM TablesAreWellFormed == Spec => []TypeOK
<1>1. TradingInv => TypeOK
  <2> SUFFICES ASSUME TradingInv PROVE TypeOK
    OBVIOUS
  <2>1. RowInv
    BY DEF TradingInv, AccountInv
  <2>2. \A i \in DOMAIN feed : feed[i].event \in Events /\ feed[i].day \in 1..day
    <3> DEFINE R == [event : Events, day : 1..day]
    <3>1. feed \in Seq(R)
      BY <2>1 DEF RowInv
    <3>2. \A r \in R : r.event \in Events /\ r.day \in 1..day
      OBVIOUS
    <3> HIDE DEF R
    <3>3. \A i \in DOMAIN feed : feed[i] \in R
      BY <3>1
    <3> QED
      BY <3>2, <3>3
  <2>3. \A o \in outstanding : OrderRow(o)
    BY <2>1 DEF RowInv, OrderRow, Purchase, Sale
  <2> QED
    BY <2>1, <2>2, <2>3 DEF RowInv, TypeOK
<1> QED
  BY <1>1, TradingInvariant, PTL

\* What the open purchases set aside is in the account, except for costs of
\* purchases that were filled near their limit: a purchase at any price within
\* its limit takes no more than was set aside for it, apart from its costs, and
\* a cycle only places purchases when nothing is missing (core/diff.py).
THEOREM OpenPurchasesCanBePaid == Spec => []PurchasesCanBePaid
<1>1. TradingInv => PurchasesCanBePaid
  <2> SUFFICES ASSUME TradingInv PROVE PurchasesCanBePaid
    OBVIOUS
  <2>1. RowInv /\ CashInv
    BY DEF TradingInv, AccountInv
  <2>2. Reserved = SumFunctionOnSet(SetAsideFor(cfg), Purchases)
    BY <2>1, ReservedIsSum
  <2> QED
    BY <2>1, <2>2 DEF CashInv, PurchasesCanBePaid
<1> QED
  BY <1>1, TradingInvariant, PTL

\* One event opens at most one position (core/gate.py).
THEOREM EventsOpenOnce == Spec => []EventOpensOnce
<1>1. TradingInv => EventOpensOnce
  BY DEF TradingInv, EventInv, EventOpensOnce
<1> QED
  BY <1>1, TradingInvariant, PTL

\* Sales are of whole positions, and the next cycle sells a position that has no
\* open order exactly if its exit rule or the watchlist gives a reason, whatever
\* the gate, the kill switch and the cash are (core/gate.py, core/diff.py).
THEOREM PositionsAreSoldForAReason == Spec => []SoldForAReason
<1>1. TradingInv => SoldForAReason
  <2> SUFFICES ASSUME TradingInv PROVE SoldForAReason
    OBVIOUS
  <2>1. RowInv /\ CashInv /\ OrderInv
    BY DEF TradingInv, AccountInv
  <2>2. \A o \in outstanding :
          o.side = "sell" => o.symbol \in Held /\ o.qty = positions[o.symbol].qty
    BY <2>1 DEF RowInv, OrderInv, Held, Purchase, Sale
  <2>3. ASSUME NEW listed \in SetToSeqs(Held), NEW barsLeft \in SessionBars,
               NEW killSwitch \in BOOLEAN
        PROVE  LET ctx    == BuildContext(listed, barsLeft)
                   orders == ToSet(CycleOrders(ctx, cfg, killSwitch))
                   sold   == {o.symbol : o \in {x \in orders : x.side = "sell"}}
                   due(s) ==
                     \/ Evaluate(positions[s], History(ctx, s, cfg.history), day, barsLeft) # None
                     \/ cfg.exitWhenDropped /\ s \notin ToSet(Watchlist[day])
               IN sold = {s \in Held \ PendingSymbols : due(s)}
    <3> DEFINE ctx    == BuildContext(listed, barsLeft)
               orders == ToSet(CycleOrders(ctx, cfg, killSwitch))
               sold   == {o.symbol : o \in {x \in orders : x.side = "sell"}}
               due(s) ==
                 \/ Evaluate(positions[s], History(ctx, s, cfg.history), day, barsLeft) # None
                 \/ cfg.exitWhenDropped /\ s \notin ToSet(Watchlist[day])
    <3>1. PICK sales, purchases : orders = sales \cup purchases /\ Decided(sales, purchases, ctx)
      BY <2>1, CycleDecides
    <3>2. ctx.day = day /\ ctx.barsLeft = barsLeft /\ ctx.watchlist = Watchlist[day]
      BY DEF BuildContext
    <3> HIDE DEF ctx, orders
    <3>3. \A s \in Held : positions[s].symbol = s
      BY <2>1, HeldFacts
    <3>4. \A s \in Held : Due(positions[s], ctx, cfg) <=> due(s)
      BY <3>2, <3>3 DEF Due
    <3>5. \A s : s \in sold <=> \E o \in sales : o.symbol = s
      BY <3>1 DEF Decided, Sale, Purchase
    <3>6. \A o \in sales : o.symbol \in Held \ PendingSymbols
      BY <3>1 DEF Decided
    <3>7. \A s \in Held \ PendingSymbols : s \in sold <=> due(s)
      BY <3>1, <3>4, <3>5 DEF Decided
    <3> HIDE DEF sold, due
    <3>8. sold = {s \in Held \ PendingSymbols : due(s)}
      BY <3>5, <3>6, <3>7
    <3> QED
      BY <3>8 DEF sold, due, ctx, orders
  <2> QED
    BY <2>2, <2>3 DEF SoldForAReason
<1> QED
  BY <1>1, TradingInvariant, PTL

\* No step places a purchase of a symbol whose cooldown is not over, and no fill
\* opens a position of one: the sale is in table orders since it was decided,
\* before its fill (core/gate.py).
THEOREM CooldownsAreKept == Spec => CooldownIsKept
<1> DEFINE Placed == \A o \in outstanding' \ outstanding :
                       (o.side = "buy" /\ o.symbol \notin Held /\ lastExit[o.symbol] # None)
                       => day - lastExit[o.symbol] >= cfg.cooldownDays
           Opened == \A s \in Symbols :
                       (s \notin Held /\ s \in Held' /\ lastExit[s] # None)
                       => day - lastExit[s] >= cfg.cooldownDays
<1>1. ASSUME TradingInv, [Next]_vars PROVE Placed
  <2> SUFFICES ASSUME NEW o \in outstanding' \ outstanding, o.side = "buy",
                      o.symbol \notin Held, lastExit[o.symbol] # None
               PROVE  day - lastExit[o.symbol] >= cfg.cooldownDays
    OBVIOUS
  <2>1. Cycle
    <3>1. Cycle \/ outstanding' \subseteq outstanding
      BY <1>1 DEF Next, Fill, Refuse, NextDay, Disclose, Over, vars
    <3> QED
      BY <3>1
  <2>2. PICK sales, purchases, ctx :
          Decided(sales, purchases, ctx) /\ CycleChanges(sales, purchases)
    BY <1>1, <2>1, CycleEffect DEF TradingInv, AccountInv
  <2>3. CooldownInv'
    BY <1>1, <2>2, CycleKeepsCooldown DEF TradingInv
  <2>4. UNCHANGED <<day, cfg, positions, lastExit>> /\ o \in Purchases'
    BY <2>2 DEF CycleChanges, Purchases
  <2> QED
    BY <2>3, <2>4 DEF CooldownInv, Held
<1>2. ASSUME TradingInv, [Next]_vars PROVE Opened
  <2> SUFFICES ASSUME NEW s \in Symbols, s \notin Held, s \in Held', lastExit[s] # None
               PROVE  day - lastExit[s] >= cfg.cooldownDays
    OBVIOUS
  <2>1. positions' # positions
    BY DEF Held
  <2>2. Fill
    BY <1>2, <2>1 DEF Next, Cycle, Refuse, NextDay, Disclose, Over, vars, account
  <2>3. PICK o, price : SellChanges(o, price) \/ \E row : BuyChanges(o, price, row)
    BY <1>2, <2>2, FillEffect DEF TradingInv, AccountInv
  <2>4. CASE SellChanges(o, price)
    BY <1>2, <2>4 DEF SellChanges, Held, TradingInv, AccountInv, RowInv
  <2>5. ASSUME NEW row, BuyChanges(o, price, row)
        PROVE  day - lastExit[s] >= cfg.cooldownDays
    <3>1. o \in Purchases /\ o.symbol = s
      BY <1>2, <2>5 DEF BuyChanges, Held, TradingInv, AccountInv, RowInv
    <3> QED
      BY <1>2, <3>1 DEF TradingInv, CooldownInv
  <2> QED
    BY <2>3, <2>4, <2>5
<1>3. TradingInv /\ [Next]_vars => [Placed /\ Opened]_vars
  BY <1>1, <1>2
<1> QED
  BY <1>3, TradingInvariant, PTL DEF Spec, CooldownIsKept

=============================================================================
