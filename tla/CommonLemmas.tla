------------------------------ MODULE CommonLemmas -----------------------------
(***************************************************************************)
(* What the proofs of several components need to know of Min and Max       *)
(* (FiniteSetsExt), which pick a batch out of a stream, the next entry of  *)
(* a batch or the next nonce of a wallet, and of counting.                 *)
(*                                                                         *)
(* Min is defined by CHOOSE: that there is something to choose is the      *)
(* well-foundedness of the natural numbers.                                *)
(***************************************************************************)
EXTENDS Integers, FiniteSetsExt, FiniteSetTheorems, TLAPS

NatLess == {pair \in Nat \X Nat : pair[1] < pair[2]}

\* The order of the natural numbers, written as a set of pairs, is well founded.
LEMMA NatLessWellFounded == IsWellFoundedOn(NatLess, Nat)
  BY NatLessThanWellFounded DEF OpToRel, NatLess

\* A nonempty set of natural numbers has a least element.
LEMMA LeastExists ==
  ASSUME NEW S \in SUBSET Nat, S # {}
  PROVE  \E x \in S : \A y \in S : x <= y
<1>1. PICK x \in S : \A y \in S : ~ (<<y, x>> \in NatLess)
  BY NatLessWellFounded, WFMin, Zenon
<1>2. ASSUME NEW y \in S
      PROVE  x <= y
  <2>1. y < x => <<y, x>> \in NatLess
    BY SMT DEF NatLess
  <2>2. ~ (y < x)
    BY <1>1, <2>1
  <2>3. QED
    BY <2>2
<1>3. QED
  BY <1>2

\* Min of a nonempty set of natural numbers is its least element.
LEMMA MinIsLeast ==
  ASSUME NEW S \in SUBSET Nat, S # {}
  PROVE  Min(S) \in S /\ \A y \in S : Min(S) <= y
<1>1. \E x \in S : \A y \in S : x <= y
  BY LeastExists
<1>2. QED
  BY <1>1 DEF Min

\* Max of a nonempty interval is its upper end.
LEMMA MaxOfInterval ==
  ASSUME NEW a \in Nat, NEW b \in Nat, a <= b
  PROVE  Max(a .. b) = b
  BY DEF Max

\* Max of a nonempty set of natural numbers with an upper bound is its greatest element.
LEMMA MaxIsGreatest ==
  ASSUME NEW S \in SUBSET Nat, S # {}, NEW bound \in Nat, \A y \in S : y <= bound
  PROVE  Max(S) \in S /\ \A y \in S : y <= Max(S)
<1> DEFINE Bounds == {m \in Nat : \A y \in S : y <= m}
<1>1. PICK least \in Bounds : \A m \in Bounds : least <= m
  <2>1. Bounds \in SUBSET Nat /\ Bounds # {}
    <3>1. bound \in Bounds
      OBVIOUS
    <3>2. QED
      BY <3>1
  <2> HIDE DEF Bounds
  <2>2. QED
    BY <2>1, LeastExists, Zenon
<1>2. least \in Nat /\ \A y \in S : y <= least
  OBVIOUS
<1>3. least \in S
  <2>1. SUFFICES ASSUME least \notin S
                 PROVE  FALSE
    OBVIOUS
  <2>2. \A y \in S : y \in Nat /\ y < least
    BY <1>2, <2>1
  <2>3. least - 1 \in Nat /\ \A y \in S : y <= least - 1
    <3>1. PICK y \in S : y \in Nat /\ y < least
      BY <2>2
    <3>2. QED
      BY <1>2, <2>2, <3>1
  <2>4. least <= least - 1
    BY <1>1, <2>3
  <2>5. QED
    BY <1>2, <2>4
<1>4. \E x \in S : \A y \in S : x >= y
  BY <1>2, <1>3
<1>5. Max(S) \in S /\ \A y \in S : Max(S) >= y
  BY <1>4 DEF Max
<1>6. QED
  BY <1>5

\* A difference of times, which is no negative one.
LEMMA MaxWithZero ==
  ASSUME NEW a \in Int
  PROVE  Max({a, 0}) = IF a >= 0 THEN a ELSE 0
  BY DEF Max

\* Min of a pair is the smaller of the two.
LEMMA MinOfTwo ==
  ASSUME NEW a \in Nat, NEW b \in Nat
  PROVE  Min({a, b}) = IF a <= b THEN a ELSE b
  BY DEF Min

\* The next batch of a stream: the positions after the cursor, up to some end.
LEMMA BatchInterval ==
  ASSUME NEW cursor \in Nat, NEW count \in Nat \ {0}, NEW last \in Nat, cursor < last
  PROVE  LET batch == cursor + 1 .. Min({cursor + count, last})
         IN  \E end \in cursor + 1 .. last :
                /\ batch = cursor + 1 .. end
                /\ Max(batch) = end
                /\ end <= cursor + count
<1> DEFINE end == Min({cursor + count, last})
<1>1. cursor + count \in Nat /\ cursor + count > cursor
  OBVIOUS
<1>2. end = IF cursor + count <= last THEN cursor + count ELSE last
  BY <1>1, MinOfTwo, Zenon
<1> HIDE DEF end
<1>3. end \in cursor + 1 .. last /\ end <= cursor + count
  BY <1>1, <1>2
<1>4. Max(cursor + 1 .. end) = end
  <2>1. cursor + 1 \in Nat /\ end \in Nat /\ cursor + 1 <= end
    BY <1>1, <1>3
  <2>2. QED
    BY <2>1, MaxOfInterval, Zenon
<1>5. QED
  BY <1>3, <1>4, Zenon DEF end

\* One crash more is one batch more.
LEMMA OneMore ==
  ASSUME NEW a \in Nat, NEW b \in Nat
  PROVE  a * b \in Nat /\ a * (b + 1) = a * b + a
  OBVIOUS

\* A set within two finite ones has no more elements than they have together.
LEMMA WithinUnion ==
  ASSUME NEW S, NEW T, IsFiniteSet(S), IsFiniteSet(T), NEW U \in SUBSET (S \cup T)
  PROVE  /\ IsFiniteSet(U)
         /\ Cardinality(U) \in Nat
         /\ Cardinality(U) <= Cardinality(S) + Cardinality(T)
<1>1. /\ IsFiniteSet(S \cup T)
      /\ Cardinality(S \cup T) = Cardinality(S) + Cardinality(T) - Cardinality(S \cap T)
  BY FS_Union
<1>2. IsFiniteSet(S \cap T)
  BY FS_Intersection
<1>3. IsFiniteSet(U) /\ Cardinality(U) <= Cardinality(S \cup T)
  BY <1>1, FS_Subset
<1>4. /\ Cardinality(S) \in Nat /\ Cardinality(T) \in Nat /\ Cardinality(U) \in Nat
      /\ Cardinality(S \cap T) \in Nat /\ Cardinality(S \cup T) \in Nat
  BY <1>1, <1>2, <1>3, FS_CardinalityType
<1>5. QED
  BY <1>1, <1>3, <1>4

\* Two sets that differ in one element at most, counted.
LEMMA OneApart ==
  ASSUME NEW S, NEW T, NEW x, IsFiniteSet(S), S \ {x} = T \ {x}
  PROVE  /\ IsFiniteSet(T)
         /\ Cardinality(S) \in Nat /\ Cardinality(T) \in Nat
         /\ x \in S /\ x \notin T => Cardinality(T) = Cardinality(S) - 1
         /\ x \notin S /\ x \in T => Cardinality(T) = Cardinality(S) + 1
         /\ (x \in S <=> x \in T) => Cardinality(T) = Cardinality(S)
<1>1. CASE x \in S <=> x \in T
  <2>1. T = S
    BY <1>1
  <2>2. QED
    BY <1>1, <2>1, FS_CardinalityType
<1>2. CASE x \in S /\ x \notin T
  <2>1. T = S \ {x}
    BY <1>2
  <2>2. IsFiniteSet(T) /\ Cardinality(T) = Cardinality(S) - 1
    BY <1>2, <2>1, FS_RemoveElement
  <2>3. QED
    BY <1>2, <2>2, FS_CardinalityType
<1>3. CASE x \notin S /\ x \in T
  <2>1. T = S \cup {x}
    BY <1>3
  <2>2. IsFiniteSet(T) /\ Cardinality(T) = Cardinality(S) + 1
    BY <1>3, <2>1, FS_AddElement
  <2>3. QED
    BY <1>3, <2>2, FS_CardinalityType
<1>4. QED
  BY <1>1, <1>2, <1>3

-----------------------------------------------------------------------------
(* Sums over a finite set (MapThenSumSet).  They are defined by recursion on subsets:   *)
(* that there is such a function is proved here, size by size.                          *)

\* What MapThenSumSet computes: the sum of a function over the subsets of S, taking out
\* one element at a time.
Chosen(s) == CHOOSE x \in s : TRUE
SumOf(g, f, S) ==
    g = [s \in SUBSET S |-> IF s = {} THEN 0 ELSE f[Chosen(s)] + g[s \ {Chosen(s)}]]

\* An element of a nonempty subset is taken out.
LEMMA ChosenIn ==
  ASSUME NEW S, IsFiniteSet(S), NEW s \in SUBSET S, s # {}
  PROVE  /\ Chosen(s) \in s /\ s \ {Chosen(s)} \in SUBSET S
         /\ IsFiniteSet(s) /\ Cardinality(s) \in Nat \ {0}
         /\ Cardinality(s \ {Chosen(s)}) = Cardinality(s) - 1
  <1>1. Chosen(s) \in s
    BY DEF Chosen
  <1>2. IsFiniteSet(s)
    BY FS_Subset
  <1>3. Cardinality(s) \in Nat /\ Cardinality(s) # 0
    BY <1>2, FS_CardinalityType, FS_EmptySet
  <1>4. Cardinality(s \ {Chosen(s)}) = Cardinality(s) - 1
    BY <1>1, <1>2, FS_RemoveElement
  <1>5. QED
    BY <1>1, <1>2, <1>3, <1>4

\* There is such a sum: one for the subsets of up to n elements, for every n.
LEMMA SumExists ==
  ASSUME NEW S, IsFiniteSet(S), NEW f
  PROVE  \E g : SumOf(g, f, S)
  <1> DEFINE Upto(n) == {s \in SUBSET S : Cardinality(s) <= n}
             Partial(g, n) == g = [s \in Upto(n) |-> IF s = {} THEN 0
                                     ELSE f[Chosen(s)] + g[s \ {Chosen(s)}]]
             Lacking == {n \in Nat : ~ \E g : Partial(g, n)}
  <1>1. \A s \in SUBSET S : Cardinality(s) \in Nat
    BY FS_Subset, FS_CardinalityType
  <1>2. \E g : Partial(g, 0)
    <2>1. Upto(0) = {{}}
      <3>1. \A s \in SUBSET S : Cardinality(s) <= 0 <=> s = {}
        BY <1>1, FS_Subset, FS_EmptySet
      <3>2. QED
        BY <3>1
    <2>2. Partial([s \in Upto(0) |-> 0], 0)
      BY <2>1
    <2>3. QED
      BY <2>2
  <1>3. ASSUME NEW n \in Nat, NEW g, Partial(g, n)
        PROVE  \E h : Partial(h, n + 1)
    <2> DEFINE h == [s \in Upto(n + 1) |-> IF s = {} THEN 0
                                            ELSE f[Chosen(s)] + g[s \ {Chosen(s)}]]
    <2>1. ASSUME NEW s \in Upto(n + 1), s # {}
          PROVE  s \ {Chosen(s)} \in Upto(n) /\ s \ {Chosen(s)} \in Upto(n + 1)
      <3>1. /\ s \ {Chosen(s)} \in SUBSET S /\ Cardinality(s) \in Nat
            /\ Cardinality(s \ {Chosen(s)}) = Cardinality(s) - 1
        BY <2>1, ChosenIn
      <3>2. QED
        BY <3>1
    <2>2. \A s \in Upto(n) : s \in Upto(n + 1)
      BY <1>1
    <2>3. \A s \in Upto(n) : h[s] = g[s]
      BY <1>3, <2>2
    <2>4. \A s \in Upto(n + 1) : s # {} => h[s \ {Chosen(s)}] = g[s \ {Chosen(s)}]
      BY <2>1, <2>3
    <2> HIDE DEF Upto
    <2>5. Partial(h, n + 1)
      BY <2>4
    <2>6. QED
      BY <2>5
  <1>4. Lacking = {}
    <2>1. SUFFICES ASSUME Lacking # {} PROVE FALSE
      OBVIOUS
    <2>2. Lacking \in SUBSET Nat
      OBVIOUS
    <2>3. PICK n \in Lacking : \A m \in Lacking : n <= m
      <3> HIDE DEF Lacking
      <3>1. QED
        BY <2>1, <2>2, LeastExists
    <2>4. n \in Nat /\ n # 0
      BY <1>2
    <2>5. n - 1 \in Nat /\ n - 1 \notin Lacking
      <3>1. n - 1 \in Nat /\ ~(n <= n - 1)
        BY <2>4
      <3> HIDE DEF Lacking
      <3>2. QED
        BY <2>3, <3>1
    <2>6. PICK g : Partial(g, n - 1)
      BY <2>5
    <2>7. \E h : Partial(h, (n - 1) + 1)
      BY <1>3, <2>5, <2>6
    <2>8. (n - 1) + 1 = n
      BY <2>4
    <2>9. \E h : Partial(h, n)
      BY <2>7, <2>8, Zenon
    <2>10. n \notin Lacking
      BY <2>4, <2>9
    <2> HIDE DEF Lacking
    <2>11. QED
      BY <2>3, <2>10
  <1>5. Upto(Cardinality(S)) = SUBSET S /\ Cardinality(S) \in Nat
    BY FS_Subset, FS_CardinalityType
  <1>6. PICK g : Partial(g, Cardinality(S))
    BY <1>4, <1>5
  <1>7. QED
    BY <1>5, <1>6 DEF SumOf

\* What a sum says of a subset.
LEMMA SumTakesOut ==
  ASSUME NEW S, NEW f, NEW g, SumOf(g, f, S), NEW s \in SUBSET S
  PROVE  g[s] = IF s = {} THEN 0 ELSE f[Chosen(s)] + g[s \ {Chosen(s)}]
  BY DEF SumOf

\* A sum of natural numbers is one.
LEMMA SumIsNat ==
  ASSUME NEW S, IsFiniteSet(S), NEW f \in [S -> Nat], NEW g, SumOf(g, f, S)
  PROVE  \A s \in SUBSET S : g[s] \in Nat
  <1> DEFINE Wrong == {s \in SUBSET S : g[s] \notin Nat}
             Sizes == {Cardinality(s) : s \in Wrong}
  <1>1. SUFFICES ASSUME Wrong # {} PROVE FALSE
    OBVIOUS
  <1>2. Sizes \in SUBSET Nat /\ Sizes # {}
    BY <1>1, FS_Subset, FS_CardinalityType
  <1>3. PICK n \in Sizes : \A m \in Sizes : n <= m
    <2> HIDE DEF Sizes
    <2>1. QED
      BY <1>2, LeastExists
  <1>4. PICK s \in Wrong : Cardinality(s) = n
    BY <1>3
  <1>5. s # {}
    BY <1>4, SumTakesOut
  <1>6. /\ Chosen(s) \in s /\ s \ {Chosen(s)} \in SUBSET S
        /\ Cardinality(s) \in Nat /\ Cardinality(s \ {Chosen(s)}) = Cardinality(s) - 1
    BY <1>4, <1>5, ChosenIn
  <1>7. s \ {Chosen(s)} \notin Wrong
    <2>1. ~(Cardinality(s) <= Cardinality(s) - 1)
      BY <1>6
    <2>2. QED
      BY <1>3, <1>4, <1>6, <2>1
  <1>8. g[s \ {Chosen(s)}] \in Nat /\ f[Chosen(s)] \in Nat
    BY <1>6, <1>7
  <1>9. g[s] = f[Chosen(s)] + g[s \ {Chosen(s)}]
    <2>1. s \in SUBSET S
      BY <1>4
    <2>2. QED
      BY <1>5, <2>1, SumTakesOut
  <1>10. QED
    BY <1>4, <1>8, <1>9

\* The sum changes as the one value that changes.
LEMMA SumOneChanged ==
  ASSUME NEW S, IsFiniteSet(S), NEW f \in [S -> Nat], NEW e \in [S -> Nat],
         NEW g, SumOf(g, f, S), NEW h, SumOf(h, e, S),
         NEW t \in S, \A x \in S \ {t} : e[x] = f[x]
  PROVE  /\ g[S] \in Nat /\ h[S] \in Nat
         /\ h[S] = g[S] - f[t] + e[t]
  <1> DEFINE Right(s) == h[s] = IF t \in s THEN g[s] - f[t] + e[t] ELSE g[s]
             Wrong == {s \in SUBSET S : ~Right(s)}
             Sizes == {Cardinality(s) : s \in Wrong}
  <1>1. /\ \A s \in SUBSET S : g[s] \in Nat /\ h[s] \in Nat
        /\ \A x \in S : f[x] \in Nat /\ e[x] \in Nat
    BY SumIsNat
  <1>2. SUFFICES ASSUME Wrong # {} PROVE FALSE
    <2>1. S \in SUBSET S /\ g[S] \in Nat /\ h[S] \in Nat
      BY <1>1
    <2>2. Wrong = {} => Right(S)
      BY <2>1
    <2>3. Right(S) => h[S] = g[S] - f[t] + e[t]
      OBVIOUS
    <2> HIDE DEF Wrong, Right
    <2>4. QED
      BY <2>1, <2>2, <2>3
  <1>3. Sizes \in SUBSET Nat /\ Sizes # {}
    BY <1>2, FS_Subset, FS_CardinalityType
  <1>4. PICK n \in Sizes : \A m \in Sizes : n <= m
    <2> HIDE DEF Sizes
    <2>1. QED
      BY <1>3, LeastExists
  <1>5. PICK s \in Wrong : Cardinality(s) = n
    BY <1>4
  <1>6. s # {}
    <2>1. h[{}] = 0 /\ g[{}] = 0
      BY SumTakesOut
    <2>2. QED
      BY <1>5, <2>1
  <1> DEFINE x == Chosen(s)
             r == s \ {x}
  <1>7. x \in s /\ r \in SUBSET S /\ Cardinality(s) \in Nat /\ Cardinality(r) = Cardinality(s) - 1
    BY <1>5, <1>6, ChosenIn
  <1>8. Right(r)
    <2>1. ~(Cardinality(s) <= Cardinality(s) - 1)
      BY <1>7
    <2>2. r \notin Wrong
      BY <1>4, <1>5, <1>7, <2>1
    <2>3. QED
      BY <1>7, <2>2
  <1>9. g[s] = f[x] + g[r] /\ h[s] = e[x] + h[r]
    BY <1>5, <1>6, SumTakesOut
  <1>10. /\ g[r] \in Nat /\ h[r] \in Nat /\ f[x] \in Nat /\ e[x] \in Nat
         /\ f[t] \in Nat /\ e[t] \in Nat /\ x \in S /\ t \notin {x} => (t \in r <=> t \in s)
    BY <1>1, <1>7
  <1> HIDE DEF x
  <1>11. h[s] = IF t \in s THEN g[s] - f[t] + e[t] ELSE g[s]
    <2>1. CASE x = t
      <3>1. h[r] = g[r] /\ t \in s
        BY <1>7, <1>8, <2>1
      <3>2. QED
        BY <1>1, <1>9, <1>10, <2>1, <3>1
    <2>2. CASE x # t
      <3>1. e[x] = f[x] /\ (t \in r <=> t \in s)
        BY <1>7, <2>2
      <3>2. QED
        BY <1>8, <1>9, <1>1, <1>7, <3>1
    <2>3. QED
      BY <2>1, <2>2
  <1>12. QED
    BY <1>5, <1>11

\* A sum of zeros is zero.
LEMMA SumOfZeros ==
  ASSUME NEW S, IsFiniteSet(S), NEW f, \A x \in S : f[x] = 0, NEW g, SumOf(g, f, S)
  PROVE  g[S] = 0
  <1> DEFINE Wrong == {s \in SUBSET S : g[s] # 0}
             Sizes == {Cardinality(s) : s \in Wrong}
  <1>1. SUFFICES ASSUME Wrong # {} PROVE FALSE
    OBVIOUS
  <1>2. Sizes \in SUBSET Nat /\ Sizes # {}
    BY <1>1, FS_Subset, FS_CardinalityType
  <1>3. PICK n \in Sizes : \A m \in Sizes : n <= m
    <2> HIDE DEF Sizes
    <2>1. QED
      BY <1>2, LeastExists
  <1>4. PICK s \in Wrong : Cardinality(s) = n
    BY <1>3
  <1>5. g[s] = IF s = {} THEN 0 ELSE f[Chosen(s)] + g[s \ {Chosen(s)}]
    <2>1. s \in SUBSET S
      BY <1>4
    <2>2. QED
      BY <2>1, SumTakesOut
  <1>6. s # {}
    BY <1>4, <1>5
  <1>7. /\ Chosen(s) \in s /\ s \ {Chosen(s)} \in SUBSET S
        /\ Cardinality(s) \in Nat /\ Cardinality(s \ {Chosen(s)}) = Cardinality(s) - 1
    BY <1>4, <1>6, ChosenIn
  <1>8. s \ {Chosen(s)} \notin Wrong
    <2>1. ~(Cardinality(s) <= Cardinality(s) - 1)
      BY <1>7
    <2>2. QED
      BY <1>3, <1>4, <1>7, <2>1
  <1>9. g[s \ {Chosen(s)}] = 0 /\ f[Chosen(s)] = 0
    BY <1>4, <1>7, <1>8
  <1>10. QED
    BY <1>4, <1>5, <1>6, <1>9
================================================================================
