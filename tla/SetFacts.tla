------------------------------ MODULE SetFacts ------------------------------
(***************************************************************************)
(* Facts about finite sets of numbers and of numbered records, and about    *)
(* sorted sequences, that the proofs share.                                 *)
(***************************************************************************)
EXTENDS FiniteSetsExt, FiniteSetTheorems, Sequences, Sorting, TLAPS

-----------------------------------------------------------------------------
(* Greatest and least elements *)

LEMMA MaxIs ==
    ASSUME NEW S, S \subseteq Int, NEW n \in S, \A x \in S : n >= x
    PROVE  Max(S) = n
<1>1. Max(S) \in S /\ \A x \in S : Max(S) >= x
  BY DEF Max
<1>2. Max(S) >= n /\ n >= Max(S) /\ Max(S) \in Int /\ n \in Int
  BY <1>1
<1> QED BY <1>2

\* A non-empty finite set that has no least element loses none by taking one away: the
\* smallest such set does not exist.
LEMMA FiniteExtremes ==
    ASSUME NEW S, S \subseteq Int, IsFiniteSet(S), S # {}
    PROVE  /\ \E n \in S : \A x \in S : n >= x
           /\ \E n \in S : \A x \in S : n <= x
<1> DEFINE Bounded(T) == /\ \E n \in T : \A x \in T : n >= x
                         /\ \E n \in T : \A x \in T : n <= x
           Bad == {T \in SUBSET S : T # {} /\ ~ Bounded(T)}
<1>1. IsWellFoundedOn(StrictSubsetOrdering(S), SUBSET S)
  BY FS_StrictSubsetOrderingWellFounded, FS_FiniteSubsetsOfFinite
<1>2. SUFFICES ASSUME Bad # {} PROVE FALSE
  OBVIOUS
<1>3. PICK T \in Bad : \A U \in Bad : <<U, T>> \notin StrictSubsetOrdering(S)
  <2>1. Bad \subseteq SUBSET S
    OBVIOUS
  <2> HIDE DEF Bad
  <2> QED BY <1>1, <1>2, <2>1, WFMin
<1>4. PICK t \in T : TRUE
  OBVIOUS
<1>5. CASE T \ {t} = {}
  BY <1>4, <1>5
<1>6. CASE T \ {t} # {}
  <2>1. T \ {t} \notin Bad
    BY <1>3, <1>4 DEF StrictSubsetOrdering
  <2>2. Bounded(T \ {t})
    BY <1>6, <2>1
  <2>3. PICK n \in T \ {t} : \A x \in T \ {t} : n >= x
    BY <2>2
  <2>4. PICK l \in T \ {t} : \A x \in T \ {t} : l <= x
    BY <2>2
  <2>5. \E m \in T : \A x \in T : m >= x
    <3>1. CASE t >= n BY <2>3, <3>1
    <3>2. CASE n >= t BY <2>3, <3>2
    <3> QED BY <3>1, <3>2
  <2>6. \E m \in T : \A x \in T : m <= x
    <3>1. CASE t <= l BY <2>4, <3>1
    <3>2. CASE l <= t BY <2>4, <3>2
    <3> QED BY <3>1, <3>2
  <2> QED BY <2>5, <2>6
<1> QED BY <1>5, <1>6

LEMMA FiniteMax ==
    ASSUME NEW S, S \subseteq Int, IsFiniteSet(S), S # {}
    PROVE  Max(S) \in S /\ \A x \in S : Max(S) >= x
BY FiniteExtremes DEF Max

LEMMA FiniteMin ==
    ASSUME NEW S, S \subseteq Int, IsFiniteSet(S), S # {}
    PROVE  Min(S) \in S /\ \A x \in S : Min(S) <= x
BY FiniteExtremes DEF Min

\* What holds of 0, and of each number if it holds of the one before, holds up to n: there
\* is no least one for which it does not.
LEMMA BoundedInduction ==
    ASSUME NEW n \in Nat, NEW S, 0 \in S, \A k \in 1 .. n : k - 1 \in S => k \in S
    PROVE  0 .. n \subseteq S
<1> DEFINE Rest == (0 .. n) \ S
<1>1. SUFFICES ASSUME Rest # {} PROVE FALSE
  OBVIOUS
<1>2. IsFiniteSet(Rest) /\ Rest \subseteq Int
  <2>1. IsFiniteSet(0 .. n)
    BY FS_Interval
  <2>2. Rest \subseteq 0 .. n
    OBVIOUS
  <2> QED BY <2>1, <2>2, FS_Subset
<1>3. PICK m \in Rest : \A x \in Rest : m <= x
  <2> HIDE DEF Rest
  <2> QED BY <1>1, <1>2, FiniteExtremes
<1>4. m \in 1 .. n /\ m - 1 \in 0 .. n
  BY <1>3
<1>5. m - 1 \notin Rest
  BY <1>3, <1>4
<1> QED BY <1>3, <1>4, <1>5

-----------------------------------------------------------------------------
(* Images *)

LEMMA ImageFinite ==
    ASSUME NEW S, IsFiniteSet(S), NEW T, NEW f \in [S -> T]
    PROVE  /\ IsFiniteSet({f[x] : x \in S})
           /\ Cardinality({f[x] : x \in S}) <= Cardinality(S)
<1> DEFINE R == {f[x] : x \in S}
<1>1. f \in Surjection(S, R)
  BY DEF Surjection
<1> QED BY <1>1, FS_Surjection

\* A finite set from which f covers R is not smaller than R.
LEMMA CoveredBySize ==
    ASSUME NEW S, IsFiniteSet(S), NEW f, NEW R, \A k \in R : \E x \in S : f[x] = k
    PROVE  IsFiniteSet(R) /\ Cardinality(R) <= Cardinality(S)
<1> DEFINE g == [x \in S |-> f[x]]
           T == {g[x] : x \in S}
<1>1. g \in Surjection(S, T)
  BY DEF Surjection
<1>2. R \in SUBSET T
  OBVIOUS
<1> HIDE DEF g, T
<1>3. IsFiniteSet(T) /\ Cardinality(T) <= Cardinality(S)
  BY <1>1, FS_Surjection
<1>4. IsFiniteSet(R) /\ Cardinality(R) <= Cardinality(T)
  BY <1>2, <1>3, FS_Subset
<1>5. {Cardinality(R), Cardinality(S), Cardinality(T)} \subseteq Nat
  BY <1>3, <1>4, FS_CardinalityType
<1> QED BY <1>3, <1>4, <1>5

LEMMA ImageSameSize ==
    ASSUME NEW S, IsFiniteSet(S), NEW T, NEW f \in Injection(S, T)
    PROVE  /\ IsFiniteSet({f[x] : x \in S})
           /\ Cardinality({f[x] : x \in S}) = Cardinality(S)
<1> DEFINE R == {f[x] : x \in S}
<1>1. f \in Bijection(S, R)
  BY DEF Bijection, Injection, IsInjective, Surjection
<1> QED BY <1>1, FS_Bijection DEF ExistsBijection
-----------------------------------------------------------------------------
(* Sizes                                                                   *)

\* A set has more than one element exactly when two of them differ.
LEMMA SeveralElements ==
    ASSUME NEW S, IsFiniteSet(S)
    PROVE  Cardinality(S) > 1 <=> \E x, y \in S : x # y
<1>1. ASSUME NEW x \in S, NEW y \in S, x # y PROVE Cardinality(S) > 1
  <2>1. IsFiniteSet(S \ {x}) /\ Cardinality(S \ {x}) = Cardinality(S) - 1
    BY FS_RemoveElement
  <2>2. S \ {x} # {}
    BY <1>1
  <2>3. Cardinality(S \ {x}) \in Nat /\ Cardinality(S \ {x}) # 0 /\ Cardinality(S) \in Nat
    BY <2>1, <2>2, FS_EmptySet, FS_CardinalityType
  <2> QED BY <2>1, <2>3
<1>2. ASSUME \A x, y \in S : x = y PROVE ~ (Cardinality(S) > 1)
  <2>1. CASE S = {}
    BY <2>1, FS_EmptySet
  <2>2. ASSUME NEW x \in S PROVE ~ (Cardinality(S) > 1)
    <3>1. S = {x}
      BY <1>2
    <3> QED BY <3>1, FS_Singleton
  <2> QED BY <2>1, <2>2
<1> QED BY <1>1, <1>2

-----------------------------------------------------------------------------
(* Sorting *)

Orders(R, S) ==
    /\ \A x \in S : <<x, x>> \notin R
    /\ \A x, y, z \in S : <<x, y>> \in R /\ <<y, z>> \in R => <<x, z>> \in R
    /\ \A x, y \in S : x # y => <<x, y>> \in R \/ <<y, x>> \in R

RankAlong(S, R, x) == Cardinality({y \in S : <<y, x>> \in R})

\* The rank of an element in a total order: each has one of its own, from 0 up.
LEMMA RanksAlong ==
    ASSUME NEW S, IsFiniteSet(S), NEW R, Orders(R, S)
    PROVE  /\ Cardinality(S) \in Nat
           /\ \A x \in S : RankAlong(S, R, x) \in 0 .. Cardinality(S) - 1
           /\ \A x, y \in S : <<x, y>> \in R => RankAlong(S, R, x) < RankAlong(S, R, y)
           /\ \A x, y \in S : RankAlong(S, R, x) < RankAlong(S, R, y) => <<x, y>> \in R
           /\ \A x, y \in S : RankAlong(S, R, x) = RankAlong(S, R, y) => x = y
<1> DEFINE B(x) == {y \in S : <<y, x>> \in R}
<1>1. Cardinality(S) \in Nat
  BY FS_CardinalityType
<1>2. \A x \in S : /\ IsFiniteSet(B(x)) /\ RankAlong(S, R, x) \in Nat
                   /\ RankAlong(S, R, x) \in 0 .. Cardinality(S) - 1
  <2> SUFFICES ASSUME NEW x \in S
               PROVE  /\ IsFiniteSet(B(x)) /\ RankAlong(S, R, x) \in Nat
                      /\ RankAlong(S, R, x) \in 0 .. Cardinality(S) - 1
    OBVIOUS
  <2>1. B(x) \in SUBSET S /\ x \notin B(x)
    BY DEF Orders
  <2>2. B(x) # S
    BY <2>1
  <2> HIDE DEF B
  <2>3. IsFiniteSet(B(x)) /\ Cardinality(B(x)) <= Cardinality(S) /\ Cardinality(S) # Cardinality(B(x))
    BY <2>1, <2>2, FS_Subset
  <2>4. Cardinality(B(x)) \in Nat
    BY <2>3, FS_CardinalityType
  <2> QED BY <1>1, <2>3, <2>4 DEF RankAlong, B
<1>3. ASSUME NEW x \in S, NEW y \in S, <<x, y>> \in R
      PROVE  RankAlong(S, R, x) < RankAlong(S, R, y)
  <2>1. B(x) \in SUBSET B(y) /\ x \in B(y) /\ x \notin B(x)
    BY <1>3 DEF Orders
  <2>2. IsFiniteSet(B(y)) /\ RankAlong(S, R, x) \in Nat /\ RankAlong(S, R, y) \in Nat
    BY <1>1, <1>2
  <2> HIDE DEF B
  <2>3. Cardinality(B(x)) <= Cardinality(B(y)) /\ Cardinality(B(y)) # Cardinality(B(x))
    BY <2>1, <2>2, FS_Subset
  <2> QED BY <2>2, <2>3 DEF RankAlong, B
<1>4. \A x \in S : RankAlong(S, R, x) \in Int
  <2> HIDE DEF B
  <2> QED BY <1>2
<1>5. ASSUME NEW x \in S, NEW y \in S
      PROVE  /\ RankAlong(S, R, x) < RankAlong(S, R, y) => <<x, y>> \in R
             /\ RankAlong(S, R, x) = RankAlong(S, R, y) => x = y
  <2>1. x # y => <<x, y>> \in R \/ <<y, x>> \in R
    BY DEF Orders
  <2>2. /\ <<x, y>> \in R => RankAlong(S, R, x) < RankAlong(S, R, y)
        /\ <<y, x>> \in R => RankAlong(S, R, y) < RankAlong(S, R, x)
    BY <1>3
  <2> QED BY <1>4, <2>1, <2>2
<1> QED BY <1>1, <1>2, <1>3, <1>5

\* Sorted: each element of the set stands once, after those before it in the order.
LEMMA AlongIs ==
    ASSUME NEW S, IsFiniteSet(S), NEW R, Orders(R, S)
    PROVE  /\ Cardinality(S) \in Nat
           /\ Along(S, R) \in [1 .. Cardinality(S) -> S]
           /\ \A k \in 1 .. Cardinality(S) : RankAlong(S, R, Along(S, R)[k]) = k - 1
           /\ \A x \in S : /\ RankAlong(S, R, x) + 1 \in 1 .. Cardinality(S)
                           /\ Along(S, R)[RankAlong(S, R, x) + 1] = x
           /\ \A k, l \in 1 .. Cardinality(S) :
                /\ k < l => <<Along(S, R)[k], Along(S, R)[l]>> \in R
                /\ Along(S, R)[k] = Along(S, R)[l] => k = l
<1> DEFINE rank == [x \in S |-> RankAlong(S, R, x)]
           n == Cardinality(S)
           A == Along(S, R)
<1>1. n \in Nat /\ rank \in [S -> 0 .. n - 1] /\ \A x, y \in S : rank[x] = rank[y] => x = y
  BY RanksAlong
<1>2. \A k \in 1 .. n : \E x \in S : RankAlong(S, R, x) = k - 1
  <2>1. rank \in Injection(S, 0 .. n - 1)
    BY <1>1 DEF Injection, IsInjective
  <2>2. IsFiniteSet(0 .. n - 1) /\ Cardinality(0 .. n - 1) = n
    <3>1. 0 \in Int /\ n - 1 \in Int
      BY <1>1
    <3>2. IsFiniteSet(0 .. n - 1) /\ Cardinality(0 .. n - 1) = IF 0 > n - 1 THEN 0 ELSE n - 1 - 0 + 1
      BY <3>1, FS_Interval
    <3> HIDE DEF n
    <3> QED BY <1>1, <3>2
  <2>3. rank \in Surjection(S, 0 .. n - 1)
    <3> HIDE DEF rank
    <3> QED BY <2>1, <2>2, FS_Injection
  <2> SUFFICES ASSUME NEW k \in 1 .. n PROVE \E x \in S : RankAlong(S, R, x) = k - 1
    OBVIOUS
  <2>4. k - 1 \in 0 .. n - 1
    BY <1>1
  <2>5. \E x \in S : rank[x] = k - 1
    BY <2>3, <2>4 DEF Surjection
  <2> QED BY <2>5
<1>3. A = [k \in 1 .. n |-> CHOOSE x \in S : RankAlong(S, R, x) = k - 1]
  BY DEF Along, RankAlong
<1> HIDE DEF A, n
<1>4. \A k \in 1 .. n : A[k] \in S /\ RankAlong(S, R, A[k]) = k - 1
  BY <1>2, <1>3
<1>5. A \in [1 .. n -> S]
  BY <1>3, <1>4
<1>6. ASSUME NEW x \in S
      PROVE  RankAlong(S, R, x) + 1 \in 1 .. n /\ A[RankAlong(S, R, x) + 1] = x
  <2>1. RankAlong(S, R, x) \in 0 .. n - 1
    BY RanksAlong DEF n
  <2>2. RankAlong(S, R, x) + 1 \in 1 .. n
    BY <1>1, <2>1 DEF n
  <2>3. /\ A[RankAlong(S, R, x) + 1] \in S
        /\ RankAlong(S, R, A[RankAlong(S, R, x) + 1]) = RankAlong(S, R, x)
    BY <1>4, <2>1, <2>2
  <2> QED BY <2>2, <2>3, RanksAlong
<1>7. ASSUME NEW k \in 1 .. n, NEW l \in 1 .. n
      PROVE  (k < l => <<A[k], A[l]>> \in R) /\ (A[k] = A[l] => k = l)
  <2>1. A[k] \in S /\ A[l] \in S /\ RankAlong(S, R, A[k]) = k - 1 /\ RankAlong(S, R, A[l]) = l - 1
    BY <1>4
  <2>2. RankAlong(S, R, A[k]) < RankAlong(S, R, A[l]) => <<A[k], A[l]>> \in R
    BY <2>1, RanksAlong
  <2> QED BY <2>1, <2>2
<1> QED BY <1>1, <1>4, <1>5, <1>6, <1>7 DEF A, n

\* There is one way to sort: a sequence that rises along the order and has every element.
LEMMA SortedOnce ==
    ASSUME NEW S, NEW R, Orders(R, S), NEW n \in Nat, NEW s \in [1 .. n -> S],
           \A k, l \in 1 .. n : k < l => <<s[k], s[l]>> \in R,
           \A x \in S : \E k \in 1 .. n : s[k] = x
    PROVE  IsFiniteSet(S) /\ n = Cardinality(S) /\ s = Along(S, R)
<1>1. \A k, l \in 1 .. n : s[k] = s[l] => k = l
  <2> SUFFICES ASSUME NEW k \in 1 .. n, NEW l \in 1 .. n, s[k] = s[l], k < l PROVE FALSE
    <3>1. \A k, l \in 1 .. n : k < l => s[k] # s[l]
      OBVIOUS
    <3>2. \A k, l \in 1 .. n : k = l \/ k < l \/ l < k
      OBVIOUS
    <3> QED BY <3>1, <3>2
  <2> QED BY DEF Orders
<1>2. s \in Bijection(1 .. n, S)
  BY <1>1 DEF Bijection, Injection, IsInjective, Surjection
<1>3. IsFiniteSet(1 .. n) /\ Cardinality(1 .. n) = n
  BY FS_Interval
<1>4. IsFiniteSet(S) /\ Cardinality(S) = n
  BY <1>2, <1>3, FS_Bijection DEF ExistsBijection
<1>5. ASSUME NEW k \in 1 .. n PROVE RankAlong(S, R, s[k]) = k - 1
  <2> DEFINE f == [i \in 1 .. k - 1 |-> s[i]]
             B == {y \in S : <<y, s[k]>> \in R}
  <2>1. B = {f[i] : i \in 1 .. k - 1}
    <3>1. ASSUME NEW i \in 1 .. k - 1 PROVE f[i] \in B
      <4>1. i \in 1 .. n /\ i < k
        OBVIOUS
      <4> QED BY <4>1
    <3>2. ASSUME NEW y \in B PROVE \E i \in 1 .. k - 1 : f[i] = y
      <4>1. PICK i \in 1 .. n : s[i] = y
        OBVIOUS
      <4>2. <<s[i], s[k]>> \in R /\ s[i] \in S /\ s[k] \in S
        BY <4>1
      <4>3. i # k /\ ~ k < i
        BY <4>2 DEF Orders
      <4>4. i \in 1 .. k - 1
        BY <4>3
      <4> QED BY <4>1, <4>4
    <3> QED BY <3>1, <3>2
  <2>2. f \in Injection(1 .. k - 1, S)
    BY <1>1 DEF Injection, IsInjective
  <2>3. IsFiniteSet(1 .. k - 1) /\ Cardinality(1 .. k - 1) = k - 1
    <3>1. IsFiniteSet(1 .. k - 1) /\ Cardinality(1 .. k - 1) = IF 1 > k - 1 THEN 0 ELSE k - 1 - 1 + 1
      BY FS_Interval
    <3> QED BY <3>1
  <2> HIDE DEF f
  <2>4. Cardinality({f[i] : i \in 1 .. k - 1}) = k - 1
    BY <2>2, <2>3, ImageSameSize
  <2> QED BY <2>1, <2>4 DEF RankAlong
<1>6. /\ Along(S, R) \in [1 .. n -> S]
      /\ \A k \in 1 .. n : RankAlong(S, R, Along(S, R)[k]) = k - 1
  <2>0. IsFiniteSet(S) /\ Orders(R, S)
    BY <1>4
  <2>1. Along(S, R) \in [1 .. Cardinality(S) -> S]
    BY ONLY <2>0, AlongIs
  <2>2. \A k \in 1 .. Cardinality(S) : RankAlong(S, R, Along(S, R)[k]) = k - 1
    BY ONLY <2>0, AlongIs
  <2> QED BY ONLY <1>4, <2>1, <2>2
<1>7. \A k \in 1 .. n : s[k] = Along(S, R)[k]
  <2> SUFFICES ASSUME NEW k \in 1 .. n PROVE s[k] = Along(S, R)[k]
    OBVIOUS
  <2>1. s[k] \in S /\ Along(S, R)[k] \in S /\ RankAlong(S, R, s[k]) = RankAlong(S, R, Along(S, R)[k])
    BY <1>5, <1>6
  <2> QED BY <1>4, <2>1, RanksAlong
<1>8. s = Along(S, R)
  BY <1>6, <1>7
<1> QED BY <1>4, <1>8

LEMMA NumbersOrdered ==
    ASSUME NEW S, S \subseteq Int
    PROVE  /\ Orders({p \in S \X S : p[1] < p[2]}, S)
           /\ \A x, y \in S : <<x, y>> \in {p \in S \X S : p[1] < p[2]} <=> x < y
BY DEF Orders

LEMMA InOrderIs ==
    ASSUME NEW S, S \subseteq Int, IsFiniteSet(S)
    PROVE  /\ Cardinality(S) \in Nat
           /\ InOrder(S) \in [1 .. Cardinality(S) -> S]
           /\ InOrder(S) \in Seq(S) /\ Len(InOrder(S)) = Cardinality(S)
           /\ \A x \in S : \E k \in 1 .. Cardinality(S) : InOrder(S)[k] = x
           /\ \A k, l \in 1 .. Cardinality(S) : k < l => InOrder(S)[k] < InOrder(S)[l]
           /\ \A k, l \in 1 .. Cardinality(S) : InOrder(S)[k] = InOrder(S)[l] => k = l
           /\ \A k \in 1 .. Cardinality(S) : Cardinality({y \in S : y < InOrder(S)[k]}) = k - 1
           /\ \A x \in S : Cardinality({y \in S : y < x}) \in 0 .. Cardinality(S) - 1
<1> DEFINE R == {p \in S \X S : p[1] < p[2]}
           n == Cardinality(S)
           A == InOrder(S)
<1>1. Orders(R, S) /\ \A x, y \in S : <<x, y>> \in R <=> x < y
  BY NumbersOrdered
<1>2. A = Along(S, R)
  BY DEF InOrder
<1>3. \A x \in S : RankAlong(S, R, x) = Cardinality({y \in S : y < x})
  <2> SUFFICES ASSUME NEW x \in S PROVE RankAlong(S, R, x) = Cardinality({y \in S : y < x})
    OBVIOUS
  <2>1. {y \in S : <<y, x>> \in R} = {y \in S : y < x}
    BY <1>1
  <2> QED BY <2>1 DEF RankAlong
<1> HIDE DEF R, A
<1>4. /\ n \in Nat
      /\ A \in [1 .. n -> S]
      /\ \A k \in 1 .. n : RankAlong(S, R, A[k]) = k - 1
      /\ \A x \in S : RankAlong(S, R, x) + 1 \in 1 .. n /\ A[RankAlong(S, R, x) + 1] = x
      /\ \A k, l \in 1 .. n : (k < l => <<A[k], A[l]>> \in R) /\ (A[k] = A[l] => k = l)
  <2>1. n \in Nat /\ Along(S, R) \in [1 .. n -> S]
    BY <1>1, AlongIs
  <2>2. \A k \in 1 .. n : RankAlong(S, R, Along(S, R)[k]) = k - 1
    BY <1>1, AlongIs
  <2>3. \A x \in S : RankAlong(S, R, x) + 1 \in 1 .. n /\ Along(S, R)[RankAlong(S, R, x) + 1] = x
    BY <1>1, AlongIs
  <2>4. \A k, l \in 1 .. n : /\ k < l => <<Along(S, R)[k], Along(S, R)[l]>> \in R
                             /\ Along(S, R)[k] = Along(S, R)[l] => k = l
    BY <1>1, AlongIs
  <2> QED BY <1>2, <2>1, <2>2, <2>3, <2>4
<1> HIDE DEF n
<1>5. A \in Seq(S) /\ Len(A) = n
  BY <1>4
<1>6. \A x \in S : \E k \in 1 .. n : A[k] = x
  BY <1>4
<1>7. \A k, l \in 1 .. n : k < l => A[k] < A[l]
  BY <1>1, <1>4
<1>8. \A k \in 1 .. n : Cardinality({y \in S : y < A[k]}) = k - 1
  <2> SUFFICES ASSUME NEW k \in 1 .. n PROVE Cardinality({y \in S : y < A[k]}) = k - 1
    OBVIOUS
  <2>1. A[k] \in S /\ RankAlong(S, R, A[k]) = k - 1
    BY <1>4
  <2> QED BY <1>3, <2>1
<1>9. \A x \in S : Cardinality({y \in S : y < x}) \in 0 .. n - 1
  <2> SUFFICES ASSUME NEW x \in S PROVE Cardinality({y \in S : y < x}) \in 0 .. n - 1
    OBVIOUS
  <2>1. RankAlong(S, R, x) \in 0 .. n - 1
    BY <1>1, RanksAlong DEF n
  <2> QED BY <1>3, <2>1
<1> QED BY <1>4, <1>5, <1>6, <1>7, <1>8, <1>9 DEF A, n

LEMMA InOrderOnce ==
    ASSUME NEW S, S \subseteq Int, NEW n \in Nat, NEW s \in [1 .. n -> S],
           \A k, l \in 1 .. n : k < l => s[k] < s[l],
           \A x \in S : \E k \in 1 .. n : s[k] = x
    PROVE  IsFiniteSet(S) /\ n = Cardinality(S) /\ s = InOrder(S)
<1> DEFINE R == {p \in S \X S : p[1] < p[2]}
<1>1. Orders(R, S) /\ \A x, y \in S : <<x, y>> \in R <=> x < y
  BY NumbersOrdered
<1>2. \A k, l \in 1 .. n : k < l => <<s[k], s[l]>> \in R
  BY <1>1
<1>3. InOrder(S) = Along(S, R)
  BY DEF InOrder
<1> HIDE DEF R
<1>4. IsFiniteSet(S) /\ n = Cardinality(S) /\ s = Along(S, R)
  BY ZenonT(30), <1>1, <1>2, SortedOnce
<1> QED BY <1>3, <1>4

LEMMA InOrderEmpty == InOrder({}) = <<>>
<1>1. <<>> \in [1 .. 0 -> {}]
  OBVIOUS
<1> QED BY <1>1, InOrderOnce

LEMMA InOrderNext ==
    ASSUME NEW S, S \subseteq Int, IsFiniteSet(S), NEW x \in Int, \A y \in S : y < x
    PROVE  InOrder(S \union {x}) = Append(InOrder(S), x)
<1> DEFINE n == Cardinality(S)
           A == InOrder(S)
           s == Append(A, x)
           T == S \union {x}
<1>1. /\ n \in Nat /\ A \in [1 .. n -> S] /\ A \in Seq(S) /\ Len(A) = n
      /\ \A y \in S : \E k \in 1 .. n : A[k] = y
      /\ \A k, l \in 1 .. n : k < l => A[k] < A[l]
  BY InOrderIs
<1> HIDE DEF n, A
<1>3. DOMAIN s = 1 .. n + 1 /\ \A k \in 1 .. n + 1 : s[k] = IF k = n + 1 THEN x ELSE A[k]
  BY <1>1
<1>2. s \in [1 .. n + 1 -> T]
  <2>1. A \in Seq(T) /\ x \in T
    <3>1. S \subseteq T
      OBVIOUS
    <3> HIDE DEF T
    <3>2. A \in [1 .. n -> T]
      BY <1>1, <3>1
    <3>3. A \in Seq(T)
      BY <1>1, <3>2
    <3> QED BY <3>3 DEF T
  <2> HIDE DEF T
  <2>2. s \in Seq(T) /\ Len(s) = n + 1
    BY <1>1, <2>1
  <2> HIDE DEF s
  <2> QED BY <2>2
<1>4. \A k, l \in 1 .. n + 1 : k < l => s[k] < s[l]
  <2> HIDE DEF s
  <2> SUFFICES ASSUME NEW k \in 1 .. n + 1, NEW l \in 1 .. n + 1, k < l PROVE s[k] < s[l]
    OBVIOUS
  <2>1. k \in 1 .. n /\ s[k] = A[k] /\ A[k] \in S
    BY <1>1, <1>3
  <2>2. CASE l = n + 1
    BY <1>1, <1>3, <2>1, <2>2
  <2>3. CASE l # n + 1
    <3>1. l \in 1 .. n /\ s[l] = A[l]
      BY <1>1, <1>3, <2>3
    <3> QED BY <1>1, <2>1, <3>1
  <2> QED BY <2>2, <2>3
<1>5. \A y \in T : \E k \in 1 .. n + 1 : s[k] = y
  <2> HIDE DEF s
  <2> SUFFICES ASSUME NEW y \in T PROVE \E k \in 1 .. n + 1 : s[k] = y
    OBVIOUS
  <2>1. CASE y = x
    <3>1. n + 1 \in 1 .. n + 1 /\ s[n + 1] = x
      BY <1>1, <1>3
    <3> QED BY <2>1, <3>1
  <2>2. CASE y # x
    <3>1. PICK k \in 1 .. n : A[k] = y
      BY <1>1, <2>2
    <3>2. k \in 1 .. n + 1 /\ s[k] = A[k]
      BY <1>1, <1>3
    <3> QED BY <3>1, <3>2
  <2> QED BY <2>1, <2>2
<1>6. T \subseteq Int /\ n + 1 \in Nat
  BY <1>1
<1> HIDE DEF s, T
<1>7. s = InOrder(T)
  BY <1>2, <1>4, <1>5, <1>6, InOrderOnce
<1> QED BY <1>7 DEF s, T, A

LEMMA PickedIs ==
    ASSUME NEW s, NEW P, P \subseteq Int, IsFiniteSet(P)
    PROVE  /\ Picked(s, P) = [k \in 1 .. Cardinality(P) |-> s[InOrder(P)[k]]]
           /\ \A k \in 1 .. Cardinality(P) : InOrder(P)[k] \in P
           /\ DOMAIN Picked(s, P) = 1 .. Cardinality(P)
BY InOrderIs DEF Picked

LEMMA PickedNext ==
    ASSUME NEW s, NEW P, P \subseteq Int, IsFiniteSet(P), NEW m \in Int, \A p \in P : p < m
    PROVE  Picked(s, P \union {m}) = Append(Picked(s, P), s[m])
<1> DEFINE n == Cardinality(P)
           A == InOrder(P)
           B == InOrder(P \union {m})
<1>1. n \in Nat /\ A \in [1 .. n -> P] /\ A \in Seq(P) /\ Len(A) = n
  BY InOrderIs
<1>2. B = Append(A, m)
  BY InOrderNext
<1> HIDE DEF n, A, B
<1>3. DOMAIN B = 1 .. n + 1 /\ \A k \in 1 .. n + 1 : B[k] = IF k = n + 1 THEN m ELSE A[k]
  BY <1>1, <1>2
<1>4. Picked(s, P \union {m}) = [k \in 1 .. n + 1 |-> IF k = n + 1 THEN s[m] ELSE s[A[k]]]
  BY <1>3 DEF Picked, B
<1>5. Picked(s, P) = [k \in 1 .. n |-> s[A[k]]]
  BY <1>1 DEF Picked, A
<1> DEFINE T == {s[k] : k \in P}
<1>6. [k \in 1 .. n |-> s[A[k]]] \in Seq(T) /\ Len([k \in 1 .. n |-> s[A[k]]]) = n
  BY <1>1
<1>7. Append([k \in 1 .. n |-> s[A[k]]], s[m])
        = [k \in 1 .. n + 1 |-> IF k = n + 1 THEN s[m] ELSE s[A[k]]]
  BY <1>1, <1>6
<1> QED BY <1>4, <1>5, <1>7

LEMMA ByNumberIs ==
    ASSUME NEW P, P \subseteq Int, IsFiniteSet(P), NEW s, \A p \in P : s[p] \in Int
    PROVE  /\ Cardinality(P) \in Nat
           /\ ByNumber(s, P) \in [1 .. Cardinality(P) -> P]
           /\ \A p \in P : \E k \in 1 .. Cardinality(P) : ByNumber(s, P)[k] = p
           /\ \A k, l \in 1 .. Cardinality(P) : ByNumber(s, P)[k] = ByNumber(s, P)[l] => k = l
           /\ \A k, l \in 1 .. Cardinality(P) : k < l => s[ByNumber(s, P)[k]] <= s[ByNumber(s, P)[l]]
<1> DEFINE R == {p \in P \X P : s[p[1]] < s[p[2]] \/ (s[p[1]] = s[p[2]] /\ p[1] < p[2])}
           n == Cardinality(P)
           B == ByNumber(s, P)
<1>1. \A p, q \in P : <<p, q>> \in R <=> s[p] < s[q] \/ (s[p] = s[q] /\ p < q)
  OBVIOUS
<1>2. B = Along(P, R)
  BY DEF ByNumber
<1> HIDE DEF R, B
<1>3. Orders(R, P)
  BY <1>1 DEF Orders
<1>4. n \in Nat /\ Along(P, R) \in [1 .. n -> P]
  BY <1>3, AlongIs
<1>5. \A p \in P : RankAlong(P, R, p) + 1 \in 1 .. n /\ Along(P, R)[RankAlong(P, R, p) + 1] = p
  BY <1>3, AlongIs
<1>6. \A k, l \in 1 .. n : /\ k < l => <<Along(P, R)[k], Along(P, R)[l]>> \in R
                           /\ Along(P, R)[k] = Along(P, R)[l] => k = l
  BY <1>3, AlongIs
<1> HIDE DEF n
<1>7. \A p \in P : \E k \in 1 .. n : B[k] = p
  BY <1>2, <1>5
<1>8. \A k, l \in 1 .. n : k < l => s[B[k]] <= s[B[l]]
  <2> SUFFICES ASSUME NEW k \in 1 .. n, NEW l \in 1 .. n, k < l PROVE s[B[k]] <= s[B[l]]
    OBVIOUS
  <2>1. B[k] \in P /\ B[l] \in P /\ <<B[k], B[l]>> \in R
    BY <1>2, <1>4, <1>6
  <2>2. s[B[k]] \in Int /\ s[B[l]] \in Int
    BY <2>1
  <2>3. s[B[k]] < s[B[l]] \/ s[B[k]] = s[B[l]]
    BY <1>1, <2>1
  <2> QED BY ONLY <2>2, <2>3
<1> QED BY <1>2, <1>4, <1>6, <1>7, <1>8 DEF B, n
=============================================================================
