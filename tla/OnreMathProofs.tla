--------------------------- MODULE OnreMathProofs ---------------------------
(***************************************************************************)
(* Facts about integer division, the operators of OnreMath, and sums over  *)
(* finite sets that the other proof modules rest on; then, for every scale *)
(* and every pair, the curve of SellCurve: its logarithm, its exponential, *)
(* its powers and its haircuts grow with the utilization, so that a sell   *)
(* is paid no more when there is more pressure and less liquidity, and at  *)
(* most the value of what it takes; and when pow_fixed, which the prices   *)
(* compound by, stays within u128.                                         *)
(***************************************************************************)
EXTENDS OnreMath, OfferPricing, SellCurve, FiniteSetsExt, FiniteSetTheorems,
        WellFoundedInduction, TLAPS

\* What integer division returns.
LEMMA Division ==
    ASSUME NEW n \in Int, NEW d \in Nat \ {0}
    PROVE  /\ n \div d \in Int
           /\ (n \div d) * d <= n
           /\ n < (n \div d) * d + d
  OBVIOUS

\* Products of naturals are naturals and grow with their factors.
LEMMA ProductMonotone ==
    ASSUME NEW a \in Int, NEW b \in Int, NEW c \in Nat, a <= b
    PROVE  a * c <= b * c
  OBVIOUS

LEMMA NatProduct ==
    ASSUME NEW a \in Nat, NEW b \in Nat
    PROVE  a * b \in Nat
  OBVIOUS

\* A quotient is at most b when the dividend is at most b times the divisor.
LEMMA QuotientAtMost ==
    ASSUME NEW n \in Int, NEW d \in Nat \ {0}, NEW b \in Int, n <= b * d
    PROVE  n \div d <= b
  OBVIOUS

\* A quotient of a natural is a natural.
LEMMA QuotientNat ==
    ASSUME NEW n \in Nat, NEW d \in Nat \ {0}
    PROVE  n \div d \in Nat
  OBVIOUS

\* A share of n parts in d of an amount is between nothing and the amount.
LEMMA ShareOfAmount ==
    ASSUME NEW a \in Nat, NEW n \in Nat, NEW d \in Nat \ {0}, n <= d
    PROVE  (a * n) \div d \in Nat /\ (a * n) \div d <= a
<1>1. a * n \in Nat
  BY NatProduct
<1>2. n * a <= d * a
  BY ProductMonotone
<1>3. a * n <= a * d
  BY <1>2
<1>4. QED
  BY <1>1, <1>3, QuotientNat, QuotientAtMost

\* ceil_div_u128 returns the least q with n <= q * d.
LEMMA CeilDiv ==
    ASSUME NEW n \in Int, NEW d \in Nat \ {0}
    PROVE  /\ ceil_div_u128(n, d) \in Int
           /\ n <= ceil_div_u128(n, d) * d
           /\ (ceil_div_u128(n, d) - 1) * d < n
<1> DEFINE q == ceil_div_u128(n, d)
<1>1. n + d - 1 \in Int
  OBVIOUS
<1>2. q \in Int /\ q * d <= n + d - 1 /\ n + d - 1 < q * d + d
  BY <1>1, Division DEF ceil_div_u128
<1>3. (q - 1) * d = q * d - d
  BY <1>2
<1> HIDE DEF q
<1>4. q * d \in Int
  BY <1>2
<1>5. n <= q * d /\ (q - 1) * d < n
  BY <1>2, <1>3, <1>4
<1>6. QED
  BY <1>2, <1>5 DEF q

\* calculate_fees splits an amount into two naturals: rounding up the fee never
\* makes it exceed the amount.
LEMMA FeesSplit ==
    ASSUME NEW amount \in Nat, NEW bps \in 0..MAX_BASIS_POINTS
    PROVE  /\ calculate_fees(amount, bps).fee \in Nat
           /\ calculate_fees(amount, bps).net \in Nat
           /\ calculate_fees(amount, bps).net <= amount
<1> DEFINE fee == ceil_div_u128(amount * bps, MAX_BASIS_POINTS)
<1>1. MAX_BASIS_POINTS \in Nat \ {0} /\ bps \in Nat /\ bps <= MAX_BASIS_POINTS
  BY ScaleAssumption
<1>2. amount * bps \in Nat /\ bps * amount <= MAX_BASIS_POINTS * amount
  BY <1>1, NatProduct, ProductMonotone
<1>3. amount * bps + MAX_BASIS_POINTS - 1 \in Nat
  BY <1>1, <1>2
<1>4. fee \in Nat
  BY <1>1, <1>3, QuotientNat DEF ceil_div_u128
<1>5. (fee - 1) * MAX_BASIS_POINTS < amount * bps
  BY <1>1, <1>2, CeilDiv
<1> HIDE DEF fee
<1>6. fee <= amount
  <2>1. SUFFICES ASSUME amount + 1 <= fee PROVE FALSE
    BY <1>4
  <2>2. amount * MAX_BASIS_POINTS <= (fee - 1) * MAX_BASIS_POINTS
    BY <1>1, <1>4, <2>1, ProductMonotone
  <2>3. amount * bps <= amount * MAX_BASIS_POINTS
    BY <1>1, <1>2
  <2> DEFINE x == (fee - 1) * MAX_BASIS_POINTS
             y == amount * MAX_BASIS_POINTS
             z == amount * bps
  <2>4. x \in Int /\ y \in Int /\ z \in Int
    BY <1>1, <1>4
  <2>5. x < z /\ y <= x /\ z <= y
    BY <1>5, <2>2, <2>3
  <2> HIDE DEF x, y, z
  <2>6. QED
    BY <2>4, <2>5
<1>7. calculate_fees(amount, bps).net = amount - fee
      /\ calculate_fees(amount, bps).fee = fee
  BY DEF calculate_fees, fee
<1>8. QED
  BY <1>4, <1>6, <1>7

-----------------------------------------------------------------------------
(* Induction and sums.  The folds of the community modules choose the      *)
(* elements of a set one by one; these lemmas show, by induction on the    *)
(* size of the set, that the order does not matter.                        *)

\* The order of the naturals as the relation that well-founded induction uses.
LEMMA LessIsRelated ==
    ASSUME NEW m \in Nat, NEW n \in Nat, m < n
    PROVE  <<m, n>> \in OpToRel(<, Nat)
  BY DEF OpToRel

\* A set of naturals that is not empty has a least element.
LEMMA SmallestExists ==
    ASSUME NEW N, N \subseteq Nat, N # {}
    PROVE  \E n \in N : \A m \in N : n <= m
<1>1. PICK n \in N : \A m \in N : ~(<<m, n>> \in OpToRel(<, Nat))
  BY WFMin, NatLessThanWellFounded
<1>2. ASSUME NEW m \in N PROVE n <= m
  <2>1. m \in Nat /\ n \in Nat
    OBVIOUS
  <2>2. ~(m < n)
    BY <1>1, <2>1, LessIsRelated
  <2>3. QED
    BY <2>1, <2>2
<1>3. QED
  BY <1>2

\* Induction: a set of naturals with 0 that is closed under successor is Nat.
LEMMA NatClosed ==
    ASSUME NEW N, 0 \in N, \A n \in Nat : n \in N => n + 1 \in N
    PROVE  Nat \subseteq N
<1>1. SUFFICES ASSUME Nat \ N # {} PROVE FALSE
  OBVIOUS
<1>2. PICK n \in Nat \ N : \A m \in Nat \ N : n <= m
  BY <1>1, SmallestExists
<1>3. n # 0 /\ n \in Nat
  BY <1>2
<1>4. n - 1 \in Nat /\ n - 1 \in N
  BY <1>2, <1>3
<1>5. (n - 1) + 1 = n
  BY <1>3
<1>6. QED
  BY <1>2, <1>4, <1>5

\* The element of s that a fold takes first.
First(s) == CHOOSE x \in s : TRUE

\* What a fold makes of s: f sums the weights w of the subsets of S.
Body(f, w, s) == IF s = {} THEN 0 ELSE w[First(s)] + f[s \ {First(s)}]

Sums(f, w, S) == f = [s \in SUBSET S |-> Body(f, w, s)]

\* It is one of them.
LEMMA FirstIn == ASSUME NEW s, s # {} PROVE First(s) \in s
  BY DEF First

\* What is left without the first element is smaller.
LEMMA FirstLess ==
    ASSUME NEW S, IsFiniteSet(S), NEW s \in SUBSET S, s # {}
    PROVE  /\ s \ {First(s)} \in SUBSET S
           /\ Cardinality(s) \in Nat
           /\ Cardinality(s \ {First(s)}) = Cardinality(s) - 1
           /\ Cardinality(s \ {First(s)}) \in Nat
<1>1. IsFiniteSet(s)
  BY FS_Subset
<1>2. First(s) \in s
  BY FirstIn
<1>3. IsFiniteSet(s \ {First(s)}) /\ Cardinality(s \ {First(s)}) = Cardinality(s) - 1
  BY <1>1, <1>2, FS_RemoveElement
<1>4. QED
  BY <1>1, <1>3, FS_CardinalityType

\* The function that sums the weights of each subset of a finite set exists.
LEMMA SumsExist ==
    ASSUME NEW w, NEW S, IsFiniteSet(S)
    PROVE  \E f : Sums(f, w, S)
<1> DEFINE Good(f, k) == \A s \in SUBSET S : Cardinality(s) <= k => f[s] = Body(f, w, s)
           N == {k \in Nat : \E f : Good(f, k)}
<1>0. \A s \in SUBSET S : IsFiniteSet(s) /\ Cardinality(s) \in Nat
  BY FS_Subset, FS_CardinalityType
<1>1. 0 \in N
  <2> DEFINE f == [s \in SUBSET S |-> 0]
  <2>1. ASSUME NEW s \in SUBSET S, Cardinality(s) <= 0 PROVE f[s] = Body(f, w, s)
    <3>1. s = {}
      BY <1>0, <2>1, FS_EmptySet
    <3>2. QED
      BY <3>1 DEF Body
  <2>2. Good(f, 0)
    BY <2>1
  <2>3. QED
    BY <2>2
<1>2. ASSUME NEW k \in Nat, k \in N PROVE k + 1 \in N
  <2>1. PICK f : Good(f, k)
    BY <1>2
  <2> DEFINE g == [s \in SUBSET S |-> IF Cardinality(s) <= k THEN f[s] ELSE Body(f, w, s)]
  <2>2. ASSUME NEW s \in SUBSET S, Cardinality(s) <= k + 1 PROVE g[s] = Body(g, w, s)
    <3>1. g[s] = Body(f, w, s)
      BY <2>1
    <3>2. ASSUME s # {} PROVE g[s \ {First(s)}] = f[s \ {First(s)}]
      <4>1. Cardinality(s \ {First(s)}) <= k /\ s \ {First(s)} \in SUBSET S
        BY <1>0, <2>2, <3>2, FirstLess
      <4>2. QED
        BY <4>1
    <3> HIDE DEF g
    <3>3. QED
      BY <3>1, <3>2 DEF Body
  <2>3. Good(g, k + 1)
    BY <2>2
  <2> HIDE DEF g
  <2>4. QED
    BY <2>3
<1>3. Cardinality(S) \in N
  <2> HIDE DEF N
  <2>1. Nat \subseteq N
    BY <1>1, <1>2, NatClosed
  <2>2. QED
    BY <2>1, FS_CardinalityType
<1>4. PICK f : Good(f, Cardinality(S))
  BY <1>3
<1> DEFINE g == [s \in SUBSET S |-> f[s]]
<1>5. ASSUME NEW s \in SUBSET S PROVE g[s] = Body(g, w, s)
  <2>1. f[s] = Body(f, w, s)
    BY <1>4, FS_Subset
  <2>2. ASSUME s # {} PROVE g[s \ {First(s)}] = f[s \ {First(s)}]
    BY <2>2
  <2>3. g[s] = f[s]
    OBVIOUS
  <2> HIDE DEF g
  <2>4. QED
    BY <2>1, <2>2, <2>3 DEF Body
<1>6. g = [s \in SUBSET S |-> Body(g, w, s)]
  BY <1>5
<1>7. QED
  BY <1>6 DEF Sums

\* The weights of the elements of s are the same, are integers.
SameWeights(w, v, s) == \A x \in s : w[x] = v[x]
Weighs(w, s) == \A x \in s : w[x] \in Int

Agree(f, g, s) == f[s] = g[s]

\* Two sums of the same weights agree on common subsets.
LEMMA SumsAgree ==
    ASSUME NEW w, NEW v, NEW S, NEW T, IsFiniteSet(S), NEW f, NEW g,
           Sums(f, w, S), Sums(g, v, T), NEW s, s \subseteq S, s \subseteq T,
           SameWeights(w, v, s)
    PROVE  Agree(f, g, s)
<1> DEFINE Common == {t \in SUBSET S : t \subseteq T /\ \A x \in t : w[x] = v[x]}
           N == {k \in Nat : \A t \in Common : Cardinality(t) <= k => f[t] = g[t]}
<1>0. \A t \in SUBSET S : IsFiniteSet(t) /\ Cardinality(t) \in Nat
  BY FS_Subset, FS_CardinalityType
<1>1. ASSUME NEW t \in Common PROVE f[t] = Body(f, w, t) /\ g[t] = Body(g, v, t)
  <2>1. t \in SUBSET S /\ t \in SUBSET T
    OBVIOUS
  <2>2. QED
    BY <2>1, Zenon DEF Sums
<1>2. 0 \in N
  <2>1. ASSUME NEW t \in Common, Cardinality(t) <= 0 PROVE f[t] = g[t]
    <3>1. t = {}
      BY <1>0, <2>1, FS_EmptySet
    <3>2. QED
      BY <1>1, <3>1 DEF Body
  <2>2. QED
    BY <2>1
<1>3. ASSUME NEW k \in Nat, k \in N PROVE k + 1 \in N
  <2>1. ASSUME NEW t \in Common, Cardinality(t) <= k + 1 PROVE f[t] = g[t]
    <3>1. CASE t = {}
      BY <1>1, <3>1 DEF Body
    <3>2. CASE t # {}
      <4> DEFINE u == t \ {First(t)}
      <4>1. u \in Common /\ First(t) \in t
        BY <3>2, FirstIn
      <4>2. Cardinality(u) <= k
        BY <1>0, <2>1, <3>2, FirstLess
      <4>3. f[u] = g[u]
        BY <1>3, <4>1, <4>2
      <4>4. w[First(t)] = v[First(t)]
        BY <4>1
      <4>5. QED
        BY <1>1, <3>2, <4>3, <4>4 DEF Body
    <3>3. QED
      BY <3>1, <3>2
  <2>2. QED
    BY <2>1
<1>4. Cardinality(s) \in N /\ s \in Common
  <2>0. s \in Common
    BY DEF SameWeights
  <2>1. Nat \subseteq N
    <3> HIDE DEF N
    <3>1. QED
      BY <1>2, <1>3, NatClosed
  <2>2. s \in SUBSET S
    OBVIOUS
  <2>3. QED
    BY <1>0, <2>0, <2>1, <2>2
<1>5. QED
  BY <1>0, <1>4 DEF Agree

\* Any x of s may be summed first.
AnyFirst(f, w, s) == f[s] \in Int /\ \A x \in s : f[s] = w[x] + f[s \ {x}]

\* The order of summation does not matter: any element may come first.
LEMMA SumsAnyOrder ==
    ASSUME NEW w, NEW S, IsFiniteSet(S), Weighs(w, S), NEW f, Sums(f, w, S),
           NEW t \in SUBSET S
    PROVE  AnyFirst(f, w, t)
<1> DEFINE Fine(s) == f[s] \in Int /\ \A x \in s : f[s] = w[x] + f[s \ {x}]
           N == {k \in Nat : \A s \in SUBSET S : Cardinality(s) <= k => Fine(s)}
<1>0. \A s \in SUBSET S : IsFiniteSet(s) /\ Cardinality(s) \in Nat
  BY FS_Subset, FS_CardinalityType
<1>1. ASSUME NEW s \in SUBSET S PROVE f[s] = Body(f, w, s)
  BY Zenon DEF Sums
<1>1a. Fine({})
  <2>1. {} \in SUBSET S
    OBVIOUS
  <2>2. f[{}] = Body(f, w, {})
    BY <1>1, <2>1
  <2>3. f[{}] = 0
    BY <2>2 DEF Body
  <2>4. QED
    BY <2>3
<1>2. 0 \in N
  <2>1. ASSUME NEW s \in SUBSET S, Cardinality(s) <= 0 PROVE Fine(s)
    <3>1. s = {}
      BY <1>0, <2>1, FS_EmptySet
    <3>2. QED
      BY <1>1a, <3>1
  <2>2. QED
    BY <2>1
<1>3. ASSUME NEW k \in Nat, k \in N PROVE k + 1 \in N
  <2>1. ASSUME NEW s \in SUBSET S, Cardinality(s) <= k + 1, s # {} PROVE Fine(s)
    <3> DEFINE y == First(s)
    <3>1. y \in s /\ s \ {y} \in SUBSET S /\ Cardinality(s \ {y}) <= k
      BY <1>0, <2>1, FirstIn, FirstLess
    <3>2. f[s] = w[y] + f[s \ {y}]
      BY <1>1, <2>1 DEF Body
    <3>3. Fine(s \ {y})
      BY <1>3, <3>1
    <3>4. f[s] \in Int
      BY <3>1, <3>2, <3>3 DEF Weighs
    <3>5. ASSUME NEW x \in s, x # y PROVE f[s] = w[x] + f[s \ {x}]
      <4> DEFINE rest == (s \ {y}) \ {x}
      <4>1. f[s \ {y}] = w[x] + f[rest]
        BY <3>3, <3>5
      <4>2. s \ {x} \in SUBSET S /\ Cardinality(s \ {x}) <= k
        BY <1>0, <2>1, <3>5, FS_RemoveElement
      <4>3. Fine(s \ {x}) /\ y \in s \ {x}
        BY <1>3, <3>1, <3>5, <4>2
      <4>4. (s \ {x}) \ {y} = rest
        OBVIOUS
      <4>5. f[s \ {x}] = w[y] + f[rest]
        BY <4>3, <4>4
      <4>6. w[x] \in Int /\ w[y] \in Int
        BY <3>1, <3>5 DEF Weighs
      <4>7. rest \in SUBSET S /\ Cardinality(rest) <= k
        <5>1. IsFiniteSet(s \ {x}) /\ Cardinality(s \ {x}) \in Nat
          BY <1>0, <4>2
        <5>2. rest \subseteq s \ {x}
          OBVIOUS
        <5>3. QED
          BY <1>0, <4>2, <5>1, <5>2, FS_Subset
      <4>8. f[rest] \in Int
        BY <1>3, <4>7
      <4> HIDE DEF rest, y
      <4>9. QED
        BY <3>2, <4>1, <4>5, <4>6, <4>8
    <3>6. QED
      BY <3>2, <3>4, <3>5
  <2>2. ASSUME NEW s \in SUBSET S, Cardinality(s) <= k + 1, s = {} PROVE Fine(s)
    BY <1>1a, <2>2
  <2>3. \A s \in SUBSET S : Cardinality(s) <= k + 1 => Fine(s)
    <3> HIDE DEF Fine
    <3>1. QED
      BY <2>1, <2>2
  <2>4. QED
    BY <2>3
<1>4. Nat \subseteq N
  <2> HIDE DEF N
  <2>1. QED
    BY <1>2, <1>3, NatClosed
<1>5. Cardinality(t) \in Nat /\ Cardinality(t) <= Cardinality(t)
  BY <1>0
<1>6. Cardinality(t) \in N
  BY <1>4, <1>5
<1>7. Fine(t)
  BY <1>5, <1>6
<1>8. QED
  BY <1>7 DEF AnyFirst

\* The sum of the weights of S.
Total(w, S) == (CHOOSE f : Sums(f, w, S))[S]

\* Every function that sums agrees with it.
LEMMA TotalIsSum ==
    ASSUME NEW w, NEW S, IsFiniteSet(S), NEW f, Sums(f, w, S)
    PROVE  Total(w, S) = f[S]
<1> DEFINE g == CHOOSE h : Sums(h, w, S)
<1>1. Sums(g, w, S)
  BY SumsExist, Zenon
<1>2. Agree(g, f, S)
  <2>1. S \in SUBSET S /\ S \subseteq S /\ SameWeights(w, w, S)
    BY DEF SameWeights
  <2> HIDE DEF g
  <2>2. QED
    BY <1>1, <2>1, SumsAgree, Zenon
<1>3. QED
  BY <1>2 DEF Total, Agree

\* The sum of nothing is nothing.
LEMMA TotalEmpty == ASSUME NEW w PROVE Total(w, {}) = 0
<1>1. IsFiniteSet({})
  BY FS_EmptySet
<1>2. PICK f : Sums(f, w, {})
  BY <1>1, SumsExist
<1>3. f[{}] = Body(f, w, {})
  <2>1. {} \in SUBSET {}
    OBVIOUS
  <2>2. QED
    BY <1>2, <2>1, Zenon DEF Sums
<1>4. f[{}] = 0
  BY <1>3 DEF Body
<1>5. QED
  BY <1>1, <1>2, <1>4, TotalIsSum, Zenon

\* Equal weights have equal sums.
LEMMA TotalSame ==
    ASSUME NEW w, NEW v, NEW S, IsFiniteSet(S), SameWeights(w, v, S)
    PROVE  Total(w, S) = Total(v, S)
<1>1. PICK f : Sums(f, w, S)
  BY SumsExist
<1>2. PICK g : Sums(g, v, S)
  BY SumsExist
<1>3. S \in SUBSET S /\ S \subseteq S
  OBVIOUS
<1>4. Agree(f, g, S)
  BY <1>1, <1>2, <1>3, SumsAgree, Zenon
<1>5. Total(w, S) = f[S] /\ Total(v, S) = g[S]
  BY <1>1, <1>2, TotalIsSum, Zenon
<1>6. QED
  BY <1>4, <1>5 DEF Agree

\* An element taken out takes its weight out of the sum.
LEMMA TotalRemove ==
    ASSUME NEW w, NEW S, IsFiniteSet(S), Weighs(w, S), NEW x \in S
    PROVE  /\ Total(w, S) \in Int
           /\ Total(w, S \ {x}) \in Int
           /\ Total(w, S) = w[x] + Total(w, S \ {x})
<1> DEFINE T == S \ {x}
<1>1. IsFiniteSet(T)
  BY FS_RemoveElement
<1>2. PICK f : Sums(f, w, S)
  BY SumsExist
<1>3. PICK g : Sums(g, w, T)
  BY <1>1, SumsExist, Zenon
<1>4. T \subseteq S /\ T \in SUBSET S /\ S \in SUBSET S /\ T \subseteq T /\ SameWeights(w, w, T)
  BY DEF SameWeights
<1>5. Agree(f, g, T)
  <2> HIDE DEF T
  <2>1. QED
    BY <1>2, <1>3, <1>4, SumsAgree, Zenon
<1>6. AnyFirst(f, w, S) /\ AnyFirst(f, w, T)
  <2> HIDE DEF T
  <2>1. QED
    BY <1>2, <1>4, SumsAnyOrder, Zenon
<1>7. Total(w, S) = f[S] /\ Total(w, T) = g[T]
  <2> HIDE DEF T
  <2>1. QED
    BY <1>1, <1>2, <1>3, TotalIsSum, Zenon
<1>8. QED
  BY <1>5, <1>6, <1>7 DEF AnyFirst, Agree

\* A set of naturals with a bound has a greatest element.
LEMMA GreatestExists ==
    ASSUME NEW N, N \subseteq Nat, N # {}, NEW b \in Nat, \A n \in N : n <= b
    PROVE  Max(N) \in N /\ \A n \in N : n <= Max(N)
<1> DEFINE B == {k \in Nat : \A n \in N : n <= k}
<1>1. B \subseteq Nat /\ b \in B
  OBVIOUS
<1>2. PICK k \in B : \A m \in B : k <= m
  BY <1>1, SmallestExists
<1>3. k \in Nat /\ \A n \in N : n <= k
  BY <1>2
<1>4. k \in N
  <2>1. SUFFICES ASSUME k \notin N PROVE FALSE
    OBVIOUS
  <2>2. \A n \in N : n \in Nat /\ n <= k - 1
    BY <1>3, <2>1
  <2>3. k - 1 \in Nat
    <3>1. PICK n \in N : n \in Nat /\ n <= k - 1
      BY <2>2
    <3>2. QED
      BY <1>3, <3>1
  <2>4. k - 1 \in B
    BY <2>2, <2>3
  <2>5. k <= k - 1
    BY <1>2, <2>4
  <2>6. QED
    BY <1>3, <2>5
<1>5. \A n \in N : k >= n
  BY <1>3
<1>6. Max(N) \in N /\ \A n \in N : Max(N) >= n
  BY <1>4, <1>5 DEF Max
<1>7. QED
  BY <1>6

\* An element that may or may not be there, taken out of the sum.
LEMMA TotalPeel ==
    ASSUME NEW w, NEW S, IsFiniteSet(S), Weighs(w, S), NEW x, NEW b \in Nat,
           x \in S => w[x] <= b, Total(w, S \ {x}) \in Int
    PROVE  Total(w, S) \in Int /\ Total(w, S) <= b + Total(w, S \ {x})
<1>1. CASE x \in S
  BY <1>1, TotalRemove DEF Weighs
<1>2. CASE x \notin S
  <2>1. S \ {x} = S
    BY <1>2
  <2>2. Total(w, S \ {x}) = Total(w, S)
    BY <2>1, Zenon
  <2> DEFINE t == Total(w, S)
             u == Total(w, S \ {x})
  <2>3. u \in Int /\ t = u
    BY <2>2
  <2> HIDE DEF t, u
  <2>4. t \in Int /\ t <= b + u
    BY <2>3
  <2>5. QED
    BY <2>4 DEF t, u
<1>3. QED
  BY <1>1, <1>2

\* MapThenSumSet over a finite set is this sum.
LEMMA SumIsTotal ==
    ASSUME NEW w, NEW S, IsFiniteSet(S)
    PROVE  MapThenSumSet(LAMBDA x : w[x], S) = Total(w, S)
<1> DEFINE P(f) == f = [s \in SUBSET S |->
                          IF s = {} THEN 0
                          ELSE LET x == CHOOSE x \in s : TRUE
                               IN  w[x] + f[s \ {x}]]
           g == CHOOSE f : P(f)
<1>1. MapThenSumSet(LAMBDA x : w[x], S) = g[S]
  BY DEF MapThenSumSet, MapThenFoldSet
<1>2. ASSUME NEW f PROVE P(f) <=> Sums(f, w, S)
  BY DEF Sums, Body, First
<1>3. \E f : P(f)
  <2>1. PICK f : Sums(f, w, S)
    BY SumsExist
  <2>2. P(f)
    BY <1>2, <2>1
  <2>3. QED
    BY <2>2
<1>4. P(g)
  <2> HIDE DEF P
  <2>1. QED
    BY <1>3
<1>5. Sums(g, w, S)
  <2> HIDE DEF g
  <2>1. QED
    BY <1>2, <1>4
<1>6. QED
  <2> HIDE DEF g
  <2>1. QED
    BY <1>1, <1>5, TotalIsSum

-----------------------------------------------------------------------------
(* Recursive functions of integers and powers of two.                      *)

\* f starts with a and makes each value of the one before, up to n.
Iterates(f, n, a, step) ==
    /\ f \in [0..n -> Int]
    /\ f[0] = a
    /\ \A k \in 1..n : f[k] = step[<<f[k - 1], k>>]

LEMMA IteratesExists ==
    ASSUME NEW a \in Int, NEW step \in [Int \X Nat -> Int], NEW n \in Nat
    PROVE  \E f : Iterates(f, n, a, step)
<1> DEFINE N == {m \in Nat : \E f : Iterates(f, m, a, step)}
<1>1. 0 \in N
  <2> DEFINE f == [k \in 0..0 |-> a]
  <2>1. Iterates(f, 0, a, step)
    BY DEF Iterates
  <2> HIDE DEF f
  <2>2. QED
    BY <2>1
<1>2. ASSUME NEW m \in Nat, m \in N PROVE m + 1 \in N
  <2>1. PICK f : Iterates(f, m, a, step)
    BY <1>2
  <2> DEFINE last == step[<<f[m], m + 1>>]
             g    == [k \in 0..(m + 1) |-> IF k <= m THEN f[k] ELSE last]
  <2>2. f \in [0..m -> Int] /\ last \in Int
    BY <2>1 DEF Iterates
  <2>3. /\ g \in [0..(m + 1) -> Int] /\ g[0] = a
        /\ g[m + 1] = last /\ \A k \in 0..m : g[k] = f[k]
    <3> HIDE DEF last
    <3>1. QED
      BY <2>1, <2>2 DEF Iterates
  <2>4. ASSUME NEW k \in 1..(m + 1) PROVE g[k] = step[<<g[k - 1], k>>]
    <3> HIDE DEF g
    <3>1. CASE k = m + 1
      <4>1. k - 1 = m /\ m \in 0..m
        BY <3>1
      <4>2. QED
        BY <2>3, <3>1, <4>1
    <3>2. CASE k # m + 1
      <4>1. k \in 1..m /\ k - 1 \in 0..m /\ k \in 0..m
        BY <3>2
      <4>2. QED
        BY <2>1, <2>3, <4>1 DEF Iterates
    <3>3. QED
      BY <3>1, <3>2
  <2>5. Iterates(g, m + 1, a, step)
    BY <2>3, <2>4 DEF Iterates
  <2> HIDE DEF g
  <2>6. QED
    BY <2>5
<1>3. Nat \subseteq N
  <2> HIDE DEF N
  <2>1. QED
    BY <1>1, <1>2, NatClosed
<1>4. QED
  BY <1>3

\* Two of them agree as far as both go.
LEMMA IteratesAgree ==
    ASSUME NEW a, NEW step, NEW n \in Nat, NEW m \in Nat, NEW f, NEW g,
           Iterates(f, n, a, step), Iterates(g, m, a, step),
           NEW k \in Nat, k <= n, k <= m
    PROVE  f[k] = g[k]
<1> DEFINE N == {j \in Nat : j <= n /\ j <= m => f[j] = g[j]}
<1>1. 0 \in N
  BY DEF Iterates
<1>2. ASSUME NEW j \in Nat, j \in N PROVE j + 1 \in N
  <2>1. SUFFICES ASSUME j + 1 <= n, j + 1 <= m PROVE f[j + 1] = g[j + 1]
    OBVIOUS
  <2>2. f[j] = g[j] /\ j + 1 \in 1..n /\ j + 1 \in 1..m /\ (j + 1) - 1 = j
    BY <1>2, <2>1
  <2>3. QED
    BY <2>2 DEF Iterates
<1>3. Nat \subseteq N
  <2> HIDE DEF N
  <2>1. QED
    BY <1>1, <1>2, NatClosed
<1>4. QED
  BY <1>3

\* What a recursive definition over D demands of f.
Recursive(f, D, a, step) == f = [k \in D |-> IF k = 0 THEN a ELSE step[<<f[k - 1], k>>]]

LEMMA RecursionExists ==
    ASSUME NEW a \in Int, NEW step \in [Int \X Nat -> Int]
    PROVE  \E f \in [Nat -> Int] : Recursive(f, Nat, a, step)
<1> DEFINE upto(n) == CHOOSE f : Iterates(f, n, a, step)
           f == [n \in Nat |-> upto(n)[n]]
<1>1. ASSUME NEW n \in Nat PROVE Iterates(upto(n), n, a, step)
  BY IteratesExists
<1> HIDE DEF upto
<1>2. f \in [Nat -> Int]
  <2>1. ASSUME NEW n \in Nat PROVE upto(n)[n] \in Int
    <3>1. upto(n) \in [0..n -> Int] /\ n \in 0..n
      BY <1>1 DEF Iterates
    <3>2. QED
      BY <3>1
  <2>2. QED
    BY <2>1
<1>3. ASSUME NEW n \in Nat PROVE f[n] = IF n = 0 THEN a ELSE step[<<f[n - 1], n>>]
  <2>1. CASE n = 0
    BY <1>1, <2>1 DEF Iterates
  <2>2. CASE n # 0
    <3>1. n - 1 \in Nat /\ n - 1 <= n /\ n - 1 <= n - 1 /\ n \in 1..n
      BY <2>2
    <3>2. upto(n)[n - 1] = upto(n - 1)[n - 1]
      BY <1>1, <3>1, IteratesAgree
    <3>3. upto(n)[n] = step[<<upto(n)[n - 1], n>>]
      BY <1>1, <3>1 DEF Iterates
    <3>4. f[n] = upto(n)[n] /\ f[n - 1] = upto(n - 1)[n - 1]
      BY <3>1
    <3> HIDE DEF f
    <3>5. QED
      BY <2>2, <3>2, <3>3, <3>4
  <2>3. QED
    BY <2>1, <2>2
<1>4. Recursive(f, Nat, a, step)
  <2>1. f = [n \in Nat |-> f[n]]
    OBVIOUS
  <2> HIDE DEF f
  <2>2. QED
    BY <1>3, <2>1 DEF Recursive
<1>5. QED
  BY <1>2, <1>4

\* Powers of two are positive and grow.
LEMMA PowerOfTwo ==
    ASSUME NEW n \in Nat
    PROVE  2^n \in Nat \ {0} /\ n <= 2^n
<1> DEFINE S == 1..n
<1>1. IsFiniteSet(S) /\ Cardinality(S) = n
  BY FS_Interval
<1> DEFINE f == [k \in S |-> {k}]
<1>2. f \in Injection(S, SUBSET S)
  BY DEF Injection, IsInjective
<1>3. {} \in SUBSET S
  OBVIOUS
<1> HIDE DEF S, f
<1>4. IsFiniteSet(SUBSET S) /\ Cardinality(SUBSET S) = 2^n
  BY <1>1, FS_SUBSET
<1>5. Cardinality(S) <= Cardinality(SUBSET S)
  BY <1>2, <1>4, FS_Injection
<1>6. Cardinality(SUBSET S) \in Nat /\ Cardinality(SUBSET S) # 0
  BY <1>3, <1>4, FS_CardinalityType, FS_EmptySet
<1>7. QED
  BY <1>1, <1>4, <1>5, <1>6

-----------------------------------------------------------------------------
(* Powers of two.                                                          *)

\* Powers of two double.
LEMMA PowerDoubles ==
    ASSUME NEW n \in Nat
    PROVE  2^(n + 1) = 2 * 2^n
<1> DEFINE S == 1..n
           x == n + 1
           A == SUBSET S
           B == {s \union {x} : s \in A}
           T == 1..(n + 1)
           f == [s \in A |-> s \union {x}]
<1>1. /\ IsFiniteSet(S) /\ Cardinality(S) = n
      /\ IsFiniteSet(T) /\ Cardinality(T) = n + 1
  BY FS_Interval
<1>2. x \notin S /\ T = S \union {x}
  OBVIOUS
<1> HIDE DEF S, T, x
<1>3. SUBSET T = A \union B
  <2>1. ASSUME NEW t \in SUBSET T, x \in t PROVE t \in B
    <3>1. t \ {x} \in A /\ t = (t \ {x}) \union {x}
      BY <1>2, <2>1
    <3>2. QED
      BY <3>1
  <2>2. ASSUME NEW t \in SUBSET T, x \notin t PROVE t \in A
    BY <1>2, <2>2
  <2>3. A \subseteq SUBSET T /\ B \subseteq SUBSET T
    BY <1>2
  <2>4. QED
    BY <2>1, <2>2, <2>3
<1>4. A \cap B = {}
  BY <1>2
<1>5. IsFiniteSet(A) /\ Cardinality(A) = 2^n
  BY <1>1, FS_SUBSET
<1>6. IsFiniteSet(SUBSET T) /\ Cardinality(SUBSET T) = 2^(n + 1)
  BY <1>1, FS_SUBSET
<1>7. f \in Bijection(A, B)
  <2>1. f \in [A -> B]
    OBVIOUS
  <2>2. ASSUME NEW s \in A, NEW t \in A, f[s] = f[t] PROVE s = t
    BY <1>2, <2>2
  <2>3. ASSUME NEW t \in B PROVE \E s \in A : f[s] = t
    BY <2>3
  <2> HIDE DEF f, A, B
  <2>4. QED
    BY <2>1, <2>2, <2>3 DEF Bijection, Injection, Surjection, IsInjective
<1> HIDE DEF A, B, f
<1>8. IsFiniteSet(B) /\ Cardinality(B) = Cardinality(A)
  BY <1>5, <1>7, FS_Bijection DEF ExistsBijection
<1>9. Cardinality(A \union B) = Cardinality(A) + Cardinality(B) - Cardinality(A \cap B)
  BY <1>5, <1>8, FS_Union
<1>10. Cardinality(A \cap B) = 0
  BY <1>4, FS_EmptySet
<1>11. 2^n \in Nat
  BY PowerOfTwo
<1>12. 2^(n + 1) = 2^n + 2^n - 0
  BY <1>3, <1>5, <1>6, <1>8, <1>9, <1>10
<1>13. QED
  BY <1>11, <1>12

\* Exponents add up.
LEMMA PowerSum ==
    ASSUME NEW a \in Nat, NEW b \in Nat
    PROVE  2^(a + b) = 2^a * 2^b
<1> DEFINE N == {n \in Nat : 2^(a + n) = 2^a * 2^n}
<1>1. 0 \in N
  <2>1. a + 0 = a /\ 2^0 = 1 /\ 2^a \in Nat
    BY PowerOfTwo
  <2>2. QED
    BY <2>1
<1>2. ASSUME NEW n \in Nat, n \in N PROVE n + 1 \in N
  <2>1. a + (n + 1) = (a + n) + 1 /\ a + n \in Nat
    OBVIOUS
  <2>2. 2^((a + n) + 1) = 2 * 2^(a + n)
    BY <2>1, PowerDoubles
  <2>3. 2^(n + 1) = 2 * 2^n
    BY PowerDoubles
  <2> DEFINE p == 2^a
             q == 2^n
  <2>4. p \in Nat /\ q \in Nat
    BY PowerOfTwo
  <2>5. 2^(a + (n + 1)) = 2 * (p * q)
    BY <1>2, <2>1, <2>2
  <2>6. 2^(n + 1) = 2 * q
    BY <2>3
  <2> HIDE DEF p, q
  <2>7. 2 * (p * q) = p * (2 * q)
    BY <2>4
  <2>8. QED
    BY <2>5, <2>6, <2>7 DEF p
<1>3. Nat \subseteq N
  <2> HIDE DEF N
  <2>1. QED
    BY <1>1, <1>2, NatClosed
<1>4. QED
  BY <1>3

\* Powers of two grow with the exponent.
LEMMA PowerMonotone ==
    ASSUME NEW a \in Nat, NEW b \in Nat, a <= b
    PROVE  2^a <= 2^b
<1>1. b - a \in Nat /\ a + (b - a) = b
  OBVIOUS
<1>2. 2^b = 2^a * 2^(b - a)
  BY <1>1, PowerSum
<1> DEFINE p == 2^a
           q == 2^(b - a)
<1>3. p \in Nat /\ q \in Nat \ {0}
  BY <1>1, PowerOfTwo
<1> HIDE DEF p, q
<1>4. 1 * p <= q * p
  BY <1>3, ProductMonotone
<1>5. p <= p * q
  BY <1>3, <1>4
<1>6. QED
  BY <1>2, <1>5 DEF p, q

-----------------------------------------------------------------------------
(* The series of the logarithm.                                            *)

\* Quotients grow with the dividend and fall with the divisor.
LEMMA QuotientMonotone ==
    ASSUME NEW m \in Int, NEW n \in Int, NEW d \in Nat \ {0}, m <= n
    PROVE  m \div d <= n \div d
<1>1. m \div d \in Int /\ (m \div d) * d <= m
  BY Division
<1>2. n \div d \in Int /\ n < (n \div d) * d + d
  BY Division
<1> DEFINE a == m \div d
           b == n \div d
<1>3. SUFFICES ASSUME b + 1 <= a PROVE FALSE
  BY <1>1, <1>2
<1>4. a \in Int /\ b \in Int /\ a * d <= m /\ n < b * d + d
  BY <1>1, <1>2
<1> HIDE DEF a, b
<1>5. (b + 1) * d <= a * d /\ (b + 1) * d = b * d + d
  BY <1>3, <1>4, ProductMonotone
<1>6. a * d \in Int /\ b * d \in Int
  BY <1>4
<1>7. QED
  BY <1>4, <1>5, <1>6

\* A quotient falls as its divisor grows.
LEMMA QuotientAntitone ==
    ASSUME NEW n \in Nat, NEW d \in Nat \ {0}, NEW e \in Nat \ {0}, d <= e
    PROVE  n \div e <= n \div d
<1> DEFINE a == n \div e
<1>1. a \in Nat /\ a * e <= n
  BY Division, QuotientNat
<1> HIDE DEF a
<1>2. d * a <= e * a
  BY <1>1, ProductMonotone
<1>3. a * d <= n /\ a * d \in Nat
  BY <1>1, <1>2
<1>4. (a * d) \div d = a
  BY <1>1
<1>5. QED
  BY <1>3, <1>4, QuotientMonotone DEF a

\* A recursive function whose steps keep to V is one of members of V.
LEMMA StepsTyped ==
    ASSUME NEW f, NEW V, NEW D \in SUBSET Nat, 0 \in D, f[0] \in V,
           \A k \in D : k # 0 => k - 1 \in D /\ (f[k - 1] \in V => f[k] \in V)
    PROVE  \A k \in D : f[k] \in V
<1> DEFINE N == {k \in Nat : k \in D => f[k] \in V}
<1>1. 0 \in N
  OBVIOUS
<1>2. ASSUME NEW k \in Nat, k \in N PROVE k + 1 \in N
  <2>1. SUFFICES ASSUME k + 1 \in D PROVE f[k + 1] \in V
    OBVIOUS
  <2>2. k + 1 # 0 /\ (k + 1) - 1 = k
    OBVIOUS
  <2>3. k \in D /\ (f[k] \in V => f[k + 1] \in V)
    BY <2>1, <2>2
  <2>4. QED
    BY <1>2, <2>3
<1>3. Nat \subseteq N
  <2> HIDE DEF N
  <2>1. QED
    BY <1>1, <1>2, NatClosed
<1>4. QED
  BY <1>3

\* A recursive definition over an initial segment has its function.
LEMMA SegmentRecursion ==
    ASSUME NEW a \in Int, NEW step \in [Int \X Nat -> Int], NEW n \in Nat
    PROVE  \E f : f \in [0..n -> Int] /\ Recursive(f, 0..n, a, step)
<1>1. PICK h \in [Nat -> Int] : Recursive(h, Nat, a, step)
  BY RecursionExists
<1> DEFINE f == [k \in 0..n |-> h[k]]
<1>2. ASSUME NEW k \in 0..n
      PROVE  h[k] = IF k = 0 THEN a ELSE step[<<f[k - 1], k>>]
  <2>1. k # 0 => k - 1 \in 0..n /\ f[k - 1] = h[k - 1]
    OBVIOUS
  <2> HIDE DEF f
  <2>2. h[k] = IF k = 0 THEN a ELSE step[<<h[k - 1], k>>]
    BY <1>1 DEF Recursive
  <2>3. QED
    BY <2>1, <2>2
<1>3. f = [k \in 0..n |-> IF k = 0 THEN a ELSE step[<<f[k - 1], k>>]]
  BY <1>2
<1>4. f \in [0..n -> Int]
  OBVIOUS
<1>5. QED
  BY <1>3, <1>4 DEF Recursive

\* The fixed-point unit of the logarithm is positive.
LEMMA QPositive == POW_APPROX_Q \in Nat \ {0}
  BY CurveAssumption, PowerOfTwo DEF POW_APPROX_Q

\* t and s are the terms and the partial sums of the logarithm's series for z.
LogSeries(t, s, z) ==
    /\ t \in [0..6 -> Nat] /\ s \in [0..6 -> Nat]
    /\ t[0] = z /\ s[0] = z
    /\ \A k \in 1..6 : /\ t[k] = (t[k - 1] * ((z * z) \div POW_APPROX_Q)) \div POW_APPROX_Q
                       /\ s[k] = s[k - 1] + t[k] \div (2 * k + 1)

LogZ(m) == ((m - POW_APPROX_Q) * POW_APPROX_Q) \div (m + POW_APPROX_Q)

\* log2_mantissa_q computes these.
LEMMA LogMantissa ==
    ASSUME NEW m \in Nat, POW_APPROX_Q <= m
    PROVE  /\ LogZ(m) \in Nat
           /\ \E t, s : /\ LogSeries(t, s, LogZ(m))
                        /\ log2_mantissa_q(m)
                             = (s[6] * 2 * POW_APPROX_LOG2_E_Q) \div POW_APPROX_Q
<1> DEFINE z    == LogZ(m)
           z2   == (z * z) \div POW_APPROX_Q
           P(f) == f = [k \in 0..6 |-> IF k = 0 THEN z
                                       ELSE (f[k - 1] * z2) \div POW_APPROX_Q]
           term == CHOOSE f : P(f)
           R(f) == f = [k \in 0..6 |-> IF k = 0 THEN term[0]
                                       ELSE f[k - 1] + term[k] \div (2 * k + 1)]
           sum  == CHOOSE f : R(f)
<1>1. log2_mantissa_q(m) = (sum[6] * 2 * POW_APPROX_LOG2_E_Q) \div POW_APPROX_Q
  BY DEF log2_mantissa_q, LogZ
<1>2. POW_APPROX_Q \in Nat \ {0}
  BY QPositive
<1>3. z \in Nat
  <2>1. m - POW_APPROX_Q \in Nat /\ m + POW_APPROX_Q \in Nat \ {0}
    BY <1>2
  <2>2. (m - POW_APPROX_Q) * POW_APPROX_Q \in Nat
    BY <1>2, <2>1, NatProduct
  <2>3. QED
    BY <2>1, <2>2, QuotientNat DEF LogZ
<1> HIDE DEF z
<1>4. z2 \in Nat
  BY <1>2, <1>3, NatProduct, QuotientNat
<1> HIDE DEF z2
<1>5. ASSUME NEW y \in Nat PROVE (y * z2) \div POW_APPROX_Q \in Nat
  BY <1>2, <1>4, NatProduct, QuotientNat
<1> DEFINE step == [p \in Int \X Nat |-> (p[1] * z2) \div POW_APPROX_Q]
<1>6. step \in [Int \X Nat -> Int]
  <2>1. ASSUME NEW y \in Int PROVE (y * z2) \div POW_APPROX_Q \in Int
    <3>1. y * z2 \in Int
      BY <1>4
    <3>2. QED
      BY <1>2, <3>1, Division
  <2>2. QED
    BY <2>1
<1>7. \E f : P(f)
  <2>1. z \in Int /\ 6 \in Nat
    BY <1>3
  <2>2. PICK f : f \in [0..6 -> Int] /\ Recursive(f, 0..6, z, step)
    <3> HIDE DEF step
    <3>1. QED
      BY <1>6, <2>1, SegmentRecursion
  <2>3. ASSUME NEW k \in 0..6, k # 0 PROVE step[<<f[k - 1], k>>] = (f[k - 1] * z2) \div POW_APPROX_Q
    <3>1. f[k - 1] \in Int /\ k \in Nat
      BY <2>2, <2>3
    <3>2. QED
      BY <3>1
  <2> HIDE DEF step
  <2>4. P(f)
    BY <2>2, <2>3 DEF Recursive
  <2> HIDE DEF P
  <2>5. QED
    BY <2>4
<1>8. P(term)
  <2> HIDE DEF P
  <2>1. QED
    BY <1>7
<1> HIDE DEF term
<1>9. \A k \in 0..6 : term[k] \in Nat
  <2>1. term[0] \in Nat
    BY <1>3, <1>8
  <2>2. ASSUME NEW k \in 0..6, k # 0
        PROVE  k - 1 \in 0..6 /\ (term[k - 1] \in Nat => term[k] \in Nat)
    <3>1. term[k] = (term[k - 1] * z2) \div POW_APPROX_Q
      BY <1>8, <2>2
    <3>2. QED
      BY <1>5, <2>2, <3>1
  <2> HIDE DEF P
  <2>3. QED
    BY <2>1, <2>2, StepsTyped
<1>10. ASSUME NEW k \in 0..6 PROVE term[k] \div (2 * k + 1) \in Nat
  <2>1. 2 * k + 1 \in Nat \ {0}
    OBVIOUS
  <2>2. QED
    BY <1>9, <2>1, QuotientNat
<1> DEFINE more == [p \in Int \X Nat |->
                      p[1] + (IF p[2] \in 0..6 THEN term[p[2]] \div (2 * p[2] + 1) ELSE 0)]
<1>11. \E f : R(f)
  <2>1. more \in [Int \X Nat -> Int]
    BY <1>10
  <2>2. term[0] \in Int /\ 6 \in Nat
    BY <1>9
  <2>3. PICK f : f \in [0..6 -> Int] /\ Recursive(f, 0..6, term[0], more)
    <3> HIDE DEF more
    <3>1. QED
      BY <2>1, <2>2, SegmentRecursion
  <2>4. ASSUME NEW k \in 0..6, k # 0
        PROVE  more[<<f[k - 1], k>>] = f[k - 1] + term[k] \div (2 * k + 1)
    <3>1. f[k - 1] \in Int /\ k \in Nat
      BY <2>3, <2>4
    <3>2. QED
      BY <3>1
  <2> HIDE DEF more
  <2>5. R(f)
    BY <2>3, <2>4 DEF Recursive
  <2> HIDE DEF R
  <2>6. QED
    BY <2>5
<1>12. R(sum)
  <2> HIDE DEF R
  <2>1. QED
    BY <1>11
<1> HIDE DEF sum
<1>13. \A k \in 0..6 : sum[k] \in Nat
  <2>1. sum[0] \in Nat
    BY <1>9, <1>12
  <2>2. ASSUME NEW k \in 0..6, k # 0
        PROVE  k - 1 \in 0..6 /\ (sum[k - 1] \in Nat => sum[k] \in Nat)
    <3>1. sum[k] = sum[k - 1] + term[k] \div (2 * k + 1)
      BY <1>12, <2>2
    <3>2. QED
      BY <1>10, <2>2, <3>1
  <2> HIDE DEF R
  <2>3. QED
    BY <2>1, <2>2, StepsTyped
<1>14. term \in [0..6 -> Nat] /\ sum \in [0..6 -> Nat]
  BY <1>8, <1>9, <1>12, <1>13
<1>15. LogSeries(term, sum, z)
  <2>1. term[0] = z /\ sum[0] = z
    BY <1>8, <1>12
  <2>2. ASSUME NEW k \in 1..6
        PROVE  /\ term[k] = (term[k - 1] * z2) \div POW_APPROX_Q
               /\ sum[k] = sum[k - 1] + term[k] \div (2 * k + 1)
    BY <1>8, <1>12
  <2>3. QED
    BY <1>14, <2>1, <2>2 DEF LogSeries, z2
<1>16. QED
  BY <1>1, <1>3, <1>15 DEF z

-----------------------------------------------------------------------------
(* The logarithm of a mantissa grows with it.                              *)

\* Quotients compare as fractions do.
LEMMA QuotientCross ==
    ASSUME NEW a \in Nat, NEW b \in Nat \ {0}, NEW c \in Nat, NEW d \in Nat \ {0},
           a * d <= c * b
    PROVE  a \div b <= c \div d
<1> DEFINE q == a \div b
<1>1. q \in Nat /\ q * b <= a
  BY Division, QuotientNat
<1> HIDE DEF q
<1>2. (q * b) * d <= a * d /\ (q * b) * d = (q * d) * b
  <2>1. q * b \in Int
    BY <1>1
  <2>2. QED
    BY <1>1, <2>1, ProductMonotone
<1>3. q * d <= c
  <2>1. SUFFICES ASSUME c + 1 <= q * d PROVE FALSE
    BY <1>1
  <2> DEFINE y == q * d
  <2>2. y \in Int
    BY <1>1
  <2>3. y * b <= c * b /\ c + 1 <= y
    <3>1. (q * d) * b \in Int /\ a * d \in Int /\ c * b \in Int
      BY <1>1
    <3>2. QED
      BY <1>2, <2>1, <3>1
  <2> HIDE DEF y
  <2>4. (c + 1) * b <= y * b /\ (c + 1) * b = c * b + b
    BY <2>2, <2>3, ProductMonotone
  <2>5. y * b \in Int /\ c * b \in Int
    BY <2>2
  <2>6. QED
    BY <2>3, <2>4, <2>5
<1>4. (q * d) \div d = q /\ q * d \in Int
  BY <1>1
<1>5. (q * d) \div d <= c \div d
  BY <1>3, <1>4, QuotientMonotone
<1>6. QED
  BY <1>4, <1>5 DEF q

\* Products of naturals grow with both factors.
LEMMA ProductsMonotone ==
    ASSUME NEW a \in Nat, NEW b \in Nat, NEW c \in Nat, NEW d \in Nat, a <= b, c <= d
    PROVE  a * c <= b * d
<1>1. a * c <= b * c
  BY ProductMonotone
<1>2. c * b <= d * b
  BY ProductMonotone
<1>3. a * c \in Nat /\ b * c \in Nat /\ b * d \in Nat /\ c * b = b * c /\ d * b = b * d
  OBVIOUS
<1>4. QED
  BY <1>1, <1>2, <1>3

\* The argument of the series, (m - Q) / (m + Q), grows with the mantissa.
LEMMA LogZMonotone ==
    ASSUME NEW m \in Nat, NEW n \in Nat, POW_APPROX_Q <= m, m <= n
    PROVE  LogZ(m) <= LogZ(n)
<1> DEFINE Q == POW_APPROX_Q
           a == m - Q
           b == m + Q
           c == n - Q
           d == n + Q
<1>1. Q \in Nat \ {0}
  BY QPositive
<1>2. a \in Nat /\ c \in Nat /\ b \in Nat \ {0} /\ d \in Nat \ {0}
  BY <1>1
<1>3. a <= c /\ d = c + 2 * Q /\ b = a + 2 * Q
  BY <1>1
<1> HIDE DEF a, b, c, d
<1>4. a * d <= c * b
  <2>1. a * d = a * c + a * (2 * Q) /\ c * b = c * a + c * (2 * Q) /\ a * c = c * a
    BY <1>1, <1>2, <1>3
  <2>2. a * (2 * Q) <= c * (2 * Q)
    <3>1. 2 * Q \in Nat
      BY <1>1
    <3>2. QED
      BY <1>2, <1>3, <3>1, ProductMonotone
  <2>3. a * c \in Int /\ a * (2 * Q) \in Int /\ c * (2 * Q) \in Int
    BY <1>1, <1>2
  <2>4. QED
    BY <2>1, <2>2, <2>3
<1>5. (a * d) * Q <= (c * b) * Q
  <2>1. a * d \in Int /\ c * b \in Int
    BY <1>2
  <2>2. QED
    BY <1>1, <1>4, <2>1, ProductMonotone
<1>6. (a * Q) * d = (a * d) * Q /\ (c * Q) * b = (c * b) * Q
  BY <1>1, <1>2
<1>7. a * Q \in Nat /\ c * Q \in Nat
  BY <1>1, <1>2, NatProduct
<1>8. (a * Q) \div b <= (c * Q) \div d
  BY <1>2, <1>5, <1>6, <1>7, QuotientCross
<1>9. QED
  BY <1>8 DEF LogZ, a, b, c, d

\* A larger z has larger terms and sums.
LEMMA LogSeriesMonotone ==
    ASSUME NEW y \in Nat, NEW z \in Nat, y <= z, NEW t, NEW s, NEW v, NEW w,
           LogSeries(t, s, y), LogSeries(v, w, z)
    PROVE  s[6] \in Nat /\ w[6] \in Nat /\ s[6] <= w[6]
<1> DEFINE y2 == (y * y) \div POW_APPROX_Q
           z2 == (z * z) \div POW_APPROX_Q
           N  == {k \in Nat : k \in 0..6 => t[k] <= v[k] /\ s[k] <= w[k]}
<1>1. POW_APPROX_Q \in Nat \ {0}
  BY QPositive
<1>2. y2 \in Nat /\ z2 \in Nat /\ y2 <= z2
  <2>1. y * y \in Nat /\ z * z \in Nat /\ y * y <= z * z
    BY NatProduct, ProductsMonotone
  <2>2. QED
    BY <1>1, <2>1, QuotientNat, QuotientMonotone
<1>3. \A k \in 0..6 : t[k] \in Nat /\ s[k] \in Nat /\ v[k] \in Nat /\ w[k] \in Nat
  BY DEF LogSeries
<1>4. \A k \in 1..6 : /\ t[k] = (t[k - 1] * y2) \div POW_APPROX_Q
                      /\ s[k] = s[k - 1] + t[k] \div (2 * k + 1)
                      /\ v[k] = (v[k - 1] * z2) \div POW_APPROX_Q
                      /\ w[k] = w[k - 1] + v[k] \div (2 * k + 1)
  BY DEF LogSeries
<1> HIDE DEF y2, z2
<1>5. 0 \in N
  BY DEF LogSeries
<1>6. ASSUME NEW k \in Nat, k \in N PROVE k + 1 \in N
  <2>1. SUFFICES ASSUME k + 1 \in 0..6 PROVE t[k + 1] <= v[k + 1] /\ s[k + 1] <= w[k + 1]
    OBVIOUS
  <2>2. k \in 0..6 /\ k + 1 \in 1..6 /\ (k + 1) - 1 = k
    BY <2>1
  <2>3. t[k] <= v[k] /\ s[k] <= w[k]
    BY <1>6, <2>2
  <2>4. t[k] \in Nat /\ v[k] \in Nat /\ s[k] \in Nat /\ w[k] \in Nat
    BY <1>3, <2>2
  <2>5. t[k + 1] <= v[k + 1] /\ t[k + 1] \in Nat /\ v[k + 1] \in Nat
    <3>1. t[k] * y2 <= v[k] * z2 /\ t[k] * y2 \in Nat /\ v[k] * z2 \in Nat
      BY <1>2, <2>3, <2>4, NatProduct, ProductsMonotone
    <3>2. (t[k] * y2) \div POW_APPROX_Q <= (v[k] * z2) \div POW_APPROX_Q
      BY <1>1, <3>1, QuotientMonotone
    <3>3. t[k + 1] = (t[k] * y2) \div POW_APPROX_Q /\ v[k + 1] = (v[k] * z2) \div POW_APPROX_Q
      BY <1>4, <2>2
    <3>4. QED
      BY <1>3, <2>1, <3>2, <3>3
  <2> DEFINE d == 2 * (k + 1) + 1
  <2>6. d \in Nat \ {0}
    OBVIOUS
  <2>7. s[k + 1] = s[k] + t[k + 1] \div d /\ w[k + 1] = w[k] + v[k + 1] \div d
    BY <1>4, <2>2
  <2> HIDE DEF d
  <2>8. /\ t[k + 1] \div d <= v[k + 1] \div d
        /\ t[k + 1] \div d \in Int /\ v[k + 1] \div d \in Int
    <3>1. t[k + 1] \in Int /\ v[k + 1] \in Int
      BY <2>5
    <3>2. t[k + 1] \div d <= v[k + 1] \div d
      BY <2>5, <2>6, <3>1, QuotientMonotone
    <3>3. t[k + 1] \div d \in Int /\ v[k + 1] \div d \in Int
      BY <2>6, <3>1, Division
    <3>4. QED
      BY <3>2, <3>3
  <2>9. s[k + 1] <= w[k + 1]
    BY <2>3, <2>4, <2>7, <2>8
  <2>10. QED
    BY <2>5, <2>9
<1>7. Nat \subseteq N
  <2> HIDE DEF N
  <2>1. QED
    BY <1>5, <1>6, NatClosed
<1>8. 6 \in Nat /\ 6 \in 0..6
  OBVIOUS
<1>9. s[6] <= w[6]
  BY <1>7, <1>8
<1>10. QED
  BY <1>3, <1>8, <1>9

\* Within an octave the logarithm rises.
LEMMA LogMantissaMonotone ==
    ASSUME NEW m \in Nat, NEW n \in Nat, POW_APPROX_Q <= m, m <= n
    PROVE  /\ log2_mantissa_q(m) \in Nat /\ log2_mantissa_q(n) \in Nat
           /\ log2_mantissa_q(m) <= log2_mantissa_q(n)
<1> DEFINE L(s) == (s[6] * 2 * POW_APPROX_LOG2_E_Q) \div POW_APPROX_Q
<1>1. POW_APPROX_Q \in Nat \ {0} /\ POW_APPROX_LOG2_E_Q \in Nat /\ POW_APPROX_Q <= n
  BY QPositive, CurveAssumption
<1>2. /\ LogZ(m) \in Nat
      /\ \E t, s : LogSeries(t, s, LogZ(m)) /\ log2_mantissa_q(m) = L(s)
  BY LogMantissa
<1>3. /\ LogZ(n) \in Nat
      /\ \E t, s : LogSeries(t, s, LogZ(n)) /\ log2_mantissa_q(n) = L(s)
  BY <1>1, LogMantissa
<1>4. LogZ(m) <= LogZ(n)
  BY LogZMonotone
<1> HIDE DEF L
<1>5. PICK t, s : LogSeries(t, s, LogZ(m)) /\ log2_mantissa_q(m) = L(s)
  BY <1>2
<1>6. PICK v, w : LogSeries(v, w, LogZ(n)) /\ log2_mantissa_q(n) = L(w)
  BY <1>3
<1> DEFINE a == s[6]
           b == w[6]
<1>7. a \in Nat /\ b \in Nat /\ a <= b
  BY <1>2, <1>3, <1>4, <1>5, <1>6, LogSeriesMonotone
<1>8. L(s) = (a * 2 * POW_APPROX_LOG2_E_Q) \div POW_APPROX_Q
      /\ L(w) = (b * 2 * POW_APPROX_LOG2_E_Q) \div POW_APPROX_Q
  BY DEF L
<1> HIDE DEF a, b
<1>9. a * 2 \in Nat /\ b * 2 \in Nat /\ a * 2 <= b * 2
  BY <1>7
<1>10. /\ a * 2 * POW_APPROX_LOG2_E_Q \in Nat /\ b * 2 * POW_APPROX_LOG2_E_Q \in Nat
       /\ a * 2 * POW_APPROX_LOG2_E_Q <= b * 2 * POW_APPROX_LOG2_E_Q
  BY <1>1, <1>9, NatProduct, ProductMonotone
<1>11. QED
  BY <1>1, <1>5, <1>6, <1>8, <1>10, QuotientNat, QuotientMonotone

-----------------------------------------------------------------------------
(* The series of the exponential.                                          *)

\* t and s are the terms and the partial sums of the exponential's series for x.
ExpSeries(t, s, x) ==
    /\ t \in [0..10 -> Nat] /\ s \in [0..10 -> Nat]
    /\ t[0] = POW_APPROX_Q /\ s[0] = POW_APPROX_Q
    /\ \A k \in 1..10 : /\ t[k] = ((t[k - 1] * x) \div POW_APPROX_Q) \div k
                        /\ s[k] = s[k - 1] + t[k]

ExpX(fraction) == (fraction * POW_APPROX_LN2_Q) \div POW_APPROX_Q

\* exp2_fraction_scaled computes these.
LEMMA ExpFraction ==
    ASSUME NEW fraction \in Nat
    PROVE  /\ ExpX(fraction) \in Nat
           /\ \E t, s : /\ ExpSeries(t, s, ExpX(fraction))
                        /\ exp2_fraction_scaled(fraction)
                             = (s[10] * HARD_WALL_SCALE) \div POW_APPROX_Q
<1> DEFINE x    == ExpX(fraction)
           P(f) == f = [k \in 0..10 |-> IF k = 0 THEN POW_APPROX_Q
                                        ELSE ((f[k - 1] * x) \div POW_APPROX_Q) \div k]
           term == CHOOSE f : P(f)
           R(f) == f = [k \in 0..10 |-> IF k = 0 THEN term[0] ELSE f[k - 1] + term[k]]
           sum  == CHOOSE f : R(f)
<1>1. exp2_fraction_scaled(fraction) = (sum[10] * HARD_WALL_SCALE) \div POW_APPROX_Q
  BY DEF exp2_fraction_scaled, ExpX
<1>2. POW_APPROX_Q \in Nat \ {0}
  BY QPositive
<1>3. x \in Nat
  <2>1. fraction * POW_APPROX_LN2_Q \in Nat
    BY CurveAssumption, NatProduct
  <2>2. QED
    BY <1>2, <2>1, QuotientNat DEF ExpX
<1> HIDE DEF x
<1>4. ASSUME NEW y \in Nat, NEW k \in Nat \ {0}
      PROVE  ((y * x) \div POW_APPROX_Q) \div k \in Nat
  BY <1>2, <1>3, NatProduct, QuotientNat
<1> DEFINE step == [p \in Int \X Nat |->
                      IF p[2] = 0 THEN 0 ELSE ((p[1] * x) \div POW_APPROX_Q) \div p[2]]
<1>5. step \in [Int \X Nat -> Int]
  <2>1. ASSUME NEW y \in Int, NEW k \in Nat, k # 0
        PROVE  ((y * x) \div POW_APPROX_Q) \div k \in Int
    <3>1. y * x \in Int
      BY <1>3
    <3>2. (y * x) \div POW_APPROX_Q \in Int
      BY <1>2, <3>1, Division
    <3>3. QED
      BY <2>1, <3>2, Division
  <2>2. QED
    BY <2>1
<1>6. \E f : P(f)
  <2>1. POW_APPROX_Q \in Int /\ 10 \in Nat
    BY <1>2
  <2>2. PICK f : f \in [0..10 -> Int] /\ Recursive(f, 0..10, POW_APPROX_Q, step)
    <3> HIDE DEF step
    <3>1. QED
      BY <1>5, <2>1, SegmentRecursion
  <2>3. ASSUME NEW k \in 0..10, k # 0
        PROVE  step[<<f[k - 1], k>>] = ((f[k - 1] * x) \div POW_APPROX_Q) \div k
    <3>1. f[k - 1] \in Int /\ k \in Nat
      BY <2>2, <2>3
    <3>2. QED
      BY <2>3, <3>1
  <2> HIDE DEF step
  <2>4. P(f)
    BY <2>2, <2>3 DEF Recursive
  <2> HIDE DEF P
  <2>5. QED
    BY <2>4
<1>7. P(term)
  <2> HIDE DEF P
  <2>1. QED
    BY <1>6
<1> HIDE DEF term
<1>8. \A k \in 0..10 : term[k] \in Nat
  <2>1. term[0] \in Nat
    BY <1>2, <1>7
  <2>2. ASSUME NEW k \in 0..10, k # 0
        PROVE  k - 1 \in 0..10 /\ (term[k - 1] \in Nat => term[k] \in Nat)
    <3>1. term[k] = ((term[k - 1] * x) \div POW_APPROX_Q) \div k
      BY <1>7, <2>2
    <3>2. k \in Nat \ {0} /\ k - 1 \in 0..10
      BY <2>2
    <3>3. ASSUME term[k - 1] \in Nat PROVE term[k] \in Nat
      BY <1>4, <3>1, <3>2, <3>3
    <3>4. QED
      BY <3>2, <3>3
  <2> HIDE DEF P
  <2>3. QED
    BY <2>1, <2>2, StepsTyped
<1> DEFINE more == [p \in Int \X Nat |-> p[1] + (IF p[2] \in 0..10 THEN term[p[2]] ELSE 0)]
<1>9. \E f : R(f)
  <2>1. more \in [Int \X Nat -> Int]
    BY <1>8
  <2>2. term[0] \in Int /\ 10 \in Nat
    BY <1>8
  <2>3. PICK f : f \in [0..10 -> Int] /\ Recursive(f, 0..10, term[0], more)
    <3> HIDE DEF more
    <3>1. QED
      BY <2>1, <2>2, SegmentRecursion
  <2>4. ASSUME NEW k \in 0..10, k # 0 PROVE more[<<f[k - 1], k>>] = f[k - 1] + term[k]
    <3>1. f[k - 1] \in Int /\ k \in Nat
      BY <2>3, <2>4
    <3>2. QED
      BY <3>1
  <2> HIDE DEF more
  <2>5. R(f)
    BY <2>3, <2>4 DEF Recursive
  <2> HIDE DEF R
  <2>6. QED
    BY <2>5
<1>10. R(sum)
  <2> HIDE DEF R
  <2>1. QED
    BY <1>9
<1> HIDE DEF sum
<1>11. \A k \in 0..10 : sum[k] \in Nat
  <2>1. sum[0] \in Nat
    BY <1>8, <1>10
  <2>2. ASSUME NEW k \in 0..10, k # 0
        PROVE  k - 1 \in 0..10 /\ (sum[k - 1] \in Nat => sum[k] \in Nat)
    <3>1. sum[k] = sum[k - 1] + term[k]
      BY <1>10, <2>2
    <3>2. QED
      BY <1>8, <2>2, <3>1
  <2> HIDE DEF R
  <2>3. QED
    BY <2>1, <2>2, StepsTyped
<1>12. term \in [0..10 -> Nat] /\ sum \in [0..10 -> Nat]
  BY <1>7, <1>8, <1>10, <1>11
<1>13. ExpSeries(term, sum, x)
  <2>1. term[0] = POW_APPROX_Q /\ sum[0] = POW_APPROX_Q
    BY <1>7, <1>10
  <2>2. ASSUME NEW k \in 1..10
        PROVE  /\ term[k] = ((term[k - 1] * x) \div POW_APPROX_Q) \div k
               /\ sum[k] = sum[k - 1] + term[k]
    BY <1>7, <1>10
  <2>3. QED
    BY <1>12, <2>1, <2>2 DEF ExpSeries
<1>14. QED
  BY <1>1, <1>3, <1>13 DEF x

\* A larger x has larger terms and sums.
LEMMA ExpSeriesMonotone ==
    ASSUME NEW x \in Nat, NEW y \in Nat, x <= y, NEW t, NEW s, NEW v, NEW w,
           ExpSeries(t, s, x), ExpSeries(v, w, y)
    PROVE  s[10] \in Nat /\ w[10] \in Nat /\ s[10] <= w[10]
<1> DEFINE N == {k \in Nat : k \in 0..10 => t[k] <= v[k] /\ s[k] <= w[k]}
<1>1. POW_APPROX_Q \in Nat \ {0}
  BY QPositive
<1>2. \A k \in 0..10 : t[k] \in Nat /\ s[k] \in Nat /\ v[k] \in Nat /\ w[k] \in Nat
  BY DEF ExpSeries
<1>3. \A k \in 1..10 : /\ t[k] = ((t[k - 1] * x) \div POW_APPROX_Q) \div k
                       /\ s[k] = s[k - 1] + t[k]
                       /\ v[k] = ((v[k - 1] * y) \div POW_APPROX_Q) \div k
                       /\ w[k] = w[k - 1] + v[k]
  BY DEF ExpSeries
<1>4. 0 \in N
  <2>1. t[0] = v[0] /\ s[0] = w[0] /\ t[0] \in Nat /\ s[0] \in Nat
    BY <1>1 DEF ExpSeries
  <2>2. QED
    BY <2>1
<1>5. ASSUME NEW k \in Nat, k \in N PROVE k + 1 \in N
  <2>1. SUFFICES ASSUME k + 1 \in 0..10 PROVE t[k + 1] <= v[k + 1] /\ s[k + 1] <= w[k + 1]
    OBVIOUS
  <2>2. k \in 0..10 /\ k + 1 \in 1..10 /\ (k + 1) - 1 = k
    BY <2>1
  <2>3. t[k] <= v[k] /\ s[k] <= w[k]
    BY <1>5, <2>2
  <2>4. t[k] \in Nat /\ v[k] \in Nat /\ s[k] \in Nat /\ w[k] \in Nat
    BY <1>2, <2>2
  <2>5. t[k + 1] <= v[k + 1] /\ t[k + 1] \in Nat /\ v[k + 1] \in Nat
    <3> DEFINE a == (t[k] * x) \div POW_APPROX_Q
               b == (v[k] * y) \div POW_APPROX_Q
    <3>1. t[k] * x <= v[k] * y /\ t[k] * x \in Nat /\ v[k] * y \in Nat
      BY <2>3, <2>4, NatProduct, ProductsMonotone
    <3>2. a <= b /\ a \in Nat /\ b \in Nat
      BY <1>1, <3>1, QuotientMonotone, QuotientNat
    <3>3. t[k + 1] = a \div (k + 1) /\ v[k + 1] = b \div (k + 1)
      BY <1>3, <2>2
    <3> HIDE DEF a, b
    <3>4. k + 1 \in Nat \ {0} /\ a \in Int /\ b \in Int
      BY <3>2
    <3>5. a \div (k + 1) <= b \div (k + 1)
      BY <3>2, <3>4, QuotientMonotone
    <3>6. QED
      BY <1>2, <2>1, <3>3, <3>5
  <2>6. s[k + 1] = s[k] + t[k + 1] /\ w[k + 1] = w[k] + v[k + 1]
    BY <1>3, <2>2
  <2>7. QED
    BY <2>3, <2>4, <2>5, <2>6
<1>6. Nat \subseteq N
  <2> HIDE DEF N
  <2>1. QED
    BY <1>4, <1>5, NatClosed
<1>7. 10 \in Nat /\ 10 \in 0..10
  OBVIOUS
<1>8. s[10] <= w[10]
  BY <1>6, <1>7
<1>9. QED
  BY <1>2, <1>7, <1>8

\* The series for 0 is 1.
LEMMA ExpSeriesZero ==
    ASSUME NEW t, NEW s, ExpSeries(t, s, 0)
    PROVE  s[10] = POW_APPROX_Q
<1> DEFINE N == {k \in Nat : k \in 0..10 => s[k] = POW_APPROX_Q}
<1>1. POW_APPROX_Q \in Nat \ {0}
  BY QPositive
<1>2. 0 \in N
  BY DEF ExpSeries
<1>3. ASSUME NEW k \in Nat, k \in N PROVE k + 1 \in N
  <2>1. SUFFICES ASSUME k + 1 \in 0..10 PROVE s[k + 1] = POW_APPROX_Q
    OBVIOUS
  <2>2. k \in 0..10 /\ k + 1 \in 1..10 /\ (k + 1) - 1 = k
    BY <2>1
  <2>3. s[k] = POW_APPROX_Q /\ t[k] \in Nat
    BY <1>3, <2>2 DEF ExpSeries
  <2>4. t[k + 1] = ((t[k] * 0) \div POW_APPROX_Q) \div (k + 1) /\ s[k + 1] = s[k] + t[k + 1]
    BY <2>2 DEF ExpSeries
  <2>5. t[k] * 0 = 0 /\ 0 \div POW_APPROX_Q = 0 /\ 0 \div (k + 1) = 0
    BY <1>1, <2>3
  <2>6. QED
    BY <1>1, <2>3, <2>4, <2>5
<1>4. Nat \subseteq N
  <2> HIDE DEF N
  <2>1. QED
    BY <1>2, <1>3, NatClosed
<1>5. 10 \in Nat /\ 10 \in 0..10
  OBVIOUS
<1>6. QED
  BY <1>4, <1>5

\* Within an octave the power rises, from 100%.
LEMMA ExpFractionMonotone ==
    ASSUME NEW m \in Nat, NEW n \in Nat, m <= n
    PROVE  /\ exp2_fraction_scaled(m) \in Nat /\ exp2_fraction_scaled(n) \in Nat
           /\ exp2_fraction_scaled(m) <= exp2_fraction_scaled(n)
<1> DEFINE E(s) == (s[10] * HARD_WALL_SCALE) \div POW_APPROX_Q
<1>1. /\ POW_APPROX_Q \in Nat \ {0} /\ POW_APPROX_LN2_Q \in Nat /\ HARD_WALL_SCALE \in Nat
  BY QPositive, CurveAssumption
<1>2. /\ ExpX(m) \in Nat
      /\ \E t, s : ExpSeries(t, s, ExpX(m)) /\ exp2_fraction_scaled(m) = E(s)
  BY ExpFraction
<1>3. /\ ExpX(n) \in Nat
      /\ \E t, s : ExpSeries(t, s, ExpX(n)) /\ exp2_fraction_scaled(n) = E(s)
  BY ExpFraction
<1>4. ExpX(m) <= ExpX(n)
  <2>1. m * POW_APPROX_LN2_Q <= n * POW_APPROX_LN2_Q
    BY <1>1, ProductMonotone
  <2>2. m * POW_APPROX_LN2_Q \in Int /\ n * POW_APPROX_LN2_Q \in Int
    BY <1>1
  <2>3. QED
    BY <1>1, <2>1, <2>2, QuotientMonotone DEF ExpX
<1> HIDE DEF E
<1>5. PICK t, s : ExpSeries(t, s, ExpX(m)) /\ exp2_fraction_scaled(m) = E(s)
  BY <1>2
<1>6. PICK v, w : ExpSeries(v, w, ExpX(n)) /\ exp2_fraction_scaled(n) = E(w)
  BY <1>3
<1> DEFINE a == s[10]
           b == w[10]
<1>7. a \in Nat /\ b \in Nat /\ a <= b
  BY <1>2, <1>3, <1>4, <1>5, <1>6, ExpSeriesMonotone
<1>8. E(s) = (a * HARD_WALL_SCALE) \div POW_APPROX_Q
      /\ E(w) = (b * HARD_WALL_SCALE) \div POW_APPROX_Q
  BY DEF E
<1> HIDE DEF a, b
<1>9. /\ a * HARD_WALL_SCALE \in Nat /\ b * HARD_WALL_SCALE \in Nat
      /\ a * HARD_WALL_SCALE <= b * HARD_WALL_SCALE
  BY <1>1, <1>7, NatProduct, ProductMonotone
<1>10. QED
  BY <1>1, <1>5, <1>6, <1>8, <1>9, QuotientNat, QuotientMonotone

\* The exponential of no fraction is one.
LEMMA ExpFractionZero == exp2_fraction_scaled(0) = HARD_WALL_SCALE
<1>1. /\ POW_APPROX_Q \in Nat \ {0} /\ POW_APPROX_LN2_Q \in Nat /\ HARD_WALL_SCALE \in Nat
  BY QPositive, CurveAssumption
<1>2. ExpX(0) = 0
  <2>1. 0 * POW_APPROX_LN2_Q = 0 /\ 0 \div POW_APPROX_Q = 0
    BY <1>1
  <2>2. QED
    BY <2>1 DEF ExpX
<1>3. PICK t, s : /\ ExpSeries(t, s, ExpX(0))
                  /\ exp2_fraction_scaled(0) = (s[10] * HARD_WALL_SCALE) \div POW_APPROX_Q
  <2>1. 0 \in Nat
    OBVIOUS
  <2>2. QED
    BY <2>1, ExpFraction
<1>4. s[10] = POW_APPROX_Q
  BY <1>2, <1>3, ExpSeriesZero
<1>5. (POW_APPROX_Q * HARD_WALL_SCALE) \div POW_APPROX_Q = HARD_WALL_SCALE
  BY <1>1
<1>6. QED
  BY <1>3, <1>4, <1>5

-----------------------------------------------------------------------------
(* The logarithm grows across octaves.                                     *)

\* The most significant bit exists.
LEMMA MsbTyped ==
    ASSUME NEW n \in Nat \ {0}
    PROVE  msb(n) \in Nat /\ 2^msb(n) <= n /\ n < 2^(msb(n) + 1)
<1> DEFINE N == {k \in 0..n : 2^k <= n}
<1>1. \A k \in Nat : 2^k \in Nat \ {0} /\ k <= 2^k
  BY PowerOfTwo
<1>2. N \subseteq Nat /\ \A k \in N : k <= n
  OBVIOUS
<1>3. 0 \in N
  <2>1. 2^0 = 1
    OBVIOUS
  <2>2. QED
    BY <2>1
<1> DEFINE k == Max(N)
<1>4. k \in N /\ \A j \in N : j <= k
  <2> HIDE DEF N
  <2>1. QED
    BY <1>2, <1>3, GreatestExists
<1> HIDE DEF k
<1>5. n < 2^(k + 1)
  <2>1. k \in 0..n /\ k + 1 \in Nat
    BY <1>4
  <2>2. CASE k = n
    <3>1. k + 1 <= 2^(k + 1) /\ 2^(k + 1) \in Nat
      BY <1>1, <2>1
    <3>2. QED
      BY <2>2, <3>1
  <2>3. CASE k # n
    <3>1. k + 1 \in 0..n /\ k + 1 \notin N
      BY <1>4, <2>1, <2>3
    <3>2. ~(2^(k + 1) <= n) /\ 2^(k + 1) \in Nat
      BY <1>1, <2>1, <3>1
    <3>3. QED
      BY <3>2
  <2>4. QED
    BY <2>2, <2>3
<1>6. \E j \in 0..n : 2^j <= n /\ n < 2^(j + 1)
  BY <1>4, <1>5
<1>7. msb(n) \in 0..n /\ 2^msb(n) <= n /\ n < 2^(msb(n) + 1)
  BY <1>6 DEF msb
<1>8. QED
  BY <1>7

\* It rises with the number.
LEMMA MsbMonotone ==
    ASSUME NEW m \in Nat \ {0}, NEW n \in Nat \ {0}, m <= n
    PROVE  msb(m) <= msb(n)
<1> DEFINE a == msb(m)
           b == msb(n)
<1>1. a \in Nat /\ 2^a <= m /\ b \in Nat /\ n < 2^(b + 1)
  BY MsbTyped
<1> HIDE DEF a, b
<1>2. SUFFICES ASSUME b + 1 <= a PROVE FALSE
  BY <1>1 DEF a, b
<1>3. 2^(b + 1) <= 2^a /\ 2^(b + 1) \in Nat /\ 2^a \in Nat
  <2>1. b + 1 \in Nat
    BY <1>1
  <2>2. QED
    BY <1>1, <1>2, <2>1, PowerMonotone, PowerOfTwo
<1>4. QED
  BY <1>1, <1>3

\* What log2_integer_q shifts n to.
Mantissa(n) ==
    IF msb(n) - POW_APPROX_Q_SHIFT >= 0 THEN n \div 2^(msb(n) - POW_APPROX_Q_SHIFT)
    ELSE n * 2^(-(msb(n) - POW_APPROX_Q_SHIFT))

\* It is in [1, 2).
LEMMA MantissaRange ==
    ASSUME NEW n \in Nat \ {0}
    PROVE  /\ Mantissa(n) \in Nat
           /\ POW_APPROX_Q <= Mantissa(n) /\ Mantissa(n) <= 2 * POW_APPROX_Q - 1
<1> DEFINE k == msb(n)
           h == POW_APPROX_Q_SHIFT
           q == POW_APPROX_Q
           p == 2^k
<1>1. h \in Nat /\ q \in Nat \ {0} /\ q = 2^h
  BY CurveAssumption, QPositive DEF POW_APPROX_Q
<1>2. k \in Nat /\ p <= n /\ n < 2^(k + 1)
  BY MsbTyped
<1>3. p \in Nat /\ 2^(k + 1) = 2 * p
  BY <1>2, PowerOfTwo, PowerDoubles
<1>4. Mantissa(n) = IF k - h >= 0 THEN n \div 2^(k - h) ELSE n * 2^(-(k - h))
  BY DEF Mantissa
<1>5. p <= n /\ n <= 2 * p - 1
  BY <1>2, <1>3
<1>6. CASE k - h >= 0
  <2> DEFINE d == 2^(k - h)
  <2>1. k - h \in Nat /\ h + (k - h) = k
    BY <1>1, <1>2, <1>6
  <2>2. d \in Nat \ {0} /\ p = q * d
    BY <1>1, <2>1, PowerOfTwo, PowerSum
  <2>3. Mantissa(n) = n \div d
    BY <1>4, <1>6
  <2> HIDE DEF d, p, q
  <2>4. n \div d \in Nat /\ (n \div d) * d <= n /\ n < (n \div d) * d + d
    BY <2>2, Division, QuotientNat
  <2> DEFINE y == n \div d
  <2>5. y \in Nat /\ y * d <= n /\ n < y * d + d
    BY <2>4
  <2> HIDE DEF y
  <2>6. q <= y
    <3>1. SUFFICES ASSUME y + 1 <= q PROVE FALSE
      BY <1>1, <2>5
    <3>2. (y + 1) * d <= q * d /\ (y + 1) * d = y * d + d
      BY <1>1, <2>2, <2>5, <3>1, ProductMonotone
    <3>3. y * d \in Int /\ q * d \in Int
      BY <1>1, <2>2, <2>5
    <3>4. QED
      BY <1>5, <2>2, <2>5, <3>2, <3>3
  <2>7. y <= 2 * q - 1
    <3>1. SUFFICES ASSUME 2 * q <= y PROVE FALSE
      BY <1>1, <2>5
    <3>2. (2 * q) * d <= y * d /\ (2 * q) * d = 2 * (q * d)
      BY <1>1, <2>2, <2>5, <3>1, ProductMonotone
    <3>3. y * d \in Int /\ q * d \in Int
      BY <1>1, <2>2, <2>5
    <3>4. QED
      BY <1>5, <2>2, <2>5, <3>2, <3>3
  <2>8. QED
    BY <2>3, <2>5, <2>6, <2>7 DEF y, q
<1>7. CASE ~(k - h >= 0)
  <2> DEFINE d == 2^(-(k - h))
  <2>1. -(k - h) \in Nat /\ k + (-(k - h)) = h
    BY <1>1, <1>2, <1>7
  <2>2. d \in Nat \ {0} /\ q = p * d
    BY <1>1, <1>2, <2>1, PowerOfTwo, PowerSum
  <2>3. Mantissa(n) = n * d
    BY <1>4, <1>7
  <2> HIDE DEF d, p, q
  <2>4. p * d <= n * d
    BY <1>3, <1>5, <2>2, ProductMonotone
  <2>5. n * d <= (2 * p - 1) * d /\ (2 * p - 1) * d = 2 * (p * d) - d
    <3>1. 2 * p - 1 \in Int
      BY <1>3
    <3>2. QED
      BY <1>3, <1>5, <2>2, <3>1, ProductMonotone
  <2>6. n * d \in Nat /\ p * d \in Int
    BY <1>3, <2>2
  <2>7. QED
    BY <2>2, <2>3, <2>4, <2>5, <2>6 DEF q
<1>8. QED
  BY <1>6, <1>7

\* It rises with the number as long as its most significant bit stays.
LEMMA MantissaMonotone ==
    ASSUME NEW m \in Nat \ {0}, NEW n \in Nat \ {0}, m <= n, msb(m) = msb(n)
    PROVE  Mantissa(m) <= Mantissa(n)
<1> DEFINE d == msb(n) - POW_APPROX_Q_SHIFT
<1>1. d \in Int
  BY MsbTyped, CurveAssumption
<1>2. /\ Mantissa(m) = IF d >= 0 THEN m \div 2^d ELSE m * 2^(-d)
      /\ Mantissa(n) = IF d >= 0 THEN n \div 2^d ELSE n * 2^(-d)
  BY DEF Mantissa
<1> HIDE DEF d
<1>3. CASE d >= 0
  <2>1. 2^d \in Nat \ {0}
    BY <1>1, <1>3, PowerOfTwo
  <2>2. QED
    BY <1>2, <1>3, <2>1, QuotientMonotone
<1>4. CASE ~(d >= 0)
  <2>1. 2^(-d) \in Nat
    BY <1>1, <1>4, PowerOfTwo
  <2>2. QED
    BY <1>2, <1>4, <2>1, ProductMonotone
<1>5. QED
  BY <1>3, <1>4

\* The approximated logarithm rises with the number, also from one octave to
\* the next (log2_integer_q).
LEMMA LogMonotone ==
    ASSUME NEW m \in Nat \ {0}, NEW n \in Nat \ {0}, m <= n
    PROVE  /\ log2_integer_q(m) \in Nat /\ log2_integer_q(n) \in Nat
           /\ log2_integer_q(m) <= log2_integer_q(n)
<1> DEFINE q == POW_APPROX_Q
           a == msb(m)
           b == msb(n)
           x == log2_mantissa_q(Mantissa(m))
           y == log2_mantissa_q(Mantissa(n))
<1>1. log2_integer_q(m) = a * q + x /\ log2_integer_q(n) = b * q + y
  BY DEF log2_integer_q, Mantissa
<1>2. q \in Nat \ {0}
  BY QPositive
<1>3. a \in Nat /\ b \in Nat /\ a <= b
  BY MsbTyped, MsbMonotone
<1>4. /\ Mantissa(m) \in Nat /\ q <= Mantissa(m) /\ Mantissa(m) <= 2 * q - 1
      /\ Mantissa(n) \in Nat /\ q <= Mantissa(n) /\ Mantissa(n) <= 2 * q - 1
  BY MantissaRange
<1>5. x \in Nat /\ y \in Nat /\ x <= q
  <2>1. 2 * q - 1 \in Nat
    BY <1>2
  <2>2. x \in Nat /\ log2_mantissa_q(2 * q - 1) \in Nat /\ x <= log2_mantissa_q(2 * q - 1)
    BY <1>4, <2>1, LogMantissaMonotone
  <2>3. y \in Nat
    BY <1>4, <2>1, LogMantissaMonotone
  <2>4. log2_mantissa_q(2 * q - 1) <= q
    BY OctaveAssumption
  <2> HIDE DEF x, y, q
  <2>5. QED
    BY <1>2, <2>2, <2>3, <2>4
<1>6. a = b => x <= y
  <2>1. ASSUME a = b PROVE x <= y
    <3>1. Mantissa(m) <= Mantissa(n)
      BY <2>1, MantissaMonotone
    <3>2. QED
      BY <1>4, <3>1, LogMantissaMonotone
  <2>2. QED
    BY <2>1
<1> HIDE DEF a, b, q, x, y
<1>7. a * q \in Nat /\ b * q \in Nat
  BY <1>2, <1>3, NatProduct
<1>8. a * q + x <= b * q + y
  <2>1. CASE a = b
    BY <1>5, <1>6, <1>7, <2>1
  <2>2. CASE a + 1 <= b
    <3>1. (a + 1) * q <= b * q /\ (a + 1) * q = a * q + q
      BY <1>2, <1>3, <2>2, ProductMonotone
    <3>2. QED
      BY <1>2, <1>5, <1>7, <3>1
  <2>3. QED
    BY <1>3, <2>1, <2>2
<1>9. QED
  BY <1>1, <1>5, <1>7, <1>8

-----------------------------------------------------------------------------
(* The exponential and the integer power grow.                             *)

\* A value shifted by i bits (exp2_hard_wall_scaled_q).
Shifted(i, s) == IF i >= 0 THEN s * 2^i ELSE s \div 2^(-i)

\* A shifted value grows with the value.
LEMMA ShiftedMonotone ==
    ASSUME NEW i \in Int, NEW r \in Nat, NEW s \in Nat, r <= s
    PROVE  Shifted(i, r) \in Nat /\ Shifted(i, s) \in Nat /\ Shifted(i, r) <= Shifted(i, s)
<1>1. CASE i >= 0
  <2>1. 2^i \in Nat
    BY <1>1, PowerOfTwo
  <2>2. QED
    BY <1>1, <2>1, NatProduct, ProductMonotone DEF Shifted
<1>2. CASE ~(i >= 0)
  <2>1. 2^(-i) \in Nat \ {0}
    BY <1>2, PowerOfTwo
  <2>2. QED
    BY <1>2, <2>1, QuotientNat, QuotientMonotone DEF Shifted
<1>3. QED
  BY <1>1, <1>2

\* Twice the value is one more bit.
LEMMA ShiftedTwice ==
    ASSUME NEW i \in Int, NEW s \in Nat
    PROVE  Shifted(i, 2 * s) = Shifted(i + 1, s)
<1>1. CASE i >= 0
  <2>1. 2^i \in Nat /\ 2^(i + 1) = 2 * 2^i
    BY <1>1, PowerOfTwo, PowerDoubles
  <2> DEFINE p == 2^i
  <2>2. p \in Nat /\ 2^(i + 1) = 2 * p
    BY <2>1
  <2> HIDE DEF p
  <2>3. (2 * s) * p = s * (2 * p)
    BY <2>2
  <2>4. i + 1 >= 0
    BY <1>1
  <2>5. QED
    BY <1>1, <2>2, <2>3, <2>4 DEF Shifted, p
<1>2. CASE i + 1 = 0
  <2>1. -i = 1 /\ i + 1 = 0 /\ ~(i >= 0)
    BY <1>2
  <2>2. 2^1 = 2 /\ 2^0 = 1
    OBVIOUS
  <2>3. (2 * s) \div 2 = s /\ s * 1 = s
    OBVIOUS
  <2>4. Shifted(i, 2 * s) = (2 * s) \div 2
    BY <2>1, <2>2 DEF Shifted
  <2>5. Shifted(i + 1, s) = s * 1
    <3>1. 0 >= 0
      OBVIOUS
    <3>2. QED
      BY <2>1, <2>2, <3>1, Zenon DEF Shifted
  <2>6. QED
    BY <2>3, <2>4, <2>5
<1>3. CASE i + 1 < 0
  <2> DEFINE j == -(i + 1)
             p == 2^j
  <2>1. j \in Nat /\ -i = j + 1
    BY <1>3
  <2>2. p \in Nat \ {0} /\ 2^(j + 1) = 2 * p
    BY <2>1, PowerOfTwo, PowerDoubles
  <2>3. Shifted(i, 2 * s) = (2 * s) \div (2 * p)
    BY <1>3, <2>1, <2>2 DEF Shifted
  <2>4. Shifted(i + 1, s) = s \div p
    BY <1>3 DEF Shifted
  <2> HIDE DEF p
  <2>5. (2 * s) \div (2 * p) = s \div p
    <3> DEFINE y == s \div p
    <3>1. y \in Int /\ y * p <= s /\ s < y * p + p
      BY <2>2, Division
    <3> HIDE DEF y
    <3>2. y * (2 * p) = 2 * (y * p) /\ y * p \in Int
      BY <2>2, <3>1
    <3>3. y * (2 * p) <= 2 * s /\ 2 * s < y * (2 * p) + 2 * p
      BY <2>2, <3>1, <3>2
    <3>4. (2 * s) \div (2 * p) = y
      <4> DEFINE d == 2 * p
                 e == 2 * s
                 x == e \div d
      <4>1. d \in Nat \ {0} /\ e \in Int /\ y * d <= e /\ e < y * d + d
        BY <2>2, <3>3
      <4> HIDE DEF d, e
      <4>2. x \in Int /\ x * d <= e /\ e < x * d + d
        BY <4>1, Division
      <4> HIDE DEF x
      <4>3. x <= y
        <5>1. SUFFICES ASSUME y + 1 <= x PROVE FALSE
          BY <3>1, <4>2
        <5>2. (y + 1) * d <= x * d /\ (y + 1) * d = y * d + d
          BY <3>1, <4>1, <4>2, <5>1, ProductMonotone
        <5>3. x * d \in Int /\ y * d \in Int
          BY <3>1, <4>1, <4>2
        <5>4. QED
          BY <4>1, <4>2, <5>2, <5>3
      <4>4. y <= x
        <5>1. SUFFICES ASSUME x + 1 <= y PROVE FALSE
          BY <3>1, <4>2
        <5>2. (x + 1) * d <= y * d /\ (x + 1) * d = x * d + d
          BY <3>1, <4>1, <4>2, <5>1, ProductMonotone
        <5>3. x * d \in Int /\ y * d \in Int
          BY <3>1, <4>1, <4>2
        <5>4. QED
          BY <4>1, <4>2, <5>2, <5>3
      <4>5. QED
        BY <3>1, <4>2, <4>3, <4>4 DEF x, d, e
    <3>5. QED
      BY <3>4 DEF y
  <2>6. QED
    BY <2>3, <2>4, <2>5
<1>4. QED
  BY <1>1, <1>2, <1>3

\* More bits give more.
LEMMA ShiftedFurther ==
    ASSUME NEW i \in Int, NEW j \in Int, i <= j, NEW s \in Nat
    PROVE  Shifted(i, s) <= Shifted(j, s)
<1> DEFINE N == {n \in Nat : Shifted(i, s) <= Shifted(i + n, s)}
<1>1. \A k \in Int : Shifted(k, s) \in Nat
  BY ShiftedMonotone
<1>2. 0 \in N
  <2>1. i + 0 = i
    OBVIOUS
  <2>2. QED
    BY <1>1, <2>1
<1>3. ASSUME NEW n \in Nat, n \in N PROVE n + 1 \in N
  <2>1. i + n \in Int /\ (i + n) + 1 = i + (n + 1) /\ i + (n + 1) \in Int
    OBVIOUS
  <2>2. Shifted(i + n, s) <= Shifted(i + n, 2 * s)
    BY <2>1, ShiftedMonotone
  <2>3. Shifted(i + n, 2 * s) = Shifted(i + (n + 1), s)
    BY <2>1, ShiftedTwice
  <2>4. QED
    BY <1>1, <1>3, <2>1, <2>2, <2>3
<1>4. Nat \subseteq N
  <2> HIDE DEF N
  <2>1. QED
    BY <1>2, <1>3, NatClosed
<1>5. j - i \in Nat /\ i + (j - i) = j
  OBVIOUS
<1>6. QED
  BY <1>4, <1>5

\* An integer is its quotient and its remainder.
LEMMA Remainder ==
    ASSUME NEW n \in Int, NEW d \in Nat \ {0}
    PROVE  n % d \in 0..(d - 1) /\ n = (n \div d) * d + (n % d)
<1>1. n % d \in 0..(d - 1)
  OBVIOUS
<1>2. n = (n \div d) * d + (n % d)
  OBVIOUS
<1>3. QED
  BY <1>1, <1>2

\* The approximated power rises with its logarithm, also from one octave to
\* the next (exp2_hard_wall_scaled_q).
LEMMA ExpMonotone ==
    ASSUME NEW a \in Int, NEW b \in Int, a <= b
    PROVE  /\ exp2_hard_wall_scaled_q(a) \in Nat /\ exp2_hard_wall_scaled_q(b) \in Nat
           /\ exp2_hard_wall_scaled_q(a) <= exp2_hard_wall_scaled_q(b)
<1> DEFINE q == POW_APPROX_Q
           H == HARD_WALL_SCALE
           i == a \div q
           j == b \div q
           r == a % q
           s == b % q
           x == exp2_fraction_scaled(r)
           y == exp2_fraction_scaled(s)
<1>1. exp2_hard_wall_scaled_q(a) = Shifted(i, x) /\ exp2_hard_wall_scaled_q(b) = Shifted(j, y)
  BY DEF exp2_hard_wall_scaled_q, Shifted
<1>2. q \in Nat \ {0} /\ H \in Nat \ {0}
  BY QPositive, CurveAssumption
<1>3. i \in Int /\ j \in Int /\ i <= j
  BY <1>2, Division, QuotientMonotone
<1>4. r \in 0..(q - 1) /\ s \in 0..(q - 1) /\ a = i * q + r /\ b = j * q + s
  BY <1>2, Remainder
<1>5. i = j => r <= s
  <2> HIDE DEF i, j, r, s
  <2>1. ASSUME i = j PROVE r <= s
    <3>1. i * q \in Int
      BY <1>2, <1>3
    <3>2. QED
      BY <1>4, <2>1, <3>1
  <2>2. QED
    BY <2>1
<1> HIDE DEF i, j, r, s
<1>6. r \in Nat /\ s \in Nat /\ q - 1 \in Nat /\ r <= q - 1
  BY <1>2, <1>4
<1>7. x \in Nat /\ y \in Nat /\ x <= exp2_fraction_scaled(q - 1) /\ exp2_fraction_scaled(q - 1) \in Nat
  BY <1>6, ExpFractionMonotone
<1>8. x <= 2 * H
  <2>1. exp2_fraction_scaled(q - 1) <= 2 * H
    BY OctaveAssumption
  <2> HIDE DEF x, H, q
  <2>2. QED
    BY <1>2, <1>7, <2>1
<1>9. H <= y
  <2>1. 0 \in Nat /\ 0 <= s
    BY <1>6
  <2>2. exp2_fraction_scaled(0) <= y
    BY <1>6, <2>1, ExpFractionMonotone
  <2>3. QED
    BY <2>2, ExpFractionZero
<1>10. CASE i = j
  <2>1. x <= y
    BY <1>5, <1>6, <1>10, ExpFractionMonotone
  <2> HIDE DEF x, y
  <2>2. Shifted(i, x) \in Nat /\ Shifted(i, y) \in Nat /\ Shifted(i, x) <= Shifted(i, y)
    BY <1>3, <1>7, <2>1, ShiftedMonotone
  <2>3. QED
    BY <1>1, <1>10, <2>2
<1>11. CASE i + 1 <= j
  <2> HIDE DEF x, y, H
  <2>0. i + 1 \in Int /\ 2 * H \in Nat
    BY <1>2, <1>3
  <2>1. Shifted(i, x) \in Nat /\ Shifted(i, 2 * H) \in Nat /\ Shifted(i, x) <= Shifted(i, 2 * H)
    BY <1>3, <1>7, <1>8, <2>0, ShiftedMonotone
  <2>2. Shifted(i, 2 * H) = Shifted(i + 1, H)
    BY <1>2, <1>3, ShiftedTwice
  <2>3. Shifted(i + 1, H) <= Shifted(j, H)
    BY <1>2, <1>3, <1>11, <2>0, ShiftedFurther
  <2>4. Shifted(j, H) \in Nat /\ Shifted(j, y) \in Nat /\ Shifted(j, H) <= Shifted(j, y)
    BY <1>2, <1>3, <1>7, <1>9, ShiftedMonotone
  <2>5. Shifted(i, x) <= Shifted(j, y)
    BY <2>1, <2>2, <2>3, <2>4
  <2>6. QED
    BY <1>1, <2>1, <2>4, <2>5
<1>12. QED
  BY <1>3, <1>10, <1>11

\* exp2_hard_wall_scaled_q(0) is one.
LEMMA ExpOfZero == exp2_hard_wall_scaled_q(0) = HARD_WALL_SCALE
<1>1. POW_APPROX_Q \in Nat \ {0} /\ HARD_WALL_SCALE \in Nat
  BY QPositive, CurveAssumption
<1>2. 0 \div POW_APPROX_Q = 0 /\ 0 % POW_APPROX_Q = 0
  BY <1>1
<1>3. exp2_hard_wall_scaled_q(0) = exp2_fraction_scaled(0) * 2^0
  <2>1. 0 >= 0
    OBVIOUS
  <2>2. QED
    BY <1>2, <2>1, Zenon DEF exp2_hard_wall_scaled_q
<1>4. 2^0 = 1
  OBVIOUS
<1>5. QED
  BY <1>1, <1>3, <1>4, ExpFractionZero

\* i128::checked_div rises with the dividend.
LEMMA TruncatedMonotone ==
    ASSUME NEW m \in Int, NEW n \in Int, NEW d \in Nat \ {0}, m <= n
    PROVE  /\ truncated_div(m, d) \in Int /\ truncated_div(n, d) \in Int
           /\ truncated_div(m, d) <= truncated_div(n, d)
<1>1. \A k \in Int : k \div d \in Int /\ (k >= 0 => k \div d >= 0)
  <2>1. ASSUME NEW k \in Int PROVE k \div d \in Int
    BY Division
  <2>2. ASSUME NEW k \in Int, k >= 0 PROVE k \div d >= 0
    BY <2>2, QuotientNat
  <2>3. QED
    BY <2>1, <2>2
<1>2. -m \in Int /\ -n \in Int /\ -n <= -m
  OBVIOUS
<1>3. m \div d <= n \div d /\ (-n) \div d <= (-m) \div d
  BY <1>2, QuotientMonotone
<1>4. QED
  BY <1>1, <1>2, <1>3 DEF truncated_div

\* mul_scaled_saturating
LEMMA MulScaled ==
    ASSUME NEW a \in Nat, NEW b \in Nat, NEW c \in Nat, NEW d \in Nat, a <= b, c <= d
    PROVE  /\ mul_scaled(a, c) \in Nat /\ mul_scaled(b, d) \in Nat
           /\ mul_scaled(a, c) <= mul_scaled(b, d)
<1>1. HARD_WALL_SCALE \in Nat \ {0}
  BY CurveAssumption
<1>2. a * c \in Nat /\ b * d \in Nat /\ a * c <= b * d
  BY NatProduct, ProductsMonotone
<1>3. QED
  BY <1>1, <1>2, QuotientNat, QuotientMonotone DEF mul_scaled

\* f holds the powers of u.
Powers(f, u) ==
    /\ f[0] = HARD_WALL_SCALE
    /\ \A n \in Nat : f[n] \in Nat /\ f[n + 1] = mul_scaled(f[n], u)

\* integer_utilization_power_scaled computes them.
LEMMA IntegerPower ==
    ASSUME NEW u \in Nat
    PROVE  \E f : Powers(f, u)
                  /\ \A e \in Nat : integer_utilization_power_scaled(u, e) = f[e]
<1> DEFINE P(f) == f = [n \in Nat |-> IF n = 0 THEN HARD_WALL_SCALE
                                      ELSE mul_scaled(f[n - 1], u)]
           g    == CHOOSE f : P(f)
           step == [p \in Int \X Nat |-> mul_scaled(p[1], u)]
<1>1. \A e \in Nat : integer_utilization_power_scaled(u, e) = g[e]
  BY DEF integer_utilization_power_scaled
<1>2. HARD_WALL_SCALE \in Nat \ {0}
  BY CurveAssumption
<1>3. step \in [Int \X Nat -> Int]
  <2>1. ASSUME NEW y \in Int PROVE mul_scaled(y, u) \in Int
    <3>1. y * u \in Int
      OBVIOUS
    <3>2. QED
      BY <1>2, <3>1, Division DEF mul_scaled
  <2>2. QED
    BY <2>1
<1>4. \E f : P(f)
  <2>1. HARD_WALL_SCALE \in Int
    BY <1>2
  <2>2. PICK f \in [Nat -> Int] : Recursive(f, Nat, HARD_WALL_SCALE, step)
    <3> HIDE DEF step
    <3>1. QED
      BY <1>3, <2>1, RecursionExists
  <2>3. ASSUME NEW n \in Nat, n # 0 PROVE step[<<f[n - 1], n>>] = mul_scaled(f[n - 1], u)
    <3>1. f[n - 1] \in Int
      BY <2>3
    <3>2. QED
      BY <3>1
  <2> HIDE DEF step
  <2>4. P(f)
    BY <2>2, <2>3 DEF Recursive
  <2>5. QED
    BY <2>4
<1>5. P(g)
  <2> HIDE DEF P
  <2>1. QED
    BY <1>4
<1> HIDE DEF g
<1>6. g[0] = HARD_WALL_SCALE
  BY <1>5
<1>7. ASSUME NEW n \in Nat PROVE g[n + 1] = mul_scaled(g[n], u)
  <2>1. n + 1 \in Nat /\ n + 1 # 0 /\ (n + 1) - 1 = n
    OBVIOUS
  <2>2. g[n + 1] = mul_scaled(g[(n + 1) - 1], u)
    BY <1>5, <2>1
  <2>3. QED
    BY <2>1, <2>2
<1> DEFINE N == {n \in Nat : g[n] \in Nat}
<1>8. 0 \in N
  BY <1>2, <1>6
<1>9. ASSUME NEW n \in Nat, n \in N PROVE n + 1 \in N
  <2>1. g[n] \in Nat
    BY <1>9
  <2>2. mul_scaled(g[n], u) \in Nat
    <3>1. g[n] <= g[n] /\ u <= u
      BY <2>1
    <3>2. QED
      BY <2>1, <3>1, MulScaled
  <2>3. QED
    BY <1>7, <2>2
<1>10. Nat \subseteq N
  <2> HIDE DEF N, P
  <2>1. QED
    BY <1>8, <1>9, NatClosed
<1>11. Powers(g, u)
  <2> HIDE DEF P
  <2>1. QED
    BY <1>6, <1>7, <1>10 DEF Powers
<1>12. QED
  BY <1>1, <1>11

\* An integer power grows with the utilization.
LEMMA IntegerPowerMonotone ==
    ASSUME NEW u \in Nat, NEW v \in Nat, u <= v, NEW e \in Nat
    PROVE  /\ integer_utilization_power_scaled(u, e) \in Nat
           /\ integer_utilization_power_scaled(v, e) \in Nat
           /\ integer_utilization_power_scaled(u, e) <= integer_utilization_power_scaled(v, e)
<1>1. PICK f : Powers(f, u) /\ \A n \in Nat : integer_utilization_power_scaled(u, n) = f[n]
  BY IntegerPower
<1>2. PICK g : Powers(g, v) /\ \A n \in Nat : integer_utilization_power_scaled(v, n) = g[n]
  BY IntegerPower
<1> DEFINE N == {n \in Nat : f[n] <= g[n]}
<1>3. 0 \in N
  BY <1>1, <1>2, CurveAssumption DEF Powers
<1>4. ASSUME NEW n \in Nat, n \in N PROVE n + 1 \in N
  <2>1. f[n] \in Nat /\ g[n] \in Nat /\ f[n] <= g[n]
    BY <1>1, <1>2, <1>4 DEF Powers
  <2>2. mul_scaled(f[n], u) <= mul_scaled(g[n], v)
    BY <2>1, MulScaled
  <2>3. QED
    BY <1>1, <1>2, <2>2 DEF Powers
<1>5. Nat \subseteq N
  <2> HIDE DEF N
  <2>1. QED
    BY <1>3, <1>4, NatClosed
<1>6. QED
  BY <1>1, <1>2, <1>5 DEF Powers

\* A power of 100% is 100%.
LEMMA IntegerPowerOfOne ==
    ASSUME NEW e \in Nat
    PROVE  integer_utilization_power_scaled(HARD_WALL_SCALE, e) = HARD_WALL_SCALE
<1>1. HARD_WALL_SCALE \in Nat \ {0}
  BY CurveAssumption
<1>2. PICK f : /\ Powers(f, HARD_WALL_SCALE)
               /\ \A n \in Nat : integer_utilization_power_scaled(HARD_WALL_SCALE, n) = f[n]
  BY <1>1, IntegerPower
<1> DEFINE N == {n \in Nat : f[n] = HARD_WALL_SCALE}
<1>3. 0 \in N
  BY <1>2 DEF Powers
<1>4. ASSUME NEW n \in Nat, n \in N PROVE n + 1 \in N
  <2>1. mul_scaled(HARD_WALL_SCALE, HARD_WALL_SCALE) = HARD_WALL_SCALE
    BY <1>1 DEF mul_scaled
  <2>2. QED
    BY <1>2, <1>4, <2>1 DEF Powers
<1>5. Nat \subseteq N
  <2> HIDE DEF N
  <2>1. QED
    BY <1>3, <1>4, NatClosed
<1>6. QED
  BY <1>2, <1>5

-----------------------------------------------------------------------------
(* The power of the utilization and the haircuts grow.                     *)

\* utilization_power_scaled takes 100% as a case of its own; the two ways to
\* compute a power agree with it.
LEMMA PowerOfOne ==
    ASSUME NEW e \in Nat
    PROVE  exp2_hard_wall_scaled_q(
               truncated_div((log2_integer_q(HARD_WALL_SCALE) - LOG2_HARD_WALL_SCALE_Q) * e,
                             CURVE_EXPONENT_SCALE)) = HARD_WALL_SCALE
<1> DEFINE l == log2_integer_q(HARD_WALL_SCALE)
<1>1. l \in Nat /\ l = LOG2_HARD_WALL_SCALE_Q /\ CURVE_EXPONENT_SCALE \in Nat \ {0}
  <2>1. HARD_WALL_SCALE \in Nat \ {0} /\ HARD_WALL_SCALE <= HARD_WALL_SCALE
    BY CurveAssumption
  <2>2. QED
    BY <2>1, CurveAssumption, CalibrationAssumption, LogMonotone
<1> HIDE DEF l
<1>2. (l - LOG2_HARD_WALL_SCALE_Q) * e = 0
  BY <1>1
<1>3. truncated_div(0, CURVE_EXPONENT_SCALE) = 0
  <2>1. 0 >= 0 /\ 0 \div CURVE_EXPONENT_SCALE = 0
    BY <1>1
  <2>2. QED
    BY <2>1 DEF truncated_div
<1>4. QED
  BY <1>2, <1>3, ExpOfZero DEF l

\* The approximated u^e rises with u, at every u and for every exponent.
LEMMA PowerMonotoneInU ==
    ASSUME NEW u \in Nat, NEW v \in Nat, u <= v, NEW e \in Nat
    PROVE  /\ utilization_power_scaled(u, e) \in Nat /\ utilization_power_scaled(v, e) \in Nat
           /\ utilization_power_scaled(u, e) <= utilization_power_scaled(v, e)
<1> DEFINE H    == HARD_WALL_SCALE
           S    == CURVE_EXPONENT_SCALE
           n    == e \div S
           l(x) == truncated_div((log2_integer_q(x) - LOG2_HARD_WALL_SCALE_Q) * e, S)
<1>1. H \in Nat \ {0} /\ S \in Nat \ {0} /\ LOG2_HARD_WALL_SCALE_Q \in Nat
  BY CurveAssumption
<1>2. n \in Nat
  BY <1>1, QuotientNat
<1>3. ASSUME NEW x \in Nat \ {0}
      PROVE  utilization_power_scaled(x, e)
               = IF e % S = 0 THEN integer_utilization_power_scaled(x, n)
                 ELSE exp2_hard_wall_scaled_q(l(x))
  <2>1. CASE x = H
    <3>1. utilization_power_scaled(x, e) = H
      BY <2>1 DEF utilization_power_scaled
    <3>2. integer_utilization_power_scaled(x, n) = H
      BY <1>2, <2>1, IntegerPowerOfOne
    <3>3. exp2_hard_wall_scaled_q(l(x)) = H
      BY <2>1, PowerOfOne
    <3> HIDE DEF l, n
    <3>4. QED
      BY <3>1, <3>2, <3>3
  <2>2. CASE x # H
    BY <2>2 DEF utilization_power_scaled
  <2>3. QED
    BY <2>1, <2>2
<1>4. utilization_power_scaled(0, e) = 0
  BY DEF utilization_power_scaled
<1>5. ASSUME NEW x \in Nat \ {0}, NEW y \in Nat \ {0}, x <= y
      PROVE  /\ utilization_power_scaled(x, e) \in Nat /\ utilization_power_scaled(y, e) \in Nat
             /\ utilization_power_scaled(x, e) <= utilization_power_scaled(y, e)
  <2>1. CASE e % S = 0
    <3> HIDE DEF n
    <3>1. /\ utilization_power_scaled(x, e) = integer_utilization_power_scaled(x, n)
          /\ utilization_power_scaled(y, e) = integer_utilization_power_scaled(y, n)
      BY <1>3, <2>1
    <3>2. QED
      BY <1>2, <1>5, <3>1, IntegerPowerMonotone
  <2>2. CASE ~(e % S = 0)
    <3>1. /\ utilization_power_scaled(x, e) = exp2_hard_wall_scaled_q(l(x))
          /\ utilization_power_scaled(y, e) = exp2_hard_wall_scaled_q(l(y))
      BY <1>3, <2>2
    <3>2. l(x) \in Int /\ l(y) \in Int /\ l(x) <= l(y)
      <4> DEFINE a == (log2_integer_q(x) - LOG2_HARD_WALL_SCALE_Q) * e
                 b == (log2_integer_q(y) - LOG2_HARD_WALL_SCALE_Q) * e
      <4>1. /\ log2_integer_q(x) \in Nat /\ log2_integer_q(y) \in Nat
            /\ log2_integer_q(x) <= log2_integer_q(y)
        BY <1>5, LogMonotone
      <4>2. a \in Int /\ b \in Int /\ a <= b
        <5>1. /\ log2_integer_q(x) - LOG2_HARD_WALL_SCALE_Q \in Int
              /\ log2_integer_q(y) - LOG2_HARD_WALL_SCALE_Q \in Int
              /\ log2_integer_q(x) - LOG2_HARD_WALL_SCALE_Q
                   <= log2_integer_q(y) - LOG2_HARD_WALL_SCALE_Q
          BY <1>1, <4>1
        <5>2. a \in Int /\ b \in Int
          BY <5>1
        <5>3. a <= b
          BY <5>1, ProductMonotone
        <5>4. QED
          BY <5>2, <5>3
      <4> HIDE DEF a, b
      <4>3. /\ truncated_div(a, S) \in Int /\ truncated_div(b, S) \in Int
            /\ truncated_div(a, S) <= truncated_div(b, S)
        BY <1>1, <4>2, TruncatedMonotone
      <4>4. QED
        BY <4>3 DEF a, b
    <3> HIDE DEF l
    <3>3. QED
      BY <3>1, <3>2, ExpMonotone
  <2>3. QED
    BY <2>1, <2>2
<1>6. CASE u = 0 /\ v = 0
  BY <1>4, <1>6
<1>7. CASE u = 0 /\ v # 0
  <2>1. v \in Nat \ {0} /\ v <= v
    BY <1>7
  <2>2. utilization_power_scaled(v, e) \in Nat
    BY <1>5, <2>1
  <2>3. QED
    BY <1>4, <1>7, <2>2
<1>8. CASE u # 0
  <2>1. u \in Nat \ {0} /\ v \in Nat \ {0}
    BY <1>8
  <2>2. QED
    BY <1>5, <2>1
<1>9. QED
  BY <1>6, <1>7, <1>8

\* redemption_haircut_scaled rises with u.
LEMMA CurveHaircutMonotone ==
    ASSUME NEW u \in Nat, NEW v \in Nat, u <= v, NEW peg \in Nat, NEW e \in Nat
    PROVE  /\ redemption_haircut_scaled(u, peg, e) \in Nat
           /\ redemption_haircut_scaled(v, peg, e) \in Nat
           /\ redemption_haircut_scaled(u, peg, e) <= redemption_haircut_scaled(v, peg, e)
<1> DEFINE p == (HARD_WALL_SCALE * peg) \div MAX_BASIS_POINTS
           x == utilization_power_scaled(u, e)
           y == utilization_power_scaled(v, e)
<1>1. p \in Nat
  BY CurveAssumption, ScaleAssumption, NatProduct, QuotientNat
<1>2. /\ redemption_haircut_scaled(u, peg, e) = IF p = 0 THEN 0 ELSE mul_scaled(p, x)
      /\ redemption_haircut_scaled(v, peg, e) = IF p = 0 THEN 0 ELSE mul_scaled(p, y)
  BY DEF redemption_haircut_scaled
<1>3. x \in Nat /\ y \in Nat /\ x <= y
  BY PowerMonotoneInU
<1> HIDE DEF p, x, y
<1>4. mul_scaled(p, x) \in Nat /\ mul_scaled(p, y) \in Nat /\ mul_scaled(p, x) <= mul_scaled(p, y)
  <2>1. p <= p
    BY <1>1
  <2>2. QED
    BY <1>1, <1>3, <2>1, MulScaled
<1>5. QED
  BY <1>2, <1>4

\* cadence_wave_target_haircut_scaled rises with u and with the wave.
LEMMA CadenceHaircutMonotone ==
    ASSUME NEW u \in Nat, NEW v \in Nat, u <= v, NEW low \in Nat, NEW high \in Nat, low <= high
    PROVE  /\ cadence_wave_target_haircut_scaled(u, low) \in Nat
           /\ cadence_wave_target_haircut_scaled(v, high) \in Nat
           /\ cadence_wave_target_haircut_scaled(u, low)
                <= cadence_wave_target_haircut_scaled(v, high)
<1> DEFINE H       == HARD_WALL_SCALE
           x       == min_of(u, H)
           y       == min_of(v, H)
           base(w) == w * CADENCE_WAVE_EASE + H - w
           rise(w) == (w * CADENCE_WAVE_EASE * H) \div base(w)
           unit    == CADENCE_WAVE_SCALE * CADENCE_WAVE_CAP_DIVISOR
<1>1. /\ cadence_wave_target_haircut_scaled(u, low) = min_of((rise(x) * low) \div unit, H)
      /\ cadence_wave_target_haircut_scaled(v, high) = min_of((rise(y) * high) \div unit, H)
  BY DEF cadence_wave_target_haircut_scaled
<1>2. H \in Nat \ {0} /\ unit \in Nat \ {0}
  BY CurveAssumption DEF CADENCE_WAVE_CAP_DIVISOR
<1>3. x \in Nat /\ x <= H /\ y \in Nat /\ y <= H /\ x <= y
  BY <1>2 DEF min_of
<1> HIDE DEF x, y, unit, H
<1>4. ASSUME NEW w \in Nat, w <= H
      PROVE  base(w) = 7 * w + H /\ base(w) \in Nat \ {0} /\ w * CADENCE_WAVE_EASE = 8 * w
  BY <1>2, <1>4 DEF CADENCE_WAVE_EASE
<1>5. rise(x) \in Nat /\ rise(y) \in Nat /\ rise(x) <= rise(y)
  <2> DEFINE a == 8 * x * H
             b == 7 * x + H
             c == 8 * y * H
             d == 7 * y + H
  <2>1. a \in Nat /\ c \in Nat /\ b \in Nat \ {0} /\ d \in Nat \ {0}
    BY <1>2, <1>3, NatProduct
  <2>2. rise(x) = a \div b /\ rise(y) = c \div d
    BY <1>3, <1>4
  <2>3. a * d <= c * b
    <3> DEFINE m == x * H
               n == y * H
    <3>1. m \in Nat /\ n \in Nat /\ m <= n /\ a = 8 * m /\ c = 8 * n /\ m * y = n * x
      BY <1>2, <1>3, NatProduct, ProductMonotone
    <3>2. m * H <= n * H /\ m * H \in Nat /\ n * H \in Nat /\ m * y \in Nat
      BY <1>2, <1>3, <3>1, NatProduct, ProductMonotone
    <3>3. a * d = 56 * (m * y) + 8 * (m * H) /\ c * b = 56 * (n * x) + 8 * (n * H)
      <4> HIDE DEF m, n
      <4>1. (8 * m) * (7 * y + H) = 56 * (m * y) + 8 * (m * H)
        BY <1>2, <1>3, <3>1
      <4>2. (8 * n) * (7 * x + H) = 56 * (n * x) + 8 * (n * H)
        BY <1>2, <1>3, <3>1
      <4>3. QED
        BY <3>1, <4>1, <4>2
    <3> HIDE DEF m, n, a, b, c, d
    <3>4. QED
      BY <3>1, <3>2, <3>3
  <2> HIDE DEF a, b, c, d
  <2>4. a \div b <= c \div d /\ a \div b \in Nat /\ c \div d \in Nat
    BY <2>1, <2>3, QuotientCross, QuotientNat
  <2>5. QED
    BY <2>2, <2>4
<1> HIDE DEF rise
<1> DEFINE r == rise(x) * low
           s == rise(y) * high
<1>6. r \in Nat /\ s \in Nat /\ r <= s
  BY <1>5, NatProduct, ProductsMonotone
<1> HIDE DEF r, s
<1>7. r \div unit \in Nat /\ s \div unit \in Nat /\ r \div unit <= s \div unit
  BY <1>2, <1>6, QuotientNat, QuotientMonotone
<1>8. min_of(r \div unit, H) \in Nat /\ min_of(s \div unit, H) \in Nat
      /\ min_of(r \div unit, H) <= min_of(s \div unit, H)
  BY <1>2, <1>7 DEF min_of
<1>9. QED
  BY <1>1, <1>8 DEF r, s

-----------------------------------------------------------------------------
(* What a sell is paid falls as pressure grows.                            *)

\* dynamic_wall_position is positive, rises with the liquidity and falls with
\* the volume.
LEMMA WallMonotone ==
    ASSUME NEW liquidity \in Nat \ {0}, NEW more \in Nat \ {0}, liquidity <= more,
           NEW volume \in Nat, NEW less \in Nat, less <= volume, NEW sensitivity \in Nat
    PROVE  /\ dynamic_wall_position(liquidity, volume, sensitivity) \in Nat \ {0}
           /\ dynamic_wall_position(more, less, sensitivity) \in Nat \ {0}
           /\ dynamic_wall_position(liquidity, volume, sensitivity)
                <= dynamic_wall_position(more, less, sensitivity)
<1> DEFINE W    == WALL_SENSITIVITY_SCALE
           a    == (sensitivity * volume) \div liquidity
           b    == (sensitivity * less) \div more
           wall == (liquidity * W) \div (W + a)
           rest == (more * W) \div (W + b)
<1>1. W \in Nat \ {0}
  BY CurveAssumption
<1>2. /\ dynamic_wall_position(liquidity, volume, sensitivity)
           = IF volume = 0 THEN liquidity ELSE max_of(1, wall)
      /\ dynamic_wall_position(more, less, sensitivity)
           = IF less = 0 THEN more ELSE max_of(1, rest)
  BY DEF dynamic_wall_position
<1>3. a \in Nat /\ b \in Nat /\ b <= a
  <2> DEFINE x == sensitivity * volume
             y == sensitivity * less
  <2>1. x \in Nat /\ y \in Nat /\ y <= x
    <3>1. less * sensitivity <= volume * sensitivity
      BY ProductMonotone
    <3>2. QED
      BY <3>1, NatProduct
  <2> HIDE DEF x, y
  <2>2. y \div more <= x \div more /\ x \div more <= x \div liquidity
    <3>1. y \div more <= x \div more
      BY <2>1, QuotientMonotone
    <3>2. x \div more <= x \div liquidity
      BY <2>1, QuotientAntitone
    <3>3. QED
      BY <3>1, <3>2
  <2>3. y \div more \in Nat /\ x \div more \in Nat /\ x \div liquidity \in Nat
    BY <2>1, QuotientNat
  <2>4. y \div more <= x \div liquidity
    BY <2>2, <2>3
  <2>5. QED
    BY <2>3, <2>4 DEF x, y
<1> HIDE DEF a, b
<1>4. wall \in Nat /\ rest \in Nat /\ wall <= rest
  <2> DEFINE x == liquidity * W
             y == more * W
             c == W + a
             d == W + b
  <2>1. x \in Nat /\ y \in Nat /\ x <= y
    BY <1>1, NatProduct, ProductMonotone
  <2>2. c \in Nat \ {0} /\ d \in Nat \ {0} /\ d <= c
    BY <1>1, <1>3
  <2> HIDE DEF x, y, c, d
  <2>3. x \div c <= y \div c /\ y \div c <= y \div d
    <3>1. x \div c <= y \div c
      BY <2>1, <2>2, QuotientMonotone
    <3>2. y \div c <= y \div d
      BY <2>1, <2>2, QuotientAntitone
    <3>3. QED
      BY <3>1, <3>2
  <2>4. x \div c \in Nat /\ y \div c \in Nat /\ y \div d \in Nat
    BY <2>1, <2>2, QuotientNat
  <2>5. x \div c <= y \div d
    BY <2>3, <2>4
  <2>6. QED
    BY <2>4, <2>5 DEF x, y, c, d
<1>5. wall <= liquidity
  <2>1. W <= W + a /\ W + a \in Nat \ {0}
    BY <1>1, <1>3
  <2>2. QED
    BY <1>1, <2>1, ShareOfAmount
<1> HIDE DEF wall, rest
<1>6. QED
  BY <1>2, <1>4, <1>5 DEF max_of

\* The wave rises with the sells counted.
LEMMA WaveMonotone ==
    ASSUME NEW p \in PairState, NEW q \in PairState, p.config = q.config,
           NEW now, NEW later,
           preview_current_sell_trade_count(q, later) \in Nat,
           preview_current_sell_trade_count(p, now) \in Nat,
           preview_current_sell_trade_count(q, later) <= preview_current_sell_trade_count(p, now)
    PROVE  /\ cadence_wave_y_for_quote_scaled(p, now) \in Nat
           /\ cadence_wave_y_for_quote_scaled(q, later) \in Nat
           /\ cadence_wave_y_for_quote_scaled(q, later) <= cadence_wave_y_for_quote_scaled(p, now)
<1> DEFINE m         == preview_current_sell_trade_count(p, now)
           n         == preview_current_sell_trade_count(q, later)
           threshold == p.config.cadence_threshold
           wave      == p.config.cadence_wave_scaled
           S         == CADENCE_WAVE_SCALE
           ramp(c)   == IF c >= threshold THEN S ELSE (c * S) \div threshold
<1>1. threshold \in Nat /\ wave \in Nat
  BY DEF PairState, PairConfig
<1>2. /\ cadence_wave_y_for_quote_scaled(p, now) = (wave * ramp(m)) \div S
      /\ cadence_wave_y_for_quote_scaled(q, later) = (wave * ramp(n)) \div S
  BY DEF cadence_wave_y_for_quote_scaled
<1>3. S \in Nat \ {0} /\ m \in Nat /\ n \in Nat /\ n <= m
  BY CurveAssumption
<1> HIDE DEF m, n, threshold, wave, S
<1>4. ramp(m) \in Nat /\ ramp(n) \in Nat /\ ramp(n) <= ramp(m)
  <2>1. ASSUME NEW c \in Nat, c < threshold
        PROVE  (c * S) \div threshold \in Nat /\ (c * S) \div threshold <= S
    <3>1. threshold \in Nat \ {0} /\ c <= threshold
      BY <1>1, <2>1
    <3>2. (S * c) \div threshold \in Nat /\ (S * c) \div threshold <= S
      BY <1>3, <3>1, ShareOfAmount
    <3>3. S * c = c * S
      BY <1>3
    <3>4. QED
      BY <3>2, <3>3
  <2>2. CASE m < threshold
    <3>1. n < threshold /\ threshold \in Nat \ {0}
      BY <1>1, <1>3, <2>2
    <3>2. n * S <= m * S /\ n * S \in Int /\ m * S \in Int
      BY <1>3, ProductMonotone
    <3>3. (n * S) \div threshold <= (m * S) \div threshold
      BY <3>1, <3>2, QuotientMonotone
    <3>4. ramp(m) = (m * S) \div threshold /\ ramp(n) = (n * S) \div threshold
      BY <1>1, <1>3, <2>2, <3>1
    <3>5. (m * S) \div threshold \in Nat /\ (n * S) \div threshold \in Nat
      BY <1>3, <2>1, <2>2, <3>1
    <3> HIDE DEF ramp
    <3>6. QED
      BY <3>3, <3>4, <3>5
  <2>3. CASE m >= threshold /\ n < threshold
    BY <1>1, <1>3, <2>1, <2>3
  <2>4. CASE m >= threshold /\ n >= threshold
    BY <1>3, <2>4
  <2>5. QED
    BY <1>1, <1>3, <2>2, <2>3, <2>4
<1> HIDE DEF ramp
<1>5. /\ wave * ramp(m) \in Nat /\ wave * ramp(n) \in Nat /\ wave * ramp(n) <= wave * ramp(m)
  <2>1. ramp(n) * wave <= ramp(m) * wave
    BY <1>1, <1>4, ProductMonotone
  <2>2. QED
    BY <1>1, <1>4, <2>1, NatProduct
<1> DEFINE x == wave * ramp(m)
           y == wave * ramp(n)
<1>6. x \in Nat /\ y \in Nat /\ y <= x
  BY <1>5
<1> HIDE DEF x, y
<1>7. x \div S \in Nat /\ y \div S \in Nat /\ y \div S <= x \div S
  BY <1>3, <1>6, QuotientNat, QuotientMonotone
<1>8. QED
  BY <1>2, <1>7 DEF x, y

\* What a sell pays is a share of its raw value, and it is paid at least as
\* much against a deeper vault, under less pressure and after fewer sells
\* (apply_hard_wall_liquidity_factor_at_time).
LEMMA PayoutMonotone ==
    ASSUME NEW raw \in Nat, NEW liquidity \in Nat \ {0}, NEW more \in Nat \ {0},
           liquidity <= more, NEW reserve \in Nat \ {0}, NEW deeper \in Nat \ {0},
           reserve <= deeper, NEW p \in PairState, NEW q \in PairState, p.config = q.config,
           NEW now, NEW later,
           preview_effective_sell_volume(q, raw, later) \in Nat,
           preview_effective_sell_volume(p, raw, now) \in Nat,
           preview_effective_sell_volume(q, raw, later) <= preview_effective_sell_volume(p, raw, now),
           preview_current_sell_trade_count(q, later) \in Nat,
           preview_current_sell_trade_count(p, now) \in Nat,
           preview_current_sell_trade_count(q, later) <= preview_current_sell_trade_count(p, now)
    PROVE  /\ apply_hard_wall_liquidity_factor(raw, liquidity, reserve, p, now) \in Nat
           /\ apply_hard_wall_liquidity_factor(raw, liquidity, reserve, p, now) <= raw
           /\ apply_hard_wall_liquidity_factor(raw, liquidity, reserve, p, now)
                <= apply_hard_wall_liquidity_factor(raw, more, deeper, q, later)
<1> DEFINE H    == HARD_WALL_SCALE
           s    == p.config.wall_sensitivity_scaled
           peg  == p.config.curve_peg_haircut_bps
           e    == p.config.curve_exponent_scaled
           wall == dynamic_wall_position(liquidity, preview_effective_sell_volume(p, raw, now), s)
           rest == dynamic_wall_position(more, preview_effective_sell_volume(q, raw, later), s)
           d    == min_of(wall, reserve)
           c    == min_of(rest, deeper)
           u    == (raw * H) \div c
           v    == (raw * H) \div d
           x    == cadence_wave_y_for_quote_scaled(q, later)
           y    == cadence_wave_y_for_quote_scaled(p, now)
           hair(w, z) == max_of(redemption_haircut_scaled(w, peg, e),
                                cadence_wave_target_haircut_scaled(w, z))
           kept(h) == saturating_sub(H, h)
<1>1. /\ apply_hard_wall_liquidity_factor(raw, liquidity, reserve, p, now)
           = (raw * kept(hair(v, y))) \div H
      /\ apply_hard_wall_liquidity_factor(raw, more, deeper, q, later)
           = (raw * kept(hair(u, x))) \div H
  BY DEF apply_hard_wall_liquidity_factor, sell_haircut, dynamic_wall_liquidity
<1>2. s \in Nat /\ peg \in Nat /\ e \in Nat
  BY DEF PairState, PairConfig
<1>3. H \in Nat \ {0}
  BY CurveAssumption
<1>4. wall \in Nat \ {0} /\ rest \in Nat \ {0} /\ wall <= rest
  BY <1>2, WallMonotone
<1>5. x \in Nat /\ y \in Nat /\ x <= y
  BY WaveMonotone
<1> HIDE DEF s, peg, e, wall, rest, x, y, H
<1>6. d \in Nat \ {0} /\ c \in Nat \ {0} /\ d <= c
  BY <1>4 DEF min_of
<1> HIDE DEF c, d
<1>7. u \in Nat /\ v \in Nat /\ u <= v
  <2>1. raw * H \in Nat
    BY <1>3, NatProduct
  <2>2. QED
    BY <1>6, <2>1, QuotientNat, QuotientAntitone
<1> HIDE DEF u, v
<1>8. /\ redemption_haircut_scaled(u, peg, e) \in Nat
      /\ redemption_haircut_scaled(v, peg, e) \in Nat
      /\ redemption_haircut_scaled(u, peg, e) <= redemption_haircut_scaled(v, peg, e)
  BY <1>2, <1>7, CurveHaircutMonotone
<1>9. /\ cadence_wave_target_haircut_scaled(u, x) \in Nat
      /\ cadence_wave_target_haircut_scaled(v, y) \in Nat
      /\ cadence_wave_target_haircut_scaled(u, x) <= cadence_wave_target_haircut_scaled(v, y)
  BY <1>5, <1>7, CadenceHaircutMonotone
<1>10. hair(u, x) \in Nat /\ hair(v, y) \in Nat /\ hair(u, x) <= hair(v, y)
  BY <1>8, <1>9 DEF max_of
<1> DEFINE a == kept(hair(v, y))
           b == kept(hair(u, x))
<1>11. a \in Nat /\ b \in Nat /\ a <= b /\ a <= H /\ b <= H
  <2> HIDE DEF hair
  <2>1. QED
    BY <1>3, <1>10 DEF saturating_sub
<1> HIDE DEF a, b
<1>12. (raw * a) \div H \in Nat /\ (raw * a) \div H <= raw
  BY <1>3, <1>11, ShareOfAmount
<1>13. (raw * a) \div H <= (raw * b) \div H
  <2>1. a * raw <= b * raw
    BY <1>11, ProductMonotone
  <2>2. raw * a <= raw * b /\ raw * a \in Int /\ raw * b \in Int
    BY <1>11, <2>1
  <2>3. QED
    BY <1>3, <2>2, QuotientMonotone
<1>14. QED
  BY <1>1, <1>12, <1>13 DEF a, b

\* apply_hard_wall_liquidity_factor_at_time: whatever the powers of the curve
\* round to, a sell that has a price pays at most its raw value.
LEMMA SellPaysAtMostRaw ==
    ASSUME NEW raw \in Nat, NEW liquidity \in Nat, NEW reserve \in Nat, NEW p \in PairState,
           NEW now \in Nat, can_apply_hard_wall(raw, liquidity, reserve, p, now)
    PROVE  /\ apply_hard_wall_liquidity_factor(raw, liquidity, reserve, p, now) \in Nat
           /\ apply_hard_wall_liquidity_factor(raw, liquidity, reserve, p, now) <= raw
<1>1. /\ liquidity \in Nat \ {0} /\ reserve \in Nat \ {0}
      /\ preview_effective_sell_volume(p, raw, now) \in Nat
  BY ScaleAssumption DEF can_apply_hard_wall, Fits, U64
<1>2. preview_current_sell_trade_count(p, now) \in Nat
  BY CurveAssumption DEF PairState, preview_current_sell_trade_count
<1>3. /\ liquidity <= liquidity /\ reserve <= reserve /\ p.config = p.config
      /\ preview_effective_sell_volume(p, raw, now) <= preview_effective_sell_volume(p, raw, now)
      /\ preview_current_sell_trade_count(p, now) <= preview_current_sell_trade_count(p, now)
  BY <1>1, <1>2
<1>4. QED
  BY <1>1, <1>2, <1>3, PayoutMonotone

-----------------------------------------------------------------------------
(* The pressure a pair remembers.                                          *)

\* A recorded value of the epoch, what is left of the previous epoch's.
Carried(p, now) ==
    (p.prev_net_sell_value_stable * (p.config.epoch_duration_seconds - (now - p.epoch_start)))
        \div p.config.epoch_duration_seconds

\* The counters of a pair are naturals.
LEMMA PairTyped ==
    ASSUME NEW p \in PairState
    PROVE  /\ p.prev_net_sell_value_stable \in Nat /\ p.curr_sell_value_stable \in Nat
           /\ p.curr_buy_value_stable \in Nat /\ p.curr_sell_trade_count \in Nat
           /\ p.epoch_start \in Nat /\ p.config.epoch_duration_seconds \in Nat
           /\ current_net(p) \in Nat
<1>1. /\ p.prev_net_sell_value_stable \in Nat /\ p.curr_sell_value_stable \in Nat
      /\ p.curr_buy_value_stable \in Nat /\ p.curr_sell_trade_count \in Nat
      /\ p.epoch_start \in Nat /\ p.config.epoch_duration_seconds \in Nat
  BY ScaleAssumption, CurveAssumption DEF PairState, PairConfig, U64
<1>2. current_net(p) \in Nat
  BY <1>1 DEF current_net, saturating_sub
<1>3. QED
  BY <1>1, <1>2

\* The epoch of the tracker goes on: a positive time of it is left.
LEMMA CarriedNat ==
    ASSUME NEW p \in PairState, NEW now \in Nat, ~tracker_expired(p, now), ~epoch_over(p, now)
    PROVE  /\ p.config.epoch_duration_seconds \in Nat \ {0}
           /\ p.config.epoch_duration_seconds - (now - p.epoch_start) \in Nat
           /\ p.prev_net_sell_value_stable
                * (p.config.epoch_duration_seconds - (now - p.epoch_start)) \in Nat
           /\ Carried(p, now) \in Nat
<1> DEFINE d == p.config.epoch_duration_seconds
           r == d - (now - p.epoch_start)
           v == p.prev_net_sell_value_stable
<1>1. d \in Nat /\ v \in Nat /\ p.epoch_start \in Nat
  BY PairTyped
<1>2. p.epoch_start <= now /\ ~(now - p.epoch_start >= d)
  BY <1>1 DEF tracker_expired, epoch_over
<1>3. Carried(p, now) = (v * r) \div d
  BY DEF Carried
<1>4. d \in Nat \ {0} /\ r \in Nat
  BY <1>1, <1>2
<1> HIDE DEF d, r, v
<1>5. v * r \in Nat
  BY <1>1, <1>4, NatProduct
<1>6. (v * r) \div d \in Nat
  BY <1>4, <1>5, QuotientNat
<1>7. QED
  BY <1>3, <1>4, <1>5, <1>6 DEF d, r, v

\* preview_effective_sell_volume, case by case.
LEMMA VolumeIs ==
    ASSUME NEW p, NEW value, NEW now
    PROVE  preview_effective_sell_volume(p, value, now)
             = IF tracker_expired(p, now) THEN value
               ELSE IF epoch_over(p, now) THEN current_net(p) + value
               ELSE Carried(p, now) + current_net(p) + value
  BY DEF preview_effective_sell_volume, Carried

\* The pressure and the sells a quote sees are numbers.
LEMMA PressureTyped ==
    ASSUME NEW p \in PairState, NEW value \in Nat, NEW now \in Nat
    PROVE  /\ preview_effective_sell_volume(p, value, now) \in Nat
           /\ preview_current_sell_trade_count(p, now) \in Nat
<1>1. current_net(p) \in Nat /\ p.curr_sell_trade_count \in Nat
  BY PairTyped
<1>2. preview_current_sell_trade_count(p, now) \in Nat
  BY <1>1 DEF preview_current_sell_trade_count
<1>3. ~tracker_expired(p, now) /\ ~epoch_over(p, now) => Carried(p, now) \in Nat
  BY CarriedNat
<1>4. preview_effective_sell_volume(p, value, now) \in Nat
  BY <1>1, <1>3, VolumeIs
<1>5. QED
  BY <1>2, <1>4

\* Pressure and count only fall while no one trades.
LEMMA WaitingRelieves ==
    ASSUME NEW p \in PairState, NEW value \in Nat, NEW now \in Nat, NEW later \in Nat,
           p.epoch_start <= now, now <= later
    PROVE  /\ preview_effective_sell_volume(p, value, later)
                <= preview_effective_sell_volume(p, value, now)
           /\ preview_current_sell_trade_count(p, later)
                <= preview_current_sell_trade_count(p, now)
<1> DEFINE d == p.config.epoch_duration_seconds
           v == p.prev_net_sell_value_stable
           n == current_net(p)
           s == p.epoch_start
<1>1. d \in Nat /\ v \in Nat /\ n \in Nat /\ s \in Nat /\ p.curr_sell_trade_count \in Nat
  BY PairTyped
<1>2. epoch_over(p, now) => epoch_over(p, later)
  BY <1>1 DEF epoch_over
<1>3. tracker_expired(p, now) => tracker_expired(p, later)
  BY <1>1 DEF tracker_expired
<1>4. preview_current_sell_trade_count(p, later) <= preview_current_sell_trade_count(p, now)
  <2>1. ~(now < p.epoch_start) /\ ~(later < p.epoch_start)
    BY <1>1
  <2>2. QED
    BY <1>1, <1>2, <2>1 DEF preview_current_sell_trade_count
<1>5. ASSUME ~tracker_expired(p, later), ~epoch_over(p, later)
      PROVE  Carried(p, later) \in Nat /\ Carried(p, now) \in Nat /\ Carried(p, later) <= Carried(p, now)
  <2>1. ~tracker_expired(p, now) /\ ~epoch_over(p, now)
    BY <1>2, <1>3, <1>5
  <2> DEFINE a == d - (later - s)
             b == d - (now - s)
  <2>2. d \in Nat \ {0} /\ a \in Nat /\ Carried(p, later) \in Nat
    BY <1>5, CarriedNat
  <2>3. b \in Nat /\ Carried(p, now) \in Nat
    BY <2>1, CarriedNat
  <2>4. Carried(p, later) = (v * a) \div d /\ Carried(p, now) = (v * b) \div d
    BY DEF Carried
  <2>5. a <= b
    BY <1>1
  <2> HIDE DEF a, b, d, v
  <2>6. a * v <= b * v
    BY <1>1, <2>2, <2>3, <2>5, ProductMonotone
  <2>7. v * a <= v * b /\ v * a \in Int /\ v * b \in Int
    BY <1>1, <2>2, <2>3, <2>6
  <2>8. (v * a) \div d <= (v * b) \div d
    BY <2>2, <2>7, QuotientMonotone
  <2>9. QED
    BY <2>2, <2>3, <2>4, <2>8
<1>6. ~tracker_expired(p, now) /\ ~epoch_over(p, now) => Carried(p, now) \in Nat
  BY CarriedNat
<1> HIDE DEF d, v, s
<1>7. preview_effective_sell_volume(p, value, later) <= preview_effective_sell_volume(p, value, now)
  <2>1. CASE tracker_expired(p, later)
    BY <1>1, <1>6, <2>1, VolumeIs
  <2>2. CASE ~tracker_expired(p, later) /\ epoch_over(p, later)
    BY <1>1, <1>3, <1>6, <2>2, VolumeIs
  <2>3. CASE ~tracker_expired(p, later) /\ ~epoch_over(p, later)
    <3>1. ~tracker_expired(p, now) /\ ~epoch_over(p, now)
      BY <1>2, <1>3, <2>3
    <3>2. QED
      BY <1>1, <1>5, <2>3, <3>1, VolumeIs
  <2>4. QED
    BY <2>1, <2>2, <2>3
<1>8. QED
  BY <1>4, <1>7

\* The start of a new epoch with this pressure (roll_prop_amm_volume_tracker).
Restarted(p, prev, now) ==
    [p EXCEPT !.prev_net_sell_value_stable = prev,
              !.curr_sell_value_stable = 0, !.curr_buy_value_stable = 0,
              !.curr_sell_trade_count = 0, !.epoch_start = now]

\* A pair that has just started an epoch carries what it was given.
LEMMA RestartedIs ==
    ASSUME NEW p \in PairState, NEW prev \in U64, NEW now \in Nat \ {0}, NEW value \in Nat
    PROVE  /\ Restarted(p, prev, now) \in PairState
           /\ Restarted(p, prev, now).config = p.config
           /\ preview_current_sell_trade_count(Restarted(p, prev, now), now) = 0
           /\ p.config.epoch_duration_seconds = 0 =>
                preview_effective_sell_volume(Restarted(p, prev, now), value, now) = value
           /\ p.config.epoch_duration_seconds # 0 =>
                preview_effective_sell_volume(Restarted(p, prev, now), value, now) = prev + value
<1> DEFINE r == Restarted(p, prev, now)
           d == p.config.epoch_duration_seconds
<1>1. 0 \in U64 /\ 0 \in 0..U32_MAX /\ prev \in Nat
  BY ScaleAssumption, CurveAssumption DEF U64
<1>2. r \in PairState
  BY <1>1 DEF PairState, Restarted
<1>3. /\ r.config = p.config /\ r.prev_net_sell_value_stable = prev
      /\ r.curr_sell_value_stable = 0 /\ r.curr_buy_value_stable = 0
      /\ r.curr_sell_trade_count = 0 /\ r.epoch_start = now
  BY DEF PairState, Restarted
<1> HIDE DEF r
<1>4. d \in Nat
  BY PairTyped
<1>5. preview_current_sell_trade_count(r, now) = 0
  BY <1>3 DEF preview_current_sell_trade_count
<1>6. current_net(r) = 0
  BY <1>3 DEF current_net, saturating_sub
<1>7. now - r.epoch_start = 0
  BY <1>3
<1>8. (tracker_expired(r, now) <=> d = 0) /\ (epoch_over(r, now) <=> d = 0)
  <2>1. r.epoch_start # 0 /\ ~(now < r.epoch_start)
    BY <1>3
  <2>2. (now - r.epoch_start >= 2 * r.config.epoch_duration_seconds) <=> d = 0
    BY <1>3, <1>4, <1>7
  <2>3. (now - r.epoch_start >= r.config.epoch_duration_seconds) <=> d = 0
    BY <1>3, <1>4, <1>7
  <2>4. QED
    BY <2>1, <2>2, <2>3 DEF tracker_expired, epoch_over
<1>9. ASSUME d # 0 PROVE Carried(r, now) = prev
  <2>1. d \in Nat \ {0} /\ d - (now - r.epoch_start) = d
    BY <1>4, <1>7, <1>9
  <2>2. Carried(r, now) = (prev * d) \div d
    BY <1>3, <2>1 DEF Carried
  <2> HIDE DEF d
  <2>3. (prev * d) \div d = prev
    BY <1>1, <2>1
  <2>4. QED
    BY <2>2, <2>3
<1>10. d = 0 => preview_effective_sell_volume(r, value, now) = value
  BY <1>8, VolumeIs
<1>11. ASSUME d # 0 PROVE preview_effective_sell_volume(r, value, now) = prev + value
  <2>1. preview_effective_sell_volume(r, value, now) = prev + 0 + value
    BY <1>6, <1>8, <1>9, <1>11, VolumeIs
  <2>2. QED
    BY <1>1, <2>1
<1>12. QED
  BY <1>2, <1>3, <1>5, <1>10, <1>11 DEF r

\* Rolling the tracker changes neither the pressure nor the count that a quote
\* at the same time sees: what a preview assumes is what a trade then does.
LEMMA RollKeepsPressure ==
    ASSUME NEW p \in PairState, NEW now \in Nat \ {0}, NEW value \in Nat
    PROVE  /\ roll_prop_amm_volume_tracker(p, now) \in PairState
           /\ roll_prop_amm_volume_tracker(p, now).config = p.config
           /\ preview_effective_sell_volume(roll_prop_amm_volume_tracker(p, now), value, now)
                = preview_effective_sell_volume(p, value, now)
           /\ preview_current_sell_trade_count(roll_prop_amm_volume_tracker(p, now), now)
                = preview_current_sell_trade_count(p, now)
<1> DEFINE d == p.config.epoch_duration_seconds
           n == current_net(p)
<1>1. /\ d \in Nat /\ n \in Nat /\ p.epoch_start \in Nat
  BY PairTyped
<1>2. n \in U64 /\ 0 \in U64
  BY ScaleAssumption, <1>1 DEF current_net, saturating_sub, PairState, U64
<1>3. roll_prop_amm_volume_tracker(p, now)
        = IF tracker_expired(p, now) THEN Restarted(p, 0, now)
          ELSE IF epoch_over(p, now) THEN Restarted(p, n, now) ELSE p
  BY DEF roll_prop_amm_volume_tracker, Restarted
<1>4. CASE tracker_expired(p, now)
  <2>1. roll_prop_amm_volume_tracker(p, now) = Restarted(p, 0, now)
    BY <1>3, <1>4
  <2>2. preview_effective_sell_volume(p, value, now) = value
    BY <1>4, VolumeIs
  <2>3. preview_current_sell_trade_count(p, now) = 0
    <3>1. now - p.epoch_start >= 2 * d => now - p.epoch_start >= d
      BY <1>1
    <3>2. QED
      BY <1>4, <3>1 DEF tracker_expired, epoch_over, preview_current_sell_trade_count
  <2>4. /\ Restarted(p, 0, now) \in PairState
        /\ Restarted(p, 0, now).config = p.config
        /\ preview_current_sell_trade_count(Restarted(p, 0, now), now) = 0
        /\ d = 0 => preview_effective_sell_volume(Restarted(p, 0, now), value, now) = value
        /\ d # 0 => preview_effective_sell_volume(Restarted(p, 0, now), value, now) = 0 + value
    BY <1>2, RestartedIs
  <2>5. 0 + value = value
    OBVIOUS
  <2>6. QED
    BY <2>1, <2>2, <2>3, <2>4, <2>5
<1>5. CASE ~tracker_expired(p, now) /\ epoch_over(p, now)
  <2>1. roll_prop_amm_volume_tracker(p, now) = Restarted(p, n, now)
    BY <1>3, <1>5
  <2>2. preview_effective_sell_volume(p, value, now) = n + value
    BY <1>5, VolumeIs
  <2>3. preview_current_sell_trade_count(p, now) = 0
    BY <1>5 DEF preview_current_sell_trade_count
  <2>4. d # 0
    BY <1>1, <1>5 DEF tracker_expired, epoch_over
  <2>5. /\ Restarted(p, n, now) \in PairState
        /\ Restarted(p, n, now).config = p.config
        /\ preview_current_sell_trade_count(Restarted(p, n, now), now) = 0
        /\ d # 0 => preview_effective_sell_volume(Restarted(p, n, now), value, now) = n + value
    BY <1>2, RestartedIs
  <2>6. QED
    BY <2>1, <2>2, <2>3, <2>4, <2>5
<1>6. CASE ~tracker_expired(p, now) /\ ~epoch_over(p, now)
  BY <1>3, <1>6
<1>7. QED
  BY <1>4, <1>5, <1>6

\* A recorded sell adds pressure and counts, a recorded buy relieves.
LEMMA TradesMovePressure ==
    ASSUME NEW p \in PairState, NEW now \in Nat \ {0}, NEW value \in Nat, NEW traded \in Nat
    PROVE  /\ can_record_sell(p, traded, now) =>
                LET r == record_prop_amm_sell(p, traded, now)
                IN  /\ r \in PairState /\ r.config = p.config
                    /\ preview_effective_sell_volume(p, value, now)
                         <= preview_effective_sell_volume(r, value, now)
                    /\ preview_current_sell_trade_count(p, now)
                         <= preview_current_sell_trade_count(r, now)
           /\ can_record_buy(p, traded, now) =>
                LET r == record_prop_amm_buy(p, traded, now)
                IN  /\ r \in PairState /\ r.config = p.config
                    /\ preview_effective_sell_volume(r, value, now)
                         <= preview_effective_sell_volume(p, value, now)
                    /\ preview_current_sell_trade_count(r, now)
                         <= preview_current_sell_trade_count(p, now)
<1> DEFINE q == roll_prop_amm_volume_tracker(p, now)
<1>1. /\ q \in PairState /\ q.config = p.config
      /\ preview_effective_sell_volume(q, value, now) = preview_effective_sell_volume(p, value, now)
      /\ preview_current_sell_trade_count(q, now) = preview_current_sell_trade_count(p, now)
  BY RollKeepsPressure
<1>2. record_prop_amm_sell(p, traded, now)
        = [q EXCEPT !.curr_sell_value_stable = @ + traded, !.curr_sell_trade_count = @ + 1]
  BY DEF record_prop_amm_sell
<1>3. record_prop_amm_buy(p, traded, now) = [q EXCEPT !.curr_buy_value_stable = @ + traded]
  BY DEF record_prop_amm_buy
<1>4. /\ can_record_sell(p, traded, now) => /\ Fits(q.curr_sell_value_stable + traded)
                                            /\ q.curr_sell_trade_count < U32_MAX
      /\ can_record_buy(p, traded, now) => Fits(q.curr_buy_value_stable + traded)
  BY DEF can_record_sell, can_record_buy
<1> HIDE DEF q
\* Two pairs in the same epoch compare by their net sells and their counts.
<1>5. ASSUME NEW a \in PairState, NEW b \in PairState, a.config = b.config,
             a.epoch_start = b.epoch_start,
             a.prev_net_sell_value_stable = b.prev_net_sell_value_stable,
             current_net(a) <= current_net(b),
             a.curr_sell_trade_count <= b.curr_sell_trade_count
      PROVE  /\ preview_effective_sell_volume(a, value, now)
                  <= preview_effective_sell_volume(b, value, now)
             /\ preview_current_sell_trade_count(a, now) <= preview_current_sell_trade_count(b, now)
  <2>1. (tracker_expired(a, now) <=> tracker_expired(b, now)) /\ (epoch_over(a, now) <=> epoch_over(b, now))
    BY <1>5 DEF tracker_expired, epoch_over
  <2>2. Carried(a, now) = Carried(b, now)
    BY <1>5 DEF Carried
  <2>3. ~tracker_expired(a, now) /\ ~epoch_over(a, now) => Carried(a, now) \in Nat
    BY CarriedNat
  <2>4. current_net(a) \in Nat /\ current_net(b) \in Nat
    BY PairTyped
  <2>5. preview_effective_sell_volume(a, value, now) <= preview_effective_sell_volume(b, value, now)
    BY <1>5, <2>1, <2>2, <2>3, <2>4, VolumeIs
  <2>6. preview_current_sell_trade_count(a, now) <= preview_current_sell_trade_count(b, now)
    BY <1>5, <2>1 DEF preview_current_sell_trade_count
  <2>7. QED
    BY <2>5, <2>6
<1>6. /\ q.curr_sell_value_stable \in Nat /\ q.curr_buy_value_stable \in Nat
      /\ q.curr_sell_trade_count \in Nat
  BY <1>1, PairTyped
<1>7. ASSUME can_record_sell(p, traded, now)
      PROVE  LET r == record_prop_amm_sell(p, traded, now)
             IN  /\ r \in PairState /\ r.config = p.config
                 /\ preview_effective_sell_volume(p, value, now)
                      <= preview_effective_sell_volume(r, value, now)
                 /\ preview_current_sell_trade_count(p, now)
                      <= preview_current_sell_trade_count(r, now)
  <2> DEFINE r == record_prop_amm_sell(p, traded, now)
  <2>1. q.curr_sell_value_stable + traded \in U64 /\ q.curr_sell_trade_count + 1 \in 0..U32_MAX
    BY <1>4, <1>6, <1>7, CurveAssumption DEF Fits
  <2>2. /\ r \in PairState /\ r.config = q.config /\ r.epoch_start = q.epoch_start
        /\ r.prev_net_sell_value_stable = q.prev_net_sell_value_stable
        /\ r.curr_sell_value_stable = q.curr_sell_value_stable + traded
        /\ r.curr_buy_value_stable = q.curr_buy_value_stable
        /\ r.curr_sell_trade_count = q.curr_sell_trade_count + 1
    BY <1>1, <1>2, <2>1 DEF PairState
  <2> HIDE DEF r
  <2>3. current_net(q) <= current_net(r) /\ q.curr_sell_trade_count <= r.curr_sell_trade_count
    BY <1>6, <2>2 DEF current_net, saturating_sub
  <2>4. /\ preview_effective_sell_volume(q, value, now) <= preview_effective_sell_volume(r, value, now)
        /\ preview_current_sell_trade_count(q, now) <= preview_current_sell_trade_count(r, now)
    BY <1>1, <1>5, <2>2, <2>3
  <2>5. QED
    BY <1>1, <2>2, <2>4 DEF r
<1>8. ASSUME can_record_buy(p, traded, now)
      PROVE  LET r == record_prop_amm_buy(p, traded, now)
             IN  /\ r \in PairState /\ r.config = p.config
                 /\ preview_effective_sell_volume(r, value, now)
                      <= preview_effective_sell_volume(p, value, now)
                 /\ preview_current_sell_trade_count(r, now)
                      <= preview_current_sell_trade_count(p, now)
  <2> DEFINE r == record_prop_amm_buy(p, traded, now)
  <2>1. q.curr_buy_value_stable + traded \in U64
    BY <1>4, <1>8 DEF Fits
  <2>2. /\ r \in PairState /\ r.config = q.config /\ r.epoch_start = q.epoch_start
        /\ r.prev_net_sell_value_stable = q.prev_net_sell_value_stable
        /\ r.curr_sell_value_stable = q.curr_sell_value_stable
        /\ r.curr_buy_value_stable = q.curr_buy_value_stable + traded
        /\ r.curr_sell_trade_count = q.curr_sell_trade_count
    BY <1>1, <1>3, <2>1 DEF PairState
  <2> HIDE DEF r
  <2>3. current_net(r) <= current_net(q) /\ r.curr_sell_trade_count <= q.curr_sell_trade_count
    BY <1>6, <2>2 DEF current_net, saturating_sub
  <2>4. /\ preview_effective_sell_volume(r, value, now) <= preview_effective_sell_volume(q, value, now)
        /\ preview_current_sell_trade_count(r, now) <= preview_current_sell_trade_count(q, now)
    BY <1>1, <1>5, <2>2, <2>3
  <2>5. QED
    BY <1>1, <2>2, <2>4 DEF r
<1>9. QED
  BY <1>7, <1>8

-----------------------------------------------------------------------------
(* Loops.                                                                  *)

\* f returns `done` where it stops, and elsewhere goes on with `next`, on the
\* members of D whose measure is below n.
Loops(f, n, D, V, m, stop, done, next) ==
    /\ f \in [D -> V]
    /\ \A x \in D : m[x] < n => f[x] = IF x \in stop THEN done[x] ELSE f[next[x]]

\* The measure m falls with `next` until the loop stops.
Falls(D, V, m, stop, done, next) ==
    /\ m \in [D -> Nat] /\ done \in [D -> V] /\ next \in [D -> D]
    /\ \A x \in D : x \notin stop => m[next[x]] < m[x]

\* The function of the loop, with values in V.
LoopOf(f, D, V, stop, done, next) ==
    \A x \in D : /\ f[x] \in V
                 /\ x \in stop => f[x] = done[x]
                 /\ x \notin stop => f[x] = f[next[x]]

\* A loop whose measure falls has its function.
LEMMA LoopExists ==
    ASSUME NEW D, NEW V, NEW m, NEW stop, NEW done, NEW next, Falls(D, V, m, stop, done, next)
    PROVE  \E f : f \in [D -> V] /\ LoopOf(f, D, V, stop, done, next)
<1> USE DEF Falls
<1> DEFINE L(f, n) == Loops(f, n, D, V, m, stop, done, next)
           N == {n \in Nat : \E f : L(f, n)}
<1>1. 0 \in N
  <2>1. \A x \in D : ~(m[x] < 0)
    OBVIOUS
  <2>2. L(done, 0)
    BY <2>1 DEF Loops
  <2> HIDE DEF L
  <2>3. QED
    BY <2>2
<1>2. ASSUME NEW n \in Nat, n \in N PROVE n + 1 \in N
  <2>1. PICK f : L(f, n)
    <3> HIDE DEF L
    <3>1. QED
      BY <1>2
  <2> DEFINE g == [x \in D |-> IF m[x] < n THEN f[x]
                               ELSE IF x \in stop THEN done[x] ELSE f[next[x]]]
  <2>2. f \in [D -> V] /\ \A x \in D : next[x] \in D /\ m[x] \in Nat /\ m[next[x]] \in Nat
    BY <2>1 DEF Loops
  <2>3. g \in [D -> V]
    BY <2>2
  <2>4. ASSUME NEW x \in D, m[x] < n + 1
        PROVE  g[x] = IF x \in stop THEN done[x] ELSE g[next[x]]
    <3>1. g[x] = IF x \in stop THEN done[x] ELSE f[next[x]]
      BY <2>1 DEF Loops
    <3>2. x \notin stop => m[next[x]] < n
      BY <2>2, <2>4
    <3>3. x \notin stop => g[next[x]] = f[next[x]]
      BY <2>2, <3>2
    <3> HIDE DEF g
    <3>4. QED
      BY <3>1, <3>3
  <2>5. L(g, n + 1)
    <3> HIDE DEF g
    <3>1. QED
      BY <2>3, <2>4 DEF Loops
  <2> HIDE DEF g, L
  <2>6. QED
    BY <2>5
<1>3. Nat \subseteq N
  <2> HIDE DEF N
  <2>1. QED
    BY <1>1, <1>2, NatClosed
<1> DEFINE upto(n) == CHOOSE f : L(f, n)
<1>4. ASSUME NEW n \in Nat PROVE L(upto(n), n)
  <2> HIDE DEF L
  <2>1. QED
    BY <1>3
<1> HIDE DEF upto
\* Any two agree where both are defined.
<1>5. ASSUME NEW n \in Nat, NEW k \in Nat, NEW f, NEW g, L(f, n), L(g, k),
             NEW x \in D, m[x] < n, m[x] < k
      PROVE  f[x] = g[x]
  <2> DEFINE M == {i \in Nat : \A y \in D : m[y] < i /\ m[y] < n /\ m[y] < k => f[y] = g[y]}
  <2>1. 0 \in M
    <3>1. \A y \in D : ~(m[y] < 0)
      OBVIOUS
    <3>2. QED
      BY <3>1
  <2>2. ASSUME NEW i \in Nat, i \in M PROVE i + 1 \in M
    <3>1. SUFFICES ASSUME NEW y \in D, m[y] < i + 1, m[y] < n, m[y] < k PROVE f[y] = g[y]
      OBVIOUS
    <3>2. /\ f[y] = IF y \in stop THEN done[y] ELSE f[next[y]]
          /\ g[y] = IF y \in stop THEN done[y] ELSE g[next[y]]
      BY <1>5, <3>1 DEF Loops
    <3>3. next[y] \in D /\ m[y] \in Nat /\ m[next[y]] \in Nat
      OBVIOUS
    <3>4. y \notin stop => m[next[y]] < i /\ m[next[y]] < n /\ m[next[y]] < k
      BY <1>5, <3>1, <3>3
    <3>5. y \notin stop => f[next[y]] = g[next[y]]
      BY <2>2, <3>3, <3>4
    <3>6. QED
      BY <3>2, <3>5
  <2>3. Nat \subseteq M
    <3> HIDE DEF M
    <3>1. QED
      BY <2>1, <2>2, NatClosed
  <2>4. m[x] \in Nat /\ m[x] + 1 \in Nat /\ m[x] < m[x] + 1
    OBVIOUS
  <2>5. QED
    BY <1>5, <2>3, <2>4
<1> DEFINE F == [x \in D |-> upto(m[x] + 1)[x]]
<1>6. ASSUME NEW x \in D PROVE m[x] \in Nat /\ m[x] + 1 \in Nat /\ m[x] < m[x] + 1
  OBVIOUS
<1>7. F \in [D -> V]
  <2>1. ASSUME NEW x \in D PROVE upto(m[x] + 1)[x] \in V
    BY <1>4, <1>6 DEF Loops
  <2>2. QED
    BY <2>1
<1>8. ASSUME NEW x \in D PROVE F[x] = IF x \in stop THEN done[x] ELSE F[next[x]]
  <2> DEFINE n == m[x] + 1
  <2>1. F[x] = upto(n)[x] /\ n \in Nat /\ m[x] < n
    BY <1>6
  <2>2. upto(n)[x] = IF x \in stop THEN done[x] ELSE upto(n)[next[x]]
    BY <1>4, <2>1 DEF Loops
  <2>3. ASSUME x \notin stop PROVE upto(n)[next[x]] = F[next[x]]
    <3> DEFINE y == next[x]
               k == m[y] + 1
    <3>1. y \in D /\ m[y] \in Nat /\ m[y] < m[x]
      BY <2>3
    <3>2. k \in Nat /\ m[y] < k /\ m[y] < n /\ F[y] = upto(k)[y]
      BY <1>6, <2>1, <3>1
    <3>3. L(upto(n), n) /\ L(upto(k), k)
      BY <1>4, <2>1, <3>2
    <3> HIDE DEF L, F, n, k, y
    <3>4. upto(n)[y] = upto(k)[y]
      BY <1>5, <2>1, <3>1, <3>2, <3>3
    <3>5. QED
      BY <3>2, <3>4 DEF y
  <2> HIDE DEF F, n
  <2>4. QED
    BY <2>1, <2>2, <2>3
<1> HIDE DEF F
<1>9. QED
  BY <1>7, <1>8 DEF LoopOf

-----------------------------------------------------------------------------
(* pow_fixed.                                                              *)

\* A rounded quotient is within half a unit of the exact one.
LEMMA Rounded ==
    ASSUME NEW a \in Nat, NEW b \in Nat, NEW d \in Nat \ {0}
    PROVE  LET r == mul_div_round_u128(a, b, d)
           IN  /\ r \in Nat
               /\ 2 * (r * d) <= 2 * (a * b) + d
               /\ 2 * (a * b) <= 2 * (r * d) + d
<1> DEFINE p == a * b
           h == d \div 2
           t == p + h
           q == t \div d
<1>1. p \in Nat
  BY NatProduct
<1>2. h \in Nat /\ 2 * h <= d /\ d <= 2 * h + 1
  OBVIOUS
<1> HIDE DEF p, h
<1>3. q \in Nat /\ q * d <= p + h /\ p + h < q * d + d
  <2>1. t \in Nat
    BY <1>1, <1>2
  <2> HIDE DEF t
  <2>2. q \in Nat
    BY <2>1, QuotientNat
  <2>3. q * d <= t /\ t < q * d + d
    BY <2>1, Division
  <2>4. QED
    BY <2>2, <2>3 DEF t
<1> HIDE DEF q, t
<1> DEFINE w == q * d
<1>4. w \in Nat
  BY <1>3, NatProduct
<1>5. w <= p + h /\ p + h < w + d
  BY <1>3
<1> HIDE DEF w
<1>6. 2 * w <= 2 * p + d /\ 2 * p <= 2 * w + d
  BY <1>1, <1>2, <1>4, <1>5
<1>7. mul_div_round_u128(a, b, d) = q
  BY DEF mul_div_round_u128, p, h, q, t
<1>8. QED
  BY <1>3, <1>6, <1>7 DEF w, p

\* The states of pow_fixed's loop: the accumulator, the base and the exponent.
PowStates == Nat \X Nat \X Nat

\* What an iteration makes of the accumulator and of the base.
PowAcc(x, scale) == IF (x[3] % 2) = 1 THEN mul_div_round_u128(x[1], x[2], scale) ELSE x[1]
PowNext(x, scale) ==
    <<PowAcc(x, scale), mul_div_round_u128(x[2], x[2], scale), x[3] \div 2>>

\* f is the loop of pow_fixed.
PowLoop(f, scale) ==
    \A x \in PowStates :
        /\ f[x] \in Int
        /\ f[x] = IF x[3] \div 2 = 0 THEN PowAcc(x, scale) ELSE f[PowNext(x, scale)]

\* The loop stays among its states and halves the exponent.
LEMMA PowStateTyped ==
    ASSUME NEW scale \in Nat \ {0}, NEW x \in PowStates
    PROVE  /\ x[1] \in Nat /\ x[2] \in Nat /\ x[3] \in Nat
           /\ PowAcc(x, scale) \in Nat /\ PowNext(x, scale) \in PowStates
           /\ PowNext(x, scale)[3] = x[3] \div 2
<1>1. x[1] \in Nat /\ x[2] \in Nat /\ x[3] \in Nat
  BY DEF PowStates
<1>2. /\ mul_div_round_u128(x[1], x[2], scale) \in Nat
      /\ mul_div_round_u128(x[2], x[2], scale) \in Nat
  BY <1>1, Rounded
<1>3. x[3] \div 2 \in Nat
  BY <1>1
<1>4. QED
  BY <1>1, <1>2, <1>3 DEF PowAcc, PowNext, PowStates

\* pow_fixed runs it.
LEMMA PowFixedLoops ==
    ASSUME NEW scale \in Nat \ {0}
    PROVE  \E f : /\ PowLoop(f, scale)
                  /\ \A b, n : pow_fixed(b, n, scale) = f[<<scale, b, n>>]
<1> DEFINE P(f) == f = [x \in Nat \X Nat \X Nat |->
                          LET acc  == IF (x[3] % 2) = 1
                                      THEN mul_div_round_u128(x[1], x[2], scale) ELSE x[1]
                              rest == x[3] \div 2
                          IN  IF rest = 0 THEN acc
                              ELSE f[<<acc, mul_div_round_u128(x[2], x[2], scale), rest>>]]
           g    == CHOOSE f : P(f)
           Q(f) == f = [x \in PowStates |-> IF x[3] \div 2 = 0 THEN PowAcc(x, scale)
                                            ELSE f[PowNext(x, scale)]]
<1>1. \A b, n : pow_fixed(b, n, scale) = g[<<scale, b, n>>]
  BY DEF pow_fixed
<1>2. ASSUME NEW f PROVE P(f) <=> Q(f)
  BY DEF PowStates, PowAcc, PowNext
<1> HIDE DEF P
<1> DEFINE m    == [x \in PowStates |-> x[3]]
           stop == {x \in PowStates : x[3] \div 2 = 0}
           done == [x \in PowStates |-> PowAcc(x, scale)]
           next == [x \in PowStates |-> PowNext(x, scale)]
<1>3. m \in [PowStates -> Nat] /\ done \in [PowStates -> Int] /\ next \in [PowStates -> PowStates]
  BY PowStateTyped
<1>4. ASSUME NEW x \in PowStates, x \notin stop PROVE m[next[x]] < m[x]
  <2>1. next[x] = PowNext(x, scale) /\ PowNext(x, scale) \in PowStates
    BY PowStateTyped
  <2>2. m[next[x]] = x[3] \div 2 /\ m[x] = x[3] /\ x[3] \in Nat
    BY <2>1, PowStateTyped
  <2>3. x[3] \div 2 # 0
    BY <1>4
  <2>4. x[3] \div 2 < x[3]
    BY <2>2, <2>3
  <2>5. QED
    BY <2>2, <2>4
<1>5. PICK f : f \in [PowStates -> Int] /\ LoopOf(f, PowStates, Int, stop, done, next)
  <2>1. Falls(PowStates, Int, m, stop, done, next)
    <3> HIDE DEF m, stop, done, next
    <3>1. QED
      BY <1>3, <1>4 DEF Falls
  <2> HIDE DEF m, stop, done, next
  <2>2. QED
    BY <2>1, LoopExists
<1>6. Q(f)
  <2>1. ASSUME NEW x \in PowStates
        PROVE  f[x] = IF x[3] \div 2 = 0 THEN PowAcc(x, scale) ELSE f[PowNext(x, scale)]
    <3>1. f[x] = IF x \in stop THEN done[x] ELSE f[next[x]]
      <4> HIDE DEF m, stop, done, next
      <4>1. QED
        BY <1>5 DEF LoopOf
    <3>2. QED
      BY <3>1
  <2>2. f = [x \in PowStates |-> f[x]]
    BY <1>5
  <2>3. QED
    BY <2>1, <2>2
<1>7. P(g)
  BY <1>2, <1>6
<1> HIDE DEF g
<1>8. Q(g)
  BY <1>2, <1>7
\* The values of g are integers: any solution is f.
<1>9. \A x \in PowStates :
         g[x] = IF x[3] \div 2 = 0 THEN PowAcc(x, scale) ELSE g[PowNext(x, scale)]
  BY <1>8
<1> DEFINE N == {n \in Nat : \A x \in PowStates : x[3] < n => g[x] \in Int}
<1>10. 0 \in N
  <2>1. \A x \in PowStates : x[3] \in Nat
    BY PowStateTyped
  <2>2. \A x \in PowStates : ~(x[3] < 0)
    BY <2>1
  <2>3. QED
    BY <2>2
<1>11. ASSUME NEW n \in Nat, n \in N PROVE n + 1 \in N
  <2>1. SUFFICES ASSUME NEW x \in PowStates, x[3] < n + 1 PROVE g[x] \in Int
    OBVIOUS
  <2>2. /\ x[3] \in Nat /\ PowAcc(x, scale) \in Int
        /\ PowNext(x, scale) \in PowStates /\ PowNext(x, scale)[3] = x[3] \div 2
    BY PowStateTyped
  <2>3. CASE x[3] \div 2 = 0
    BY <1>9, <2>2, <2>3
  <2>4. CASE x[3] \div 2 # 0
    <3>1. x[3] \div 2 < n
      BY <2>1, <2>2, <2>4
    <3>2. g[PowNext(x, scale)] \in Int
      BY <1>11, <2>2, <3>1
    <3>3. QED
      BY <1>9, <2>4, <3>2
  <2>5. QED
    BY <2>3, <2>4
<1>12. Nat \subseteq N
  <2> HIDE DEF N
  <2>1. QED
    BY <1>10, <1>11, NatClosed
<1>13. ASSUME NEW x \in PowStates PROVE g[x] \in Int
  <2>1. x[3] \in Nat
    BY PowStateTyped
  <2>2. x[3] + 1 \in Nat /\ x[3] < x[3] + 1
    BY <2>1
  <2>3. x[3] + 1 \in N
    BY <1>12, <2>2
  <2>4. QED
    BY <2>2, <2>3
<1>14. PowLoop(g, scale)
  BY <1>9, <1>13 DEF PowLoop
<1>15. QED
  BY <1>1, <1>14

\* A factor of at least 1.0 does not make smaller.
LEMMA RoundedGrows ==
    ASSUME NEW a \in Nat, NEW b \in Nat, NEW d \in Nat \ {0}, d <= b
    PROVE  a <= mul_div_round_u128(a, b, d)
<1> DEFINE r == mul_div_round_u128(a, b, d)
           p == a * b
           w == a * d
           y == r * d
<1>1. r \in Nat /\ 2 * p <= 2 * y + d
  BY Rounded
<1>2. w <= p /\ w \in Nat /\ p \in Nat
  <2>1. d * a <= b * a
    BY ProductMonotone
  <2>2. d * a = w /\ b * a = p
    OBVIOUS
  <2>3. QED
    BY <2>1, <2>2, NatProduct
<1>3. SUFFICES ASSUME r + 1 <= a PROVE FALSE
  BY <1>1
<1> HIDE DEF r
<1>4. (r + 1) * d <= a * d /\ (r + 1) * d = y + d /\ y \in Int
  BY <1>1, <1>3, ProductMonotone
<1>5. y + d <= w
  BY <1>4
<1> HIDE DEF p, w, y
<1>6. QED
  BY <1>1, <1>2, <1>4, <1>5

\* A product whose rounded quotient leaves room for one more fits u128.
LEMMA ProductFits ==
    ASSUME NEW a \in Nat, NEW b \in Nat, NEW d \in Nat \ {0}, NEW top \in Nat,
           mul_div_round_u128(a, b, d) <= top, (top + 1) * d <= U128_MAX + 1
    PROVE  mul_div_round_returns(a, b, d)
<1> DEFINE n == a * b + d \div 2
           q == n \div d
<1>1. n \in Nat
  <2>1. a * b \in Nat /\ d \div 2 \in Nat
    BY NatProduct
  <2>2. QED
    BY <2>1
<1>2. q <= top
  BY DEF mul_div_round_u128
<1> HIDE DEF n
<1>3. q \in Int /\ n < q * d + d
  BY <1>1, Division
<1> HIDE DEF q
<1>4. (q + 1) * d <= (top + 1) * d /\ (q + 1) * d = q * d + d
  BY <1>2, <1>3, ProductMonotone
<1>5. n < U128_MAX + 1
  <2>1. q * d \in Int /\ (top + 1) * d \in Int
    BY <1>3
  <2>2. QED
    BY <1>1, <1>3, <1>4, <2>1, WidthAssumption
<1>6. n <= U128_MAX
  BY <1>1, <1>5, WidthAssumption
<1>7. QED
  BY <1>6 DEF n, mul_div_round_returns

\* The products of an iteration of pow_fixed fit u128.
PowFits(x, scale) ==
    /\ x[3] % 2 = 1 => mul_div_round_returns(x[1], x[2], scale)
    /\ x[3] \div 2 # 0 => mul_div_round_returns(x[2], x[2], scale)

\* pow_fixed_returns says so of every iteration.
LEMMA PowReturnsLoops ==
    ASSUME NEW scale \in Nat \ {0}
    PROVE  \E f : /\ \A x \in PowStates :
                        f[x] <=> /\ PowFits(x, scale)
                                 /\ x[3] \div 2 # 0 => f[PowNext(x, scale)]
                  /\ \A b, n : pow_fixed_returns(b, n, scale) = f[<<scale, b, n>>]
<1> DEFINE P(f) == f = [x \in Nat \X Nat \X Nat |->
                          LET acc  == IF x[3] % 2 = 1
                                      THEN mul_div_round_u128(x[1], x[2], scale) ELSE x[1]
                              rest == x[3] \div 2
                          IN  /\ x[3] % 2 = 1 => mul_div_round_returns(x[1], x[2], scale)
                              /\ rest # 0 =>
                                   /\ mul_div_round_returns(x[2], x[2], scale)
                                   /\ f[<<acc, mul_div_round_u128(x[2], x[2], scale), rest>>]]
           g    == CHOOSE f : P(f)
           body(f, x) == /\ x[3] % 2 = 1 => mul_div_round_returns(x[1], x[2], scale)
                         /\ x[3] \div 2 # 0 =>
                              /\ mul_div_round_returns(x[2], x[2], scale)
                              /\ f[PowNext(x, scale)]
           Q(f) == f = [x \in PowStates |-> body(f, x)]
<1>1. \A b, n : pow_fixed_returns(b, n, scale) = g[<<scale, b, n>>]
  BY DEF pow_fixed_returns
<1>2. ASSUME NEW f PROVE P(f) <=> Q(f)
  BY DEF PowStates, PowAcc, PowNext
<1> HIDE DEF P
<1> DEFINE m    == [x \in PowStates |-> x[3]]
           stop == {x \in PowStates : x[3] \div 2 = 0 \/ ~PowFits(x, scale)}
           done == [x \in PowStates |-> PowFits(x, scale)]
           next == [x \in PowStates |-> PowNext(x, scale)]
<1>3. ASSUME NEW x \in PowStates PROVE PowFits(x, scale) \in BOOLEAN
  BY DEF PowFits, mul_div_round_returns
<1>4. m \in [PowStates -> Nat] /\ done \in [PowStates -> BOOLEAN] /\ next \in [PowStates -> PowStates]
  BY <1>3, PowStateTyped
<1>5. ASSUME NEW x \in PowStates, x \notin stop PROVE m[next[x]] < m[x]
  <2>1. next[x] = PowNext(x, scale) /\ PowNext(x, scale) \in PowStates
    BY PowStateTyped
  <2>2. m[next[x]] = x[3] \div 2 /\ m[x] = x[3] /\ x[3] \in Nat
    BY <2>1, PowStateTyped
  <2>3. x[3] \div 2 # 0
    BY <1>5
  <2>4. x[3] \div 2 < x[3]
    BY <2>2, <2>3
  <2>5. QED
    BY <2>2, <2>4
<1>6. PICK f : f \in [PowStates -> BOOLEAN] /\ LoopOf(f, PowStates, BOOLEAN, stop, done, next)
  <2>1. Falls(PowStates, BOOLEAN, m, stop, done, next)
    <3> HIDE DEF m, stop, done, next
    <3>1. QED
      BY <1>4, <1>5 DEF Falls
  <2> HIDE DEF m, stop, done, next
  <2>2. QED
    BY <2>1, LoopExists
<1>7. Q(f)
  <2>1. ASSUME NEW x \in PowStates PROVE f[x] = body(f, x)
    <3>1. f[x] \in BOOLEAN /\ f[x] = IF x \in stop THEN done[x] ELSE f[next[x]]
      <4> HIDE DEF m, stop, done, next
      <4>1. QED
        BY <1>6 DEF LoopOf
    <3>2. f[x] = IF x[3] \div 2 = 0 \/ ~PowFits(x, scale) THEN PowFits(x, scale)
                 ELSE f[PowNext(x, scale)]
      BY <3>1
    <3>3. f[x] <=> body(f, x)
      BY <3>2, Zenon DEF PowFits
    <3>4. body(f, x) \in BOOLEAN
      OBVIOUS
    <3> HIDE DEF body
    <3>5. QED
      BY <3>1, <3>3, <3>4
  <2>2. f = [x \in PowStates |-> f[x]]
    BY <1>6
  <2> HIDE DEF body
  <2>3. QED
    BY <2>1, <2>2
<1>8. P(g)
  BY <1>2, <1>7
<1> HIDE DEF g
<1>9. Q(g)
  BY <1>2, <1>8
<1>10. ASSUME NEW x \in PowStates
       PROVE  g[x] <=> PowFits(x, scale) /\ (x[3] \div 2 # 0 => g[PowNext(x, scale)])
  <2>1. g[x] = body(g, x)
    <3> HIDE DEF body
    <3>1. QED
      BY <1>9
  <2>2. QED
    BY <2>1, Zenon DEF PowFits
<1>11. QED
  BY <1>1, <1>10

\* For a factor of at least 1.0, pow_fixed stays within u128 as long as its
\* result leaves room for one more unit: no intermediate is larger.
LEMMA PowFixedReturns ==
    ASSUME NEW scale \in Nat \ {0}, NEW base \in Nat, scale <= base, NEW exp \in Nat
    PROVE  /\ pow_fixed(base, exp, scale) \in Nat
           /\ (pow_fixed(base, exp, scale) + 1) * scale <= U128_MAX + 1
                => pow_fixed_returns(base, exp, scale)
<1>1. PICK f : /\ PowLoop(f, scale)
               /\ \A b, n : pow_fixed(b, n, scale) = f[<<scale, b, n>>]
  BY PowFixedLoops
<1>2. PICK g : /\ \A x \in PowStates :
                     g[x] <=> PowFits(x, scale) /\ (x[3] \div 2 # 0 => g[PowNext(x, scale)])
               /\ \A b, n : pow_fixed_returns(b, n, scale) = g[<<scale, b, n>>]
  BY PowReturnsLoops
<1> DEFINE Good(x) == /\ f[x] \in Nat /\ x[1] <= f[x] /\ x[2] <= f[x]
                      /\ (f[x] + 1) * scale <= U128_MAX + 1 => g[x]
           Grows(x) == scale <= x[1] /\ scale <= x[2] /\ x[3] # 0
           N == {n \in Nat : \A x \in PowStates : x[3] < n /\ Grows(x) => Good(x)}
<1>3. 0 \in N
  <2>1. \A x \in PowStates : x[3] \in Nat
    BY PowStateTyped
  <2>2. \A x \in PowStates : ~(x[3] < 0)
    BY <2>1
  <2>3. QED
    BY <2>2
<1>4. ASSUME NEW n \in Nat, n \in N PROVE n + 1 \in N
  <2>1. SUFFICES ASSUME NEW x \in PowStates, x[3] < n + 1, Grows(x) PROVE Good(x)
    OBVIOUS
  <2> DEFINE acc == PowAcc(x, scale)
             sq  == mul_div_round_u128(x[2], x[2], scale)
             y   == PowNext(x, scale)
  <2>2. /\ x[1] \in Nat /\ x[2] \in Nat /\ x[3] \in Nat
        /\ acc \in Nat /\ y \in PowStates /\ y[3] = x[3] \div 2
    BY PowStateTyped
  <2>3. y[1] = acc /\ y[2] = sq /\ sq \in Nat
    BY <2>2, Rounded DEF PowNext
  <2>4. /\ x[1] <= acc /\ x[2] <= sq
        /\ x[3] % 2 = 1 => acc = mul_div_round_u128(x[1], x[2], scale) /\ x[2] <= acc
    <3>1. /\ x[1] <= mul_div_round_u128(x[1], x[2], scale) /\ x[2] <= sq
      BY <2>1, <2>2, RoundedGrows
    <3>2. x[2] <= mul_div_round_u128(x[1], x[2], scale)
      <4>1. x[2] <= mul_div_round_u128(x[2], x[1], scale)
        BY <2>1, <2>2, RoundedGrows
      <4>2. x[2] * x[1] = x[1] * x[2]
        BY <2>2
      <4>3. QED
        BY <4>1, <4>2 DEF mul_div_round_u128
    <3>3. QED
      BY <2>2, <3>1, <3>2 DEF PowAcc
  <2>5. f[x] = IF x[3] \div 2 = 0 THEN acc ELSE f[y]
    BY <1>1 DEF PowLoop
  <2>6. g[x] <=> PowFits(x, scale) /\ (x[3] \div 2 # 0 => g[y])
    BY <1>2
  <2> HIDE DEF acc, sq, y
  <2>7. CASE x[3] \div 2 = 0
    <3>1. x[3] % 2 = 1
      BY <2>1, <2>2, <2>7
    <3>2. f[x] = acc /\ f[x] \in Nat /\ x[1] <= f[x] /\ x[2] <= f[x]
      BY <2>2, <2>4, <2>5, <2>7, <3>1
    <3>3. ASSUME (f[x] + 1) * scale <= U128_MAX + 1 PROVE g[x]
      <4>1. mul_div_round_u128(x[1], x[2], scale) <= f[x]
        BY <2>2, <2>4, <3>1, <3>2
      <4>2. mul_div_round_returns(x[1], x[2], scale)
        BY <2>2, <3>2, <3>3, <4>1, ProductFits
      <4>3. QED
        BY <2>6, <2>7, <4>2 DEF PowFits
    <3>4. QED
      BY <3>2, <3>3
  <2>8. CASE x[3] \div 2 # 0
    <3>1. y[3] < n /\ y[3] # 0
      BY <2>1, <2>2, <2>8
    <3>2. scale <= y[1] /\ scale <= y[2]
      BY <2>1, <2>2, <2>3, <2>4
    <3>3. Good(y)
      <4> HIDE DEF Good
      <4>1. QED
        BY <1>4, <2>2, <3>1, <3>2
    <3>4. f[x] = f[y] /\ f[x] \in Nat /\ acc <= f[x] /\ sq <= f[x]
      BY <2>3, <2>5, <2>8, <3>3
    <3>5. x[1] <= f[x] /\ x[2] <= f[x]
      BY <2>2, <2>3, <2>4, <3>4
    <3>6. ASSUME (f[x] + 1) * scale <= U128_MAX + 1 PROVE g[x]
      <4>1. x[3] % 2 = 1 => mul_div_round_returns(x[1], x[2], scale)
        BY <2>2, <2>4, <3>4, <3>6, ProductFits
      <4>2. mul_div_round_returns(x[2], x[2], scale)
        BY <2>2, <3>4, <3>6, ProductFits DEF sq
      <4>3. g[y]
        BY <3>3, <3>4, <3>6
      <4>4. QED
        BY <2>6, <4>1, <4>2, <4>3 DEF PowFits
    <3>7. QED
      BY <3>4, <3>5, <3>6
  <2>9. QED
    BY <2>7, <2>8
<1>5. Nat \subseteq N
  <2> HIDE DEF N
  <2>1. QED
    BY <1>3, <1>4, NatClosed
<1> DEFINE start == <<scale, base, exp>>
<1>6. /\ start \in PowStates /\ start[1] = scale /\ start[2] = base /\ start[3] = exp
  BY DEF PowStates
<1>7. f[start] = pow_fixed(base, exp, scale) /\ g[start] = pow_fixed_returns(base, exp, scale)
  BY <1>1, <1>2
<1> HIDE DEF start
<1>8. CASE exp = 0
  <2>1. start[3] % 2 # 1 /\ start[3] \div 2 = 0
    BY <1>6, <1>8
  <2>2. g[start]
    BY <1>2, <1>6, <2>1 DEF PowFits
  <2>3. f[start] = scale
    BY <1>1, <1>6, <2>1 DEF PowLoop, PowAcc
  <2>4. QED
    BY <1>7, <2>2, <2>3
<1>9. CASE exp # 0
  <2>1. exp + 1 \in N /\ exp < exp + 1
    BY <1>5
  <2>2. Grows(start)
    BY <1>6, <1>9
  <2>3. Good(start)
    <3> HIDE DEF Good, Grows
    <3>1. QED
      BY <1>6, <2>1, <2>2
  <2>4. QED
    BY <1>7, <2>3
<1>10. QED
  BY <1>8, <1>9

\* A day's growth is no loss.
LEMMA DailyFactor ==
    ASSUME NEW apr \in Nat
    PROVE  daily_factor(apr) \in Nat \ {0} /\ INT_SCALE <= daily_factor(apr)
<1> DEFINE year == YIELD_SCALE * DAYS_IN_YEAR
           more == (INT_SCALE * apr + year \div 2) \div year
<1>1. INT_SCALE \in Nat \ {0} /\ YIELD_SCALE \in Nat \ {0} /\ DAYS_IN_YEAR \in Nat \ {0}
  BY ScaleAssumption, PricingAssumption
<1>2. year \in Nat \ {0}
  BY <1>1
<1>3. daily_factor(apr) = INT_SCALE + more
  BY DEF daily_factor
<1> HIDE DEF year
<1>4. INT_SCALE * apr \in Nat /\ year \div 2 \in Nat
  BY <1>1, <1>2, NatProduct
<1>5. more \in Nat
  BY <1>2, <1>4, QuotientNat
<1> HIDE DEF more
<1>6. QED
  BY <1>1, <1>3, <1>5
=============================================================================
