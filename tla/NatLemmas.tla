----------------------------- MODULE NatLemmas -----------------------------
(***************************************************************************)
(* Facts about sets of numbers that the proofs of the other modules need:  *)
(* the least-number principle, stated for a set (and so usable where an    *)
(* induction theorem over an operator is not), the maximum of a set,       *)
(* partial sums, and that a function defined from number to number exists  *)
(* and has at each what every step keeps.                                  *)
(***************************************************************************)
EXTENDS Integers, FiniteSetsExt, FiniteSetTheorems, WellFoundedInduction, TLAPS

\* Every nonempty set of naturals has a least element: the initial segments
\* 1 .. n are finite sets, and strict inclusion of finite sets is well-founded.
LEMMA LeastNat ==
  ASSUME NEW T \in SUBSET Nat, T # {}
  PROVE  \E x \in T : \A y \in T : x <= y
  <1> DEFINE Segments == {1 .. n : n \in T}
  <1>1. Segments \subseteq FiniteSubsetsOf(Nat) /\ Segments # {}
    <2>1. ASSUME NEW n \in T PROVE 1 .. n \in SUBSET Nat /\ IsFiniteSet(1 .. n)
      BY FS_Interval
    <2> QED
      BY <2>1 DEF FiniteSubsetsOf
  <1>2. IsWellFoundedOn(StrictSubsetOrdering(Nat), FiniteSubsetsOf(Nat))
    BY FS_StrictSubsetOrderingWellFounded
  <1> HIDE DEF Segments
  <1>3. PICK u \in Segments :
          \A v \in Segments : <<v, u>> \notin StrictSubsetOrdering(Nat)
    BY <1>1, <1>2, WFMin
  <1> USE DEF Segments
  <1>4. PICK x \in T : u = 1 .. x
    OBVIOUS
  <1>5. ASSUME NEW y \in T, y < x PROVE FALSE
    <2>1. 1 .. y \in Segments
      OBVIOUS
    <2>2. 1 .. y \subseteq 1 .. x /\ x \in 1 .. x /\ x \notin 1 .. y
      BY <1>5
    <2>3. 1 .. y \in SUBSET Nat /\ 1 .. x \in SUBSET Nat /\ 1 .. y # 1 .. x
      BY <2>2
    <2>4. <<1 .. y, u>> \in StrictSubsetOrdering(Nat)
      BY <2>2, <2>3, <1>4 DEF StrictSubsetOrdering
    <2> QED
      BY <2>1, <2>4, <1>3
  <1> QED
    BY <1>5

\* A nonempty set of naturals with an upper bound contains its maximum.
LEMMA MaxNat ==
  ASSUME NEW n \in Nat, NEW T \in SUBSET (0 .. n), T # {}
  PROVE  Max(T) \in T /\ \A y \in T : y <= Max(T)
  <1> DEFINE Gaps == {n - y : y \in T}
  <1>1. PICK g \in Gaps : \A h \in Gaps : g <= h
    <2>0. ASSUME NEW y \in T PROVE n - y \in Nat
      BY y \in 0 .. n
    <2>1. Gaps \in SUBSET Nat /\ Gaps # {}
      BY <2>0
    <2> HIDE DEF Gaps
    <2> QED
      BY <2>1, LeastNat
  <1>2. PICK x \in T : g = n - x
    OBVIOUS
  <1>3. ASSUME NEW y \in T PROVE x >= y
    <2>1. n - y \in Gaps
      OBVIOUS
    <2> QED
      BY <1>1, <1>2, <2>1
  <1>4. \E m \in T : \A y \in T : m >= y
    BY <1>3
  <1>5. Max(T) \in T /\ \A y \in T : Max(T) >= y
    BY <1>4 DEF Max
  <1> QED
    BY <1>5

\* Every sequence of lengths has its sequence of partial sums.
LEMMA PrefixSums ==
  ASSUME NEW n \in Nat, NEW len \in [1 .. n -> Nat]
  PROVE  \E s \in [0 .. n -> Nat] : s[0] = 0 /\ \A i \in 1 .. n : s[i] = s[i - 1] + len[i]
  <1> DEFINE Good(k) == \E s \in [0 .. k -> Nat] :
                           s[0] = 0 /\ \A i \in 1 .. k : s[i] = s[i - 1] + len[i]
             Bad == {k \in 0 .. n : ~Good(k)}
  <1>1. SUFFICES ASSUME Bad # {} PROVE FALSE
    BY n \in 0 .. n
  <1>2. PICK k \in Bad : \A j \in Bad : k <= j
    <2>1. Bad \in SUBSET Nat
      OBVIOUS
    <2> HIDE DEF Bad
    <2> QED
      BY <1>1, <2>1, LeastNat
  <1>3. Good(0)
    <2> DEFINE s == [i \in 0 .. 0 |-> 0]
    <2>1. s \in [0 .. 0 -> Nat] /\ s[0] = 0 /\ \A i \in 1 .. 0 : s[i] = s[i - 1] + len[i]
      OBVIOUS
    <2> QED
      BY <2>1
  <1>4. k \in 0 .. n /\ ~Good(k)
    OBVIOUS
  <1> HIDE DEF Good
  <1>5. k # 0
    BY <1>3, <1>4
  <1>6. k \in 1 .. n /\ k - 1 \in 0 .. n /\ ~(k <= k - 1)
    BY <1>4, <1>5
  <1>7. Good(k - 1)
    BY <1>2, <1>6
  <1> USE DEF Good
  <1>8. PICK s \in [0 .. k - 1 -> Nat] :
           s[0] = 0 /\ \A i \in 1 .. k - 1 : s[i] = s[i - 1] + len[i]
    BY <1>7
  <1>9. Good(k)
    <2> DEFINE t == [i \in 0 .. k |-> IF i = k THEN s[k - 1] + len[k] ELSE s[i]]
    <2>1. t \in [0 .. k -> Nat] /\ t[0] = 0
      BY <1>6, <1>8
    <2>2. ASSUME NEW i \in 1 .. k PROVE t[i] = t[i - 1] + len[i]
      <3>1. CASE i = k
        BY <3>1, <1>6
      <3>2. CASE i # k
        BY <3>2, <1>6, <1>8
      <3> QED
        BY <3>1, <3>2
    <2> HIDE DEF t
    <2> QED
      BY <2>1, <2>2
  <1> QED
    BY <1>4, <1>9

\* Sums that grow by the same amount at each step grow linearly.
LEMMA LinearSums ==
  ASSUME NEW n \in Nat, NEW d \in Nat, NEW o \in [0 .. n -> Nat], NEW m \in 1 .. n,
         \A i \in 2 .. m : o[i] = o[i - 1] + d
  PROVE  o[m] = o[1] + d * (m - 1)
  <1> DEFINE Bad == {i \in 1 .. m : o[i] # o[1] + d * (i - 1)}
  <1> SUFFICES ASSUME Bad # {} PROVE FALSE
    OBVIOUS
  <1>1. PICK k \in Bad : \A j \in Bad : k <= j
    <2>1. Bad \in SUBSET Nat
      OBVIOUS
    <2> HIDE DEF Bad
    <2> QED
      BY <2>1, LeastNat
  <1>2. k \in 1 .. m /\ o[k] # o[1] + d * (k - 1) /\ k \in Nat
    OBVIOUS
  <1>3. k # 1
    <2>1. o[1] \in Nat /\ d * (1 - 1) = 0
      OBVIOUS
    <2> QED
      BY <1>2, <2>1
  <1>4. k - 1 \in 1 .. m /\ ~ (k <= k - 1) /\ k \in 2 .. m
    BY <1>2, <1>3
  <1>5. o[k - 1] = o[1] + d * (k - 2)
    <2>1. k - 1 \notin Bad
      BY <1>1, <1>4
    <2>2. (k - 1) - 1 = k - 2
      BY <1>2
    <2> QED
      BY <1>4, <2>1, <2>2
  <1>6. o[k] = o[k - 1] + d
    BY <1>4
  <1>7. d * (k - 1) = d * (k - 2) + d
    BY <1>2
  <1>8. o[1] \in Nat /\ d * (k - 2) \in Int
    BY <1>2
  <1> HIDE DEF Bad
  <1> QED
    BY <1>2, <1>5, <1>6, <1>7, <1>8

\* A set that is counted without repetition by 1 .. n has n elements.
LEMMA CountedBy ==
  ASSUME NEW S, NEW n \in Nat, NEW f,
         \A i \in 1 .. n : f[i] \in S,
         \A i, j \in 1 .. n : f[i] = f[j] => i = j,
         \A x \in S : \E i \in 1 .. n : f[i] = x
  PROVE  IsFiniteSet(S) /\ Cardinality(S) = n
  <1> DEFINE g == [i \in 1 .. n |-> f[i]]
  <1>1. g \in Injection(1 .. n, S)
    BY DEF Injection, IsInjective
  <1>2. g \in Surjection(1 .. n, S)
    BY DEF Surjection
  <1> HIDE DEF g
  <1>3. ExistsBijection(1 .. n, S)
    BY <1>1, <1>2 DEF ExistsBijection, Bijection
  <1> QED
    BY <1>3, FS_CountingElements, FS_NatBijection

-----------------------------------------------------------------------------
\* R, a set of pairs, is a strict total order of S.
StrictOrder(S, R) ==
  /\ \A x \in S : <<x, x>> \notin R
  /\ \A x, y \in S : x # y => <<x, y>> \in R \/ <<y, x>> \in R
  /\ \A x, y, z \in S : <<x, y>> \in R /\ <<y, z>> \in R => <<x, z>> \in R

\* What has more before it comes later.
LEMMA RankGrows ==
  ASSUME NEW S, IsFiniteSet(S), NEW R, StrictOrder(S, R), NEW x \in S, NEW y \in S,
         <<x, y>> \in R
  PROVE  /\ Cardinality({j \in S : <<j, x>> \in R}) \in Nat
         /\ Cardinality({j \in S : <<j, y>> \in R}) \in Nat
         /\ Cardinality({j \in S : <<j, x>> \in R}) < Cardinality({j \in S : <<j, y>> \in R})
  <1> DEFINE X == {j \in S : <<j, x>> \in R}
             Y == {j \in S : <<j, y>> \in R}
  <1>1. X \in SUBSET Y /\ x \in Y /\ x \notin X
    BY DEF StrictOrder
  <1>2. IsFiniteSet(Y)
    BY FS_Subset
  <1> HIDE DEF X, Y
  <1>3. IsFiniteSet(X) /\ Cardinality(X) <= Cardinality(Y) /\ Cardinality(X) # Cardinality(Y)
    BY <1>1, <1>2, FS_Subset
  <1>4. Cardinality(X) \in Nat /\ Cardinality(Y) \in Nat
    BY <1>2, <1>3, FS_CardinalityType
  <1>5. Cardinality(X) < Cardinality(Y)
    BY <1>3, <1>4
  <1> QED
    BY <1>4, <1>5 DEF X, Y

\* For every number of members before it there is a member.
LEMMA RankTaken ==
  ASSUME NEW S, IsFiniteSet(S), NEW R, StrictOrder(S, R), NEW k \in 0 .. Cardinality(S) - 1
  PROVE  \E i \in S : Cardinality({j \in S : <<j, i>> \in R}) = k
  <1> DEFINE n == Cardinality(S)
             T == 0 .. n - 1
             rank == [i \in S |-> Cardinality({j \in S : <<j, i>> \in R})]
  <1>1. n \in Nat
    BY FS_CardinalityType
  <1>2. ASSUME NEW i \in S PROVE rank[i] \in T
    <2> DEFINE X == {j \in S : <<j, i>> \in R}
    <2>1. X \in SUBSET S /\ i \notin X
      BY DEF StrictOrder
    <2>2. rank[i] = Cardinality(X)
      OBVIOUS
    <2> HIDE DEF X, rank
    <2>3. IsFiniteSet(X) /\ Cardinality(X) <= n /\ Cardinality(X) # n
      BY <2>1, FS_Subset
    <2>4. Cardinality(X) \in Nat
      BY <2>3, FS_CardinalityType
    <2> HIDE DEF n
    <2> QED
      BY <1>1, <2>2, <2>3, <2>4
  <1>3. ASSUME NEW x \in S, NEW y \in S, rank[x] = rank[y] PROVE x = y
    <2> SUFFICES ASSUME x # y PROVE FALSE
      OBVIOUS
    <2>1. <<x, y>> \in R \/ <<y, x>> \in R
      BY DEF StrictOrder
    <2>2. ASSUME NEW u \in S, NEW v \in S, <<u, v>> \in R
          PROVE  rank[u] \in Nat /\ rank[v] \in Nat /\ rank[u] < rank[v]
      <3>1. /\ Cardinality({j \in S : <<j, u>> \in R}) \in Nat
            /\ Cardinality({j \in S : <<j, v>> \in R}) \in Nat
            /\ Cardinality({j \in S : <<j, u>> \in R}) < Cardinality({j \in S : <<j, v>> \in R})
        BY <2>2, RankGrows
      <3> QED
        BY <3>1
    <2> HIDE DEF rank
    <2>3. CASE <<x, y>> \in R
      BY <1>3, <2>2, <2>3
    <2>4. CASE <<y, x>> \in R
      BY <1>3, <2>2, <2>4
    <2> QED
      BY <2>1, <2>3, <2>4
  <1>4. rank \in [S -> T]
    BY <1>2
  <1>5. rank \in Injection(S, T)
    <2> HIDE DEF rank, T
    <2> QED
      BY <1>3, <1>4 DEF Injection, IsInjective
  <1>6. IsFiniteSet(T) /\ Cardinality(T) = n
    <2> HIDE DEF n
    <2> QED
      BY <1>1, FS_Interval
  <1>7. rank \in Surjection(S, T)
    <2> HIDE DEF rank, T
    <2> QED
      BY <1>5, <1>6, FS_Injection
  <1>8. PICK i \in S : rank[i] = k
    <2>1. k \in T
      OBVIOUS
    <2> HIDE DEF rank, T
    <2> QED
      BY <1>7, <2>1 DEF Surjection
  <1> QED
    BY <1>8

\* Something comes first in such an order of a finite set.
LEMMA FirstInOrder ==
  ASSUME NEW S, IsFiniteSet(S), S # {}, NEW R, StrictOrder(S, R)
  PROVE  \E x \in S : \A y \in S : <<y, x>> \notin R
  <1> DEFINE n == Cardinality(S)
             rank(i) == Cardinality({j \in S : <<j, i>> \in R})
  <1>1. n \in Nat /\ n # 0
    BY FS_CardinalityType, FS_EmptySet
  <1>2. PICK k \in 0 .. n - 1 : k = 0
    <2> HIDE DEF n
    <2> QED
      BY <1>1
  <1>3. \E i \in S : rank(i) = k
    BY RankTaken
  <1>4. PICK x \in S : rank(x) = 0
    BY <1>2, <1>3
  <1> DEFINE X == {j \in S : <<j, x>> \in R}
  <1>5. X \in SUBSET S /\ Cardinality(X) = 0
    BY <1>4
  <1> HIDE DEF X
  <1>6. X = {}
    <2>1. IsFiniteSet(X)
      BY <1>5, FS_Subset
    <2> QED
      BY <1>5, <2>1, FS_EmptySet
  <1> QED
    BY <1>6 DEF X

\* A finite set of naturals has a greatest element.
LEMMA GreatestNat ==
  ASSUME NEW S, S \in SUBSET Nat, IsFiniteSet(S), S # {}
  PROVE  \E x \in S : \A y \in S : y <= x
  <1>1. \A x \in S : x \in Nat
    OBVIOUS
  <1>2. PICK R : \A x, y \in S : <<x, y>> \in R <=> x > y
    <2> DEFINE D == {e \in S \X S : e[1] > e[2]}
    <2>1. \A x, y \in S : <<x, y>> \in D <=> x > y
      OBVIOUS
    <2> QED
      BY <2>1
  <1>3. StrictOrder(S, R)
    BY <1>1, <1>2 DEF StrictOrder
  <1>4. PICK x \in S : \A y \in S : <<y, x>> \notin R
    BY <1>3, FirstInOrder
  <1>5. \A y \in S : y <= x
    <2> SUFFICES ASSUME NEW y \in S, ~(y <= x) PROVE FALSE
      OBVIOUS
    <2>1. <<y, x>> \in R
      BY <1>1, <1>2
    <2> QED
      BY <1>4, <2>1
  <1> QED
    BY <1>5

\* What a function makes of a finite set is one.
LEMMA FiniteImage ==
  ASSUME NEW S, IsFiniteSet(S), NEW f, NEW T, T = {f[x] : x \in S}
  PROVE  IsFiniteSet(T)
  <1> DEFINE g == [x \in S |-> f[x]]
  <1>1. g \in [S -> T] /\ \A y \in T : \E x \in S : g[x] = y
    OBVIOUS
  <1> HIDE DEF g
  <1>2. g \in Surjection(S, T)
    BY <1>1 DEF Surjection
  <1> QED
    BY <1>2, FS_Surjection

-----------------------------------------------------------------------------
(* Functions defined by recursion *)

\* f is defined from a on, step by step, and its value at n is one of S[n].
Recursive(f, a, b, x0, G, S) ==
  /\ f = [n \in a .. b |-> f[n]]
  /\ f[a] = x0
  /\ \A n \in a + 1 .. b : f[n] = G[n][f[n - 1]]
  /\ \A n \in a .. b : f[n] \in S[n]

\* A function is defined step by step if each step leads from a value to a value.
LEMMA Recursion ==
  ASSUME NEW N \in Nat, NEW S, NEW x0, x0 \in S[0], NEW G,
         \A n \in 1 .. N : \A x \in S[n - 1] : G[n][x] \in S[n]
  PROVE  \E f : Recursive(f, 0, N, x0, G, S)
  <1> DEFINE Fits(f, M) == /\ f = [n \in 0 .. M |-> IF n = 0 THEN x0 ELSE G[n][f[n - 1]]]
                           /\ \A n \in 0 .. M : f[n] \in S[n]
             Bad == {M \in 0 .. N : ~\E f : Fits(f, M)}
  <1>1. Bad = {}
    <2> SUFFICES ASSUME Bad # {} PROVE FALSE
      OBVIOUS
    <2>1. PICK M \in Bad : \A n \in Bad : M <= n
      <3>1. Bad \in SUBSET Nat
        OBVIOUS
      <3> HIDE DEF Bad
      <3> QED
        BY <3>1, LeastNat
    <2>2. M \in 0 .. N /\ ~\E f : Fits(f, M)
      OBVIOUS
    <2>3. Fits([n \in 0 .. 0 |-> x0], 0)
      OBVIOUS
    <2>4. M # 0
      <3> HIDE DEF Fits
      <3> QED
        BY <2>2, <2>3
    <2>5. M - 1 \in 0 .. N /\ M \in Nat /\ ~(M <= M - 1) /\ M \in 1 .. N /\ M - 1 \in Nat
      BY <2>2, <2>4
    <2>6. PICK f : Fits(f, M - 1)
      <3> HIDE DEF Fits
      <3> QED
        BY <2>1, <2>5
    <2> DEFINE g == [n \in 0 .. M |-> IF n = M THEN G[M][f[M - 1]] ELSE f[n]]
    <2>7. ASSUME NEW n \in 0 .. M
          PROVE  g[n] = (IF n = 0 THEN x0 ELSE G[n][g[n - 1]]) /\ g[n] \in S[n]
      <3>1. CASE n = M
        <4>1. g[n] = G[n][f[n - 1]] /\ g[n - 1] = f[n - 1] /\ n # 0
          BY <3>1, <2>4, <2>5
        <4>2. f[M - 1] \in S[M - 1]
          BY <2>5, <2>6
        <4> QED
          BY <4>1, <4>2, <3>1, <2>5
      <3>2. CASE n # M
        <4>1. n \in 0 .. M - 1
          BY <3>2, <2>5
        <4>2. f[n] = (IF n = 0 THEN x0 ELSE G[n][f[n - 1]]) /\ f[n] \in S[n]
          BY <4>1, <2>6
        <4>3. g[n] = f[n] /\ (n # 0 => g[n - 1] = f[n - 1])
          BY <4>1, <3>2, <2>5
        <4> QED
          BY <4>2, <4>3
      <3> QED
        BY <3>1, <3>2
    <2>8. Fits(g, M)
      <3>1. PICK h : h = g
        OBVIOUS
      <3>2. /\ h = [n \in 0 .. M |-> h[n]]
            /\ \A n \in 0 .. M : h[n] = (IF n = 0 THEN x0 ELSE G[n][h[n - 1]]) /\ h[n] \in S[n]
        BY <3>1, <2>7
      <3>3. h = [n \in 0 .. M |-> IF n = 0 THEN x0 ELSE G[n][h[n - 1]]]
        BY <3>2
      <3> QED
        BY <3>1, <3>2, <3>3
    <2> HIDE DEF Fits
    <2> QED
      BY <2>2, <2>8
  <1>2. N \in 0 .. N
    OBVIOUS
  <1>3. PICK f : Fits(f, N)
    <2> HIDE DEF Fits
    <2> QED
      BY <1>1, <1>2
  <1>4. f = [n \in 0 .. N |-> f[n]] /\ f[0] = x0 /\ \A n \in 0 + 1 .. N : f[n] = G[n][f[n - 1]]
    <2>1. PICK h : h = f
      OBVIOUS
    <2>2. h = [n \in 0 .. N |-> IF n = 0 THEN x0 ELSE G[n][h[n - 1]]]
      BY <1>3, <2>1
    <2>3. h = [n \in 0 .. N |-> h[n]] /\ h[0] = x0 /\ \A n \in 0 + 1 .. N : h[n] = G[n][h[n - 1]]
      BY ONLY <2>2, N \in Nat
    <2> QED
      BY <2>1, <2>3
  <1> QED
    BY <1>3, <1>4 DEF Recursive

\* The same from any number on
LEMMA RecursionFrom ==
  ASSUME NEW a \in Int, NEW b \in Int, a <= b, NEW S, NEW x0, x0 \in S[a], NEW G,
         \A n \in a + 1 .. b : \A x \in S[n - 1] : G[n][x] \in S[n]
  PROVE  \E f : Recursive(f, a, b, x0, G, S)
  <1>1. PICK N : N = b - a /\ N \in Nat
    OBVIOUS
  <1>2. PICK T : T = [n \in 0 .. N |-> S[n + a]]
    OBVIOUS
  <1>3. PICK H : H = [n \in 1 .. N |-> G[n + a]]
    OBVIOUS
  <1>4. x0 \in T[0]
    BY <1>1, <1>2
  <1>5. ASSUME NEW n \in 1 .. N, NEW x \in T[n - 1] PROVE H[n][x] \in T[n]
    <2>1. n + a \in a + 1 .. b /\ (n - 1) + a = (n + a) - 1 /\ n - 1 \in 0 .. N /\ n \in 0 .. N
      BY <1>1
    <2>2. T[n - 1] = S[(n + a) - 1] /\ T[n] = S[n + a] /\ H[n] = G[n + a]
      BY <1>2, <1>3, <2>1
    <2> QED
      BY <2>1, <2>2
  <1>6. PICK g : Recursive(g, 0, N, x0, H, T)
    BY <1>1, <1>4, <1>5, Recursion
  <1>7. PICK f : f = [n \in a .. b |-> g[n - a]]
    OBVIOUS
  <1>8. f[a] = x0
    BY <1>1, <1>6, <1>7 DEF Recursive
  <1>9. ASSUME NEW n \in a + 1 .. b PROVE f[n] = G[n][f[n - 1]]
    <2>1. n - a \in 1 .. N /\ (n - a) + a = n /\ n \in a .. b /\ n - 1 \in a .. b /\ (n - 1) - a = (n - a) - 1
      BY <1>1
    <2>2. H[n - a] = G[n]
      BY <1>3, <2>1
    <2>3. g[n - a] = H[n - a][g[(n - a) - 1]]
      <3>1. PICK m : m = n - a /\ m \in 0 + 1 .. N
        BY <2>1
      <3>2. g[m] = H[m][g[m - 1]]
        BY <1>6, <3>1 DEF Recursive
      <3> QED
        BY <3>1, <3>2
    <2>4. f[n] = g[n - a] /\ f[n - 1] = g[(n - a) - 1]
      BY <1>7, <2>1
    <2> QED
      BY <2>2, <2>3, <2>4
  <1>10. ASSUME NEW n \in a .. b PROVE f[n] \in S[n]
    <2>1. n - a \in 0 .. N /\ (n - a) + a = n
      BY <1>1
    <2>2. g[n - a] \in T[n - a] /\ T[n - a] = S[n]
      BY <1>2, <1>6, <2>1 DEF Recursive
    <2> QED
      BY <1>7, <2>2
  <1>11. f = [n \in a .. b |-> f[n]]
    BY <1>7
  <1> QED
    BY <1>8, <1>9, <1>10, <1>11 DEF Recursive

\* What holds at first and is kept by each step holds throughout.
LEMMA Throughout ==
  ASSUME NEW N \in Nat, NEW S, NEW f, f[0] \in S[0],
         \A n \in 1 .. N : f[n - 1] \in S[n - 1] => f[n] \in S[n]
  PROVE  \A n \in 0 .. N : f[n] \in S[n]
  <1> DEFINE Bad == {n \in 0 .. N : f[n] \notin S[n]}
  <1> SUFFICES ASSUME Bad # {} PROVE FALSE
    OBVIOUS
  <1>1. PICK n \in Bad : \A m \in Bad : n <= m
    <2>1. Bad \in SUBSET Nat
      OBVIOUS
    <2> HIDE DEF Bad
    <2> QED
      BY <2>1, LeastNat
  <1>2. n \in 1 .. N /\ n - 1 \in 0 .. N /\ ~(n <= n - 1)
    <2>1. n \in 0 .. N /\ n # 0
      OBVIOUS
    <2> QED
      BY <2>1
  <1>3. f[n - 1] \in S[n - 1]
    BY <1>1, <1>2
  <1> QED
    BY <1>2, <1>3

\* The same from any number on
LEMMA ThroughoutFrom ==
  ASSUME NEW a \in Int, NEW b \in Int, a <= b, NEW S, NEW f, f[a] \in S[a],
         \A n \in a + 1 .. b : f[n - 1] \in S[n - 1] => f[n] \in S[n]
  PROVE  \A n \in a .. b : f[n] \in S[n]
  <1>1. PICK N : N = b - a /\ N \in Nat
    OBVIOUS
  <1>2. PICK T : T = [n \in 0 .. N |-> S[n + a]]
    OBVIOUS
  <1>3. PICK g : g = [n \in 0 .. N |-> f[n + a]]
    OBVIOUS
  <1>4. g[0] \in T[0]
    BY <1>1, <1>2, <1>3
  <1>5. ASSUME NEW n \in 1 .. N, g[n - 1] \in T[n - 1] PROVE g[n] \in T[n]
    <2>1. PICK m : m = n + a /\ m \in a + 1 .. b /\ (n - 1) + a = m - 1 /\ n - 1 \in 0 .. N /\ n \in 0 .. N
      BY <1>1
    <2>2. T[n - 1] = S[m - 1] /\ T[n] = S[m] /\ g[n - 1] = f[m - 1] /\ g[n] = f[m]
      BY <1>2, <1>3, <2>1
    <2> QED
      BY <1>5, <2>1, <2>2
  <1>6. \A n \in 0 .. N : g[n] \in T[n]
    BY <1>1, <1>4, <1>5, Throughout
  <1>7. ASSUME NEW n \in a .. b PROVE f[n] \in S[n]
    <2>1. PICK m : m = n - a /\ m \in 0 .. N /\ m + a = n
      BY <1>1
    <2> QED
      BY <1>2, <1>3, <1>6, <2>1
  <1> QED
    BY <1>7
=============================================================================
