----------------------------- MODULE AlgoProofs -----------------------------
(***************************************************************************)
(* What is proved of the match algorithms (Algo.tla) against what a match  *)
(* is (Matches.tla), for any text, pattern and options: MatchesAreSound.   *)
(*                                                                         *)
(* Way(t, p, K, from, to, pos) says that pos are places of the first K     *)
(* characters of p in t[from:to], in order, and Has that there are such.   *)
(*                                                                         *)
(* The prefilter drops no text that has the pattern, and leaves a part of  *)
(* it with all the ways (FilterKeeps): the search for one character after  *)
(* the other is never behind a way.  V1 goes forth to the first end of a   *)
(* match and back to the last start of one (GreedyIs).  The exact          *)
(* algorithms look where the spaces end that do not count (BeginningsAre,  *)
(* EndingsAre) or at every place (BestOccurrenceIs).                       *)
(*                                                                         *)
(* V2 fills a matrix of scores and walks back from the best of the last    *)
(* row.  IsMatrix is what the walk needs: a place of the row's character   *)
(* scores more than the cell above and to the left, any other cell less    *)
(* than the one to its left, or nothing.  So the walk takes only places of *)
(* the character, never runs out of a row before it has taken one          *)
(* (StepBehindIs), and ends with a way (BacktraceIs).  Phases 2 and 3      *)
(* write such a matrix (RowsAre), whatever the cells hold that they do not *)
(* write, and the single pass for two characters one of two rows (TwoIs).  *)
(***************************************************************************)
EXTENDS Matches, NatLemmas, SequenceTheorems

----------------------------------------------------------------------------
(* Ways to find a pattern in a text *)

\* pos are places of the first K characters of the pattern p in t[from:to], in order.
Way(t, p, K, from, to, pos) ==
  /\ \A k \in 1 .. K : pos[k] \in from .. to - 1 /\ t[pos[k] + 1] = p[k]
  /\ \A i, k \in 1 .. K : i < k => pos[i] < pos[k]
Has(t, p, K, from, to) == \E pos : Way(t, p, K, from, to, pos)

\* In a larger part of the text there is a way if there is one in the smaller.
LEMMA HasWider ==
  ASSUME NEW t, NEW p, NEW K \in Nat, NEW a \in Int, NEW b \in Int, NEW c \in Int, NEW d \in Int,
         c <= a, b <= d, Has(t, p, K, a, b)
  PROVE  Has(t, p, K, c, d)
  <1>1. PICK pos : Way(t, p, K, a, b, pos)
    BY DEF Has
  <1>2. Way(t, p, K, c, d, pos)
    BY <1>1 DEF Way
  <1> QED
    BY <1>2 DEF Has

\* One character more of the text, which is the next of the pattern or not
LEMMA HasNext ==
  ASSUME NEW t, NEW p, NEW k \in Nat, NEW n \in Nat \ {0}
  PROVE  /\ Has(t, p, 0, 0, n)
         /\ Has(t, p, k, 0, n - 1) /\ t[n] = p[k + 1] => Has(t, p, k + 1, 0, n)
         /\ ~Has(t, p, k + 1, 0, n - 1) /\ t[n] # p[k + 1] => ~Has(t, p, k + 1, 0, n)
         /\ ~Has(t, p, k + 1, 0, n - 1) => ~Has(t, p, k + 2, 0, n)
  <1>1. Has(t, p, 0, 0, n)
    <2>1. Way(t, p, 0, 0, n, <<>>)
      BY DEF Way
    <2> QED
      BY <2>1 DEF Has
  <1>2. ASSUME Has(t, p, k, 0, n - 1), t[n] = p[k + 1] PROVE Has(t, p, k + 1, 0, n)
    <2>1. PICK pos : Way(t, p, k, 0, n - 1, pos)
      BY <1>2 DEF Has
    <2>2. PICK new : new = [i \in 1 .. k + 1 |-> IF i = k + 1 THEN n - 1 ELSE pos[i]]
      OBVIOUS
    <2>3. ASSUME NEW i \in 1 .. k + 1
          PROVE  /\ new[i] \in 0 .. n - 1 /\ t[new[i] + 1] = p[i]
                 /\ i # k + 1 => new[i] < n - 1 /\ new[i] = pos[i] /\ i \in 1 .. k
                 /\ i = k + 1 => new[i] = n - 1
      <3>1. CASE i = k + 1
        <4>1. new[i] = n - 1 /\ (n - 1) + 1 = n
          BY <2>2, <3>1
        <4> QED
          BY <4>1, <3>1, <1>2
      <3>2. CASE i # k + 1
        <4>1. i \in 1 .. k /\ new[i] = pos[i]
          BY <2>2, <3>2
        <4>2. pos[i] \in 0 .. (n - 1) - 1 /\ t[pos[i] + 1] = p[i]
          BY <4>1, <2>1 DEF Way
        <4> QED
          BY <4>1, <4>2, <3>2
      <3> QED
        BY <3>1, <3>2
    <2>4. ASSUME NEW i \in 1 .. k + 1, NEW j \in 1 .. k + 1, i < j PROVE new[i] < new[j]
      <3>1. i # k + 1
        BY <2>4
      <3>2. CASE j = k + 1
        BY <2>3, <3>1, <3>2
      <3>3. CASE j # k + 1
        <4>1. i \in 1 .. k /\ j \in 1 .. k /\ new[i] = pos[i] /\ new[j] = pos[j]
          BY <2>3, <3>1, <3>3
        <4> QED
          BY <4>1, <2>4, <2>1 DEF Way
      <3> QED
        BY <3>2, <3>3
    <2>5. Way(t, p, k + 1, 0, n, new)
      BY <2>3, <2>4 DEF Way
    <2> QED
      BY <2>5 DEF Has
  <1>3. ASSUME NEW pos, Way(t, p, k + 1, 0, n, pos), t[n] # p[k + 1] PROVE Has(t, p, k + 1, 0, n - 1)
    <2>1. k + 1 \in 1 .. k + 1 /\ pos[k + 1] \in 0 .. n - 1 /\ t[pos[k + 1] + 1] = p[k + 1]
      BY <1>3 DEF Way
    <2>2. pos[k + 1] # n - 1
      <3>1. (n - 1) + 1 = n
        OBVIOUS
      <3> QED
        BY <2>1, <1>3, <3>1
    <2>3. ASSUME NEW i \in 1 .. k + 1 PROVE pos[i] \in 0 .. (n - 1) - 1 /\ t[pos[i] + 1] = p[i]
      <3>1. pos[i] \in 0 .. n - 1 /\ t[pos[i] + 1] = p[i] /\ (i < k + 1 => pos[i] < pos[k + 1])
        BY <1>3, <2>1 DEF Way
      <3>2. CASE i = k + 1
        BY <3>1, <3>2, <2>1, <2>2
      <3>3. CASE i < k + 1
        BY <3>1, <3>3, <2>1, <2>2
      <3> QED
        BY <3>2, <3>3
    <2>4. Way(t, p, k + 1, 0, n - 1, pos)
      BY <2>3, <1>3 DEF Way
    <2> QED
      BY <2>4 DEF Has
  <1>4. ASSUME NEW pos, Way(t, p, k + 2, 0, n, pos) PROVE Has(t, p, k + 1, 0, n - 1)
    <2>1. k + 2 \in 1 .. k + 2 /\ pos[k + 2] \in 0 .. n - 1
      BY <1>4 DEF Way
    <2>2. ASSUME NEW i \in 1 .. k + 1 PROVE pos[i] \in 0 .. (n - 1) - 1 /\ t[pos[i] + 1] = p[i]
      <3>1. i \in 1 .. k + 2 /\ i < k + 2
        OBVIOUS
      <3>2. pos[i] \in 0 .. n - 1 /\ t[pos[i] + 1] = p[i] /\ pos[i] < pos[k + 2]
        BY <3>1, <1>4, <2>1 DEF Way
      <3> QED
        BY <3>2, <2>1
    <2>3. \A i, j \in 1 .. k + 1 : i \in 1 .. k + 2 /\ j \in 1 .. k + 2
      OBVIOUS
    <2>4. Way(t, p, k + 1, 0, n - 1, pos)
      BY <2>2, <2>3, <1>4 DEF Way
    <2> QED
      BY <2>4 DEF Has
  <1> QED
    BY <1>1, <1>2, <1>3, <1>4 DEF Has

\* FirstEnd is the end of the shortest part t[0:e] with the characters of p in order, or -1.
LEMMA FirstEndIs ==
  ASSUME NEW A, NEW t \in Seq(A), NEW p \in Seq(A), p # <<>>
  PROVE  /\ FirstEnd(t, p) = -1 => ~Has(t, p, Len(p), 0, Len(t))
         /\ FirstEnd(t, p) # -1 => /\ FirstEnd(t, p) \in 1 .. Len(t)
                                   /\ Has(t, p, Len(p), 0, FirstEnd(t, p))
                                   /\ ~Has(t, p, Len(p), 0, FirstEnd(t, p) - 1)
  <1>1. PICK N, K : N = Len(t) /\ K = Len(p) /\ N \in Nat /\ K \in Nat \ {0}
    BY EmptySeq
  <1> DEFINE Inv(n, x) ==
               /\ Has(t, p, x.k, 0, n)
               /\ x.k < K => ~Has(t, p, x.k + 1, 0, n) /\ x.e = -1
               /\ x.k = K => x.e \in 1 .. n /\ Has(t, p, K, 0, x.e) /\ ~Has(t, p, K, 0, x.e - 1)
             S(n) == {x \in [k : 0 .. K, e : Int] : Inv(n, x)}
             Grow(n, x) == IF x.k < Len(p) /\ t[n] = p[x.k + 1]
                           THEN [k |-> x.k + 1, e |-> IF x.k + 1 = Len(p) THEN n ELSE -1] ELSE x
             x0 == [k |-> 0, e |-> -1]
             Made(f) == f = [n \in 0 .. Len(t) |-> IF n = 0 THEN x0 ELSE Grow(n, f[n - 1])]
             forth == CHOOSE f : Made(f)
  <1>2. x0 \in S(0)
    <2>1. Has(t, p, 0, 0, 0)
      <3>1. Way(t, p, 0, 0, 0, <<>>)
        BY DEF Way
      <3> QED
        BY <3>1 DEF Has
    <2>2. ~Has(t, p, 0 + 1, 0, 0)
      BY DEF Has, Way
    <2> QED
      BY <1>1, <2>1, <2>2
  <1>3. ASSUME NEW n \in 1 .. N, NEW x \in S(n - 1) PROVE Grow(n, x) \in S(n)
    <2>1. PICK k, e : k = x.k /\ e = x.e /\ x = [k |-> k, e |-> e] /\ k \in 0 .. K /\ e \in Int /\ Inv(n - 1, x)
      OBVIOUS
    <2>2. k \in Nat /\ n \in Nat \ {0} /\ n - 1 <= n /\ n - 1 \in Int
      BY <2>1, <1>1
    <2>3. CASE k < K /\ t[n] = p[k + 1]
      <3>1. Has(t, p, k + 1, 0, n)
        BY <2>1, <2>2, <2>3, HasNext
      <3>2. ~Has(t, p, k + 1, 0, n - 1)
        BY <2>1, <2>3
      <3>3. ~Has(t, p, k + 2, 0, n)
        BY <2>2, <3>2, HasNext
      <3>4. PICK y : y = Grow(n, x) /\ y = [k |-> k + 1, e |-> IF k + 1 = K THEN n ELSE -1]
        BY <2>1, <2>3, <1>1
      <3>5. k + 1 \in 0 .. K /\ (k + 1) + 1 = k + 2
        BY <2>1, <2>3, <1>1
      <3>6. Inv(n, y)
        BY <3>1, <3>2, <3>3, <3>4, <3>5, <2>2, <1>1
      <3> HIDE DEF Inv
      <3>7. y \in [k : 0 .. K, e : Int]
        BY <3>4, <3>5, <2>2
      <3> QED
        BY <3>4, <3>6, <3>7
    <2>4. CASE ~(k < K /\ t[n] = p[k + 1])
      <3>1. Grow(n, x) = x
        BY <2>1, <2>4, <1>1
      <3>2. Has(t, p, k, 0, n)
        BY <2>1, <2>2, HasWider
      <3>3. k < K => ~Has(t, p, k + 1, 0, n)
        BY <2>1, <2>2, <2>4, HasNext
      <3>4. Inv(n, x)
        BY <3>2, <3>3, <2>1, <2>2
      <3> HIDE DEF Inv
      <3> QED
        BY <3>1, <3>4
    <2> QED
      BY <2>3, <2>4
  <1> HIDE DEF Inv, S, Grow, x0
  <1>4. \E f : Made(f)
    <2>1. PICK T : T = [n \in 0 .. N |-> S(n)]
      OBVIOUS
    <2>2. PICK G : G = [n \in 1 .. N |-> [x \in S(n - 1) |-> Grow(n, x)]]
      OBVIOUS
    <2>3. PICK y0 : y0 = x0
      OBVIOUS
    <2>4. y0 \in T[0]
      BY <1>1, <1>2, <2>1, <2>3
    <2>5. \A n \in 1 .. N : n - 1 \in 0 .. N /\ n \in 0 .. N /\ T[n - 1] = S(n - 1) /\ T[n] = S(n)
      BY <1>1, <2>1
    <2>6. \A n \in 1 .. N : \A x \in T[n - 1] : G[n][x] = Grow(n, x)
      BY <2>2, <2>5
    <2>7. \A n \in 1 .. N : \A x \in T[n - 1] : G[n][x] \in T[n]
      BY <1>3, <2>5, <2>6
    <2>8. PICK f : Recursive(f, 0, N, y0, G, T)
      BY <1>1, <2>4, <2>7, Recursion
    <2>9. ASSUME NEW n \in 1 .. N PROVE f[n] = Grow(n, f[n - 1])
      <3>1. f[n] = G[n][f[n - 1]]
        <4>1. n \in 0 + 1 .. N
          BY <1>1
        <4> QED
          BY <2>8, <4>1 DEF Recursive
      <3>2. f[n - 1] \in T[n - 1]
        BY <2>5, <2>8 DEF Recursive
      <3> QED
        BY <2>6, <3>1, <3>2
    <2>10. ASSUME NEW n \in 0 .. N PROVE f[n] = IF n = 0 THEN x0 ELSE Grow(n, f[n - 1])
      <3>1. f[0] = y0
        BY <2>8 DEF Recursive
      <3>2. n = 0 \/ n \in 1 .. N
        BY <1>1
      <3> QED
        BY <2>3, <2>9, <3>1, <3>2
    <2>11. f = [n \in 0 .. N |-> f[n]]
      BY <2>8 DEF Recursive
    <2>12. f = [n \in 0 .. N |-> IF n = 0 THEN x0 ELSE Grow(n, f[n - 1])]
      BY <2>10, <2>11
    <2> QED
      BY <1>1, <2>12
  <1>5. Made(forth)
    BY <1>4
  <1>6. forth[N] \in S(N)
    <2>1. PICK T : T = [n \in 0 .. N |-> S(n)]
      OBVIOUS
    <2>2. \A n \in 1 .. N : n - 1 \in 0 .. N /\ n \in 0 .. N /\ T[n - 1] = S(n - 1) /\ T[n] = S(n)
      BY <1>1, <2>1
    <2>3. forth[0] = x0 /\ \A n \in 1 .. N : forth[n] = Grow(n, forth[n - 1])
      <3>1. PICK f : f = forth
        OBVIOUS
      <3>2. f = [n \in 0 .. N |-> IF n = 0 THEN x0 ELSE Grow(n, f[n - 1])]
        BY <3>1, <1>5, <1>1
      <3> HIDE DEF forth
      <3>3. f[0] = x0 /\ \A n \in 1 .. N : f[n] = Grow(n, f[n - 1])
        <4>1. N \in Nat
          BY <1>1
        <4> QED
          BY ONLY <3>2, <4>1
      <3> QED
        BY <3>1, <3>3
    <2>4. forth[0] \in T[0] /\ \A n \in 1 .. N : forth[n - 1] \in T[n - 1] => forth[n] \in T[n]
      BY <1>1, <1>2, <1>3, <2>1, <2>2, <2>3
    <2> HIDE DEF forth
    <2>5. \A n \in 0 .. N : forth[n] \in T[n]
      BY <1>1, <2>4, Throughout
    <2> QED
      BY <1>1, <2>1, <2>5
  <1>7. FirstEnd(t, p) = forth[N].e
    BY <1>1 DEF FirstEnd, Grow, x0
  <1>8. PICK x : x = forth[N] /\ x \in S(N)
    BY <1>6
  <1>9. PICK k : k = x.k /\ k \in 0 .. K /\ Inv(N, x) /\ x.e \in Int
    BY <1>8 DEF S
  <1>10. k < K \/ k = K
    BY <1>1, <1>9
  <1>11. CASE k < K
    <2>1. ~Has(t, p, K, 0, N)
      <3>1. ~Has(t, p, k + 1, 0, N)
        BY <1>9, <1>11 DEF Inv
      <3>2. ASSUME Has(t, p, K, 0, N) PROVE Has(t, p, k + 1, 0, N)
        <4>1. PICK pos : Way(t, p, K, 0, N, pos)
          BY <3>2 DEF Has
        <4>2. \A i \in 1 .. k + 1 : i \in 1 .. K
          BY <1>1, <1>9, <1>11
        <4>3. Way(t, p, k + 1, 0, N, pos)
          BY <4>1, <4>2 DEF Way
        <4> QED
          BY <4>3 DEF Has
      <3> QED
        BY <3>1, <3>2
    <2>2. FirstEnd(t, p) = -1
      BY <1>7, <1>8, <1>9, <1>11 DEF Inv
    <2> QED
      BY <1>1, <2>1, <2>2
  <1>12. CASE k = K
    <2>1. x.e \in 1 .. N /\ Has(t, p, K, 0, x.e) /\ ~Has(t, p, K, 0, x.e - 1)
      BY <1>9, <1>12 DEF Inv
    <2> QED
      BY <1>1, <1>7, <1>8, <2>1
  <1> QED
    BY <1>10, <1>11, <1>12

\* Reversed turns a sequence around, and twice gives it back.
LEMMA ReversedIs ==
  ASSUME NEW A, NEW s \in Seq(A)
  PROVE  /\ Reversed(s) \in Seq(A) /\ Len(Reversed(s)) = Len(s)
         /\ \A i \in 1 .. Len(s) : Len(s) + 1 - i \in 1 .. Len(s) /\ Reversed(s)[i] = s[Len(s) + 1 - i]
         /\ Reversed(Reversed(s)) = s
  <1>1. PICK n, r : n = Len(s) /\ n \in Nat /\ r = Reversed(s)
    OBVIOUS
  <1>2. r = [i \in 1 .. n |-> s[n + 1 - i]] /\ \A i \in 1 .. n : n + 1 - i \in 1 .. n /\ s[n + 1 - i] \in A
    BY <1>1 DEF Reversed
  <1>3. r \in Seq(A) /\ Len(r) = n
    BY <1>1, <1>2
  <1>4. Reversed(r) = [i \in 1 .. n |-> r[n + 1 - i]]
    BY <1>1, <1>3 DEF Reversed
  <1>5. \A i \in 1 .. n : r[n + 1 - i] = s[i]
    <2> TAKE i \in 1 .. n
    <2>1. r[n + 1 - i] = s[n + 1 - (n + 1 - i)]
      BY <1>2
    <2>2. n + 1 - (n + 1 - i) = i
      BY <1>1
    <2> QED
      BY <2>1, <2>2
  <1>6. s = [i \in 1 .. n |-> s[i]]
    BY <1>1
  <1>7. Reversed(r) = s
    BY <1>4, <1>5, <1>6
  <1> QED
    BY <1>1, <1>2, <1>3, <1>7

\* A way through the reversed text, backwards
LEMMA HasReversed ==
  ASSUME NEW A, NEW t \in Seq(A), NEW p \in Seq(A), NEW a \in Nat, NEW b \in Int, b <= Len(t),
         Has(Reversed(t), Reversed(p), Len(p), a, b)
  PROVE  Has(t, p, Len(p), Len(t) - b, Len(t) - a)
  <1>1. PICK n, K, u, q : n = Len(t) /\ n \in Nat /\ K = Len(p) /\ K \in Nat /\ u = Reversed(t) /\ q = Reversed(p)
    OBVIOUS
  <1>2. PICK pos : Way(u, q, K, a, b, pos)
    BY <1>1 DEF Has
  <1>3. PICK new : new = [k \in 1 .. K |-> n - 1 - pos[K + 1 - k]]
    OBVIOUS
  <1>4. ASSUME NEW k \in 1 .. K
        PROVE  new[k] \in n - b .. n - a - 1 /\ t[new[k] + 1] = p[k] /\ K + 1 - k \in 1 .. K
               /\ pos[K + 1 - k] \in a .. b - 1
    <2>1. PICK l : l = K + 1 - k /\ l \in 1 .. K /\ K + 1 - l = k
      BY <1>1
    <2>2. PICK x : x = pos[l] /\ x \in a .. b - 1 /\ u[x + 1] = q[l]
      BY <1>2, <2>1 DEF Way
    <2>3. q[l] = p[k]
      BY <1>1, <2>1, ReversedIs
    <2>4. x \in Int /\ a <= x /\ x < b /\ b <= n /\ 0 <= a /\ a \in Int
      BY <1>1, <2>2
    <2>5. PICK y : y = x + 1 /\ y \in 1 .. n /\ n + 1 - y = n - 1 - x + 1
      BY <1>1, <2>4
    <2>6. u[y] = t[n + 1 - y]
      BY <1>1, <2>5, ReversedIs
    <2>7. PICK z : z = n - 1 - x /\ z \in n - b .. n - a - 1 /\ t[z + 1] = p[k]
      <3>1. n - 1 - x \in n - b .. n - a - 1
        BY <1>1, <2>4
      <3>2. t[n + 1 - y] = p[k]
        BY <2>2, <2>3, <2>5, <2>6
      <3> QED
        BY <2>5, <3>1, <3>2
    <2>8. new[k] = z
      BY <1>3, <2>1, <2>2, <2>7
    <2> QED
      BY <2>1, <2>2, <2>7, <2>8
  <1>5. ASSUME NEW i \in 1 .. K, NEW k \in 1 .. K, i < k PROVE new[i] < new[k]
    <2>1. K + 1 - k \in 1 .. K /\ K + 1 - i \in 1 .. K /\ K + 1 - k < K + 1 - i
      BY <1>1, <1>5
    <2>2. pos[K + 1 - k] < pos[K + 1 - i]
      BY <1>2, <2>1 DEF Way
    <2> QED
      BY <1>1, <1>3, <1>4, <2>1, <2>2, SMTT(30)
  <1>6. Way(t, p, K, n - b, n - a, new)
    BY <1>4, <1>5 DEF Way
  <1> QED
    BY <1>1, <1>6 DEF Has

\* ... and the other way round
LEMMA HasReversedBack ==
  ASSUME NEW A, NEW t \in Seq(A), NEW p \in Seq(A), NEW a \in Nat, NEW b \in Int, b <= Len(t),
         Has(t, p, Len(p), a, b)
  PROVE  Has(Reversed(t), Reversed(p), Len(p), Len(t) - b, Len(t) - a)
  <1>1. PICK n, u, q : n = Len(t) /\ u = Reversed(t) /\ q = Reversed(p)
    OBVIOUS
  <1>2. u \in Seq(A) /\ q \in Seq(A) /\ Len(u) = n /\ Len(q) = Len(p) /\ Reversed(u) = t /\ Reversed(q) = p
    BY <1>1, ReversedIs
  <1>3. Has(Reversed(u), Reversed(q), Len(q), a, b)
    BY <1>2
  <1>4. Has(u, q, Len(q), Len(u) - b, Len(u) - a)
    BY <1>1, <1>2, <1>3, HasReversed
  <1> QED
    BY <1>1, <1>2, <1>4

\* Back from an end e, the search stops at the last start.
LEMMA ShortestToIs ==
  ASSUME NEW A, NEW t \in Seq(A), NEW p \in Seq(A), p # <<>>, NEW e \in 1 .. Len(t),
         NEW u, u = Reversed(SubSeq(t, 1, e)), NEW q, q = Reversed(p), Has(u, q, Len(p), 0, e)
  PROVE  \E s \in 0 .. e - 1 : /\ ShortestTo(t, p, e) = <<s, e>>
                               /\ Has(u, q, Len(p), 0, e - s)
                               /\ ~Has(u, q, Len(p), 0, e - s - 1)
  <1>1. PICK N, K : N = e /\ K = Len(p) /\ N \in Nat \ {0} /\ K \in Nat \ {0} /\ MaxOf(e, 0) = N
    BY EmptySeq DEF MaxOf
  <1> DEFINE Inv(n, x) ==
               /\ Has(u, q, K - x.k, 0, n)
               /\ x.k > 0 => ~Has(u, q, K - x.k + 1, 0, n) /\ x.s = -1
               /\ x.k = 0 => x.s \in 0 .. e - 1 /\ Has(u, q, K, 0, e - x.s) /\ ~Has(u, q, K, 0, e - x.s - 1)
             S(n) == {x \in [k : 0 .. K, s : Int] : Inv(n, x)}
             Grow(n, x) == IF x.k > 0 /\ t[e - n + 1] = p[x.k]
                           THEN [k |-> x.k - 1, s |-> IF x.k = 1 THEN e - n ELSE -1] ELSE x
             x0 == [k |-> Len(p), s |-> -1]
             Made(f) == f = [n \in 0 .. MaxOf(e, 0) |-> IF n = 0 THEN x0 ELSE Grow(n, f[n - 1])]
             back == CHOOSE f : Made(f)
  <1>u. ASSUME NEW n \in 1 .. N PROVE u[n] = t[e - n + 1]
    <2>1. PICK v : v = SubSeq(t, 1, e) /\ v \in Seq(A) /\ Len(v) = e /\ \A i \in 1 .. e : v[i] = t[i]
      <3>1. \A i \in 1 .. e : t[i] \in A
        OBVIOUS
      <3>2. SubSeq(t, 1, e) \in Seq(A) /\ Len(SubSeq(t, 1, e)) = e
        BY <3>1, SubSeqProperties
      <3>3. \A i \in 1 .. e - 1 + 1 : SubSeq(t, 1, e)[i] = t[1 + i - 1]
        BY <3>1, SubSeqProperties
      <3>4. \A i \in 1 .. e : SubSeq(t, 1, e)[i] = t[i]
        BY <3>3
      <3> QED
        BY <3>2, <3>4
    <2>2. n \in 1 .. e /\ e + 1 - n \in 1 .. e /\ e + 1 - n = e - n + 1
      BY <1>1
    <2>3. Reversed(v)[n] = v[e + 1 - n]
      <3>1. \A i \in 1 .. Len(v) : Reversed(v)[i] = v[Len(v) + 1 - i]
        BY <2>1, ReversedIs
      <3> QED
        BY <2>1, <2>2, <3>1
    <2> QED
      BY <2>1, <2>2, <2>3
  <1>q. ASSUME NEW k \in 1 .. K PROVE q[K - k + 1] = p[k]
    <2>1. PICK l : l = K - k + 1 /\ l \in 1 .. K /\ K + 1 - l = k
      BY <1>1
    <2>2. q[l] = p[K + 1 - l]
      BY <1>1, <2>1, ReversedIs
    <2> QED
      BY <2>1, <2>2
  <1>2. x0 \in S(0)
    <2>1. Has(u, q, 0, 0, 0)
      <3>1. Way(u, q, 0, 0, 0, <<>>)
        BY DEF Way
      <3> QED
        BY <3>1 DEF Has
    <2>2. ~Has(u, q, 0 + 1, 0, 0)
      BY DEF Has, Way
    <2>3. K - K = 0 /\ x0.k = K /\ x0.s = -1 /\ K > 0 /\ K \in 0 .. K
      BY <1>1
    <2>4. Inv(0, x0)
      BY <2>1, <2>2, <2>3
    <2> HIDE DEF Inv
    <2> QED
      BY <2>3, <2>4, <1>1
  <1>3. ASSUME NEW n \in 1 .. N, NEW x \in S(n - 1) PROVE Grow(n, x) \in S(n)
    <2>1. PICK k, s : k = x.k /\ s = x.s /\ x = [k |-> k, s |-> s] /\ k \in 0 .. K /\ s \in Int /\ Inv(n - 1, x)
      OBVIOUS
    <2>2. PICK j : j = K - k /\ j \in Nat /\ n \in Nat \ {0} /\ n - 1 <= n /\ n - 1 \in Int
      BY <2>1, <1>1
    <2>3. CASE k > 0 /\ t[e - n + 1] = p[k]
      <3>1. u[n] = q[j + 1]
        <4>1. k \in 1 .. K /\ u[n] = t[e - n + 1]
          BY <1>u, <2>1, <2>3, <1>1
        <4>2. q[K - k + 1] = p[k]
          BY <1>q, <4>1
        <4> QED
          BY <2>2, <2>3, <4>1, <4>2
      <3>2. Has(u, q, j + 1, 0, n)
        BY <2>1, <2>2, <3>1, HasNext
      <3>3. ~Has(u, q, j + 1, 0, n - 1)
        BY <2>1, <2>2, <2>3
      <3>4. ~Has(u, q, j + 2, 0, n)
        BY <2>2, <3>3, HasNext
      <3>5. PICK y : y = Grow(n, x) /\ y = [k |-> k - 1, s |-> IF k = 1 THEN e - n ELSE -1]
        BY <2>1, <2>3
      <3>6. k - 1 \in 0 .. K /\ K - (k - 1) = j + 1 /\ K - (k - 1) + 1 = j + 2 /\ (k = 1 => j + 1 = K)
            /\ e - n \in 0 .. e - 1 /\ e - (e - n) = n /\ e - n \in Int
        <4>1. e \in Int /\ K \in Int /\ k \in Int /\ n \in Int /\ 1 <= n /\ n <= e /\ 0 < k /\ k <= K
          BY <2>1, <2>2, <2>3, <1>1
        <4> QED
          BY <4>1, <2>2
      <3>7. Inv(n, y)
        <4>1. y.k = k - 1 /\ y.s = IF k = 1 THEN e - n ELSE -1
          BY <3>5
        <4>2. Has(u, q, K - y.k, 0, n)
          BY <4>1, <3>2, <3>6
        <4>3. CASE k = 1
          BY <4>1, <4>2, <4>3, <3>2, <3>3, <3>6
        <4>4. CASE k # 1
          BY <4>1, <4>2, <4>4, <3>4, <3>6, <2>1, <2>3
        <4> QED
          BY <4>3, <4>4
      <3> HIDE DEF Inv
      <3>8. y \in [k : 0 .. K, s : Int]
        BY <3>5, <3>6
      <3> QED
        BY <3>5, <3>7, <3>8
    <2>4. CASE ~(k > 0 /\ t[e - n + 1] = p[k])
      <3>1. Grow(n, x) = x
        BY <2>1, <2>4
      <3>2. Has(u, q, j, 0, n)
        BY <2>1, <2>2, HasWider
      <3>3. k > 0 => ~Has(u, q, j + 1, 0, n)
        <4>1. k > 0 => u[n] # q[j + 1]
          <5> SUFFICES ASSUME k > 0 PROVE u[n] # q[j + 1]
            OBVIOUS
          <5>1. k \in 1 .. K /\ u[n] = t[e - n + 1]
            BY <1>u, <2>1, <1>1
          <5>2. q[K - k + 1] = p[k]
            BY <1>q, <5>1
          <5> QED
            BY <2>2, <2>4, <5>1, <5>2
        <4> QED
          BY <2>1, <2>2, <4>1, HasNext
      <3>4. Inv(n, x)
        BY <3>2, <3>3, <2>1, <2>2
      <3> HIDE DEF Inv
      <3> QED
        BY <3>1, <3>4
    <2> QED
      BY <2>3, <2>4
  <1> HIDE DEF Inv, S, Grow, x0
  <1>4. \E f : Made(f)
    <2>1. PICK T : T = [n \in 0 .. N |-> S(n)]
      OBVIOUS
    <2>2. PICK G : G = [n \in 1 .. N |-> [x \in S(n - 1) |-> Grow(n, x)]]
      OBVIOUS
    <2>3. PICK y0 : y0 = x0
      OBVIOUS
    <2>4. y0 \in T[0]
      BY <1>1, <1>2, <2>1, <2>3
    <2>5. \A n \in 1 .. N : n - 1 \in 0 .. N /\ n \in 0 .. N /\ T[n - 1] = S(n - 1) /\ T[n] = S(n)
      BY <1>1, <2>1
    <2>6. \A n \in 1 .. N : \A x \in T[n - 1] : G[n][x] = Grow(n, x)
      BY <2>2, <2>5
    <2>7. \A n \in 1 .. N : \A x \in T[n - 1] : G[n][x] \in T[n]
      BY <1>3, <2>5, <2>6
    <2>8. PICK f : Recursive(f, 0, N, y0, G, T)
      BY <1>1, <2>4, <2>7, Recursion
    <2>9. ASSUME NEW n \in 1 .. N PROVE f[n] = Grow(n, f[n - 1])
      <3>1. f[n] = G[n][f[n - 1]]
        <4>1. n \in 0 + 1 .. N
          BY <1>1
        <4> QED
          BY <2>8, <4>1 DEF Recursive
      <3>2. f[n - 1] \in T[n - 1]
        BY <2>5, <2>8 DEF Recursive
      <3> QED
        BY <2>6, <3>1, <3>2
    <2>10. ASSUME NEW n \in 0 .. N PROVE f[n] = IF n = 0 THEN x0 ELSE Grow(n, f[n - 1])
      <3>1. f[0] = y0
        BY <2>8 DEF Recursive
      <3>2. n = 0 \/ n \in 1 .. N
        BY <1>1
      <3> QED
        BY <2>3, <2>9, <3>1, <3>2
    <2>11. f = [n \in 0 .. N |-> f[n]]
      BY <2>8 DEF Recursive
    <2>12. f = [n \in 0 .. N |-> IF n = 0 THEN x0 ELSE Grow(n, f[n - 1])]
      BY <2>10, <2>11
    <2> QED
      BY <1>1, <2>12
  <1>5. Made(back)
    BY <1>4
  <1>6. back[N] \in S(N)
    <2>1. PICK T : T = [n \in 0 .. N |-> S(n)]
      OBVIOUS
    <2>2. \A n \in 1 .. N : n - 1 \in 0 .. N /\ n \in 0 .. N /\ T[n - 1] = S(n - 1) /\ T[n] = S(n)
      BY <1>1, <2>1
    <2>3. back[0] = x0 /\ \A n \in 1 .. N : back[n] = Grow(n, back[n - 1])
      <3>1. PICK f : f = back
        OBVIOUS
      <3>2. f = [n \in 0 .. N |-> IF n = 0 THEN x0 ELSE Grow(n, f[n - 1])]
        BY <3>1, <1>5, <1>1
      <3> HIDE DEF back
      <3>3. f[0] = x0 /\ \A n \in 1 .. N : f[n] = Grow(n, f[n - 1])
        <4>1. N \in Nat
          BY <1>1
        <4> QED
          BY ONLY <3>2, <4>1
      <3> QED
        BY <3>1, <3>3
    <2>4. back[0] \in T[0] /\ \A n \in 1 .. N : back[n - 1] \in T[n - 1] => back[n] \in T[n]
      BY <1>1, <1>2, <1>3, <2>1, <2>2, <2>3
    <2> HIDE DEF back
    <2>5. \A n \in 0 .. N : back[n] \in T[n]
      BY <1>1, <2>4, Throughout
    <2> QED
      BY <1>1, <2>1, <2>5
  <1>7. ShortestTo(t, p, e) = <<back[N].s, e>>
    BY <1>1 DEF ShortestTo, Grow, x0
  <1>8. PICK x, k : x = back[N] /\ x \in S(N) /\ k = x.k
    BY <1>6
  <1>9. k \in 0 .. K /\ Inv(N, x)
    BY <1>8 DEF S
  <1>10. k = 0
    <2> SUFFICES ASSUME k > 0 PROVE FALSE
      BY <1>1, <1>9
    <2>1. PICK j : j = K - k + 1 /\ j \in 1 .. K /\ ~Has(u, q, j, 0, N)
      <3>1. ~Has(u, q, K - k + 1, 0, N) /\ k \in 1 .. K
        BY <1>1, <1>8, <1>9 DEF Inv
      <3>2. K - k + 1 \in 1 .. K
        BY <1>1, <3>1
      <3> QED
        BY <3>1, <3>2
    <2>2. PICK pos : Way(u, q, K, 0, N, pos)
      BY <1>1 DEF Has
    <2>3. \A i \in 1 .. j : i \in 1 .. K
      BY <1>1, <2>1
    <2>4. Way(u, q, j, 0, N, pos)
      BY <2>2, <2>3 DEF Way
    <2> QED
      BY <2>1, <2>4 DEF Has
  <1>11. x.s \in 0 .. e - 1 /\ Has(u, q, K, 0, e - x.s) /\ ~Has(u, q, K, 0, e - x.s - 1)
    BY <1>8, <1>9, <1>10 DEF Inv
  <1> QED
    BY <1>1, <1>7, <1>8, <1>11

\* The search forth and back finds a shortest part with the pattern: the first that ends, and of
\* those the last that starts.
LEMMA ShortestFromIs ==
  ASSUME NEW A, NEW t \in Seq(A), NEW p \in Seq(A), p # <<>>, NEW m, m = ShortestFrom(t, p)
  PROVE  \/ ~Has(t, p, Len(p), 0, Len(t)) /\ m[2] = -1
         \/ \E s, e \in 0 .. Len(t) : /\ m = <<s, e>> /\ s < e
                                      /\ Has(t, p, Len(p), s, e) /\ ~Has(t, p, Len(p), s + 1, e)
                                      /\ ~Has(t, p, Len(p), 0, e - 1)
  <1>0. PICK e : e = FirstEnd(t, p)
    OBVIOUS
  <1>1. PICK n, K : e = FirstEnd(t, p) /\ n = Len(t) /\ K = Len(p) /\ n \in Nat /\ K \in Nat
    BY <1>0
  <1>2. m = ShortestTo(t, p, e)
    BY <1>1 DEF ShortestFrom
  <1>3. CASE e = -1
    <2>1. ~Has(t, p, K, 0, n)
      BY <1>1, <1>3, FirstEndIs
    <2>2. m[2] = -1
      BY <1>2, <1>3 DEF ShortestTo
    <2> QED
      BY <1>1, <2>1, <2>2
  <1>4. CASE e # -1
    <2>1. e \in 1 .. n /\ Has(t, p, K, 0, e) /\ ~Has(t, p, K, 0, e - 1)
      BY <1>1, <1>4, FirstEndIs
    <2>2. PICK v : v = SubSeq(t, 1, e) /\ v \in Seq(A) /\ Len(v) = e /\ \A i \in 1 .. e : v[i] = t[i]
      <3>1. \A i \in 1 .. e : t[i] \in A
        BY <1>1, <2>1
      <3>2. SubSeq(t, 1, e) \in Seq(A) /\ Len(SubSeq(t, 1, e)) = e
        BY <2>1, <3>1, SubSeqProperties
      <3>3. \A i \in 1 .. e - 1 + 1 : SubSeq(t, 1, e)[i] = t[1 + i - 1]
        BY <2>1, <3>1, SubSeqProperties
      <3>4. \A i \in 1 .. e : SubSeq(t, 1, e)[i] = t[i]
        BY <2>1, <3>3
      <3> QED
        BY <3>2, <3>4
    <2>3. ASSUME NEW a \in Nat, NEW b \in Int, b <= e PROVE Has(v, p, K, a, b) <=> Has(t, p, K, a, b)
      <3>1. ASSUME NEW pos, NEW k \in 1 .. K, pos[k] \in a .. b - 1 PROVE v[pos[k] + 1] = t[pos[k] + 1]
        <4>1. PICK x : x = pos[k] + 1 /\ x \in 1 .. e
          BY <2>1, <2>3, <3>1
        <4> QED
          BY <2>2, <4>1
      <3>2. ASSUME NEW pos PROVE Way(v, p, K, a, b, pos) <=> Way(t, p, K, a, b, pos)
        BY <3>1 DEF Way
      <3> QED
        BY <3>2 DEF Has
    <2>4. PICK u, q : u = Reversed(v) /\ q = Reversed(p)
      OBVIOUS
    <2>5. ASSUME NEW a \in 0 .. e PROVE Has(v, p, K, e - a, e) <=> Has(u, q, K, 0, a)
      <3>1. PICK c : c = e - a /\ c \in Nat /\ e - c = a /\ e - e = 0 /\ e - 0 = e /\ a \in Int /\ a <= e /\ 0 \in Nat
                     /\ e <= e /\ e \in Int
        BY <2>1, <2>5
      <3>2. Has(v, p, K, c, e) => Has(u, q, K, e - e, e - c)
        BY <1>1, <2>2, <2>4, <3>1, HasReversedBack
      <3>3. Has(u, q, K, 0, a) => Has(v, p, K, e - a, e - 0)
        BY <1>1, <2>2, <2>4, <3>1, HasReversed
      <3> QED
        BY <3>1, <3>2, <3>3
    <2>6. Has(u, q, K, 0, e)
      <3>1. e \in 0 .. e /\ e - e = 0 /\ 0 \in Nat /\ e \in Int /\ e <= e
        BY <2>1
      <3> QED
        BY <2>1, <2>3, <2>5, <3>1
    <2>7. PICK s \in 0 .. e - 1 : m = <<s, e>> /\ Has(u, q, K, 0, e - s) /\ ~Has(u, q, K, 0, e - s - 1)
      <3>1. e \in 1 .. Len(t) /\ u = Reversed(SubSeq(t, 1, e)) /\ Has(u, q, Len(p), 0, e)
        BY <1>1, <2>1, <2>2, <2>4, <2>6
      <3>2. PICK s \in 0 .. e - 1 : /\ ShortestTo(t, p, e) = <<s, e>>
                                    /\ Has(u, q, Len(p), 0, e - s)
                                    /\ ~Has(u, q, Len(p), 0, e - s - 1)
        BY <2>4, <3>1, ShortestToIs
      <3> QED
        BY <1>1, <1>2, <3>2
    <2>8. PICK d : d = e - s /\ d \in 0 .. e /\ d - 1 \in 0 .. e /\ e - d = s /\ e - (d - 1) = s + 1 /\ s \in Nat
                   /\ s + 1 \in Nat /\ e \in Int /\ e <= e
      BY <2>1, <2>7
    <2>9. Has(v, p, K, s, e) /\ ~Has(v, p, K, s + 1, e)
      <3>1. Has(v, p, K, e - d, e)
        BY <2>5, <2>7, <2>8
      <3>2. PICK d1 : d1 = d - 1 /\ d1 \in 0 .. e
        BY <2>8
      <3>3. ~Has(v, p, K, e - d1, e)
        BY <2>5, <2>7, <2>8, <3>2
      <3> QED
        BY <2>8, <3>1, <3>2, <3>3
    <2>10. Has(t, p, K, s, e) /\ ~Has(t, p, K, s + 1, e)
      BY <2>3, <2>8, <2>9
    <2>11. s \in 0 .. n /\ e \in 0 .. n /\ s < e
      BY <1>1, <2>1, <2>7
    <2> QED
      BY <1>1, <2>1, <2>7, <2>10, <2>11
  <1> QED
    BY <1>3, <1>4

\* V1 without the prefilter, forwards and backwards
LEMMA GreedyIs ==
  ASSUME NEW A, NEW t \in Seq(A), NEW p \in Seq(A), p # <<>>, NEW text, Len(text) = Len(t), NEW o,
         NEW g, g = (IF o.forward THEN ShortestFrom(t, p) ELSE ShortestFrom(Reversed(t), Reversed(p))),
         NEW r, r = GreedyIn(text, p, g, o)
  PROVE  \/ ~Has(t, p, Len(p), 0, Len(t)) /\ r = NoMatch
         \/ /\ Has(t, p, Len(p), 0, Len(t))
            /\ r.start \in 0 .. Len(t) /\ r.end \in 0 .. Len(t)
            /\ Has(t, p, Len(p), r.start, r.end)
            /\ ~Has(t, p, Len(p), r.start + 1, r.end) /\ ~Has(t, p, Len(p), r.start, r.end - 1)
            /\ IF o.forward THEN ~Has(t, p, Len(p), 0, r.end - 1) ELSE ~Has(t, p, Len(p), r.start + 1, Len(t))
  <1>1. PICK n, K : n = Len(t) /\ K = Len(p) /\ n \in Nat /\ K \in Nat
    OBVIOUS
  <1>2. CASE o.forward
    <2>1. PICK m : m = ShortestFrom(t, p) /\ r = GreedyIn(text, p, m, o)
      BY <1>2
    <2>2. CASE ~Has(t, p, K, 0, n) /\ m[2] = -1
      <3>1. r = NoMatch
        BY <2>1, <2>2 DEF GreedyIn
      <3> QED
        BY <1>1, <2>2, <3>1
    <2>3. ASSUME NEW s \in 0 .. n, NEW e \in 0 .. n, m = <<s, e>>, s < e, Has(t, p, K, s, e),
                 ~Has(t, p, K, s + 1, e), ~Has(t, p, K, 0, e - 1)
          PROVE  /\ r.start = s /\ r.end = e
                 /\ Has(t, p, K, 0, n) /\ ~Has(t, p, K, s, e - 1)
      <3>1. r = ScoredMatch(text, p, s, e, o)
        BY <1>2, <2>1, <2>3 DEF GreedyIn
      <3>2. Has(t, p, K, 0, n)
        BY <1>1, <2>3, HasWider
      <3>3. ~Has(t, p, K, s, e - 1)
        BY <1>1, <2>3, HasWider
      <3> QED
        BY <3>1, <3>2, <3>3 DEF ScoredMatch
    <2>4. \/ ~Has(t, p, K, 0, n) /\ m[2] = -1
          \/ \E s, e \in 0 .. n : /\ m = <<s, e>> /\ s < e
                                  /\ Has(t, p, K, s, e) /\ ~Has(t, p, K, s + 1, e) /\ ~Has(t, p, K, 0, e - 1)
      BY <1>1, <2>1, ShortestFromIs
    <2>5. CASE \E s, e \in 0 .. n : /\ m = <<s, e>> /\ s < e
                                    /\ Has(t, p, K, s, e) /\ ~Has(t, p, K, s + 1, e) /\ ~Has(t, p, K, 0, e - 1)
      BY <1>1, <1>2, <2>3, <2>5
    <2> QED
      BY <2>2, <2>4, <2>5
  <1>3. CASE ~o.forward
    <2>1. PICK u, q, m : /\ u = Reversed(t) /\ q = Reversed(p) /\ m = ShortestFrom(u, q)
                         /\ r = GreedyIn(text, p, m, o)
      BY <1>3
    <2>2. u \in Seq(A) /\ q \in Seq(A) /\ Len(u) = n /\ Len(q) = K /\ q # <<>>
      BY <1>1, <2>1, ReversedIs, EmptySeq
    <2>3. ASSUME NEW a \in Nat, NEW b \in Int, b <= n PROVE Has(u, q, K, a, b) <=> Has(t, p, K, n - b, n - a)
      <3>1. Has(u, q, K, a, b) => Has(t, p, K, n - b, n - a)
        BY <1>1, <2>1, <2>3, HasReversed
      <3>2. Has(t, p, K, n - b, n - a) => Has(u, q, K, a, b)
        <4>1. PICK c, d : c = n - b /\ d = n - a /\ c \in Nat /\ d \in Int /\ d <= n /\ n - d = a /\ n - c = b
          BY <1>1, <2>3
        <4>2. Has(t, p, K, c, d) => Has(u, q, K, n - d, n - c)
          BY <1>1, <2>1, <4>1, HasReversedBack
        <4> QED
          BY <4>1, <4>2
      <3> QED
        BY <3>1, <3>2
    <2>4. Has(u, q, K, 0, n) <=> Has(t, p, K, 0, n)
      <3>1. 0 \in Nat /\ n \in Int /\ n <= n /\ n - n = 0 /\ n - 0 = n
        BY <1>1
      <3> QED
        BY <2>3, <3>1
    <2>5. CASE ~Has(u, q, K, 0, n) /\ m[2] = -1
      <3>1. r = NoMatch
        BY <2>1, <2>5 DEF GreedyIn
      <3> QED
        BY <1>1, <2>4, <2>5, <3>1
    <2>6. ASSUME NEW s \in 0 .. n, NEW e \in 0 .. n, m = <<s, e>>, s < e, Has(u, q, K, s, e),
                 ~Has(u, q, K, s + 1, e), ~Has(u, q, K, 0, e - 1)
          PROVE  /\ r.start \in 0 .. n /\ r.end \in 0 .. n
                 /\ Has(t, p, K, r.start, r.end) /\ Has(t, p, K, 0, n)
                 /\ ~Has(t, p, K, r.start, r.end - 1) /\ ~Has(t, p, K, r.start + 1, n)
                 /\ ~Has(t, p, K, r.start + 1, r.end)
      <3>1. r = ScoredMatch(text, p, n - e, n - s, o)
        BY <1>1, <1>3, <2>1, <2>6 DEF GreedyIn
      <3>2. PICK b, d : b = n - e /\ d = n - s /\ b \in 0 .. n /\ d \in 0 .. n /\ r.start = b /\ r.end = d
        BY <1>1, <2>6, <3>1 DEF ScoredMatch
      <3>3. Has(t, p, K, b, d)
        BY <2>3, <2>6, <3>2, <1>1
      <3>4. Has(t, p, K, 0, n)
        BY <1>1, <3>2, <3>3, HasWider
      <3>5. ~Has(t, p, K, b, d - 1)
        <4>1. n - (s + 1) = d - 1 /\ s + 1 \in Nat /\ e \in Int /\ e <= n
          BY <1>1, <2>6, <3>2
        <4> QED
          BY <2>3, <2>6, <3>2, <4>1
      <3>6. ~Has(t, p, K, b + 1, n)
        <4>1. PICK e1 : e1 = e - 1 /\ n - e1 = b + 1 /\ 0 \in Nat /\ e1 \in Int /\ e1 <= n /\ n - 0 = n
          BY <1>1, <2>6, <3>2
        <4> QED
          BY <2>3, <2>6, <4>1
      <3>7. ~Has(t, p, K, b + 1, d)
        BY <1>1, <3>2, <3>6, HasWider
      <3> QED
        BY <3>2, <3>3, <3>4, <3>5, <3>6, <3>7
    <2>7. \/ ~Has(u, q, K, 0, n) /\ m[2] = -1
          \/ \E s, e \in 0 .. n : /\ m = <<s, e>> /\ s < e
                                  /\ Has(u, q, K, s, e) /\ ~Has(u, q, K, s + 1, e) /\ ~Has(u, q, K, 0, e - 1)
      BY <1>1, <2>1, <2>2, ShortestFromIs
    <2>8. CASE \E s, e \in 0 .. n : /\ m = <<s, e>> /\ s < e
                                    /\ Has(u, q, K, s, e) /\ ~Has(u, q, K, s + 1, e) /\ ~Has(u, q, K, 0, e - 1)
      BY <1>1, <1>3, <2>6, <2>8
    <2> QED
      BY <2>5, <2>7, <2>8
  <1> QED
    BY <1>2, <1>3

-----------------------------------------------------------------------------
(* The prefilter *)

\* What a character of the text folds to is ASCII if it is, and then the search for the pattern's
\* character finds it; any other it finds under the conditions of runePrefilterable.
LEMMA FoldsToFinds ==
  ASSUME NEW c, NEW p, NEW o, Folded(c, o) = p,
         IsAscii(c) \/ ((NormalizeRune(c) # c => ~IsAscii(p)) /\ (o.case \/ IsAscii(p)))
  PROVE  Finds(c, p, o) /\ (IsAscii(c) => IsAscii(p))
  <1>1. CASE o.case
    <2>1. p = IF o.norm THEN NormalizeRune(c) ELSE c
      BY <1>1 DEF Folded
    <2>2. CASE c = "aacute"
      BY <2>1, <2>2, <1>1 DEF NormalizeRune, IsAscii, Finds
    <2>3. CASE c = "Aacute"
      BY <2>1, <2>3, <1>1 DEF NormalizeRune, IsAscii, Finds
    <2>4. CASE c # "aacute" /\ c # "Aacute"
      BY <2>1, <2>4 DEF NormalizeRune, IsAscii, Finds
    <2> QED
      BY <2>2, <2>3, <2>4
  <1>2. CASE ~o.case
    <2>1. p = IF o.norm THEN NormalizeRune(Lower(c)) ELSE Lower(c)
      BY <1>2 DEF Folded
    <2>2. CASE c = "aacute"
      <3>1. Lower(c) = "aacute" /\ NormalizeRune(c) # c
        BY <2>2 DEF Lower, NormalizeRune
      <3> QED
        BY <2>1, <2>2, <3>1, <1>2 DEF NormalizeRune, IsAscii, Finds
    <2>3. CASE c = "Aacute"
      <3>1. Lower(c) = "aacute" /\ NormalizeRune(c) # c
        BY <2>3 DEF Lower, NormalizeRune
      <3> QED
        BY <2>1, <2>3, <3>1, <1>2 DEF NormalizeRune, IsAscii, Finds
    <2>4. CASE c = "A"
      <3>1. Lower(c) = "a" /\ NormalizeRune("a") = "a"
        BY <2>4 DEF Lower, NormalizeRune
      <3> QED
        BY <2>1, <2>4, <3>1, <1>2 DEF IsAscii, Finds
    <2>5. CASE c = "B"
      <3>1. Lower(c) = "b" /\ NormalizeRune("b") = "b"
        BY <2>5 DEF Lower, NormalizeRune
      <3> QED
        BY <2>1, <2>5, <3>1, <1>2 DEF IsAscii, Finds
    <2>6. CASE c \notin {"aacute", "Aacute", "A", "B"}
      <3>1. Lower(c) = c /\ NormalizeRune(c) = c
        BY <2>6 DEF Lower, NormalizeRune
      <3> QED
        BY <2>1, <3>1 DEF Finds
    <2> QED
      BY <2>2, <2>3, <2>4, <2>5, <2>6
  <1> QED
    BY <1>1, <1>2

\* The next place of a character is the least.
LEMMA IndexFromIs ==
  ASSUME NEW text, Len(text) \in Nat, NEW c, NEW i \in Nat, NEW o
  PROVE  \/ /\ IndexFrom(text, c, i, o) = -1
            /\ \A j \in i .. Len(text) - 1 : ~Finds(At(text, j), c, o)
         \/ /\ IndexFrom(text, c, i, o) \in i .. Len(text) - 1
            /\ \A j \in i .. Len(text) - 1 : Finds(At(text, j), c, o) => IndexFrom(text, c, i, o) <= j
  <1> DEFINE at == {j \in i .. Len(text) - 1 : Finds(At(text, j), c, o)}
  <1>1. IndexFrom(text, c, i, o) = IF at = {} THEN -1 ELSE CHOOSE j \in at : \A k \in at : j <= k
    BY DEF IndexFrom
  <1>2. CASE at = {}
    BY <1>1, <1>2
  <1>3. CASE at # {}
    <2>1. at \in SUBSET Nat
      OBVIOUS
    <2>2. \E j \in at : \A k \in at : j <= k
      <3> HIDE DEF at
      <3> QED
        BY <1>3, <2>1, LeastNat
    <2>3. PICK x : x = CHOOSE j \in at : \A k \in at : j <= k
      OBVIOUS
    <2>4. x \in at /\ \A k \in at : x <= k
      <3> HIDE DEF at
      <3> QED
        BY <2>2, <2>3
    <2>5. IndexFrom(text, c, i, o) = x
      BY <1>1, <1>3, <2>3
    <2> QED
      BY <2>4, <2>5
  <1> QED
    BY <1>2, <1>3

\* The last place of a character is the greatest.
LEMMA LastIndexIs ==
  ASSUME NEW text, Len(text) \in Nat, NEW c, NEW i \in 0 .. Len(text), NEW o
  PROVE  /\ LastIndexOf(text, c, i, o) \in i - 1 .. Len(text) - 1
         /\ \A j \in i .. Len(text) - 1 : Finds(At(text, j), c, o) => j <= LastIndexOf(text, c, i, o)
  <1> DEFINE at == {j \in i .. Len(text) - 1 : Finds(At(text, j), c, o)}
  <1>1. LastIndexOf(text, c, i, o) = IF at = {} THEN i - 1 ELSE CHOOSE j \in at : \A k \in at : k <= j
    BY DEF LastIndexOf
  <1>2. CASE at = {}
    BY <1>1, <1>2
  <1>3. CASE at # {}
    <2>1. at \in SUBSET Nat /\ IsFiniteSet(at)
      <3>1. at \subseteq i .. Len(text) - 1 /\ IsFiniteSet(i .. Len(text) - 1)
        <4>1. i \in Int /\ Len(text) - 1 \in Int
          OBVIOUS
        <4> QED
          BY <4>1, FS_Interval
      <3> QED
        BY <3>1, FS_Subset
    <2>2. \E j \in at : \A k \in at : k <= j
      <3> HIDE DEF at
      <3> QED
        BY <1>3, <2>1, GreatestNat
    <2>3. PICK x : x = CHOOSE j \in at : \A k \in at : k <= j
      OBVIOUS
    <2>4. x \in at /\ \A k \in at : k <= x
      <3> HIDE DEF at
      <3> QED
        BY <2>2, <2>3
    <2>5. LastIndexOf(text, c, i, o) = x
      BY <1>1, <1>3, <2>3
    <2>6. x \in i .. Len(text) - 1
      BY <2>4
    <2> QED
      BY <2>4, <2>5, <2>6
  <1> QED
    BY <1>2, <1>3

\* pos are places of the pattern's characters, for the search of the prefilter.
Found(text, p, o, pos) ==
  /\ \A k \in 1 .. Len(p) : pos[k] \in 0 .. Len(text) - 1 /\ Finds(At(text, pos[k]), p[k], o)
  /\ \A i, k \in 1 .. Len(p) : i < k => pos[i] < pos[k]

\* One after the other, the characters are found where they are or earlier.
LEMMA PlacesAre ==
  ASSUME NEW text, Len(text) \in Nat, NEW A, NEW p \in Seq(A), p # <<>>, NEW o, NEW pos,
         NEW at, at = Places(text, p, o)
  PROVE  /\ at \in Seq(-1 .. Len(text) - 1) /\ at # <<>>
         /\ at[Len(at)] # -1 => 0 <= at[1] /\ at[1] <= at[Len(at)]
         /\ Found(text, p, o, pos) => Len(at) = Len(p) /\ \A k \in 1 .. Len(p) : 0 <= at[k] /\ at[k] <= pos[k]
  <1>1. PICK n, K : n = Len(text) /\ K = Len(p) /\ n \in Nat /\ K \in Nat \ {0}
    BY EmptySeq
  <1> DEFINE V == -1 .. n - 1
             Inv(k, so) ==
               /\ k = 0 => so = <<>>
               /\ k > 0 => so # <<>>
               /\ so # <<>> /\ so[Len(so)] # -1 => 0 <= so[1] /\ so[1] <= so[Len(so)]
               /\ Found(text, p, o, pos) => Len(so) = k /\ \A i \in 1 .. k : 0 <= so[i] /\ so[i] <= pos[i]
             S(k) == {so \in Seq(V) : Inv(k, so)}
             Grow(k, so) == IF so # <<>> /\ so[Len(so)] = -1 THEN so
                            ELSE Append(so, IndexFrom(text, p[k], IF so = <<>> THEN 0 ELSE so[Len(so)] + 1, o))
             Made(f) == f = [k \in 0 .. Len(p) |-> IF k = 0 THEN <<>> ELSE Grow(k, f[k - 1])]
             found == CHOOSE f : Made(f)
  <1>2. <<>> \in S(0)
    OBVIOUS
  <1>3. ASSUME NEW k \in 1 .. K, NEW so \in S(k - 1) PROVE Grow(k, so) \in S(k)
    <2>1. so \in Seq(V) /\ Inv(k - 1, so) /\ k \in Nat /\ k - 1 \in Nat
      BY <1>1
    <2>2. CASE so # <<>> /\ so[Len(so)] = -1
      <3>1. Grow(k, so) = so
        BY <2>2
      <3>2. k > 0 /\ k - 1 # 0
        BY <2>1, <2>2
      <3>3. ~Found(text, p, o, pos)
        <4> SUFFICES ASSUME Found(text, p, o, pos) PROVE FALSE
          OBVIOUS
        <4>1. Len(so) = k - 1 /\ k - 1 \in 1 .. k - 1
          BY <2>1, <3>2
        <4>2. 0 <= so[k - 1]
          BY <2>1, <4>1
        <4> QED
          BY <2>2, <4>1, <4>2
      <3>4. Inv(k, so)
        BY <2>1, <2>2, <3>2, <3>3
      <3> HIDE DEF Inv
      <3> QED
        BY <2>1, <3>1, <3>4
    <2>3. CASE ~(so # <<>> /\ so[Len(so)] = -1)
      <3>0. PICK W : W = V /\ so \in Seq(W)
        BY <2>1
      <3>1. PICK l : l = Len(so) /\ l \in Nat /\ (l = 0 <=> so = <<>>) /\ \A i \in 1 .. l : so[i] \in W
        BY <3>0, EmptySeq, ElementOfSeq
      <3>2. PICK b : b = (IF so = <<>> THEN 0 ELSE so[l] + 1) /\ b \in Nat
        <4>1. CASE so = <<>>
          BY <4>1
        <4>2. CASE so # <<>>
          <5>1. so[l] \in V /\ so[l] # -1
            BY <4>2, <3>0, <3>1, <2>3
          <5>2. so[l] + 1 \in Nat
            BY <5>1, <1>1
          <5> QED
            BY <4>2, <5>2
        <4> QED
          BY <4>1, <4>2
      <3>3. PICK x : x = IndexFrom(text, p[k], b, o)
        OBVIOUS
      <3>4. \/ x = -1 /\ \A j \in b .. n - 1 : ~Finds(At(text, j), p[k], o)
            \/ x \in b .. n - 1 /\ \A j \in b .. n - 1 : Finds(At(text, j), p[k], o) => x <= j
        BY <1>1, <3>2, <3>3, IndexFromIs
      <3>5. x \in V
        BY <1>1, <3>2, <3>4
      <3>6. PICK new : new = Append(so, x) /\ new = Grow(k, so)
        BY <2>3, <3>1, <3>2, <3>3
      <3>7. /\ new \in Seq(V) /\ new # <<>> /\ Len(new) = l + 1 /\ new[l + 1] = x
            /\ \A i \in 1 .. l : new[i] = so[i]
        <4>1. x \in W /\ W = V
          BY <3>0, <3>5
        <4> HIDE DEF V
        <4>2. Append(so, x) \in Seq(W) /\ Len(Append(so, x)) = l + 1 /\ Append(so, x)[l + 1] = x
              /\ \A i \in 1 .. l : Append(so, x)[i] = so[i]
          BY <3>0, <3>1, <4>1, AppendProperties
        <4>3. Append(so, x) # <<>>
          <5>1. l + 1 # 0
            BY <3>1
          <5> QED
            BY <4>2, <5>1
        <4> QED
          BY <3>6, <4>1, <4>2, <4>3
      <3>8. x # -1 => 0 <= new[1] /\ new[1] <= x
        <4> SUFFICES ASSUME x # -1 PROVE 0 <= new[1] /\ new[1] <= x
          OBVIOUS
        <4>1. x \in b .. n - 1
          BY <3>4
        <4>2. CASE so = <<>>
          BY <4>1, <4>2, <3>1, <3>2, <3>7
        <4>3. CASE so # <<>>
          <5>0. 1 \in 1 .. l /\ l \in 1 .. l
            BY <4>3, <3>1
          <5>1. 0 <= so[1] /\ so[1] <= so[l] /\ so[l] \in V /\ so[1] \in V /\ b = so[l] + 1 /\ new[1] = so[1]
            BY <5>0, <4>3, <2>1, <2>3, <3>0, <3>1, <3>2, <3>7
          <5> QED
            BY <4>1, <5>1, <1>1
        <4> QED
          BY <4>2, <4>3
      <3>9. ASSUME Found(text, p, o, pos)
            PROVE  Len(new) = k /\ \A i \in 1 .. k : 0 <= new[i] /\ new[i] <= pos[i]
        <4>1. l = k - 1 /\ l + 1 = k /\ \A i \in 1 .. l : 0 <= so[i] /\ so[i] <= pos[i]
          BY <2>1, <3>1, <3>9
        <4>2. pos[k] \in 0 .. n - 1 /\ Finds(At(text, pos[k]), p[k], o)
          BY <1>1, <3>9 DEF Found
        <4>3. b <= pos[k]
          <5>1. CASE l = 0
            BY <3>1, <3>2, <4>2, <5>1
          <5>2. CASE l # 0
            <6>1. l \in 1 .. K /\ l < k /\ k \in 1 .. K /\ l \in 1 .. l
              BY <1>1, <4>1, <5>2, <3>1
            <6>2. pos[l] < pos[k] /\ pos[l] \in 0 .. n - 1
              BY <1>1, <3>9, <6>1 DEF Found
            <6>3. so[l] <= pos[l] /\ so[l] \in V /\ b = so[l] + 1
              BY <3>0, <3>1, <3>2, <4>1, <5>2, <6>1
            <6> QED
              BY <1>1, <4>2, <6>2, <6>3
          <5> QED
            BY <5>1, <5>2
        <4>4. pos[k] \in b .. n - 1
          BY <1>1, <3>2, <4>2, <4>3
        <4>5. 0 <= x /\ x <= pos[k]
          BY <3>2, <3>4, <4>2, <4>4
        <4>6. ASSUME NEW i \in 1 .. k PROVE 0 <= new[i] /\ new[i] <= pos[i]
          <5>1. CASE i = k
            BY <4>1, <4>5, <3>7, <5>1
          <5>2. CASE i # k
            <6>1. i \in 1 .. l
              BY <4>1, <5>2, <2>1
            <6> QED
              BY <6>1, <4>1, <3>7
          <5> QED
            BY <5>1, <5>2
        <4> QED
          BY <4>1, <4>6, <3>7
      <3>10. Inv(k, new)
        BY <3>7, <3>8, <3>9, <2>1
      <3> HIDE DEF Inv
      <3> QED
        BY <3>6, <3>7, <3>10
    <2> QED
      BY <2>2, <2>3
  <1> HIDE DEF Inv, S, Grow
  <1>4. \E f : Made(f)
    <2>1. PICK T : T = [k \in 0 .. K |-> S(k)]
      OBVIOUS
    <2>2. PICK G : G = [k \in 1 .. K |-> [so \in S(k - 1) |-> Grow(k, so)]]
      OBVIOUS
    <2>4. <<>> \in T[0]
      BY <1>1, <1>2, <2>1
    <2>5. \A k \in 1 .. K : k - 1 \in 0 .. K /\ k \in 0 .. K /\ T[k - 1] = S(k - 1) /\ T[k] = S(k)
      BY <1>1, <2>1
    <2>6. \A k \in 1 .. K : \A x \in T[k - 1] : G[k][x] = Grow(k, x)
      BY <2>2, <2>5
    <2>7. \A k \in 1 .. K : \A x \in T[k - 1] : G[k][x] \in T[k]
      BY <1>3, <2>5, <2>6
    <2>8. PICK f : Recursive(f, 0, K, <<>>, G, T)
      BY <1>1, <2>4, <2>7, Recursion
    <2>9. ASSUME NEW k \in 1 .. K PROVE f[k] = Grow(k, f[k - 1])
      <3>1. f[k] = G[k][f[k - 1]]
        <4>1. k \in 0 + 1 .. K
          BY <1>1
        <4> QED
          BY <2>8, <4>1 DEF Recursive
      <3>2. f[k - 1] \in T[k - 1]
        BY <2>5, <2>8 DEF Recursive
      <3> QED
        BY <2>6, <3>1, <3>2
    <2>10. ASSUME NEW k \in 0 .. K PROVE f[k] = IF k = 0 THEN <<>> ELSE Grow(k, f[k - 1])
      <3>1. f[0] = <<>>
        BY <2>8 DEF Recursive
      <3>2. k = 0 \/ k \in 1 .. K
        BY <1>1
      <3> QED
        BY <2>9, <3>1, <3>2
    <2>11. f = [k \in 0 .. K |-> f[k]]
      BY <2>8 DEF Recursive
    <2>12. f = [k \in 0 .. K |-> IF k = 0 THEN <<>> ELSE Grow(k, f[k - 1])]
      BY <2>10, <2>11
    <2> QED
      BY <1>1, <2>12
  <1>5. Made(found)
    BY <1>4
  <1>6. found[K] \in S(K)
    <2>1. PICK T : T = [k \in 0 .. K |-> S(k)]
      OBVIOUS
    <2>2. \A k \in 1 .. K : k - 1 \in 0 .. K /\ k \in 0 .. K /\ T[k - 1] = S(k - 1) /\ T[k] = S(k)
      BY <1>1, <2>1
    <2>3. found[0] = <<>> /\ \A k \in 1 .. K : found[k] = Grow(k, found[k - 1])
      <3>1. PICK f : f = found
        OBVIOUS
      <3>2. f = [k \in 0 .. K |-> IF k = 0 THEN <<>> ELSE Grow(k, f[k - 1])]
        BY <3>1, <1>5, <1>1
      <3> HIDE DEF found
      <3>3. f[0] = <<>> /\ \A k \in 1 .. K : f[k] = Grow(k, f[k - 1])
        <4>1. K \in Nat
          BY <1>1
        <4> QED
          BY ONLY <3>2, <4>1
      <3> QED
        BY <3>1, <3>3
    <2>4. found[0] \in T[0] /\ \A k \in 1 .. K : found[k - 1] \in T[k - 1] => found[k] \in T[k]
      BY <1>1, <1>2, <1>3, <2>1, <2>2, <2>3
    <2> HIDE DEF found
    <2>5. \A k \in 0 .. K : found[k] \in T[k]
      BY <1>1, <2>4, Throughout
    <2> QED
      BY <1>1, <2>1, <2>5
  <1>7. at = found[K]
    BY <1>1 DEF Places, Grow
  <1>8. at \in Seq(V) /\ Inv(K, at)
    BY <1>6, <1>7 DEF S
  <1> QED
    BY <1>1, <1>8 DEF Inv

\* The part of the text in scope has all the ways to find the pattern.
LEMMA ScopeHolds ==
  ASSUME NEW text, Len(text) \in Nat, NEW A, NEW p \in Seq(A), p # <<>>, NEW o, NEW pos,
         NEW scope, scope = Scope(text, p, o)
  PROVE  /\ scope.from = -1 \/ (scope.from \in 0 .. Len(text) /\ scope.to \in scope.from .. Len(text))
         /\ Found(text, p, o, pos) => /\ scope.from >= 0
                                      /\ \A k \in 1 .. Len(p) : pos[k] \in scope.from .. scope.to - 1
  <1>1. PICK n, K, at : n = Len(text) /\ K = Len(p) /\ n \in Nat /\ K \in Nat \ {0} /\ at = Places(text, p, o)
    BY EmptySeq
  <1>2. /\ at \in Seq(-1 .. n - 1) /\ at # <<>>
        /\ at[Len(at)] # -1 => 0 <= at[1] /\ at[1] <= at[Len(at)]
        /\ Found(text, p, o, pos) => Len(at) = K /\ \A k \in 1 .. K : 0 <= at[k] /\ at[k] <= pos[k]
    BY <1>1, PlacesAre
  <1>3. PICK l : l = Len(at) /\ l \in Nat \ {0} /\ at[l] \in -1 .. n - 1 /\ at[1] \in -1 .. n - 1
    BY <1>1, <1>2, EmptySeq
  <1>4. scope = Around(text, p, at, o)
    BY <1>1 DEF Scope
  <1>5. CASE at[l] = -1
    <2>1. scope.from = -1
      BY <1>3, <1>4, <1>5 DEF Around
    <2>2. ~Found(text, p, o, pos)
      <3> SUFFICES ASSUME Found(text, p, o, pos) PROVE FALSE
        OBVIOUS
      <3>1. l = K /\ 0 <= at[K]
        BY <1>1, <1>2, <1>3
      <3> QED
        BY <1>5, <3>1
    <2> QED
      BY <2>1, <2>2
  <1>6. CASE at[l] # -1
    <2>1. PICK a, b, x, y : /\ a = at[1] /\ b = at[l] /\ x = LastIndexOf(text, p[K], b + 1, o) /\ y = StepBack(a)
                            /\ a \in 0 .. n - 1 /\ b \in a .. n - 1
      BY <1>1, <1>2, <1>3, <1>6
    <2>2. scope.from = y /\ scope.to = x + 1
      BY <1>1, <1>3, <1>4, <1>6, <2>1 DEF Around
    <2>3. y \in 0 .. a
      BY <1>1, <2>1 DEF StepBack, MaxOf
    <2>4. x \in b .. n - 1 /\ \A j \in b + 1 .. n - 1 : Finds(At(text, j), p[K], o) => j <= x
      <3>1. PICK c : c = b + 1 /\ c \in 0 .. n /\ c - 1 = b
        BY <1>1, <2>1
      <3>2. /\ LastIndexOf(text, p[K], c, o) \in c - 1 .. n - 1
            /\ \A j \in c .. n - 1 : Finds(At(text, j), p[K], o) => j <= LastIndexOf(text, p[K], c, o)
        BY <1>1, <3>1, LastIndexIs
      <3> QED
        BY <2>1, <3>1, <3>2
    <2>5. scope.from \in 0 .. n /\ scope.to \in scope.from .. n
      BY <1>1, <2>1, <2>2, <2>3, <2>4
    <2>6. ASSUME Found(text, p, o, pos), NEW k \in 1 .. K PROVE pos[k] \in y .. x
      <3>1. l = K /\ a <= pos[1] /\ b <= pos[K] /\ 1 \in 1 .. K /\ K \in 1 .. K
        BY <1>1, <1>2, <1>3, <2>1, <2>6
      <3>2. pos[1] \in 0 .. n - 1 /\ pos[K] \in 0 .. n - 1 /\ pos[k] \in 0 .. n - 1
            /\ Finds(At(text, pos[K]), p[K], o)
        BY <1>1, <2>6, <3>1 DEF Found
      <3>3. pos[1] <= pos[k] /\ pos[k] <= pos[K]
        <4>1. CASE k = 1 /\ k = K
          BY <4>1, <3>2
        <4>2. CASE k = 1 /\ k < K
          BY <4>2, <1>1, <2>6, <3>1, <3>2 DEF Found
        <4>3. CASE 1 < k /\ k = K
          BY <4>3, <1>1, <2>6, <3>1, <3>2 DEF Found
        <4>4. CASE 1 < k /\ k < K
          BY <4>4, <1>1, <2>6, <3>1, <3>2 DEF Found
        <4> QED
          BY <4>1, <4>2, <4>3, <4>4, <1>1
      <3>4. pos[K] <= x
        <4>1. CASE pos[K] = b
          BY <4>1, <2>1, <2>4, <1>1
        <4>2. CASE pos[K] # b
          <5>1. pos[K] \in b + 1 .. n - 1
            BY <4>2, <1>1, <2>1, <3>1, <3>2
          <5> QED
            BY <2>4, <3>2, <5>1
        <4> QED
          BY <4>1, <4>2
      <3>5. PICK j : j = pos[k] /\ j \in 0 .. n - 1 /\ a <= j /\ j <= x
        BY <1>1, <2>1, <2>4, <3>1, <3>2, <3>3, <3>4
      <3> QED
        BY <1>1, <2>1, <2>3, <2>4, <3>5
    <2>7. scope.to - 1 = x /\ scope.from = y /\ y >= 0
      BY <1>1, <2>1, <2>2, <2>3, <2>4
    <2> QED
      BY <1>1, <2>5, <2>6, <2>7
  <1> QED
    BY <1>5, <1>6

\* The prefilter drops no text that has the pattern, and the part it leaves has all the ways.
LEMMA FilterKeeps ==
  ASSUME NEW B, NEW text \in Seq(B), NEW A, NEW p \in Seq(A), p # <<>>, NEW o,
         NEW t, t = [i \in DOMAIN text |-> Folded(text[i], o)],
         NEW scope, scope = AsciiFuzzyIndex(text, p, o)
  PROVE  /\ scope.from = -1 \/ (scope.from \in 0 .. Len(text) /\ scope.to \in scope.from .. Len(text))
         /\ \A pos : Way(t, p, Len(p), 0, Len(text), pos)
              => scope.from >= 0 /\ Way(t, p, Len(p), scope.from, scope.to, pos)
  <1>1. PICK n, K : n = Len(text) /\ K = Len(p) /\ n \in Nat /\ K \in Nat \ {0}
    BY EmptySeq
  <1>2. \A i \in 1 .. n : t[i] = Folded(text[i], o)
    BY <1>1
  <1>3. ASSUME NEW pos, Way(t, p, K, 0, n, pos), NEW k \in 1 .. K
        PROVE  pos[k] \in 0 .. n - 1 /\ pos[k] + 1 \in 1 .. n /\ Folded(At(text, pos[k]), o) = p[k]
    <2>1. pos[k] \in 0 .. n - 1 /\ t[pos[k] + 1] = p[k]
      BY <1>3 DEF Way
    <2>2. PICK x : x = pos[k] + 1 /\ x \in 1 .. n
      BY <1>1, <2>1
    <2> QED
      BY <1>2, <2>1, <2>2 DEF At
  <1>4. ASSUME NEW pos, Way(t, p, K, 0, n, pos), scope = Scope(text, p, o),
               \A k \in 1 .. K : Finds(At(text, pos[k]), p[k], o)
        PROVE  scope.from >= 0 /\ Way(t, p, K, scope.from, scope.to, pos)
    <2>1. Found(text, p, o, pos)
      BY <1>1, <1>3, <1>4 DEF Found, Way
    <2>2. scope.from >= 0 /\ \A k \in 1 .. K : pos[k] \in scope.from .. scope.to - 1
      BY <1>1, <1>4, <2>1, ScopeHolds
    <2> QED
      BY <2>2, <1>4 DEF Way
  <1>5. CASE IsBytes(text)
    <2>1. \A i \in 1 .. n : IsAscii(text[i])
      BY <1>1, <1>5 DEF IsBytes, Ascii
    <2>2. ASSUME NEW pos, Way(t, p, K, 0, n, pos), NEW k \in 1 .. K
          PROVE  IsAscii(p[k]) /\ Finds(At(text, pos[k]), p[k], o)
      <3>1. PICK c : c = At(text, pos[k]) /\ Folded(c, o) = p[k] /\ IsAscii(c)
        BY <1>3, <2>1, <2>2 DEF At
      <3> QED
        BY <3>1, FoldsToFinds
    <2>3. CASE Ascii(p)
      <3>1. scope = Scope(text, p, o)
        BY <1>5, <2>3 DEF AsciiFuzzyIndex
      <3>2. scope.from = -1 \/ (scope.from \in 0 .. n /\ scope.to \in scope.from .. n)
        BY <1>1, <3>1, ScopeHolds
      <3> QED
        BY <1>1, <1>4, <2>2, <3>1, <3>2
    <2>4. CASE ~Ascii(p)
      <3>1. scope.from = -1
        BY <1>5, <2>4 DEF AsciiFuzzyIndex
      <3>2. ~\E pos : Way(t, p, K, 0, n, pos)
        BY <1>1, <2>2, <2>4 DEF Ascii
      <3> QED
        BY <1>1, <3>1, <3>2
    <2> QED
      BY <2>3, <2>4
  <1>6. CASE ~IsBytes(text) /\ RunePrefilterable(text, p, o)
    <2>1. scope = Scope(text, p, o)
      BY <1>6 DEF AsciiFuzzyIndex
    <2>2. ASSUME NEW pos, Way(t, p, K, 0, n, pos), NEW k \in 1 .. K
          PROVE  Finds(At(text, pos[k]), p[k], o)
      <3>1. PICK x, c : x = pos[k] + 1 /\ x \in 1 .. n /\ c = text[x] /\ c = At(text, pos[k]) /\ Folded(c, o) = p[k]
        BY <1>3, <2>2 DEF At
      <3>2. NormalizeRune(c) # c => ~IsAscii(p[k])
        <4>1. x \in DOMAIN text /\ k \in DOMAIN p
          BY <1>1, <3>1
        <4> QED
          BY <1>6, <3>1, <4>1 DEF RunePrefilterable
      <3>3. o.case \/ IsAscii(p[k])
        BY <1>1, <1>6 DEF RunePrefilterable, Ascii
      <3> QED
        BY <3>1, <3>2, <3>3, FoldsToFinds
    <2>3. scope.from = -1 \/ (scope.from \in 0 .. n /\ scope.to \in scope.from .. n)
      BY <1>1, <2>1, ScopeHolds
    <2> QED
      BY <1>1, <1>4, <2>1, <2>2, <2>3
  <1>7. CASE ~IsBytes(text) /\ ~RunePrefilterable(text, p, o)
    <2>1. scope.from = 0 /\ scope.to = n
      BY <1>1, <1>7 DEF AsciiFuzzyIndex
    <2> QED
      BY <1>1, <2>1
  <1> QED
    BY <1>5, <1>6, <1>7

-----------------------------------------------------------------------------
(* FuzzyMatchV1 *)

\* The texts and patterns on their own
ProbeSpec == InitProbe /\ [][NextProbe]_probe

\* The pattern is one that the options allow: in lower case if case does not matter, and so on.
ProbeTyped ==
  /\ probe.text \in Seq(TextChars)
  /\ probe.pattern \in Seq(PatternChars(probe.o))

\* The next one behind is later, and so is each.
LEMMA Increasing ==
  ASSUME NEW K \in Nat, NEW pos, \A k \in 1 .. K : pos[k] \in Int,
         \A k \in 1 .. K : k > 1 => pos[k - 1] < pos[k]
  PROVE  \A i, k \in 1 .. K : i < k => pos[i] < pos[k]
  <1> SUFFICES ASSUME NEW i \in 1 .. K PROVE \A k \in 1 .. K : i < k => pos[i] < pos[k]
    OBVIOUS
  <1> DEFINE Bad == {k \in 1 .. K : i < k /\ ~(pos[i] < pos[k])}
  <1> SUFFICES ASSUME Bad # {} PROVE FALSE
    OBVIOUS
  <1>1. PICK k \in Bad : \A j \in Bad : k <= j
    <2>1. Bad \in SUBSET Nat
      OBVIOUS
    <2> HIDE DEF Bad
    <2> QED
      BY <2>1, LeastNat
  <1>2. k \in 1 .. K /\ i < k /\ ~(pos[i] < pos[k])
    OBVIOUS
  <1>3. PICK j : j = k - 1 /\ j \in 1 .. K /\ ~(k <= j) /\ (i = j \/ i < j)
    BY <1>2
  <1>4. j \notin Bad /\ pos[j] < pos[k]
    <2>1. k > 1
      BY <1>2
    <2> QED
      BY <1>1, <1>2, <1>3, <2>1
  <1>5. CASE i = j
    BY <1>2, <1>4, <1>5
  <1>6. CASE i < j
    <2>1. pos[i] < pos[j]
      BY <1>3, <1>4, <1>6
    <2> QED
      BY <1>2, <1>3, <1>4, <2>1
  <1> QED
    BY <1>3, <1>5, <1>6

\* The ways are the embeddings.
LEMMA EmbeddingsAre ==
  ASSUME ProbeTyped, NEW a \in Nat, NEW b \in Int, b <= Len(probe.text),
         NEW K, K = Len(probe.pattern), NEW t, t = FoldedText
  PROVE  /\ \A pos : Way(t, probe.pattern, K, a, b, pos) => [k \in 1 .. K |-> pos[k]] \in Embeddings(a, b)
         /\ Embeds(a, b) <=> Has(t, probe.pattern, K, a, b)
  <1>1. PICK n, p : p = probe.pattern /\ n = Len(probe.text) /\ n \in Nat /\ K \in Nat /\ DOMAIN p = 1 .. K
    BY DEF ProbeTyped
  <1>2. ASSUME NEW pos, Way(t, p, K, a, b, pos) PROVE [k \in 1 .. K |-> pos[k]] \in Embeddings(a, b)
    <2>1. PICK new : new = [k \in 1 .. K |-> pos[k]]
      OBVIOUS
    <2>2. \A k \in 1 .. K : pos[k] \in a .. b - 1 /\ t[pos[k] + 1] = p[k]
      BY <1>2 DEF Way
    <2>3. new \in [DOMAIN p -> a .. b - 1]
      BY <1>1, <2>1, <2>2
    <2>4. Fits(new)
      BY <1>1, <2>1, <2>2 DEF Fits
    <2>5. ASSUME NEW k \in 1 .. K, k > 1 PROVE new[k - 1] < new[k]
      <3>1. k - 1 \in 1 .. K /\ k - 1 < k
        BY <1>1, <2>5
      <3>2. pos[k - 1] < pos[k]
        BY <1>2, <3>1 DEF Way
      <3> QED
        BY <2>1, <3>1, <3>2
    <2>6. \A k \in DOMAIN new : k > 1 => new[k - 1] < new[k]
      BY <2>1, <2>5
    <2> QED
      BY <1>1, <2>1, <2>3, <2>4, <2>6 DEF Embeddings
  <1>3. ASSUME NEW pos \in Embeddings(a, b) PROVE Way(t, p, K, a, b, pos)
    <2>1. pos \in [1 .. K -> a .. b - 1] /\ Fits(pos) /\ \A k \in 1 .. K : k > 1 => pos[k - 1] < pos[k]
      BY <1>1 DEF Embeddings
    <2>2. ASSUME NEW k \in 1 .. K PROVE pos[k] \in a .. b - 1 /\ pos[k] \in Int /\ t[pos[k] + 1] = p[k]
      <3>1. pos[k] \in a .. b - 1 /\ k \in DOMAIN pos
        BY <2>1
      <3>2. pos[k] \in Int
        BY <3>1
      <3>3. FoldedText[pos[k] + 1] = probe.pattern[k]
        BY <2>1, <3>1 DEF Fits
      <3> QED
        BY <1>1, <3>1, <3>2, <3>3
    <2>3. \A i, k \in 1 .. K : i < k => pos[i] < pos[k]
      BY <1>1, <2>1, <2>2, Increasing
    <2> QED
      BY <2>2, <2>3 DEF Way
  <1> QED
    BY <1>1, <1>2, <1>3 DEF Embeds, Has

\* What V1 promises
V1Sound ==
  \E v1 \in {FuzzyMatchV1(probe.text, probe.pattern, probe.o)} :
    IF Embeds(0, Len(probe.text))
    THEN /\ Embeds(v1.start, v1.end) /\ ~Embeds(v1.start + 1, v1.end) /\ ~Embeds(v1.start, v1.end - 1)
         /\ IF probe.o.forward THEN ~Embeds(0, v1.end - 1) ELSE ~Embeds(v1.start + 1, Len(probe.text))
    ELSE v1 = NoMatch

\* FuzzyMatchV1 finds a match exactly if there is one, and one that cannot be shortened.
LEMMA V1IsSound ==
  ASSUME ProbeTyped, probe.pattern # <<>>
  PROVE  V1Sound
  <1>1. PICK text, p, o : text = probe.text /\ p = probe.pattern /\ o = probe.o
    OBVIOUS
  <1>2. PICK n, K, t : n = Len(text) /\ K = Len(p) /\ n \in Nat /\ K \in Nat \ {0} /\ t = FoldedText
    BY <1>1, EmptySeq DEF ProbeTyped
  <1>3. t = [i \in DOMAIN text |-> Folded(text[i], o)] /\ text \in Seq(TextChars) /\ p \in Seq(PatternChars(o))
    BY <1>1, <1>2 DEF FoldedText, ProbeTyped
  <1>4. PICK A : t \in Seq(A) /\ p \in Seq(A) /\ Len(t) = n
    <2>1. PICK A : A = {Folded(c, o) : c \in TextChars} \cup PatternChars(o)
      OBVIOUS
    <2>2. \A i \in 1 .. n : Folded(text[i], o) \in A
      BY <1>2, <1>3, <2>1
    <2>3. t \in Seq(A) /\ Len(t) = n
      BY <1>2, <1>3, <2>2
    <2>4. p \in Seq(A)
      BY <1>3, <2>1
    <2> QED
      BY <2>3, <2>4
  <1>5. PICK v : v = FuzzyMatchV1(text, p, o)
    OBVIOUS
  <1>6. PICK scope : scope = AsciiFuzzyIndex(text, p, o)
    OBVIOUS
  <1>7. /\ scope.from = -1 \/ (scope.from \in 0 .. n /\ scope.to \in scope.from .. n)
        /\ \A pos : Way(t, p, K, 0, n, pos) => scope.from >= 0 /\ Way(t, p, K, scope.from, scope.to, pos)
    BY <1>1, <1>2, <1>3, <1>6, FilterKeeps
  <1>8. ASSUME NEW a \in Nat, NEW b \in Int, b <= n PROVE Embeds(a, b) <=> Has(t, p, K, a, b)
    BY <1>1, <1>2, <1>8, EmbeddingsAre
  <1>9. \/ ~Has(t, p, K, 0, n) /\ v = NoMatch
        \/ /\ Has(t, p, K, 0, n)
           /\ v.start \in 0 .. n /\ v.end \in 0 .. n
           /\ Has(t, p, K, v.start, v.end)
           /\ ~Has(t, p, K, v.start + 1, v.end) /\ ~Has(t, p, K, v.start, v.end - 1)
           /\ IF o.forward THEN ~Has(t, p, K, 0, v.end - 1) ELSE ~Has(t, p, K, v.start + 1, n)
    <2>1. CASE scope.from < 0
      <3>1. v = NoMatch
        BY <1>1, <1>5, <1>6, <2>1 DEF FuzzyMatchV1
      <3>2. ~Has(t, p, K, 0, n)
        BY <1>7, <2>1 DEF Has
      <3> QED
        BY <3>1, <3>2
    <2>2. CASE ~(scope.from < 0)
      <3>0. PICK g : g = IF o.forward THEN ShortestFrom(t, p) ELSE ShortestFrom(Reversed(t), Reversed(p))
        OBVIOUS
      <3>1. v = GreedyIn(text, p, g, o)
        BY <3>0, <1>1, <1>3, <1>5, <1>6, <2>2 DEF FuzzyMatchV1
      <3>2. p # <<>> /\ Len(text) = Len(t)
        BY <1>1, <1>2, <1>4
      <3>3. \/ ~Has(t, p, Len(p), 0, Len(t)) /\ v = NoMatch
            \/ /\ Has(t, p, Len(p), 0, Len(t))
               /\ v.start \in 0 .. Len(t) /\ v.end \in 0 .. Len(t)
               /\ Has(t, p, Len(p), v.start, v.end)
               /\ ~Has(t, p, Len(p), v.start + 1, v.end) /\ ~Has(t, p, Len(p), v.start, v.end - 1)
               /\ IF o.forward THEN ~Has(t, p, Len(p), 0, v.end - 1) ELSE ~Has(t, p, Len(p), v.start + 1, Len(t))
        BY <1>4, <3>0, <3>1, <3>2, GreedyIs
      <3> QED
        BY <1>2, <1>4, <3>3
    <2> QED
      BY <2>1, <2>2
  <1>10. 0 \in Nat /\ n \in Int /\ n <= n
    BY <1>2
  <1>11. CASE Has(t, p, K, 0, n)
    <2>1. PICK s, e : s = v.start /\ e = v.end /\ s \in 0 .. n /\ e \in 0 .. n /\ s \in Nat /\ s + 1 \in Nat /\ e \in Int
                      /\ e <= n /\ e - 1 \in Int /\ e - 1 <= n
      BY <1>2, <1>9, <1>11
    <2>2. Embeds(0, n) /\ Embeds(s, e) /\ ~Embeds(s + 1, e) /\ ~Embeds(s, e - 1)
      BY <1>8, <1>9, <1>10, <1>11, <2>1
    <2>3. IF o.forward THEN ~Embeds(0, e - 1) ELSE ~Embeds(s + 1, n)
      BY <1>8, <1>9, <1>10, <1>11, <2>1
    <2> QED
      BY <1>1, <1>2, <1>5, <2>1, <2>2, <2>3 DEF V1Sound
  <1>12. CASE ~Has(t, p, K, 0, n)
    BY <1>1, <1>2, <1>5, <1>8, <1>9, <1>10, <1>12 DEF V1Sound
  <1> QED
    BY <1>11, <1>12

-----------------------------------------------------------------------------
(* Exact matches *)

\* Bonus points are never negative.
LEMMA BonusNat ==
  ASSUME NEW o
  PROVE  /\ \A prev, class : BonusFor(prev, class, o) \in Nat
         /\ \A text, i : BonusAt(text, i, o) \in Nat
         /\ \A text, i, from : BonusFrom(text, i, from, o) \in Nat
  <1>1. ScoreMatch = 16 /\ BonusBoundary = 8 /\ BonusNonWord = 8 /\ BonusCamel123 = 7
    BY DEF ScoreMatch, BonusBoundary, BonusNonWord, BonusCamel123, ScoreGapExtension
  <1>2. BoundaryWhite(o) \in Nat /\ BoundaryDelimiter(o) \in Nat
    BY <1>1 DEF BoundaryWhite, BoundaryDelimiter
  <1>3. ASSUME NEW prev, NEW class PROVE BonusFor(prev, class, o) \in Nat
    BY <1>1, <1>2 DEF BonusFor
  <1>4. ASSUME NEW text, NEW i PROVE BonusAt(text, i, o) \in Nat
    BY <1>2, <1>3 DEF BonusAt
  <1>5. ASSUME NEW text, NEW i, NEW from PROVE BonusFrom(text, i, from, o) \in Nat
    BY <1>3 DEF BonusFrom
  <1> QED
    BY <1>3, <1>4, <1>5

\* The search for the best occurrence finds one if there is one.
LEMMA BestOccurrenceIs ==
  ASSUME NEW text, NEW p, NEW o, Len(text) \in Nat, Len(p) \in Nat, Len(p) <= Len(text),
         NEW b, b = BestOccurrence(text, p, FALSE, o)
  PROVE  \/ b.at = -1 /\ \A i \in 0 .. Len(text) - Len(p) : ~Occurs(text, p, i, o)
         \/ b.at \in 0 .. Len(text) - Len(p) /\ Occurs(text, p, b.at, o)
  <1>1. PICK last, N : last = Len(text) - Len(p) /\ last \in Nat /\ N = last + 1 /\ N \in Nat
    OBVIOUS
  <1> DEFINE Try(so, i, bonus) ==
               IF so.stop \/ ~Occurs(text, p, i, o)
                    \/ (FALSE /\ ~AtBoundary(text, p, i, o)) \/ bonus <= so.bonus THEN so
               ELSE [at |-> i, bonus |-> bonus, stop |-> bonus >= BonusBoundary]
             Place(n) == IF o.forward THEN n - 1 ELSE Len(text) - Len(p) - (n - 1)
             Grow(n, so) == LET i == Place(n) IN Try(so, i, BonusAt(text, i, o))
             x0 == [at |-> -1, bonus |-> -1, stop |-> FALSE]
             Inv(n, x) == \/ /\ x = x0
                             /\ \A m \in 1 .. n : ~Occurs(text, p, Place(m), o)
                          \/ x.at \in 0 .. last /\ Occurs(text, p, x.at, o)
             S(n) == {x \in [at : Int, bonus : Int, stop : BOOLEAN] : Inv(n, x)}
             Made(f) == f = [n \in 0 .. Len(text) - Len(p) + 1 |-> IF n = 0 THEN x0 ELSE Grow(n, f[n - 1])]
             best == CHOOSE f : Made(f)
  <1>2. x0 \in S(0)
    OBVIOUS
  <1>3. ASSUME NEW n \in 1 .. N, NEW x \in S(n - 1) PROVE Grow(n, x) \in S(n)
    <2>1. PICK i, bonus : i = Place(n) /\ bonus = BonusAt(text, i, o)
      OBVIOUS
    <2>2. i \in 0 .. last /\ bonus \in Nat
      <3>1. i \in 0 .. last
        BY <1>1, <2>1
      <3> QED
        BY <2>1, <3>1, BonusNat
    <2>3. Grow(n, x) = IF x.stop \/ ~Occurs(text, p, i, o) \/ bonus <= x.bonus THEN x
                       ELSE [at |-> i, bonus |-> bonus, stop |-> bonus >= BonusBoundary]
      BY <2>1
    <2>4. x \in [at : Int, bonus : Int, stop : BOOLEAN] /\ Inv(n - 1, x)
      OBVIOUS
    <2>5. CASE ~Occurs(text, p, i, o)
      <3>1. Grow(n, x) = x
        BY <2>3, <2>5
      <3>2. \A m \in 1 .. n : m \in 1 .. n - 1 \/ m = n
        BY <1>1
      <3>3. Inv(n, x)
        <4> HIDE DEF Place
        <4> QED
          BY <2>1, <2>4, <2>5, <3>2
      <3> HIDE DEF Inv
      <3> QED
        BY <2>4, <3>1, <3>3
    <2>6. CASE Occurs(text, p, i, o)
      <3>1. CASE x.at \in 0 .. last /\ Occurs(text, p, x.at, o)
        <4>1. PICK y : y = Grow(n, x)
          OBVIOUS
        <4>2. y = x \/ y = [at |-> i, bonus |-> bonus, stop |-> bonus >= BonusBoundary]
          BY <2>3, <4>1
        <4>3. CASE y = x
          BY <2>4, <3>1, <4>1, <4>3
        <4>4. CASE y = [at |-> i, bonus |-> bonus, stop |-> bonus >= BonusBoundary]
          <5>1. y \in [at : Int, bonus : Int, stop : BOOLEAN] /\ y.at = i
            BY <1>1, <2>2, <4>4
          <5>2. Inv(n, y)
            BY <5>1, <2>2, <2>6
          <5> HIDE DEF Inv, Grow
          <5> QED
            BY <4>1, <5>1, <5>2
        <4> QED
          BY <4>2, <4>3, <4>4
      <3>2. CASE x = x0
        <4>1. PICK y : y = Grow(n, x) /\ y = [at |-> i, bonus |-> bonus, stop |-> bonus >= BonusBoundary]
          <5>1. x.stop = FALSE /\ x.bonus = -1 /\ ~(bonus <= -1)
            BY <3>2, <2>2
          <5> QED
            BY <2>3, <2>6, <5>1
        <4>2. y \in [at : Int, bonus : Int, stop : BOOLEAN] /\ y.at = i
          BY <1>1, <2>2, <4>1
        <4>3. Inv(n, y)
          BY <4>2, <2>2, <2>6
        <4> HIDE DEF Inv, Grow
        <4> QED
          BY <4>1, <4>2, <4>3
      <3> QED
        BY <2>4, <3>1, <3>2
    <2> QED
      BY <2>5, <2>6
  <1> HIDE DEF Inv, S, Grow, x0, Try, Place
  <1>4. \E f : Made(f)
    <2>1. PICK T : T = [n \in 0 .. N |-> S(n)]
      OBVIOUS
    <2>2. PICK G : G = [n \in 1 .. N |-> [x \in S(n - 1) |-> Grow(n, x)]]
      OBVIOUS
    <2>3. PICK y0 : y0 = x0
      OBVIOUS
    <2>4. y0 \in T[0]
      BY <1>1, <1>2, <2>1, <2>3
    <2>5. \A n \in 1 .. N : n - 1 \in 0 .. N /\ n \in 0 .. N /\ T[n - 1] = S(n - 1) /\ T[n] = S(n)
      BY <1>1, <2>1
    <2>6. \A n \in 1 .. N : \A x \in T[n - 1] : G[n][x] = Grow(n, x)
      BY <2>2, <2>5
    <2>7. \A n \in 1 .. N : \A x \in T[n - 1] : G[n][x] \in T[n]
      BY <1>3, <2>5, <2>6
    <2>8. PICK f : Recursive(f, 0, N, y0, G, T)
      BY <1>1, <2>4, <2>7, Recursion
    <2>9. ASSUME NEW n \in 1 .. N PROVE f[n] = Grow(n, f[n - 1])
      <3>1. f[n] = G[n][f[n - 1]]
        <4>1. n \in 0 + 1 .. N
          BY <1>1
        <4> QED
          BY <2>8, <4>1 DEF Recursive
      <3>2. f[n - 1] \in T[n - 1]
        BY <2>5, <2>8 DEF Recursive
      <3> QED
        BY <2>6, <3>1, <3>2
    <2>10. ASSUME NEW n \in 0 .. N PROVE f[n] = IF n = 0 THEN x0 ELSE Grow(n, f[n - 1])
      <3>1. f[0] = y0
        BY <2>8 DEF Recursive
      <3>2. n = 0 \/ n \in 1 .. N
        BY <1>1
      <3> QED
        BY <2>3, <2>9, <3>1, <3>2
    <2>11. f = [n \in 0 .. N |-> f[n]]
      BY <2>8 DEF Recursive
    <2>12. f = [n \in 0 .. N |-> IF n = 0 THEN x0 ELSE Grow(n, f[n - 1])]
      BY <2>10, <2>11
    <2> QED
      BY <1>1, <2>12
  <1>5. Made(best)
    BY <1>4
  <1>6. best[N] \in S(N)
    <2>1. PICK T : T = [n \in 0 .. N |-> S(n)]
      OBVIOUS
    <2>2. \A n \in 1 .. N : n - 1 \in 0 .. N /\ n \in 0 .. N /\ T[n - 1] = S(n - 1) /\ T[n] = S(n)
      BY <1>1, <2>1
    <2>3. best[0] = x0 /\ \A n \in 1 .. N : best[n] = Grow(n, best[n - 1])
      <3>1. PICK f : f = best
        OBVIOUS
      <3>2. f = [n \in 0 .. N |-> IF n = 0 THEN x0 ELSE Grow(n, f[n - 1])]
        BY <3>1, <1>5, <1>1
      <3> HIDE DEF best
      <3>3. f[0] = x0 /\ \A n \in 1 .. N : f[n] = Grow(n, f[n - 1])
        <4>1. N \in Nat
          BY <1>1
        <4> QED
          BY ONLY <3>2, <4>1
      <3> QED
        BY <3>1, <3>3
    <2> HIDE DEF best
    <2>4. best[0] \in T[0] /\ \A n \in 1 .. N : best[n - 1] \in T[n - 1] => best[n] \in T[n]
      BY <1>1, <1>2, <1>3, <2>1, <2>2, <2>3
    <2>5. \A n \in 0 .. N : best[n] \in T[n]
      BY <1>1, <2>4, Throughout
    <2> QED
      BY <1>1, <2>1, <2>5
  <1>7. b = best[N]
    BY <1>1 DEF BestOccurrence, Grow, x0, Try, Place
  <1>8. Inv(N, b)
    BY <1>6, <1>7 DEF S
  <1>9. CASE b = x0 /\ \A m \in 1 .. N : ~Occurs(text, p, Place(m), o)
    <2>1. ASSUME NEW i \in 0 .. last PROVE ~Occurs(text, p, i, o)
      <3>1. PICK m : m = (IF o.forward THEN i + 1 ELSE last - i + 1) /\ m \in 1 .. N
        BY <1>1
      <3>2. Place(m) = i
        BY <1>1, <3>1 DEF Place
      <3> QED
        BY <1>9, <3>1, <3>2
    <2>2. b.at = -1
      <3>1. b = [at |-> -1, bonus |-> -1, stop |-> FALSE]
        BY <1>9 DEF x0
      <3> QED
        BY ONLY <3>1
    <2> QED
      BY <1>1, <2>1, <2>2
  <1> QED
    BY <1>1, <1>8, <1>9 DEF Inv

\* The first character that is no space
LEMMA LeadingIs ==
  ASSUME NEW A, NEW s \in Seq(A)
  PROVE  /\ Leading(s) \in 0 .. Len(s)
         /\ \A i \in 0 .. Leading(s) - 1 : IsSpace(At(s, i))
         /\ Leading(s) # Len(s) => ~IsSpace(At(s, Leading(s)))
  <1>1. PICK n : n = Len(s) /\ n \in Nat
    OBVIOUS
  <1> DEFINE at == {i \in 0 .. n - 1 : ~IsSpace(At(s, i))}
  <1>2. Leading(s) = IF at = {} THEN n ELSE CHOOSE i \in at : \A j \in at : i <= j
    BY <1>1 DEF Leading
  <1>3. CASE at = {}
    BY <1>1, <1>2, <1>3
  <1>4. CASE at # {}
    <2>1. \E i \in at : \A j \in at : i <= j
      <3>1. at \in SUBSET Nat
        BY <1>1
      <3> HIDE DEF at
      <3> QED
        BY <1>4, <3>1, LeastNat
    <2>2. PICK x : x = CHOOSE i \in at : \A j \in at : i <= j
      OBVIOUS
    <2>3. x \in at /\ \A j \in at : x <= j
      <3> HIDE DEF at
      <3> QED
        BY <2>1, <2>2
    <2>4. x \in 0 .. n - 1 /\ ~IsSpace(At(s, x)) /\ Leading(s) = x
      BY <1>2, <1>4, <2>2, <2>3
    <2>5. ASSUME NEW i \in 0 .. x - 1 PROVE IsSpace(At(s, i))
      <3>1. i \in 0 .. n - 1 /\ ~(x <= i)
        BY <1>1, <2>4
      <3> QED
        BY <2>3, <3>1
    <2> QED
      BY <1>1, <2>4, <2>5
  <1> QED
    BY <1>3, <1>4

\* ... and the last
LEMMA TrailingIs ==
  ASSUME NEW A, NEW s \in Seq(A)
  PROVE  /\ Trailing(s) \in 0 .. Len(s)
         /\ \A i \in Len(s) - Trailing(s) .. Len(s) - 1 : IsSpace(At(s, i))
         /\ Trailing(s) # Len(s) => ~IsSpace(At(s, Len(s) - Trailing(s) - 1))
  <1>1. PICK n, r, x : n = Len(s) /\ n \in Nat /\ r = Reversed(s) /\ x = Trailing(s)
    OBVIOUS
  <1>2. r \in Seq(A) /\ Len(r) = n /\ x = Leading(r)
    BY <1>1, ReversedIs DEF Trailing
  <1>3. /\ x \in 0 .. n
        /\ \A i \in 0 .. x - 1 : IsSpace(At(r, i))
        /\ x # n => ~IsSpace(At(r, x))
    BY <1>2, LeadingIs
  <1>4. ASSUME NEW i \in 0 .. n - 1 PROVE At(r, n - 1 - i) = At(s, i)
    <2>1. PICK y : y = n - 1 - i + 1 /\ y \in 1 .. n /\ n + 1 - y = i + 1
      BY <1>1
    <2>2. r[y] = s[n + 1 - y]
      BY <1>1, <2>1, ReversedIs
    <2> QED
      BY <2>1, <2>2 DEF At
  <1>5. ASSUME NEW i \in n - x .. n - 1 PROVE IsSpace(At(s, i))
    <2>1. PICK y : y = n - 1 - i /\ y \in 0 .. x - 1 /\ i \in 0 .. n - 1
      BY <1>1, <1>3
    <2> QED
      BY <1>3, <1>4, <2>1
  <1>6. ASSUME x # n PROVE ~IsSpace(At(s, n - x - 1))
    <2>1. PICK i : i = n - x - 1 /\ i \in 0 .. n - 1 /\ n - 1 - i = x
      BY <1>1, <1>3, <1>6
    <2> QED
      BY <1>3, <1>4, <1>6, <2>1
  <1> QED
    BY <1>1, <1>3, <1>5, <1>6

\* A character that folds to no space is none.
LEMMA FoldsSpace ==
  ASSUME NEW c, NEW o, ~IsSpace(Folded(c, o))
  PROVE  ~IsSpace(c)
  <1> SUFFICES ASSUME c = " " PROVE FALSE
    BY DEF IsSpace
  <1>1. Lower(" ") = " " /\ NormalizeRune(" ") = " "
    BY DEF Lower, NormalizeRune
  <1> QED
    BY <1>1 DEF Folded, IsSpace

\* What the exact algorithms promise
ExactSound ==
  /\ ExactMatchNaive(probe.text, probe.pattern, probe.o).start \in OneOf(Occurrences)
  /\ PrefixMatch(probe.text, probe.pattern, probe.o).start \in OneOf(Beginnings)
  /\ SuffixMatch(probe.text, probe.pattern, probe.o).start \in OneOf(Endings)
  /\ EqualMatch(probe.text, probe.pattern, probe.o).start \in OneOf(Beginnings \cap Endings)

\* Where the pattern occurs, the prefilter does not drop the text.
LEMMA OccursInScope ==
  ASSUME ProbeTyped, probe.pattern # <<>>, NEW i \in Occurrences
  PROVE  /\ AsciiFuzzyIndex(probe.text, probe.pattern, probe.o).from \in 0 .. Len(probe.text)
         /\ Len(probe.pattern) <= Len(probe.text) /\ i \in 0 .. Len(probe.text) - Len(probe.pattern)
  <1>1. PICK text, p, o : text = probe.text /\ p = probe.pattern /\ o = probe.o
    OBVIOUS
  <1>2. PICK n, K : n = Len(text) /\ K = Len(p) /\ n \in Nat /\ K \in Nat \ {0}
    BY <1>1, EmptySeq DEF ProbeTyped
  <1>3. PICK t : t = [j \in DOMAIN text |-> Folded(text[j], o)]
    OBVIOUS
  <1>4. i \in 0 .. n /\ i + K <= n /\ \A k \in 1 .. K : Folded(At(text, i + k - 1), o) = p[k]
    BY <1>1, <1>2 DEF Occurrences, Occurs, ProbeTyped
  <1>5. PICK pos : pos = [k \in 1 .. K |-> i + k - 1]
    OBVIOUS
  <1>6. ASSUME NEW k \in 1 .. K PROVE pos[k] \in 0 .. n - 1 /\ t[pos[k] + 1] = p[k]
    <2>1. PICK x : x = i + k - 1 /\ pos[k] = x /\ x \in 0 .. n - 1 /\ x + 1 \in 1 .. n
      BY <1>2, <1>4, <1>5
    <2>2. t[x + 1] = Folded(text[x + 1], o)
      BY <1>1, <1>2, <1>3, <2>1 DEF ProbeTyped
    <2>3. Folded(At(text, x), o) = p[k]
      BY <1>4, <2>1
    <2> QED
      BY <2>1, <2>2, <2>3 DEF At
  <1>7. \A j, k \in 1 .. K : j < k => pos[j] < pos[k]
    BY <1>2, <1>4, <1>5
  <1>8. Way(t, p, K, 0, n, pos)
    BY <1>6, <1>7 DEF Way
  <1>9. AsciiFuzzyIndex(text, p, o).from \in 0 .. n
    <2>1. text \in Seq(TextChars) /\ p \in Seq(PatternChars(o)) /\ p # <<>>
      BY <1>1 DEF ProbeTyped
    <2>2. PICK scope : scope = AsciiFuzzyIndex(text, p, o)
      OBVIOUS
    <2>3. scope.from >= 0 /\ (scope.from = -1 \/ scope.from \in 0 .. n)
      BY <1>2, <1>3, <1>8, <2>1, <2>2, FilterKeeps
    <2>4. scope.from # -1
      <3> SUFFICES ASSUME scope.from = -1 PROVE FALSE
        OBVIOUS
      <3>1. -1 >= 0
        BY <2>3
      <3> QED
        BY <3>1
    <2> QED
      BY <2>2, <2>3, <2>4
  <1> QED
    BY <1>1, <1>2, <1>4, <1>9

\* exactMatchNaive finds the pattern as it stands, if it occurs.
LEMMA ExactIs ==
  ASSUME ProbeTyped, probe.pattern # <<>>
  PROVE  ExactMatchNaive(probe.text, probe.pattern, probe.o).start \in OneOf(Occurrences)
  <1>1. PICK text, p, o : text = probe.text /\ p = probe.pattern /\ o = probe.o
    OBVIOUS
  <1>2. PICK n, K : n = Len(text) /\ K = Len(p) /\ n \in Nat /\ K \in Nat \ {0}
    BY <1>1, EmptySeq DEF ProbeTyped
  <1>3. PICK m : m = ExactMatch(text, p, FALSE, o) /\ m = ExactMatchNaive(text, p, o)
    BY DEF ExactMatchNaive
  <1>4. NoMatch.start = -1
    BY DEF NoMatch
  <1>5. CASE n < K \/ AsciiFuzzyIndex(text, p, o).from < 0
    <2>1. m = NoMatch
      BY <1>1, <1>2, <1>3, <1>5 DEF ExactMatch
    <2>2. Occurrences = {}
      <3> SUFFICES ASSUME NEW i \in Occurrences PROVE FALSE
        OBVIOUS
      <3>1. AsciiFuzzyIndex(text, p, o).from \in 0 .. n /\ K <= n
        BY <1>1, <1>2, OccursInScope
      <3> QED
        BY <1>2, <1>5, <3>1
    <2> QED
      BY <1>1, <1>3, <1>4, <2>1, <2>2 DEF OneOf
  <1>6. CASE ~(n < K \/ AsciiFuzzyIndex(text, p, o).from < 0)
    <2>1. PICK b : b = BestOccurrence(text, p, FALSE, o)
      OBVIOUS
    <2>2. m = OccurrenceAt(text, p, FALSE, b, o)
      BY <1>1, <1>2, <1>3, <1>6, <2>1 DEF ExactMatch
    <2>3. \/ b.at = -1 /\ \A i \in 0 .. n - K : ~Occurs(text, p, i, o)
          \/ b.at \in 0 .. n - K /\ Occurs(text, p, b.at, o)
      <3>1. Len(text) \in Nat /\ Len(p) \in Nat /\ Len(p) <= Len(text)
        BY <1>2, <1>6
      <3>2. \/ b.at = -1 /\ \A i \in 0 .. Len(text) - Len(p) : ~Occurs(text, p, i, o)
            \/ b.at \in 0 .. Len(text) - Len(p) /\ Occurs(text, p, b.at, o)
        BY <2>1, <3>1, BestOccurrenceIs
      <3> QED
        BY <1>2, <3>2
    <2>4. CASE b.at = -1 /\ \A i \in 0 .. n - K : ~Occurs(text, p, i, o)
      <3>1. m.start = -1
        BY <1>4, <2>2, <2>4 DEF OccurrenceAt
      <3>2. Occurrences = {}
        <4> SUFFICES ASSUME NEW i \in Occurrences PROVE FALSE
          OBVIOUS
        <4>1. i \in 0 .. n - K /\ Occurs(text, p, i, o)
          BY <1>1, <1>2, OccursInScope DEF Occurrences
        <4> QED
          BY <2>4, <4>1
      <3> QED
        BY <1>1, <1>3, <3>1, <3>2 DEF OneOf
    <2>5. CASE b.at \in 0 .. n - K /\ Occurs(text, p, b.at, o)
      <3>1. m.start = b.at
        BY <1>2, <2>2, <2>5 DEF OccurrenceAt
      <3>2. PICK i : i = b.at /\ i \in 0 .. n
        BY <1>2, <1>6, <2>5
      <3>3. b.at \in Occurrences
        BY <1>1, <1>2, <2>5, <3>2 DEF Occurrences
      <3> QED
        BY <1>1, <1>3, <3>1, <3>3 DEF OneOf
    <2> QED
      BY <2>3, <2>4, <2>5
  <1> QED
    BY <1>5, <1>6

\* The pattern begins the text where the spaces end that are skipped, and nowhere else.
LEMMA BeginningsAre ==
  ASSUME ProbeTyped, probe.pattern # <<>>
  PROVE  /\ SkippedBefore(probe.text, probe.pattern) \in 0 .. Len(probe.text)
         /\ Beginnings = {i \in Occurrences : i = SkippedBefore(probe.text, probe.pattern)}
  <1>1. PICK text, p, o, s : /\ text = probe.text /\ p = probe.pattern /\ o = probe.o
                             /\ s = SkippedBefore(text, p)
    OBVIOUS
  <1>2. PICK n, K : n = Len(text) /\ K = Len(p) /\ n \in Nat /\ K \in Nat \ {0}
    BY <1>1, EmptySeq DEF ProbeTyped
  <1>3. CASE IsSpace(p[1])
    <2>1. s = 0
      BY <1>1, <1>3 DEF SkippedBefore
    <2> QED
      BY <1>1, <1>2, <1>3, <2>1 DEF Beginnings
  <1>4. CASE ~IsSpace(p[1])
    <2>1. s = Leading(text)
      BY <1>1, <1>4 DEF SkippedBefore
    <2>2. s \in 0 .. n /\ (\A i \in 0 .. s - 1 : IsSpace(At(text, i))) /\ (s # n => ~IsSpace(At(text, s)))
      BY <1>1, <1>2, <2>1, LeadingIs DEF ProbeTyped
    <2>3. ASSUME NEW i \in Occurrences, OnlySpaces(0 .. i - 1) PROVE i = s
      <3>1. i \in 0 .. n - K /\ Occurs(text, p, i, o) /\ 1 \in DOMAIN p
        BY <1>1, <1>2, OccursInScope DEF Occurrences, ProbeTyped
      <3>2. Folded(At(text, i), o) = p[1]
        <4>1. Folded(At(text, i + 1 - 1), o) = p[1]
          BY <3>1 DEF Occurs
        <4>2. i + 1 - 1 = i
          BY <1>2, <3>1
        <4> QED
          BY <4>1, <4>2
      <3>3. ~IsSpace(At(text, i))
        BY <1>4, <3>2, FoldsSpace
      <3>4. ~(i < s)
        BY <1>2, <2>2, <3>1, <3>3
      <3>5. ~(s < i)
        <4> SUFFICES ASSUME s < i PROVE FALSE
          OBVIOUS
        <4>1. s \in 0 .. i - 1 /\ s # n
          BY <1>2, <2>2, <3>1
        <4> QED
          BY <1>1, <2>2, <2>3, <4>1 DEF OnlySpaces
      <3> QED
        BY <1>2, <2>2, <3>1, <3>4, <3>5
    <2>4. OnlySpaces(0 .. s - 1)
      BY <1>1, <2>2 DEF OnlySpaces
    <2> QED
      BY <1>1, <1>2, <1>4, <2>2, <2>3, <2>4 DEF Beginnings
  <1> QED
    BY <1>3, <1>4

\* ... and ends it where those begin that are skipped behind it.
LEMMA EndingsAre ==
  ASSUME ProbeTyped, probe.pattern # <<>>
  PROVE  /\ SkippedBehind(probe.text, probe.pattern) \in 0 .. Len(probe.text)
         /\ Endings = {i \in Occurrences :
                         i + Len(probe.pattern) = Len(probe.text) - SkippedBehind(probe.text, probe.pattern)}
  <1>1. PICK text, p, o, s : /\ text = probe.text /\ p = probe.pattern /\ o = probe.o
                             /\ s = SkippedBehind(text, p)
    OBVIOUS
  <1>2. PICK n, K : n = Len(text) /\ K = Len(p) /\ n \in Nat /\ K \in Nat \ {0}
    BY <1>1, EmptySeq DEF ProbeTyped
  <1>3. CASE IsSpace(p[K])
    <2>1. s = 0
      BY <1>1, <1>2, <1>3 DEF SkippedBehind
    <2>2. \A i \in Occurrences : i + K = n <=> i + K = n - s
      BY <1>2, <2>1
    <2> QED
      BY <1>1, <1>2, <1>3, <2>1, <2>2 DEF Endings
  <1>4. CASE ~IsSpace(p[K])
    <2>1. s = Trailing(text)
      BY <1>1, <1>2, <1>4 DEF SkippedBehind
    <2>2. /\ s \in 0 .. n /\ \A i \in n - s .. n - 1 : IsSpace(At(text, i))
          /\ s # n => ~IsSpace(At(text, n - s - 1))
      BY <1>1, <1>2, <2>1, TrailingIs DEF ProbeTyped
    <2>3. ASSUME NEW i \in Occurrences, OnlySpaces(i + K .. n - 1) PROVE i + K = n - s
      <3>1. i \in 0 .. n - K /\ Occurs(text, p, i, o) /\ K \in DOMAIN p
        BY <1>1, <1>2, OccursInScope DEF Occurrences, ProbeTyped
      <3>2. PICK x : x = i + K - 1 /\ x \in 0 .. n - 1 /\ ~IsSpace(At(text, x))
        <4>1. Folded(At(text, i + K - 1), o) = p[K]
          BY <3>1 DEF Occurs
        <4>2. i + K - 1 \in 0 .. n - 1
          BY <1>2, <3>1
        <4> QED
          BY <1>4, <4>1, <4>2, FoldsSpace
      <3>3. ~(x > n - s - 1)
        BY <1>2, <2>2, <3>2
      <3>4. ~(x < n - s - 1)
        <4> SUFFICES ASSUME x < n - s - 1 PROVE FALSE
          OBVIOUS
        <4>1. n - s - 1 \in i + K .. n - 1 /\ s # n
          BY <1>2, <2>2, <3>1, <3>2
        <4> QED
          BY <1>1, <2>2, <2>3, <4>1 DEF OnlySpaces
      <3>5. i \in Int /\ s \in Int /\ x \in Int /\ n \in Int
        BY <1>2, <2>2, <3>1, <3>2
      <3>6. x = n - s - 1
        BY ONLY <3>3, <3>4, <3>5
      <3> QED
        BY <1>2, <3>2, <3>5, <3>6
    <2>4. OnlySpaces(n - s .. n - 1)
      BY <1>1, <2>2 DEF OnlySpaces
    <2> QED
      BY <1>1, <1>2, <1>4, <2>2, <2>3, <2>4 DEF Endings
  <1> QED
    BY <1>3, <1>4

\* Exact, prefix, suffix and equal matches are found where there are any, and nowhere else.
LEMMA ExactMatchesAreSound ==
  ASSUME ProbeTyped, probe.pattern # <<>>
  PROVE  ExactSound
  <1>1. PICK text, p, o : text = probe.text /\ p = probe.pattern /\ o = probe.o
    OBVIOUS
  <1>2. PICK n, K : n = Len(text) /\ K = Len(p) /\ n \in Nat /\ K \in Nat \ {0}
    BY <1>1, EmptySeq DEF ProbeTyped
  <1>3. PICK s, b : s = SkippedBefore(text, p) /\ b = SkippedBehind(text, p)
    OBVIOUS
  <1>4. /\ s \in 0 .. n /\ Beginnings = {i \in Occurrences : i = s}
        /\ b \in 0 .. n /\ Endings = {i \in Occurrences : i + K = n - b}
    BY <1>1, <1>2, <1>3, BeginningsAre, EndingsAre
  <1>5. \A i \in 0 .. n : i \in Occurrences <=> Occurs(text, p, i, o)
    BY <1>1, <1>2 DEF Occurrences
  <1>6. NoMatch.start = -1 /\ \A i, e : ScoredMatch(text, p, i, e, o).start = i
    BY DEF NoMatch, ScoredMatch
  <1>7. PrefixMatch(text, p, o).start \in OneOf(Beginnings)
    <2>1. PrefixMatch(text, p, o) = IF s < 0 \/ ~Occurs(text, p, s, o) THEN NoMatch ELSE ScoredMatch(text, p, s, s + K, o)
      BY <1>1, <1>2, <1>3 DEF PrefixMatch, Matched
    <2>2. CASE Occurs(text, p, s, o)
      <3>1. PrefixMatch(text, p, o).start = s /\ s \in Beginnings
        BY <1>2, <1>4, <1>5, <1>6, <2>1, <2>2
      <3> QED
        BY <3>1 DEF OneOf
    <2>3. CASE ~Occurs(text, p, s, o)
      <3>1. PrefixMatch(text, p, o).start = -1 /\ Beginnings = {}
        BY <1>4, <1>5, <1>6, <2>1, <2>3
      <3> QED
        BY <3>1 DEF OneOf
    <2> QED
      BY <2>2, <2>3
  <1>8. SuffixMatch(text, p, o).start \in OneOf(Endings)
    <2>1. PICK i : i = n - b - K /\ i \in Int /\ i <= n
      BY <1>2, <1>4
    <2>2. SuffixMatch(text, p, o) = IF i < 0 \/ ~Occurs(text, p, i, o) THEN NoMatch ELSE ScoredMatch(text, p, i, i + K, o)
      BY <1>1, <1>2, <1>3, <2>1 DEF SuffixMatch, Matched
    <2>3. \A j \in Occurrences : j + K = n - b <=> j = i
      BY <1>2, <1>4, <2>1 DEF Occurrences
    <2>4. CASE i >= 0 /\ Occurs(text, p, i, o)
      <3>1. SuffixMatch(text, p, o).start = i /\ i \in Endings
        BY <1>2, <1>4, <1>5, <1>6, <2>1, <2>2, <2>3, <2>4
      <3> QED
        BY <3>1 DEF OneOf
    <2>5. CASE ~(i >= 0 /\ Occurs(text, p, i, o))
      <3>1. SuffixMatch(text, p, o).start = -1
        BY <1>6, <2>1, <2>2, <2>5
      <3>2. Endings = {}
        <4> SUFFICES ASSUME NEW j \in Endings PROVE FALSE
          OBVIOUS
        <4>1. j = i /\ j \in 0 .. n /\ Occurs(text, p, j, o)
          BY <1>1, <1>2, <1>4, <2>3 DEF Occurrences
        <4> QED
          BY <1>2, <2>5, <4>1
      <3> QED
        BY <3>1, <3>2 DEF OneOf
    <2> QED
      BY <2>4, <2>5
  <1>9. EqualMatch(text, p, o).start \in OneOf(Beginnings \cap Endings)
    <2>1. PICK q : q = IF o.norm THEN [k \in DOMAIN p |-> NormalizeRune(p[k])] ELSE p
      OBVIOUS
    <2>2. q = p
      <3>1. CASE o.norm
        <4>1. p \in Seq(PatternChars(o)) /\ DOMAIN p = 1 .. K
          BY <1>1, <1>2 DEF ProbeTyped
        <4>2. \A k \in DOMAIN p : NormalizeRune(p[k]) = p[k]
          BY <1>2, <3>1, <4>1 DEF PatternChars
        <4>3. p = [k \in DOMAIN p |-> p[k]]
          BY <4>1
        <4> QED
          BY <2>1, <3>1, <4>2, <4>3
      <3> QED
        BY <2>1, <3>1
    <2>3. PICK m : m = EqualMatch(text, p, o)
      OBVIOUS
    <2>4. CASE n - s - b # K \/ ~Occurs(text, p, s, o)
      <3>1. m = NoMatch
        BY <1>1, <1>2, <1>3, <2>1, <2>2, <2>3, <2>4 DEF EqualMatch
      <3>2. Beginnings \cap Endings = {}
        <4> SUFFICES ASSUME NEW i \in Beginnings, i \in Endings PROVE FALSE
          OBVIOUS
        <4>1. i = s /\ i + K = n - b /\ Occurs(text, p, i, o)
          BY <1>1, <1>4 DEF Occurrences
        <4> QED
          BY <1>2, <1>4, <2>4, <4>1
      <3> QED
        BY <1>6, <2>3, <3>1, <3>2 DEF OneOf
    <2>5. CASE ~(n - s - b # K \/ ~Occurs(text, p, s, o))
      <3>1. m.start = s
        BY <1>1, <1>2, <1>3, <2>1, <2>2, <2>3, <2>5 DEF EqualMatch
      <3>2. s \in Beginnings /\ s \in Endings
        BY <1>2, <1>4, <1>5, <2>5
      <3> QED
        BY <2>3, <3>1, <3>2 DEF OneOf
    <2> QED
      BY <2>4, <2>5
  <1> QED
    BY <1>1, <1>7, <1>8, <1>9, ExactIs DEF ExactSound

-----------------------------------------------------------------------------
(* FuzzyMatchV2: what it is to return, and patterns of one character *)

\* r is what a search of t[a:b] for p may return: a way, with its ends, if there is one.
IsResult(r, t, p, a, b) ==
  \/ ~Has(t, p, Len(p), a, b) /\ r = NoMatch
  \/ /\ Way(t, p, Len(p), a, b, r.pos)
     /\ r.pos = [k \in 1 .. Len(p) |-> r.pos[k]]
     /\ r.start = r.pos[1] /\ r.end = r.pos[Len(p)] + 1

\* The best of the hits H before n, or nowhere
BestBefore(from, n, H) ==
  {x \in [at : Int, score : Int, stop : BOOLEAN] :
     \/ x = Nowhere /\ \A m \in from .. n - 1 : m \notin H
     \/ x.at \in H /\ x.at \in from .. n - 1}

\* It stays that with one more place, or one that is no hit.
LEMMA PlaceKept ==
  ASSUME NEW from \in Nat, NEW n \in Nat, n > from, NEW H, NEW x \in BestBefore(from, n - 1, H),
         NEW bonus \in Nat, NEW o, NEW y, y = (IF n - 1 \notin H THEN x ELSE BetterPlace(x, n - 1, bonus, o))
  PROVE  y \in BestBefore(from, n, H)
  <1>1. x \in [at : Int, score : Int, stop : BOOLEAN]
    BY DEF BestBefore
  <1>2. \/ x = Nowhere /\ \A m \in from .. (n - 1) - 1 : m \notin H
        \/ x.at \in H /\ x.at \in from .. (n - 1) - 1
    BY DEF BestBefore
  <1>3. \A m \in from .. n - 1 : m = n - 1 \/ m \in from .. (n - 1) - 1
    OBVIOUS
  <1>4. \A m \in from .. (n - 1) - 1 : m \in from .. n - 1
    OBVIOUS
  <1>5. CASE n - 1 \notin H
    BY <1>1, <1>2, <1>3, <1>4, <1>5 DEF BestBefore
  <1>6. CASE n - 1 \in H
    <2>1. PICK score : score = ScoreMatch + BonusFirstCharMultiplier * bonus /\ score \in Int /\ score > 0
      BY DEF ScoreMatch, BonusFirstCharMultiplier
    <2>2. PICK new : new = [at |-> n - 1, score |-> score, stop |-> o.forward /\ bonus >= BonusBoundary]
      OBVIOUS
    <2>3. y = IF x.stop \/ ~Better(score, x.score, o) THEN x ELSE new
      BY <1>6, <2>1, <2>2 DEF BetterPlace
    <2>4. new \in BestBefore(from, n, H)
      <3>1. new.at = n - 1 /\ new \in [at : Int, score : Int, stop : BOOLEAN]
        BY <2>1, <2>2
      <3>2. new.at \in from .. n - 1
        BY <3>1
      <3> QED
        BY <1>6, <3>1, <3>2 DEF BestBefore
    <2>5. CASE x = Nowhere
      <3>1. x.stop = FALSE /\ x.score = 0
        BY <2>5 DEF Nowhere
      <3>2. y = new
        BY <2>1, <2>3, <3>1 DEF Better
      <3> QED
        BY <2>4, <3>2
    <2>6. CASE x.at \in H /\ x.at \in from .. (n - 1) - 1
      <3>1. x \in BestBefore(from, n, H)
        BY <1>1, <1>4, <2>6 DEF BestBefore
      <3> QED
        BY <2>3, <2>4, <3>1
    <2> QED
      BY <1>2, <2>5, <2>6
  <1> QED
    BY <1>5, <1>6

\* The places of a character in text[from:to]
PlacesOf(text, c, from, to, o) == {i \in from .. to - 1 : Folded(At(text, i), o) = c}

\* r is one of the places H, or there is none.
IsPlace(r, H) ==
  \/ H = {} /\ r = NoMatch
  \/ \E a \in H : r.start = a /\ r.end = a + 1 /\ r.pos = <<a>>

\* The general search for one character
LEMMA BestOfIs ==
  ASSUME NEW text, NEW p, NEW from \in Nat, NEW to \in Nat, from <= to, NEW o,
         NEW H, H = PlacesOf(text, p, from, to, o),
         NEW r, r = BestOf(text, p, from, to, o)
  PROVE  IsPlace(r, H)
  <1> DEFINE S(n) == BestBefore(from, n, H)
             Grow(n, x) == IF Folded(At(text, n - 1), o) # p THEN x
                           ELSE BetterPlace(x, n - 1, BonusFrom(text, n - 1, from, o), o)
             Made(f) == f = [n \in from .. to |-> IF n = from THEN Nowhere ELSE Grow(n, f[n - 1])]
             best == CHOOSE f : Made(f)
  <1>1. Nowhere \in S(from)
    BY DEF BestBefore, Nowhere
  <1>2. ASSUME NEW n \in from + 1 .. to, NEW x \in S(n - 1) PROVE Grow(n, x) \in S(n)
    <2>1. PICK bonus : bonus = BonusFrom(text, n - 1, from, o) /\ bonus \in Nat
      BY BonusNat
    <2>2. PICK y : y = Grow(n, x)
      OBVIOUS
    <2>3. n - 1 \in from .. to - 1 /\ n \in Nat /\ n > from
      OBVIOUS
    <2>4. n - 1 \in H <=> Folded(At(text, n - 1), o) = p
      BY <2>3 DEF PlacesOf
    <2>5. y = IF n - 1 \notin H THEN x ELSE BetterPlace(x, n - 1, bonus, o)
      BY <2>1, <2>2, <2>4
    <2>6. y \in BestBefore(from, n, H)
      BY <2>1, <2>3, <2>5, PlaceKept
    <2> QED
      BY <2>2, <2>6
  <1> HIDE DEF S, Grow
  <1>3. \E f : Made(f)
    <2>1. PICK T : T = [n \in from .. to |-> S(n)]
      OBVIOUS
    <2>2. PICK G : G = [n \in from + 1 .. to |-> [x \in S(n - 1) |-> Grow(n, x)]]
      OBVIOUS
    <2>3. PICK y0 : y0 = Nowhere
      OBVIOUS
    <2>4. y0 \in T[from]
      BY <1>1, <2>1, <2>3
    <2>5. \A n \in from + 1 .. to : n - 1 \in from .. to /\ n \in from .. to /\ T[n - 1] = S(n - 1) /\ T[n] = S(n)
      BY <2>1
    <2>6. \A n \in from + 1 .. to : \A x \in T[n - 1] : G[n][x] = Grow(n, x)
      BY <2>2, <2>5
    <2>7. \A n \in from + 1 .. to : \A x \in T[n - 1] : G[n][x] \in T[n]
      BY <1>2, <2>5, <2>6
    <2>8. PICK f : Recursive(f, from, to, y0, G, T)
      <3>1. from \in Int /\ to \in Int /\ from <= to
        OBVIOUS
      <3> QED
        BY ONLY <3>1, <2>4, <2>7, RecursionFrom
    <2>9. ASSUME NEW n \in from + 1 .. to PROVE f[n] = Grow(n, f[n - 1])
      <3>1. f[n] = G[n][f[n - 1]]
        BY <2>8 DEF Recursive
      <3>2. f[n - 1] \in T[n - 1]
        BY <2>5, <2>8 DEF Recursive
      <3> QED
        BY <2>6, <3>1, <3>2
    <2>10. ASSUME NEW n \in from .. to PROVE f[n] = IF n = from THEN Nowhere ELSE Grow(n, f[n - 1])
      <3>1. f[from] = y0
        BY <2>8 DEF Recursive
      <3>2. n = from \/ n \in from + 1 .. to
        OBVIOUS
      <3> QED
        BY <2>3, <2>9, <3>1, <3>2
    <2>11. f = [n \in from .. to |-> f[n]]
      BY <2>8 DEF Recursive
    <2> QED
      BY <2>10, <2>11
  <1>4. Made(best)
    BY <1>3
  <1>5. best[to] \in S(to)
    <2>1. PICK T : T = [n \in from .. to |-> S(n)]
      OBVIOUS
    <2>2. \A n \in from + 1 .. to : n - 1 \in from .. to /\ n \in from .. to /\ T[n - 1] = S(n - 1) /\ T[n] = S(n)
      BY <2>1
    <2>3. best[from] = Nowhere /\ \A n \in from + 1 .. to : best[n] = Grow(n, best[n - 1])
      <3>1. PICK f : f = best
        OBVIOUS
      <3>2. f = [n \in from .. to |-> IF n = from THEN Nowhere ELSE Grow(n, f[n - 1])]
        BY <3>1, <1>4
      <3> HIDE DEF best
      <3>3. f[from] = Nowhere /\ \A n \in from + 1 .. to : f[n] = Grow(n, f[n - 1])
        BY ONLY <3>2, from \in Nat, to \in Nat, from <= to
      <3> QED
        BY <3>1, <3>3
    <2> HIDE DEF best
    <2>4. best[from] \in T[from] /\ \A n \in from + 1 .. to : best[n - 1] \in T[n - 1] => best[n] \in T[n]
      BY <1>1, <1>2, <2>1, <2>2, <2>3
    <2>5. \A n \in from .. to : best[n] \in T[n]
      BY <2>4, ThroughoutFrom
    <2> QED
      BY <2>1, <2>5
  <1>6. r = MatchAt(best[to])
    BY DEF BestOf, Grow
  <1>7. PICK b : b = best[to] /\ b \in BestBefore(from, to, H)
    BY <1>5 DEF S
  <1>8. CASE b = Nowhere /\ \A m \in from .. to - 1 : m \notin H
    <2>1. H = {} /\ b.at = -1
      BY <1>8 DEF Nowhere, PlacesOf
    <2> QED
      BY <1>6, <1>7, <2>1 DEF MatchAt, IsPlace
  <1>9. CASE b.at \in H /\ b.at \in from .. to - 1
    <2>1. ~(b.at < 0)
      BY <1>9
    <2>2. r = [start |-> b.at, end |-> b.at + 1, score |-> b.score, pos |-> <<b.at>>]
      BY <1>6, <1>7, <2>1 DEF MatchAt
    <2> QED
      BY <1>9, <2>2 DEF IsPlace
  <1> QED
    BY <1>7, <1>8, <1>9 DEF BestBefore

\* A character of a pattern that the prefilter finds folds to it.
LEMMA FindsWhatFolds ==
  ASSUME NEW o, NEW p \in PatternChars(o), NEW c, Finds(c, p, o)
  PROVE  Folded(c, o) = p
  <1>1. (o.case \/ Lower(p) = p) /\ (o.norm => NormalizeRune(p) = p)
    BY DEF PatternChars
  <1>2. CASE c = p
    BY <1>1, <1>2 DEF Folded
  <1>3. CASE c # p
    <2>1. ~o.case /\ Lower(c) = p
      BY <1>3 DEF Finds
    <2> QED
      BY <1>1, <2>1 DEF Folded
  <1> QED
    BY <1>2, <1>3

\* In ASCII, the search for one character does not go through the text, but finds the same.
LEMMA SingleIsBest ==
  ASSUME NEW A, NEW text \in Seq(A), IsBytes(text), NEW o, NEW p \in PatternChars(o)
  PROVE  FuzzyMatchV2Single(text, p, o) = BestOf(text, p, 0, Len(text), o)
  <1>1. PICK N : N = Len(text) /\ N \in Nat
    OBVIOUS
  <1>2. ASSUME NEW n \in 1 .. N PROVE Finds(At(text, n - 1), p, o) <=> Folded(At(text, n - 1), o) = p
    <2>1. PICK c : c = At(text, n - 1)
      OBVIOUS
    <2>2. IsAscii(c)
      <3>1. n - 1 + 1 \in DOMAIN text
        BY <1>1
      <3> QED
        BY <2>1, <3>1 DEF At, IsBytes, Ascii
    <2> QED
      BY <2>1, <2>2, FoldsToFinds, FindsWhatFolds
  <1> DEFINE Next1(f, n) == IF ~Finds(At(text, n - 1), p, o) THEN f[n - 1]
                            ELSE BetterPlace(f[n - 1], n - 1, BonusFrom(text, n - 1, 0, o), o)
             Next2(f, n) == IF Folded(At(text, n - 1), o) # p THEN f[n - 1]
                            ELSE BetterPlace(f[n - 1], n - 1, BonusFrom(text, n - 1, 0, o), o)
             Body1(f) == [n \in 0 .. Len(text) |-> IF n = 0 THEN Nowhere ELSE Next1(f, n)]
             Body2(f) == [n \in 0 .. Len(text) |-> IF n = 0 THEN Nowhere ELSE Next2(f, n)]
  <1>3. ASSUME NEW f PROVE Body1(f) = Body2(f)
    <2>1. \A n \in 1 .. N : Next1(f, n) = Next2(f, n)
      BY <1>2
    <2> HIDE DEF Next1, Next2
    <2>2. \A n \in 0 .. N : n # 0 => n \in 1 .. N
      BY <1>1
    <2> QED
      BY <1>1, <2>1, <2>2
  <1>4. (CHOOSE f : f = Body1(f)) = (CHOOSE f : f = Body2(f))
    <2> HIDE DEF Body1, Body2
    <2> QED
      BY <1>3
  <1>5. FuzzyMatchV2Single(text, p, o) = MatchAt((CHOOSE f : f = Body1(f))[Len(text)])
    BY DEF FuzzyMatchV2Single
  <1>6. BestOf(text, p, 0, Len(text), o) = MatchAt((CHOOSE f : f = Body2(f))[Len(text)])
    BY DEF BestOf
  <1> QED
    BY <1>4, <1>5, <1>6

\* The first occurrence of each character, one behind the other
AreFirsts(F, T, p) ==
  /\ F \in Seq(1 .. Len(T)) /\ Len(F) <= Len(p)
  /\ \A i \in 1 .. Len(F) : T[F[i]] = p[i] /\ \A k \in 1 .. Len(F) : i < k => F[i] < F[k]
  /\ Len(F) < Len(p) => ~Has(T, p, Len(F) + 1, 0, Len(T))
\* Phase 2 finds them, and misses one only if the text does not have the pattern.
LEMMA FirstsAre ==
  ASSUME NEW A, NEW T \in Seq(A), NEW p \in Seq(A), NEW F, F = Firsts(T, p)
  PROVE  AreFirsts(F, T, p)
  <1>a. PICK N : N = Len(T) /\ N \in Nat
    OBVIOUS
  <1>b. PICK K : K = Len(p) /\ K \in Nat
    OBVIOUS
  <1>1. N = Len(T) /\ K = Len(p) /\ N \in Nat /\ K \in Nat
    BY <1>a, <1>b
  <1> DEFINE Inv(n, so) ==
               /\ Len(so) <= K
               /\ \A i \in 1 .. Len(so) : so[i] <= n /\ T[so[i]] = p[i]
               /\ \A i, k \in 1 .. Len(so) : i < k => so[i] < so[k]
               /\ Len(so) < K => ~Has(T, p, Len(so) + 1, 0, n)
             S(n) == {so \in Seq(1 .. N) : Inv(n, so)}
             Grow(n, so) == IF Len(so) < Len(p) /\ T[n] = p[Len(so) + 1] THEN Append(so, n) ELSE so
             Made(f) == f = [n \in 0 .. Len(T) |-> IF n = 0 THEN <<>> ELSE Grow(n, f[n - 1])]
             firsts == CHOOSE f : Made(f)
  <1>2. <<>> \in S(0)
    <2>1. ~Has(T, p, 0 + 1, 0, 0)
      BY DEF Has, Way
    <2> QED
      BY <1>1, <2>1
  <1>3. ASSUME NEW n \in 1 .. N, NEW so \in S(n - 1) PROVE Grow(n, so) \in S(n)
    <2>a. PICK W : W = 1 .. N /\ so \in Seq(W)
      OBVIOUS
    <2>b. PICK k : k = Len(so) /\ k \in Nat
      BY <2>a, LenProperties
    <2>1. W = 1 .. N /\ so \in Seq(W) /\ k = Len(so) /\ k \in Nat /\ Inv(n - 1, so)
      BY <2>a, <2>b
    <2>2. n \in Nat \ {0} /\ n - 1 \in Int /\ n - 1 <= n /\ n \in W /\ k <= K
      BY <1>1, <2>1
    <2>3. \A i \in 1 .. k : so[i] \in W /\ so[i] \in Int /\ so[i] <= n - 1 /\ so[i] < n /\ T[so[i]] = p[i]
      <3>1. \A i \in 1 .. k : so[i] \in W
        BY <2>1, ElementOfSeq
      <3> QED
        BY <1>1, <2>1, <2>2, <3>1
    <2>4. CASE k < K /\ T[n] = p[k + 1]
      <3>1. PICK new : new = Append(so, n) /\ new = Grow(n, so)
        BY <1>1, <2>1, <2>4
      <3>2. new \in Seq(W) /\ Len(new) = k + 1 /\ new[k + 1] = n /\ \A i \in 1 .. k : new[i] = so[i]
        <4>1. so \in Seq(W) /\ n \in W /\ k = Len(so) /\ k \in Nat
          BY <2>1, <2>2
        <4>2. Append(so, n) \in Seq(W) /\ Len(Append(so, n)) = Len(so) + 1
          BY ONLY <4>1, AppendProperties
        <4>3. Append(so, n)[Len(so) + 1] = n /\ \A i \in 1 .. Len(so) : Append(so, n)[i] = so[i]
          BY ONLY <4>1, AppendProperties
        <4> QED
          BY <3>1, <4>1, <4>2, <4>3
      <3>3. ~Has(T, p, k + 1, 0, n - 1)
        BY <2>1, <2>4
      <3>4. ~Has(T, p, k + 2, 0, n)
        BY <2>1, <2>2, <3>3, HasNext
      <3>5. ASSUME NEW i \in 1 .. k + 1 PROVE new[i] <= n /\ T[new[i]] = p[i]
        <4>1. CASE i = k + 1
          BY <4>1, <2>2, <2>4, <3>2
        <4>2. CASE i # k + 1
          <5>1. i \in 1 .. k
            BY <4>2, <2>1
          <5> QED
            BY <5>1, <2>2, <2>3, <3>2
        <4> QED
          BY <4>1, <4>2
      <3>6. ASSUME NEW i \in 1 .. k + 1, NEW j \in 1 .. k + 1, i < j PROVE new[i] < new[j]
        <4>1. i \in 1 .. k
          BY <2>1, <3>6
        <4>2. CASE j = k + 1
          BY <4>1, <4>2, <2>3, <3>2
        <4>3. CASE j # k + 1
          <5>1. j \in 1 .. k
            BY <4>3, <2>1
          <5> QED
            BY <4>1, <5>1, <3>6, <3>2, <2>1
        <4> QED
          BY <4>2, <4>3
      <3>7. Inv(n, new)
        <4>1. Len(new) <= K /\ Len(new) + 1 = k + 2
          BY <1>1, <2>1, <2>4, <3>2
        <4> QED
          BY <4>1, <3>2, <3>4, <3>5, <3>6
      <3> HIDE DEF Inv
      <3> QED
        BY <2>1, <3>1, <3>2, <3>7
    <2>5. CASE ~(k < K /\ T[n] = p[k + 1])
      <3>1. Grow(n, so) = so
        BY <1>1, <2>1, <2>5
      <3>2. k < K => ~Has(T, p, k + 1, 0, n)
        BY <2>1, <2>2, <2>5, HasNext
      <3>3. Inv(n, so)
        BY <2>1, <2>2, <2>3, <3>2
      <3> HIDE DEF Inv
      <3> QED
        BY <2>1, <3>1, <3>3
    <2> QED
      BY <2>4, <2>5
  <1> HIDE DEF Inv, S, Grow
  <1>4. \E f : Made(f)
    <2>1. PICK U : U = [n \in 0 .. N |-> S(n)]
      OBVIOUS
    <2>2. PICK G : G = [n \in 1 .. N |-> [x \in S(n - 1) |-> Grow(n, x)]]
      OBVIOUS
    <2>4. <<>> \in U[0]
      BY <1>1, <1>2, <2>1
    <2>5. \A n \in 1 .. N : n - 1 \in 0 .. N /\ n \in 0 .. N /\ U[n - 1] = S(n - 1) /\ U[n] = S(n)
      BY <1>1, <2>1
    <2>6. \A n \in 1 .. N : \A x \in U[n - 1] : G[n][x] = Grow(n, x)
      BY <2>2, <2>5
    <2>7. \A n \in 1 .. N : \A x \in U[n - 1] : G[n][x] \in U[n]
      BY <1>3, <2>5, <2>6
    <2>8. PICK f : Recursive(f, 0, N, <<>>, G, U)
      BY <1>1, <2>4, <2>7, Recursion
    <2>9. ASSUME NEW n \in 1 .. N PROVE f[n] = Grow(n, f[n - 1])
      <3>1. f[n] = G[n][f[n - 1]]
        <4>1. n \in 0 + 1 .. N
          BY <1>1
        <4> QED
          BY <2>8, <4>1 DEF Recursive
      <3>2. f[n - 1] \in U[n - 1]
        BY <2>5, <2>8 DEF Recursive
      <3> QED
        BY <2>6, <3>1, <3>2
    <2>10. ASSUME NEW n \in 0 .. N PROVE f[n] = IF n = 0 THEN <<>> ELSE Grow(n, f[n - 1])
      <3>1. f[0] = <<>>
        BY <2>8 DEF Recursive
      <3>2. n = 0 \/ n \in 1 .. N
        BY <1>1
      <3> QED
        BY <2>9, <3>1, <3>2
    <2>11. f = [n \in 0 .. N |-> f[n]]
      BY <2>8 DEF Recursive
    <2>12. f = [n \in 0 .. N |-> IF n = 0 THEN <<>> ELSE Grow(n, f[n - 1])]
      BY <2>10, <2>11
    <2> QED
      BY <1>1, <2>12
  <1>5. Made(firsts)
    BY <1>4
  <1>6. firsts[N] \in S(N)
    <2>1. PICK U : U = [n \in 0 .. N |-> S(n)]
      OBVIOUS
    <2>2. \A n \in 1 .. N : n - 1 \in 0 .. N /\ n \in 0 .. N /\ U[n - 1] = S(n - 1) /\ U[n] = S(n)
      BY <1>1, <2>1
    <2>3. firsts[0] = <<>> /\ \A n \in 1 .. N : firsts[n] = Grow(n, firsts[n - 1])
      <3>1. PICK f : f = firsts
        OBVIOUS
      <3>2. f = [n \in 0 .. N |-> IF n = 0 THEN <<>> ELSE Grow(n, f[n - 1])]
        BY <3>1, <1>5, <1>1
      <3> HIDE DEF firsts
      <3>3. f[0] = <<>> /\ \A n \in 1 .. N : f[n] = Grow(n, f[n - 1])
        <4>1. N \in Nat
          BY <1>1
        <4> QED
          BY ONLY <3>2, <4>1
      <3> QED
        BY <3>1, <3>3
    <2> HIDE DEF firsts
    <2>4. firsts[0] \in U[0] /\ \A n \in 1 .. N : firsts[n - 1] \in U[n - 1] => firsts[n] \in U[n]
      BY <1>1, <1>2, <1>3, <2>1, <2>2, <2>3
    <2>5. \A n \in 0 .. N : firsts[n] \in U[n]
      BY <1>1, <2>4, Throughout
    <2> QED
      BY <1>1, <2>1, <2>5
  <1>7. F = firsts[N]
    BY <1>1 DEF Firsts, Grow
  <1>8. F \in Seq(1 .. N) /\ Inv(N, F)
    BY <1>6, <1>7 DEF S
  <1> QED
    BY <1>1, <1>8 DEF Inv, AreFirsts

\* The last place of a character that is there
LEMMA LastPlaceIs ==
  ASSUME NEW A, NEW T \in Seq(A), NEW c, NEW m \in 1 .. Len(T), T[m] = c
  PROVE  LastPlace(T, c) \in m .. Len(T) /\ T[LastPlace(T, c)] = c
  <1> DEFINE H == {n \in 1 .. Len(T) : T[n] = c}
  <1>1. H \in SUBSET Nat /\ IsFiniteSet(H) /\ H # {}
    <2>1. H \subseteq 1 .. Len(T) /\ IsFiniteSet(1 .. Len(T))
      <3>1. 1 \in Int /\ Len(T) \in Int
        OBVIOUS
      <3> QED
        BY <3>1, FS_Interval
    <2> QED
      BY <2>1, FS_Subset
  <1>2. \E n \in H : \A k \in H : k <= n
    <2> HIDE DEF H
    <2> QED
      BY <1>1, GreatestNat
  <1>3. PICK n \in H : \A k \in H : k <= n
    BY <1>2
  <1>4. n \in DOMAIN T /\ T[n] = c /\ \A k \in n + 1 .. Len(T) : T[k] # c
    <2>1. n \in 1 .. Len(T) /\ T[n] = c /\ \A k \in 1 .. Len(T) : T[k] = c => k <= n
      BY <1>3
    <2>2. \A k \in n + 1 .. Len(T) : k \in 1 .. Len(T) /\ ~(k <= n)
      BY <2>1
    <2>3. \A k \in n + 1 .. Len(T) : T[k] # c
      BY <2>1, <2>2
    <2> QED
      BY <2>1, <2>3
  <1>5. PICK x : x = LastPlace(T, c) /\ x \in DOMAIN T /\ T[x] = c /\ \A k \in x + 1 .. Len(T) : T[k] # c
    BY <1>4 DEF LastPlace
  <1>6. ~(x < m)
    BY <1>5
  <1> QED
    BY <1>5, <1>6

\* The end with the best score
LEMMA BestEndIs ==
  ASSUME NEW row, NEW f \in Nat, NEW last \in Nat, f <= last, NEW o,
         \A n \in f .. last : row[n].h \in Nat, row[f].h > 0,
         NEW best, best = BestEnd(row, f, last, o)
  PROVE  /\ best.at \in f .. last /\ best.score = row[best.at].h
         /\ \A n \in f .. last : row[n].h <= row[best.at].h
  <1> DEFINE a == f - 1
             Inv(n, x) == \/ n = a /\ x = [at |-> 1, score |-> 0]
                          \/ /\ n # a
                             /\ x.at \in f .. n /\ x.score = row[x.at].h
                             /\ \A m \in f .. n : row[m].h <= x.score
             S(n) == {x \in [at : Int, score : Int] : Inv(n, x)}
             Grow(n, x) == IF Better(row[n].h, x.score, o) THEN [at |-> n, score |-> row[n].h] ELSE x
             x0 == [at |-> 1, score |-> 0]
             Made(g) == g = [n \in a .. last |-> IF n = a THEN x0 ELSE Grow(n, g[n - 1])]
             ends == CHOOSE g : Made(g)
  <1>0. a \in Int /\ a <= last /\ a + 1 = f
    OBVIOUS
  <1>1. x0 \in S(a)
    OBVIOUS
  <1>2. ASSUME NEW n \in a + 1 .. last, NEW x \in S(n - 1) PROVE Grow(n, x) \in S(n)
    <2>1. PICK h, b, s : h = row[n].h /\ b = x.at /\ s = x.score /\ x = [at |-> b, score |-> s]
      OBVIOUS
    <2>2. n \in f .. last /\ h \in Nat /\ b \in Int /\ s \in Int /\ Inv(n - 1, x) /\ n # a
      BY <2>1
    <2>3. PICK y : y = Grow(n, x) /\ y = IF h > s \/ (~o.forward /\ h >= s) THEN [at |-> n, score |-> h] ELSE x
      BY <2>1 DEF Better
    <2>4. CASE n - 1 = a
      <3>1. n = f /\ s = 0 /\ h > 0
        BY <2>1, <2>2, <2>4
      <3>2. y = [at |-> n, score |-> h]
        BY <2>2, <2>3, <3>1
      <3>3. y \in [at : Int, score : Int] /\ y.at = n /\ y.score = h
        BY <2>2, <3>2
      <3>4. \A m \in f .. n : row[m].h <= h
        BY <2>1, <2>2, <3>1
      <3>5. Inv(n, y)
        BY <2>1, <2>2, <3>3, <3>4
      <3> HIDE DEF Inv, Grow
      <3> QED
        BY <2>3, <3>3, <3>5
    <2>5. CASE n - 1 # a
      <3>1. b \in f .. n - 1 /\ s = row[b].h /\ \A m \in f .. n - 1 : row[m].h <= s /\ row[m].h \in Nat
        BY <2>1, <2>2, <2>5
      <3>2. \A m \in f .. n : m = n \/ m \in f .. n - 1
        BY <2>2
      <3>3. CASE y = [at |-> n, score |-> h] /\ h >= s
        <4>1. y \in [at : Int, score : Int] /\ y.at = n /\ y.score = h
          BY <2>2, <3>3
        <4>2. ASSUME NEW m \in f .. n PROVE row[m].h <= h
          <5>1. CASE m = n
            BY <5>1, <2>1, <2>2
          <5>2. CASE m \in f .. n - 1
            BY <5>2, <2>2, <3>1, <3>3
          <5> QED
            BY <3>2, <5>1, <5>2
        <4>3. Inv(n, y)
          BY <2>1, <2>2, <4>1, <4>2
        <4> HIDE DEF Inv, Grow
        <4> QED
          BY <2>3, <4>1, <4>3
      <3>4. CASE y = x /\ h <= s
        <4>1. \A m \in f .. n : row[m].h <= s
          BY <2>1, <3>1, <3>2, <3>4
        <4>2. b \in f .. n
          BY <2>2, <3>1
        <4>3. Inv(n, x)
          BY <2>1, <2>2, <3>1, <4>1, <4>2
        <4>4. x \in [at : Int, score : Int]
          OBVIOUS
        <4> HIDE DEF Inv, Grow
        <4> QED
          BY <2>3, <3>4, <4>3, <4>4
      <3> QED
        BY <2>2, <2>3, <3>3, <3>4
    <2> QED
      BY <2>4, <2>5
  <1> HIDE DEF a, S, Inv, Grow, x0
  <1>3. \E g : Made(g)
    <2>1. PICK T : T = [n \in a .. last |-> S(n)]
      OBVIOUS
    <2>2. PICK G : G = [n \in a + 1 .. last |-> [x \in S(n - 1) |-> Grow(n, x)]]
      OBVIOUS
    <2>3. PICK y0 : y0 = x0
      OBVIOUS
    <2>4. y0 \in T[a]
      BY <1>0, <1>1, <2>1, <2>3
    <2>5. \A n \in a + 1 .. last : n - 1 \in a .. last /\ n \in a .. last /\ T[n - 1] = S(n - 1) /\ T[n] = S(n)
      BY <1>0, <2>1
    <2>6. \A n \in a + 1 .. last : \A x \in T[n - 1] : G[n][x] = Grow(n, x)
      BY <2>2, <2>5
    <2>7. \A n \in a + 1 .. last : \A x \in T[n - 1] : G[n][x] \in T[n]
      BY <1>2, <2>5, <2>6
    <2>8. PICK g : Recursive(g, a, last, y0, G, T)
      <3>1. a \in Int /\ last \in Int /\ a <= last
        BY <1>0
      <3> QED
        BY ONLY <3>1, <2>4, <2>7, RecursionFrom
    <2>9. ASSUME NEW n \in a + 1 .. last PROVE g[n] = Grow(n, g[n - 1])
      <3>1. g[n] = G[n][g[n - 1]]
        BY <2>8 DEF Recursive
      <3>2. g[n - 1] \in T[n - 1]
        BY <2>5, <2>8 DEF Recursive
      <3> QED
        BY <2>6, <3>1, <3>2
    <2>10. ASSUME NEW n \in a .. last PROVE g[n] = IF n = a THEN x0 ELSE Grow(n, g[n - 1])
      <3>1. g[a] = y0
        BY <2>8 DEF Recursive
      <3>2. n = a \/ n \in a + 1 .. last
        BY <1>0
      <3> QED
        BY <2>3, <2>9, <3>1, <3>2
    <2>11. g = [n \in a .. last |-> g[n]]
      BY <2>8 DEF Recursive
    <2> QED
      BY <2>10, <2>11
  <1>4. Made(ends)
    BY <1>3
  <1>5. ends[last] \in S(last)
    <2>1. PICK T : T = [n \in a .. last |-> S(n)]
      OBVIOUS
    <2>2. \A n \in a + 1 .. last : n - 1 \in a .. last /\ n \in a .. last /\ T[n - 1] = S(n - 1) /\ T[n] = S(n)
      BY <1>0, <2>1
    <2>3. ends[a] = x0 /\ \A n \in a + 1 .. last : ends[n] = Grow(n, ends[n - 1])
      <3>1. PICK g : g = ends
        OBVIOUS
      <3>2. g = [n \in a .. last |-> IF n = a THEN x0 ELSE Grow(n, g[n - 1])]
        BY <3>1, <1>4
      <3> HIDE DEF ends
      <3>3. g[a] = x0 /\ \A n \in a + 1 .. last : g[n] = Grow(n, g[n - 1])
        BY ONLY <1>0, <3>2, last \in Nat
      <3> QED
        BY <3>1, <3>3
    <2> HIDE DEF ends
    <2>4. ends[a] \in T[a] /\ \A n \in a + 1 .. last : ends[n - 1] \in T[n - 1] => ends[n] \in T[n]
      BY <1>0, <1>1, <1>2, <2>1, <2>2, <2>3
    <2>5. \A n \in a .. last : ends[n] \in T[n]
      <3>1. a \in Int /\ last \in Int /\ a <= last
        BY <1>0
      <3> QED
        BY ONLY <3>1, <2>4, ThroughoutFrom
    <2> QED
      BY <1>0, <2>1, <2>5
  <1>6. best = ends[last]
    BY DEF BestEnd, Grow, x0, a
  <1>7. Inv(last, best) /\ last # a
    BY <1>0, <1>5, <1>6 DEF S
  <1> QED
    BY <1>7 DEF Inv

-----------------------------------------------------------------------------
(* FuzzyMatchV2, phase 4: the way back from the best end *)

\* What phase 4 needs to know of the matrix H of a text T and a pattern p of K characters, whose
\* rows begin at F: a place of the character scores more than what is left of the row above, and
\* any other no more than what is left of its own.
IsMatrix(H, F, T, p, K, last) ==
  /\ \A i \in 1 .. K : F[i] \in 1 .. last /\ T[F[i]] = p[i] /\ (i > 1 => F[i - 1] < F[i])
  /\ \A i \in 1 .. K : \A j \in F[i] .. last :
       /\ H[i][j].h \in Nat
       /\ T[j] # p[i] => H[i][j].h = 0 \/ H[i][j].h < H[i][j - 1].h
       /\ T[j] = p[i] => IF i = 1 THEN H[i][j].h > 0 ELSE H[i][j].h > H[i - 1][j - 1].h

\* The end of the best match, in the last row
IsBestEnd(H, F, K, last, end) ==
  end \in F[K] .. last /\ \A j \in F[K] .. last : H[K][j].h <= H[K][end].h

\* What there is after n steps back from `end`: the places of the last characters of p, and the next
\* cell to look at, or all of them
TracesOf(T, p, F, K, last, end, n) ==
  {so \in [i : Int, j : Int, prefer : BOOLEAN, pos : Seq(1 .. last), done : BOOLEAN] :
     /\ Len(so.pos) <= K
     /\ \A k \in 1 .. Len(so.pos) : T[so.pos[k]] = p[k + K - Len(so.pos)]
     /\ \A k, l \in 1 .. Len(so.pos) : k < l => so.pos[k] < so.pos[l]
     /\ IF n = 0 THEN so.prefer /\ Len(so.pos) = 0 /\ ~so.done
        ELSE Len(so.pos) > 0 /\ so.pos[Len(so.pos)] = end
     /\ IF so.done THEN Len(so.pos) = K /\ so.j = so.pos[1]
        ELSE /\ so.i = K - Len(so.pos) /\ so.i \in 1 .. K
             /\ so.j = end - n /\ F[so.i] <= so.j
             /\ \A k \in 1 .. Len(so.pos) : so.j < so.pos[k]}

\* One more in front
LEMMA PrependIs ==
  ASSUME NEW W, NEW s \in Seq(W), NEW x \in W
  PROVE  /\ <<x>> \o s \in Seq(W) /\ Len(<<x>> \o s) = Len(s) + 1
         /\ (<<x>> \o s)[1] = x /\ \A k \in 1 .. Len(s) : (<<x>> \o s)[k + 1] = s[k]
  <1>1. <<x>> \in Seq(W) /\ Len(<<x>>) = 1 /\ <<x>>[1] = x /\ Len(s) \in Nat
    OBVIOUS
  <1>2. PICK u : u = <<x>> /\ u \in Seq(W) /\ Len(u) = 1 /\ u[1] = x
    BY <1>1
  <1>3. /\ u \o s \in Seq(W) /\ Len(u \o s) = Len(u) + Len(s)
        /\ \A i \in 1 .. Len(u) + Len(s) : (u \o s)[i] = IF i <= Len(u) THEN u[i] ELSE s[i - Len(u)]
    BY ONLY <1>2, s \in Seq(W), ConcatProperties
  <1>4. PICK v, n : v = u \o s /\ n = Len(s) /\ n \in Nat
    BY <1>1
  <1>5. v[1] = x /\ \A k \in 1 .. n : v[k + 1] = s[k]
    <2>1. \A i \in 1 .. 1 + n : v[i] = IF i <= 1 THEN u[i] ELSE s[i - 1]
      BY <1>2, <1>3, <1>4
    <2>2. 1 \in 1 .. 1 + n /\ \A k \in 1 .. n : k + 1 \in 1 .. 1 + n /\ ~(k + 1 <= 1) /\ (k + 1) - 1 = k
      BY <1>4
    <2> QED
      BY <1>2, <2>1, <2>2
  <1> QED
    BY <1>2, <1>3, <1>4, <1>5

\* A step back takes a place of the character, and does not leave the row before.
LEMMA StepBehindIs ==
  ASSUME NEW K \in Nat, NEW T, NEW p, NEW H, Len(H) = K, NEW F, NEW last \in Nat, NEW end \in Nat,
         IsMatrix(H, F, T, p, K, last), IsBestEnd(H, F, K, last, end),
         NEW n \in 1 .. end, NEW so \in TracesOf(T, p, F, K, last, end, n - 1)
  PROVE  StepBehind(H, F, last, so, so.i, so.j) \in TracesOf(T, p, F, K, last, end, n)
  <1>1. PICK r : r = StepBehind(H, F, last, so, so.i, so.j)
    OBVIOUS
  <1>2. CASE so.done
    <2>1. r = so
      BY <1>1, <1>2 DEF StepBehind
    <2>2. n # 0 /\ n - 1 # 0
      BY <1>2 DEF TracesOf
    <2> QED
      BY <1>1, <1>2, <2>1, <2>2 DEF TracesOf
  <1>3. CASE ~so.done
    <2>1. PICK W : W = 1 .. last
      OBVIOUS
    <2>2. PICK i, j : i = so.i /\ j = so.j
      OBVIOUS
    <2>3. PICK pos : pos = so.pos /\ pos \in Seq(W)
      BY <2>1 DEF TracesOf
    <2>4. PICK m : m = Len(pos) /\ m \in Nat
      BY <2>3, LenProperties
    <2>5. so \in [i : Int, j : Int, prefer : BOOLEAN, pos : Seq(W), done : BOOLEAN]
      BY <2>1 DEF TracesOf
    <2>6. /\ m <= K /\ i = K - m /\ i \in 1 .. K
          /\ j = end - (n - 1) /\ F[i] <= j
          /\ \A k \in 1 .. m : j < pos[k]
          /\ \A k \in 1 .. m : T[pos[k]] = p[k + K - m]
          /\ \A k, l \in 1 .. m : k < l => pos[k] < pos[l]
          /\ n - 1 = 0 => so.prefer /\ m = 0
          /\ n - 1 # 0 => m > 0 /\ pos[m] = end
      BY <1>3, <2>2, <2>3, <2>4 DEF TracesOf
    <2>7. /\ F[i] \in 1 .. last /\ T[F[i]] = p[i] /\ end <= last
          /\ i > 1 => i - 1 \in 1 .. K /\ F[i - 1] \in 1 .. last /\ F[i - 1] < F[i]
      BY <2>6 DEF IsMatrix, IsBestEnd
    <2>8. j \in F[i] .. last /\ j \in W /\ j \in Nat /\ i \in Nat
      BY <2>1, <2>6, <2>7
    <2>9. PICK s : s = H[i][j].h /\ s \in Nat
      BY <2>6, <2>8 DEF IsMatrix
    <2>10. PICK s1 : s1 = IF i > 1 /\ j >= F[i] THEN H[i - 1][j - 1].h ELSE 0
      OBVIOUS
    <2>11. PICK s2 : s2 = IF j > F[i] THEN H[i][j - 1].h ELSE 0
      OBVIOUS
    <2>12. i > 1 => s1 = H[i - 1][j - 1].h /\ s1 \in Nat
      <3>1. i > 1 => j - 1 \in F[i - 1] .. last
        BY <2>7, <2>8
      <3>2. i > 1 => H[i - 1][j - 1].h \in Nat
        BY <2>7, <3>1 DEF IsMatrix
      <3> QED
        BY <2>6, <2>7, <2>8, <2>10, <3>2
    <2>13. s1 \in Nat /\ (T[j] = p[i] => s > s1)
      <3>1. CASE i > 1
        <4>1. T[j] = p[i] => IF i = 1 THEN H[i][j].h > 0 ELSE H[i][j].h > H[i - 1][j - 1].h
          BY <2>6, <2>8 DEF IsMatrix
        <4> QED
          BY <2>8, <2>9, <2>12, <3>1, <4>1
      <3>2. CASE i = 1
        <4>1. T[j] = p[i] => IF i = 1 THEN H[i][j].h > 0 ELSE H[i][j].h > H[i - 1][j - 1].h
          BY <2>6, <2>8 DEF IsMatrix
        <4> QED
          BY <2>9, <2>10, <3>2, <4>1
      <3> QED
        BY <2>8, <3>1, <3>2, <2>6
    <2>14. s2 \in Nat
      <3>1. j > F[i] => j - 1 \in F[i] .. last
        BY <2>7, <2>8
      <3>2. j > F[i] => H[i][j - 1].h \in Nat
        BY <2>6, <3>1 DEF IsMatrix
      <3> QED
        BY <2>11, <3>2
    <2>15. T[j] # p[i] => s = 0 \/ s < s2
      <3>1. T[j] # p[i] => H[i][j].h = 0 \/ H[i][j].h < H[i][j - 1].h
        BY <2>6, <2>8 DEF IsMatrix
      <3>2. T[j] # p[i] => j > F[i]
        BY <2>7, <2>8
      <3> QED
        BY <2>9, <2>11, <3>1, <3>2
    <2>16. PICK take \in BOOLEAN : take <=> s > s1 /\ (s > s2 \/ (s = s2 /\ so.prefer))
      OBVIOUS
    <2>17. take => T[j] = p[i]
      BY <2>9, <2>13, <2>14, <2>15, <2>16
    <2>18. j = F[i] => take
      BY <2>7, <2>9, <2>11, <2>13, <2>16
    <2>19. n - 1 = 0 => take
      <3> SUFFICES ASSUME n - 1 = 0 PROVE take
        OBVIOUS
      <3>1. j = end /\ i = K /\ so.prefer
        BY <2>4, <2>6
      <3>2. \A l \in F[i] .. last : H[i][l].h <= s
        BY <2>9, <3>1 DEF IsBestEnd
      <3>3. s2 <= s
        <4>1. j > F[i] => j - 1 \in F[i] .. last
          BY <2>7, <2>8
        <4> QED
          BY <2>9, <2>11, <3>2, <4>1
      <3>4. s > 0
        <4>1. F[i] \in F[i] .. last
          BY <2>7
        <4>2. T[F[i]] = p[i] => IF i = 1 THEN H[i][F[i]].h > 0 ELSE H[i][F[i]].h > H[i - 1][F[i] - 1].h
          BY <2>6, <4>1 DEF IsMatrix
        <4>3. i > 1 => H[i - 1][F[i] - 1].h \in Nat
          <5>1. i > 1 => F[i] - 1 \in F[i - 1] .. last
            BY <2>7
          <5> QED
            BY <2>7, <5>1 DEF IsMatrix
        <4>4. PICK x : x = H[i][F[i]].h /\ x \in Nat
          BY <2>6, <4>1 DEF IsMatrix
        <4>5. x > 0
          BY <2>6, <2>7, <2>8, <4>2, <4>3, <4>4
        <4>6. x <= s
          BY <3>2, <4>1, <4>4
        <4> QED
          BY <2>9, <4>4, <4>5, <4>6
      <3>5. T[j] = p[i]
        BY <2>9, <2>14, <2>15, <3>3, <3>4
      <3> QED
        BY <2>9, <2>13, <2>14, <2>16, <3>1, <3>3, <3>5
    <2>20. PICK pre \in BOOLEAN : pre = (H[i][j].c > 1
                         \/ (i < Len(H) /\ j < last /\ j + 1 >= F[i + 1] /\ H[i + 1][j + 1].c > 0))
      OBVIOUS
    <2>21. r = IF take /\ i = 1 THEN [so EXCEPT !.pos = <<j>> \o @, !.done = TRUE]
               ELSE [i |-> IF take THEN i - 1 ELSE i, j |-> j - 1, prefer |-> pre,
                     pos |-> IF take THEN <<j>> \o pos ELSE pos, done |-> FALSE]
      BY <1>1, <1>3, <2>2, <2>3, <2>9, <2>10, <2>11, <2>16, <2>20 DEF StepBehind
    <2>22. n # 0 /\ n \in Nat
      OBVIOUS
    <2>23. CASE ~take
      <3>1. r = [i |-> i, j |-> j - 1, prefer |-> pre, pos |-> pos, done |-> FALSE]
        BY <2>21, <2>23
      <3>2. r \in [i : Int, j : Int, prefer : BOOLEAN, pos : Seq(W), done : BOOLEAN]
        BY <2>3, <2>8, <3>1
      <3>3. r.i = i /\ r.j = j - 1 /\ r.pos = pos /\ ~r.done /\ Len(r.pos) = m
        BY <2>4, <3>1
      <3>4. r.j = end - n /\ F[r.i] <= r.j
        BY <2>6, <2>7, <2>8, <2>18, <2>23, <3>3
      <3>5. \A k \in 1 .. m : r.j < pos[k]
        <4>1. \A k \in 1 .. m : pos[k] \in Int
          BY <2>1, <2>3, <2>4, ElementOfSeq
        <4> QED
          BY <2>6, <2>8, <3>3, <4>1
      <3>6. m > 0 /\ pos[m] = end
        BY <2>6, <2>19, <2>23
      <3> QED
        BY <1>1, <2>1, <2>6, <2>22, <3>2, <3>3, <3>4, <3>5, <3>6 DEF TracesOf
    <2>24. CASE take
      <3>1. PICK new : new = <<j>> \o pos
        OBVIOUS
      <3>2. new \in Seq(W) /\ Len(new) = m + 1 /\ new[1] = j /\ \A k \in 1 .. m : new[k + 1] = pos[k]
        BY <2>3, <2>4, <2>8, <3>1, PrependIs
      <3>3. \A k \in 1 .. m : pos[k] \in Int
        BY <2>1, <2>3, <2>4, ElementOfSeq
      <3>4. \A k \in 1 .. m + 1 : k = 1 \/ (k - 1 \in 1 .. m /\ new[k] = pos[k - 1])
        <4>1. \A k \in 1 .. m + 1 : k = 1 \/ (k - 1 \in 1 .. m /\ (k - 1) + 1 = k)
          BY <2>4
        <4> QED
          BY <3>2, <4>1
      <3>5. m + 1 <= K
        BY <2>4, <2>6
      <3>6. ASSUME NEW k \in 1 .. m + 1 PROVE T[new[k]] = p[k + K - (m + 1)]
        <4>1. CASE k = 1
          <5>1. k + K - (m + 1) = i
            BY <2>4, <2>6, <4>1
          <5> QED
            BY <2>17, <2>24, <3>2, <4>1, <5>1
        <4>2. CASE k # 1
          <5>1. k - 1 \in 1 .. m /\ new[k] = pos[k - 1] /\ (k - 1) + K - m = k + K - (m + 1)
            BY <2>4, <3>4, <4>2
          <5> QED
            BY <2>6, <5>1
        <4> QED
          BY <4>1, <4>2
      <3>7. ASSUME NEW k \in 1 .. m + 1, NEW l \in 1 .. m + 1, k < l PROVE new[k] < new[l]
        <4>1. l - 1 \in 1 .. m /\ new[l] = pos[l - 1]
          BY <2>4, <3>4, <3>7
        <4>2. CASE k = 1
          BY <2>6, <3>2, <4>1, <4>2
        <4>3. CASE k # 1
          <5>1. k - 1 \in 1 .. m /\ new[k] = pos[k - 1] /\ k - 1 < l - 1
            BY <2>4, <3>4, <3>7, <4>3
          <5> QED
            BY <2>6, <4>1, <5>1
        <4> QED
          BY <4>2, <4>3
      <3>8. new[m + 1] = end
        <4>1. CASE m = 0
          BY <2>6, <3>2, <4>1
        <4>2. CASE m # 0
          BY <2>4, <2>6, <3>2, <4>2
        <4> QED
          BY <4>1, <4>2
      <3>9. /\ Len(new) = m + 1 /\ Len(new) <= K /\ Len(new) > 0 /\ new[Len(new)] = end
            /\ \A k \in 1 .. Len(new) : T[new[k]] = p[k + K - Len(new)]
            /\ \A k, l \in 1 .. Len(new) : k < l => new[k] < new[l]
        BY <2>4, <3>2, <3>5, <3>6, <3>7, <3>8
      <3>10. CASE i = 1
        <4>1. r = [so EXCEPT !.pos = <<j>> \o @, !.done = TRUE]
          BY <2>21, <2>24, <3>10
        <4>2. r \in [i : Int, j : Int, prefer : BOOLEAN, pos : Seq(W), done : BOOLEAN]
               /\ r.pos = new /\ r.j = j /\ r.done
          BY <2>2, <2>3, <2>5, <3>1, <3>2, <4>1
        <4>3. Len(r.pos) = m + 1 /\ m + 1 = K
          BY <2>4, <2>6, <3>2, <3>10, <4>2
        <4>4. PICK q : q = r.pos /\ q = new /\ r.j = q[1]
          BY <3>2, <4>2
        <4> QED
          BY <1>1, <2>1, <2>22, <3>9, <4>2, <4>3, <4>4 DEF TracesOf
      <3>11. CASE i # 1
        <4>1. r = [i |-> i - 1, j |-> j - 1, prefer |-> pre, pos |-> new, done |-> FALSE]
          BY <2>21, <2>24, <3>1, <3>11
        <4>2. r \in [i : Int, j : Int, prefer : BOOLEAN, pos : Seq(W), done : BOOLEAN]
          BY <2>8, <3>2, <4>1
        <4>3. r.i = i - 1 /\ r.j = j - 1 /\ r.pos = new /\ ~r.done /\ Len(r.pos) = m + 1
          BY <3>2, <4>1
        <4>4. r.i = K - (m + 1) /\ r.i \in 1 .. K /\ r.j = end - n /\ F[r.i] <= r.j
          BY <2>4, <2>6, <2>7, <2>8, <3>11, <4>3, SMTT(30)
        <4>5. ASSUME NEW k \in 1 .. m + 1 PROVE r.j < new[k]
          <5>1. CASE k = 1
            BY <2>8, <3>2, <4>3, <5>1
          <5>2. CASE k # 1
            <6>1. k - 1 \in 1 .. m /\ new[k] = pos[k - 1] /\ pos[k - 1] \in Int /\ j < pos[k - 1]
              BY <2>6, <3>3, <3>4, <5>2
            <6> QED
              BY <2>8, <4>3, <6>1
          <5> QED
            BY <5>1, <5>2
        <4> QED
          BY <1>1, <2>1, <2>22, <3>9, <4>2, <4>3, <4>4, <4>5 DEF TracesOf
      <3> QED
        BY <3>10, <3>11
    <2> QED
      BY <2>16, <2>23, <2>24
  <1> QED
    BY <1>2, <1>3

\* What phase 4 ends with: the places of the K characters of p in T, the last of them at the end
IsTrace(trace, T, p, K, last, end) ==
  /\ trace.pos \in Seq(1 .. last) /\ Len(trace.pos) = K
  /\ \A k \in 1 .. K : T[trace.pos[k]] = p[k]
  /\ \A k, l \in 1 .. K : k < l => trace.pos[k] < trace.pos[l]
  /\ trace.j = trace.pos[1] /\ trace.pos[K] = end

\* Phase 4 ends with the places of a match, the last of them at the best end.
LEMMA BacktraceIs ==
  ASSUME NEW K \in Nat \ {0}, NEW T, NEW p, NEW H, Len(H) = K, NEW F, NEW last \in Nat, NEW end \in Nat,
         IsMatrix(H, F, T, p, K, last), IsBestEnd(H, F, K, last, end),
         NEW trace, trace = Backtrace(H, F, end, last)
  PROVE  IsTrace(trace, T, p, K, last, end)
  <1> DEFINE S(n) == TracesOf(T, p, F, K, last, end, n)
             x0 == [i |-> Len(H), j |-> end, prefer |-> TRUE, pos |-> <<>>, done |-> FALSE]
             Grow(n, so) == StepBehind(H, F, last, so, so.i, so.j)
             Made(f) == f = [n \in 0 .. end |-> IF n = 0 THEN x0 ELSE Grow(n, f[n - 1])]
             back == CHOOSE f : Made(f)
  <1>0. F[K] \in 1 .. last /\ F[K] <= end
    BY DEF IsMatrix, IsBestEnd
  <1>1. x0 \in S(0)
    <2>1. PICK x : x = x0
      OBVIOUS
    <2>2. /\ x \in [i : Int, j : Int, prefer : BOOLEAN, pos : Seq(1 .. last), done : BOOLEAN]
          /\ x.i = K /\ x.j = end /\ x.prefer = TRUE /\ x.pos = <<>> /\ x.done = FALSE
      BY <2>1
    <2>3. Len(x.pos) = 0
      BY <2>2
    <2>4. x.j = end - 0 /\ x.i = K - Len(x.pos) /\ x.i \in 1 .. K /\ F[x.i] <= x.j
      BY <1>0, <2>2, <2>3
    <2>5. x \in TracesOf(T, p, F, K, last, end, 0)
      BY <2>2, <2>3, <2>4 DEF TracesOf
    <2> QED
      BY <2>1, <2>5
  <1>2. ASSUME NEW n \in 1 .. end, NEW x \in S(n - 1) PROVE Grow(n, x) \in S(n)
    BY StepBehindIs
  <1> HIDE DEF S, Grow, x0
  <1>3. \E f : Made(f)
    <2>1. PICK U : U = [n \in 0 .. end |-> S(n)]
      OBVIOUS
    <2>2. PICK G : G = [n \in 1 .. end |-> [x \in S(n - 1) |-> Grow(n, x)]]
      OBVIOUS
    <2>3. PICK y0 : y0 = x0
      OBVIOUS
    <2>4. y0 \in U[0]
      BY <1>1, <2>1, <2>3
    <2>5. \A n \in 1 .. end : n - 1 \in 0 .. end /\ n \in 0 .. end /\ U[n - 1] = S(n - 1) /\ U[n] = S(n)
      BY <2>1
    <2>6. \A n \in 1 .. end : \A x \in U[n - 1] : G[n][x] = Grow(n, x)
      BY <2>2, <2>5
    <2>7. ASSUME NEW n \in 1 .. end, NEW x \in U[n - 1] PROVE G[n][x] \in U[n]
      <3>1. x \in S(n - 1) /\ G[n][x] = Grow(n, x) /\ U[n] = S(n)
        BY <2>5, <2>6
      <3> QED
        BY <1>2, <3>1
    <2>8. PICK f : Recursive(f, 0, end, y0, G, U)
      BY <2>4, <2>7, Recursion
    <2>9. ASSUME NEW n \in 1 .. end PROVE f[n] = Grow(n, f[n - 1])
      <3>1. f[n] = G[n][f[n - 1]]
        <4>1. n \in 0 + 1 .. end
          OBVIOUS
        <4> QED
          BY <2>8, <4>1 DEF Recursive
      <3>2. f[n - 1] \in U[n - 1]
        BY <2>5, <2>8 DEF Recursive
      <3> QED
        BY <2>6, <3>1, <3>2
    <2>10. ASSUME NEW n \in 0 .. end PROVE f[n] = IF n = 0 THEN x0 ELSE Grow(n, f[n - 1])
      <3>1. f[0] = y0
        BY <2>8 DEF Recursive
      <3>2. n = 0 \/ n \in 1 .. end
        OBVIOUS
      <3> QED
        BY <2>3, <2>9, <3>1, <3>2
    <2>11. f = [n \in 0 .. end |-> f[n]]
      BY <2>8 DEF Recursive
    <2> QED
      BY <2>10, <2>11
  <1>4. Made(back)
    BY <1>3
  <1>5. back[end] \in S(end)
    <2>1. PICK U : U = [n \in 0 .. end |-> S(n)]
      OBVIOUS
    <2>2. \A n \in 1 .. end : n - 1 \in 0 .. end /\ n \in 0 .. end /\ U[n - 1] = S(n - 1) /\ U[n] = S(n)
      BY <2>1
    <2>3. back[0] = x0 /\ \A n \in 1 .. end : back[n] = Grow(n, back[n - 1])
      <3>1. PICK f : f = back
        OBVIOUS
      <3>2. f = [n \in 0 .. end |-> IF n = 0 THEN x0 ELSE Grow(n, f[n - 1])]
        BY <3>1, <1>4
      <3> HIDE DEF back
      <3>3. f[0] = x0 /\ \A n \in 1 .. end : f[n] = Grow(n, f[n - 1])
        BY ONLY <3>2, end \in Nat
      <3> QED
        BY <3>1, <3>3
    <2> HIDE DEF back
    <2>4. back[0] \in U[0] /\ \A n \in 1 .. end : back[n - 1] \in U[n - 1] => back[n] \in U[n]
      BY <1>1, <1>2, <2>1, <2>2, <2>3
    <2>5. \A n \in 0 .. end : back[n] \in U[n]
      BY <2>4, Throughout
    <2> QED
      BY <2>1, <2>5
  <1>6. trace = back[end]
    BY DEF Backtrace, Grow, x0
  <1>7. trace \in TracesOf(T, p, F, K, last, end, end)
    BY <1>5, <1>6 DEF S
  <1>8. PICK pos : pos = trace.pos /\ pos \in Seq(1 .. last)
    BY <1>7 DEF TracesOf
  <1>9. trace.done
    <2> SUFFICES ASSUME ~trace.done PROVE FALSE
      OBVIOUS
    <2>1. trace.i \in 1 .. K /\ trace.j = end - end /\ F[trace.i] <= trace.j
      BY <1>7 DEF TracesOf
    <2>2. F[trace.i] \in 1 .. last
      BY <2>1 DEF IsMatrix
    <2> QED
      BY <2>1, <2>2
  <1>10. end # 0
    BY <1>0
  <1>11. /\ Len(pos) = K /\ trace.j = pos[1] /\ pos[Len(pos)] = end
         /\ \A k \in 1 .. Len(pos) : T[pos[k]] = p[k + K - Len(pos)]
         /\ \A k, l \in 1 .. Len(pos) : k < l => pos[k] < pos[l]
    BY <1>7, <1>8, <1>9, <1>10 DEF TracesOf
  <1>12. \A k \in 1 .. K : k + K - K = k
    OBVIOUS
  <1> QED
    BY <1>8, <1>11, <1>12 DEF IsTrace

-----------------------------------------------------------------------------
(* FuzzyMatchV2, phases 2 and 3: the matrix *)

\* The bonus of a run is not negative, and its length is at most what is read.
LEMMA RunIs ==
  ASSUME NEW n \in Nat, NEW B, \A m \in 1 .. n : B[m] \in Nat, NEW length \in 1 .. n
  PROVE  Run(B, n, length).b \in Nat /\ Run(B, n, length).c \in 1 .. n
  <1>1. PICK b : b = B[n] /\ b \in Nat
    OBVIOUS
  <1>2. PICK first : first = B[n - length + 1] /\ first \in Nat
    <2>1. n - length + 1 \in 1 .. n
      OBVIOUS
    <2> QED
      BY <2>1
  <1>3. PICK r : r = Run(B, n, length)
    OBVIOUS
  <1>4. \/ r = [c |-> 1, b |-> b]
        \/ r = [c |-> length, b |-> MaxOf(b, MaxOf(BonusConsecutive, first))]
    BY <1>1, <1>2, <1>3 DEF Run
  <1>5. BonusConsecutive = 4
    <2>1. PICK x \in Int : x = ScoreGapStart + ScoreGapExtension /\ x = -4
      BY DEF ScoreGapStart, ScoreGapExtension
    <2> QED
      BY <2>1 DEF BonusConsecutive
  <1>6. MaxOf(b, MaxOf(BonusConsecutive, first)) \in Nat
    BY <1>1, <1>2, <1>5 DEF MaxOf
  <1> QED
    BY <1>1, <1>3, <1>4, <1>6

\* A place of the character scores more than what is above and to the left, and any other less than
\* what is to the left, if anything.
LEMMA CellIs ==
  ASSUME NEW T, NEW p, NEW n \in Nat, n > 0, NEW B, \A m \in 1 .. n : B[m] \in Nat,
         NEW left, left.h \in Nat, NEW diag, diag.h \in Nat, diag.c \in 0 .. n - 1,
         NEW cell, cell = Cell(T, B, p, n, left, diag)
  PROVE  /\ cell \in [h : Nat, c : Nat, gap : BOOLEAN] /\ cell.c \in 0 .. n
         /\ T[n] = p => cell.h > diag.h
         /\ T[n] # p => cell.h = 0 \/ cell.h < left.h
  <1>1. PICK hit \in BOOLEAN : hit <=> (T[n] = p)
    OBVIOUS
  <1>2. PICK b : b = B[n] /\ b \in Nat
    OBVIOUS
  <1>3. PICK run : run = Run(B, n, diag.c + 1)
    OBVIOUS
  <1>4. run.b \in Nat /\ run.c \in 1 .. n
    <2>1. diag.c + 1 \in 1 .. n
      OBVIOUS
    <2> QED
      BY <1>3, <2>1, RunIs
  <1>5. PICK gap \in Int : gap = (IF left.gap THEN ScoreGapExtension ELSE ScoreGapStart) /\ gap < 0
    BY DEF ScoreGapExtension, ScoreGapStart
  <1>6. PICK s2 \in Int : s2 = left.h + gap /\ s2 < left.h
    BY <1>5
  <1>7. cell = CellOf(hit, b, run, diag, s2)
    BY <1>1, <1>2, <1>3, <1>5, <1>6 DEF Cell
  <1>8. PICK breaks \in BOOLEAN : breaks <=> (diag.h + ScoreMatch + run.b < s2)
    OBVIOUS
  <1>9. PICK s1 \in Int : /\ s1 = (IF ~hit THEN 0 ELSE diag.h + ScoreMatch + (IF breaks THEN b ELSE run.b))
                          /\ ~hit => s1 = 0
                          /\ hit => s1 > diag.h
    BY <1>2, <1>4 DEF ScoreMatch
  <1>10. PICK low \in BOOLEAN : low <=> (s1 < s2)
    OBVIOUS
  <1>11. cell = [h |-> MaxOf(s1, MaxOf(s2, 0)), c |-> IF hit /\ ~breaks THEN run.c ELSE 0, gap |-> low]
    BY <1>7, <1>8, <1>9, <1>10 DEF CellOf
  <1>12. cell.h = MaxOf(s1, MaxOf(s2, 0)) /\ cell.c \in 0 .. n /\ cell.gap = low
    BY <1>4, <1>11
  <1>13. cell.h \in Nat /\ cell.h >= s1 /\ (~hit => cell.h = 0 \/ cell.h < left.h)
    BY <1>6, <1>9, <1>12 DEF MaxOf
  <1>14. cell \in [h : Nat, c : Nat, gap : BOOLEAN]
    BY <1>11, <1>12, <1>13
  <1>15. T[n] = p => cell.h > diag.h
    BY <1>1, <1>9, <1>13
  <1>16. T[n] # p => cell.h = 0 \/ cell.h < left.h
    BY <1>1, <1>13
  <1> QED
    BY <1>12, <1>14, <1>15, <1>16

\* A row of the matrix, from f to n
IsRow(row, T, p, f, n) ==
  \A j \in f .. n : /\ row[j].h \in Nat /\ row[j].c \in 0 .. j
                    /\ T[j] # p => row[j].h = 0 \/ (j > f /\ row[j].h < row[j - 1].h)
\* What a place of the character adds
Outscores(row, above, T, p, f, n) == \A j \in f .. n : T[j] = p => row[j].h > above[j - 1].h

\* Phase 2 writes the first row.
LEMMA FirstRowIs ==
  ASSUME NEW A, NEW T \in Seq(A), NEW B, \A m \in 1 .. Len(T) : B[m] \in Nat, NEW p, NEW o,
         NEW row, row = FirstRow(T, B, p, o)
  PROVE  /\ row \in Seq([h : Nat, c : Nat]) /\ IsRow(row, T, p, 1, Len(T))
         /\ \A j \in 1 .. Len(T) : T[j] = p => row[j].h > 0
  <1>1. PICK N : N = Len(T) /\ N \in Nat
    OBVIOUS
  <1> DEFINE W == [h : Nat, c : Nat]
             S(n) == {so \in Seq(W) : /\ Len(so) = n
                                      /\ IsRow(so, T, p, 1, n)
                                      /\ \A j \in 1 .. n : T[j] = p => so[j].h > 0}
             Grow(n, so) ==
               LET prev == IF n = 1 THEN 0 ELSE so[n - 1].h
                   gap == IF n > 1 /\ T[n - 1] # p THEN ScoreGapExtension ELSE ScoreGapStart
               IN  Append(so, IF T[n] = p THEN [h |-> ScoreMatch + BonusFirstCharMultiplier * B[n], c |-> 1]
                              ELSE [h |-> MaxOf(prev + gap, 0), c |-> 0])
             Made(f) == f = [n \in 0 .. Len(T) |-> IF n = 0 THEN <<>> ELSE Grow(n, f[n - 1])]
             fill == CHOOSE f : Made(f)
  <1>2. <<>> \in S(0)
    <2> HIDE DEF W
    <2>1. <<>> \in Seq(W) /\ Len(<<>>) = 0
      OBVIOUS
    <2> QED
      BY <2>1 DEF IsRow
  <1>3. ASSUME NEW n \in 1 .. N, NEW so \in S(n - 1) PROVE Grow(n, so) \in S(n)
    <2>1. PICK V : V = W /\ so \in Seq(V)
      OBVIOUS
    <2>2. Len(so) = n - 1 /\ IsRow(so, T, p, 1, n - 1) /\ \A j \in 1 .. n - 1 : T[j] = p => so[j].h > 0
      OBVIOUS
    <2>3. n \in Nat /\ n - 1 \in Nat /\ n > 0
      BY <1>1
    <2>4. PICK prev \in Nat : prev = (IF n = 1 THEN 0 ELSE so[n - 1].h)
      <3>1. n # 1 => n - 1 \in 1 .. n - 1
        BY <2>3
      <3>2. n # 1 => so[n - 1].h \in Nat
        BY <2>2, <3>1 DEF IsRow
      <3> QED
        BY <3>2
    <2>5. PICK gap \in Int : gap = (IF n > 1 /\ T[n - 1] # p THEN ScoreGapExtension ELSE ScoreGapStart) /\ gap < 0
      BY DEF ScoreGapExtension, ScoreGapStart
    <2>6. PICK hit \in Nat : hit = ScoreMatch + BonusFirstCharMultiplier * B[n] /\ hit > 0
      <3>1. B[n] \in Nat
        BY <1>1
      <3> QED
        BY <3>1 DEF ScoreMatch, BonusFirstCharMultiplier
    <2>7. PICK miss \in Nat : miss = MaxOf(prev + gap, 0) /\ (miss = 0 \/ miss < prev)
      BY <2>4, <2>5 DEF MaxOf
    <2>8. PICK x : x = (IF T[n] = p THEN [h |-> hit, c |-> 1] ELSE [h |-> miss, c |-> 0])
      OBVIOUS
    <2>9. PICK new : new = Append(so, x) /\ new = Grow(n, so)
      BY <2>4, <2>5, <2>6, <2>7, <2>8
    <2> HIDE DEF Grow
    <2>10. x \in V /\ x.c \in 0 .. n /\ x.h \in Nat /\ (T[n] = p => x.h > 0) /\ (T[n] # p => x.h = miss)
      BY <2>1, <2>3, <2>6, <2>7, <2>8
    <2> HIDE DEF W
    <2>11. new \in Seq(V) /\ Len(new) = n /\ new[n] = x /\ \A j \in 1 .. n - 1 : new[j] = so[j]
      <3>1. so \in Seq(V) /\ x \in V
        BY <2>1, <2>10
      <3>2. /\ Append(so, x) \in Seq(V) /\ Len(Append(so, x)) = Len(so) + 1
            /\ Append(so, x)[Len(so) + 1] = x /\ \A j \in 1 .. Len(so) : Append(so, x)[j] = so[j]
        BY ONLY <3>1, AppendProperties
      <3>3. n = Len(so) + 1 /\ n - 1 = Len(so)
        BY <2>2, <2>3
      <3> QED
        BY <2>9, <3>2, <3>3
    <2>12. ASSUME NEW j \in 1 .. n
           PROVE  /\ new[j].h \in Nat /\ new[j].c \in 0 .. j
                  /\ T[j] # p => new[j].h = 0 \/ (j > 1 /\ new[j].h < new[j - 1].h)
                  /\ T[j] = p => new[j].h > 0
      <3>1. CASE j = n
        <4>1. new[j] = x
          BY <2>11, <3>1
        <4>2. j # 1 => new[j - 1].h = prev
          <5>1. j # 1 => j - 1 \in 1 .. n - 1
            BY <2>3
          <5> QED
            BY <2>4, <2>11, <3>1, <5>1
        <4>3. j = 1 => prev = 0
          BY <2>4, <3>1
        <4>4. T[j] # p => new[j].h = 0 \/ (j > 1 /\ new[j].h < new[j - 1].h)
          BY <2>3, <2>7, <2>10, <3>1, <4>1, <4>2, <4>3
        <4> QED
          BY <2>10, <3>1, <4>1, <4>4
      <3>2. CASE j # n
        <4>1. j \in 1 .. n - 1 /\ new[j] = so[j]
          BY <2>3, <2>11, <3>2
        <4>2. /\ so[j].h \in Nat /\ so[j].c \in 0 .. j
              /\ T[j] # p => so[j].h = 0 \/ (j > 1 /\ so[j].h < so[j - 1].h)
              /\ T[j] = p => so[j].h > 0
          BY <2>2, <4>1 DEF IsRow
        <4>3. j # 1 => new[j - 1] = so[j - 1]
          <5>1. j # 1 => j - 1 \in 1 .. n - 1
            BY <2>3, <4>1
          <5> QED
            BY <2>11, <5>1
        <4>4. CASE j = 1
          BY <4>1, <4>2, <4>4
        <4>5. CASE j # 1
          BY <4>1, <4>2, <4>3, <4>5
        <4> QED
          BY <4>4, <4>5
      <3> QED
        BY <3>1, <3>2
    <2>13. IsRow(new, T, p, 1, n)
      BY <2>12 DEF IsRow
    <2> QED
      BY <2>1, <2>9, <2>11, <2>12, <2>13
  <1> HIDE DEF S, Grow
  <1>4. \E f : Made(f)
    <2>1. PICK U : U = [n \in 0 .. N |-> S(n)]
      OBVIOUS
    <2>2. PICK G : G = [n \in 1 .. N |-> [x \in S(n - 1) |-> Grow(n, x)]]
      OBVIOUS
    <2>3. PICK y0 : y0 = <<>>
      OBVIOUS
    <2>4. y0 \in U[0]
      BY <1>1, <1>2, <2>1, <2>3
    <2>5. \A n \in 1 .. N : n - 1 \in 0 .. N /\ n \in 0 .. N /\ U[n - 1] = S(n - 1) /\ U[n] = S(n)
      BY <1>1, <2>1
    <2>6. \A n \in 1 .. N : \A x \in U[n - 1] : G[n][x] = Grow(n, x)
      BY <2>2, <2>5
    <2>7. \A n \in 1 .. N : \A x \in U[n - 1] : G[n][x] \in U[n]
      BY <1>3, <2>5, <2>6
    <2>8. PICK f : Recursive(f, 0, N, y0, G, U)
      BY <1>1, <2>4, <2>7, Recursion
    <2>9. ASSUME NEW n \in 1 .. N PROVE f[n] = Grow(n, f[n - 1])
      <3>1. f[n] = G[n][f[n - 1]]
        <4>1. n \in 0 + 1 .. N
          BY <1>1
        <4> QED
          BY <2>8, <4>1 DEF Recursive
      <3>2. f[n - 1] \in U[n - 1]
        BY <2>5, <2>8 DEF Recursive
      <3> QED
        BY <2>6, <3>1, <3>2
    <2>10. ASSUME NEW n \in 0 .. N PROVE f[n] = IF n = 0 THEN <<>> ELSE Grow(n, f[n - 1])
      <3>1. f[0] = y0
        BY <2>8 DEF Recursive
      <3>2. n = 0 \/ n \in 1 .. N
        BY <1>1
      <3> QED
        BY <2>3, <2>9, <3>1, <3>2
    <2>11. f = [n \in 0 .. N |-> f[n]]
      BY <2>8 DEF Recursive
    <2>12. f = [n \in 0 .. N |-> IF n = 0 THEN <<>> ELSE Grow(n, f[n - 1])]
      BY <2>10, <2>11
    <2> QED
      BY <1>1, <2>12
  <1>5. Made(fill)
    BY <1>4
  <1>6. fill[N] \in S(N)
    <2>1. PICK U : U = [n \in 0 .. N |-> S(n)]
      OBVIOUS
    <2>2. \A n \in 1 .. N : n - 1 \in 0 .. N /\ n \in 0 .. N /\ U[n - 1] = S(n - 1) /\ U[n] = S(n)
      BY <1>1, <2>1
    <2>3. fill[0] = <<>> /\ \A n \in 1 .. N : fill[n] = Grow(n, fill[n - 1])
      <3>1. PICK f : f = fill
        OBVIOUS
      <3>2. f = [n \in 0 .. N |-> IF n = 0 THEN <<>> ELSE Grow(n, f[n - 1])]
        BY <1>1, <3>1, <1>5
      <3> HIDE DEF fill
      <3>3. f[0] = <<>> /\ \A n \in 1 .. N : f[n] = Grow(n, f[n - 1])
        <4>1. N \in Int /\ 0 \in Int /\ 0 <= N
          BY <1>1
        <4> QED
          BY ONLY <3>2, <4>1
      <3> QED
        BY <3>1, <3>3
    <2> HIDE DEF fill
    <2>4. fill[0] \in U[0] /\ \A n \in 1 .. N : fill[n - 1] \in U[n - 1] => fill[n] \in U[n]
      BY <1>1, <1>2, <1>3, <2>1, <2>2, <2>3
    <2>5. \A n \in 0 .. N : fill[n] \in U[n]
      BY <1>1, <2>4, Throughout
    <2> QED
      BY <1>1, <2>1, <2>5
  <1>7. row = fill[N]
    BY <1>1 DEF FirstRow, Grow
  <1> QED
    BY <1>1, <1>6, <1>7 DEF S

\* Phase 3 writes the next, from f to `last`, below a row that begins before f.
LEMMA NextRowIs ==
  ASSUME NEW A, NEW T \in Seq(A), NEW B, \A m \in 1 .. Len(T) : B[m] \in Nat, NEW p,
         NEW f \in 1 .. Len(T), NEW last \in Nat, last <= Len(T), NEW above,
         \A j \in f .. last : above[j - 1].h \in Nat /\ above[j - 1].c \in 0 .. j - 1,
         NEW row, row = NextRow(T, B, p, f, last, above)
  PROVE  /\ row \in Seq([h : Nat, c : Nat, gap : BOOLEAN])
         /\ IsRow(row, T, p, f, last) /\ Outscores(row, above, T, p, f, last)
  <1>1. PICK N : N = Len(T) /\ N \in Nat
    OBVIOUS
  <1>2. f \in Nat /\ f > 0 /\ f <= N
    BY <1>1
  <1> DEFINE W == [h : Nat, c : Nat, gap : BOOLEAN]
             Fine(so, j) ==
               /\ so[j].h \in Nat /\ so[j].c \in 0 .. j
               /\ T[j] # p => so[j].h = 0 \/ (j > f /\ so[j].h < so[j - 1].h)
               /\ T[j] = p => so[j].h > above[j - 1].h
             S(n) == {so \in Seq(W) : Len(so) = n /\ \A j \in 1 .. n : j \in f .. last => Fine(so, j)}
             Grow(n, so) ==
               LET left == IF n = f THEN [h |-> 0, gap |-> FALSE] ELSE so[n - 1]
               IN  Append(so, IF n < f \/ n > last THEN Stale ELSE Cell(T, B, p, n, left, above[n - 1]))
             Made(g) == g = [n \in 0 .. Len(T) |-> IF n = 0 THEN <<>> ELSE Grow(n, g[n - 1])]
             fill == CHOOSE g : Made(g)
  <1>3. <<>> \in S(0)
    <2> HIDE DEF W, Fine
    <2>1. <<>> \in Seq(W) /\ Len(<<>>) = 0
      OBVIOUS
    <2> QED
      BY <2>1
  <1>4. ASSUME NEW n \in 1 .. N, NEW so \in S(n - 1) PROVE Grow(n, so) \in S(n)
    <2> HIDE DEF Fine
    <2>1. PICK V : V = W /\ so \in Seq(V)
      OBVIOUS
    <2>2. Len(so) = n - 1 /\ \A j \in 1 .. n - 1 : j \in f .. last => Fine(so, j)
      OBVIOUS
    <2>3. n \in Nat /\ n - 1 \in Nat /\ n > 0
      BY <1>1
    <2>4. PICK left : left = (IF n = f THEN [h |-> 0, gap |-> FALSE] ELSE so[n - 1])
      OBVIOUS
    <2>5. n \in f .. last => left.h \in Nat
      <3>1. CASE n = f
        BY <2>4, <3>1
      <3>2. CASE n # f
        <4>1. n \in f .. last => n - 1 \in 1 .. n - 1 /\ n - 1 \in f .. last
          BY <1>2, <2>3, <3>2
        <4>2. n \in f .. last => so[n - 1].h \in Nat
          BY <2>2, <4>1 DEF Fine
        <4> QED
          BY <2>4, <3>2, <4>2
      <3> QED
        BY <3>1, <3>2
    <2>6. PICK cell : cell = Cell(T, B, p, n, left, above[n - 1])
      OBVIOUS
    <2>7. n \in f .. last => /\ cell \in V /\ cell.c \in 0 .. n /\ cell.h \in Nat
                             /\ T[n] = p => cell.h > above[n - 1].h
                             /\ T[n] # p => cell.h = 0 \/ cell.h < left.h
      <3> SUFFICES ASSUME n \in f .. last
                   PROVE  /\ cell \in V /\ cell.c \in 0 .. n /\ cell.h \in Nat
                          /\ T[n] = p => cell.h > above[n - 1].h
                          /\ T[n] # p => cell.h = 0 \/ cell.h < left.h
        OBVIOUS
      <3>1. PICK diag : diag = above[n - 1]
        OBVIOUS
      <3>2. diag.h \in Nat /\ diag.c \in 0 .. n - 1 /\ left.h \in Nat /\ cell = Cell(T, B, p, n, left, diag)
        BY <2>5, <2>6, <3>1
      <3>3. \A m \in 1 .. n : B[m] \in Nat
        BY <1>1
      <3>4. /\ cell \in [h : Nat, c : Nat, gap : BOOLEAN] /\ cell.c \in 0 .. n
            /\ T[n] = p => cell.h > diag.h
            /\ T[n] # p => cell.h = 0 \/ cell.h < left.h
        BY ONLY <2>3, <3>2, <3>3, CellIs
      <3> QED
        BY <2>1, <3>1, <3>4
    <2>8. PICK x : x = (IF n < f \/ n > last THEN Stale ELSE cell)
      OBVIOUS
    <2>9. PICK new : new = Append(so, x) /\ new = Grow(n, so)
      BY <2>4, <2>6, <2>8
    <2> HIDE DEF Grow
    <2>10. x \in V /\ (n \in f .. last => x = cell)
      <3>1. Stale \in V
        BY <2>1 DEF Stale
      <3>2. n < f \/ n > last \/ n \in f .. last
        BY <1>2, <2>3
      <3>3. n \in f .. last => ~(n < f \/ n > last)
        BY <1>2
      <3> QED
        BY <2>7, <2>8, <3>1, <3>2, <3>3
    <2> HIDE DEF W
    <2>11. new \in Seq(V) /\ Len(new) = n /\ new[n] = x /\ \A j \in 1 .. n - 1 : new[j] = so[j]
      <3>1. so \in Seq(V) /\ x \in V
        BY <2>1, <2>10
      <3>2. /\ Append(so, x) \in Seq(V) /\ Len(Append(so, x)) = Len(so) + 1
            /\ Append(so, x)[Len(so) + 1] = x /\ \A j \in 1 .. Len(so) : Append(so, x)[j] = so[j]
        BY ONLY <3>1, AppendProperties
      <3>3. n = Len(so) + 1 /\ n - 1 = Len(so)
        BY <2>2, <2>3
      <3> QED
        BY <2>9, <3>2, <3>3
    <2>12. ASSUME NEW j \in 1 .. n, j \in f .. last PROVE Fine(new, j)
      <3>1. CASE j = n
        <4>1. new[j] = cell
          BY <2>10, <2>11, <2>12, <3>1
        <4>2. CASE j = f
          <5>1. left.h = 0
            BY <2>4, <3>1, <4>2
          <5>2. T[j] # p => cell.h = 0
            BY <2>7, <2>12, <3>1, <5>1
          <5> QED
            BY <2>7, <2>12, <3>1, <4>1, <5>2 DEF Fine
        <4>3. CASE j # f
          <5>1. j > f /\ j - 1 \in 1 .. n - 1
            BY <1>2, <2>3, <2>12, <3>1, <4>3
          <5>2. left = new[j - 1]
            BY <2>4, <2>11, <3>1, <4>3, <5>1
          <5> QED
            BY <2>7, <2>12, <3>1, <4>1, <5>1, <5>2 DEF Fine
        <4> QED
          BY <4>2, <4>3
      <3>2. CASE j # n
        <4>1. j \in 1 .. n - 1 /\ new[j] = so[j] /\ Fine(so, j)
          BY <2>2, <2>3, <2>11, <2>12, <3>2
        <4>2. j > f => new[j - 1] = so[j - 1]
          <5>1. j > f => j - 1 \in 1 .. n - 1
            BY <1>2, <2>3, <4>1
          <5> QED
            BY <2>11, <5>1
        <4> QED
          BY <4>1, <4>2 DEF Fine
      <3> QED
        BY <3>1, <3>2
    <2> QED
      BY <2>1, <2>9, <2>11, <2>12
  <1> HIDE DEF S, Grow, Fine
  <1>5. \E g : Made(g)
    <2>1. PICK U : U = [n \in 0 .. N |-> S(n)]
      OBVIOUS
    <2>2. PICK G : G = [n \in 1 .. N |-> [x \in S(n - 1) |-> Grow(n, x)]]
      OBVIOUS
    <2>3. PICK y0 : y0 = <<>>
      OBVIOUS
    <2>4. y0 \in U[0]
      BY <1>1, <1>3, <2>1, <2>3
    <2>5. \A n \in 1 .. N : n - 1 \in 0 .. N /\ n \in 0 .. N /\ U[n - 1] = S(n - 1) /\ U[n] = S(n)
      BY <1>1, <2>1
    <2>6. \A n \in 1 .. N : \A x \in U[n - 1] : G[n][x] = Grow(n, x)
      BY <2>2, <2>5
    <2>7. \A n \in 1 .. N : \A x \in U[n - 1] : G[n][x] \in U[n]
      BY <1>4, <2>5, <2>6
    <2>8. PICK g : Recursive(g, 0, N, y0, G, U)
      BY <1>1, <2>4, <2>7, Recursion
    <2>9. ASSUME NEW n \in 1 .. N PROVE g[n] = Grow(n, g[n - 1])
      <3>1. g[n] = G[n][g[n - 1]]
        <4>1. n \in 0 + 1 .. N
          BY <1>1
        <4> QED
          BY <2>8, <4>1 DEF Recursive
      <3>2. g[n - 1] \in U[n - 1]
        BY <2>5, <2>8 DEF Recursive
      <3> QED
        BY <2>6, <3>1, <3>2
    <2>10. ASSUME NEW n \in 0 .. N PROVE g[n] = IF n = 0 THEN <<>> ELSE Grow(n, g[n - 1])
      <3>1. g[0] = y0
        BY <2>8 DEF Recursive
      <3>2. n = 0 \/ n \in 1 .. N
        BY <1>1
      <3> QED
        BY <2>3, <2>9, <3>1, <3>2
    <2>11. g = [n \in 0 .. N |-> g[n]]
      BY <2>8 DEF Recursive
    <2>12. g = [n \in 0 .. N |-> IF n = 0 THEN <<>> ELSE Grow(n, g[n - 1])]
      BY <2>10, <2>11
    <2> QED
      BY <1>1, <2>12
  <1>6. Made(fill)
    BY <1>5
  <1>7. fill[N] \in S(N)
    <2>1. PICK U : U = [n \in 0 .. N |-> S(n)]
      OBVIOUS
    <2>2. \A n \in 1 .. N : n - 1 \in 0 .. N /\ n \in 0 .. N /\ U[n - 1] = S(n - 1) /\ U[n] = S(n)
      BY <1>1, <2>1
    <2>3. fill[0] = <<>> /\ \A n \in 1 .. N : fill[n] = Grow(n, fill[n - 1])
      <3>1. PICK g : g = fill
        OBVIOUS
      <3>2. g = [n \in 0 .. N |-> IF n = 0 THEN <<>> ELSE Grow(n, g[n - 1])]
        BY <1>1, <3>1, <1>6
      <3> HIDE DEF fill
      <3>3. g[0] = <<>> /\ \A n \in 1 .. N : g[n] = Grow(n, g[n - 1])
        <4>1. N \in Int /\ 0 \in Int /\ 0 <= N
          BY <1>1
        <4> QED
          BY ONLY <3>2, <4>1
      <3> QED
        BY <3>1, <3>3
    <2> HIDE DEF fill
    <2>4. fill[0] \in U[0] /\ \A n \in 1 .. N : fill[n - 1] \in U[n - 1] => fill[n] \in U[n]
      BY <1>1, <1>3, <1>4, <2>1, <2>2, <2>3
    <2>5. \A n \in 0 .. N : fill[n] \in U[n]
      BY <1>1, <2>4, Throughout
    <2> QED
      BY <1>1, <2>1, <2>5
  <1>8. row = fill[N]
    BY <1>1 DEF NextRow, Grow
  <1>9. ASSUME NEW j \in f .. last PROVE Fine(row, j)
    <2>1. j \in 1 .. N
      BY <1>1, <1>2
    <2> QED
      BY <1>7, <1>8, <2>1 DEF S
  <1>10. row \in Seq([h : Nat, c : Nat, gap : BOOLEAN])
    BY <1>7, <1>8 DEF S
  <1> QED
    BY <1>9, <1>10 DEF Fine, IsRow, Outscores

\* A start of the matrix
IsMatrixTo(H, F, T, p, m, last) ==
  /\ \A i \in 1 .. m : IsRow(H[i], T, p[i], F[i], last)
  /\ \A i \in 1 .. m : IF i = 1 THEN \A j \in F[1] .. last : T[j] = p[1] => H[1][j].h > 0
                       ELSE Outscores(H[i], H[i - 1], T, p[i], F[i], last)

\* H is the matrix that phase 4 wants.
LEMMA RowsAre ==
  ASSUME NEW A, NEW T \in Seq(A), NEW B, \A m \in 1 .. Len(T) : B[m] \in Nat, NEW p \in Seq(A), p # <<>>,
         NEW o, NEW F, NEW last \in Nat, last <= Len(T),
         \A i \in 1 .. Len(p) : F[i] \in 1 .. last /\ T[F[i]] = p[i] /\ (i > 1 => F[i - 1] < F[i]),
         NEW H, H = Rows(T, B, F, p, last, o)
  PROVE  Len(H) = Len(p) /\ IsMatrix(H, F, T, p, Len(p), last)
  <1>1. PICK K : K = Len(p) /\ K \in Nat \ {0} /\ DOMAIN p = 1 .. K
    BY EmptySeq, LenProperties
  <1>a. PICK D : D = DOMAIN p
    OBVIOUS
  <1>b. K \in Int /\ 1 \in Int /\ 1 <= K /\ 1 + 1 = 2 /\ D = 1 .. K
    BY <1>1, <1>a
  <1>2. PICK N : N = Len(T) /\ N \in Nat
    OBVIOUS
  <1> DEFINE V == Seq([h : Nat, c : Nat]) \cup Seq([h : Nat, c : Nat, gap : BOOLEAN])
             S(n) == {so \in Seq(V) : Len(so) = n /\ IsMatrixTo(so, F, T, p, n, last)}
             x0 == <<FirstRow(T, B, p[1], o)>>
             Grow(n, so) == Append(so, NextRow(T, B, p[n], F[n], last, so[n - 1]))
             Made(f) == f = [n \in D |-> IF n = 1 THEN x0 ELSE Grow(n, f[n - 1])]
             rows == CHOOSE f : Made(f)
  <1>3. ASSUME NEW i \in 1 .. K
        PROVE  /\ F[i] \in Nat /\ F[i] > 0 /\ F[i] <= last /\ F[i] <= N /\ T[F[i]] = p[i]
               /\ i > 1 => F[i - 1] \in Nat /\ F[i - 1] < F[i]
    <2>1. F[i] \in 1 .. last /\ T[F[i]] = p[i] /\ (i > 1 => F[i - 1] < F[i])
      BY <1>1
    <2>2. i > 1 => F[i - 1] \in 1 .. last
      <3>1. i > 1 => i - 1 \in 1 .. K
        BY <1>1
      <3> QED
        BY <1>1, <3>1
    <2> QED
      BY <1>2, <2>1, <2>2
  <1>4. x0 \in S(1)
    <2>1. PICK row : row = FirstRow(T, B, p[1], o)
      OBVIOUS
    <2>2. /\ row \in Seq([h : Nat, c : Nat]) /\ IsRow(row, T, p[1], 1, Len(T))
          /\ \A j \in 1 .. Len(T) : T[j] = p[1] => row[j].h > 0
      BY <2>1, FirstRowIs
    <2>3. PICK so : so = <<row>> /\ so = x0
      BY <2>1
    <2> HIDE DEF x0
    <2>4. so[1] = row /\ Len(so) = 1 /\ so \in Seq(V)
      BY <2>2, <2>3
    <2>5. 1 \in 1 .. K /\ F[1] \in Nat /\ F[1] > 0 /\ F[1] <= N
      <3>1. 1 \in 1 .. K
        BY <1>1
      <3> QED
        BY <1>3, <3>1
    <2>6. \A j \in F[1] .. last : j \in 1 .. Len(T) /\ (j > 1 => TRUE)
      BY <1>2, <2>5
    <2>7. \A j \in F[1] .. last : T[j] = p[1] => so[1][j].h > 0
      BY <2>2, <2>4, <2>6
    <2>8. IsRow(row, T, p[1], F[1], last)
      <3> SUFFICES ASSUME NEW j \in F[1] .. last
                   PROVE  /\ row[j].h \in Nat /\ row[j].c \in 0 .. j
                          /\ T[j] # p[1] => row[j].h = 0 \/ (j > F[1] /\ row[j].h < row[j - 1].h)
        BY DEF IsRow
      <3>1. /\ row[j].h \in Nat /\ row[j].c \in 0 .. j
            /\ T[j] # p[1] => row[j].h = 0 \/ (j > 1 /\ row[j].h < row[j - 1].h)
        BY <2>2, <2>6 DEF IsRow
      <3>2. T[j] # p[1] => j > F[1]
        <4>1. T[F[1]] = p[1]
          BY <1>3, <2>5
        <4> QED
          BY <2>5, <4>1
      <3> QED
        BY <3>1, <3>2
    <2>9. IsMatrixTo(so, F, T, p, 1, last)
      <3>1. \A i \in 1 .. 1 : i = 1
        OBVIOUS
      <3> QED
        BY <2>4, <2>7, <2>8, <3>1 DEF IsMatrixTo
    <2> HIDE DEF V
    <2> QED
      BY <2>3, <2>4, <2>9
  <1>5. ASSUME NEW n \in 2 .. K, NEW so \in S(n - 1) PROVE Grow(n, so) \in S(n)
    <2>1. n \in Nat /\ n > 1 /\ n - 1 \in Nat /\ n - 1 \in 1 .. n - 1 /\ n \in 1 .. K /\ n - 1 \in 1 .. K
      BY <1>1
    <2>2. PICK U : U = V /\ so \in Seq(U)
      OBVIOUS
    <2>3. Len(so) = n - 1 /\ IsMatrixTo(so, F, T, p, n - 1, last)
      OBVIOUS
    <2>4. PICK above : above = so[n - 1]
      OBVIOUS
    <2>5. PICK f : f = F[n] /\ f \in 1 .. Len(T) /\ f \in Nat /\ F[n - 1] \in Nat /\ F[n - 1] < f
      BY <1>2, <1>3, <2>1
    <2>6. ASSUME NEW j \in f .. last PROVE above[j - 1].h \in Nat /\ above[j - 1].c \in 0 .. j - 1
      <3>1. IsRow(above, T, p[n - 1], F[n - 1], last)
        BY <2>1, <2>3, <2>4 DEF IsMatrixTo
      <3>2. j - 1 \in F[n - 1] .. last
        BY <2>5
      <3> QED
        BY <3>1, <3>2 DEF IsRow
    <2>7. PICK x : x = NextRow(T, B, p[n], f, last, above)
      OBVIOUS
    <2>8. /\ x \in Seq([h : Nat, c : Nat, gap : BOOLEAN])
          /\ IsRow(x, T, p[n], f, last) /\ Outscores(x, above, T, p[n], f, last)
      BY <2>5, <2>6, <2>7, NextRowIs
    <2>9. PICK new : new = Append(so, x) /\ new = Grow(n, so)
      BY <2>4, <2>5, <2>7
    <2>10. x \in U
      BY <2>2, <2>8
    <2> HIDE DEF Grow, V
    <2>11. new \in Seq(U) /\ Len(new) = n /\ new[n] = x /\ \A j \in 1 .. n - 1 : new[j] = so[j]
      <3>1. so \in Seq(U) /\ x \in U
        BY <2>2, <2>10
      <3>2. /\ Append(so, x) \in Seq(U) /\ Len(Append(so, x)) = Len(so) + 1
            /\ Append(so, x)[Len(so) + 1] = x /\ \A j \in 1 .. Len(so) : Append(so, x)[j] = so[j]
        BY ONLY <3>1, AppendProperties
      <3>3. n = Len(so) + 1 /\ n - 1 = Len(so)
        BY <2>1, <2>3
      <3> QED
        BY <2>9, <3>2, <3>3
    <2>12. ASSUME NEW i \in 1 .. n
           PROVE  /\ IsRow(new[i], T, p[i], F[i], last)
                  /\ IF i = 1 THEN \A j \in F[1] .. last : T[j] = p[1] => new[1][j].h > 0
                     ELSE Outscores(new[i], new[i - 1], T, p[i], F[i], last)
      <3>1. CASE i = n
        <4>1. new[i - 1] = above
          BY <2>1, <2>4, <2>11, <3>1
        <4> QED
          BY <2>1, <2>5, <2>8, <2>11, <3>1, <4>1
      <3>2. CASE i # n
        <4>1. i \in 1 .. n - 1 /\ new[i] = so[i] /\ (i # 1 => new[i - 1] = so[i - 1])
          <5>1. i \in 1 .. n - 1 /\ (i # 1 => i - 1 \in 1 .. n - 1)
            BY <2>1, <3>2
          <5> QED
            BY <2>11, <5>1
        <4>2. /\ IsRow(so[i], T, p[i], F[i], last)
              /\ IF i = 1 THEN \A j \in F[1] .. last : T[j] = p[1] => so[1][j].h > 0
                 ELSE Outscores(so[i], so[i - 1], T, p[i], F[i], last)
          BY <2>3, <4>1 DEF IsMatrixTo
        <4>3. CASE i = 1
          BY <4>1, <4>2, <4>3
        <4>4. CASE i # 1
          BY <4>1, <4>2, <4>4
        <4> QED
          BY <4>3, <4>4
      <3> QED
        BY <3>1, <3>2
    <2>13. IsMatrixTo(new, F, T, p, n, last)
      BY <2>12 DEF IsMatrixTo
    <2> QED
      BY <2>2, <2>9, <2>11, <2>13
  <1> HIDE DEF x0
  <1> HIDE DEF S, Grow
  <1>6. \E f : Made(f)
    <2>1. PICK U : U = [n \in 1 .. K |-> S(n)]
      OBVIOUS
    <2>2. PICK G : G = [n \in 2 .. K |-> [x \in S(n - 1) |-> Grow(n, x)]]
      OBVIOUS
    <2>3. PICK y0 : y0 = x0
      OBVIOUS
    <2>4. y0 \in U[1]
      BY <1>1, <1>4, <2>1, <2>3
    <2>5. \A n \in 2 .. K : n - 1 \in 1 .. K /\ n \in 1 .. K /\ U[n - 1] = S(n - 1) /\ U[n] = S(n)
      BY <1>1, <2>1
    <2>6. \A n \in 2 .. K : \A x \in U[n - 1] : G[n][x] = Grow(n, x)
      BY <2>2, <2>5
    <2>7. \A n \in 2 .. K : \A x \in U[n - 1] : G[n][x] \in U[n]
      BY ONLY <1>5, <2>5, <2>6
    <2>8. PICK f : Recursive(f, 1, K, y0, G, U)
      <3>1. 1 \in Int /\ K \in Int /\ 1 <= K
        BY <1>1
      <3> QED
        <4>1. \A n \in 1 + 1 .. K : \A x \in U[n - 1] : G[n][x] \in U[n]
          BY ONLY <1>b, <2>7
        <4> QED
          BY ONLY <1>b, <2>4, <4>1, RecursionFrom
    <2>9. ASSUME NEW n \in 2 .. K PROVE f[n] = Grow(n, f[n - 1])
      <3>1. f[n] = G[n][f[n - 1]]
        <4>1. n \in 1 + 1 .. K
          BY ONLY <1>b, n \in 2 .. K
        <4> QED
          BY ONLY <2>8, <4>1 DEF Recursive
      <3>2. f[n - 1] \in U[n - 1]
        BY <2>5, <2>8 DEF Recursive
      <3> QED
        BY <2>6, <3>1, <3>2
    <2>10. ASSUME NEW n \in 1 .. K PROVE f[n] = IF n = 1 THEN x0 ELSE Grow(n, f[n - 1])
      <3>1. f[1] = y0
        BY <2>8 DEF Recursive
      <3>2. n = 1 \/ n \in 2 .. K
        BY <1>1
      <3> QED
        BY <2>3, <2>9, <3>1, <3>2
    <2>11. f = [n \in 1 .. K |-> f[n]]
      BY <2>8 DEF Recursive
    <2>12. f = [n \in 1 .. K |-> IF n = 1 THEN x0 ELSE Grow(n, f[n - 1])]
      BY <2>10, <2>11
    <2> QED
      BY <1>b, <2>12
  <1>7. Made(rows)
    BY <1>6
  <1>8. rows[K] \in S(K)
    <2>1. PICK U : U = [n \in 1 .. K |-> S(n)]
      OBVIOUS
    <2>2. \A n \in 2 .. K : n - 1 \in 1 .. K /\ n \in 1 .. K /\ U[n - 1] = S(n - 1) /\ U[n] = S(n)
      BY <1>1, <2>1
    <2>3. rows[1] = x0 /\ \A n \in 2 .. K : rows[n] = Grow(n, rows[n - 1])
      <3>1. PICK f : f = rows
        OBVIOUS
      <3> HIDE DEF rows
      <3>2. f = [n \in D |-> IF n = 1 THEN x0 ELSE Grow(n, f[n - 1])]
        <4>1. Made(rows)
          BY <1>7
        <4>2. Made(f)
          <5> HIDE DEF Made
          <5> QED
            BY <3>1, <4>1
        <4> QED
          BY <4>2
      <3>3. f[1] = x0 /\ \A n \in 2 .. K : f[n] = Grow(n, f[n - 1])
        <4>1. K \in Int /\ 1 \in Int /\ 1 <= K
          BY <1>1
        <4> QED
          BY ONLY <1>b, <3>2, <4>1
      <3> QED
        BY <3>1, <3>3
    <2> HIDE DEF rows
    <2>4. rows[1] \in U[1] /\ \A n \in 2 .. K : rows[n - 1] \in U[n - 1] => rows[n] \in U[n]
      BY <1>1, <1>4, <1>5, <2>1, <2>2, <2>3
    <2>5. \A n \in 1 .. K : rows[n] \in U[n]
      <3>1. 1 \in Int /\ K \in Int /\ 1 <= K
        BY <1>1
      <3> QED
        <4>1. \A n \in 1 + 1 .. K : rows[n - 1] \in U[n - 1] => rows[n] \in U[n]
          BY ONLY <1>b, <2>4
        <4> QED
          BY ONLY <1>b, <2>4, <4>1, ThroughoutFrom
    <2> QED
      BY <1>1, <2>1, <2>5
  <1>9. H = rows[K]
    BY <1>1, <1>a DEF Rows, Grow, x0
  <1>10. Len(H) = K /\ IsMatrixTo(H, F, T, p, K, last)
    BY <1>8, <1>9 DEF S
  <1>11. ASSUME NEW i \in 1 .. K, NEW j \in F[i] .. last
         PROVE  /\ H[i][j].h \in Nat
                /\ T[j] # p[i] => H[i][j].h = 0 \/ H[i][j].h < H[i][j - 1].h
                /\ T[j] = p[i] => IF i = 1 THEN H[i][j].h > 0 ELSE H[i][j].h > H[i - 1][j - 1].h
    <2>1. IsRow(H[i], T, p[i], F[i], last)
      BY <1>10 DEF IsMatrixTo
    <2>2. IF i = 1 THEN \A k \in F[1] .. last : T[k] = p[1] => H[1][k].h > 0
          ELSE Outscores(H[i], H[i - 1], T, p[i], F[i], last)
      BY <1>10 DEF IsMatrixTo
    <2>3. T[j] = p[i] => IF i = 1 THEN H[i][j].h > 0 ELSE H[i][j].h > H[i - 1][j - 1].h
      <3>1. CASE i = 1
        BY <2>2, <3>1
      <3>2. CASE i # 1
        BY <2>2, <3>2 DEF Outscores
      <3> QED
        BY <3>1, <3>2
    <2> QED
      BY <2>1, <2>3 DEF IsRow
  <1>12. IsMatrix(H, F, T, p, K, last)
    BY <1>1, <1>11 DEF IsMatrix
  <1> QED
    BY <1>1, <1>10, <1>12

-----------------------------------------------------------------------------
(* FuzzyMatchV2 on the part of the text in scope *)

\* Of a way, the first characters have one.
LEMMA HasFewer ==
  ASSUME NEW t, NEW p, NEW K \in Nat, NEW k \in 0 .. K, NEW a, NEW b, Has(t, p, K, a, b)
  PROVE  Has(t, p, k, a, b)
  <1>1. PICK pos : Way(t, p, K, a, b, pos)
    BY DEF Has
  <1>2. \A i \in 1 .. k : i \in 1 .. K
    OBVIOUS
  <1>3. Way(t, p, k, a, b, pos)
    BY <1>1, <1>2 DEF Way
  <1> QED
    BY <1>3 DEF Has

\* The part of t that is in scope is T.
LEMMA HasShifted ==
  ASSUME NEW t, NEW T, NEW p, NEW K \in Nat, NEW from \in Nat, NEW N \in Nat,
         \A n \in 1 .. N : t[from + n] = T[n], NEW to, to = from + N, Has(t, p, K, from, to)
  PROVE  Has(T, p, K, 0, N)
  <1>1. PICK pos : Way(t, p, K, from, from + N, pos)
    BY DEF Has
  <1>2. PICK new : new = [k \in 1 .. K |-> pos[k] - from]
    OBVIOUS
  <1>3. ASSUME NEW k \in 1 .. K PROVE pos[k] \in Int /\ new[k] = pos[k] - from /\ new[k] \in 0 .. N - 1 /\ T[new[k] + 1] = p[k]
    <2>1. pos[k] \in from .. from + N - 1 /\ t[pos[k] + 1] = p[k] /\ new[k] = pos[k] - from
      BY <1>1, <1>2 DEF Way
    <2>2. PICK n : n = new[k] + 1 /\ n \in 1 .. N /\ from + n = pos[k] + 1
      BY <2>1
    <2>3. T[n] = p[k]
      BY <2>1, <2>2
    <2> QED
      BY <2>1, <2>2, <2>3
  <1>4. ASSUME NEW i \in 1 .. K, NEW k \in 1 .. K, i < k PROVE new[i] < new[k]
    <2>1. pos[i] < pos[k]
      BY <1>1, <1>4 DEF Way
    <2> QED
      BY <1>3, <2>1
  <1>5. Way(T, p, K, 0, N, new)
    BY <1>3, <1>4 DEF Way
  <1> QED
    BY <1>5 DEF Has

\* What phase 4 finds in T is a result for t.
LEMMA TracedIs ==
  ASSUME NEW p, NEW K \in Nat \ {0}, K = Len(p), NEW t, NEW T, NEW from \in Nat, NEW N \in Nat,
         \A n \in 1 .. N : t[from + n] = T[n],
         NEW last \in 0 .. N, NEW end, NEW trace, IsTrace(trace, T, p, K, last, end),
         NEW score, NEW r, r = Traced(trace, from, end, score), NEW to, to = from + N
  PROVE  IsResult(r, t, p, from, to)
  <1>1. PICK W : W = 1 .. last
    OBVIOUS
  <1>2. PICK q : q = trace.pos /\ q \in Seq(W) /\ Len(q) = K
    BY <1>1 DEF IsTrace
  <1>a. /\ \A k \in 1 .. K : T[q[k]] = p[k]
        /\ \A k, l \in 1 .. K : k < l => q[k] < q[l]
        /\ trace.j = q[1] /\ q[K] = end
    BY <1>2 DEF IsTrace
  <1>3. \A k \in 1 .. K : q[k] \in W
    BY <1>2, ElementOfSeq
  <1>4. DOMAIN q = 1 .. K
    BY <1>2, LenProperties
  <1>5. PICK pos : pos = [k \in 1 .. K |-> from + q[k] - 1]
    OBVIOUS
  <1>6. r = [start |-> from + trace.j - 1, end |-> from + end, score |-> score,
             pos |-> [k \in DOMAIN q |-> from + q[k] - 1]]
    BY <1>2 DEF Traced
  <1>7. r.start = from + q[1] - 1 /\ r.end = from + q[K] /\ r.pos = pos
    BY <1>a, <1>2, <1>4, <1>5, <1>6
  <1>8. ASSUME NEW k \in 1 .. K
        PROVE pos[k] = from + q[k] - 1 /\ q[k] \in Int /\ pos[k] \in from .. from + N - 1 /\ t[pos[k] + 1] = p[k]
    <2>1. q[k] \in 1 .. N /\ pos[k] = from + q[k] - 1 /\ T[q[k]] = p[k]
      BY <1>a, <1>1, <1>2, <1>3, <1>5
    <2>2. PICK n, m : n = q[k] /\ m = pos[k]
      OBVIOUS
    <2>3. n \in 1 .. N /\ m = from + n - 1 /\ T[n] = p[k] /\ t[from + n] = T[n]
      BY <2>1, <2>2
    <2>4. n \in Int /\ m \in from .. from + N - 1 /\ from + n = m + 1
      BY <2>3
    <2>5. t[m + 1] = p[k]
      BY <2>3, <2>4
    <2> QED
      BY <2>2, <2>3, <2>4, <2>5
  <1>9. ASSUME NEW i \in 1 .. K, NEW k \in 1 .. K, i < k PROVE pos[i] < pos[k]
    <2>1. q[i] < q[k]
      BY <1>a, <1>9
    <2> QED
      BY <1>8, <2>1
  <1>10. Way(t, p, K, from, from + N, r.pos)
    BY <1>7, <1>8, <1>9 DEF Way
  <1>11. r.pos = [k \in 1 .. K |-> r.pos[k]]
    BY <1>5, <1>7
  <1>12. r.start = r.pos[1] /\ r.end = r.pos[K] + 1
    <2>1. 1 \in 1 .. K /\ K \in 1 .. K
      OBVIOUS
    <2>2. pos[1] = from + q[1] - 1 /\ pos[K] = from + q[K] - 1 /\ q[K] \in Int
      BY <1>8, <2>1
    <2> QED
      BY <1>7, <2>2
  <1> QED
    BY <1>10, <1>11, <1>12 DEF IsResult

\* The general algorithm on the part of the text in scope
LEMMA GeneralFromIs ==
  ASSUME NEW A, NEW T \in Seq(A), NEW p \in Seq(A), p # <<>>, NEW text, NEW o, NEW from \in Nat,
         \A n \in 1 .. Len(T) : T[n] = Folded(At(text, from + n - 1), o),
         NEW t, \A n \in 1 .. Len(T) : t[from + n] = T[n],
         NEW r, r = GeneralFrom(text, T, p, from, o)
  PROVE  IsResult(r, t, p, from, from + Len(T))
  <1>1. PICK K : K = Len(p) /\ K \in Nat \ {0}
    BY EmptySeq
  <1>2. PICK N : N = Len(T) /\ N \in Nat /\ DOMAIN T = 1 .. N
    BY LenProperties
  <1>3. PICK F : F = Firsts(T, p)
    OBVIOUS
  <1>4. PICK B : B = [n \in DOMAIN T |-> BonusFrom(text, from + n - 1, from, o)]
    OBVIOUS
  <1>5. \A m \in 1 .. Len(T) : B[m] \in Nat
    BY <1>2, <1>4, BonusNat
  <1>6. /\ F \in Seq(1 .. N) /\ Len(F) <= K
        /\ \A i \in 1 .. Len(F) : T[F[i]] = p[i] /\ \A k \in 1 .. Len(F) : i < k => F[i] < F[k]
        /\ Len(F) < K => ~Has(T, p, Len(F) + 1, 0, N)
    <2>1. AreFirsts(F, T, p)
      BY <1>3, FirstsAre
    <2> QED
      BY <1>1, <1>2, <2>1 DEF AreFirsts
  <1>7. PICK last : last = LastPlace(T, p[Len(p)])
    OBVIOUS
  <1>8. r = IF Len(F) < Len(p) THEN NoMatch
            ELSE IF Len(p) = 1 THEN BestOf(text, p[1], from, from + Len(T), o)
            ELSE BestTrace(Rows(T, B, F, p, last, o), F, from, last, o)
    BY <1>3, <1>4, <1>7 DEF GeneralFrom, GeneralIn
  <1>9. CASE Len(F) < K
    <2>1. r = NoMatch
      BY <1>1, <1>8, <1>9
    <2>2. Len(F) + 1 \in 0 .. K
      <3>1. Len(F) \in Nat
        BY <1>6, LenProperties
      <3> QED
        BY <1>1, <1>9, <3>1
    <2>3. ~Has(T, p, K, 0, N)
      BY <1>1, <1>6, <1>9, <2>2, HasFewer
    <2>4. PICK to : to = from + N
      OBVIOUS
    <2>5. ~Has(t, p, K, from, to)
      BY <1>1, <1>2, <2>3, <2>4, HasShifted
    <2> QED
      BY <1>1, <1>2, <2>1, <2>4, <2>5 DEF IsResult
  <1>10. CASE Len(F) = K /\ K = 1
    <2>a. PICK c, to : c = p[1] /\ to = from + N
      OBVIOUS
    <2>1. r = BestOf(text, c, from, to, o)
      BY <1>1, <1>2, <1>8, <1>10, <2>a
    <2>2. PICK H : H = PlacesOf(text, c, from, to, o)
      OBVIOUS
    <2>3. ASSUME NEW i \in from .. to - 1 PROVE t[i + 1] = Folded(At(text, i), o)
      <3>1. PICK n \in Int : n = i - from + 1
        OBVIOUS
      <3>2. n \in 1 .. N /\ from + n = i + 1 /\ from + n - 1 = i
        BY <1>2, <2>a, <3>1
      <3>3. T[n] = Folded(At(text, from + n - 1), o) /\ t[from + n] = T[n]
        BY <1>2, <3>2
      <3> QED
        BY <3>2, <3>3
    <2>4. IsPlace(r, H)
      <3>1. to \in Nat /\ from <= to
        BY <1>2, <2>a
      <3> QED
        BY <2>1, <2>2, <3>1, BestOfIs
    <2>5. CASE H = {} /\ r = NoMatch
      <3>1. ~Has(t, p, K, from, to)
        <4> SUFFICES ASSUME NEW pos, Way(t, p, K, from, to, pos) PROVE FALSE
          BY DEF Has
        <4>1. pos[1] \in from .. to - 1 /\ t[pos[1] + 1] = p[1]
          <5>1. 1 \in 1 .. K
            BY <1>1
          <5> QED
            BY <5>1 DEF Way
        <4> QED
          BY <2>a, <2>2, <2>3, <2>5, <4>1 DEF PlacesOf
      <3> QED
        BY <1>1, <1>2, <2>a, <2>5, <3>1 DEF IsResult
    <2>6. CASE \E a \in H : r.start = a /\ r.end = a + 1 /\ r.pos = <<a>>
      <3>1. PICK a \in H : r.start = a /\ r.end = a + 1 /\ r.pos = <<a>>
        BY <2>6
      <3>2. a \in from .. to - 1 /\ t[a + 1] = p[1]
        BY <2>a, <2>2, <2>3 DEF PlacesOf
      <3>3. \A k \in 1 .. K : k = 1
        BY <1>10
      <3>4. r.pos = [k \in 1 .. K |-> r.pos[k]] /\ r.pos[1] = a
        BY <1>10, <3>1
      <3>5. Way(t, p, K, from, to, r.pos)
        <4>1. \A k \in 1 .. K : r.pos[k] \in from .. to - 1 /\ t[r.pos[k] + 1] = p[k]
          BY <3>2, <3>3, <3>4
        <4>2. \A i, k \in 1 .. K : i < k => r.pos[i] < r.pos[k]
          BY <1>10
        <4> QED
          BY ONLY <4>1, <4>2 DEF Way
      <3>6. r.start = r.pos[1] /\ r.end = r.pos[K] + 1
        BY <1>10, <3>1, <3>4
      <3> QED
        BY <1>1, <1>2, <2>a, <3>4, <3>5, <3>6 DEF IsResult
    <2> QED
      BY <2>4, <2>5, <2>6 DEF IsPlace
  <1>11. CASE Len(F) = K /\ K # 1
    <2>1. PICK H : H = Rows(T, B, F, p, last, o)
      OBVIOUS
    <2>2. ASSUME NEW i \in 1 .. K PROVE F[i] \in 1 .. N
      BY <1>6, <1>11, ElementOfSeq
    <2>3. K \in 1 .. K /\ K - 1 \in 1 .. K /\ K > 1
      BY <1>1, <1>11
    <2>4. last \in F[K] .. N
      <3>1. T[F[K]] = p[K] /\ F[K] \in 1 .. Len(T)
        BY <1>2, <1>6, <1>11, <2>2, <2>3
      <3> QED
        BY <1>1, <1>2, <1>7, <3>1, LastPlaceIs
    <2>5. last \in Nat /\ last <= N
      BY <1>2, <2>2, <2>3, <2>4
    <2>6. ASSUME NEW i \in 1 .. K PROVE F[i] \in 1 .. last /\ T[F[i]] = p[i] /\ (i > 1 => F[i - 1] < F[i])
      <3>1. F[i] <= F[K]
        <4>1. i = K \/ i < K
          BY <1>1
        <4>2. i < K => F[i] < F[K]
          BY <1>6, <1>11, <2>3
        <4> QED
          BY <1>2, <2>2, <2>3, <4>1, <4>2
      <3>2. i > 1 => F[i - 1] < F[i]
        <4>1. i > 1 => i - 1 \in 1 .. K /\ i - 1 < i
          BY <1>1
        <4> QED
          BY <1>6, <1>11, <4>1
      <3>3. PICK x, y : x = F[i] /\ y = F[K]
        OBVIOUS
      <3>4. x \in 1 .. N /\ y \in 1 .. N /\ last \in y .. N /\ x <= y
        BY <2>2, <2>3, <2>4, <3>1, <3>3
      <3>5. x \in 1 .. last
        BY <1>2, <3>4
      <3>6. T[F[i]] = p[i]
        BY <1>6, <1>11
      <3> QED
        BY <3>2, <3>3, <3>5, <3>6
    <2>7. Len(H) = K /\ IsMatrix(H, F, T, p, K, last)
      <3>1. \A i \in 1 .. Len(p) : F[i] \in 1 .. last /\ T[F[i]] = p[i] /\ (i > 1 => F[i - 1] < F[i])
        BY <1>1, <2>6
      <3>2. last \in Nat /\ last <= Len(T)
        BY <1>2, <2>5
      <3>3. Len(H) = Len(p) /\ IsMatrix(H, F, T, p, Len(p), last)
        BY ONLY T \in Seq(A), p \in Seq(A), p # <<>>, <1>5, <2>1, <3>1, <3>2, RowsAre, SMTT(60)
      <3> QED
        BY <1>1, <3>3
    <2>8. PICK f, row : f = F[K] /\ row = H[K]
      OBVIOUS
    <2>9. f \in Nat /\ f > 0 /\ f <= last /\ f \in f .. last
      BY <1>2, <2>2, <2>3, <2>4, <2>5, <2>8
    <2>10. \A n \in f .. last : row[n].h \in Nat
      BY <2>3, <2>7, <2>8 DEF IsMatrix
    <2>11. row[f].h > 0
      <3>1. F[K - 1] \in 1 .. last /\ F[K - 1] < f
        BY <2>3, <2>6, <2>8
      <3>2. f - 1 \in F[K - 1] .. last
        <4>1. PICK x : x = F[K - 1] /\ x \in 1 .. last /\ x < f
          BY <3>1
        <4>2. f - 1 \in x .. last
          BY <2>5, <2>9, <4>1
        <4> QED
          BY <4>1, <4>2
      <3>3. H[K - 1][f - 1].h \in Nat
        BY <2>3, <2>7, <3>2 DEF IsMatrix
      <3>4. T[f] = p[K]
        BY <2>3, <2>6, <2>8
      <3>5. row[f].h > H[K - 1][f - 1].h
        BY <1>11, <2>3, <2>7, <2>8, <2>9, <3>4 DEF IsMatrix
      <3> QED
        BY <2>9, <2>10, <3>3, <3>5
    <2>12. PICK best : best = BestEnd(row, f, last, o)
      OBVIOUS
    <2>13. best.at \in f .. last /\ \A n \in f .. last : row[n].h <= row[best.at].h
      BY <2>5, <2>9, <2>10, <2>11, <2>12, BestEndIs
    <2>14. PICK end : end = best.at /\ end \in Nat
      BY <2>9, <2>13
    <2>15. IsBestEnd(H, F, K, last, end)
      BY <2>8, <2>13, <2>14 DEF IsBestEnd
    <2>16. PICK trace : trace = Backtrace(H, F, end, last)
      OBVIOUS
    <2>17. IsTrace(trace, T, p, K, last, end)
      BY ONLY <1>1, <2>5, <2>7, <2>14, <2>15, <2>16, BacktraceIs
    <2>18. r = Traced(trace, from, end, best.score)
      BY <1>1, <1>8, <1>11, <2>1, <2>7, <2>8, <2>12, <2>14, <2>16 DEF BestTrace, TracedFrom
    <2>19. last \in 0 .. N
      BY <1>2, <2>5
    <2>20. \A n \in 1 .. N : t[from + n] = T[n]
      BY <1>2
    <2>a. PICK to : to = from + N
      OBVIOUS
    <2>21. IsResult(r, t, p, from, to)
      BY ONLY <2>a, <1>1, <1>2, from \in Nat, <2>17, <2>18, <2>19, <2>20, TracedIs
    <2> QED
      BY <1>2, <2>a, <2>21
  <1>12. Len(F) < K \/ Len(F) = K
    <2>1. Len(F) \in Nat
      BY <1>6, LenProperties
    <2> QED
      BY <1>1, <1>6, <2>1
  <1> QED
    BY <1>9, <1>10, <1>11, <1>12

-----------------------------------------------------------------------------
(* fuzzyMatchV2Two: both rows in one pass *)

\* A place of the second character scores more than what is above and to the left, and any other
\* less than what is to the left, if anything.
LEMMA SecondIs ==
  ASSUME NEW so, so.h0 \in Nat, so.h1 \in Nat, so.b \in Nat, NEW hit \in BOOLEAN, NEW bonus \in Nat,
         NEW begins \in BOOLEAN, NEW cell, cell = Second(so, hit, bonus, begins)
  PROVE  /\ cell \in [h : Nat, c : Nat, gap : BOOLEAN]
         /\ hit => cell.h > so.h0
         /\ ~hit => cell.h = 0 \/ (~begins /\ cell.h < so.h1)
  <1>1. PICK gap \in Int : gap = (IF so.gap1 THEN ScoreGapExtension ELSE ScoreGapStart) /\ gap < 0
    BY DEF ScoreGapExtension, ScoreGapStart
  <1>2. PICK left \in Nat : left = (IF begins THEN 0 ELSE so.h1)
    OBVIOUS
  <1>3. PICK s2 \in Int : s2 = left + gap /\ s2 < left
    BY <1>1, <1>2
  <1>4. cell = SecondOf(so, hit, bonus, s2)
    BY <1>1, <1>2, <1>3 DEF Second
  <1>5. PICK newRun \in BOOLEAN : newRun <=> (so.c0 = 0 \/ (bonus >= BonusBoundary /\ bonus > so.b))
    OBVIOUS
  <1>6. PICK bb \in Nat : bb = (IF newRun THEN bonus ELSE MaxOf(bonus, MaxOf(BonusConsecutive, so.b)))
    <2>1. PICK x \in Int : x = ScoreGapStart + ScoreGapExtension /\ x = -4
      BY DEF ScoreGapStart, ScoreGapExtension
    <2>2. BonusConsecutive = 4
      BY <2>1 DEF BonusConsecutive
    <2> QED
      BY <2>2 DEF MaxOf
  <1>7. PICK breaks \in BOOLEAN : breaks <=> (so.h0 + ScoreMatch + bb < s2)
    OBVIOUS
  <1>8. PICK s1 \in Int : /\ s1 = (IF ~hit THEN 0 ELSE so.h0 + ScoreMatch + (IF breaks THEN bonus ELSE bb))
                          /\ ~hit => s1 = 0
                          /\ hit => s1 > so.h0
    BY <1>6 DEF ScoreMatch
  <1>9. PICK low \in BOOLEAN : low <=> (s1 < s2)
    OBVIOUS
  <1>10. cell = [h |-> MaxOf(s1, MaxOf(s2, 0)), c |-> IF ~hit \/ breaks THEN 0 ELSE IF newRun THEN 1 ELSE 2,
                 gap |-> low]
    BY <1>4, <1>5, <1>6, <1>7, <1>8, <1>9 DEF SecondOf
  <1>11. cell.h = MaxOf(s1, MaxOf(s2, 0)) /\ cell.c \in Nat /\ cell.gap = low
    BY <1>10
  <1>12. cell.h \in Nat /\ cell.h >= s1 /\ (~hit => cell.h = 0 \/ cell.h < left)
    BY <1>3, <1>8, <1>11 DEF MaxOf
  <1>13. cell \in [h : Nat, c : Nat, gap : BOOLEAN]
    BY <1>10, <1>11, <1>12
  <1>14. hit => cell.h > so.h0
    <2> SUFFICES ASSUME hit PROVE cell.h > so.h0
      OBVIOUS
    <2>1. s1 > so.h0 /\ cell.h >= s1 /\ cell.h \in Nat
      BY <1>8, <1>12
    <2> QED
      BY ONLY <2>1, s1 \in Int, so.h0 \in Nat
  <1>15. ~hit => cell.h = 0 \/ (~begins /\ cell.h < so.h1)
    BY <1>2, <1>12
  <1> QED
    BY <1>13, <1>14, <1>15

\* What the single pass keeps
TwoCells == [h : Nat, c : Nat] \cup {Stale}
TwoPlaces ==
  [f0 : Int, f1 : Int, h0 : Nat, c0 : Nat, b : Nat, gap0 : BOOLEAN, h1 : Nat, gap1 : BOOLEAN,
   max : Nat, at : Int, H : Seq(Seq(TwoCells))]

\* One row longer by a cell
LEMMA RowGrows ==
  ASSUME NEW H \in Seq(Seq(TwoCells)), Len(H) = 2, NEW i \in 1 .. 2, NEW x \in TwoCells,
         NEW G, G = [H EXCEPT ![i] = Append(H[i], x)]
  PROVE  /\ G \in Seq(Seq(TwoCells)) /\ Len(G) = 2
         /\ Len(G[i]) = Len(H[i]) + 1 /\ G[i][Len(H[i]) + 1] = x
         /\ \A j \in 1 .. Len(H[i]) : G[i][j] = H[i][j]
         /\ \A k \in 1 .. 2 : k # i => G[k] = H[k]
  <1>1. PICK W : W = TwoCells
    OBVIOUS
  <1>2. PICK row : row = H[i] /\ row \in Seq(W)
    BY <1>1, ElementOfSeq
  <1>3. PICK new : new = Append(row, x)
    OBVIOUS
  <1>4. /\ new \in Seq(W) /\ Len(new) = Len(row) + 1 /\ new[Len(row) + 1] = x
        /\ \A j \in 1 .. Len(row) : new[j] = row[j]
    BY ONLY <1>1, <1>2, <1>3, x \in TwoCells, AppendProperties
  <1>5. PICK V : V = Seq(W)
    OBVIOUS
  <1>6. H \in Seq(V) /\ i \in 1 .. Len(H) /\ new \in V /\ G = [H EXCEPT ![i] = new]
    BY <1>1, <1>2, <1>3, <1>4, <1>5
  <1>7. /\ G \in Seq(V) /\ Len(G) = Len(H)
        /\ \A k \in 1 .. Len(H) : G[k] = IF k = i THEN new ELSE H[k]
    BY ONLY <1>6, ExceptSeq
  <1> QED
    BY <1>1, <1>2, <1>4, <1>5, <1>6, <1>7

\* What a character c at off adds to what is kept
TwoGrown(r, so, off, c, p) ==
  /\ r \in TwoPlaces /\ Len(r.H) = 2
  /\ r.f0 = IF so.f0 < 0 /\ c = p[1] THEN off ELSE so.f0
  /\ r.f1 = IF so.f0 >= 0 /\ c = p[2] /\ so.f1 < 0 THEN off ELSE so.f1
  /\ c = p[1] => r.h0 > 0
  /\ c # p[1] => r.h0 = 0 \/ r.h0 < so.h0
  /\ Len(r.H[1]) = Len(so.H[1]) + 1 /\ r.H[1][Len(so.H[1]) + 1].h = r.h0
  /\ r.H[1][Len(so.H[1]) + 1].c \in 0 .. 1
  /\ \A j \in 1 .. Len(so.H[1]) : r.H[1][j] = so.H[1][j]
  /\ Len(r.H[2]) = Len(so.H[2]) + 1
  /\ \A j \in 1 .. Len(so.H[2]) : r.H[2][j] = so.H[2][j]
  /\ r.f1 < 0 => r.max = so.max
  /\ r.f1 >= 0 =>
       /\ r.H[2][Len(so.H[2]) + 1].h = r.h1
       /\ c = p[2] => r.h1 > so.h0
       /\ c # p[2] => r.h1 = 0 \/ (r.f1 # off /\ r.h1 < so.h1)
       /\ \/ r.max = so.max /\ r.at = so.at /\ r.h1 <= so.max
          \/ r.max = r.h1 /\ r.at = off /\ r.h1 >= so.max
\* A character adds that to both rows.
LEMMA TwoAtIs ==
  ASSUME NEW so \in TwoPlaces, Len(so.H) = 2, NEW off \in Nat, NEW c, NEW bonus \in Nat, NEW p, NEW o,
         NEW r, r = TwoAt(so, off, c, bonus, p, o)
  PROVE  TwoGrown(r, so, off, c, p)
  <1> DEFINE f1 == IF so.f0 >= 0 /\ c = p[2] /\ so.f1 < 0 THEN off ELSE so.f1
             h0 == IF c = p[1] THEN ScoreMatch + BonusFirstCharMultiplier * bonus
                   ELSE MaxOf(so.h0 + (IF so.gap0 THEN ScoreGapExtension ELSE ScoreGapStart), 0)
  <1>1. PICK F : F = f1 /\ F \in Int
    BY DEF TwoPlaces
  <1>2. PICK first \in Nat : first = h0 /\ (c = p[1] => first > 0) /\ (c # p[1] => first = 0 \/ first < so.h0)
    <2>1. PICK h : h = so.h0 /\ h \in Nat
      BY DEF TwoPlaces
    <2>2. PICK gap \in Int : gap = (IF so.gap0 THEN ScoreGapExtension ELSE ScoreGapStart) /\ gap < 0
      BY DEF ScoreGapExtension, ScoreGapStart
    <2>3. PICK x \in Nat : x = ScoreMatch + BonusFirstCharMultiplier * bonus /\ x > 0
      BY DEF ScoreMatch, BonusFirstCharMultiplier
    <2>4. PICK y \in Nat : y = MaxOf(h + gap, 0) /\ (y = 0 \/ y < h)
      BY <2>1, <2>2 DEF MaxOf
    <2>5. h0 = IF c = p[1] THEN x ELSE y
      BY <2>1, <2>2, <2>3, <2>4
    <2> HIDE DEF h0
    <2> QED
      BY <2>1, <2>3, <2>4, <2>5
  <1>3. PICK hit \in BOOLEAN : hit <=> c = p[2]
    OBVIOUS
  <1>4. PICK begins \in BOOLEAN : begins <=> off = F
    OBVIOUS
  <1>5. PICK cell : cell = Second(so, hit, bonus, begins)
    OBVIOUS
  <1>6. /\ cell \in [h : Nat, c : Nat, gap : BOOLEAN]
        /\ hit => cell.h > so.h0
        /\ ~hit => cell.h = 0 \/ (~begins /\ cell.h < so.h1)
    <2>1. so.h0 \in Nat /\ so.h1 \in Nat /\ so.b \in Nat
      BY DEF TwoPlaces
    <2> QED
      BY ONLY <2>1, <1>3, <1>4, <1>5, bonus \in Nat, SecondIs, SMTT(30)
  <1>7. PICK mid : mid = WithSecond(so, off, F, cell, o)
    OBVIOUS
  <1>8. r = WithFirst(mid, off, first, c = p[1], bonus)
    <2>1. mid = SecondRow(so, off, f1, c, bonus, p[2], o)
      BY <1>1, <1>3, <1>4, <1>5, <1>7 DEF SecondRow
    <2> QED
      BY <1>2, <2>1 DEF TwoAt
  <1> HIDE DEF f1, h0
  <1>9. PICK x : x = (IF F < 0 THEN Stale ELSE [h |-> cell.h, c |-> cell.c]) /\ x \in TwoCells
    <2>1. PICK y : y = [h |-> cell.h, c |-> cell.c]
      OBVIOUS
    <2>2. y \in TwoCells /\ Stale \in TwoCells
      BY <1>6, <2>1 DEF TwoCells
    <2> QED
      BY <2>1, <2>2
  <1>10. PICK G : G = [so.H EXCEPT ![2] = Append(so.H[2], x)]
    OBVIOUS
  <1>11. PICK better \in BOOLEAN : better <=> Better(cell.h, so.max, o)
    OBVIOUS
  <1>12. mid = IF F < 0 THEN [so EXCEPT !.H = G]
               ELSE [so EXCEPT !.f1 = F, !.h1 = cell.h, !.gap1 = cell.gap,
                               !.max = IF better THEN cell.h ELSE so.max,
                               !.at = IF better THEN off ELSE so.at, !.H = G]
    <2>1. CASE F < 0
      BY <1>7, <1>9, <1>10, <2>1 DEF WithSecond
    <2>2. CASE ~(F < 0)
      BY <1>7, <1>9, <1>10, <1>11, <2>2 DEF WithSecond
    <2> QED
      BY <2>1, <2>2
  <1>13. /\ G \in Seq(Seq(TwoCells)) /\ Len(G) = 2
         /\ Len(G[2]) = Len(so.H[2]) + 1 /\ G[2][Len(so.H[2]) + 1] = x
         /\ \A j \in 1 .. Len(so.H[2]) : G[2][j] = so.H[2][j]
         /\ G[1] = so.H[1]
    <2>1. PICK H : H = so.H /\ H \in Seq(Seq(TwoCells)) /\ Len(H) = 2 /\ G = [H EXCEPT ![2] = Append(H[2], x)]
      BY <1>10 DEF TwoPlaces
    <2>2. /\ G \in Seq(Seq(TwoCells)) /\ Len(G) = 2
          /\ Len(G[2]) = Len(H[2]) + 1 /\ G[2][Len(H[2]) + 1] = x
          /\ \A j \in 1 .. Len(H[2]) : G[2][j] = H[2][j]
          /\ \A k \in 1 .. 2 : k # 2 => G[k] = H[k]
      <3>1. 2 \in 1 .. 2
        OBVIOUS
      <3> QED
        BY ONLY <1>9, <2>1, <3>1, RowGrows
    <2> QED
      BY <2>1, <2>2
  <1>a. PICK one \in 0 .. 1 : one = (IF c = p[1] THEN 1 ELSE 0)
    OBVIOUS
  <1>14. PICK y : y = [h |-> first, c |-> one] /\ y \in TwoCells
    <2>1. PICK z : z = [h |-> first, c |-> one]
      OBVIOUS
    <2>2. one \in Nat
      OBVIOUS
    <2>3. z \in TwoCells
      BY ONLY <2>1, <2>2, first \in Nat DEF TwoCells
    <2> QED
      BY <2>1, <2>3
  <1>15. PICK E : E = [G EXCEPT ![1] = Append(G[1], y)]
    OBVIOUS
  <1>16. /\ E \in Seq(Seq(TwoCells)) /\ Len(E) = 2
         /\ Len(E[1]) = Len(G[1]) + 1 /\ E[1][Len(G[1]) + 1] = y
         /\ \A j \in 1 .. Len(G[1]) : E[1][j] = G[1][j]
         /\ E[2] = G[2]
    <2>1. /\ E \in Seq(Seq(TwoCells)) /\ Len(E) = 2
          /\ Len(E[1]) = Len(G[1]) + 1 /\ E[1][Len(G[1]) + 1] = y
          /\ \A j \in 1 .. Len(G[1]) : E[1][j] = G[1][j]
          /\ \A k \in 1 .. 2 : k # 1 => E[k] = G[k]
      <3>1. 1 \in 1 .. 2
        OBVIOUS
      <3> QED
        BY ONLY <1>13, <1>14, <1>15, <3>1, RowGrows
    <2> QED
      BY <2>1
  <1>b. PICK Q : Q = Seq(Seq(TwoCells))
    OBVIOUS
  <1>c. so \in [f0 : Int, f1 : Int, h0 : Nat, c0 : Nat, b : Nat, gap0 : BOOLEAN, h1 : Nat, gap1 : BOOLEAN,
               max : Nat, at : Int, H : Q]
    BY <1>b DEF TwoPlaces
  <1>d. cell.h \in Nat /\ cell.gap \in BOOLEAN
    BY <1>6
  <1>e. PICK max \in Nat : max = (IF better THEN cell.h ELSE so.max)
    BY <1>c, <1>d
  <1>f. PICK at \in Int : at = (IF better THEN off ELSE so.at)
    BY <1>c
  <1>17. /\ mid \in [f0 : Int, f1 : Int, h0 : Nat, c0 : Nat, b : Nat, gap0 : BOOLEAN, h1 : Nat,
                     gap1 : BOOLEAN, max : Nat, at : Int, H : Q]
         /\ mid.H = G /\ mid.f0 = so.f0
         /\ F < 0 => mid.f1 = so.f1 /\ mid.h1 = so.h1 /\ mid.max = so.max /\ mid.at = so.at
         /\ ~(F < 0) => mid.f1 = F /\ mid.h1 = cell.h /\ mid.max = max /\ mid.at = at
    <2>1. G \in Q
      BY <1>13, <1>b
    <2>2. CASE F < 0
      <3>1. mid = [so EXCEPT !.H = G]
        BY <1>12, <2>2
      <3> QED
        BY ONLY <1>c, <2>1, <2>2, <3>1
    <2>3. CASE ~(F < 0)
      <3>1. mid = [so EXCEPT !.f1 = F, !.h1 = cell.h, !.gap1 = cell.gap, !.max = max, !.at = at, !.H = G]
        BY <1>12, <1>e, <1>f, <2>3
      <3> QED
        BY ONLY <1>1, <1>c, <1>d, <2>1, <2>3, <3>1, max \in Nat, at \in Int
    <2> QED
      BY <2>2, <2>3
  <1>18. PICK gap \in BOOLEAN : gap <=> c # p[1]
    OBVIOUS
  <1>19. r = [mid EXCEPT !.f0 = IF mid.f0 < 0 /\ c = p[1] THEN off ELSE mid.f0, !.h0 = first,
                         !.c0 = IF c = p[1] THEN 1 ELSE 0, !.gap0 = gap, !.b = bonus, !.H = E]
    BY <1>8, <1>a, <1>14, <1>15, <1>17, <1>18 DEF WithFirst
  <1>20. /\ r \in TwoPlaces /\ r.H = E /\ r.h0 = first
         /\ r.f0 = IF mid.f0 < 0 /\ c = p[1] THEN off ELSE mid.f0
         /\ r.f1 = mid.f1 /\ r.h1 = mid.h1 /\ r.max = mid.max /\ r.at = mid.at
    <2>1. E \in Q
      BY <1>16, <1>b
    <2>2. PICK f0 \in Int : f0 = (IF mid.f0 < 0 /\ c = p[1] THEN off ELSE mid.f0)
      BY <1>17
    <2>3. r = [mid EXCEPT !.f0 = f0, !.h0 = first, !.c0 = one, !.gap0 = gap, !.b = bonus, !.H = E]
      BY <1>19, <1>a, <2>2
    <2>4. r \in [f0 : Int, f1 : Int, h0 : Nat, c0 : Nat, b : Nat, gap0 : BOOLEAN, h1 : Nat,
                gap1 : BOOLEAN, max : Nat, at : Int, H : Q]
      <3>1. one \in Nat
        OBVIOUS
      <3> QED
        BY ONLY <1>17, <2>1, <2>3, <3>1, f0 \in Int, first \in Nat, gap \in BOOLEAN, bonus \in Nat
    <2>5. r.H = E /\ r.h0 = first /\ r.f0 = f0 /\ r.f1 = mid.f1 /\ r.h1 = mid.h1 /\ r.max = mid.max /\ r.at = mid.at
      BY <1>17, <2>3
    <2> QED
      BY <1>b, <2>2, <2>4, <2>5 DEF TwoPlaces
  <1>21. PICK n : n = Len(so.H[1]) /\ n = Len(G[1])
    BY <1>13
  <1>22. /\ Len(r.H[1]) = n + 1 /\ r.H[1][n + 1].h = r.h0 /\ r.H[1][n + 1].c \in 0 .. 1
         /\ \A j \in 1 .. n : r.H[1][j] = so.H[1][j]
    <2>1. Len(r.H[1]) = n + 1 /\ r.H[1][n + 1] = y /\ \A j \in 1 .. n : r.H[1][j] = G[1][j]
      BY ONLY <1>16, <1>20, <1>21
    <2>2. \A j \in 1 .. n : G[1][j] = so.H[1][j]
      BY ONLY <1>13, <1>21
    <2>3. y.h = r.h0 /\ y.c \in 0 .. 1
      BY <1>14, <1>20
    <2> QED
      BY ONLY <2>1, <2>2, <2>3
  <1>23. PICK m : m = Len(so.H[2])
    OBVIOUS
  <1>24. Len(r.H[2]) = m + 1 /\ r.H[2][m + 1] = x /\ \A j \in 1 .. m : r.H[2][j] = so.H[2][j]
    BY <1>13, <1>16, <1>20, <1>23
  <1>25. r.f1 = F
    BY <1>c, <1>1, <1>17, <1>20 DEF f1
  <1>26. r.f1 < 0 => r.max = so.max
    BY <1>17, <1>20, <1>25
  <1>27. ASSUME r.f1 >= 0
         PROVE  /\ r.H[2][m + 1].h = r.h1
                /\ c = p[2] => r.h1 > so.h0
                /\ c # p[2] => r.h1 = 0 \/ (r.f1 # off /\ r.h1 < so.h1)
                /\ \/ r.max = so.max /\ r.at = so.at /\ r.h1 <= so.max
                   \/ r.max = r.h1 /\ r.at = off /\ r.h1 >= so.max
    <2>1. ~(F < 0)
      BY <1>1, <1>25, <1>27
    <2>2. r.h1 = cell.h /\ r.max = max /\ r.at = at
      BY <1>17, <1>20, <2>1
    <2>3. r.H[2][m + 1].h = r.h1
      <3>1. x.h = cell.h
        BY <1>9, <2>1
      <3> QED
        BY <1>24, <2>2, <3>1
    <2>4. c = p[2] => r.h1 > so.h0
      BY <1>3, <1>6, <2>2
    <2>5. c # p[2] => r.h1 = 0 \/ (r.f1 # off /\ r.h1 < so.h1)
      BY <1>3, <1>4, <1>6, <1>25, <2>2
    <2>6. CASE better
      <3>1. cell.h >= so.max
        BY <1>c, <1>d, <1>11, <2>6 DEF Better
      <3> QED
        BY <1>e, <1>f, <2>2, <2>3, <2>4, <2>5, <2>6, <3>1
    <2>7. CASE ~better
      <3>1. cell.h <= so.max
        BY <1>c, <1>d, <1>11, <2>7 DEF Better
      <3> QED
        BY <1>e, <1>f, <2>2, <2>3, <2>4, <2>5, <2>7, <3>1
    <2> QED
      BY <2>6, <2>7
  <1>28. r.f0 = IF so.f0 < 0 /\ c = p[1] THEN off ELSE so.f0
    BY <1>17, <1>20
  <1>29. r.f1 = IF so.f0 >= 0 /\ c = p[2] /\ so.f1 < 0 THEN off ELSE so.f1
    BY <1>1, <1>25 DEF f1
  <1>30. (c = p[1] => r.h0 > 0) /\ (c # p[1] => r.h0 = 0 \/ r.h0 < so.h0)
    BY <1>2, <1>20
  <1>31. r \in TwoPlaces /\ Len(r.H) = 2
    BY <1>16, <1>20
  <1> QED
    BY <1>21, <1>22, <1>23, <1>24, <1>26, <1>27, <1>28, <1>29, <1>30, <1>31 DEF TwoGrown

\* The first row is as in the general algorithm, and the second from f1 on.
FirstKept(so, T, p, n) ==
  /\ Len(so.H) = 2 /\ Len(so.H[1]) = n /\ Len(so.H[2]) = n
  /\ \A j \in 1 .. n : /\ so.H[1][j].h \in Nat
                       /\ T[j] = p[1] => so.H[1][j].h > 0
                       /\ T[j] # p[1] => so.H[1][j].h = 0 \/ (j > 1 /\ so.H[1][j].h < so.H[1][j - 1].h)
  /\ IF n = 0 THEN so.h0 = 0 ELSE so.h0 = so.H[1][n].h
  /\ \/ so.f0 = -1 /\ ~Has(T, p, 1, 0, n)
     \/ so.f0 \in 0 .. n - 1 /\ T[so.f0 + 1] = p[1]
SecondKept(so, T, p, n) ==
  \/ so.f1 = -1 /\ so.max = 0 /\ ~Has(T, p, 2, 0, n)
  \/ /\ so.f1 \in 0 .. n - 1 /\ T[so.f1 + 1] = p[2] /\ so.f0 >= 0 /\ so.f0 < so.f1
     /\ \A j \in so.f1 + 1 .. n :
          /\ so.H[2][j].h \in Nat /\ so.H[2][j].h <= so.max
          /\ T[j] = p[2] => so.H[2][j].h > so.H[1][j - 1].h
          /\ T[j] # p[2] => so.H[2][j].h = 0 \/ so.H[2][j].h < so.H[2][j - 1].h
     /\ so.h1 = so.H[2][n].h
     /\ so.at \in so.f1 .. n - 1 /\ so.max = so.H[2][so.at + 1].h
TwoStates(T, p, n) == {so \in TwoPlaces : FirstKept(so, T, p, n) /\ SecondKept(so, T, p, n)}

\* The first row, with the next character
LEMMA FirstStaysKept ==
  ASSUME NEW T, NEW p, NEW n \in Nat, n > 0, NEW so \in TwoPlaces, FirstKept(so, T, p, n - 1),
         NEW r, TwoGrown(r, so, n - 1, T[n], p)
  PROVE  FirstKept(r, T, p, n)
  <1>1. PICK m : m = n - 1 /\ m \in Nat /\ m + 1 = n
    OBVIOUS
  <1>2. PICK G, H : G = so.H /\ H = r.H
    OBVIOUS
  <1>3. /\ Len(G) = 2 /\ Len(G[1]) = m /\ Len(G[2]) = m
        /\ Len(H) = 2 /\ Len(H[1]) = n /\ Len(H[2]) = n
        /\ H[1][n].h = r.h0 /\ r \in TwoPlaces /\ r.h0 \in Nat /\ so.h0 \in Nat
        /\ \A j \in 1 .. m : H[1][j] = G[1][j]
    BY <1>1, <1>2 DEF FirstKept, TwoGrown, TwoPlaces
  <1>4. ASSUME NEW j \in 1 .. n
        PROVE  /\ H[1][j].h \in Nat
               /\ T[j] = p[1] => H[1][j].h > 0
               /\ T[j] # p[1] => H[1][j].h = 0 \/ (j > 1 /\ H[1][j].h < H[1][j - 1].h)
    <2>1. CASE j = n
      <3>1. (T[n] = p[1] => r.h0 > 0) /\ (T[n] # p[1] => r.h0 = 0 \/ r.h0 < so.h0)
        BY DEF TwoGrown
      <3>2. CASE m = 0
        <4>1. so.h0 = 0
          BY <1>1, <3>2 DEF FirstKept
        <4> QED
          BY <1>3, <2>1, <3>1, <4>1
      <3>3. CASE m # 0
        <4>1. so.h0 = G[1][m].h
          BY <1>1, <1>2, <3>3 DEF FirstKept
        <4>2. j - 1 = m /\ m \in 1 .. m /\ H[1][m] = G[1][m]
          BY <1>1, <1>3, <2>1, <3>3
        <4> QED
          BY <1>1, <1>3, <2>1, <3>1, <3>3, <4>1, <4>2
      <3> QED
        BY <3>2, <3>3
    <2>2. CASE j # n
      <3>1. j \in 1 .. m /\ H[1][j] = G[1][j]
        BY <1>1, <1>3, <2>2
      <3>2. /\ G[1][j].h \in Nat
            /\ T[j] = p[1] => G[1][j].h > 0
            /\ T[j] # p[1] => G[1][j].h = 0 \/ (j > 1 /\ G[1][j].h < G[1][j - 1].h)
        BY <1>1, <1>2, <3>1 DEF FirstKept
      <3>3. CASE j = 1
        BY <3>1, <3>2, <3>3
      <3>4. CASE j # 1
        <4>1. j - 1 \in 1 .. m
          BY <1>1, <3>1, <3>4
        <4>2. H[1][j - 1] = G[1][j - 1]
          BY <1>3, <4>1
        <4> QED
          BY <3>1, <3>2, <4>2
      <3> QED
        BY <3>3, <3>4
    <2> QED
      BY <2>1, <2>2
  <1>5. \/ r.f0 = -1 /\ ~Has(T, p, 1, 0, n)
        \/ r.f0 \in 0 .. n - 1 /\ T[r.f0 + 1] = p[1]
    <2>1. r.f0 = IF so.f0 < 0 /\ T[n] = p[1] THEN n - 1 ELSE so.f0
      BY DEF TwoGrown
    <2>2. CASE so.f0 = -1 /\ ~Has(T, p, 1, 0, n - 1)
      <3>1. CASE T[n] = p[1]
        BY <1>1, <2>1, <2>2, <3>1
      <3>2. CASE T[n] # p[1]
        <4>1. ~Has(T, p, 0 + 1, 0, n - 1)
          BY <2>2
        <4>2. ~Has(T, p, 0 + 1, 0, n)
          <5>1. n \in Nat \ {0} /\ 0 \in Nat /\ T[n] # p[0 + 1]
            BY <3>2
          <5> QED
            BY <4>1, <5>1, HasNext
        <4> QED
          BY <2>1, <2>2, <3>2, <4>2
      <3> QED
        BY <3>1, <3>2
    <2>3. CASE so.f0 \in 0 .. (n - 1) - 1 /\ T[so.f0 + 1] = p[1]
      BY <2>1, <2>3
    <2> QED
      BY <2>2, <2>3 DEF FirstKept
  <1> QED
    BY <1>2, <1>3, <1>4, <1>5 DEF FirstKept

\* The second row, with the next character
LEMMA SecondStaysKept ==
  ASSUME NEW T, NEW p, NEW n \in Nat, n > 0, NEW so \in TwoPlaces,
         FirstKept(so, T, p, n - 1), SecondKept(so, T, p, n - 1),
         NEW r, TwoGrown(r, so, n - 1, T[n], p)
  PROVE  SecondKept(r, T, p, n)
  <1>1. PICK m : m = n - 1 /\ m \in Nat /\ m + 1 = n
    OBVIOUS
  <1>2. PICK G, H : G = so.H /\ H = r.H
    OBVIOUS
  <1>3. /\ Len(G[1]) = m /\ Len(G[2]) = m
        /\ r \in TwoPlaces /\ r.h1 \in Nat /\ so.h1 \in Nat /\ so.h0 \in Nat /\ so.max \in Nat /\ r.max \in Nat
        /\ \A j \in 1 .. m : H[1][j] = G[1][j] /\ H[2][j] = G[2][j]
    BY <1>1, <1>2 DEF FirstKept, TwoGrown, TwoPlaces
  <1>4. /\ r.f0 = IF so.f0 < 0 /\ T[n] = p[1] THEN m ELSE so.f0
        /\ r.f1 = IF so.f0 >= 0 /\ T[n] = p[2] /\ so.f1 < 0 THEN m ELSE so.f1
        /\ r.f1 < 0 => r.max = so.max
    BY <1>1 DEF TwoGrown
  <1>5. r.f1 >= 0 =>
          /\ H[2][n].h = r.h1
          /\ T[n] = p[2] => r.h1 > so.h0
          /\ T[n] # p[2] => r.h1 = 0 \/ (r.f1 # m /\ r.h1 < so.h1)
          /\ \/ r.max = so.max /\ r.at = so.at /\ r.h1 <= so.max
             \/ r.max = r.h1 /\ r.at = m /\ r.h1 >= so.max
    BY <1>1, <1>2, <1>3 DEF TwoGrown
  <1>6. so.h0 = IF m = 0 THEN 0 ELSE G[1][m].h
    BY <1>1, <1>2 DEF FirstKept
  <1>7. \/ so.f0 = -1 /\ ~Has(T, p, 1, 0, m)
        \/ so.f0 \in 0 .. m - 1 /\ T[so.f0 + 1] = p[1]
    BY <1>1 DEF FirstKept
  <1>8. CASE so.f1 = -1 /\ so.max = 0 /\ ~Has(T, p, 2, 0, m)
    <2>1. CASE so.f0 >= 0 /\ T[n] = p[2]
      <3>1. r.f1 = m /\ r.f0 = so.f0 /\ so.f0 \in 0 .. m - 1
        BY <1>1, <1>4, <1>7, <1>8, <2>1
      <3>2. r.h1 > so.h0 /\ H[2][n].h = r.h1 /\ r.max = r.h1 /\ r.at = m
        BY <1>1, <1>3, <1>5, <1>8, <2>1, <3>1
      <3>3. so.h0 = H[1][m].h
        BY <1>1, <1>3, <1>6, <3>1
      <3>4. \A j \in m + 1 .. n : j = n /\ j - 1 = m
        BY <1>1
      <3>5. r.at + 1 = n /\ T[r.f1 + 1] = p[2]
        BY <1>1, <2>1, <3>1, <3>2
      <3>6. \A j \in r.f1 + 1 .. n :
              /\ H[2][j].h \in Nat /\ H[2][j].h <= r.max
              /\ T[j] = p[2] => H[2][j].h > H[1][j - 1].h
              /\ T[j] # p[2] => H[2][j].h = 0 \/ H[2][j].h < H[2][j - 1].h
        BY <1>3, <2>1, <3>1, <3>2, <3>3, <3>4
      <3>7. r.f1 \in 0 .. n - 1 /\ r.f0 >= 0 /\ r.f0 < r.f1 /\ r.at \in r.f1 .. n - 1
        BY <1>1, <3>1, <3>2
      <3> QED
        BY <1>2, <3>2, <3>5, <3>6, <3>7 DEF SecondKept
    <2>2. CASE ~(so.f0 >= 0 /\ T[n] = p[2])
      <3>1. r.f1 = -1 /\ r.max = 0
        BY <1>4, <1>8, <2>2
      <3>2. ~Has(T, p, 2, 0, n)
        <4>0. n \in Nat \ {0} /\ 1 \in Nat /\ 0 \in Nat /\ n - 1 = m
          BY <1>1
        <4>1. CASE so.f0 >= 0
          <5>1. T[n] # p[1 + 1] /\ ~Has(T, p, 1 + 1, 0, n - 1)
            BY <1>1, <1>8, <2>2, <4>1
          <5>2. ~Has(T, p, 1 + 1, 0, n)
            BY <4>0, <5>1, HasNext
          <5> QED
            BY <5>2
        <4>2. CASE ~(so.f0 >= 0)
          <5>1. ~Has(T, p, 0 + 1, 0, n - 1)
            BY <1>1, <1>7, <4>2
          <5>2. ~Has(T, p, 0 + 2, 0, n)
            BY <4>0, <5>1, HasNext
          <5> QED
            BY <5>2
        <4> QED
          BY <4>1, <4>2
      <3> QED
        BY <3>1, <3>2 DEF SecondKept
    <2> QED
      BY <2>1, <2>2
  <1>9. CASE /\ so.f1 \in 0 .. m - 1 /\ T[so.f1 + 1] = p[2] /\ so.f0 >= 0 /\ so.f0 < so.f1
             /\ \A j \in so.f1 + 1 .. m :
                  /\ G[2][j].h \in Nat /\ G[2][j].h <= so.max
                  /\ T[j] = p[2] => G[2][j].h > G[1][j - 1].h
                  /\ T[j] # p[2] => G[2][j].h = 0 \/ G[2][j].h < G[2][j - 1].h
             /\ so.h1 = G[2][m].h
             /\ so.at \in so.f1 .. m - 1 /\ so.max = G[2][so.at + 1].h
    <2>1. PICK f : f = so.f1 /\ f \in 0 .. m - 1 /\ r.f1 = f /\ f # m /\ r.f1 >= 0 /\ f \in Nat
      BY <1>1, <1>4, <1>9
    <2>2. r.f0 = so.f0 /\ m \in 1 .. m
      <3>1. so.f0 \in Int
        BY DEF TwoPlaces
      <3>2. m \in 1 .. m
        BY <1>1, <2>1
      <3> QED
        BY <1>4, <1>9, <3>1, <3>2
    <2>3. so.max <= r.max /\ r.h1 <= r.max
      BY <1>3, <1>5, <2>1
    <2>4. ASSUME NEW j \in f + 1 .. n
          PROVE  /\ H[2][j].h \in Nat /\ H[2][j].h <= r.max
                 /\ T[j] = p[2] => H[2][j].h > H[1][j - 1].h
                 /\ T[j] # p[2] => H[2][j].h = 0 \/ H[2][j].h < H[2][j - 1].h
      <3>1. CASE j = n
        <4>1. H[1][m] = G[1][m] /\ H[2][m] = G[2][m] /\ j - 1 = m /\ so.h0 = G[1][m].h /\ so.h1 = G[2][m].h
          BY <1>1, <1>3, <1>6, <1>9, <2>2, <3>1
        <4> QED
          BY <1>3, <1>5, <2>1, <2>3, <3>1, <4>1
      <3>2. CASE j # n
        <4>1. j \in f + 1 .. m /\ j \in 1 .. m
          BY <1>1, <2>1, <3>2
        <4>2. /\ G[2][j].h \in Nat /\ G[2][j].h <= so.max
              /\ T[j] = p[2] => G[2][j].h > G[1][j - 1].h
              /\ T[j] # p[2] => G[2][j].h = 0 \/ G[2][j].h < G[2][j - 1].h
          BY <1>9, <2>1, <4>1
        <4>3. G[2][j].h <= r.max
          BY <1>3, <2>3, <4>2
        <4>4. CASE j = 1
          <5>1. f = 0
            BY <2>1, <4>1, <4>4
          <5> QED
            <6>1. so.f0 \in Int
              BY DEF TwoPlaces
            <6>2. so.f0 >= 0 /\ so.f0 < 0
              BY <1>9, <2>1, <5>1
            <6> QED
              BY ONLY <6>1, <6>2
        <4>5. CASE j # 1
          <5>1. j - 1 \in 1 .. m
            BY <1>1, <4>1, <4>5
          <5>2. H[1][j - 1] = G[1][j - 1] /\ H[2][j - 1] = G[2][j - 1] /\ H[2][j] = G[2][j]
            BY <1>3, <4>1, <5>1
          <5> QED
            BY <4>2, <4>3, <5>2
        <4> QED
          BY <4>4, <4>5
      <3> QED
        BY <3>1, <3>2
    <2>5. r.at \in f .. n - 1 /\ r.max = H[2][r.at + 1].h
      <3>1. CASE r.max = so.max /\ r.at = so.at
        <4>1. so.at + 1 \in 1 .. m /\ so.at \in f .. n - 1
          BY <1>1, <1>9, <2>1
        <4> QED
          BY <1>3, <1>9, <3>1, <4>1
      <3>2. CASE r.max = r.h1 /\ r.at = m
        BY <1>1, <1>5, <2>1, <3>2
      <3> QED
        BY <1>5, <2>1, <3>1, <3>2
    <2>6. r.h1 = H[2][n].h /\ T[r.f1 + 1] = p[2] /\ r.f0 >= 0 /\ r.f0 < r.f1 /\ r.f1 \in 0 .. n - 1
      BY <1>1, <1>5, <1>9, <2>1, <2>2
    <2> QED
      BY <1>2, <2>1, <2>4, <2>5, <2>6 DEF SecondKept
  <1> QED
    BY <1>1, <1>2, <1>8, <1>9 DEF SecondKept

\* The single pass for two characters finds what there is.
LEMMA TwoIs ==
  ASSUME NEW p, Len(p) = 2, NEW text, NEW o, NEW from \in Nat, NEW to \in Nat, from <= to,
         NEW t, NEW T,
         \A n \in 1 .. to - from : T[n] = Folded(At(text, from + n - 1), o) /\ t[from + n] = T[n],
         NEW r, r = FuzzyMatchV2Two(text, p, from, to, o)
  PROVE  IsResult(r, t, p, from, to)
  <1>1. PICK N : N = to - from /\ N \in Nat
    OBVIOUS
  <1> DEFINE S(n) == TwoStates(T, p, n)
             Grow(n, so) == TwoAt(so, n - 1, Folded(At(text, from + n - 1), o),
                                  BonusFrom(text, from + n - 1, from, o), p, o)
             Made(f) == f = [n \in 0 .. to - from |-> IF n = 0 THEN NoPlace ELSE Grow(n, f[n - 1])]
             pass == CHOOSE f : Made(f)
  <1>2. NoPlace \in S(0)
    <2>1. PICK x : x = NoPlace
      OBVIOUS
    <2>a. PICK V, e : V = Seq(TwoCells) /\ e = <<>>
      OBVIOUS
    <2>b. e \in V /\ Len(e) = 0
      BY <2>a, EmptySeq
    <2>c. PICK H : H = <<e, e>>
      OBVIOUS
    <2>2. H = <<<<>>, <<>>>> /\ H \in Seq(Seq(TwoCells)) /\ Len(H) = 2 /\ H[1] = e /\ H[2] = e
      <3>1. H \in Seq(V) /\ Len(H) = 2 /\ H[1] = e /\ H[2] = e
        BY <2>b, <2>c
      <3> QED
        BY <2>a, <2>c, <3>1
    <2>3. /\ x \in TwoPlaces /\ x.H = H /\ x.h0 = 0 /\ x.f0 = -1 /\ x.f1 = -1 /\ x.max = 0
      BY <2>1, <2>2 DEF NoPlace, TwoPlaces
    <2>4. Len(H[1]) = 0 /\ Len(H[2]) = 0
      BY <2>b, <2>2
    <2>5. ~Has(T, p, 1, 0, 0) /\ ~Has(T, p, 2, 0, 0)
      <3>1. ASSUME NEW K \in Nat \ {0}, Has(T, p, K, 0, 0) PROVE FALSE
        <4>1. PICK pos : Way(T, p, K, 0, 0, pos)
          BY <3>1 DEF Has
        <4>2. 1 \in 1 .. K
          OBVIOUS
        <4>3. pos[1] \in 0 .. 0 - 1
          BY <4>1, <4>2 DEF Way
        <4> QED
          BY <4>3
      <3> QED
        BY <3>1
    <2>6. FirstKept(x, T, p, 0)
      BY <2>2, <2>3, <2>4, <2>5 DEF FirstKept
    <2>7. SecondKept(x, T, p, 0)
      BY <2>3, <2>5 DEF SecondKept
    <2> QED
      BY <2>1, <2>3, <2>6, <2>7 DEF TwoStates
  <1>3. ASSUME NEW n \in 1 .. N, NEW so \in S(n - 1) PROVE Grow(n, so) \in S(n)
    <2>1. so \in TwoPlaces /\ FirstKept(so, T, p, n - 1) /\ SecondKept(so, T, p, n - 1)
      BY DEF TwoStates
    <2>2. PICK off : off = n - 1 /\ off \in Nat
      BY <1>1
    <2>3. PICK bonus \in Nat : bonus = BonusFrom(text, from + n - 1, from, o)
      BY BonusNat
    <2>4. PICK c : c = Folded(At(text, from + n - 1), o) /\ c = T[n]
      BY <1>1
    <2>5. PICK q : q = TwoAt(so, off, c, bonus, p, o) /\ q = Grow(n, so)
      BY <2>2, <2>3, <2>4
    <2> HIDE DEF Grow
    <2>6. Len(so.H) = 2
      BY <2>1 DEF FirstKept
    <2>7. TwoGrown(q, so, off, c, p)
      BY <2>1, <2>2, <2>5, <2>6, TwoAtIs
    <2>8. TwoGrown(q, so, n - 1, T[n], p)
      BY <2>2, <2>4, <2>7
    <2>9. n \in Nat /\ n > 0
      BY <1>1
    <2>10. FirstKept(q, T, p, n)
      BY <2>1, <2>8, <2>9, FirstStaysKept
    <2>11. SecondKept(q, T, p, n)
      BY <2>1, <2>8, <2>9, SecondStaysKept
    <2>12. q \in TwoPlaces
      BY <2>7 DEF TwoGrown
    <2> QED
      BY <2>5, <2>10, <2>11, <2>12 DEF TwoStates
  <1> HIDE DEF S, Grow
  <1>4. \E f : Made(f)
    <2>1. PICK U : U = [n \in 0 .. N |-> S(n)]
      OBVIOUS
    <2>2. PICK G : G = [n \in 1 .. N |-> [x \in S(n - 1) |-> Grow(n, x)]]
      OBVIOUS
    <2>3. PICK y0 : y0 = NoPlace
      OBVIOUS
    <2>4. y0 \in U[0]
      BY <1>1, <1>2, <2>1, <2>3
    <2>5. \A n \in 1 .. N : n - 1 \in 0 .. N /\ n \in 0 .. N /\ U[n - 1] = S(n - 1) /\ U[n] = S(n)
      BY <1>1, <2>1
    <2>6. \A n \in 1 .. N : \A x \in U[n - 1] : G[n][x] = Grow(n, x)
      BY <2>2, <2>5
    <2>7. \A n \in 1 .. N : \A x \in U[n - 1] : G[n][x] \in U[n]
      BY <1>3, <2>5, <2>6
    <2>8. PICK f : Recursive(f, 0, N, y0, G, U)
      BY <1>1, <2>4, <2>7, Recursion
    <2>9. ASSUME NEW n \in 1 .. N PROVE f[n] = Grow(n, f[n - 1])
      <3>1. f[n] = G[n][f[n - 1]]
        <4>1. n \in 0 + 1 .. N
          BY <1>1
        <4> QED
          BY <2>8, <4>1 DEF Recursive
      <3>2. f[n - 1] \in U[n - 1]
        BY <2>5, <2>8 DEF Recursive
      <3> QED
        BY <2>6, <3>1, <3>2
    <2>10. ASSUME NEW n \in 0 .. N PROVE f[n] = IF n = 0 THEN NoPlace ELSE Grow(n, f[n - 1])
      <3>1. f[0] = y0
        BY <2>8 DEF Recursive
      <3>2. n = 0 \/ n \in 1 .. N
        BY <1>1
      <3> QED
        BY <2>3, <2>9, <3>1, <3>2
    <2>11. f = [n \in 0 .. N |-> f[n]]
      BY <2>8 DEF Recursive
    <2>12. f = [n \in 0 .. N |-> IF n = 0 THEN NoPlace ELSE Grow(n, f[n - 1])]
      BY <2>10, <2>11
    <2> QED
      BY <1>1, <2>12
  <1>5. Made(pass)
    BY <1>4
  <1>6. pass[N] \in S(N)
    <2>1. PICK U : U = [n \in 0 .. N |-> S(n)]
      OBVIOUS
    <2>2. \A n \in 1 .. N : n - 1 \in 0 .. N /\ n \in 0 .. N /\ U[n - 1] = S(n - 1) /\ U[n] = S(n)
      BY <1>1, <2>1
    <2>3. pass[0] = NoPlace /\ \A n \in 1 .. N : pass[n] = Grow(n, pass[n - 1])
      <3>1. PICK f : f = pass
        OBVIOUS
      <3>2. f = [n \in 0 .. N |-> IF n = 0 THEN NoPlace ELSE Grow(n, f[n - 1])]
        BY <1>1, <3>1, <1>5
      <3> HIDE DEF pass
      <3>3. f[0] = NoPlace /\ \A n \in 1 .. N : f[n] = Grow(n, f[n - 1])
        <4>1. N \in Int /\ 0 \in Int /\ 0 <= N
          BY <1>1
        <4> QED
          BY ONLY <3>2, <4>1
      <3> QED
        BY <3>1, <3>3
    <2> HIDE DEF pass
    <2>4. pass[0] \in U[0] /\ \A n \in 1 .. N : pass[n - 1] \in U[n - 1] => pass[n] \in U[n]
      <3>1. pass[0] \in U[0]
        <4>1. U[0] = S(0)
          BY <1>1, <2>1
        <4> QED
          BY ONLY <1>2, <2>3, <4>1
      <3>2. ASSUME NEW n \in 1 .. N, pass[n - 1] \in U[n - 1] PROVE pass[n] \in U[n]
        <4>1. pass[n - 1] \in S(n - 1) /\ U[n] = S(n) /\ pass[n] = Grow(n, pass[n - 1])
          BY ONLY <2>2, <2>3, <3>2
        <4> QED
          BY ONLY <1>3, <4>1, n \in 1 .. N
      <3> QED
        BY ONLY <3>1, <3>2
    <2>5. \A n \in 0 .. N : pass[n] \in U[n]
      BY <1>1, <2>4, Throughout
    <2> QED
      BY <1>1, <2>1, <2>5
  <1>7. PICK so : so = pass[N]
    OBVIOUS
  <1>8. r = TwoFrom(so, from, to)
    BY <1>1, <1>7 DEF FuzzyMatchV2Two, Grow
  <1> HIDE DEF pass
  <1>9. so \in TwoPlaces /\ FirstKept(so, T, p, N) /\ SecondKept(so, T, p, N)
    BY <1>6, <1>7 DEF S, TwoStates
  <1>10. \A n \in 1 .. N : t[from + n] = T[n]
    BY <1>1
  <1>11. from + N = to
    BY <1>1
  <1>12. CASE so.f1 = -1 /\ so.max = 0 /\ ~Has(T, p, 2, 0, N)
    <2>1. r = NoMatch
      BY <1>8, <1>12 DEF TwoFrom
    <2>2. ~Has(t, p, 2, from, to)
      <3>1. ~Has(t, p, 2, from, from + N)
        <4>1. PICK K : K = 2 /\ K \in Nat
          OBVIOUS
        <4>2. ~Has(t, p, K, from, to)
          <5>1. ~Has(T, p, K, 0, N)
            BY <1>12, <4>1
          <5>2. to = from + N
            BY <1>11
          <5> QED
            BY ONLY <1>1, <1>10, from \in Nat, <4>1, <5>1, <5>2, HasShifted
        <4> QED
          BY <1>11, <4>1, <4>2
      <3> QED
        BY <1>11, <3>1
    <2> QED
      BY <2>1, <2>2 DEF IsResult
  <1>13. CASE so.f1 \in 0 .. N - 1
    <2>1. PICK H : H = so.H
      OBVIOUS
    <2>2. PICK f0, f1, at : f0 = so.f0 + 1 /\ f1 = so.f1 + 1 /\ at = so.at + 1
      OBVIOUS
    <2>3. so.f0 \in Int /\ so.f1 \in Int /\ so.f1 # -1 /\ ~(so.f1 < 0)
      <3>1. so.f0 \in Int /\ so.f1 \in Int
        BY <1>9 DEF TwoPlaces
      <3> QED
        BY <1>1, <1>13, <3>1
    <2>4. /\ T[so.f1 + 1] = p[2] /\ so.f0 >= 0 /\ so.f0 < so.f1
          /\ \A j \in so.f1 + 1 .. N :
               /\ H[2][j].h \in Nat /\ H[2][j].h <= so.max
               /\ T[j] = p[2] => H[2][j].h > H[1][j - 1].h
               /\ T[j] # p[2] => H[2][j].h = 0 \/ H[2][j].h < H[2][j - 1].h
          /\ so.at \in so.f1 .. N - 1 /\ so.max = H[2][so.at + 1].h
      BY <1>9, <2>1, <2>3 DEF SecondKept
    <2>5. T[so.f0 + 1] = p[1]
      BY <1>9, <2>4 DEF FirstKept
    <2>6. Len(H) = 2
      BY <1>9, <2>1 DEF FirstKept
    <2>7. /\ f0 \in 1 .. N /\ f1 \in 1 .. N /\ f0 < f1 /\ T[f0] = p[1] /\ T[f1] = p[2]
          /\ at \in f1 .. N /\ at \in Nat /\ so.max = H[2][at].h
      BY <1>1, <1>13, <2>2, <2>3, <2>4, <2>5
    <2>a. PICK F : F = <<f0, f1>>
      OBVIOUS
    <2>8. F = <<f0, f1>> /\ F[1] = f0 /\ F[2] = f1
      BY <2>a
    <2>9. \A i \in 1 .. 2 : i = 1 \/ i = 2
      OBVIOUS
    <2>10. \A i \in 1 .. 2 : F[i] \in 1 .. N /\ T[F[i]] = p[i] /\ (i > 1 => F[i - 1] < F[i])
      BY <2>7, <2>8, <2>9
    <2>11. ASSUME NEW i \in 1 .. 2, NEW j \in F[i] .. N
           PROVE  /\ H[i][j].h \in Nat
                  /\ T[j] # p[i] => H[i][j].h = 0 \/ H[i][j].h < H[i][j - 1].h
                  /\ T[j] = p[i] => IF i = 1 THEN H[i][j].h > 0 ELSE H[i][j].h > H[i - 1][j - 1].h
      <3>1. CASE i = 1
        <4>1. j \in 1 .. N
          BY <1>1, <2>7, <2>8, <3>1
        <4>2. /\ H[1][j].h \in Nat
              /\ T[j] = p[1] => H[1][j].h > 0
              /\ T[j] # p[1] => H[1][j].h = 0 \/ (j > 1 /\ H[1][j].h < H[1][j - 1].h)
          BY <1>9, <2>1, <4>1 DEF FirstKept
        <4> QED
          BY <3>1, <4>2
      <3>2. CASE i = 2
        <4>1. j \in so.f1 + 1 .. N
          BY <2>2, <2>8, <3>2
        <4>2. /\ H[2][j].h \in Nat
              /\ T[j] = p[2] => H[2][j].h > H[1][j - 1].h
              /\ T[j] # p[2] => H[2][j].h = 0 \/ H[2][j].h < H[2][j - 1].h
          BY <2>4, <4>1
        <4> QED
          BY <3>2, <4>2
      <3> QED
        BY <2>9, <3>1, <3>2
    <2>12. PICK K : K = 2 /\ K \in Nat \ {0} /\ K = Len(p) /\ Len(H) = K
      BY <2>6
    <2>13. IsMatrix(H, F, T, p, K, N)
      BY <2>10, <2>11, <2>12 DEF IsMatrix
    <2>14. IsBestEnd(H, F, K, N, at)
      <3>1. \A j \in F[2] .. N : H[2][j].h <= H[2][at].h
        BY <2>2, <2>4, <2>7, <2>8
      <3> QED
        BY <2>7, <2>8, <2>12, <3>1 DEF IsBestEnd
    <2>15. PICK trace : trace = Backtrace(H, F, at, N)
      OBVIOUS
    <2>16. IsTrace(trace, T, p, K, N, at)
      BY <1>1, <2>7, <2>12, <2>13, <2>14, <2>15, BacktraceIs
    <2>17. r = Traced(trace, from, at, so.max)
      BY <1>1, <1>8, <2>1, <2>2, <2>3, <2>8, <2>15 DEF TwoFrom
    <2>18. N \in 0 .. N /\ to = from + N
      BY <1>1
    <2> QED
      BY ONLY <1>1, <1>10, from \in Nat, <2>12, <2>16, <2>17, <2>18, TracedIs
  <1> QED
    BY <1>9, <1>12, <1>13 DEF SecondKept

-----------------------------------------------------------------------------
(* The algorithms together *)

\* A longer pattern than the text is nowhere in it.
LEMMA TooLong ==
  ASSUME NEW t, NEW p, NEW K \in Nat, NEW n \in Nat, n < K
  PROVE  ~Has(t, p, K, 0, n)
  <1> SUFFICES ASSUME NEW pos, Way(t, p, K, 0, n, pos) PROVE FALSE
    BY DEF Has
  <1>1. \A k \in 1 .. K : pos[k] \in 0 .. n - 1 /\ \A i \in 1 .. K : i < k => pos[i] < pos[k]
    BY DEF Way
  <1> DEFINE Bad == {k \in 1 .. K : ~(pos[k] >= k - 1)}
  <1>2. Bad = {}
    <2> SUFFICES ASSUME Bad # {} PROVE FALSE
      OBVIOUS
    <2>1. PICK k \in Bad : \A j \in Bad : k <= j
      <3>1. Bad \in SUBSET Nat
        OBVIOUS
      <3> HIDE DEF Bad
      <3> QED
        BY <3>1, LeastNat
    <2>2. k \in 1 .. K /\ ~(pos[k] >= k - 1) /\ pos[k] \in 0 .. n - 1
      BY <1>1
    <2>3. PICK j : j = k - 1 /\ j \in 1 .. K /\ ~(k <= j) /\ j < k
      BY <2>2
    <2>4. j \notin Bad /\ pos[j] \in 0 .. n - 1 /\ pos[j] < pos[k]
      BY <1>1, <2>1, <2>2, <2>3
    <2>5. pos[j] >= j - 1
      BY <2>3, <2>4
    <2> QED
      BY <2>2, <2>3, <2>4, <2>5
  <1>3. K \in 1 .. K /\ K \notin Bad
    BY <1>2
  <1> QED
    BY <1>1, <1>3

\* A result in the scope that has all the ways is one in the whole text.
LEMMA ResultOfScope ==
  ASSUME NEW t, NEW p, NEW n \in Nat, NEW from \in 0 .. n, NEW to \in from .. n, NEW r,
         IsResult(r, t, p, from, to),
         \A pos : Way(t, p, Len(p), 0, n, pos) => Way(t, p, Len(p), from, to, pos)
  PROVE  IsResult(r, t, p, 0, n)
  <1>1. CASE ~Has(t, p, Len(p), from, to) /\ r = NoMatch
    BY <1>1 DEF IsResult, Has
  <1>2. CASE /\ Way(t, p, Len(p), from, to, r.pos)
             /\ r.pos = [k \in 1 .. Len(p) |-> r.pos[k]]
             /\ r.start = r.pos[1] /\ r.end = r.pos[Len(p)] + 1
    <2>1. \A x \in from .. to - 1 : x \in 0 .. n - 1
      OBVIOUS
    <2>2. Way(t, p, Len(p), 0, n, r.pos)
      BY <1>2, <2>1 DEF Way
    <2> QED
      BY <1>2, <2>2 DEF IsResult
  <1> QED
    BY <1>1, <1>2 DEF IsResult

\* FuzzyMatchV2 finds the pattern if it is in the text, and tells where.
LEMMA V2Is ==
  ASSUME NEW B, NEW text \in Seq(B), NEW o, NEW p \in Seq(PatternChars(o)), p # <<>>,
         NEW t, t = [i \in DOMAIN text |-> Folded(text[i], o)],
         NEW r, r = FuzzyMatchV2(text, p, o)
  PROVE  IsResult(r, t, p, 0, Len(text))
  <1>1. PICK n, K : n = Len(text) /\ K = Len(p) /\ n \in Nat /\ K \in Nat \ {0}
    BY EmptySeq
  <1>2. \A i \in 1 .. n : t[i] = Folded(text[i], o)
    BY <1>1
  <1>3. CASE K > n
    <2>1. r = NoMatch
      BY <1>1, <1>3 DEF FuzzyMatchV2
    <2>2. ~Has(t, p, K, 0, n)
      BY <1>1, <1>3, TooLong
    <2> QED
      BY <1>1, <2>1, <2>2 DEF IsResult
  <1>4. CASE ~(K > n) /\ K = 1 /\ IsBytes(text) /\ Ascii(p)
    <2>1. PICK c : c = p[1] /\ c \in PatternChars(o)
      BY <1>1, <1>4
    <2>2. r = BestOf(text, c, 0, n, o)
      <3>1. r = FuzzyMatchV2Single(text, c, o)
        BY <1>1, <1>4, <2>1 DEF FuzzyMatchV2
      <3> QED
        BY <1>1, <1>4, <2>1, <3>1, SingleIsBest
    <2>3. PICK H : H = PlacesOf(text, c, 0, n, o)
      OBVIOUS
    <2>4. IsPlace(r, H)
      BY <1>1, <2>2, <2>3, BestOfIs
    <2>5. \A i \in 0 .. n - 1 : i \in H <=> t[i + 1] = p[1]
      <3>1. ASSUME NEW i \in 0 .. n - 1 PROVE i \in H <=> t[i + 1] = p[1]
        <4>1. PICK x : x = i + 1 /\ x \in 1 .. n
          BY <1>1
        <4> QED
          BY <1>2, <2>1, <2>3, <4>1 DEF PlacesOf, At
      <3> QED
        BY <3>1
    <2>6. H \subseteq 0 .. n - 1
      BY <2>3 DEF PlacesOf
    <2>7. CASE H = {} /\ r = NoMatch
      <3>1. ~Has(t, p, K, 0, n)
        <4>1. 1 \in 1 .. K
          BY <1>1
        <4> QED
          BY <2>5, <2>7, <4>1 DEF Has, Way
      <3> QED
        BY <1>1, <2>7, <3>1 DEF IsResult
    <2>8. CASE \E a \in H : r.start = a /\ r.end = a + 1 /\ r.pos = <<a>>
      <3>1. PICK a \in H : r.start = a /\ r.end = a + 1 /\ r.pos = <<a>>
        BY <2>8
      <3>2. a \in 0 .. n - 1 /\ t[a + 1] = p[1]
        BY <2>5, <2>6
      <3>3. \A k \in 1 .. K : k = 1
        BY <1>4
      <3>4. PICK pos : pos = <<a>>
        OBVIOUS
      <3>5. pos[1] = a /\ pos = [k \in 1 .. K |-> pos[k]] /\ K = 1
        BY <1>4, <3>4
      <3>6. Way(t, p, K, 0, n, pos)
        <4>1. \A i, k \in 1 .. K : ~(i < k)
          BY <1>4
        <4> QED
          BY <3>2, <3>3, <3>5, <4>1 DEF Way
      <3>7. r.pos = pos /\ r.start = pos[1] /\ r.end = pos[K] + 1
        BY <3>1, <3>4, <3>5
      <3> QED
        BY <1>1, <3>5, <3>6, <3>7 DEF IsResult
    <2> QED
      BY <2>4, <2>7, <2>8 DEF IsPlace
  <1>5. CASE ~(K > n) /\ ~(K = 1 /\ IsBytes(text) /\ Ascii(p))
    <2>1. PICK scope : scope = AsciiFuzzyIndex(text, p, o)
      OBVIOUS
    <2>2. r = FuzzyIn(text, p, scope, o)
      BY <1>1, <1>5, <2>1 DEF FuzzyMatchV2
    <2>3. /\ scope.from = -1 \/ (scope.from \in 0 .. n /\ scope.to \in scope.from .. n)
          /\ \A pos : Way(t, p, K, 0, n, pos) => scope.from >= 0 /\ Way(t, p, K, scope.from, scope.to, pos)
      BY <1>1, <2>1, FilterKeeps
    <2>4. CASE scope.from = -1
      <3>1. r = NoMatch
        BY <2>2, <2>4 DEF FuzzyIn
      <3>2. ~Has(t, p, K, 0, n)
        BY <2>3, <2>4 DEF Has
      <3> QED
        BY <1>1, <3>1, <3>2 DEF IsResult
    <2>5. CASE scope.from \in 0 .. n /\ scope.to \in scope.from .. n
      <3>1. PICK from, to : from = scope.from /\ to = scope.to
        OBVIOUS
      <3>2. /\ from \in 0 .. n /\ to \in from .. n /\ from \in Nat /\ to \in Nat /\ from <= to
            /\ \A pos : Way(t, p, K, 0, n, pos) => Way(t, p, K, from, to, pos)
        BY <1>1, <2>3, <2>5, <3>1
      <3>3. PICK T : T = [m \in 1 .. to - from |-> Folded(At(text, from + m - 1), o)]
        OBVIOUS
      <3>4. PICK N : N = to - from /\ N \in Nat /\ to = from + N
        BY <3>2
      <3>5. ASSUME NEW m \in 1 .. N
            PROVE  T[m] = Folded(At(text, from + m - 1), o) /\ t[from + m] = T[m]
        <4>1. T[m] = Folded(At(text, from + m - 1), o)
          BY <3>3, <3>4
        <4>2. PICK x : x = from + m
          OBVIOUS
        <4>3. x \in 1 .. n /\ x - 1 + 1 = x
          BY <1>1, <3>2, <3>4, <4>2
        <4>4. At(text, x - 1) = text[x]
          BY <4>3 DEF At
        <4>5. from + m - 1 = x - 1
          BY <3>2, <3>4, <4>2
        <4>6. t[x] = Folded(text[x], o)
          BY <1>2, <4>3
        <4> QED
          BY <4>1, <4>2, <4>4, <4>5, <4>6
      <3>6. IsResult(r, t, p, from, to)
        <4>1. CASE K = 2 /\ IsBytes(text) /\ Ascii(p)
          <5>1. r = FuzzyMatchV2Two(text, p, from, to, o)
            BY <1>1, <2>2, <2>5, <3>1, <4>1 DEF FuzzyIn
          <5>2. Len(p) = 2
            BY <1>1, <4>1
          <5>3. \A m \in 1 .. to - from : T[m] = Folded(At(text, from + m - 1), o) /\ t[from + m] = T[m]
            BY <3>4, <3>5
          <5> QED
            BY <3>2, <5>1, <5>2, <5>3, TwoIs
        <4>2. CASE ~(K = 2 /\ IsBytes(text) /\ Ascii(p))
          <5>1. r = GeneralFrom(text, T, p, from, o)
            BY <1>1, <2>2, <2>5, <3>1, <3>3, <4>2 DEF FuzzyIn, GeneralMatch
          <5>2. PICK A : A = {T[m] : m \in 1 .. N} \cup PatternChars(o)
            OBVIOUS
          <5>3. T \in Seq(A) /\ Len(T) = N
            <6>1. \A m \in 1 .. N : Folded(At(text, from + m - 1), o) \in A
              BY <3>5, <5>2
            <6>2. PICK e : e = [m \in 1 .. N |-> Folded(At(text, from + m - 1), o)]
              OBVIOUS
            <6>3. \A m \in 1 .. N : e[m] \in A
              BY <6>1, <6>2
            <6>4. e \in [1 .. N -> A]
              BY ONLY <6>2, <6>3
            <6>5. e \in Seq(A) /\ Len(e) = N
              <7>1. e \in Seq(A)
                BY ONLY <3>4, <6>4, SeqDef
              <7>2. DOMAIN e = 1 .. N /\ DOMAIN e = 1 .. Len(e) /\ Len(e) \in Nat
                BY <6>4, <7>1, LenProperties
              <7> QED
                BY <3>4, <7>1, <7>2
            <6> QED
              BY <3>3, <3>4, <6>2, <6>5
          <5>4. p \in Seq(A)
            BY <5>2
          <5>5. IsResult(r, t, p, from, from + Len(T))
            BY <3>2, <3>5, <5>1, <5>3, <5>4, GeneralFromIs
          <5> QED
            BY <3>4, <5>3, <5>5
        <4> QED
          BY <4>1, <4>2
      <3> QED
        BY <1>1, <3>2, <3>6, ResultOfScope
    <2> QED
      BY <2>3, <2>4, <2>5
  <1> QED
    BY <1>1, <1>3, <1>4, <1>5

\* What V2 promises
V2Sound ==
  \E v2 \in {FuzzyMatchV2(probe.text, probe.pattern, probe.o)} :
    IF Embeds(0, Len(probe.text))
    THEN /\ v2.pos \in Embeddings(0, Len(probe.text))
         /\ v2.start = v2.pos[1] /\ v2.end = v2.pos[Len(probe.pattern)] + 1
    ELSE v2 = NoMatch

\* FuzzyMatchV2 finds a match exactly if there is one, and its positions are one.
LEMMA V2IsSound ==
  ASSUME ProbeTyped, probe.pattern # <<>>
  PROVE  V2Sound
  <1>1. PICK text, p, o : text = probe.text /\ p = probe.pattern /\ o = probe.o
    OBVIOUS
  <1>2. PICK n, K, t : n = Len(text) /\ K = Len(p) /\ n \in Nat /\ K \in Nat \ {0} /\ t = FoldedText
    BY <1>1, EmptySeq DEF ProbeTyped
  <1>3. t = [i \in DOMAIN text |-> Folded(text[i], o)] /\ text \in Seq(TextChars) /\ p \in Seq(PatternChars(o))
    BY <1>1, <1>2 DEF FoldedText, ProbeTyped
  <1>4. PICK r : r = FuzzyMatchV2(text, p, o)
    OBVIOUS
  <1>5. IsResult(r, t, p, 0, n)
    BY <1>1, <1>2, <1>3, <1>4, V2Is
  <1>6. /\ \A pos : Way(t, p, K, 0, n, pos) => [k \in 1 .. K |-> pos[k]] \in Embeddings(0, n)
        /\ Embeds(0, n) <=> Has(t, p, K, 0, n)
    <2>1. 0 \in Nat /\ n \in Int /\ n <= n
      BY <1>2
    <2> QED
      BY <1>1, <1>2, <2>1, EmbeddingsAre
  <1>7. CASE ~Has(t, p, K, 0, n) /\ r = NoMatch
    BY <1>1, <1>2, <1>4, <1>6, <1>7 DEF V2Sound
  <1>8. CASE /\ Way(t, p, K, 0, n, r.pos)
             /\ r.pos = [k \in 1 .. K |-> r.pos[k]]
             /\ r.start = r.pos[1] /\ r.end = r.pos[K] + 1
    <2>1. PICK pos : pos = r.pos
      OBVIOUS
    <2>2. pos \in Embeddings(0, n)
      <3>1. pos = [k \in 1 .. K |-> pos[k]] /\ Way(t, p, K, 0, n, pos)
        BY <1>8, <2>1
      <3> QED
        BY <1>6, <3>1
    <2>3. Embeds(0, n)
      BY <1>6, <1>8 DEF Has
    <2> QED
      BY <1>1, <1>2, <1>4, <1>8, <2>1, <2>2, <2>3 DEF V2Sound
  <1> QED
    BY <1>2, <1>5, <1>7, <1>8 DEF IsResult

\* The texts and patterns that are probed
Probes == [on : BOOLEAN, text : Seq(TextChars), pattern : Seq(TextChars), o : Options]
ProbeInv == probe \in Probes /\ ProbeTyped

\* What is read and typed stays a text and a pattern.
LEMMA ProbeInvHolds == ProbeSpec => []ProbeInv
  <1>1. InitProbe => ProbeInv
    <2> SUFFICES ASSUME InitProbe PROVE ProbeInv
      OBVIOUS
    <2>1. PICK o \in Options : probe = [on |-> TRUE, text |-> <<>>, pattern |-> <<>>, o |-> o]
      BY DEF InitProbe
    <2>2. \A S : <<>> \in Seq(S)
      BY EmptySeq
    <2> QED
      BY <2>1, <2>2 DEF ProbeInv, Probes, ProbeTyped
  <1>2. ProbeInv /\ [NextProbe]_probe => ProbeInv'
    <2> SUFFICES ASSUME ProbeInv, [NextProbe]_probe PROVE ProbeInv'
      OBVIOUS
    <2>1. probe \in Probes /\ ProbeTyped
      BY DEF ProbeInv
    <2>2. CASE Read
      <3>1. PICK c \in TextChars : probe' = [probe EXCEPT !.text = Append(@, c)]
        BY <2>2 DEF Read
      <3>a. PICK text : text = Append(probe.text, c)
        OBVIOUS
      <3>b. probe' = [probe EXCEPT !.text = text] /\ text \in Seq(TextChars)
        BY <2>1, <3>1, <3>a DEF ProbeTyped
      <3>2. /\ probe' \in Probes /\ probe'.text = Append(probe.text, c)
            /\ probe'.pattern = probe.pattern /\ probe'.o = probe.o
        BY <2>1, <3>a, <3>b DEF Probes
      <3>3. probe'.text \in Seq(TextChars)
        BY <2>1, <3>2 DEF ProbeTyped
      <3> QED
        BY <2>1, <3>2, <3>3 DEF ProbeInv, ProbeTyped, PatternChars
    <2>3. CASE Type
      <3>1. PICK c \in PatternChars(probe.o) : probe' = [probe EXCEPT !.pattern = Append(@, c)]
        BY <2>3 DEF Type
      <3>2. c \in TextChars
        BY <3>1 DEF PatternChars
      <3>3. /\ probe' \in Probes /\ probe'.pattern = Append(probe.pattern, c)
            /\ probe'.text = probe.text /\ probe'.o = probe.o
        BY <2>1, <3>1, <3>2 DEF Probes
      <3>4. probe'.pattern \in Seq(PatternChars(probe.o))
        BY <2>1, <3>1, <3>3 DEF ProbeTyped
      <3>5. PatternChars(probe.o)' = PatternChars(probe.o)
        BY <3>3 DEF PatternChars
      <3> QED
        BY <2>1, <3>3, <3>4, <3>5 DEF ProbeInv, ProbeTyped
    <2>4. CASE UNCHANGED probe
      BY <2>1, <2>4 DEF ProbeInv, ProbeTyped, PatternChars
    <2> QED
      BY <2>2, <2>3, <2>4 DEF NextProbe
  <1> QED
    BY <1>1, <1>2, PTL DEF ProbeSpec

\* Whatever the text, the pattern and the options: an algorithm finds a match exactly if there is
\* one, and what it reports is one; V1's cannot be shortened.
THEOREM MatchesAreSound == ProbeSpec => []MatchSound
  <1>1. ProbeInv => MatchSound
    <2> SUFFICES ASSUME ProbeTyped, probe.pattern # <<>> PROVE MatchSound
      BY DEF ProbeInv, MatchSound
    <2>1. V1Sound /\ V2Sound /\ ExactSound
      BY V1IsSound, V2IsSound, ExactMatchesAreSound
    <2>2. PICK v1 : v1 = FuzzyMatchV1(probe.text, probe.pattern, probe.o)
      OBVIOUS
    <2>3. PICK v2 : v2 = FuzzyMatchV2(probe.text, probe.pattern, probe.o)
      OBVIOUS
    <2>4. IF Embeds(0, Len(probe.text))
          THEN /\ Embeds(v1.start, v1.end) /\ ~Embeds(v1.start + 1, v1.end) /\ ~Embeds(v1.start, v1.end - 1)
               /\ IF probe.o.forward THEN ~Embeds(0, v1.end - 1) ELSE ~Embeds(v1.start + 1, Len(probe.text))
          ELSE v1 = NoMatch
      BY <2>1, <2>2 DEF V1Sound
    <2>5. IF Embeds(0, Len(probe.text))
          THEN /\ v2.pos \in Embeddings(0, Len(probe.text))
               /\ v2.start = v2.pos[1] /\ v2.end = v2.pos[Len(probe.pattern)] + 1
          ELSE v2 = NoMatch
      BY <2>1, <2>3 DEF V2Sound
    <2> QED
      BY <2>1, <2>2, <2>3, <2>4, <2>5 DEF MatchSound, ExactSound
  <1> QED
    BY <1>1, ProbeInvHolds, PTL
=============================================================================
