--------------------------- MODULE ChunkListProofs -------------------------
(***************************************************************************)
(* Proofs about ChunkList.tla, for every chunk size and every --tail: what *)
(* a snapshot shows never changes, a chunk whose bitmaps are in the cache  *)
(* is never written again, CountItems counts right, and a new snapshot     *)
(* shows the last items of the list.                                       *)
(*                                                                         *)
(* The last one needs what the list's items are, one chunk after another:  *)
(* FlattenSeq is pinned down by where it puts each item (FlatUnique), and  *)
(* CutFlat says what cutting its first chunk leaves.                       *)
(***************************************************************************)
EXTENDS ChunkList, NatLemmas, SequenceTheorems

\* Only full chunks are cached, and Push never writes to a full one.
CachedFull == \A c \in cached : IsFull(c)

\* The inductive invariant. SnapshotsImmutable needs LastPrivate (the chunk
\* being filled is in no snapshot), which is part of ListShape.
IInv ==
  /\ TypeOK
  /\ ListShape
  /\ CachedFull
  /\ SnapshotsImmutable
  /\ CountIsRight

\* Heap h holds every chunk of heap g, unchanged.
Extends(g, h) ==
  /\ h \in Seq(Seq(Nat))
  /\ Len(g) <= Len(h)
  /\ \A c \in DOMAIN g : c \in DOMAIN h /\ h[c] = g[c]

\* Pointers to chunks that are not empty, all full but the first and the last.
WellFilled(h, cs) ==
  /\ cs \in Seq(DOMAIN h)
  /\ \A i \in DOMAIN cs : Len(h[cs[i]]) \in 1 .. ChunkSize
  /\ \A i \in 2 .. Len(cs) - 1 : Len(h[cs[i]]) = ChunkSize

Distinct(cs) == \A i, j \in DOMAIN cs : cs[i] = cs[j] => i = j

-----------------------------------------------------------------------------
\* The offsets are the partial sums of the chunks' sizes.
LEMMA OffsetDef ==
  ASSUME NEW h \in Seq(Seq(Nat)), NEW cs \in Seq(DOMAIN h)
  PROVE  /\ Offset(h, cs) \in [0 .. Len(cs) -> Nat]
         /\ Offset(h, cs)[0] = 0
         /\ \A i \in 1 .. Len(cs) : Offset(h, cs)[i] = Offset(h, cs)[i - 1] + Len(h[cs[i]])
  <1> DEFINE n == Len(cs)
             len == [i \in 1 .. n |-> Len(h[cs[i]])]
             Sums(s) == s = [i \in 0 .. n |-> IF i = 0 THEN 0 ELSE s[i - 1] + Len(h[cs[i]])]
             o == Offset(h, cs)
  <1>1. n \in Nat /\ len \in [1 .. n -> Nat]
    OBVIOUS
  <1>2. PICK s \in [0 .. n -> Nat] : s[0] = 0 /\ \A i \in 1 .. n : s[i] = s[i - 1] + len[i]
    <2> HIDE DEF n, len
    <2> QED
      BY <1>1, PrefixSums
  <1>3. Sums(s)
    <2>1. \A i \in 0 .. n : s[i] = IF i = 0 THEN 0 ELSE s[i - 1] + Len(h[cs[i]])
      BY <1>1, <1>2
    <2> HIDE DEF n
    <2> QED
      BY <2>1
  <1>4. o = CHOOSE t : Sums(t)
    BY DEF Offset
  <1>5. Sums(o)
    BY <1>3, <1>4
  <1>6. o[0] = 0 /\ \A i \in 1 .. n : o[i] = o[i - 1] + len[i]
    <2>1. \A i \in 0 .. n : o[i] = IF i = 0 THEN 0 ELSE o[i - 1] + Len(h[cs[i]])
      <3> HIDE DEF o, n
      <3> QED
        BY <1>5
    <2> HIDE DEF o
    <2> QED
      BY <2>1, <1>1
  <1>7. \A i \in 0 .. n : o[i] = s[i]
    <2> DEFINE Bad == {i \in 0 .. n : o[i] # s[i]}
    <2> SUFFICES ASSUME Bad # {} PROVE FALSE
      OBVIOUS
    <2>1. PICK k \in Bad : \A j \in Bad : k <= j
      <3>1. Bad \in SUBSET Nat
        OBVIOUS
      <3> HIDE DEF Bad
      <3> QED
        BY <3>1, LeastNat
    <2> HIDE DEF o, len, n
    <2>2. k \in 1 .. n /\ k - 1 \in 0 .. n /\ k - 1 \notin Bad
      BY <2>1, <1>1, <1>2, <1>6
    <2> QED
      BY <2>2, <1>2, <1>6
  <1>8. o = s
    <2>1. DOMAIN o = 0 .. n /\ o = [i \in 0 .. n |-> o[i]]
      <3> HIDE DEF o, n
      <3> QED
        BY <1>5
    <2> HIDE DEF o, n
    <2> QED
      BY <1>7, <2>1
  <1> QED
    BY <1>2, <1>8

\* The sum of sizes that are all d but for the first and the last one.
LEMMA CountFun ==
  ASSUME NEW n \in Nat, NEW len \in [1 .. n -> Nat], NEW o \in [0 .. n -> Nat], NEW d \in Nat,
         o[0] = 0, \A i \in 1 .. n : o[i] = o[i - 1] + len[i],
         \A i \in 2 .. n - 1 : len[i] = d
  PROVE  /\ n = 0 => o[n] = 0
         /\ n = 1 => o[n] = len[1]
         /\ n > 1 => o[n] = len[1] + d * (n - 2) + len[n]
  <1>1. n = 1 => o[n] = len[1]
    OBVIOUS
  <1>2. ASSUME n > 1 PROVE o[n] = len[1] + d * (n - 2) + len[n]
    <2>1. n - 1 \in 1 .. n /\ (n - 1) - 1 = n - 2
      BY <1>2
    <2>2. \A i \in 2 .. n - 1 : o[i] = o[i - 1] + d
      OBVIOUS
    <2>3. o[n - 1] = o[1] + d * (n - 2)
      BY <2>1, <2>2, LinearSums
    <2>4. o[1] = len[1] /\ o[n] = o[n - 1] + len[n] 
      BY <1>2
    <2> QED
      BY <2>3, <2>4
  <1> QED
    BY <1>1, <1>2

\* CountItems, which looks at two chunks, counts the items of all of them.
LEMMA CountItemsRight ==
  ASSUME NEW h \in Seq(Seq(Nat)), NEW cs \in Seq(DOMAIN h),
         \A i \in 2 .. Len(cs) - 1 : Len(h[cs[i]]) = ChunkSize
  PROVE  CountItems(h, cs) = NumItems(h, cs) /\ NumItems(h, cs) \in Nat
  <1> DEFINE n == Len(cs)
             len == [i \in 1 .. n |-> Len(h[cs[i]])]
             o == Offset(h, cs)
  <1>1. n \in Nat /\ len \in [1 .. n -> Nat] /\ ChunkSize \in Nat
    BY ChunkListAssumption
  <1>2. o \in [0 .. n -> Nat] /\ o[0] = 0
    BY OffsetDef
  <1>3. \A i \in 1 .. n : o[i] = o[i - 1] + len[i]
    BY OffsetDef
  <1>4. \A i \in 2 .. n - 1 : len[i] = ChunkSize
    BY <1>1
  <1>5. CountItems(h, cs) = CASE n = 0 -> 0
                              [] n = 1 -> len[1]
                              [] OTHER -> len[1] + ChunkSize * (n - 2) + len[n]
    BY <1>1 DEF CountItems, Last
  <1>6. NumItems(h, cs) = o[n]
    BY DEF NumItems
  <1> HIDE DEF n, len, o
  <1>7. /\ n = 0 => o[n] = 0
        /\ n = 1 => o[n] = len[1]
        /\ n > 1 => o[n] = len[1] + ChunkSize * (n - 2) + len[n]
    BY <1>1, <1>2, <1>3, <1>4, CountFun
  <1>8. (n = 0 \/ n = 1 \/ n > 1) /\ o[n] \in Nat
    BY <1>1, <1>2
  <1> QED
    BY <1>5, <1>6, <1>7, <1>8, <1>1

-----------------------------------------------------------------------------
\* g is the list f (of pointers of P, with chunk sizes up to d) of which the
\* first k - 1 chunks were dropped and chunk k was replaced by x.
IsCut(P, Q, size, d, n, f, k, x, m, g) ==
  /\ P \subseteq Q /\ size \in [Q -> Nat] /\ d \in Nat
  /\ n \in Nat /\ f \in [1 .. n -> P]
  /\ \A i \in 1 .. n : size[f[i]] \in 1 .. d
  /\ \A i \in 2 .. n - 1 : size[f[i]] = d
  /\ \A i, j \in 1 .. n : f[i] = f[j] => i = j
  /\ k \in 1 .. n /\ x \in Q /\ size[x] \in 1 .. d
  /\ x = f[k] \/ x \notin P
  /\ m \in Nat /\ m = n - k + 1 /\ g \in [1 .. m -> Q]
  /\ g[1] = x /\ \A i \in 2 .. m : g[i] = f[k + i - 1]

\* The chunks of list g have legal sizes, its pointers are distinct, and its
\* last chunk is the last one of the list f or not one of P.
IsLegal(P, size, d, n, f, m, g) ==
  /\ \A i \in 1 .. m : size[g[i]] \in 1 .. d
  /\ \A i \in 2 .. m - 1 : size[g[i]] = d
  /\ \A i, j \in 1 .. m : g[i] = g[j] => i = j
  /\ g[m] = f[n] \/ g[m] \notin P

\* Cutting a list leaves a legal list.
LEMMA CutFun ==
  ASSUME NEW P, NEW Q, NEW size, NEW d, NEW n, NEW f, NEW k, NEW x, NEW m, NEW g,
         IsCut(P, Q, size, d, n, f, k, x, m, g)
  PROVE  IsLegal(P, size, d, n, f, m, g)
  <1> USE DEF IsCut, IsLegal
  <1>1. \A i \in 2 .. m : k + i - 1 \in 1 .. n /\ k + i - 1 # k
    OBVIOUS
  <1>2. \A i \in 1 .. m : size[g[i]] \in 1 .. d
    <2> SUFFICES ASSUME NEW i \in 1 .. m PROVE size[g[i]] \in 1 .. d
      OBVIOUS
    <2>1. i = 1 \/ i \in 2 .. m
      OBVIOUS
    <2> QED
      BY <2>1, <1>1
  <1>3. \A i \in 2 .. m - 1 : size[g[i]] = d
    <2>1. \A i \in 2 .. m - 1 : i \in 2 .. m /\ k + i - 1 \in 2 .. n - 1
      OBVIOUS
    <2> QED
      BY <2>1
  <1>4. \A i \in 2 .. m : g[i] # x /\ g[i] \in P
    BY <1>1
  <1>5. ASSUME NEW i \in 1 .. m, NEW j \in 1 .. m, g[i] = g[j] PROVE i = j
    <2>1. (i = 1 \/ i \in 2 .. m) /\ (j = 1 \/ j \in 2 .. m)
      OBVIOUS
    <2>2. CASE i \in 2 .. m /\ j \in 2 .. m
      <3>1. k + i - 1 = k + j - 1
        BY <1>1, <1>5, <2>2
      <3> QED
        BY <3>1
    <2> QED
      BY <1>4, <1>5, <2>1, <2>2
  <1>6. g[m] = f[n] \/ g[m] \notin P
    <2>1. CASE k = n
      BY <2>1
    <2>2. CASE k # n
      <3>1. m \in 2 .. m /\ k + m - 1 = n
        BY <2>2
      <3> QED
        BY <3>1
    <2> QED
      BY <2>1, <2>2
  <1> QED
    BY <1>2, <1>3, <1>5, <1>6

\* The same of the sequences themselves, in a heap h that extends the heap.
LEMMA Suffix ==
  ASSUME TypeOK, ListShape, NEW h, Extends(heap, h), NEW k \in 1 .. Len(chunks),
         NEW x \in DOMAIN h, Len(h[x]) \in 1 .. ChunkSize,
         x = chunks[k] \/ x \notin Pointer,
         NEW cs, cs = <<x>> \o SubSeq(chunks, k + 1, Len(chunks))
  PROVE  /\ WellFilled(h, cs)
         /\ Distinct(cs)
         /\ cs # <<>>
         /\ Last(cs) = Last(chunks) \/ Last(cs) \notin Pointer
  <1> DEFINE n == Len(chunks)
             m == n - k + 1
             size == [c \in DOMAIN h |-> Len(h[c])]
             rest == SubSeq(chunks, k + 1, n)
  <1>1. chunks \in Seq(Pointer) /\ heap \in Seq(Seq(Nat))
    BY DEF TypeOK
  <1>2. n \in Nat /\ DOMAIN chunks = 1 .. n /\ chunks \in [1 .. n -> Pointer]
    BY <1>1, LenProperties
  <1>3. h \in Seq(Seq(Nat)) /\ Pointer \subseteq DOMAIN h /\ \A c \in Pointer : h[c] = heap[c]
    BY DEF Extends, Pointer
  <1>4. size \in [DOMAIN h -> Nat] /\ ChunkSize \in Nat
    <2>1. \A c \in DOMAIN h : h[c] \in Seq(Nat)
      BY <1>3
    <2>2. \A c \in DOMAIN h : Len(h[c]) \in Nat
      BY <2>1, LenProperties
    <2> QED
      BY <2>2, ChunkListAssumption
  <1> HIDE DEF n
  <1>5. /\ rest \in Seq(DOMAIN h)
        /\ Len(rest) = n - k
        /\ \A i \in 1 .. n - k : rest[i] = chunks[k + i]
    <2>1. \A i \in k + 1 .. n : chunks[i] \in DOMAIN h
      BY <1>2, <1>3
    <2>2. k \in 1 .. n
      BY DEF n
    <2>3. k + 1 \in Int /\ n \in Int /\ (IF k + 1 <= n THEN n - (k + 1) + 1 ELSE 0) = n - k
          /\ n - (k + 1) + 1 = n - k /\ \A i \in 1 .. n - k : (k + 1) + i - 1 = k + i
      BY <1>2, <2>2
    <2>4. /\ rest \in Seq(DOMAIN h)
          /\ Len(rest) = IF k + 1 <= n THEN n - (k + 1) + 1 ELSE 0
          /\ \A i \in 1 .. n - (k + 1) + 1 : rest[i] = chunks[(k + 1) + i - 1]
      BY <2>1, <2>3, SubSeqProperties
    <2> HIDE DEF rest
    <2> QED
      BY <2>3, <2>4
  <1>6. cs = <<x>> \o rest
    BY DEF n
  <1> HIDE DEF rest
  <1>7. /\ cs \in Seq(DOMAIN h)
        /\ Len(cs) = m
        /\ cs[1] = x
        /\ \A i \in 2 .. m : cs[i] = chunks[k + i - 1]
    <2> DEFINE one == <<x>>
    <2>1. one \in Seq(DOMAIN h) /\ Len(one) = 1 /\ one[1] = x
      OBVIOUS
    <2>2. k \in 1 .. n
      BY DEF n
    <2>3. /\ cs \in Seq(DOMAIN h)
          /\ Len(cs) = 1 + (n - k)
          /\ \A i \in 1 .. 1 + (n - k) : cs[i] = IF i <= 1 THEN one[i] ELSE rest[i - 1]
      <3>1. cs = one \o rest
        BY <1>6
      <3> HIDE DEF one, m
      <3>2. /\ one \o rest \in Seq(DOMAIN h)
            /\ Len(one \o rest) = Len(one) + Len(rest)
            /\ \A i \in 1 .. Len(one) + Len(rest) : (one \o rest)[i] =
                  IF i <= Len(one) THEN one[i] ELSE rest[i - Len(one)]
        BY <1>5, <2>1, ConcatProperties
      <3> QED
        BY <1>5, <2>1, <3>1, <3>2
    <2>4. m = 1 + (n - k) /\ 1 \in 1 .. 1 + (n - k)
      BY <1>2, <2>2
    <2>5. cs[1] = x
      BY <2>1, <2>3, <2>4
    <2>6. ASSUME NEW i \in 2 .. m PROVE cs[i] = chunks[k + i - 1]
      <3>1. i \in 1 .. 1 + (n - k) /\ ~(i <= 1) /\ i - 1 \in 1 .. n - k /\ k + (i - 1) = k + i - 1
        BY <2>2, <1>2
      <3> QED
        BY <3>1, <2>3, <1>5
    <2> QED
      BY <2>3, <2>4, <2>5, <2>6
  <1>8. m \in Nat /\ m > 0 /\ k \in 1 .. n
    <2>1. k \in 1 .. n
      BY DEF n
    <2> QED
      BY <2>1, <1>2
  <1> HIDE DEF m
  <1>9. cs \in [1 .. m -> DOMAIN h]
    BY <1>7, LenProperties
  <1>10. /\ \A i \in 1 .. n : size[chunks[i]] \in 1 .. ChunkSize
         /\ \A i \in 2 .. n - 1 : size[chunks[i]] = ChunkSize
         /\ \A i, j \in 1 .. n : chunks[i] = chunks[j] => i = j
    <2>1. \A i \in 1 .. n : chunks[i] \in Pointer
      BY <1>2
    <2>2. /\ \A i \in 1 .. n : Len(heap[chunks[i]]) \in 1 .. ChunkSize
          /\ \A i \in 2 .. n - 1 : Len(heap[chunks[i]]) = ChunkSize
          /\ \A i, j \in 1 .. n : chunks[i] = chunks[j] => i = j
      BY <1>2 DEF ListShape, IsFull, n
    <2>3. \A i \in 1 .. n : size[chunks[i]] = Len(heap[chunks[i]])
      BY <2>1, <1>3
    <2>4. \A i \in 2 .. n - 1 : i \in 1 .. n
      BY <1>2
    <2> QED
      BY <2>2, <2>3, <2>4
  <1>11. size[x] \in 1 .. ChunkSize
    OBVIOUS
  <1>12. /\ \A i \in 1 .. m : size[cs[i]] \in 1 .. ChunkSize
         /\ \A i \in 2 .. m - 1 : size[cs[i]] = ChunkSize
         /\ \A i, j \in 1 .. m : cs[i] = cs[j] => i = j
         /\ cs[m] = chunks[n] \/ cs[m] \notin Pointer
    <2>1. m = n - k + 1
      BY DEF m
    <2>2. cs[1] = x /\ \A i \in 2 .. m : cs[i] = chunks[k + i - 1]
      BY <1>7
    <2>3. Pointer \subseteq DOMAIN h /\ chunks \in [1 .. n -> Pointer] /\ n \in Nat
      BY <1>2, <1>3
    <2> HIDE DEF size
    <2>4. IsCut(Pointer, DOMAIN h, size, ChunkSize, n, chunks, k, x, m, cs)
      BY <1>4, <1>8, <1>9, <1>10, <1>11, <2>1, <2>2, <2>3 DEF IsCut
    <2>5. IsLegal(Pointer, size, ChunkSize, n, chunks, m, cs)
      BY <2>4, CutFun
    <2> QED
      BY <2>5 DEF IsLegal
  <1>13. DOMAIN cs = 1 .. m /\ \A i \in 1 .. m : size[cs[i]] = Len(h[cs[i]])
    BY <1>9
  <1> HIDE DEF size
  <1>14. WellFilled(h, cs)
    <2>1. \A i \in 2 .. m - 1 : i \in 1 .. m
      BY <1>8
    <2>2. cs \in Seq(DOMAIN h) /\ Len(cs) = m
      BY <1>7
    <2>3. \A i \in 1 .. m : Len(h[cs[i]]) \in 1 .. ChunkSize
      BY <1>12, <1>13
    <2>4. \A i \in 2 .. m - 1 : Len(h[cs[i]]) = ChunkSize
      BY <1>12, <1>13, <2>1
    <2> QED
      BY <1>13, <2>2, <2>3, <2>4 DEF WellFilled
  <1>15. Distinct(cs)
    BY <1>12, <1>13 DEF Distinct
  <1>16. Last(cs) = cs[m] /\ Last(chunks) = chunks[n]
    BY <1>7 DEF Last, n
  <1>17. cs # <<>>
    BY <1>7, <1>8, EmptySeq
  <1> QED
    BY <1>12, <1>14, <1>15, <1>16, <1>17

\* The chunk where the shortened list starts exists, and fewer than tail items
\* come after it.
LEMMA FirstKeptFacts ==
  ASSUME TypeOK, chunks # <<>>, tail > 0
  PROVE  /\ FirstKept \in 1 .. Len(chunks)
         /\ NumItems(heap, chunks) \in Nat
         /\ Offset(heap, chunks)[FirstKept] \in Nat
         /\ NumItems(heap, chunks) - Offset(heap, chunks)[FirstKept] < tail
  <1> DEFINE n == Len(chunks)
             o == Offset(heap, chunks)
             T == {i \in DOMAIN chunks : NumItems(heap, chunks) - o[i - 1] >= tail} \cup {1}
  <1>1. chunks \in Seq(DOMAIN heap) /\ heap \in Seq(Seq(Nat)) /\ tail \in Nat
    BY ChunkListAssumption DEF TypeOK, Pointer
  <1>2. n \in Nat /\ n > 0 /\ DOMAIN chunks = 1 .. n
    BY <1>1, LenProperties, EmptySeq
  <1>3. o \in [0 .. n -> Nat] /\ NumItems(heap, chunks) = o[n]
    BY <1>1, OffsetDef DEF NumItems
  <1>4. FirstKept = Max(T)
    BY DEF FirstKept
  <1> HIDE DEF n, o
  <1>5. T \in SUBSET (0 .. n) /\ T # {} /\ T \subseteq 1 .. n
    BY <1>2
  <1>6. Max(T) \in 1 .. n /\ \A y \in T : y <= Max(T)
    <2> HIDE DEF T
    <2> QED
      BY <1>2, <1>5, MaxNat
  <1>7. ASSUME o[n] - o[Max(T)] >= tail PROVE FALSE
    <2>1. Max(T) # n
      <3>1. o[n] - o[n] = 0
        BY <1>2, <1>3
      <3> QED
        BY <3>1, <1>1, <1>7
    <2>2. Max(T) + 1 \in 1 .. n /\ (Max(T) + 1) - 1 = Max(T) /\ ~ (Max(T) + 1 <= Max(T))
      <3> HIDE DEF T
      <3> QED
        BY <1>2, <1>6, <2>1
    <2>3. Max(T) + 1 \in T
      BY <1>2, <1>3, <1>7, <2>2
    <2> HIDE DEF T
    <2> QED
      BY <1>6, <2>2, <2>3
  <1> HIDE DEF T
  <1>8. o[n] \in Nat /\ o[Max(T)] \in Nat
    BY <1>2, <1>3, <1>6
  <1>9. o[n] - o[Max(T)] < tail
    BY <1>1, <1>7, <1>8
  <1>10. FirstKept \in 1 .. Len(chunks)
    BY <1>4, <1>6 DEF n
  <1> QED
    BY <1>3, <1>4, <1>8, <1>9, <1>10 DEF o

\* A chunk allocated at the end of the heap.
LEMMA Allocate ==
  ASSUME NEW g \in Seq(Seq(Nat)), NEW c \in Seq(Nat)
  PROVE  /\ Extends(g, Append(g, c))
         /\ Len(g) + 1 \in DOMAIN Append(g, c)
         /\ Append(g, c)[Len(g) + 1] = c
         /\ Len(g) + 1 \notin DOMAIN g
  <1> DEFINE n == Len(g)
             h == Append(g, c)
  <1>1. n \in Nat /\ DOMAIN g = 1 .. n
    BY LenProperties
  <1>2. /\ h \in Seq(Seq(Nat)) /\ Len(h) = n + 1
        /\ \A i \in 1 .. n : h[i] = g[i]
        /\ h[n + 1] = c
    BY AppendProperties
  <1>3. DOMAIN h = 1 .. n + 1
    BY <1>2, LenProperties
  <1> HIDE DEF n, h
  <1>4. n <= n + 1 /\ n + 1 \in 1 .. n + 1 /\ n + 1 \notin 1 .. n /\ 1 .. n \subseteq 1 .. n + 1
    BY <1>1
  <1>5. Extends(g, h)
    BY <1>1, <1>2, <1>3, <1>4 DEF Extends, n
  <1> QED
    BY <1>1, <1>2, <1>3, <1>4, <1>5 DEF n, h

\* What Snapshot leaves in the list: a legal list over a heap that extends the
\* old one, whose last chunk is the old one or new.
LEMMA TrimList ==
  ASSUME TypeOK, ListShape
  PROVE  /\ Extends(heap, Trim.heap)
         /\ WellFilled(Trim.heap, Trim.chunks)
         /\ Distinct(Trim.chunks)
         /\ Trim.changed \in BOOLEAN
         /\ chunks = <<>> => Trim.chunks = <<>>
         /\ chunks # <<>> => /\ Trim.chunks # <<>>
                             /\ \/ Last(Trim.chunks) = Last(chunks)
                                \/ Last(Trim.chunks) \notin Pointer
  <1> DEFINE k == FirstKept
             rest == SubSeq(chunks, k + 1, Len(chunks))
             left == Left
             first == heap[chunks[k]]
             tailOf == SubSeq(first, Len(first) - left + 1, Len(first))
  <1>1. heap \in Seq(Seq(Nat)) /\ chunks \in Seq(Pointer) /\ tail \in Nat
    BY ChunkListAssumption DEF TypeOK
  <1>2. CASE ~TooLong
    <2>1. Trim.heap = heap /\ Trim.chunks = chunks /\ Trim.changed = FALSE
      BY <1>2 DEF Trim
    <2>2. Extends(heap, heap)
      BY <1>1, LenProperties DEF Extends
    <2>3. WellFilled(heap, chunks) /\ Distinct(chunks)
      BY <1>1 DEF ListShape, WellFilled, Distinct, IsFull, Pointer
    <2> QED
      BY <2>1, <2>2, <2>3
  <1>3. CASE TooLong
    <2>0. tail > 0 /\ CountItems(heap, chunks) > tail
      BY <1>3 DEF TooLong
    <2>1. chunks # <<>>
      <3>1. CountItems(heap, <<>>) = 0
        BY DEF CountItems
      <3> QED
        BY <3>1, <1>1, <2>0
    <2>2. k \in 1 .. Len(chunks) /\ left \in Nat /\ left >= 1
      <3> DEFINE N == NumItems(heap, chunks)
                 ok == Offset(heap, chunks)[k]
      <3>1. k \in 1 .. Len(chunks) /\ N \in Nat /\ ok \in Nat /\ N - ok < tail
        BY <2>0, <2>1, FirstKeptFacts
      <3>2. left = tail - (N - ok)
        BY DEF Left
      <3> HIDE DEF N, ok, left, k
      <3>3. left \in Int /\ left >= 1
        BY <1>1, <3>1, <3>2
      <3> QED
        BY <3>1, <3>3
    <2> HIDE DEF left
    <2>3. chunks[k] \in Pointer /\ first \in Seq(Nat) /\ Len(first) \in 1 .. ChunkSize
      <3>1. chunks[k] \in Pointer /\ k \in DOMAIN chunks
        BY <1>1, <2>2, LenProperties, ElementOfSeq
      <3>2. first \in Seq(Nat)
        BY <1>1, <3>1, LenProperties DEF Pointer
      <3> QED
        BY <3>1, <3>2 DEF ListShape
    <2>4. CASE Len(first) > left
      <3>1. Trim = [heap |-> Append(heap, tailOf), chunks |-> <<Len(heap) + 1>> \o rest,
                    retired |-> {chunks[i] : i \in 1 .. k - 1} \cup {chunks[k]},
                    changed |-> TRUE]
        BY <1>3, <2>4 DEF Trim, left
      <3>2. tailOf \in Seq(Nat) /\ Len(tailOf) = left /\ left \in 1 .. ChunkSize
        <4> DEFINE l == Len(first)
        <4>1. l \in Nat /\ \A i \in 1 .. l : first[i] \in Nat
          BY <2>3, LenProperties
        <4>2. l \in 1 .. ChunkSize /\ l > left
          BY <2>3, <2>4
        <4>3. tailOf = SubSeq(first, l - left + 1, l)
          OBVIOUS
        <4> HIDE DEF l, tailOf, first, k
        <4>4. /\ l - left + 1 \in Int /\ l \in Int /\ l - left + 1 <= l
              /\ l - (l - left + 1) + 1 = left
              /\ (l - left + 1) .. l \subseteq 1 .. l
          BY <2>2, <4>1, <4>2
        <4>5. \A i \in (l - left + 1) .. l : first[i] \in Nat
          BY <4>1, <4>4
        <4>6. /\ tailOf \in Seq(Nat)
              /\ Len(tailOf) = IF l - left + 1 <= l THEN l - (l - left + 1) + 1 ELSE 0
          BY <4>3, <4>4, <4>5, SubSeqProperties
        <4>7. left \in 1 .. ChunkSize
          BY <2>2, <4>2, ChunkListAssumption
        <4> QED
          BY <4>4, <4>6, <4>7
      <3> HIDE DEF tailOf
      <3>3. /\ Extends(heap, Trim.heap)
            /\ Len(heap) + 1 \in DOMAIN Trim.heap
            /\ Trim.heap[Len(heap) + 1] = tailOf
            /\ Len(heap) + 1 \notin Pointer
        BY <1>1, <3>1, <3>2, Allocate DEF Pointer
      <3>4. /\ WellFilled(Trim.heap, Trim.chunks)
            /\ Distinct(Trim.chunks)
            /\ Trim.chunks # <<>>
            /\ Last(Trim.chunks) = Last(chunks) \/ Last(Trim.chunks) \notin Pointer
        <4> DEFINE h == Trim.heap
                   x == Len(heap) + 1
                   cs == Trim.chunks
        <4>1. /\ Extends(heap, h) /\ x \in DOMAIN h /\ Len(h[x]) \in 1 .. ChunkSize
              /\ x = chunks[k] \/ x \notin Pointer
              /\ cs = <<x>> \o SubSeq(chunks, k + 1, Len(chunks))
          BY <3>1, <3>2, <3>3
        <4> HIDE DEF h, x, cs, k
        <4>2. /\ WellFilled(h, cs)
              /\ Distinct(cs)
              /\ cs # <<>>
              /\ Last(cs) = Last(chunks) \/ Last(cs) \notin Pointer
          BY <2>2, <4>1, Suffix
        <4> QED
          BY <4>2 DEF h, cs
      <3> QED
        BY <2>1, <3>1, <3>3, <3>4
    <2>5. CASE ~(Len(first) > left)
      <3>1. Trim = [heap |-> heap, chunks |-> <<chunks[k]>> \o rest,
                    retired |-> {chunks[i] : i \in 1 .. k - 1}, changed |-> TRUE]
        BY <1>3, <2>5 DEF Trim, left
      <3>2. Extends(heap, heap)
        BY <1>1, LenProperties DEF Extends
      <3>3. /\ WellFilled(heap, Trim.chunks)
            /\ Distinct(Trim.chunks)
            /\ Trim.chunks # <<>>
            /\ Last(Trim.chunks) = Last(chunks) \/ Last(Trim.chunks) \notin Pointer
        <4> DEFINE x == chunks[k]
                   cs == Trim.chunks
        <4>1. /\ x \in DOMAIN heap /\ Len(heap[x]) \in 1 .. ChunkSize
              /\ x = chunks[k] \/ x \notin Pointer
              /\ cs = <<x>> \o SubSeq(chunks, k + 1, Len(chunks))
          BY <2>3, <3>1 DEF Pointer
        <4> HIDE DEF x, cs, k
        <4>2. /\ WellFilled(heap, cs)
              /\ Distinct(cs)
              /\ cs # <<>>
              /\ Last(cs) = Last(chunks) \/ Last(cs) \notin Pointer
          BY <2>2, <3>2, <4>1, Suffix
        <4> QED
          BY <4>2 DEF cs
      <3> QED
        BY <2>1, <3>1, <3>2, <3>3
    <2> QED
      BY <2>4, <2>5
  <1> QED
    BY <1>2, <1>3

\* A function on 1 .. n is a sequence.
LEMMA FunIsSeq ==
  ASSUME NEW S, NEW n \in Nat, NEW f \in [1 .. n -> S]
  PROVE  f \in Seq(S) /\ Len(f) = n /\ DOMAIN f = 1 .. n
  <1>1. f \in Seq(S)
    BY SeqDef
  <1>2. Len(f) \in Nat /\ DOMAIN f = 1 .. Len(f)
    BY <1>1, LenProperties
  <1>3. DOMAIN f = 1 .. n
    OBVIOUS
  <1> DEFINE m == Len(f)
  <1>4. m \in Nat /\ 1 .. m = 1 .. n
    BY <1>2, <1>3
  <1> HIDE DEF m
  <1>5. m = n
    BY <1>4
  <1> QED
    BY <1>1, <1>3, <1>5 DEF m

\* A heap that extends an extension of g extends g.
LEMMA ExtendsTransitive ==
  ASSUME NEW g, NEW h, NEW k, Len(g) \in Nat, Len(h) \in Nat, Len(k) \in Nat,
         Extends(g, h), Extends(h, k)
  PROVE  Extends(g, k)
  <1>1. Len(g) <= Len(k)
    <2>1. Len(g) <= Len(h) /\ Len(h) <= Len(k)
      BY DEF Extends
    <2> QED
      BY <2>1
  <1> QED
    BY <1>1 DEF Extends

\* The pointers a snapshot returns: the inner chunks are the list's own, full
\* ones, and the chunk the list is still filling is not among them.
LEMMA DuplicateList ==
  ASSUME NEW h \in Seq(Seq(Nat)), NEW cs, WellFilled(h, cs), Distinct(cs),
         NEW r, r = Duplicate(h, cs)
  PROVE  /\ Extends(h, r.heap)
         /\ r.chunks \in Seq(DOMAIN r.heap)
         /\ \A i \in 2 .. Len(r.chunks) - 1 : Len(r.heap[r.chunks[i]]) = ChunkSize
         /\ cs # <<>> => \A i \in DOMAIN r.chunks : r.chunks[i] # Last(cs)
  <1> DEFINE n == Len(cs)
             D == DOMAIN h
  <1>1. cs \in Seq(D) /\ n \in Nat /\ DOMAIN cs = 1 .. n /\ cs \in [1 .. n -> D]
    BY LenProperties DEF WellFilled
  <1>2. CASE cs = <<>>
    <2>1. r.heap = h /\ r.chunks = cs
      BY <1>2 DEF Duplicate
    <2>2. Extends(h, h)
      BY LenProperties DEF Extends
    <2>3. \A i \in 2 .. Len(cs) - 1 : Len(h[cs[i]]) = ChunkSize
      BY DEF WellFilled
    <2> QED
      BY <1>1, <1>2, <2>1, <2>2, <2>3
  <1>3. CASE cs # <<>>
    <2>1. n > 0
      BY <1>1, <1>3, EmptySeq
    <2>2. Last(cs) = cs[n] /\ cs[n] \in D /\ cs[1] \in D /\ 1 \in 1 .. n /\ n \in 1 .. n
      <3>1. 1 \in 1 .. n /\ n \in 1 .. n
        BY <1>1, <2>1
      <3> QED
        BY <1>1, <3>1 DEF Last
    <2>3. h[cs[1]] \in Seq(Nat) /\ h[cs[n]] \in Seq(Nat)
      BY <2>2
    <2>4. \A i \in 1 .. n : cs[i] \in D /\ (i # n => cs[i] # cs[n])
      BY <1>1, <2>2 DEF Distinct
    <2>5. \A i \in 2 .. n - 1 : Len(h[cs[i]]) = ChunkSize /\ i \in 1 .. n /\ i # n /\ i # 1
      <3>1. \A i \in 2 .. n - 1 : Len(h[cs[i]]) = ChunkSize
        BY DEF WellFilled
      <3> HIDE DEF n
      <3>2. \A i \in 2 .. n - 1 : i \in 1 .. n /\ i # n /\ i # 1
        BY <1>1
      <3> QED
        BY <3>1, <3>2
    <2>6. Len(h) + 1 \notin D /\ Len(h) + 2 \notin D /\ Len(h) \in Nat /\ Len(h) + 1 # Len(h) + 2
      <3>1. Len(h) \in Nat /\ D = 1 .. Len(h)
        BY LenProperties
      <3> QED
        BY <3>1
    <2>7. CASE tail > 0 /\ n > 1
      <3> DEFINE g == Append(h, h[cs[1]])
                 k == Append(g, h[cs[n]])
                 ds == [cs EXCEPT ![1] = Len(h) + 1, ![n] = Len(h) + 2]
      <3>1. r.heap = k /\ r.chunks = ds
        BY <1>3, <2>2, <2>7 DEF Duplicate
      <3>2. g \in Seq(Seq(Nat)) /\ Extends(h, g) /\ Len(h) + 1 \in DOMAIN g /\ Len(g) = Len(h) + 1
        BY <2>3, Allocate, AppendProperties DEF Extends
      <3> HIDE DEF g
      <3>3. k \in Seq(Seq(Nat)) /\ Extends(g, k) /\ Len(g) + 1 \in DOMAIN k
        BY <2>3, <3>2, Allocate DEF Extends
      <3>4. Len(g) + 1 = Len(h) + 2 /\ Len(g) \in Nat /\ Len(k) \in Nat
        BY <2>6, <3>2, <3>3, LenProperties
      <3> HIDE DEF k
      <3>5. Extends(h, k)
        BY <2>6, <3>2, <3>3, <3>4, ExtendsTransitive
      <3>6. Len(h) + 1 \in DOMAIN k /\ Len(h) + 2 \in DOMAIN k /\ D \subseteq DOMAIN k
        BY <3>2, <3>3, <3>4, <3>5 DEF Extends
      <3>7. /\ ds \in [1 .. n -> DOMAIN k]
            /\ \A i \in 1 .. n : ds[i] = IF i = n THEN Len(h) + 2
                                         ELSE IF i = 1 THEN Len(h) + 1 ELSE cs[i]
        <4> HIDE DEF n, D
        <4> QED
          BY <1>1, <2>2, <2>4, <3>6
      <3>8. ds \in Seq(DOMAIN k) /\ Len(ds) = n /\ DOMAIN ds = 1 .. n
        <4> HIDE DEF ds, n
        <4> QED
          BY <1>1, <3>7, FunIsSeq
      <3> HIDE DEF ds
      <3>9. \A i \in 1 .. n : ds[i] # cs[n]
        BY <2>2, <2>4, <2>6, <3>7
      <3>10. \A i \in 2 .. n - 1 : Len(k[ds[i]]) = ChunkSize
        <4>1. \A i \in 2 .. n - 1 : ds[i] = cs[i] /\ cs[i] \in D
          BY <2>4, <2>5, <3>7
        <4> QED
          BY <2>5, <3>5, <4>1 DEF Extends
      <3> QED
        BY <2>2, <3>1, <3>5, <3>8, <3>9, <3>10
    <2>8. CASE ~(tail > 0 /\ n > 1)
      <3> DEFINE k == Append(h, h[cs[n]])
                 ds == [cs EXCEPT ![n] = Len(h) + 1]
      <3>1. r.heap = k /\ r.chunks = ds
        BY <1>3, <2>2, <2>8 DEF Duplicate
      <3>2. k \in Seq(Seq(Nat)) /\ Extends(h, k) /\ Len(h) + 1 \in DOMAIN k
        BY <2>3, Allocate DEF Extends
      <3> HIDE DEF k
      <3>3. D \subseteq DOMAIN k
        BY <3>2 DEF Extends
      <3>4. /\ ds \in [1 .. n -> DOMAIN k]
            /\ \A i \in 1 .. n : ds[i] = IF i = n THEN Len(h) + 1 ELSE cs[i]
        <4> HIDE DEF n, D
        <4> QED
          BY <1>1, <2>2, <2>4, <3>2, <3>3
      <3> HIDE DEF ds
      <3>5. \A i \in 1 .. n : ds[i] = IF i = n THEN Len(h) + 1 ELSE cs[i]
        BY <3>4
      <3>6. ds \in Seq(DOMAIN k) /\ Len(ds) = n /\ DOMAIN ds = 1 .. n
        <4> HIDE DEF n
        <4> QED
          BY <1>1, <3>4, FunIsSeq
      <3>7. \A i \in 1 .. n : ds[i] # cs[n]
        BY <2>2, <2>4, <2>6, <3>5
      <3>8. \A i \in 2 .. n - 1 : Len(k[ds[i]]) = ChunkSize
        <4>1. \A i \in 2 .. n - 1 : ds[i] = cs[i] /\ cs[i] \in D
          BY <2>4, <2>5, <3>5
        <4> QED
          BY <2>5, <3>2, <4>1 DEF Extends
      <3> QED
        BY <2>2, <3>1, <3>2, <3>6, <3>7, <3>8
    <2> QED
      BY <2>7, <2>8
  <1> QED
    BY <1>2, <1>3

-----------------------------------------------------------------------------
\* Offsets depend on the chunks that are pointed to and on nothing else.
LEMMA SameChunks ==
  ASSUME NEW g \in Seq(Seq(Nat)), NEW h \in Seq(Seq(Nat)),
         NEW cs \in Seq(DOMAIN g), cs \in Seq(DOMAIN h),
         \A i \in DOMAIN cs : h[cs[i]] = g[cs[i]]
  PROVE  Contents(h, cs) = Contents(g, cs) /\ NumItems(h, cs) = NumItems(g, cs)
  <1> DEFINE n == Len(cs)
             p == Offset(g, cs)
             q == Offset(h, cs)
             Bad == {i \in 0 .. n : p[i] # q[i]}
  <1>1. n \in Nat /\ DOMAIN cs = 1 .. n
    BY LenProperties
  <1>2. /\ p[0] = 0 /\ \A i \in 1 .. n : p[i] = p[i - 1] + Len(g[cs[i]])
        /\ q[0] = 0 /\ \A i \in 1 .. n : q[i] = q[i - 1] + Len(h[cs[i]])
    BY OffsetDef
  <1> HIDE DEF n, p, q
  <1>3. \A i \in 1 .. n : q[i] = q[i - 1] + Len(g[cs[i]])
    BY <1>1, <1>2
  <1>4. ASSUME Bad # {} PROVE FALSE
    <2>1. PICK k \in Bad : \A j \in Bad : k <= j
      <3>1. Bad \in SUBSET Nat
        OBVIOUS
      <3> HIDE DEF Bad
      <3> QED
        BY <1>4, <3>1, LeastNat
    <2>2. k \in 0 .. n /\ p[k] # q[k]
      OBVIOUS
    <2>3. k \in 1 .. n /\ k - 1 \in 0 .. n /\ ~(k <= k - 1)
      BY <1>1, <1>2, <2>2
    <2>4. p[k - 1] = q[k - 1]
      BY <2>1, <2>3
    <2> QED
      BY <1>2, <1>3, <2>2, <2>3, <2>4
  <1>5. p[n] = q[n]
    BY <1>1, <1>4
  <1> QED
    BY <1>5 DEF Contents, NumItems, n, p, q

\* What a snapshot is to show survives every step that leaves the chunks it
\* points to alone.
LEMMA SnapshotsKept ==
  ASSUME IInv, heap' \in Seq(Seq(Nat)), Pointer \subseteq Pointer',
         \A s \in taken : \A i \in DOMAIN s.chunks : heap'[s.chunks[i]] = heap[s.chunks[i]]
  PROVE  \A s \in taken : /\ s \in SnapshotType'
                          /\ Contents(heap', s.chunks) = s.items
                          /\ s.count = NumItems(heap', s.chunks)
  <1> SUFFICES ASSUME NEW s \in taken
               PROVE  /\ s \in SnapshotType'
                      /\ Contents(heap', s.chunks) = s.items
                      /\ s.count = NumItems(heap', s.chunks)
    OBVIOUS
  <1>1. s \in SnapshotType /\ heap \in Seq(Seq(Nat))
    BY DEF IInv, TypeOK
  <1>2. s.chunks \in Seq(DOMAIN heap)
    BY <1>1 DEF SnapshotType, Pointer
  <1>3. s.chunks \in Seq(DOMAIN heap')
    BY <1>2, SeqMonotonic DEF Pointer
  <1>4. \A i \in DOMAIN s.chunks : heap'[s.chunks[i]] = heap[s.chunks[i]]
    OBVIOUS
  <1>5. /\ Contents(heap', s.chunks) = Contents(heap, s.chunks)
        /\ NumItems(heap', s.chunks) = NumItems(heap, s.chunks)
    <2> DEFINE h == heap'
               cs == s.chunks
    <2>1. h \in Seq(Seq(Nat)) /\ cs \in Seq(DOMAIN h) /\ cs \in Seq(DOMAIN heap)
          /\ \A i \in DOMAIN cs : h[cs[i]] = heap[cs[i]]
      BY <1>2, <1>3, <1>4
    <2> HIDE DEF h, cs
    <2>2. Contents(h, cs) = Contents(heap, cs) /\ NumItems(h, cs) = NumItems(heap, cs)
      BY <1>1, <2>1, SameChunks
    <2> QED
      BY <2>2 DEF h, cs
  <1>6. s \in SnapshotType'
    BY <1>1, <1>3 DEF SnapshotType, Pointer
  <1> QED
    BY <1>5, <1>6 DEF IInv, SnapshotsImmutable, CountIsRight

\* CountItems is right for the list whenever the list has its shape.
LEMMA ListCount ==
  ASSUME TypeOK, ListShape
  PROVE  CountItems(heap, chunks) = NumItems(heap, chunks)
  <1>1. heap \in Seq(Seq(Nat)) /\ chunks \in Seq(DOMAIN heap)
    BY DEF TypeOK, Pointer
  <1>2. \A i \in 2 .. Len(chunks) - 1 : Len(heap[chunks[i]]) = ChunkSize
    BY DEF ListShape, IsFull
  <1> QED
    BY <1>1, <1>2, CountItemsRight

\* The list and the snapshots are empty at first.
LEMMA InitIInv == Init => IInv
  <1> SUFFICES ASSUME Init PROVE IInv
    OBVIOUS
  <1> USE DEF Init
  <1>1. TypeOK
    BY DEF TypeOK
  <1>2. chunks = <<>> /\ taken = {} /\ cached = {} /\ heap \in Seq(Seq(Nat))
    OBVIOUS
  <1>3. ListShape
    BY <1>2 DEF ListShape
  <1>4. CachedFull /\ SnapshotsImmutable
    BY <1>2 DEF CachedFull, SnapshotsImmutable
  <1>5. CountIsRight
    BY <1>1, <1>2, <1>3, ListCount DEF CountIsRight
  <1> QED
    BY <1>1, <1>3, <1>4, <1>5 DEF IInv

\* The item goes to a new chunk, because there is none or the last one is full.
LEMMA PushNew ==
  ASSUME IInv, Push, chunks = <<>> \/ IsFull(Last(chunks))
  PROVE  TypeOK' /\ ListShape' /\ CachedFull' /\ SnapshotsImmutable' /\ CountIsRight'
  <1> DEFINE c == Len(heap) + 1
             n == Len(chunks)
  <1>1. /\ heap' = Append(heap, <<itemIndex>>)
        /\ chunks' = Append(chunks, c)
        /\ UNCHANGED <<tail, taken, cached>>
        /\ itemIndex' = itemIndex + 1
    BY DEF Push
  <1>2. /\ heap \in Seq(Seq(Nat)) /\ chunks \in Seq(Pointer) /\ itemIndex \in Nat
        /\ n \in Nat /\ DOMAIN chunks = 1 .. n /\ Len(<<itemIndex>>) = 1
        /\ <<itemIndex>> \in Seq(Nat) /\ ChunkSize >= 1 /\ ChunkSize \in Nat
    BY LenProperties, ChunkListAssumption DEF IInv, TypeOK
  <1>3. /\ Extends(heap, heap')
        /\ c \in Pointer' /\ c \notin Pointer /\ heap'[c] = <<itemIndex>>
    BY <1>1, <1>2, Allocate DEF Pointer
  <1>4. /\ heap' \in Seq(Seq(Nat)) /\ Pointer \subseteq Pointer'
        /\ \A d \in Pointer : heap'[d] = heap[d]
    BY <1>3 DEF Extends, Pointer
  <1>5. \A s \in taken : s.chunks \in Seq(Pointer)
          /\ \A i \in DOMAIN s.chunks : s.chunks[i] \in Pointer
    BY LenProperties, ElementOfSeq DEF IInv, TypeOK, SnapshotType
  <1>6. \A s \in taken : /\ s \in SnapshotType'
                         /\ Contents(heap', s.chunks) = s.items
                         /\ s.count = NumItems(heap', s.chunks)
    BY <1>4, <1>5, SnapshotsKept
  <1>7. /\ chunks' \in Seq(Pointer') /\ Len(chunks') = n + 1 /\ Last(chunks') = c
        /\ \A i \in 1 .. n + 1 : chunks'[i] = IF i \in 1 .. n THEN chunks[i] ELSE c
    <2>1. chunks \in Seq(Pointer')
      BY <1>2, <1>4, SeqMonotonic
    <2> HIDE DEF c
    <2>2. chunks' \in Seq(Pointer') /\ Len(chunks') = n + 1 /\ chunks'[n + 1] = c
          /\ \A i \in 1 .. n : chunks'[i] = chunks[i]
      BY <1>1, <1>3, <2>1, AppendProperties
    <2> HIDE DEF n
    <2>3. ASSUME NEW i \in 1 .. n + 1 PROVE chunks'[i] = IF i \in 1 .. n THEN chunks[i] ELSE c
      <3>1. i \in 1 .. n \/ i = n + 1
        BY <1>2
      <3>2. n + 1 \notin 1 .. n
        BY <1>2
      <3> QED
        BY <2>2, <3>1, <3>2
    <2> QED
      BY <2>2, <2>3 DEF Last
  <1>8. TypeOK'
    BY <1>1, <1>2, <1>4, <1>6, <1>7 DEF IInv, TypeOK
  <1>9. ListShape'
    <2>1. DOMAIN chunks' = 1 .. n + 1
      BY <1>7, LenProperties
    <2>2. /\ \A i \in 1 .. n : chunks[i] \in Pointer /\ Len(heap[chunks[i]]) \in 1 .. ChunkSize
          /\ \A i \in 2 .. n - 1 : Len(heap[chunks[i]]) = ChunkSize
          /\ \A i, j \in 1 .. n : chunks[i] = chunks[j] => i = j
          /\ n > 0 => Len(heap[chunks[n]]) = ChunkSize
      <3>1. \A i \in 1 .. n : chunks[i] \in Pointer
        BY <1>2, ElementOfSeq
      <3>2. /\ \A i \in 1 .. n : Len(heap[chunks[i]]) \in 1 .. ChunkSize
            /\ \A i \in 2 .. n - 1 : Len(heap[chunks[i]]) = ChunkSize
            /\ \A i, j \in 1 .. n : chunks[i] = chunks[j] => i = j
        BY <1>2 DEF IInv, ListShape, IsFull
      <3>3. ASSUME n > 0 PROVE Len(heap[chunks[n]]) = ChunkSize
        <4>1. chunks # <<>>
          BY <3>3
        <4> QED
          BY <4>1 DEF IsFull, Last
      <3> QED
        BY <3>1, <3>2, <3>3
    <2>3. Len(heap'[c]) = 1 /\ Len(heap'[c]) \in 1 .. ChunkSize
      BY <1>2, <1>3
    <2> HIDE DEF n, c
    <2>4. \A i \in 1 .. n : Len(heap'[chunks[i]]) = Len(heap[chunks[i]])
      BY <1>4, <2>2
    <2>5. ASSUME NEW i \in 1 .. n + 1 PROVE Len(heap'[chunks'[i]]) \in 1 .. ChunkSize
      BY <1>7, <2>2, <2>3, <2>4
    <2>6. ASSUME NEW i \in 2 .. (n + 1) - 1 PROVE Len(heap'[chunks'[i]]) = ChunkSize
      <3>1. i \in 1 .. n /\ i \in 1 .. n + 1 /\ (i \in 2 .. n - 1 \/ i = n) /\ n > 0
        BY <1>2
      <3> QED
        BY <3>1, <1>7, <2>2, <2>4
    <2>7. ASSUME NEW i \in 1 .. n + 1, NEW j \in 1 .. n + 1, chunks'[i] = chunks'[j] PROVE i = j
      <3>1. (i \in 1 .. n \/ i = n + 1) /\ (j \in 1 .. n \/ j = n + 1) /\ n + 1 \notin 1 .. n
        BY <1>2
      <3> QED
        BY <1>3, <1>7, <2>2, <2>7, <3>1
    <2>8. \A s \in taken : \A i \in DOMAIN s.chunks : s.chunks[i] # Last(chunks')
      BY <1>3, <1>5, <1>7
    <2> QED
      BY <1>1, <1>7, <2>1, <2>5, <2>6, <2>7, <2>8 DEF ListShape, IsFull
  <1>10. CachedFull'
    BY <1>1, <1>4 DEF IInv, TypeOK, CachedFull, IsFull
  <1>11. SnapshotsImmutable'
    BY <1>1, <1>6 DEF SnapshotsImmutable
  <1>12. CountIsRight'
    <2>1. (CountItems(heap, chunks) = NumItems(heap, chunks))'
      BY <1>8, <1>9, ListCount, PTL
    <2> QED
      BY <1>1, <1>6, <2>1 DEF CountIsRight
  <1> QED
    BY <1>8, <1>9, <1>10, <1>11, <1>12

\* The item goes to the last chunk, which is in no snapshot and not cached.
LEMMA PushLast ==
  ASSUME IInv, Push, ~(chunks = <<>> \/ IsFull(Last(chunks)))
  PROVE  /\ TypeOK' /\ ListShape' /\ CachedFull' /\ SnapshotsImmutable' /\ CountIsRight'
         /\ \A c \in cached : heap'[c] = heap[c]
  <1> DEFINE c == Last(chunks)
             n == Len(chunks)
  <1>1. /\ heap' = [heap EXCEPT ![c] = Append(@, itemIndex)]
        /\ UNCHANGED <<chunks, tail, taken, cached>>
        /\ itemIndex' = itemIndex + 1
    BY DEF Push
  <1>2. /\ heap \in Seq(Seq(Nat)) /\ chunks \in Seq(Pointer) /\ itemIndex \in Nat
        /\ n \in Nat /\ DOMAIN chunks = 1 .. n /\ ChunkSize \in Nat
    BY LenProperties, ChunkListAssumption DEF IInv, TypeOK
  <1>3. n > 0 /\ c = chunks[n] /\ n \in 1 .. n
    BY <1>2, EmptySeq DEF Last
  <1>4. \A i \in 1 .. n : chunks[i] \in Pointer
    BY <1>2, ElementOfSeq
  <1>5. c \in Pointer /\ heap[c] \in Seq(Nat) /\ Append(heap[c], itemIndex) \in Seq(Nat)
        /\ Len(Append(heap[c], itemIndex)) = Len(heap[c]) + 1
    <2>1. c \in Pointer
      BY <1>3, <1>4
    <2> HIDE DEF c
    <2>2. heap[c] \in Seq(Nat)
      BY <1>2, <2>1 DEF Pointer
    <2> QED
      BY <1>2, <2>1, <2>2, AppendProperties
  <1>6. /\ heap' \in Seq(Seq(Nat)) /\ Pointer' = Pointer
        /\ \A d \in Pointer : heap'[d] = IF d = c THEN Append(heap[c], itemIndex) ELSE heap[d]
    <2> HIDE DEF c
    <2>1. heap' = [heap EXCEPT ![c] = Append(heap[c], itemIndex)]
      BY <1>1
    <2>2. heap' \in Seq(Seq(Nat)) /\ Len(heap') = Len(heap)
      BY <1>2, <1>5, <2>1, ExceptSeq DEF Pointer
    <2> QED
      BY <1>1, <1>5, <2>1, <2>2 DEF Pointer
  <1>7. Len(heap[c]) \in 1 .. ChunkSize /\ Len(heap[c]) # ChunkSize
    BY <1>2, <1>3 DEF IInv, ListShape, IsFull
  <1>8. \A s \in taken : \A i \in DOMAIN s.chunks : s.chunks[i] \in Pointer /\ s.chunks[i] # c
    <2>1. \A s \in taken : s.chunks \in Seq(Pointer)
      BY DEF IInv, TypeOK, SnapshotType
    <2>2. \A s \in taken : \A i \in DOMAIN s.chunks : s.chunks[i] \in Pointer
      BY <2>1, ElementOfSeq, LenProperties
    <2>3. \A s \in taken : \A i \in DOMAIN s.chunks : s.chunks[i] # c
      BY DEF IInv, ListShape
    <2> QED
      BY <2>2, <2>3
  <1>9. \A s \in taken : /\ s \in SnapshotType'
                         /\ Contents(heap', s.chunks) = s.items
                         /\ s.count = NumItems(heap', s.chunks)
    <2> HIDE DEF c
    <2> QED
      BY <1>6, <1>8, SnapshotsKept
  <1>10. \A d \in cached : d # c /\ d \in Pointer
    BY DEF IInv, CachedFull, TypeOK
  <1> HIDE DEF c
  <1>11. TypeOK'
    BY <1>1, <1>2, <1>6, <1>9 DEF IInv, TypeOK
  <1>12. ListShape'
    <2>1. /\ \A i \in 1 .. n : Len(heap[chunks[i]]) \in 1 .. ChunkSize
          /\ \A i \in 2 .. n - 1 : Len(heap[chunks[i]]) = ChunkSize
          /\ \A i, j \in 1 .. n : chunks[i] = chunks[j] => i = j
      BY <1>2 DEF IInv, ListShape, IsFull
    <2>2. Len(heap'[c]) \in 1 .. ChunkSize
      <3>1. Len(heap'[c]) = Len(heap[c]) + 1
        BY <1>5, <1>6
      <3> DEFINE l == Len(heap[c])
      <3>2. l \in 1 .. ChunkSize /\ l # ChunkSize
        BY <1>7
      <3> HIDE DEF l
      <3>3. l + 1 \in 1 .. ChunkSize
        BY <1>2, <3>2
      <3> QED
        BY <3>1, <3>3 DEF l
    <2> HIDE DEF n
    <2>3. \A i \in 1 .. n : Len(heap'[chunks[i]]) \in 1 .. ChunkSize
      <3> SUFFICES ASSUME NEW i \in 1 .. n PROVE Len(heap'[chunks[i]]) \in 1 .. ChunkSize
        OBVIOUS
      <3>1. CASE chunks[i] = c
        BY <2>2, <3>1
      <3>2. CASE chunks[i] # c
        <4>1. heap'[chunks[i]] = heap[chunks[i]]
          BY <1>4, <1>6, <3>2
        <4> QED
          BY <2>1, <4>1
      <3> QED
        BY <3>1, <3>2
    <2>4. \A i \in 2 .. n - 1 : Len(heap'[chunks[i]]) = ChunkSize
      <3> SUFFICES ASSUME NEW i \in 2 .. n - 1 PROVE Len(heap'[chunks[i]]) = ChunkSize
        OBVIOUS
      <3>1. i \in 1 .. n /\ i # n
        BY <1>2
      <3>2. chunks[i] # c
        BY <1>3, <2>1, <3>1
      <3>3. heap'[chunks[i]] = heap[chunks[i]]
        BY <1>4, <1>6, <3>1, <3>2
      <3> QED
        BY <2>1, <3>3
    <2>5. \A s \in taken : \A i \in DOMAIN s.chunks : s.chunks[i] # Last(chunks')
      BY <1>1, <1>8 DEF c
    <2> QED
      BY <1>1, <1>2, <2>1, <2>3, <2>4, <2>5 DEF ListShape, IsFull, n
  <1>13. \A d \in cached : heap'[d] = heap[d]
    BY <1>6, <1>10
  <1>14. CachedFull'
    BY <1>1, <1>13 DEF IInv, CachedFull, IsFull
  <1>15. SnapshotsImmutable'
    BY <1>1, <1>9 DEF SnapshotsImmutable
  <1>16. CountIsRight'
    <2>1. (CountItems(heap, chunks) = NumItems(heap, chunks))'
      BY <1>11, <1>12, ListCount, PTL
    <2> QED
      BY <1>1, <1>9, <2>1 DEF CountIsRight
  <1> QED
    BY <1>11, <1>12, <1>13, <1>14, <1>15, <1>16

\* A snapshot is taken, after the list was cut down to the last tail items.
LEMMA SnapshotStep ==
  ASSUME IInv, Snapshot
  PROVE  /\ TypeOK' /\ ListShape' /\ CachedFull' /\ SnapshotsImmutable' /\ CountIsRight'
         /\ \A c \in cached : heap'[c] = heap[c]
  <1> DEFINE list == Trim
             h == list.heap
             cs == list.chunks
             ret == Duplicate(h, cs)
             rs == ret.chunks
             new == [chunks |-> rs, count |-> CountItems(ret.heap, rs),
                     changed |-> list.changed, items |-> Contents(ret.heap, rs)]
  <1>1. /\ heap' = ret.heap /\ chunks' = cs /\ cached' = cached \ list.retired
        /\ taken' = taken \cup {new} /\ UNCHANGED <<itemIndex, tail>>
    BY DEF Snapshot
  <1>2. /\ Extends(heap, h) /\ WellFilled(h, cs) /\ Distinct(cs) /\ list.changed \in BOOLEAN
        /\ chunks = <<>> => cs = <<>>
        /\ chunks # <<>> => cs # <<>> /\ (Last(cs) = Last(chunks) \/ Last(cs) \notin Pointer)
    BY TrimList DEF IInv
  <1> HIDE DEF h, cs
  <1>3. /\ Extends(h, ret.heap)
        /\ rs \in Seq(DOMAIN ret.heap)
        /\ \A i \in 2 .. Len(rs) - 1 : Len(ret.heap[rs[i]]) = ChunkSize
        /\ cs # <<>> => \A i \in DOMAIN rs : rs[i] # Last(cs)
    <2>1. h \in Seq(Seq(Nat))
      BY <1>2 DEF Extends
    <2> QED
      BY <1>2, <2>1, DuplicateList
  <1> HIDE DEF ret, list
  <1>4. /\ rs \in Seq(DOMAIN heap') /\ new.items = Contents(heap', rs)
        /\ \A i \in 2 .. Len(rs) - 1 : Len(heap'[rs[i]]) = ChunkSize
        /\ new.chunks = rs /\ new.count = CountItems(heap', rs) /\ new.changed \in BOOLEAN
    BY <1>1, <1>2, <1>3
  <1> HIDE DEF rs, new
  <1>5. heap \in Seq(Seq(Nat)) /\ Extends(heap, heap')
    <2>1. heap \in Seq(Seq(Nat)) /\ h \in Seq(Seq(Nat)) /\ heap' \in Seq(Seq(Nat))
            /\ Extends(h, heap')
      BY <1>1, <1>2, <1>3 DEF IInv, TypeOK, Extends
    <2>2. Len(heap) \in Nat /\ Len(h) \in Nat /\ Len(heap') \in Nat
      BY <2>1, LenProperties
    <2> QED
      BY <1>2, <2>1, <2>2, ExtendsTransitive
  <1>6. /\ heap' \in Seq(Seq(Nat)) /\ Pointer \subseteq Pointer'
        /\ \A d \in Pointer : heap'[d] = heap[d]
    BY <1>5 DEF Extends, Pointer
  <1>7. \A s \in taken : s.chunks \in Seq(Pointer)
          /\ \A i \in DOMAIN s.chunks : s.chunks[i] \in Pointer
    BY LenProperties, ElementOfSeq DEF IInv, TypeOK, SnapshotType
  <1>8. \A s \in taken : /\ s \in SnapshotType'
                         /\ Contents(heap', s.chunks) = s.items
                         /\ s.count = NumItems(heap', s.chunks)
    BY <1>6, <1>7, SnapshotsKept
  <1>9. new.count = NumItems(heap', rs) /\ new.count \in Nat
    <2> DEFINE g == heap'
    <2>1. g \in Seq(Seq(Nat)) /\ rs \in Seq(DOMAIN g)
          /\ \A i \in 2 .. Len(rs) - 1 : Len(g[rs[i]]) = ChunkSize
      BY <1>4, <1>6
    <2> HIDE DEF g
    <2>2. CountItems(g, rs) = NumItems(g, rs) /\ NumItems(g, rs) \in Nat
      BY <2>1, CountItemsRight
    <2> QED
      BY <1>4, <2>2 DEF g
  <1>10. new \in SnapshotType'
    <2>1. DOMAIN rs = 1 .. Len(rs) /\ Len(rs) \in Nat /\ \A i \in DOMAIN rs : rs[i] \in DOMAIN heap'
      BY <1>4, LenProperties, ElementOfSeq
    <2>2. \A i \in DOMAIN rs : heap'[rs[i]] \in Seq(Nat)
      BY <1>6, <2>1
    <2>3. Contents(heap', rs) \in [1 .. Len(rs) -> Seq(Nat)]
      BY <2>1, <2>2 DEF Contents
    <2>4. Contents(heap', rs) \in Seq(Seq(Nat))
      BY <2>1, <2>3, FunIsSeq
    <2>5. new.items \in Seq(Seq(Nat)) /\ new.chunks \in Seq(Pointer')
      BY <1>4, <2>4 DEF Pointer
    <2>6. new = [chunks |-> new.chunks, count |-> new.count, changed |-> new.changed,
            items |-> new.items]
      BY DEF new
    <2> QED
      BY <1>4, <1>9, <2>5, <2>6 DEF SnapshotType
  <1>11. /\ WellFilled(heap', cs) /\ Distinct(cs) /\ cs \in Seq(Pointer')
    <2>1. cs \in Seq(DOMAIN h) /\ DOMAIN cs = 1 .. Len(cs) /\ Len(cs) \in Nat
          /\ \A i \in DOMAIN cs : cs[i] \in DOMAIN h
      BY <1>2, LenProperties, ElementOfSeq DEF WellFilled
    <2>2. DOMAIN h \subseteq DOMAIN heap' /\ \A d \in DOMAIN h : heap'[d] = h[d]
      BY <1>1, <1>3 DEF Extends
    <2>3. cs \in Seq(DOMAIN heap')
      BY <2>1, <2>2, SeqMonotonic
    <2>4. \A i \in DOMAIN cs : heap'[cs[i]] = h[cs[i]]
      BY <2>1, <2>2
    <2>5. \A i \in 2 .. Len(cs) - 1 : i \in DOMAIN cs
      BY <2>1
    <2> QED
      BY <1>2, <2>3, <2>4, <2>5 DEF WellFilled, Pointer
  <1>12. TypeOK'
    BY <1>1, <1>6, <1>8, <1>10, <1>11 DEF IInv, TypeOK
  <1>13. ListShape'
    <2>1. /\ \A i \in DOMAIN cs : Len(heap'[cs[i]]) \in 1 .. ChunkSize
          /\ \A i \in 2 .. Len(cs) - 1 : Len(heap'[cs[i]]) = ChunkSize
          /\ \A i, j \in DOMAIN cs : cs[i] = cs[j] => i = j
      BY <1>11 DEF WellFilled, Distinct
    <2>2. \A s \in taken : cs # <<>> => \A i \in DOMAIN s.chunks : s.chunks[i] # Last(cs)
      BY <1>2, <1>7 DEF IInv, ListShape
    <2>3. cs # <<>> => \A i \in DOMAIN new.chunks : new.chunks[i] # Last(cs)
      BY <1>3, <1>4
    <2> QED
      BY <1>1, <2>1, <2>2, <2>3 DEF ListShape, IsFull
  <1>14. \A d \in cached : heap'[d] = heap[d]
    BY <1>6 DEF IInv, TypeOK
  <1>15. CachedFull'
    BY <1>1, <1>14 DEF IInv, CachedFull, IsFull
  <1>16. SnapshotsImmutable'
    BY <1>1, <1>4, <1>8 DEF SnapshotsImmutable
  <1>17. CountIsRight'
    <2>1. (CountItems(heap, chunks) = NumItems(heap, chunks))'
      BY <1>12, <1>13, ListCount, PTL
    <2>2. \A s \in taken' : s.count = NumItems(heap', s.chunks)
      BY <1>1, <1>4, <1>8, <1>9
    <2> QED
      BY <2>1, <2>2 DEF CountIsRight
  <1> QED
    BY <1>12, <1>13, <1>14, <1>15, <1>16, <1>17

\* The steps that leave the heap and the snapshots alone: Clear, CacheClear,
\* CacheAdd and stuttering.
LEMMA QuietStep ==
  ASSUME IInv, Clear \/ CacheClear \/ (\E s \in taken : CacheAdd(s)) \/ UNCHANGED vars
  PROVE  TypeOK' /\ ListShape' /\ CachedFull' /\ SnapshotsImmutable' /\ CountIsRight'
    /\ heap' = heap
  <1> USE DEF IInv
  <1>1. /\ heap' = heap /\ taken' = taken /\ tail' = tail
        /\ chunks' = chunks \/ chunks' = <<>>
        /\ itemIndex' \in Nat
    BY DEF Clear, CacheClear, CacheAdd, vars, TypeOK
  <1>2. cached' \subseteq Pointer /\ \A c \in cached' : IsFull(c)
    <2>1. CASE \E s \in taken : CacheAdd(s)
      <3>1. PICK s \in taken : CacheAdd(s)
        BY <2>1
      <3>2. s.chunks \in Seq(Pointer)
        BY DEF TypeOK, SnapshotType
      <3>3. \A i \in DOMAIN s.chunks : s.chunks[i] \in Pointer
        BY <3>2, LenProperties, ElementOfSeq
      <3> QED
        BY <3>1, <3>3 DEF CacheAdd, CachedFull, TypeOK
    <2>2. CASE cached' \subseteq cached
      BY <2>2 DEF CachedFull, TypeOK
    <2>3. (Clear \/ CacheClear \/ UNCHANGED vars) => cached' \subseteq cached
      BY DEF Clear, CacheClear, vars
    <2> QED
      BY <2>1, <2>2, <2>3
  <1>3. TypeOK'
    <2>1. Pointer' = Pointer /\ SnapshotType' = SnapshotType
      BY <1>1 DEF Pointer, SnapshotType
    <2>2. <<>> \in Seq(Pointer)
      BY EmptySeq
    <2> QED
      BY <1>1, <1>2, <2>1, <2>2 DEF TypeOK
  <1>4. ListShape'
    BY <1>1 DEF ListShape, IsFull
  <1>5. CachedFull'
    BY <1>1, <1>2 DEF CachedFull, IsFull
  <1>6. SnapshotsImmutable'
    BY <1>1 DEF SnapshotsImmutable
  <1>7. CountIsRight'
    <2>1. (CountItems(heap, chunks) = NumItems(heap, chunks))'
      BY <1>3, <1>4, ListCount, PTL
    <2> QED
      BY <1>1, <2>1 DEF CountIsRight
  <1> QED
    BY <1>1, <1>3, <1>4, <1>5, <1>6, <1>7

\* Every step preserves the invariant and writes to no cached chunk.
LEMMA Inductive ==
  ASSUME IInv, [Next]_vars
  PROVE  IInv' /\ \A c \in cached : heap'[c] = heap[c]
  <1>1. CASE Push
    <2>1. CASE chunks = <<>> \/ IsFull(Last(chunks))
      <3>1. \A c \in cached : c \in DOMAIN heap
        BY DEF IInv, TypeOK, Pointer
      <3>2. heap \in Seq(Seq(Nat)) /\ <<itemIndex>> \in Seq(Nat)
        BY DEF IInv, TypeOK
      <3>3. heap' = Append(heap, <<itemIndex>>)
        BY <1>1, <2>1 DEF Push
      <3>4. \A c \in cached : heap'[c] = heap[c]
        BY <3>1, <3>2, <3>3, Allocate DEF Extends
      <3> QED
        BY <1>1, <2>1, <3>4, PushNew DEF IInv
    <2>2. CASE ~(chunks = <<>> \/ IsFull(Last(chunks)))
      BY <1>1, <2>2, PushLast DEF IInv
    <2> QED
      BY <2>1, <2>2
  <1>2. CASE Snapshot
    BY <1>2, SnapshotStep DEF IInv
  <1>3. CASE Clear \/ CacheClear \/ (\E s \in taken : CacheAdd(s)) \/ UNCHANGED vars
    BY <1>3, QuietStep DEF IInv
  <1> QED
    BY <1>1, <1>2, <1>3 DEF Next

-----------------------------------------------------------------------------
(* Concatenation *)

\* The sequences q have lengths with partial sums o.
Sums(n, q, o) ==
  /\ n \in Nat /\ q \in [1 .. n -> Seq(Nat)]
  /\ o \in [0 .. n -> Nat] /\ o[0] = 0 /\ \A i \in 1 .. n : o[i] = o[i - 1] + Len(q[i])

\* s is the concatenation of the sequences q.
IsFlat(n, q, o, s) ==
  /\ s \in Seq(Nat) /\ Len(s) = o[n]
  /\ \A i \in 1 .. n : \A j \in 1 .. Len(q[i]) : s[o[i - 1] + j] = q[i][j]

\* Partial sums do not decrease.
LEMMA SumsGrow ==
  ASSUME NEW n, NEW q, NEW o, Sums(n, q, o), NEW a \in 0 .. n, NEW b \in a .. n
  PROVE  o[a] <= o[b]
  <1> DEFINE Bad == {i \in a .. n : ~(o[a] <= o[i])}
  <1> SUFFICES ASSUME Bad # {} PROVE FALSE
    OBVIOUS
  <1>0. n \in Nat /\ a \in Nat
    BY DEF Sums
  <1>1. PICK k \in Bad : \A j \in Bad : k <= j
    <2>1. Bad \in SUBSET Nat
      BY <1>0
    <2> HIDE DEF Bad
    <2> QED
      BY <2>1, LeastNat
  <1>2. k \in a .. n /\ ~(o[a] <= o[k])
    OBVIOUS
  <1>3. o[a] \in Nat /\ k # a
    BY <1>0, <1>2 DEF Sums
  <1>4. k - 1 \in a .. n /\ k \in 1 .. n /\ ~(k <= k - 1)
    BY <1>0, <1>2, <1>3
  <1>5. o[a] <= o[k - 1]
    BY <1>1, <1>4
  <1>6. o[k] = o[k - 1] + Len(q[k]) /\ Len(q[k]) \in Nat
    BY <1>4, LenProperties DEF Sums
  <1>7. o[k - 1] \in Nat /\ o[k] \in Nat
    BY <1>0, <1>4 DEF Sums
  <1> HIDE DEF Bad
  <1> QED
    BY <1>2, <1>3, <1>5, <1>6, <1>7

\* Every place of a concatenation is in one of the sequences.
LEMMA SumsCover ==
  ASSUME NEW n, NEW q, NEW o, Sums(n, q, o), NEW p \in 1 .. o[n]
  PROVE  \E i \in 1 .. n : \E j \in 1 .. Len(q[i]) : p = o[i - 1] + j
  <1> DEFINE T == {i \in 0 .. n : p <= o[i]}
  <1>0. n \in Nat /\ o[n] \in Nat /\ o[0] = 0
    BY DEF Sums
  <1>1. PICK i \in T : \A j \in T : i <= j
    <2>1. T \in SUBSET Nat /\ T # {}
      BY <1>0, n \in 0 .. n
    <2> HIDE DEF T
    <2> QED
      BY <2>1, LeastNat
  <1>2. i \in 0 .. n /\ p <= o[i]
    OBVIOUS
  <1>3. i # 0
    BY <1>0, <1>2
  <1>4. i \in 1 .. n /\ i - 1 \in 0 .. n /\ ~(i <= i - 1)
    BY <1>0, <1>2, <1>3
  <1>5. ~(p <= o[i - 1])
    BY <1>1, <1>4
  <1>6. o[i - 1] \in Nat /\ Len(q[i]) \in Nat /\ o[i] = o[i - 1] + Len(q[i])
    BY <1>4, LenProperties DEF Sums
  <1>7. p - o[i - 1] \in 1 .. Len(q[i]) /\ p = o[i - 1] + (p - o[i - 1])
    BY <1>0, <1>2, <1>5, <1>6
  <1> QED
    BY <1>4, <1>7

\* There is one concatenation only.
LEMMA FlatUnique ==
  ASSUME NEW n, NEW q, NEW o, Sums(n, q, o), NEW s, NEW t, IsFlat(n, q, o, s), IsFlat(n, q, o, t)
  PROVE  s = t
  <1>1. s \in Seq(Nat) /\ t \in Seq(Nat) /\ Len(s) = o[n] /\ Len(t) = o[n]
    BY DEF IsFlat
  <1>2. DOMAIN s = 1 .. o[n] /\ DOMAIN t = 1 .. o[n]
    BY <1>1, LenProperties
  <1>3. ASSUME NEW p \in 1 .. o[n] PROVE s[p] = t[p]
    <2>1. PICK i \in 1 .. n : \E j \in 1 .. Len(q[i]) : p = o[i - 1] + j
      BY SumsCover
    <2> QED
      BY <2>1 DEF IsFlat
  <1> QED
    BY <1>1, <1>2, <1>3, SeqEqual

\* Appending a sequence to a concatenation
LEMMA FlatExtends ==
  ASSUME NEW n, NEW q, NEW o, Sums(n, q, o), NEW k \in 1 .. n, NEW s, IsFlat(k - 1, q, o, s)
  PROVE  IsFlat(k, q, o, s \o q[k])
  <1>1. s \in Seq(Nat) /\ Len(s) = o[k - 1] /\ q[k] \in Seq(Nat) /\ n \in Nat
    BY DEF IsFlat, Sums
  <1>2. /\ s \o q[k] \in Seq(Nat) /\ Len(s \o q[k]) = Len(s) + Len(q[k])
        /\ \A p \in 1 .. Len(s) : (s \o q[k])[p] = s[p]
        /\ \A p \in 1 .. Len(q[k]) : (s \o q[k])[Len(s) + p] = q[k][p]
    <2>1. q[k] \in Seq(Nat) /\ s \in Seq(Nat)
      BY <1>1
    <2>2. DOMAIN q[k] = 1 .. Len(q[k]) /\ Len(q[k]) \in Nat /\ Len(s) \in Nat
      BY <2>1, LenProperties
    <2> DEFINE t == q[k]
    <2> HIDE DEF t
    <2>3. /\ s \o t \in Seq(Nat) /\ Len(s \o t) = Len(s) + Len(t)
          /\ \A p \in 1 .. Len(s) : (s \o t)[p] = s[p]
          /\ \A p \in 1 .. Len(t) : (s \o t)[Len(s) + p] = t[p]
      <3>1. t \in Seq(Nat) /\ Len(t) \in Nat /\ Len(s) \in Nat
        BY <2>1, <2>2 DEF t
      <3>2. /\ s \o t \in Seq(Nat) /\ Len(s \o t) = Len(s) + Len(t)
            /\ \A p \in 1 .. Len(s) + Len(t) :
                 (s \o t)[p] = IF p <= Len(s) THEN s[p] ELSE t[p - Len(s)]
        BY <2>1, <3>1, ConcatProperties
      <3> DEFINE a == Len(s)
                 b == Len(t)
      <3>3. \A p \in 1 .. a : p \in 1 .. a + b /\ p <= a
        <4> HIDE DEF a, b
        <4> QED
          BY <3>1 DEF a, b
      <3>4. \A p \in 1 .. b : a + p \in 1 .. a + b /\ ~(a + p <= a) /\ (a + p) - a = p
        <4>1. a \in Nat /\ b \in Nat
          BY <3>1
        <4> HIDE DEF a, b
        <4> QED
          BY <4>1
      <3> QED
        BY <3>2, <3>3, <3>4
    <2> QED
      BY <2>3 DEF t
  <1>3. o[k] = o[k - 1] + Len(q[k]) /\ o[k - 1] \in Nat
    BY <1>1, k - 1 \in 0 .. n DEF Sums
  <1>4. ASSUME NEW i \in 1 .. k, NEW j \in 1 .. Len(q[i])
        PROVE  (s \o q[k])[o[i - 1] + j] = q[i][j]
    <2>1. CASE i = k
      BY <1>1, <1>2, <2>1
    <2>2. CASE i # k
      <3>1. i \in 1 .. k - 1 /\ i \in 1 .. n /\ i \in 0 .. n /\ k - 1 \in i .. n
        BY <1>1, <2>2
      <3>2. o[i] <= o[k - 1] /\ o[i] = o[i - 1] + Len(q[i]) /\ o[i - 1] \in Nat
        <4>1. o[i] <= o[k - 1]
          BY <3>1, SumsGrow
        <4> QED
          BY <1>1, <3>1, <4>1 DEF Sums
      <3>3. Len(q[i]) \in Nat
        BY <3>1, LenProperties DEF Sums
      <3>4. o[i - 1] + j \in 1 .. Len(s)
        <4> DEFINE x == o[i - 1]
                   l == Len(q[i])
                   z == o[k - 1]
        <4>1. x \in Nat /\ l \in Nat /\ z \in Nat /\ x + l <= z /\ j \in 1 .. l /\ Len(s) = z
          BY <1>1, <1>3, <3>2, <3>3
        <4> HIDE DEF x, l, z
        <4>2. x + j \in 1 .. z
          BY <4>1
        <4> QED
          BY <4>1, <4>2 DEF x
      <3>5. s[o[i - 1] + j] = q[i][j]
        BY <3>1 DEF IsFlat
      <3> QED
        BY <1>2, <3>4, <3>5
    <2> QED
      BY <2>1, <2>2
  <1> QED
    BY <1>1, <1>2, <1>3, <1>4 DEF IsFlat

\* The concatenations of the first sequences
LEMMA FlatPrefixes ==
  ASSUME NEW n, NEW q, NEW o, Sums(n, q, o), n > 0
  PROVE  \E f : /\ f = [i \in 1 .. n |-> IF i = 1 THEN q[i] ELSE f[i - 1] \o q[i]]
                /\ \A i \in 1 .. n : IsFlat(i, q, o, f[i])
  <1> DEFINE Good(k, f) == /\ f = [i \in 1 .. k |-> f[i]]
                           /\ \A i \in 1 .. k : /\ f[i] = IF i = 1 THEN q[i] ELSE f[i - 1] \o q[i]
                                                /\ IsFlat(i, q, o, f[i])
             Bad == {k \in 1 .. n : ~\E f : Good(k, f)}
  <1>0. n \in Nat /\ q \in [1 .. n -> Seq(Nat)]
    BY DEF Sums
  <1>1. Bad = {}
    <2> SUFFICES ASSUME Bad # {} PROVE FALSE
      OBVIOUS
    <2>1. PICK k \in Bad : \A j \in Bad : k <= j
      <3>1. Bad \in SUBSET Nat
        OBVIOUS
      <3> HIDE DEF Bad
      <3> QED
        BY <3>1, LeastNat
    <2>2. k \in 1 .. n /\ ~\E f : Good(k, f)
      OBVIOUS
    <2> HIDE DEF Good
    <2>3. CASE k = 1
      <3> DEFINE f == [i \in 1 .. 1 |-> q[1]]
      <3>1. IsFlat(0, q, o, <<>>)
        BY EmptySeq DEF IsFlat, Sums
      <3>2. IsFlat(1, q, o, <<>> \o q[1])
        <4>1. 1 \in 1 .. n /\ 1 - 1 = 0
          BY <1>0
        <4> QED
          BY <3>1, <4>1, FlatExtends
      <3>3. <<>> \o q[1] = q[1]
        BY <1>0, ConcatEmptySeq
      <3>4. Good(1, f)
        BY <3>2, <3>3 DEF Good
      <3> QED
        BY <2>2, <2>3, <3>4
    <2>4. CASE k # 1
      <3>1. k - 1 \in 1 .. n /\ ~(k <= k - 1) /\ k \in 2 .. n
        BY <1>0, <2>2, <2>4
      <3>2. PICK g : Good(k - 1, g)
        BY <2>1, <3>1
      <3> DEFINE f == [i \in 1 .. k |-> IF i = k THEN g[k - 1] \o q[k] ELSE g[i]]
      <3>3. IsFlat(k - 1, q, o, g[k - 1])
        BY <3>1, <3>2, k - 1 \in 1 .. k - 1 DEF Good
      <3>4. IsFlat(k, q, o, g[k - 1] \o q[k])
        BY <2>2, <3>3, FlatExtends
      <3>5. f[k] = g[k - 1] \o q[k] /\ \A i \in 1 .. k - 1 : f[i] = g[i]
        <4>1. k \in 1 .. k /\ \A i \in 1 .. k - 1 : i \in 1 .. k /\ i # k
          BY <3>1
        <4> QED
          BY <4>1
      <3>6. f = [i \in 1 .. k |-> f[i]]
        OBVIOUS
      <3> HIDE DEF f
      <3>7. ASSUME NEW i \in 1 .. k
            PROVE  f[i] = (IF i = 1 THEN q[i] ELSE f[i - 1] \o q[i]) /\ IsFlat(i, q, o, f[i])
        <4>1. CASE i = k
          <5>1. f[k - 1] = g[k - 1]
            BY <3>1, <3>5, k - 1 \in 1 .. k - 1
          <5> QED
            BY <2>4, <3>4, <3>5, <4>1, <5>1
        <4>2. CASE i # k
          <5>1. i \in 1 .. k - 1 /\ (i # 1 => i - 1 \in 1 .. k - 1)
            BY <3>1, <4>2
          <5> QED
            BY <3>2, <3>5, <5>1 DEF Good
        <4> QED
          BY <4>1, <4>2
      <3>8. Good(k, f)
        BY <3>6, <3>7 DEF Good
      <3> QED
        BY <2>2, <3>8
    <2> QED
      BY <2>3, <2>4
  <1>2. PICK f : Good(n, f)
    BY <1>0, <1>1, n \in 1 .. n
  <1>3. f = [i \in 1 .. n |-> IF i = 1 THEN q[i] ELSE f[i - 1] \o q[i]]
    <2>1. f = [i \in 1 .. n |-> f[i]]
            /\ \A i \in 1 .. n : f[i] = IF i = 1 THEN q[i] ELSE f[i - 1] \o q[i]
      BY <1>2
    <2> QED
      BY <2>1
  <1> QED
    BY <1>2, <1>3

\* FlattenSeq concatenates.
LEMMA FlattenIs ==
  ASSUME NEW n, NEW q, NEW o, Sums(n, q, o)
  PROVE  IsFlat(n, q, o, FlattenSeq(q))
  <1>1. n \in Nat /\ q \in Seq(Seq(Nat)) /\ Len(q) = n
    BY FunIsSeq DEF Sums
  <1>2. CASE n = 0
    <2>1. q = <<>> /\ FlattenSeq(q) = q
      BY <1>1, <1>2, EmptySeq DEF FlattenSeq
    <2> QED
      BY <1>2, <2>1, EmptySeq DEF IsFlat, Sums
  <1>3. CASE n # 0
    <2> DEFINE Is(f) == f = [i \in 1 .. n |-> IF i = 1 THEN q[i] ELSE f[i - 1] \o q[i]]
               flatten == CHOOSE f : Is(f)
    <2>1. PICK f : Is(f) /\ \A i \in 1 .. n : IsFlat(i, q, o, f[i])
      <3>1. n > 0
        BY <1>1, <1>3
      <3> QED
        BY <3>1, FlatPrefixes
    <2>2. Is(flatten)
      <3> HIDE DEF Is
      <3> QED
        BY <2>1
    <2>3. FlattenSeq(q) = flatten[n]
      BY <1>1, <1>3 DEF FlattenSeq
    <2> HIDE DEF flatten
    <2>4. \A i \in 1 .. n : flatten[i] = f[i]
      <3> DEFINE Bad == {i \in 1 .. n : flatten[i] # f[i]}
      <3> SUFFICES ASSUME Bad # {} PROVE FALSE
        OBVIOUS
      <3>1. PICK k \in Bad : \A j \in Bad : k <= j
        <4>1. Bad \in SUBSET Nat
          OBVIOUS
        <4> HIDE DEF Bad
        <4> QED
          BY <4>1, LeastNat
      <3>2. k \in 1 .. n /\ flatten[k] # f[k]
        OBVIOUS
      <3>3. flatten[k] = IF k = 1 THEN q[k] ELSE flatten[k - 1] \o q[k]
        BY <2>2, <3>2
      <3>4. f[k] = IF k = 1 THEN q[k] ELSE f[k - 1] \o q[k]
        BY <2>1, <3>2
      <3>5. k # 1 => k - 1 \in 1 .. n /\ ~(k <= k - 1)
        BY <1>1, <3>2
      <3>6. k # 1 => flatten[k - 1] = f[k - 1]
        BY <3>1, <3>5
      <3> QED
        BY <3>2, <3>3, <3>4, <3>6
    <2> QED
      BY <1>1, <1>3, <2>1, <2>3, <2>4, n \in 1 .. n
  <1> QED
    BY <1>2, <1>3

\* The sequences r are the last ones of q, the first of them cut down to its last l elements.
CutTo(n, q, k, l, m, r) ==
  /\ k \in 1 .. n /\ l \in 1 .. Len(q[k]) /\ m = n - k + 1
  /\ r \in [1 .. m -> Seq(Nat)]
  /\ Len(r[1]) = l /\ \A j \in 1 .. l : r[1][j] = q[k][Len(q[k]) - l + j]
  /\ \A i \in 2 .. m : r[i] = q[k + i - 1]

\* What is left of a concatenation is its end.
LEMMA CutFlat ==
  ASSUME NEW n, NEW q, NEW o, Sums(n, q, o), NEW k, NEW l, NEW m, NEW r, CutTo(n, q, k, l, m, r),
         NEW t, t = l + (o[n] - o[k])
  PROVE  FlattenSeq(r) = SubSeq(FlattenSeq(q), o[n] - t + 1, o[n])
  <1> DEFINE p == [i \in 0 .. m |-> IF i = 0 THEN 0 ELSE l + (o[k + i - 1] - o[k])]
             s == FlattenSeq(q)
             u == SubSeq(s, o[n] - t + 1, o[n])
             d == o[k] - l
  <1>1. /\ n \in Nat /\ k \in 1 .. n /\ m \in Nat /\ m = n - k + 1 /\ l \in Nat /\ l >= 1
        /\ k + m - 1 = n
    <2>1. n \in Nat /\ k \in 1 .. n /\ m = n - k + 1
      BY DEF CutTo, Sums
    <2>2. l \in Nat /\ l >= 1
      BY <2>1, LenProperties DEF CutTo, Sums
    <2> QED
      BY <2>1, <2>2
  <1>2. \A i \in 1 .. m : k + i - 1 \in k .. n /\ k + i - 1 \in 0 .. n
    BY <1>1
  <1>3. /\ o[n] \in Nat /\ o[k] \in Nat /\ o[k] <= o[n]
        /\ \A i \in 1 .. m : o[k + i - 1] \in Nat /\ o[k] <= o[k + i - 1]
    <2>1. \A b \in k .. n : o[k] <= o[b]
      BY <1>1, SumsGrow
    <2>2. \A b \in 0 .. n : o[b] \in Nat
      BY DEF Sums
    <2> QED
      BY <1>1, <1>2, <2>1, <2>2
  <1>4. o[k] = o[k - 1] + Len(q[k]) /\ o[k - 1] \in Nat /\ Len(q[k]) \in Nat /\ l <= Len(q[k])
    BY <1>1, LenProperties DEF CutTo, Sums
  <1>5. d \in Nat /\ o[n] - t = d /\ t \in Nat
    <2> DEFINE x == o[k]
               y == o[n]
               z == o[k - 1]
               w == Len(q[k])
    <2>1. /\ x \in Nat /\ y \in Nat /\ z \in Nat /\ w \in Nat /\ l \in Nat /\ l <= w /\ x = z + w
          /\ x <= y /\ t = l + (y - x) /\ d = x - l
      BY <1>1, <1>3, <1>4
    <2> HIDE DEF x, y, z, w, d
    <2>2. d \in Nat /\ y - t = d /\ t \in Nat
      BY <2>1
    <2> QED
      BY <2>2 DEF y
  <1>6. Sums(m, r, p)
    <2>1. \A i \in 0 .. m : p[i] \in Nat
      BY <1>1, <1>3
    <2>2. p[1] = l
      BY <1>1, <1>3
    <2>3. ASSUME NEW i \in 2 .. m
          PROVE  p[i] = p[i - 1] + Len(r[i])
      <3>1. /\ i \in 1 .. m /\ i - 1 \in 1 .. m /\ i # 0 /\ i - 1 # 0
            /\ k + i - 1 \in 1 .. n /\ k + (i - 1) - 1 = (k + i - 1) - 1
        BY <1>1
      <3>2. p[i] = l + (o[k + i - 1] - o[k]) /\ p[i - 1] = l + (o[(k + i - 1) - 1] - o[k])
        BY <3>1
      <3>3. r[i] = q[k + i - 1] /\ o[k + i - 1] = o[(k + i - 1) - 1] + Len(q[k + i - 1])
        BY <3>1 DEF CutTo, Sums
      <3>4. o[k + i - 1] \in Nat /\ o[(k + i - 1) - 1] \in Nat /\ Len(r[i]) \in Nat
        BY <1>3, <3>1, <3>3, LenProperties DEF CutTo
      <3> DEFINE x == o[k + i - 1]
                 y == o[(k + i - 1) - 1]
                 z == o[k]
                 w == Len(r[i])
      <3>5. /\ x \in Nat /\ y \in Nat /\ z \in Nat /\ w \in Nat /\ l \in Nat
            /\ x = y + w /\ p[i] = l + (x - z) /\ p[i - 1] = l + (y - z)
                 /\ p[i - 1] + w = l + (y - z) + w
        BY <1>1, <1>3, <3>2, <3>3, <3>4
      <3> HIDE DEF p, x, y, z
      <3>6. p[i] = p[i - 1] + w
        <4> HIDE DEF w
        <4> QED
          BY <3>5
      <3> QED
        BY <3>6
    <2>4. p \in [0 .. m -> Nat] /\ p[0] = 0
      <3>1. 0 \in 0 .. m
        BY <1>1
      <3>2. p[0] = 0
        BY <3>1
      <3>3. p = [i \in 0 .. m |-> p[i]]
        OBVIOUS
      <3> HIDE DEF p
      <3> QED
        BY <2>1, <3>2, <3>3
    <2> HIDE DEF p
    <2>5. \A i \in 1 .. m : p[i] = p[i - 1] + Len(r[i])
      <3>1. Len(r[1]) = l
        BY DEF CutTo
      <3>2. \A i \in 1 .. m : i = 1 \/ i \in 2 .. m
        BY <1>1
      <3> QED
        <4>1. p[1] = p[1 - 1] + Len(r[1])
          BY <1>1, <2>2, <2>4, <3>1
        <4> QED
          BY <2>3, <3>2, <4>1
    <2> QED
      BY <1>1, <2>4, <2>5 DEF Sums, CutTo
  <1>7. IsFlat(n, q, o, s)
    BY FlattenIs
  <1>8. u \in Seq(Nat) /\ Len(u) = t /\ \A a \in 1 .. t : u[a] = s[d + a]
    <2>1. s \in Seq(Nat) /\ Len(s) = o[n] /\ DOMAIN s = 1 .. o[n]
            /\ \A a \in 1 .. o[n] : s[a] \in Nat
      BY <1>7, LenProperties DEF IsFlat
    <2> HIDE DEF s
    <2>2. /\ d + 1 \in Int /\ o[n] - (d + 1) + 1 = t /\ d + 1 <= o[n]
          /\ \A a \in d + 1 .. o[n] : a \in 1 .. o[n]
      <3>1. t >= 1
        BY <1>1, <1>3
      <3> HIDE DEF d
      <3> QED
        BY <1>3, <1>5, <3>1
    <2>3. u = SubSeq(s, d + 1, o[n])
      BY <1>5
    <2> HIDE DEF u, d
    <2>4. /\ u \in Seq(Nat)
          /\ Len(u) = t
          /\ \A a \in 1 .. t : u[a] = s[(d + 1) + a - 1]
      <3> DEFINE b == d + 1
                 e == o[n]
      <3>1. b \in Int /\ e \in Int /\ e - b + 1 = t /\ b <= e /\ u = SubSeq(s, b, e)
        BY <1>3, <2>2, <2>3
      <3>2. \A a \in b .. e : s[a] \in Nat
        BY <2>1, <2>2
      <3> HIDE DEF b, e
      <3>3. /\ u \in Seq(Nat) /\ Len(u) = IF b <= e THEN e - b + 1 ELSE 0
            /\ \A a \in 1 .. e - b + 1 : u[a] = s[b + a - 1]
        BY <3>1, <3>2, SubSeqProperties
      <3> QED
        BY <3>1, <3>3 DEF b
    <2>5. \A a \in 1 .. t : (d + 1) + a - 1 = d + a
      BY <1>5
    <2> QED
      BY <2>4, <2>5
  <1>9. p[m] = t
    BY <1>1, <1>3
  <1>10. ASSUME NEW i \in 1 .. m, NEW j \in 1 .. Len(r[i])
         PROVE  u[p[i - 1] + j] = r[i][j]
    <2>1. p[i - 1] + j \in 1 .. t /\ p[i - 1] \in Nat /\ j \in Nat
      <3> HIDE DEF p
      <3>1. p[i] = p[i - 1] + Len(r[i]) /\ p[i - 1] \in Nat /\ Len(r[i]) \in Nat /\ p[m] \in Nat
        BY <1>1, <1>6, LenProperties DEF Sums
      <3>2. p[i] <= p[m]
        BY <1>1, <1>6, SumsGrow
      <3> DEFINE x == p[i - 1]
                 y == Len(r[i])
                 z == p[m]
      <3>3. x \in Nat /\ y \in Nat /\ z \in Nat /\ x + y <= z /\ j \in 1 .. y
        BY <3>1, <3>2
      <3> HIDE DEF x, y, z
      <3>4. x + j \in 1 .. z /\ j \in Nat
        BY <3>3
      <3> QED
        BY <1>9, <3>1, <3>4 DEF x, z
    <2> DEFINE a == p[i - 1]
    <2> HIDE DEF u
    <2>2. u[a + j] = s[d + (a + j)]
      BY <1>8, <2>1
    <2>3. CASE i = 1
      <3>1. a = 0 /\ Len(r[1]) = l /\ r[1][j] = q[k][Len(q[k]) - l + j]
        BY <1>1, <2>3 DEF CutTo
      <3>2. Len(q[k]) - l + j \in 1 .. Len(q[k])
        <4> DEFINE w == Len(q[k])
        <4>1. w \in Nat /\ l \in 1 .. w /\ j \in 1 .. l
          BY <1>1, <1>4, <2>1, <2>3, <3>1
        <4> HIDE DEF w
        <4>2. w - l + j \in 1 .. w
          BY <4>1
        <4> QED
          BY <4>2 DEF w
      <3>3. d + (a + j) = o[k - 1] + (Len(q[k]) - l + j)
        <4> DEFINE x == o[k]
                   z == o[k - 1]
                   w == Len(q[k])
        <4>1. /\ x \in Nat /\ z \in Nat /\ w \in Nat /\ l \in Nat /\ j \in Nat
              /\ x = z + w /\ d = x - l /\ a = 0
          BY <1>1, <1>3, <1>4, <2>1, <3>1
        <4> HIDE DEF x, z, w, d, a
        <4>2. d + (a + j) = z + (w - l + j)
          BY <4>1
        <4> QED
          BY <4>2 DEF z, w
      <3>4. s[o[k - 1] + (Len(q[k]) - l + j)] = q[k][Len(q[k]) - l + j]
        BY <1>1, <1>7, <3>2 DEF IsFlat
      <3> QED
        BY <2>2, <2>3, <3>1, <3>3, <3>4
    <2>4. CASE i # 1
      <3>1. i \in 2 .. m /\ i - 1 \in 1 .. m /\ k + i - 1 \in 1 .. n
              /\ k + (i - 1) - 1 = (k + i - 1) - 1
        BY <1>1, <2>4
      <3>2. a = l + (o[(k + i - 1) - 1] - o[k]) /\ r[i] = q[k + i - 1]
        BY <3>1 DEF CutTo
      <3>3. o[(k + i - 1) - 1] \in Nat
        BY <1>3, <3>1
      <3> HIDE DEF a
      <3>4. d + (a + j) = o[(k + i - 1) - 1] + j
        <4> DEFINE x == o[k]
                   z == o[(k + i - 1) - 1]
        <4>1. /\ x \in Nat /\ z \in Nat /\ l \in Nat /\ j \in Nat
              /\ d = x - l /\ a = l + (z - x)
          BY <1>1, <1>3, <2>1, <3>2, <3>3
        <4> HIDE DEF x, z, d
        <4>2. d + (a + j) = z + j
          BY <4>1
        <4> QED
          BY <4>2 DEF z
      <3>5. s[o[(k + i - 1) - 1] + j] = q[k + i - 1][j]
        BY <1>7, <3>1, <3>2 DEF IsFlat
      <3> QED
        BY <2>2, <3>2, <3>4, <3>5 DEF a
    <2> QED
      BY <2>3, <2>4
  <1>11. IsFlat(m, r, p, u)
    <2> HIDE DEF u, p
    <2> QED
      BY <1>8, <1>9, <1>10 DEF IsFlat
  <1>12. IsFlat(m, r, p, FlattenSeq(r))
    BY <1>6, FlattenIs
  <1> HIDE DEF p, u
  <1> QED
    BY <1>6, <1>11, <1>12, FlatUnique DEF u, s

-----------------------------------------------------------------------------
(* What a snapshot shows *)

\* The items of a list are the concatenation of its chunks.
LEMMA ContentsSums ==
  ASSUME NEW h \in Seq(Seq(Nat)), NEW cs \in Seq(DOMAIN h)
  PROVE  /\ Sums(Len(cs), Contents(h, cs), Offset(h, cs))
         /\ IsFlat(Len(cs), Contents(h, cs), Offset(h, cs), FlattenSeq(Contents(h, cs)))
         /\ Len(FlattenSeq(Contents(h, cs))) = NumItems(h, cs)
  <1> DEFINE n == Len(cs)
             q == Contents(h, cs)
             o == Offset(h, cs)
  <1>1. n \in Nat /\ DOMAIN cs = 1 .. n /\ \A i \in 1 .. n : cs[i] \in DOMAIN h
    BY LenProperties, ElementOfSeq
  <1>2. q = [i \in 1 .. n |-> h[cs[i]]]
    BY <1>1 DEF Contents
  <1>3. o \in [0 .. n -> Nat] /\ o[0] = 0 /\ \A i \in 1 .. n : o[i] = o[i - 1] + Len(h[cs[i]])
    BY OffsetDef
  <1> HIDE DEF n, q, o
  <1>4. q \in [1 .. n -> Seq(Nat)] /\ \A i \in 1 .. n : q[i] = h[cs[i]]
    BY <1>1, <1>2
  <1>5. Sums(n, q, o)
    BY <1>1, <1>3, <1>4 DEF Sums
  <1>6. IsFlat(n, q, o, FlattenSeq(q))
    BY <1>5, FlattenIs
  <1>7. Len(FlattenSeq(q)) = o[n]
    BY <1>6 DEF IsFlat
  <1> QED
    BY <1>5, <1>6, <1>7 DEF n, q, o, NumItems

\* The items of the chunk that are kept are some of those it has.
LEMMA LeftFacts ==
  ASSUME TypeOK, ListShape, TooLong, NEW l, l = Left
  PROVE  /\ FirstKept \in 1 .. Len(chunks)
         /\ l \in 1 .. Len(heap[chunks[FirstKept]])
         /\ tail = l + (NumItems(heap, chunks) - Offset(heap, chunks)[FirstKept])
         /\ NumItems(heap, chunks) > tail
  <1> DEFINE n == Len(chunks)
             o == Offset(heap, chunks)
             N == NumItems(heap, chunks)
             k == FirstKept
             T == {i \in DOMAIN chunks : N - o[i - 1] >= tail} \cup {1}
  <1>1. chunks \in Seq(DOMAIN heap) /\ heap \in Seq(Seq(Nat)) /\ tail \in Nat
    BY ChunkListAssumption DEF TypeOK, Pointer
  <1>2. tail > 0 /\ N > tail
    BY ListCount DEF TooLong
  <1>3. chunks # <<>>
    BY <1>1, <1>2 DEF TooLong, CountItems
  <1>4. n \in Nat /\ n > 0 /\ DOMAIN chunks = 1 .. n
    BY <1>1, <1>3, LenProperties, EmptySeq
  <1>5. /\ k \in 1 .. n /\ N \in Nat /\ o[k] \in Nat /\ N - o[k] < tail
    BY <1>2, <1>3, FirstKeptFacts
  <1>6. /\ o \in [0 .. n -> Nat] /\ o[0] = 0 /\ N = o[n]
        /\ \A i \in 1 .. n : o[i] = o[i - 1] + Len(heap[chunks[i]])
    BY <1>1, OffsetDef DEF NumItems
  <1>7. k \in T
    <2>1. k = Max(T)
      BY DEF FirstKept
    <2> HIDE DEF k, N, o
    <2>2. T \in SUBSET (0 .. n) /\ T # {}
      BY <1>4
    <2> HIDE DEF T, n
    <2> QED
      BY <1>4, <2>1, <2>2, MaxNat
  <1>8. N - o[k - 1] >= tail
    <2> HIDE DEF k, N, o
    <2>1. CASE k = 1
      BY <1>1, <1>2, <1>5, <1>6, <2>1
    <2>2. CASE k # 1
      BY <1>7, <2>2
    <2> QED
      BY <2>1, <2>2
  <1>9. l = tail - (N - o[k])
    BY DEF Left
  <1>10. /\ o[k] = o[k - 1] + Len(heap[chunks[k]]) /\ o[k - 1] \in Nat
         /\ Len(heap[chunks[k]]) \in Nat
    <2>1. chunks[k] \in DOMAIN heap
      BY <1>1, <1>4, <1>5, ElementOfSeq
    <2>2. Len(heap[chunks[k]]) \in Nat
      BY <1>1, <2>1, LenProperties
    <2>3. o[k] = o[k - 1] + Len(heap[chunks[k]])
      BY <1>5, <1>6
    <2>4. o[k - 1] \in Nat
      <3> HIDE DEF k, n, o
      <3>1. k - 1 \in 0 .. n
        BY <1>4, <1>5
      <3> QED
        BY <1>6, <3>1
    <2> QED
      BY <2>2, <2>3, <2>4
  <1> HIDE DEF k, N, o
  <1>11. l \in 1 .. Len(heap[chunks[k]]) /\ tail = l + (N - o[k])
    <2> DEFINE x == o[k]
               z == o[k - 1]
               w == Len(heap[chunks[k]])
    <2>1. /\ x \in Nat /\ z \in Nat /\ w \in Nat /\ N \in Nat /\ tail \in Nat /\ x = z + w
          /\ l = tail - (N - x) /\ N - z >= tail /\ N - x < tail
      BY <1>1, <1>5, <1>8, <1>9, <1>10
    <2> HIDE DEF x, z, w
    <2>2. l \in 1 .. w /\ tail = l + (N - x)
      BY <2>1
    <2> QED
      BY <2>2 DEF x, w
  <1> QED
    BY <1>2, <1>5, <1>11 DEF k, N, o

\* The trimmed list shows the last tail items of the list.
LEMMA TrimShows ==
  ASSUME TypeOK, ListShape, NEW is, is = FlattenSeq(Contents(heap, chunks)),
         NEW c, c = Contents(Trim.heap, Trim.chunks)
  PROVE  /\ ~TooLong => c = Contents(heap, chunks) /\ ~Trim.changed
         /\ TooLong => /\ FlattenSeq(c) = SubSeq(is, Len(is) - tail + 1, Len(is))
                       /\ Trim.changed
  <1>1. CASE ~TooLong
    BY <1>1 DEF Trim
  <1>2. CASE TooLong
    <2> DEFINE n == Len(chunks)
               q == Contents(heap, chunks)
               o == Offset(heap, chunks)
               k == FirstKept
               l == Left
               m == n - k + 1
               first == heap[chunks[k]]
               kept == SubSeq(first, Len(first) - l + 1, Len(first))
               rest == SubSeq(chunks, k + 1, n)
               r == Contents(Trim.heap, Trim.chunks)
    <2>1. chunks \in Seq(DOMAIN heap) /\ heap \in Seq(Seq(Nat)) /\ tail \in Nat
      BY ChunkListAssumption DEF TypeOK, Pointer
    <2>2. n \in Nat /\ DOMAIN chunks = 1 .. n /\ \A i \in 1 .. n : chunks[i] \in DOMAIN heap
      BY <2>1, LenProperties, ElementOfSeq
    <2>3. /\ k \in 1 .. n /\ l \in 1 .. Len(first) /\ tail = l + (NumItems(heap, chunks) - o[k])
          /\ NumItems(heap, chunks) > tail
      BY <1>2, LeftFacts
    <2>4. Sums(n, q, o) /\ Len(is) = o[n] /\ NumItems(heap, chunks) = o[n]
      BY <2>1, ContentsSums DEF NumItems
    <2>5. \A i \in 1 .. n : q[i] = heap[chunks[i]]
      BY <2>2 DEF Contents
    <2>6. first \in Seq(Nat) /\ Len(first) \in Nat
      BY <2>1, <2>2, <2>3, LenProperties
    <2> HIDE DEF n, q, o, k, l, first
    <2>7. rest \in Seq(DOMAIN heap) /\ Len(rest) = n - k
            /\ \A i \in 1 .. n - k : rest[i] = chunks[k + i]
      <3>1. \A i \in k + 1 .. n : chunks[i] \in DOMAIN heap
        BY <2>2, <2>3
      <3> DEFINE a == k + 1
      <3>2. a \in Int /\ n \in Int /\ n - a + 1 = n - k /\ (a <= n \/ n - k = 0)
              /\ \A i \in 1 .. n - k : a + i - 1 = k + i
        BY <2>2, <2>3
      <3> HIDE DEF a
      <3>3. /\ SubSeq(chunks, a, n) \in Seq(DOMAIN heap)
            /\ Len(SubSeq(chunks, a, n)) = IF a <= n THEN n - a + 1 ELSE 0
            /\ \A i \in 1 .. n - a + 1 : SubSeq(chunks, a, n)[i] = chunks[a + i - 1]
        BY <3>1, <3>2, SubSeqProperties DEF a
      <3>4. rest = SubSeq(chunks, a, n)
        BY DEF a
      <3>5. Len(rest) = n - k
        BY <3>2, <3>3, <3>4 DEF a
      <3> HIDE DEF rest
      <3> QED
        BY <3>2, <3>3, <3>4, <3>5
    <2> HIDE DEF rest
    <2>8. \E h : \E x \in DOMAIN h :
            /\ Extends(heap, h) /\ Trim.heap = h /\ Trim.chunks = <<x>> \o rest /\ Trim.changed
            /\ h[x] \in Seq(Nat) /\ Len(h[x]) = l
            /\ \A j \in 1 .. l : h[x][j] = first[Len(first) - l + j]
      <3>1. CASE Len(first) > l
        <4>1. /\ Trim.heap = Append(heap, kept) /\ Trim.chunks = <<Len(heap) + 1>> \o rest
              /\ Trim.changed
          BY <1>2, <3>1 DEF Trim, l, first, k, rest, n
        <4>2. /\ kept \in Seq(Nat) /\ Len(kept) = l
              /\ \A j \in 1 .. l : kept[j] = first[Len(first) - l + j]
          <5> DEFINE w == Len(first)
                     a == w - l + 1
          <5>1. /\ a \in Int /\ w \in Int /\ w - a + 1 = l /\ a <= w
                /\ \A i \in a .. w : i \in 1 .. w
                /\ \A i \in 1 .. l : a + i - 1 = w - l + i
            <6>1. w \in Nat /\ l \in 1 .. w
              BY <2>3, <2>6
            <6> HIDE DEF w
            <6> QED
              BY <6>1
          <5>2. \A i \in a .. w : first[i] \in Nat
            BY <2>6, <5>1, LenProperties
          <5>3. kept = SubSeq(first, a, w)
            OBVIOUS
          <5> HIDE DEF a, w, kept
          <5>4. /\ kept \in Seq(Nat) /\ Len(kept) = IF a <= w THEN w - a + 1 ELSE 0
                /\ \A i \in 1 .. w - a + 1 : kept[i] = first[a + i - 1]
            BY <5>1, <5>2, <5>3, SubSeqProperties
          <5> QED
            BY <5>1, <5>4 DEF w
        <4> HIDE DEF kept
        <4>3. /\ Extends(heap, Append(heap, kept)) /\ Len(heap) + 1 \in DOMAIN Append(heap, kept)
              /\ Append(heap, kept)[Len(heap) + 1] = kept
          BY <2>1, <4>2, Allocate
        <4> DEFINE g == Append(heap, kept)
                   y == Len(heap) + 1
        <4>4. Trim.heap = g /\ Trim.chunks = <<y>> \o rest
          BY <4>1
        <4>5. Extends(heap, g) /\ y \in DOMAIN g /\ g[y] = kept
          BY <4>3
        <4>6. Trim.changed
          BY <4>1
        <4> HIDE DEF g, y
        <4>7. /\ g[y] \in Seq(Nat) /\ Len(g[y]) = l
              /\ \A j \in 1 .. l : g[y][j] = first[Len(first) - l + j]
          BY <4>2, <4>5
        <4>8. \E x \in DOMAIN g :
                /\ Extends(heap, g) /\ Trim.heap = g /\ Trim.chunks = <<x>> \o rest /\ Trim.changed
                /\ g[x] \in Seq(Nat) /\ Len(g[x]) = l
                /\ \A j \in 1 .. l : g[x][j] = first[Len(first) - l + j]
          BY <4>4, <4>5, <4>6, <4>7
        <4> QED
          BY <4>8
      <3>2. CASE ~(Len(first) > l)
        <4>1. Trim.heap = heap /\ Trim.chunks = <<chunks[k]>> \o rest /\ Trim.changed
          BY <1>2, <3>2 DEF Trim, l, first, k, rest, n
        <4>2. Extends(heap, heap)
          BY <2>1, LenProperties DEF Extends
        <4>3. Len(first) = l /\ \A j \in 1 .. l : Len(first) - l + j = j
          BY <2>3, <2>6, <3>2
        <4>4. chunks[k] \in DOMAIN heap /\ heap[chunks[k]] = first
          BY <2>2, <2>3 DEF first
        <4> QED
          BY <2>6, <4>1, <4>2, <4>3, <4>4
      <3> QED
        BY <3>1, <3>2
    <2>9. PICK h : \E x \in DOMAIN h :
            /\ Extends(heap, h) /\ Trim.heap = h /\ Trim.chunks = <<x>> \o rest /\ Trim.changed
            /\ h[x] \in Seq(Nat) /\ Len(h[x]) = l
            /\ \A j \in 1 .. l : h[x][j] = first[Len(first) - l + j]
      BY <2>8
    <2>10. PICK x \in DOMAIN h :
            /\ Extends(heap, h) /\ Trim.heap = h /\ Trim.chunks = <<x>> \o rest /\ Trim.changed
            /\ h[x] \in Seq(Nat) /\ Len(h[x]) = l
            /\ \A j \in 1 .. l : h[x][j] = first[Len(first) - l + j]
      BY <2>9
    <2> DEFINE cs == <<x>> \o rest
    <2>11. /\ cs \in Seq(DOMAIN h) /\ Len(cs) = m /\ cs[1] = x /\ m \in Nat /\ m >= 1
           /\ \A i \in 2 .. m : cs[i] = chunks[k + i - 1]
      <3>1. rest \in Seq(DOMAIN h) /\ <<x>> \in Seq(DOMAIN h) /\ Len(<<x>>) = 1 /\ <<x>>[1] = x
        <4>1. \A i \in 1 .. Len(rest) : rest[i] \in DOMAIN h
          BY <2>1, <2>7, <2>10, LenProperties, ElementOfSeq DEF Extends
        <4> QED
          BY <2>7, <4>1, SeqDef, LenProperties
      <3>2. /\ cs \in Seq(DOMAIN h) /\ Len(cs) = 1 + Len(rest)
            /\ \A i \in 1 .. 1 + Len(rest) : cs[i] = IF i <= 1 THEN <<x>>[i] ELSE rest[i - 1]
        <4> DEFINE one == <<x>>
        <4> HIDE DEF one
        <4>1. one \in Seq(DOMAIN h) /\ Len(one) = 1
          BY <3>1 DEF one
        <4>2. /\ one \o rest \in Seq(DOMAIN h) /\ Len(one \o rest) = Len(one) + Len(rest)
              /\ \A i \in 1 .. Len(one) + Len(rest) :
                   (one \o rest)[i] = IF i <= Len(one) THEN one[i] ELSE rest[i - Len(one)]
          BY <3>1, <4>1, ConcatProperties
        <4> QED
          BY <4>1, <4>2 DEF one
      <3>3. m \in Nat /\ m >= 1 /\ 1 + (n - k) = m /\ n - k \in Nat
        BY <2>2, <2>3
      <3>4. \A i \in 2 .. m : i \in 1 .. m /\ ~(i <= 1) /\ i - 1 \in 1 .. n - k
              /\ k + (i - 1) = k + i - 1
        BY <2>2, <2>3
      <3> HIDE DEF cs, m
      <3>5. cs[1] = x
        BY <2>7, <3>1, <3>2, <3>3
      <3>6. \A i \in 2 .. m : cs[i] = chunks[k + i - 1]
        BY <2>7, <3>2, <3>3, <3>4
      <3> QED
        BY <2>7, <3>2, <3>3, <3>5, <3>6
    <2> HIDE DEF cs
    <2>12. DOMAIN cs = 1 .. m /\ r = [i \in 1 .. m |-> h[cs[i]]]
      <3>1. DOMAIN cs = 1 .. m
        BY <2>11, LenProperties
      <3> QED
        BY <2>10, <3>1 DEF Contents, cs
    <2>13. CutTo(n, q, k, l, m, r)
      <3>1. r \in [1 .. m -> Seq(Nat)]
        <4>1. \A i \in 1 .. m : cs[i] \in DOMAIN h
          BY <2>11, <2>12, ElementOfSeq
        <4>2. h \in Seq(Seq(Nat))
          BY <2>10 DEF Extends
        <4>3. \A i \in 1 .. m : h[cs[i]] \in Seq(Nat)
          BY <4>1, <4>2, LenProperties, ElementOfSeq
        <4> QED
          BY <2>12, <4>3
      <3>2. r[1] = h[x] /\ q[k] = first
        BY <2>3, <2>5, <2>11, <2>12 DEF first
      <3>3. ASSUME NEW i \in 2 .. m PROVE r[i] = q[k + i - 1]
        <4>1. i \in 1 .. m /\ k + i - 1 \in 1 .. n
          BY <2>2, <2>3, <2>11
        <4>2. r[i] = h[chunks[k + i - 1]] /\ q[k + i - 1] = heap[chunks[k + i - 1]]
          BY <2>5, <2>11, <2>12, <4>1
        <4>3. chunks[k + i - 1] \in DOMAIN heap
          BY <2>2, <4>1
        <4> QED
          BY <2>10, <4>2, <4>3 DEF Extends
      <3> HIDE DEF r
      <3> QED
        BY <2>3, <2>10, <3>1, <3>2, <3>3 DEF CutTo
    <2>14. c = r /\ is = FlattenSeq(q)
      BY DEF q
    <2>15. tail = l + (o[n] - o[k])
      BY <2>3, <2>4
    <2> HIDE DEF r, m
    <2>16. FlattenSeq(r) = SubSeq(FlattenSeq(q), o[n] - tail + 1, o[n])
      BY <2>4, <2>13, <2>15, CutFlat
    <2>17. Trim.changed
      BY <2>10
    <2> QED
      BY <1>2, <2>4, <2>14, <2>16, <2>17
  <1> QED
    BY <1>1, <1>2

\* A duplicate shows what the list shows.
LEMMA DuplicateShows ==
  ASSUME NEW h \in Seq(Seq(Nat)), NEW cs, cs \in Seq(DOMAIN h),
         NEW r, r = Duplicate(h, cs)
  PROVE  Contents(r.heap, r.chunks) = Contents(h, cs)
  <1> DEFINE n == Len(cs)
  <1>1. n \in Nat /\ DOMAIN cs = 1 .. n /\ \A i \in 1 .. n : cs[i] \in DOMAIN h
    BY LenProperties, ElementOfSeq
  <1>2. CASE cs = <<>>
    BY <1>2 DEF Duplicate, Contents
  <1>3. CASE cs # <<>>
    <2>1. n > 0 /\ 1 \in 1 .. n /\ n \in 1 .. n /\ Last(cs) = cs[n]
      BY <1>1, <1>3, EmptySeq DEF Last
    <2>2. Len(h) \in Nat /\ h[cs[1]] \in Seq(Nat) /\ h[cs[n]] \in Seq(Nat)
      BY <1>1, <2>1, LenProperties
    <2>3. CASE tail > 0 /\ n > 1
      <3> DEFINE g == Append(h, h[cs[1]])
                 k == Append(g, h[cs[n]])
                 ds == [cs EXCEPT ![1] = Len(h) + 1, ![n] = Len(h) + 2]
      <3>1. r.heap = k /\ r.chunks = ds
        BY <1>3, <2>1, <2>3 DEF Duplicate
      <3>2. /\ g \in Seq(Seq(Nat)) /\ Extends(h, g) /\ Len(h) + 1 \in DOMAIN g
            /\ g[Len(h) + 1] = h[cs[1]] /\ Len(g) = Len(h) + 1
        BY <2>2, Allocate, AppendProperties DEF Extends
      <3> HIDE DEF g
      <3>3. Extends(g, k) /\ k[Len(g) + 1] = h[cs[n]]
        BY <2>2, <3>2, Allocate
      <3> HIDE DEF k
      <3>4. k[Len(h) + 1] = h[cs[1]] /\ k[Len(h) + 2] = h[cs[n]]
        <4>1. Len(h) + 2 = Len(g) + 1
          BY <2>2, <3>2
        <4> QED
          BY <3>2, <3>3, <4>1 DEF Extends
      <3>5. \A c \in DOMAIN h : k[c] = h[c]
        BY <3>2, <3>3 DEF Extends
      <3>6. DOMAIN ds = 1 .. n /\ \A i \in 1 .. n : ds[i] = IF i = n THEN Len(h) + 2
                                                      ELSE IF i = 1 THEN Len(h) + 1 ELSE cs[i]
        <4> HIDE DEF n
        <4> QED
          BY <1>1, <2>1
      <3> HIDE DEF ds
      <3>7. \A i \in 1 .. n : k[ds[i]] = h[cs[i]]
        BY <1>1, <3>4, <3>5, <3>6
      <3> QED
        BY <1>1, <3>1, <3>6, <3>7 DEF Contents
    <2>4. CASE ~(tail > 0 /\ n > 1)
      <3> DEFINE k == Append(h, h[cs[n]])
                 ds == [cs EXCEPT ![n] = Len(h) + 1]
      <3>1. r.heap = k /\ r.chunks = ds
        BY <1>3, <2>1, <2>4 DEF Duplicate
      <3>2. Extends(h, k) /\ k[Len(h) + 1] = h[cs[n]]
        BY <2>2, Allocate
      <3> HIDE DEF k
      <3>3. DOMAIN ds = 1 .. n /\ \A i \in 1 .. n : ds[i] = IF i = n THEN Len(h) + 1 ELSE cs[i]
        <4> HIDE DEF n
        <4> QED
          BY <1>1, <2>1
      <3> HIDE DEF ds
      <3>4. \A i \in 1 .. n : k[ds[i]] = h[cs[i]]
        BY <1>1, <3>2, <3>3 DEF Extends
      <3> QED
        BY <1>1, <3>1, <3>3, <3>4 DEF Contents
    <2> QED
      BY <2>3, <2>4
  <1> QED
    BY <1>2, <1>3

\* What SnapshotExact says of one step: a new snapshot shows the last items of
\* the list, as many as --tail lets it keep.
ShowsTheEnd ==
  LET is == FlattenSeq(Contents(heap, chunks))
      kept == IF tail > 0 /\ Len(is) > tail THEN tail ELSE Len(is)
  IN  \A s \in taken' \ taken :
        /\ FlattenSeq(s.items) = SubSeq(is, Len(is) - kept + 1, Len(is))
        /\ s.changed <=> kept < Len(is)

\* Every step is such a step.
LEMMA ExactStep ==
  ASSUME IInv, [Next]_vars
  PROVE  ShowsTheEnd
  <1> DEFINE is == FlattenSeq(Contents(heap, chunks))
             kept == IF tail > 0 /\ Len(is) > tail THEN tail ELSE Len(is)
  <1> SUFFICES \A s \in taken' \ taken :
                 /\ FlattenSeq(s.items) = SubSeq(is, Len(is) - kept + 1, Len(is))
                 /\ s.changed <=> kept < Len(is)
    BY DEF ShowsTheEnd
  <1>0. TypeOK /\ ListShape
    BY DEF IInv
  <1>1. CASE taken' = taken
    BY <1>1
  <1>2. CASE Snapshot
    <2> DEFINE h == Trim.heap
               cs == Trim.chunks
               ret == Duplicate(h, cs)
    <2>1. SUFFICES ASSUME NEW s \in taken' \ taken
                   PROVE  /\ FlattenSeq(s.items) = SubSeq(is, Len(is) - kept + 1, Len(is))
                          /\ s.changed <=> kept < Len(is)
      OBVIOUS
    <2>2. s.items = Contents(ret.heap, ret.chunks) /\ s.changed = Trim.changed
      BY <1>2, <2>1 DEF Snapshot
    <2>3. h \in Seq(Seq(Nat)) /\ cs \in Seq(DOMAIN h)
      BY <1>0, TrimList DEF WellFilled, Extends
    <2>4. s.items = Contents(h, cs)
      <3> HIDE DEF h, cs
      <3> QED
        BY <2>2, <2>3, DuplicateShows
    <2>5. /\ ~TooLong => s.items = Contents(heap, chunks) /\ ~s.changed
          /\ TooLong => /\ FlattenSeq(s.items) = SubSeq(is, Len(is) - tail + 1, Len(is))
                        /\ s.changed
      <3>1. /\ ~TooLong => Contents(h, cs) = Contents(heap, chunks) /\ ~Trim.changed
            /\ TooLong => /\ FlattenSeq(Contents(h, cs)) = SubSeq(is, Len(is) - tail + 1, Len(is))
                          /\ Trim.changed
        BY <1>0, TrimShows
      <3> QED
        BY <2>2, <2>4, <3>1
    <2>6. heap \in Seq(Seq(Nat)) /\ chunks \in Seq(DOMAIN heap) /\ tail \in Nat
      BY <1>0, ChunkListAssumption DEF TypeOK, Pointer
    <2>7. Len(is) = NumItems(heap, chunks) /\ is \in Seq(Nat) /\ Len(is) \in Nat
      <3>1. is \in Seq(Nat) /\ Len(is) = NumItems(heap, chunks)
        BY <2>6, ContentsSums DEF IsFlat
      <3> QED
        BY <3>1, LenProperties
    <2>8. TooLong <=> tail > 0 /\ Len(is) > tail
      BY <1>0, <2>7, ListCount DEF TooLong
    <2> HIDE DEF is
    <2>9. CASE TooLong
      BY <2>5, <2>6, <2>7, <2>8, <2>9
    <2>10. CASE ~TooLong
      <3>1. kept = Len(is) /\ Len(is) - kept + 1 = 1 /\ ~(kept < Len(is))
        BY <2>7, <2>8, <2>10
      <3>2. SubSeq(is, 1, Len(is)) = is
        BY <2>7, SubSeqFull
      <3> QED
        BY <2>5, <2>10, <3>1, <3>2 DEF is
    <2> QED
      BY <2>9, <2>10
  <1>3. CASE Push \/ Clear \/ CacheClear \/ (\E s \in taken : CacheAdd(s)) \/ UNCHANGED vars
    BY <1>1, <1>3 DEF Push, Clear, CacheClear, CacheAdd, vars
  <1> QED
    BY <1>2, <1>3 DEF Next

-----------------------------------------------------------------------------
\* The invariant holds in every reachable state.
THEOREM Invariance == Spec => []IInv
  <1>1. IInv /\ [Next]_vars => IInv'
    BY Inductive
  <1> QED
    BY InitIInv, <1>1, PTL DEF Spec

\* Every variable of the chunk list keeps its type (chunklist.go).
THEOREM Typing == Spec => []TypeOK
  <1>1. IInv => TypeOK
    BY DEF IInv
  <1> QED
    BY Invariance, <1>1, PTL

\* The chunks of the list are full but for the first and the last one, and the
\* chunk that Push fills is in no snapshot (chunklist.go, Push and Snapshot).
THEOREM Shape == Spec => []ListShape
  <1>1. IInv => ListShape
    BY DEF IInv
  <1> QED
    BY Invariance, <1>1, PTL

\* "Snapshot returns immutable snapshot of the ChunkList" (chunklist.go): what
\* a snapshot shows never changes, for every chunk size and every --tail.
THEOREM Immutable == Spec => []SnapshotsImmutable
  <1>1. IInv => SnapshotsImmutable
    BY DEF IInv
  <1> QED
    BY Invariance, <1>1, PTL

\* CountItems, which looks at the first and the last chunk only, counts every
\* item of the list, and so does the count returned with a snapshot.
THEOREM CountRight == Spec => []CountIsRight
  <1>1. IInv => CountIsRight
    BY DEF IInv
  <1> QED
    BY Invariance, <1>1, PTL

\* A chunk that has an entry in the ChunkCache is never written again, so the
\* bitmaps in the cache stay about the items they were computed from.
THEOREM CachedStable == Spec => CachedChunksStable
  <1>1. IInv /\ [Next]_vars => [\A c \in cached : heap'[c] = heap[c]]_vars
    BY Inductive
  <1>2. Spec => [][\A c \in cached : heap'[c] = heap[c]]_vars
    BY Invariance, <1>1, PTL DEF Spec
  <1> QED
    BY <1>2 DEF CachedChunksStable

\* A new snapshot shows the last tail items of the list, in order and none
\* twice or missing, and says that the list lost items exactly if it did.
THEOREM SnapshotsExact == Spec => SnapshotExact
  <1>1. IInv /\ [Next]_vars => [ShowsTheEnd]_vars
    BY ExactStep
  <1>2. Spec => [][ShowsTheEnd]_vars
    BY Invariance, <1>1, PTL DEF Spec
  <1> QED
    BY <1>2 DEF SnapshotExact, ShowsTheEnd
=============================================================================
