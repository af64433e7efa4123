------------------------------- MODULE Merging -------------------------------
(***************************************************************************)
(* The ranks of matches (result.go) and the single list the terminal sees  *)
(* of the lists of the workers (merger.go): each worker sorts its own      *)
(* matches, and the merger takes the best of their heads only when a row   *)
(* that far is asked for.  With an empty query it reads the chunks.        *)
(*                                                                         *)
(* A result is [index, points], the points most significant first.         *)
(***************************************************************************)
EXTENDS Tokens

CONSTANTS
  Searches,         \* [texts, options (what an item's match may be, <<>> for none), criteria, workers]
  Snapshots,        \* chunk lists: sequences of sequences of item indices
  HeaderLines,      \* the numbers of items taken as header lines (startIndex)
  ChunkSize,        \* chunkSize
  RadixMin          \* results from which radixSortResults sorts by digits (128)

\* A snapshot of the chunk list: only the first and the last chunk may be short of items, no chunk
\* is empty, and the items are numbered one after the other from that of the first.
IsSnapshot(chunks) ==
  LET Before(k) == IF k = 1 THEN 0 ELSE Len(chunks[1]) + ChunkSize * (k - 2) IN
  /\ chunks \in Seq(Seq(Nat)) \ {<<>>}
  /\ \A k \in DOMAIN chunks : Len(chunks[k]) \in 1 .. ChunkSize
  /\ \A k \in 2 .. Len(chunks) - 1 : Len(chunks[k]) = ChunkSize
  /\ \A k \in DOMAIN chunks : \A i \in DOMAIN chunks[k] : chunks[k][i] = chunks[1][1] + Before(k) + i - 1

Criteria == {"score", "length", "chunk", "pathname", "begin", "end"}

IsSearch(s) ==
  /\ s.texts \in Seq(Seq(STRING))
  /\ s.criteria \in Seq(Criteria)
  /\ s.workers \in Nat
  /\ \A option \in s.options \ {<<>>} :
       option[1].score \in Int /\ option[1].offsets \subseteq Nat \X Nat /\ IsFiniteSet(option[1].offsets)

ASSUME MergingAssumption ==
  /\ ChunkSize \in Nat \ {0}
  /\ HeaderLines \subseteq Nat
  /\ \A chunks \in Snapshots : IsSnapshot(chunks)
  /\ \A s \in Searches : IsSearch(s)

VARIABLES
  view,             \* the merger; [kind |-> "none"] if this part of the model is idle
  got               \* the last answer of Get: <<row, item index>>

MaxUint16 == 65535
AsUint16(n) == IF n > MaxUint16 THEN MaxUint16 ELSE MaxOf(n, 0)
----------------------------------------------------------------------------
(* Ranks *)

TrimLength(text) ==
  IF Leading(text) = Len(text) THEN 0 ELSE AsUint16(Len(text) - Leading(text) - Trailing(text))
FirstOf(S) == CHOOSE x \in S : \A y \in S : x <= y
LastOf(S) == CHOOSE x \in S : \A y \in S : x >= y

\* buildResultFromBounds: one point; b..e are the places of the match, m its first end
Point(criterion, text, score, b, m, e) ==
  LET n == Len(text)
      spaces == {i \in 0 .. n - 1 : IsSpace(At(text, i))}
      white == FirstOf({i \in 0 .. n : i = b \/ i >= n - 1 \/ i \notin spaces})
      delims == {-1} \cup {i \in 0 .. n - 1 : At(text, i) = "/"}
  IN  CASE criterion = "score" -> MaxUint16 - AsUint16(score)
        [] criterion = "length" -> TrimLength(text)
        [] OTHER ->
             IF b >= e THEN MaxUint16 ELSE
             CASE criterion = "chunk" ->
                    LET from == LastOf({0} \cup {i + 1 : i \in {s \in spaces : s < b}})
                        to == FirstOf({n} \cup {s \in spaces : s >= e})
                    IN  AsUint16(to - from)
               [] criterion = "pathname" ->
                    IF LastOf(delims) <= b THEN AsUint16(b - LastOf(delims)) ELSE MaxUint16
               [] criterion = "begin" -> AsUint16(m - white)
               [] criterion = "end" ->
                    AsUint16(MaxUint16 - (MaxUint16 * (e - white)) \div (TrimLength(text) + 1))

\* buildResult: of the offsets, the first begin and end and the last end count; empty ones do not.
BuildResult(index, text, match, criteria) ==
  LET valid == {m \in match.offsets : m[1] < m[2]}
      b == IF valid = {} THEN 0 ELSE FirstOf({m[1] : m \in valid})
      m == IF valid = {} THEN 0 ELSE FirstOf({x[2] : x \in valid})
      e == IF valid = {} THEN 0 ELSE LastOf({x[2] : x \in valid})
  IN  [index |-> index,
       points |-> [k \in 1 .. 4 |-> IF k > Len(criteria) THEN 0
                                    ELSE Point(criteria[k], text, match.score, b, m, e)]]

CompareRanks(i, j, tac) ==
  LET differ == {k \in 1 .. 4 : i.points[k] # j.points[k]} IN
  IF differ = {} THEN (i.index <= j.index) # tac ELSE i.points[FirstOf(differ)] < j.points[FirstOf(differ)]

\* sortKey: a byte of the key, pass 0 the least significant
Digit(r, pass) ==
  LET point == r.points[4 - pass \div 2] IN IF pass % 2 = 0 THEN point % 256 ELSE point \div 256

\* Member k of a set in the order of `before`, a set of pairs; s in such an order of its places
Nth(S, before, k) == CHOOSE i \in S : Cardinality({j \in S : <<j, i>> \in before}) = k - 1
Arranged(s, before) == [k \in DOMAIN s |-> s[Nth(DOMAIN s, before, k)]]

\* One pass of the radix sort, which counts: results with the same digit keep their order.
Scatter(s, pass) ==
  Arranged(s, {e \in (DOMAIN s) \X (DOMAIN s) :
                 \/ Digit(s[e[1]], pass) < Digit(s[e[2]], pass)
                 \/ Digit(s[e[1]], pass) = Digit(s[e[2]], pass) /\ e[1] < e[2]})

\* sort.Sort with ByRelevance or ByRelevanceTac
ByRelevance(s, tac) ==
  Arranged(s, {e \in (DOMAIN s) \X (DOMAIN s) : e[1] # e[2] /\ CompareRanks(s[e[1]], s[e[2]], tac)})

\* Faulty variant of Reversals: equal keys stay in the order of the items.
ReversalsNone(s) == s

\* Runs of equal keys in reverse, for --tac
Reversals(s) ==
  LET Turned(i) ==
        LET run == {j \in DOMAIN s : s[j].points = s[i].points} IN FirstOf(run) + LastOf(run) - i
  IN  [i \in DOMAIN s |-> s[Turned(i)]]

\* radixSortResults
RadixSortResults(s, tac) ==
  LET sorted[pass \in 0 .. 8] == IF pass = 0 THEN s ELSE Scatter(sorted[pass - 1], pass - 1) IN
  IF Len(s) < RadixMin THEN ByRelevance(s, tac)
  ELSE IF tac THEN Reversals(sorted[8]) ELSE sorted[8]
----------------------------------------------------------------------------
(* The merger *)

Sum(f) == LET sum[n \in 0 .. Len(f)] == IF n = 0 THEN 0 ELSE sum[n - 1] + f[n] IN sum[Len(f)]

NewMerger(lists, sorted, tac) ==
  [kind |-> "lists", lists |-> lists, sorted |-> sorted, tac |-> tac, merged |-> <<>>,
   cursors |-> [l \in DOMAIN lists |-> 0], count |-> Sum([l \in DOMAIN lists |-> Len(lists[l])])]

\* Faulty variant of PassMerger: the header lines are not counted in the first index.
PassMergerFromFirst(chunks, tac, startIndex) ==
  [kind |-> "pass", chunks |-> chunks, tac |-> tac, startIndex |-> startIndex, minIndex |-> chunks[1][1],
   count |-> MaxOf(0, Sum([k \in DOMAIN chunks |-> Len(chunks[k])]) - startIndex)]

\* The first startIndex items are header lines.
PassMerger(chunks, tac, startIndex) ==
  [kind |-> "pass", chunks |-> chunks, tac |-> tac, startIndex |-> startIndex,
   minIndex |-> chunks[1][1] + startIndex,
   count |-> MaxOf(0, Sum([k \in DOMAIN chunks |-> Len(chunks[k])]) - startIndex)]

Live(v) == {l \in DOMAIN v.lists : v.cursors[l] < Len(v.lists[l])}
HeadOf(v, l) == v.lists[l][v.cursors[l] + 1]
Before(v, i, j) == IF v.sorted THEN CompareRanks(i, j, v.tac) ELSE i.index < j.index

\* mergedGet up to row n: at each step the best of the heads goes to the end of `merged`
Best(v) == CHOOSE x \in Live(v) : \A y \in Live(v) \ {x} : Before(v, HeadOf(v, x), HeadOf(v, y))
TakeBest(v) == [v EXCEPT !.merged = Append(@, HeadOf(v, Best(v))), !.cursors[Best(v)] = @ + 1]
MergedUpTo(v, n) ==
  LET step[k \in Len(v.merged) .. MaxOf(n + 1, Len(v.merged))] ==
        IF k = Len(v.merged) THEN v ELSE TakeBest(step[k - 1])
      last == step[MaxOf(n + 1, Len(v.merged))]
  IN  [v EXCEPT !.merged = last.merged, !.cursors = last.cursors]

\* Get of a merger of chunks; a first chunk cut short by --tail is the only one not full but the last.
PassGet(v, idx) ==
  LET i == (IF v.tac THEN v.count - idx - 1 ELSE idx) + v.startIndex
      short == Len(v.chunks[1]) < ChunkSize /\ i >= Len(v.chunks[1])
      j == IF short THEN i - Len(v.chunks[1]) ELSE i
  IN  v.chunks[j \div ChunkSize + (IF short THEN 2 ELSE 1)][(j % ChunkSize) + 1]

\* The row of `merged` that Get reads
Row(v, idx) == IF v.tac /\ ~v.sorted THEN v.count - idx - 1 ELSE idx

\* FindIndex of a merger of chunks; another one looks at every row.
FindIndex(v, index) == IF v.tac THEN v.count - (index - v.minIndex) - 1 ELSE index - v.minIndex
----------------------------------------------------------------------------
\* The workers take the chunks (one item each, here) in order, each item by one of them.
FoundBy(s, found, owner, w) ==
  LET mine == {i \in DOMAIN found : found[i] # <<>> /\ owner[i] = w}
      Found(i) == BuildResult(i, At(s.texts, i), found[i][1], s.criteria)
  IN  [k \in 1 .. Cardinality(mine) |-> Found(Nth(mine, {e \in mine \X mine : e[1] < e[2]}, k))]

\* Each sorts what it found if the search is sorted.
Lists(s, found, owner, sort, tac) ==
  [w \in 1 .. s.workers |->
     LET results == FoundBy(s, found, owner, w) IN
     IF sort THEN RadixSortResults(results, tac) ELSE results]

InitView ==
  /\ got = <<>>
  /\ \/ \E s \in Searches : \E found \in [0 .. Len(s.texts) - 1 -> s.options] :
          \E owner \in [0 .. Len(s.texts) - 1 -> 1 .. s.workers] : \E sort, tac \in BOOLEAN :
            view = NewMerger(Lists(s, found, owner, sort, tac), sort, tac)
     \/ \E chunks \in Snapshots : \E tac \in BOOLEAN : \E startIndex \in HeaderLines :
          view = PassMerger(chunks, tac, startIndex)

\* The terminal asks for a row: any, in any order (a page further down, the last one, the first)
Get ==
  /\ view.kind # "none"
  /\ \E idx \in 0 .. view.count - 1 :
       LET v == IF view.kind = "pass" THEN view ELSE MergedUpTo(view, Row(view, idx)) IN
       /\ view' = v
       /\ got' = <<idx, IF v.kind = "pass" THEN PassGet(v, idx) ELSE v.merged[Row(v, idx) + 1].index>>
----------------------------------------------------------------------------
\* What the user should see: all results by rank, by item if equal (the later one first with
\* --tac); without sorting, by item, in reverse with --tac.
InOrder(v) ==
  LET all == UNION {{v.lists[l][k] : k \in DOMAIN v.lists[l]} : l \in DOMAIN v.lists}
      Above(r) == {q \in all \ {r} : IF v.sorted THEN CompareRanks(q, r, v.tac)
                                     ELSE (q.index < r.index) # v.tac}
  IN  {<<Cardinality(Above(r)), r.index>> : r \in all}

\* Every row has the result that belongs there, whatever rows were asked for before: "provides
\* the view of a single, globally-sorted list" (merger.go:10), sorted by digits or by comparison.
RowsInOrder == got # <<>> /\ view.kind = "lists" => got \in InOrder(view)

\* The item of a row is found at that row again: tracking and the selection of the terminal rely
\* on FindIndex (merger.go:95), which only computes it for the items in their order.
FoundWhereShown == got # <<>> /\ view.kind = "pass" => FindIndex(view, got[2]) = got[1]
=============================================================================
