----------------------------- MODULE ChunkList -----------------------------
(***************************************************************************)
(* chunklist.go: the list the reader pushes items to and the coordinator   *)
(* takes snapshots of.  Items are kept in chunks of ChunkSize; a snapshot  *)
(* is a slice of chunk pointers that the matcher and the terminal read     *)
(* without the lock of the list, while the reader goes on pushing.         *)
(*                                                                         *)
(* A pointer is an index of heap, and an item is the index itemTransformer *)
(* of core.go gave it.  Every method holds the lock of the list, so each   *)
(* is one action.  The chunk cache is its set of keys (cache.go).          *)
(***************************************************************************)
EXTENDS Integers, SequencesExt

CONSTANTS
  ChunkSize,     \* items in a full chunk
  Tails,         \* the values of --tail considered, 0 if it is not given
  MaxHeap,       \* bound: chunks ever allocated
  MaxSnapshots   \* bound: snapshots ever taken

ASSUME ChunkListAssumption ==
  /\ ChunkSize \in Nat \ {0}
  /\ Tails \subseteq Nat
  /\ MaxHeap \in Nat
  /\ MaxSnapshots \in Nat

VARIABLES
  heap,        \* heap[c]: the items of chunk c
  chunks,      \* the pointers of the list, oldest chunk first
  itemIndex,   \* the index of the next item (core.go)
  tail,        \* opts.Tail
  taken,       \* the snapshots somebody may still be reading
  cached       \* the chunks that have an entry in the ChunkCache

vars == <<heap, chunks, itemIndex, tail, taken, cached>>

Pointer == DOMAIN heap

\* A snapshot: its pointers, the count and the flag returned with it, and, to
\* compare with later, the items it showed when it was taken.
SnapshotType ==
  [chunks : Seq(Pointer), count : Nat, changed : BOOLEAN, items : Seq(Seq(Nat))]

TypeOK ==
  /\ heap \in Seq(Seq(Nat))
  /\ chunks \in Seq(Pointer)
  /\ itemIndex \in Nat
  /\ tail \in Tails
  /\ taken \subseteq SnapshotType
  /\ cached \subseteq Pointer

Init ==
  /\ heap = <<>>
  /\ chunks = <<>>
  /\ itemIndex = 0
  /\ tail \in Tails
  /\ taken = {}
  /\ cached = {}

-----------------------------------------------------------------------------
IsFull(c) == Len(heap[c]) = ChunkSize

\* What a reader of these pointers sees, chunk by chunk.
Contents(h, cs) == [i \in DOMAIN cs |-> h[cs[i]]]

\* How many items the first i chunks hold, and how many all of them hold.
Offset(h, cs) ==
  LET o[i \in 0 .. Len(cs)] == IF i = 0 THEN 0 ELSE o[i - 1] + Len(h[cs[i]])
  IN  o
NumItems(h, cs) == Offset(h, cs)[Len(cs)]

\* CountItems looks at the first and the last chunk only: every chunk between
\* them counts as full.
CountItems(h, cs) ==
  CASE Len(cs) = 0 -> 0
    [] Len(cs) = 1 -> Len(h[cs[1]])
    [] OTHER -> Len(h[cs[1]]) + ChunkSize * (Len(cs) - 2) + Len(h[Last(cs)])

Push ==
  /\ Len(heap) < MaxHeap
  /\ itemIndex' = itemIndex + 1
  /\ IF chunks = <<>> \/ IsFull(Last(chunks))
     THEN /\ heap' = Append(heap, <<itemIndex>>)
          /\ chunks' = Append(chunks, Len(heap) + 1)
     ELSE /\ heap' = [heap EXCEPT ![Last(chunks)] = Append(@, itemIndex)]
          /\ UNCHANGED chunks
  /\ UNCHANGED <<tail, taken, cached>>

\* Where the list starts once it is cut down to tail items: whole chunks are
\* dropped from the front as long as enough items are left.
FirstKept ==
  LET Enough == {i \in DOMAIN chunks :
                   NumItems(heap, chunks) - Offset(heap, chunks)[i - 1] >= tail}
  IN  Max(Enough \cup {1})

\* How many items of that chunk are kept.
Left == tail - (NumItems(heap, chunks) - Offset(heap, chunks)[FirstKept])

TooLong == tail > 0 /\ CountItems(heap, chunks) > tail
\* Faulty variant of Trim: only a chunk that is cut counts as a change.
TrimQuietly ==
  LET first == heap[chunks[FirstKept]]
      kept == SubSeq(chunks, FirstKept, Len(chunks))
      last == SubSeq(first, Len(first) - Left + 1, Len(first))
      cut == TooLong /\ Len(first) > Left
  IN  [heap |-> IF cut THEN Append(heap, last) ELSE heap,
       chunks |-> CASE cut -> <<Len(heap) + 1>> \o Tail(kept)
                    [] TooLong /\ ~cut -> kept
                    [] OTHER -> chunks,
       retired |-> {}, changed |-> cut]

\* The list cut down to the last tail items. If the first chunk that is kept
\* holds too many items, a copy of its last items takes its place.
Trim ==
  LET first == heap[chunks[FirstKept]]
      rest == SubSeq(chunks, FirstKept + 1, Len(chunks))
      dropped == {chunks[i] : i \in 1 .. FirstKept - 1}
  IN  CASE ~TooLong ->
             [heap |-> heap, chunks |-> chunks, retired |-> {}, changed |-> FALSE]
        [] TooLong /\ Len(first) > Left ->
             [heap |-> Append(heap, SubSeq(first, Len(first) - Left + 1, Len(first))),
              chunks |-> <<Len(heap) + 1>> \o rest,
              retired |-> dropped \cup {chunks[FirstKept]}, changed |-> TRUE]
        [] TooLong /\ ~(Len(first) > Left) ->
             [heap |-> heap, chunks |-> <<chunks[FirstKept]>> \o rest,
              retired |-> dropped, changed |-> TRUE]

\* Faulty variant of Duplicate: the caller shares every chunk with the list.
DuplicateNot(h, cs) == [heap |-> h, chunks |-> cs]

\* Pointers for the caller: the last chunk, which the reader goes on filling,
\* is copied, and with --tail the first one, too.
Duplicate(h, cs) ==
  CASE cs = <<>> -> [heap |-> h, chunks |-> cs]
    [] cs # <<>> /\ tail > 0 /\ Len(cs) > 1 ->
         [heap |-> Append(Append(h, h[cs[1]]), h[Last(cs)]),
          chunks |-> [cs EXCEPT ![1] = Len(h) + 1, ![Len(cs)] = Len(h) + 2]]
    [] cs # <<>> /\ ~(tail > 0 /\ Len(cs) > 1) ->
         [heap |-> Append(h, h[Last(cs)]),
          chunks |-> [cs EXCEPT ![Len(cs)] = Len(h) + 1]]

Snapshot ==
  /\ Len(heap) + 3 <= MaxHeap
  /\ Cardinality(taken) < MaxSnapshots
  /\ LET list == Trim
         ret == Duplicate(list.heap, list.chunks)
     IN  /\ heap' = ret.heap
         /\ chunks' = list.chunks
         /\ cached' = cached \ list.retired
         /\ taken' = taken \cup {[chunks |-> ret.chunks,
                                  count |-> CountItems(ret.heap, ret.chunks),
                                  changed |-> list.changed,
                                  items |-> Contents(ret.heap, ret.chunks)]}
  /\ UNCHANGED <<itemIndex, tail>>

\* restart of core.go: the list is emptied and items are numbered from 0.
Clear ==
  /\ chunks # <<>>
  /\ chunks' = <<>>
  /\ itemIndex' = 0
  /\ UNCHANGED <<heap, tail, taken, cached>>

\* A scan of snapshot s caches the bitmap of one of its full chunks.
CacheAdd(s) ==
  /\ \E i \in DOMAIN s.chunks :
       /\ IsFull(s.chunks[i])
       /\ cached' = cached \cup {s.chunks[i]}
  /\ UNCHANGED <<heap, chunks, itemIndex, tail, taken>>

CacheClear ==
  /\ cached' = {}
  /\ UNCHANGED <<heap, chunks, itemIndex, tail, taken>>

Next == Push \/ Snapshot \/ Clear \/ CacheClear \/ \E s \in taken : CacheAdd(s)

Spec == Init /\ [][Next]_vars

-----------------------------------------------------------------------------
\* "Snapshot returns immutable snapshot of the ChunkList" (chunklist.go:117):
\* whatever is pushed, trimmed or cleared later, its readers see the items it
\* was taken with, although it shares chunks with the list.
SnapshotsImmutable == \A s \in taken : Contents(heap, s.chunks) = s.items

\* The bitmaps the cache keeps for a chunk stay about the same items: a chunk
\* that was ever cached is never written again.
CachedChunksStable == [][\A c \in cached : heap'[c] = heap[c]]_vars

\* CountItems may assume that the chunks between the first and the last are
\* full, in the list and in every snapshot.
CountIsRight ==
  /\ CountItems(heap, chunks) = NumItems(heap, chunks)
  /\ \A s \in taken : s.count = NumItems(heap, s.chunks)

\* A new snapshot shows the last tail items of the list (all of them without
\* --tail) in order, and reports a change exactly when the list lost items.
SnapshotExact ==
  [][LET is == FlattenSeq(Contents(heap, chunks))
         kept == IF tail > 0 /\ Len(is) > tail THEN tail ELSE Len(is)
     IN  \A s \in taken' \ taken :
           /\ FlattenSeq(s.items) = SubSeq(is, Len(is) - kept + 1, Len(is))
           /\ s.changed <=> kept < Len(is)]_vars

\* What the proofs rest on: the shape of the list. Only its first and its last
\* chunk may be short of items, no chunk is empty or in the list twice, and
\* the chunk that is still being filled belongs to the list alone.
ListShape ==
  /\ \A i \in DOMAIN chunks : Len(heap[chunks[i]]) \in 1 .. ChunkSize
  /\ \A i \in 2 .. Len(chunks) - 1 : IsFull(chunks[i])
  /\ \A i, j \in DOMAIN chunks : chunks[i] = chunks[j] => i = j
  /\ \A s \in taken : \A i \in DOMAIN s.chunks :
       chunks # <<>> => s.chunks[i] # Last(chunks)
=============================================================================
