-------------------------------- MODULE Scan --------------------------------
(***************************************************************************)
(* Matcher.scan of matcher.go: the workers that share the chunks of a      *)
(* request and the chunk cache, the goroutine that counts what they have   *)
(* done, and the coordinator that replaces the request, or stops the scan  *)
(* to rewrite the items under it (change-with-nth, core.go).               *)
(*                                                                         *)
(* One item per chunk is followed.  A query is the number of its           *)
(* characters: each query is a prefix of the longer ones, and the item of  *)
(* chunk c matches those up to Depth[v][c] when v changes of nth or        *)
(* with-nth were made.  Answers from mergerCache, which need no scan, and  *)
(* reloads are in Core.tla.                                                *)
(***************************************************************************)
EXTENDS Integers, FiniteSets

CONSTANTS
  Worker,     \* the goroutines of a scan
  NumChunks,  \* chunks of a request
  MaxKey,     \* bound: the longest query
  Depth,      \* what the items match
  Changes,    \* what the user changes: "query", "nth", "with-nth"
  Slow,       \* whether scans may take longer than progressMinDuration: a set
  MaxOps      \* bound: how often the coordinator calls Reset

Chunk == 1 .. NumChunks
Key == 0 .. MaxKey
View == 0 .. MaxOps

ASSUME ScanAssumption ==
  /\ NumChunks \in Nat \ {0} /\ MaxKey \in Nat /\ MaxOps \in Nat
  /\ IsFiniteSet(Worker) /\ Worker # {}
  /\ Depth \in [View -> [Chunk -> Key]]
  /\ Changes \subseteq {"query", "nth", "with-nth"}
  /\ Slow \subseteq BOOLEAN

VARIABLES
  coord,       \* what the coordinator is doing; it holds the event box then
  key, nth,    \* the query and the nth of the next request
  ops,         \* operations of the coordinator so far
  items,       \* how often the items were rewritten
  cancelScan,  \* Matcher.cancelScan
  slow,        \* whether scans take long here
  scanMutex,   \* who holds it: "free", "scan" or "coord"
  reqBox,      \* the requests waiting, at most one of each kind
  pc,          \* where Matcher.Loop is
  request,     \* the request it is working on
  nextChunk, cancelled, count,  \* locals of scan
  result,      \* how often the result has each item
  countChan,   \* how many counts are in the channel
  worker,      \* the workers: pc, chunk, bitmap (a set, {} for nil), matches
  cache        \* the ChunkCache: cache[c] maps keys to bits, {} if it has none

coordVars == <<coord, key, nth, ops, items, cancelScan, slow>>
scanVars == <<request, nextChunk, cancelled, count, result>>
vars == <<coordVars, scanMutex, reqBox, pc, scanVars, countChan, worker, cache>>

Request == [key : Key, nth : View]
Entry == [key : Key, bit : BOOLEAN]
Waiting == [{"retry", "reset"} -> {{}} \cup {{r} : r \in Request}]
WorkerState ==
  [pc : {"take", "lookup", "search", "match", "add", "send", "result", "done"},
   chunk : Chunk, bitmap : SUBSET BOOLEAN, matches : SUBSET Chunk]

TypeOK ==
  /\ coord \in {"idle", "cancel", "mutate", "clear", "reset"}
  /\ key \in Key /\ nth \in View /\ ops \in 0 .. MaxOps /\ items \in View
  /\ cancelScan \in BOOLEAN /\ slow \in BOOLEAN
  /\ scanMutex \in {"free", "scan", "coord"}
  /\ reqBox \in Waiting
  /\ pc \in {"wait", "lock", "count", "progress", "collect", "stop", "set"}
  /\ request \in Request
  /\ nextChunk \in Nat /\ cancelled \in BOOLEAN /\ count \in 0 .. NumChunks
  /\ result \in [Chunk -> 0 .. 1]
  /\ countChan \in 0 .. NumChunks
  /\ worker \in [Worker -> WorkerState]
  /\ cache \in [Chunk -> SUBSET Entry]

Idle == [pc |-> "done", chunk |-> 1, bitmap |-> {}, matches |-> {}]

Init ==
  /\ coord = "idle" /\ key = 0 /\ nth = 0 /\ ops = 0 /\ items = 0
  /\ slow \in Slow
  /\ cancelScan = FALSE /\ scanMutex = "free"
  /\ reqBox = [retry |-> {}, reset |-> {}]
  /\ pc = "wait" /\ request = [key |-> 0, nth |-> 0]
  /\ nextChunk = 0 /\ cancelled = FALSE /\ count = 0
  /\ result = [c \in Chunk |-> 0]
  /\ countChan = 0
  /\ worker = [w \in Worker |-> Idle]
  /\ cache = [c \in Chunk |-> {}]

BoxUnlocked == coord = "idle"
Matches(c, r) == r.key <= Depth[r.nth + items][c]

-----------------------------------------------------------------------------
(* The coordinator *)

\* Matcher.Reset: a request replaces the one of its kind that still waits.
Reset(kind) == reqBox' = [reqBox EXCEPT ![kind] = {[key |-> key', nth |-> nth']}]

\* New items: the running scan is not interrupted.
Retry ==
  /\ coord = "idle" /\ ops < MaxOps
  /\ ops' = ops + 1
  /\ UNCHANGED <<coord, key, nth, items, cancelScan, slow>>
  /\ Reset("retry")
  /\ UNCHANGED <<scanMutex, pc, scanVars, countChan, worker, cache>>

ChangeQuery ==
  /\ coord = "idle" /\ ops < MaxOps
  /\ "query" \in Changes
  /\ key' \in Key \ {key}
  /\ ops' = ops + 1
  /\ UNCHANGED <<coord, nth, items, cancelScan, slow>>
  /\ Reset("reset")
  /\ UNCHANGED <<scanMutex, pc, scanVars, countChan, worker, cache>>

ChangeNth ==
  /\ coord = "idle" /\ ops < MaxOps
  /\ "nth" \in Changes
  /\ nth' = nth + 1
  /\ ops' = ops + 1
  /\ coord' = "clear"
  /\ UNCHANGED <<key, items, cancelScan, slow, scanMutex, reqBox, pc, scanVars,
                 countChan, worker, cache>>

\* CancelScan sets its flag and then waits for the mutex.
ChangeWithNth ==
  /\ coord = "idle" /\ ops < MaxOps
  /\ "with-nth" \in Changes
  /\ ops' = ops + 1
  /\ cancelScan' = TRUE
  /\ coord' = "cancel"
  /\ UNCHANGED <<key, nth, items, slow, scanMutex, reqBox, pc, scanVars, countChan,
                 worker, cache>>

ScanStopped ==
  /\ coord = "cancel"
  /\ scanMutex = "free"
  /\ scanMutex' = "coord"
  /\ cancelScan' = FALSE
  /\ coord' = "mutate"
  /\ UNCHANGED <<key, nth, ops, items, slow, reqBox, pc, scanVars, countChan, worker, cache>>

\* The last item is rewritten (ForEachItem), and ResumeScan unlocks the mutex.
ResumeScan ==
  /\ coord = "mutate"
  /\ items' = items + 1
  /\ scanMutex' = "free"
  /\ coord' = "clear"
  /\ UNCHANGED <<key, nth, ops, cancelScan, slow, reqBox, pc, scanVars, countChan,
                 worker, cache>>

CacheClear ==
  /\ coord = "clear"
  /\ cache' = [c \in Chunk |-> {}]
  /\ coord' = "reset"
  /\ UNCHANGED <<key, nth, ops, items, cancelScan, slow, scanMutex, reqBox, pc,
                 scanVars, countChan, worker>>

ResetChanged ==
  /\ coord = "reset"
  /\ coord' = "idle"
  /\ UNCHANGED <<key, nth, ops, items, cancelScan, slow>>
  /\ Reset("reset")
  /\ UNCHANGED <<scanMutex, pc, scanVars, countChan, worker, cache>>

Coordinator == ScanStopped \/ ResumeScan \/ CacheClear \/ ResetChanged

-----------------------------------------------------------------------------
(* The workers *)

Move(w, to) == worker' = [worker EXCEPT ![w].pc = to]

Take(w) ==
  /\ worker[w].pc = "take"
  /\ nextChunk' = nextChunk + 1
  /\ worker' = [worker EXCEPT ![w] =
       IF nextChunk' > NumChunks THEN [@ EXCEPT !.pc = "result"]
                                 ELSE [@ EXCEPT !.pc = "lookup", !.chunk = nextChunk']]
  /\ UNCHANGED <<coordVars, scanMutex, reqBox, pc, request, cancelled, count,
                 result, countChan, cache>>

\* The last chunk is still being filled and never has an entry (cache.go).
IsFull(c) == c < NumChunks

\* The entry of exactly this query, and of the longest shorter one.
LookupEntry(c, k) == {e \in cache[c] : IsFull(c) /\ e.key = k}
SearchEntry(c, k) ==
  LET shorter == {e \in cache[c] : IsFull(c) /\ e.key < k}
  IN  {e \in shorter : \A f \in shorter : f.key <= e.key}

Bits(entries) == {e.bit : e \in entries}

Lookup(w) ==
  /\ worker[w].pc = "lookup"
  /\ LET found == Bits(LookupEntry(worker[w].chunk, request.key))
     IN  worker' = [worker EXCEPT ![w].bitmap = found,
                                  ![w].pc = IF found = {} THEN "search" ELSE "match"]
  /\ UNCHANGED <<coordVars, scanMutex, reqBox, pc, scanVars, countChan, cache>>

Search(w) ==
  /\ worker[w].pc = "search"
  /\ worker' = [worker EXCEPT ![w].bitmap = Bits(SearchEntry(worker[w].chunk, request.key)),
                              ![w].pc = "match"]
  /\ UNCHANGED <<coordVars, scanMutex, reqBox, pc, scanVars, countChan, cache>>

\* matchChunk skips the items whose bit is not set in the bitmap found.
Match(w) ==
  /\ worker[w].pc = "match"
  /\ LET c == worker[w].chunk
         hit == worker[w].bitmap # {FALSE} /\ Matches(c, request)
     IN  worker' = [worker EXCEPT ![w].matches = @ \cup (IF hit THEN {c} ELSE {}),
                                  ![w].bitmap = {}, ![w].pc = "add"]
  /\ UNCHANGED <<coordVars, scanMutex, reqBox, pc, scanVars, countChan, cache>>

\* ChunkCache.Add, which leaves out a chunk with too many matches; then a
\* worker of a cancelled scan stops.
Add(w) ==
  /\ worker[w].pc = "add"
  /\ LET c == worker[w].chunk
         e == [key |-> request.key, bit |-> c \in worker[w].matches]
     IN  \/ IsFull(c) /\ cache' = [cache EXCEPT ![c] = {f \in @ : f.key # e.key} \cup {e}]
         \/ UNCHANGED cache
  /\ Move(w, IF cancelled THEN "done" ELSE "send")
  /\ UNCHANGED <<coordVars, scanMutex, reqBox, pc, scanVars, countChan>>

\* Faulty variant of Capacity: room for one count.
CapacityOne == 1

\* The channel has room for one count per chunk.
Capacity == NumChunks

SendCount(w) ==
  /\ worker[w].pc = "send"
  /\ countChan < Capacity
  /\ countChan' = countChan + 1
  /\ Move(w, "take")
  /\ UNCHANGED <<coordVars, scanMutex, reqBox, pc, scanVars, cache>>

\* resultChan has room for one result per worker.
SendResult(w) ==
  /\ worker[w].pc = "result"
  /\ Move(w, "done")
  /\ UNCHANGED <<coordVars, scanMutex, reqBox, pc, scanVars, countChan, cache>>

Work(w) == Take(w) \/ Lookup(w) \/ Search(w) \/ Match(w) \/ Add(w)
           \/ SendCount(w) \/ SendResult(w)

AllDone == \A w \in Worker : worker[w].pc = "done"

-----------------------------------------------------------------------------
(* Matcher.Loop *)

\* The map is walked in any order and the last request found is kept.
TakeRequest ==
  /\ pc = "wait"
  /\ \E kind \in {"retry", "reset"} : request' \in reqBox[kind]
  /\ reqBox' = [retry |-> {}, reset |-> {}]
  /\ pc' = "lock"
  /\ UNCHANGED <<coordVars, scanMutex, nextChunk, cancelled, count, result,
                 countChan, worker, cache>>

\* An empty query matches every item without a scan (PassMerger).
PassAll ==
  /\ pc = "lock" /\ scanMutex = "free"
  /\ request.key = 0
  /\ result' = [c \in Chunk |-> 1]
  /\ cancelled' = FALSE
  /\ pc' = "set"
  /\ UNCHANGED <<coordVars, scanMutex, reqBox, request, nextChunk, count,
                 countChan, worker, cache>>

StartScan ==
  /\ pc = "lock" /\ scanMutex = "free"
  /\ request.key > 0
  /\ scanMutex' = "scan"
  /\ nextChunk' = 0 /\ cancelled' = FALSE /\ count' = 0 /\ countChan' = 0
  /\ worker' = [w \in Worker |-> [Idle EXCEPT !.pc = "take"]]
  /\ pc' = "count"
  /\ UNCHANGED <<coordVars, reqBox, request, result, cache>>

\* Another chunk is done: all of them, or one more and a look at the flags.
Count ==
  /\ pc = "count"
  /\ countChan > 0
  /\ countChan' = countChan - 1
  /\ count' = count + 1
  /\ LET interrupted == cancelScan \/ reqBox.reset # {}
     IN  /\ \/ count' = NumChunks /\ pc' = "collect"
            \/ count' # NumChunks /\ interrupted /\ pc' = "stop"
            \/ count' # NumChunks /\ ~interrupted /\ pc' = "count"
            \/ count' # NumChunks /\ ~interrupted /\ slow /\ pc' = "progress"
         /\ cancelled' = (count' # NumChunks /\ interrupted)
  /\ UNCHANGED <<coordVars, scanMutex, reqBox, request, nextChunk, result, worker, cache>>

\* EvtSearchProgress is set while the scan holds its mutex.
SetSearchProgress ==
  /\ pc = "progress"
  /\ BoxUnlocked
  /\ pc' = "count"
  /\ UNCHANGED <<coordVars, scanMutex, reqBox, scanVars, countChan, worker, cache>>

\* The locals of scan are gone once it has returned.
LeaveScan ==
  /\ nextChunk' = 0 /\ cancelled' = FALSE /\ count' = 0 /\ countChan' = 0
  /\ worker' = [w \in Worker |-> Idle]

\* A cancelled scan waits for its workers and leaves no result.
Stopped ==
  /\ pc = "stop"
  /\ AllDone
  /\ LeaveScan
  /\ scanMutex' = "free"
  /\ pc' = "wait"
  /\ UNCHANGED <<coordVars, reqBox, request, result, cache>>

\* The results of these workers, put together.
Merged(ws) == [c \in Chunk |-> Cardinality({w \in ws : c \in worker[w].matches})]

\* Faulty variant of Collect: it takes one result for all of them.
CollectFirst ==
  /\ pc = "collect"
  /\ \E w \in Worker : worker[w].pc = "done" /\ result' = Merged({w})
  /\ scanMutex' = "free"
  /\ pc' = "set"
  /\ UNCHANGED <<coordVars, reqBox, request, nextChunk, cancelled, count, countChan,
                 worker, cache>>

\* Every chunk is done: the results of all workers are received and merged.
Collect ==
  /\ pc = "collect"
  /\ AllDone
  /\ result' = Merged(Worker)
  /\ LeaveScan
  /\ scanMutex' = "free"
  /\ pc' = "set"
  /\ UNCHANGED <<coordVars, reqBox, request, cache>>

SetSearchFin ==
  /\ pc = "set"
  /\ BoxUnlocked
  /\ result' = [c \in Chunk |-> 0]
  /\ pc' = "wait"
  /\ UNCHANGED <<coordVars, scanMutex, reqBox, request, nextChunk, cancelled, count,
                 countChan, worker, cache>>

Loop == TakeRequest \/ PassAll \/ StartScan \/ Count \/ SetSearchProgress
        \/ Stopped \/ Collect \/ SetSearchFin

Next ==
  \/ Retry \/ ChangeQuery \/ ChangeNth \/ ChangeWithNth
  \/ Coordinator \/ Loop
  \/ \E w \in Worker : Work(w)

Spec == Init /\ [][Next]_vars

\* Every goroutine runs whenever it can; the user need not change anything. A
\* fair mutex is not needed: while the coordinator waits nobody sends requests.
FairSpec ==
  /\ Spec
  /\ WF_vars(Coordinator)
  /\ WF_vars(Loop)
  /\ \A w \in Worker : WF_vars(Work(w))

-----------------------------------------------------------------------------
\* CancelScan "waits for it to finish, and prevents new scans from starting"
\* (matcher.go:255-256): no worker is about while items are rewritten, though
\* a cancelled scan leaves its workers in the middle of their chunks.
ItemsUnshared == coord = "mutate" => AllDone

\* The workers of one scan share slab and sort buffer, one each, with those of
\* the next: a scan that has returned, cancelled or not, left none behind.
NoneLeftBehind == pc \in {"wait", "lock", "set"} => AllDone

\* Nothing was changed but the query.
Unchanged == nth = 0 /\ items = 0

\* A scan that was not cancelled found every matching item once and no other,
\* whichever worker had the chunk and whatever the cache made it skip, as long
\* as only the query is changed.
ResultExact ==
  Unchanged /\ pc = "set" =>
    \A c \in Chunk : result[c] = IF Matches(c, request) THEN 1 ELSE 0

\* "queryCache associates query strings to bitmaps of matching items"
\* (cache.go:8): when nothing is being changed, the bits are those of the items
\* and the nth that searches use now ("Change nth and clear caches", core.go).
BitmapsExact ==
  coord = "idle" =>
    \A c \in Chunk : \A e \in cache[c] :
      e.bit = Matches(c, [key |-> e.key, nth |-> nth])

\* While only the query changes they are exact: bitmaps made from those of
\* other queries, by workers that race, by cancelled scans.
CacheExact == Unchanged => BitmapsExact

\* Every scan ends: no worker is stuck in a channel, also when the counting
\* goroutine has given up and only waits for them. And CancelScan, which "waits
\* for it to finish" (matcher.go:255), returns. The exception is a slow scan
\* that reports progress: it sets an event with scanMutex held, CancelScan
\* waits for scanMutex with the event box locked, and neither goes on.
ScanEnds ==
  /\ pc = "count" ~> (pc = "wait" \/ (slow /\ coord = "cancel"))
  /\ coord = "cancel" /\ ~slow ~> coord = "idle"
=============================================================================
