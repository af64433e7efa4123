---------------------------- MODULE MatcherProofs ----------------------------
(***************************************************************************)
(* What is proved of the matcher: of its scan (Scan.tla) and of the merger *)
(* of what the workers find (Merging.tla).                                 *)
(***************************************************************************)
EXTENDS Merging, NatLemmas, SequenceTheorems, Scan

(***************************************************************************)
(* Proofs that the scan of Scan.tla keeps its invariants, for any number   *)
(* of workers, chunks, queries and operations, and whatever the items      *)
(* match: workers do not outlive their scan, no item is rewritten under    *)
(* one, and as long as only the query changes, cached bitmaps are right    *)
(* and a scan finds every matching item once.                              *)
(***************************************************************************)

Scanning == pc \in {"count", "progress", "collect", "stop"}
Busy(w) == worker[w].pc \in {"lookup", "search", "match", "add"}
Chunks(w) == worker[w].matches \cup (IF Busy(w) THEN {worker[w].chunk} ELSE {})

\* Requests are never about an nth the coordinator has not set, and the
\* changes of nth and with-nth are counted.
Bounds ==
  /\ nth <= ops
  /\ items + (IF coord \in {"cancel", "mutate"} THEN 1 ELSE 0) <= ops
  /\ pc \in {"count", "progress"} => count < NumChunks
  /\ request.nth <= nth
  /\ \A k \in {"retry", "reset"} : \A r \in reqBox[k] : r.nth <= nth

\* The mutex is held by a scan or by the coordinator that rewrites items, and
\* the workers are at rest when there is no scan.
Locks ==
  /\ scanMutex = "coord" <=> coord = "mutate"
  /\ scanMutex = "scan" <=> Scanning
  /\ ~Scanning => worker = [w \in Worker |-> Idle]

\* Each chunk is in the hands of one worker, and one that was given out.
OneEach ==
  /\ \A w \in Worker : Chunks(w) \subseteq 1 .. nextChunk
  /\ \A v, w \in Worker : v # w => Chunks(v) \cap Chunks(w) = {}

\* A worker of a scan that goes on leaves when there are no more chunks.
OnlyWhenDone ==
  pc \in {"count", "progress", "collect"} =>
    /\ ~cancelled
    /\ \A w \in Worker : worker[w].pc \in {"result", "done"} => nextChunk > NumChunks

\* What the request should find, when only the query changes.
Hit(c) == request.key <= Depth[0][c]

BitsExact == \A c \in Chunk : \A e \in cache[c] : e.bit = (e.key <= Depth[0][c])

WorkExact ==
  Scanning => \A w \in Worker :
    /\ worker[w].pc = "match" /\ worker[w].bitmap = {FALSE} => ~Hit(worker[w].chunk)
    /\ worker[w].pc = "add" /\ Hit(worker[w].chunk) => worker[w].chunk \in worker[w].matches
    /\ \A c \in worker[w].matches : Hit(c)

NoneSkipped ==
  Scanning => \A c \in Chunk :
    c <= nextChunk /\ Hit(c) => \E w \in Worker : c \in Chunks(w)

Exact ==
  Unchanged => BitsExact /\ WorkExact /\ NoneSkipped /\ ResultExact

\* The inductive invariant.
IInv == TypeOK /\ Bounds /\ Locks /\ OneEach /\ OnlyWhenDone /\ Exact

-----------------------------------------------------------------------------
\* The constants are what the proofs need them to be.
LEMMA Constants ==
  /\ NumChunks \in Nat \ {0} /\ MaxKey \in Nat /\ MaxOps \in Nat
  /\ 1 \in Chunk /\ 0 \in Key /\ 0 \in View
  /\ \A c \in Chunk : Depth[0][c] \in Key
  /\ Chunk \subseteq Nat /\ Key \subseteq Nat /\ View \subseteq Nat
  BY ScanAssumption DEF Chunk, Key, View

\* The workers at rest have the type of workers.
LEMMA IdleType == Idle \in WorkerState /\ Idle.pc = "done" /\ Idle.matches = {}
  BY Constants DEF Idle, WorkerState

\* Everything is in order at first.
LEMMA InitIInv == Init => IInv
  <1> SUFFICES ASSUME Init PROVE IInv
    OBVIOUS
  <1> USE DEF Init
  <1>1. worker = [w \in Worker |-> Idle] /\ pc = "wait" /\ scanMutex = "free"
    OBVIOUS
  <1>2. TypeOK
    <2>1. worker \in [Worker -> WorkerState]
      BY IdleType
    <2>2. request \in Request /\ slow \in BOOLEAN
      BY Constants, ScanAssumption DEF Request
    <2>3. reqBox \in Waiting
      BY DEF Waiting
    <2>4. /\ result \in [Chunk -> 0 .. 1] /\ cache \in [Chunk -> SUBSET Entry]
          /\ ops \in 0 .. MaxOps /\ count \in 0 .. NumChunks /\ countChan \in 0 .. NumChunks
      BY Constants
    <2> QED
      BY <2>1, <2>2, <2>3, <2>4, Constants DEF TypeOK
  <1>3. Bounds
    BY Constants DEF Bounds
  <1>4. Locks
    BY DEF Locks, Scanning
  <1>5. OneEach
    BY IdleType DEF OneEach, Chunks, Busy
  <1>6. OnlyWhenDone
    BY DEF OnlyWhenDone
  <1>7. Exact
    BY DEF Exact, BitsExact, WorkExact, NoneSkipped, ResultExact, Scanning
  <1> QED
    BY <1>2, <1>3, <1>4, <1>5, <1>6, <1>7 DEF IInv

\* A chunk is in the results of one worker at most.
LEMMA OncePerChunk ==
  ASSUME OneEach, NEW c \in Chunk
  PROVE  Merged(Worker)[c] = IF \E w \in Worker : c \in worker[w].matches THEN 1 ELSE 0
  <1> DEFINE S == {w \in Worker : c \in worker[w].matches}
  <1>1. Merged(Worker)[c] = Cardinality(S)
    BY DEF Merged
  <1>2. \A v, w \in S : v = w
    BY DEF OneEach, Chunks
  <1>3. CASE S = {}
    BY <1>1, <1>3, FS_EmptySet
  <1>4. CASE S # {}
    <2>1. PICK w : w \in S
      BY <1>4
    <2>2. S = {w}
      BY <1>2, <2>1
    <2> QED
      BY <1>1, <2>1, <2>2, FS_Singleton
  <1> QED
    BY <1>3, <1>4

\* A request that is put into the box or taken out of it.
LEMMA ResetType ==
  ASSUME TypeOK, NEW kind \in {"retry", "reset"}, key' \in Key, nth' \in View, Reset(kind)
  PROVE  /\ reqBox' \in Waiting
         /\ \A k \in {"retry", "reset"} : \A r \in reqBox'[k] : r \in reqBox[k] \/ r.nth = nth'
  <1>1. [key |-> key', nth |-> nth'] \in Request
    BY DEF Request
  <1> QED
    BY <1>1 DEF TypeOK, Waiting, Reset

\* The coordinator keeps the types.
LEMMA CoordinatorType ==
  ASSUME IInv, Retry \/ ChangeQuery \/ ChangeNth \/ ChangeWithNth \/ Coordinator
  PROVE  TypeOK'
  <1> USE DEF IInv
  <1>1. CASE Retry
    <2>1. key' \in Key /\ nth' \in View /\ Reset("retry")
      BY <1>1 DEF Retry, TypeOK
    <2>2. reqBox' \in Waiting
      BY <2>1, ResetType
    <2>3. ops' \in 0 .. MaxOps
      BY <1>1, Constants DEF Retry, TypeOK
    <2> QED
      BY <1>1, <2>2, <2>3 DEF Retry, TypeOK, scanVars
  <1>2. CASE ChangeQuery
    <2>1. key' \in Key /\ nth' \in View /\ Reset("reset")
      BY <1>2 DEF ChangeQuery, TypeOK
    <2>2. reqBox' \in Waiting
      BY <2>1, ResetType
    <2>3. ops' \in 0 .. MaxOps
      BY <1>2, Constants DEF ChangeQuery, TypeOK
    <2> QED
      BY <1>2, <2>1, <2>2, <2>3 DEF ChangeQuery, TypeOK, scanVars
  <1>3. CASE ChangeNth
    <2>1. ops' \in 0 .. MaxOps /\ nth' \in View
      BY <1>3, Constants DEF ChangeNth, TypeOK, Bounds, View
    <2> QED
      BY <1>3, <2>1 DEF ChangeNth, TypeOK, scanVars
  <1>4. CASE ChangeWithNth
    <2>1. ops' \in 0 .. MaxOps
      BY <1>4, Constants DEF ChangeWithNth, TypeOK
    <2> QED
      BY <1>4, <2>1 DEF ChangeWithNth, TypeOK, scanVars
  <1>5. CASE ScanStopped
    BY <1>5 DEF ScanStopped, TypeOK, scanVars
  <1>6. CASE ResumeScan
    <2>1. items' \in View
      BY <1>6, Constants DEF ResumeScan, TypeOK, Bounds, View
    <2> QED
      BY <1>6, <2>1 DEF ResumeScan, TypeOK, scanVars
  <1>7. CASE CacheClear
    BY <1>7 DEF CacheClear, TypeOK, scanVars
  <1>8. CASE ResetChanged
    <2>1. key' \in Key /\ nth' \in View /\ Reset("reset")
      BY <1>8 DEF ResetChanged, TypeOK
    <2>2. reqBox' \in Waiting
      BY <2>1, ResetType
    <2> QED
      BY <1>8, <2>2 DEF ResetChanged, TypeOK, scanVars
  <1> QED
    BY <1>1, <1>2, <1>3, <1>4, <1>5, <1>6, <1>7, <1>8 DEF Coordinator

\* A worker keeps the types.
LEMMA WorkType ==
  ASSUME IInv, NEW w \in Worker, Work(w)
  PROVE  TypeOK'
  <1> USE DEF IInv
  <1>0. worker \in [Worker -> WorkerState] /\ worker[w] \in WorkerState
    BY DEF TypeOK
  <1>1. CASE Take(w)
    <2>1. nextChunk' \in Nat
      BY <1>1 DEF Take, TypeOK
    <2>2. nextChunk' <= NumChunks => nextChunk' \in Chunk
      BY <1>1, Constants DEF Take, TypeOK, Chunk
    <2>3. worker' \in [Worker -> WorkerState]
      <3>1. CASE nextChunk' > NumChunks
        BY <1>0, <1>1, <3>1 DEF Take, WorkerState
      <3>2. CASE ~(nextChunk' > NumChunks)
        <4>1. nextChunk' \in Chunk
          BY <2>1, <2>2, <3>2, Constants
        <4> QED
          BY <1>0, <1>1, <3>2, <4>1 DEF Take, WorkerState
      <3> QED
        BY <3>1, <3>2
    <2> QED
      BY <1>1, <2>1, <2>3 DEF Take, TypeOK, coordVars
  <1>2. CASE Lookup(w)
    <2>1. Bits(LookupEntry(worker[w].chunk, request.key)) \subseteq BOOLEAN
      BY <1>0 DEF Bits, LookupEntry, TypeOK, WorkerState, Entry
    <2>2. worker' \in [Worker -> WorkerState]
      BY <1>0, <1>2, <2>1 DEF Lookup, WorkerState
    <2> QED
      BY <1>2, <2>2 DEF Lookup, TypeOK, coordVars, scanVars
  <1>3. CASE Search(w)
    <2>1. Bits(SearchEntry(worker[w].chunk, request.key)) \subseteq BOOLEAN
      BY <1>0 DEF Bits, SearchEntry, TypeOK, WorkerState, Entry
    <2>2. worker' \in [Worker -> WorkerState]
      BY <1>0, <1>3, <2>1 DEF Search, WorkerState
    <2> QED
      BY <1>3, <2>2 DEF Search, TypeOK, coordVars, scanVars
  <1>4. CASE Match(w)
    <2>1. worker' \in [Worker -> WorkerState]
      BY <1>0, <1>4 DEF Match, WorkerState
    <2> QED
      BY <1>4, <2>1 DEF Match, TypeOK, coordVars, scanVars
  <1>5. CASE Add(w)
    <2>1. worker' \in [Worker -> WorkerState]
      BY <1>0, <1>5 DEF Add, Move, WorkerState
    <2>2. cache' \in [Chunk -> SUBSET Entry]
      <3>1. [key |-> request.key, bit |-> worker[w].chunk \in worker[w].matches] \in Entry
        BY DEF Entry, TypeOK, Request
      <3> QED
        BY <1>5, <3>1 DEF Add, TypeOK
    <2> QED
      BY <1>5, <2>1, <2>2 DEF Add, TypeOK, coordVars, scanVars
  <1>6. CASE SendCount(w)
    <2>1. worker' \in [Worker -> WorkerState]
      BY <1>0, <1>6 DEF SendCount, Move, WorkerState
    <2>2. countChan' \in 0 .. NumChunks
      BY <1>6, Constants DEF SendCount, Capacity, TypeOK
    <2> QED
      BY <1>6, <2>1, <2>2 DEF SendCount, TypeOK, coordVars, scanVars
  <1>7. CASE SendResult(w)
    <2>1. worker' \in [Worker -> WorkerState]
      BY <1>0, <1>7 DEF SendResult, Move, WorkerState
    <2> QED
      BY <1>7, <2>1 DEF SendResult, TypeOK, coordVars, scanVars
  <1> QED
    BY <1>1, <1>2, <1>3, <1>4, <1>5, <1>6, <1>7 DEF Work

\* Matcher.Loop keeps the types.
LEMMA LoopType ==
  ASSUME IInv, Loop
  PROVE  TypeOK'
  <1> USE DEF IInv
  <1>1. CASE TakeRequest
    <2>1. request' \in Request /\ reqBox' \in Waiting
      BY <1>1 DEF TakeRequest, TypeOK, Waiting
    <2> QED
      BY <1>1, <2>1 DEF TakeRequest, TypeOK, coordVars
  <1>2. CASE PassAll
    <2>1. result' \in [Chunk -> 0 .. 1]
      BY <1>2 DEF PassAll
    <2> QED
      BY <1>2, <2>1 DEF PassAll, TypeOK, coordVars
  <1>3. CASE StartScan
    <2>1. worker' \in [Worker -> WorkerState]
      BY <1>3, IdleType DEF StartScan, WorkerState
    <2>2. count' \in 0 .. NumChunks /\ countChan' \in 0 .. NumChunks /\ nextChunk' \in Nat
      BY <1>3, Constants DEF StartScan
    <2> QED
      BY <1>3, <2>1, <2>2 DEF StartScan, TypeOK, coordVars
  <1>4. CASE Count
    <2>1. count' \in 0 .. NumChunks /\ countChan' \in 0 .. NumChunks
      BY <1>4, Constants DEF Count, TypeOK, Bounds
    <2>2. pc' \in {"collect", "stop", "count", "progress"} /\ cancelled' \in BOOLEAN
      BY <1>4 DEF Count, TypeOK
    <2> QED
      BY <1>4, <2>1, <2>2 DEF Count, TypeOK, coordVars
  <1>5. CASE SetSearchProgress
    BY <1>5 DEF SetSearchProgress, TypeOK, coordVars, scanVars
  <1>6. CASE Stopped \/ Collect
    <2>1. worker' \in [Worker -> WorkerState]
      BY <1>6, IdleType DEF Stopped, Collect, LeaveScan
    <2>2. count' \in 0 .. NumChunks /\ countChan' \in 0 .. NumChunks /\ nextChunk' \in Nat
      BY <1>6, Constants DEF Stopped, Collect, LeaveScan
    <2>3. Merged(Worker) \in [Chunk -> 0 .. 1]
      <3>1. \A c \in Chunk : Merged(Worker)[c] \in 0 .. 1
        BY OncePerChunk
      <3> QED
        BY <3>1 DEF Merged
    <2>4. result' \in [Chunk -> 0 .. 1]
      BY <1>6, <2>3 DEF Stopped, Collect, TypeOK
    <2> QED
      BY <1>6, <2>1, <2>2, <2>4 DEF Stopped, Collect, LeaveScan, TypeOK, coordVars
  <1>7. CASE SetSearchFin
    <2>1. result' \in [Chunk -> 0 .. 1]
      BY <1>7 DEF SetSearchFin
    <2> QED
      BY <1>7, <2>1 DEF SetSearchFin, TypeOK, coordVars
  <1> QED
    BY <1>1, <1>2, <1>3, <1>4, <1>5, <1>6, <1>7 DEF Loop

-----------------------------------------------------------------------------
\* The numbers stay within their bounds.
LEMMA BoundsStep ==
  ASSUME IInv, Next
  PROVE  Bounds'
  <1> USE DEF IInv
  <1>0. nth \in Nat /\ ops \in Nat /\ items \in Nat /\ request.nth \in Nat
    <2>1. nth \in View /\ items \in View /\ ops \in 0 .. MaxOps /\ request.nth \in View
      BY DEF TypeOK, Request
    <2>2. View \subseteq Nat /\ MaxOps \in Nat
      BY Constants
    <2>3. ops \in Nat
      BY <2>1, <2>2
    <2> QED
      BY <2>1, <2>2, <2>3
  <1>00. \A k \in {"retry", "reset"} : \A r \in reqBox[k] : r.nth \in Nat
    <2>1. \A r \in Request : r.nth \in Nat
      BY Constants DEF Request
    <2> QED
      BY <2>1 DEF TypeOK, Waiting
  <1>1. CASE Retry \/ ChangeQuery \/ ResetChanged
    <2>1. PICK kind \in {"retry", "reset"} : Reset(kind)
      BY <1>1 DEF Retry, ChangeQuery, ResetChanged
    <2>2. key' \in Key /\ nth' = nth
      BY <1>1 DEF Retry, ChangeQuery, ResetChanged, TypeOK
    <2>3. \A k \in {"retry", "reset"} : \A r \in reqBox'[k] : r.nth <= nth'
      BY <1>0, <1>00, <2>1, <2>2, ResetType DEF TypeOK, Bounds
    <2> QED
      BY <1>0, <1>1, <2>2, <2>3 DEF Retry, ChangeQuery, ResetChanged, Bounds, scanVars
  <1>2. CASE ChangeNth
    BY <1>0, <1>00, <1>2 DEF ChangeNth, Bounds, scanVars
  <1>3. CASE ChangeWithNth
    BY <1>0, <1>3 DEF ChangeWithNth, Bounds, scanVars
  <1>4. CASE ScanStopped
    BY <1>0, <1>4 DEF ScanStopped, Bounds, scanVars
  <1>5. CASE ResumeScan
    BY <1>0, <1>5 DEF ResumeScan, Bounds, scanVars
  <1>6. CASE CacheClear
    BY <1>0, <1>6 DEF CacheClear, Bounds, scanVars
  <1>7. CASE TakeRequest
    <2>1. request'.nth <= nth
      BY <1>7 DEF TakeRequest, Bounds
    <2>2. \A k \in {"retry", "reset"} : reqBox'[k] = {}
      BY <1>7 DEF TakeRequest
    <2> QED
      BY <1>0, <1>7, <2>1, <2>2 DEF TakeRequest, Bounds, coordVars
  <1>8. CASE PassAll \/ Stopped \/ Collect \/ SetSearchFin
    BY <1>0, <1>8 DEF PassAll, Stopped, Collect, SetSearchFin, LeaveScan, Bounds, coordVars
  <1>9. CASE StartScan
    BY <1>0, <1>9, Constants DEF StartScan, Bounds, coordVars
  <1>10. CASE Count
    BY <1>0, <1>10, Constants DEF Count, Bounds, coordVars, TypeOK
  <1>11. CASE SetSearchProgress
    BY <1>0, <1>11 DEF SetSearchProgress, Bounds, coordVars, scanVars
  <1>12. CASE \E w \in Worker : Work(w)
    <2>1. UNCHANGED <<coordVars, pc, request, count, reqBox>>
      BY <1>12 DEF Work, Take, Lookup, Search, Match, Add, SendCount, SendResult, scanVars
    <2> QED
      BY <2>1 DEF Bounds, coordVars
  <1> QED
    BY <1>1, <1>2, <1>3, <1>4, <1>5, <1>6, <1>7, <1>8, <1>9, <1>10, <1>11, <1>12
       DEF Next, Coordinator, Loop

\* The mutex keeps scans and changes of the items apart.
LEMMA LocksStep ==
  ASSUME IInv, Next
  PROVE  Locks'
  <1> USE DEF IInv
  <1>1. CASE Retry \/ ChangeQuery \/ ChangeNth \/ ChangeWithNth \/ Coordinator
    <2>1. UNCHANGED <<pc, worker>>
      BY <1>1 DEF Retry, ChangeQuery, ChangeNth, ChangeWithNth, Coordinator, ScanStopped,
                  ResumeScan, CacheClear, ResetChanged
    <2>2. (scanMutex' = "coord" <=> coord' = "mutate") /\ (scanMutex' = "scan" <=> scanMutex = "scan")
      BY <1>1 DEF Retry, ChangeQuery, ChangeNth, ChangeWithNth, Coordinator, ScanStopped,
                  ResumeScan, CacheClear, ResetChanged, Locks
    <2> QED
      BY <2>1, <2>2 DEF Locks, Scanning
  <1>2. CASE TakeRequest \/ PassAll \/ SetSearchFin \/ SetSearchProgress
    BY <1>2 DEF TakeRequest, PassAll, SetSearchFin, SetSearchProgress, Locks, Scanning, coordVars
  <1>3. CASE StartScan \/ Count
    BY <1>3 DEF StartScan, Count, Locks, Scanning, coordVars
  <1>4. CASE Stopped \/ Collect
    BY <1>4 DEF Stopped, Collect, LeaveScan, Locks, Scanning, coordVars
  <1>5. CASE \E w \in Worker : Work(w)
    <2>1. PICK w \in Worker : Work(w)
      BY <1>5
    <2>2. worker[w].pc # "done"
      BY <2>1 DEF Work, Take, Lookup, Search, Match, Add, SendCount, SendResult
    <2>3. Scanning
      BY <2>2, IdleType DEF Locks
    <2>4. UNCHANGED <<coordVars, pc, scanMutex>>
      BY <2>1 DEF Work, Take, Lookup, Search, Match, Add, SendCount, SendResult
    <2> QED
      BY <2>3, <2>4 DEF Locks, Scanning, coordVars
  <1> QED
    BY <1>1, <1>2, <1>3, <1>4, <1>5 DEF Next, Loop

-----------------------------------------------------------------------------
\* What a worker has in its hands after a step of its own: less than before,
\* or one chunk more, which nobody had.
LEMMA WorkChunks ==
  ASSUME IInv, NEW w \in Worker, Work(w)
  PROVE  /\ UNCHANGED <<coordVars, pc, request, result, cancelled>>
         /\ \A v \in Worker \ {w} : worker'[v] = worker[v] /\ Chunks(v)' = Chunks(v)
         /\ \/ nextChunk' = nextChunk /\ Chunks(w)' \subseteq Chunks(w)
            \/ nextChunk' = nextChunk + 1 /\ Chunks(w)' \subseteq Chunks(w) \cup {nextChunk'}
  <1> USE DEF IInv
  <1>0. worker \in [Worker -> WorkerState] /\ worker[w] \in WorkerState
    BY DEF TypeOK
  <1>1. UNCHANGED <<coordVars, pc, request, result, cancelled>>
    BY DEF Work, Take, Lookup, Search, Match, Add, SendCount, SendResult, scanVars
  <1>2. ASSUME NEW v \in Worker \ {w}
        PROVE  worker'[v] = worker[v]
    BY <1>0 DEF Work, Take, Lookup, Search, Match, Add, SendCount, SendResult, Move
  <1>3. \A v \in Worker \ {w} : Chunks(v)' = Chunks(v)
    BY <1>2 DEF Chunks, Busy
  <1>4. CASE Take(w)
    <2>1. nextChunk' = nextChunk + 1
      BY <1>4 DEF Take
    <2>2. worker'[w].matches = worker[w].matches /\ (Busy(w)' => worker'[w].chunk = nextChunk')
      BY <1>0, <1>4 DEF Take, Busy, WorkerState
    <2> QED
      BY <1>1, <1>2, <1>3, <2>1, <2>2 DEF Chunks
  <1>5. CASE Lookup(w) \/ Search(w) \/ Add(w) \/ SendCount(w) \/ SendResult(w)
    <2>1. nextChunk' = nextChunk /\ worker'[w].matches = worker[w].matches
      BY <1>0, <1>5 DEF Lookup, Search, Add, SendCount, SendResult, Move, scanVars, WorkerState
    <2>2. Busy(w)' => Busy(w) /\ worker'[w].chunk = worker[w].chunk
      BY <1>0, <1>5 DEF Lookup, Search, Add, SendCount, SendResult, Move, Busy, WorkerState
    <2> QED
      BY <1>1, <1>2, <1>3, <2>1, <2>2 DEF Chunks
  <1>6. CASE Match(w)
    <2>1. nextChunk' = nextChunk /\ Busy(w) /\ worker'[w].chunk = worker[w].chunk
      BY <1>0, <1>6 DEF Match, Busy, scanVars, WorkerState
    <2>2. worker'[w].matches \subseteq worker[w].matches \cup {worker[w].chunk}
      BY <1>0, <1>6 DEF Match, WorkerState
    <2> QED
      BY <1>1, <1>2, <1>3, <2>1, <2>2 DEF Chunks
  <1> QED
    BY <1>4, <1>5, <1>6 DEF Work

\* No chunk is ever in the hands of two workers.
LEMMA OneEachStep ==
  ASSUME IInv, Next
  PROVE  OneEach'
  <1> USE DEF IInv
  <1>1. CASE UNCHANGED <<worker, nextChunk>>
    BY <1>1 DEF OneEach, Chunks, Busy
  <1>2. CASE StartScan \/ Stopped \/ Collect
    <2>1. \A w \in Worker : worker'[w].matches = {} /\ worker'[w].pc \in {"take", "done"}
      BY <1>2, IdleType DEF StartScan, Stopped, Collect, LeaveScan, WorkerState
    <2>2. \A w \in Worker : Chunks(w)' = {}
      BY <2>1 DEF Chunks, Busy
    <2> QED
      BY <2>2 DEF OneEach
  <1>3. CASE \E w \in Worker : Work(w)
    <2>1. PICK w \in Worker : Work(w)
      BY <1>3
    <2>2. nextChunk \in Nat /\ \A v \in Worker : Chunks(v) \subseteq 1 .. nextChunk
      BY DEF TypeOK, OneEach
    <2>3. CASE nextChunk' = nextChunk /\ Chunks(w)' \subseteq Chunks(w)
      BY <2>1, <2>3, WorkChunks DEF OneEach
    <2>4. CASE nextChunk' = nextChunk + 1 /\ Chunks(w)' \subseteq Chunks(w) \cup {nextChunk'}
      <3>1. \A v \in Worker : nextChunk' \notin Chunks(v)
        BY <2>2, <2>4
      <3>2. \A v \in Worker : Chunks(v)' \subseteq 1 .. nextChunk'
        <4>1. 1 .. nextChunk \subseteq 1 .. nextChunk' /\ nextChunk' \in 1 .. nextChunk'
          BY <2>2, <2>4
        <4> QED
          BY <2>1, <2>2, <2>4, <4>1, WorkChunks
      <3>3. \A u, v \in Worker : u # v => Chunks(u)' \cap Chunks(v)' = {}
        BY <2>1, <2>4, <3>1, WorkChunks DEF OneEach
      <3> QED
        BY <3>2, <3>3 DEF OneEach
    <2> QED
      BY <2>1, <2>3, <2>4, WorkChunks
  <1>4. CASE Retry \/ ChangeQuery \/ ChangeNth \/ ChangeWithNth \/ Coordinator
    BY <1>1, <1>4 DEF Retry, ChangeQuery, ChangeNth, ChangeWithNth, Coordinator, ScanStopped,
                      ResumeScan, CacheClear, ResetChanged, scanVars
  <1>5. CASE TakeRequest \/ PassAll \/ Count \/ SetSearchProgress \/ SetSearchFin
    BY <1>1, <1>5 DEF TakeRequest, PassAll, Count, SetSearchProgress, SetSearchFin, scanVars
  <1> QED
    BY <1>2, <1>3, <1>4, <1>5 DEF Next, Loop

\* A scan that goes on is not cancelled, and workers leave it only at its end.
LEMMA OnlyWhenDoneStep ==
  ASSUME IInv, Next
  PROVE  OnlyWhenDone'
  <1> USE DEF IInv
  <1>1. CASE Retry \/ ChangeQuery \/ ChangeNth \/ ChangeWithNth \/ Coordinator
    BY <1>1 DEF Retry, ChangeQuery, ChangeNth, ChangeWithNth, Coordinator, ScanStopped,
                ResumeScan, CacheClear, ResetChanged, scanVars, OnlyWhenDone
  <1>2. CASE TakeRequest \/ PassAll \/ Stopped \/ Collect \/ SetSearchFin
    BY <1>2 DEF TakeRequest, PassAll, Stopped, Collect, SetSearchFin, OnlyWhenDone
  <1>3. CASE StartScan
    <2>1. \A w \in Worker : worker'[w].pc = "take"
      BY <1>3, IdleType DEF StartScan, WorkerState
    <2> QED
      BY <1>3, <2>1 DEF StartScan, OnlyWhenDone
  <1>4. CASE Count
    BY <1>4 DEF Count, OnlyWhenDone
  <1>5. CASE SetSearchProgress
    BY <1>5 DEF SetSearchProgress, scanVars, OnlyWhenDone
  <1>6. CASE \E w \in Worker : Work(w)
    <2> SUFFICES ASSUME pc' \in {"count", "progress", "collect"}, NEW v \in Worker
                 PROVE  /\ ~cancelled'
                        /\ worker'[v].pc \in {"result", "done"} => nextChunk' > NumChunks
      BY ScanAssumption DEF OnlyWhenDone
    <2>1. PICK w \in Worker : Work(w)
      BY <1>6
    <2>2. /\ pc' = pc /\ cancelled' = cancelled /\ nextChunk' \in {nextChunk, nextChunk + 1}
          /\ \A u \in Worker \ {w} : worker'[u] = worker[u]
      BY <2>1, WorkChunks
    <2>3. ~cancelled /\ (worker[v].pc \in {"result", "done"} => nextChunk > NumChunks)
      BY <2>2 DEF OnlyWhenDone
    <2>4. nextChunk \in Nat /\ NumChunks \in Nat /\ worker \in [Worker -> WorkerState]
      BY Constants DEF TypeOK
    <2>5. worker'[w].pc \in {"result", "done"} => nextChunk' > NumChunks \/ worker[w].pc = "result"
      <3>1. CASE Take(w)
        BY <2>4, <3>1 DEF Take, WorkerState
      <3>2. CASE Add(w)
        BY <2>3, <2>4, <3>2 DEF Add, Move, WorkerState
      <3>3. CASE Lookup(w) \/ Search(w) \/ Match(w) \/ SendCount(w)
        <4>1. CASE Lookup(w)
          BY <2>4, <4>1 DEF Lookup, WorkerState
        <4>2. CASE Search(w)
          BY <2>4, <4>2 DEF Search, WorkerState
        <4>3. CASE Match(w)
          BY <2>4, <4>3 DEF Match, WorkerState
        <4>4. CASE SendCount(w)
          BY <2>4, <4>4 DEF SendCount, Move, WorkerState
        <4> QED
          BY <3>3, <4>1, <4>2, <4>3, <4>4
      <3>4. CASE SendResult(w)
        BY <3>4 DEF SendResult
      <3> QED
        BY <2>1, <3>1, <3>2, <3>3, <3>4 DEF Work
    <2> QED
      BY <2>2, <2>3, <2>4, <2>5
  <1> QED
    BY <1>1, <1>2, <1>3, <1>4, <1>5, <1>6 DEF Next, Loop

-----------------------------------------------------------------------------
\* As long as only the query changes, a request is for the first view.
LEMMA FirstView ==
  ASSUME IInv, Unchanged
  PROVE  /\ request.nth = 0 /\ request.key \in Nat
         /\ \A c \in Chunk : Matches(c, request) = Hit(c)
         /\ BitsExact /\ WorkExact /\ NoneSkipped /\ ResultExact
  <1>1. request.nth \in Nat /\ request.key \in Nat /\ request.nth <= 0 /\ items = 0
    BY Constants DEF IInv, TypeOK, Request, Bounds, Unchanged
  <1>2. request.nth = 0 /\ request.nth + items = 0
    BY <1>1
  <1> QED
    BY <1>1, <1>2 DEF Matches, Hit, IInv, Exact

\* The changes of the view are not taken back.
LEMMA NoWayBack ==
  ASSUME IInv, Next, Unchanged'
  PROVE  Unchanged /\ nth' = nth /\ items' = items
  <1>1. nth \in Nat /\ items \in Nat
    BY Constants DEF IInv, TypeOK
  <1>2. CASE Retry \/ ChangeQuery \/ ChangeWithNth \/ ScanStopped \/ CacheClear \/ ResetChanged
    BY <1>2 DEF Retry, ChangeQuery, ChangeWithNth, ScanStopped, CacheClear, ResetChanged, Unchanged
  <1>3. CASE ChangeNth \/ ResumeScan
    BY <1>1, <1>3 DEF ChangeNth, ResumeScan, Unchanged
  <1>4. CASE Loop
    BY <1>4 DEF Loop, TakeRequest, PassAll, StartScan, Count, SetSearchProgress, Stopped,
                Collect, SetSearchFin, coordVars, Unchanged
  <1>5. CASE \E w \in Worker : Work(w)
    BY <1>5, WorkChunks DEF coordVars, Unchanged
  <1> QED
    BY <1>2, <1>3, <1>4, <1>5 DEF Next, Coordinator

\* The keys of the cache are numbers.
LEMMA EntryKey ==
  ASSUME TypeOK, NEW c \in Chunk, NEW e \in cache[c]
  PROVE  e.key \in Nat
  <1>1. e \in Entry
    BY DEF TypeOK
  <1>2. e.key \in Key
    BY <1>1 DEF Entry
  <1> QED
    BY <1>2, Constants

\* A bitmap that was found in the cache rules out only what does not match.
LEMMA FoundBits ==
  ASSUME IInv, Unchanged, NEW c \in Chunk,
         NEW S, S \subseteq cache[c], \A e \in S : e.key <= request.key, Bits(S) = {FALSE}
  PROVE  ~Hit(c)
  <1>1. PICK e \in S : e.bit = FALSE
    BY DEF Bits
  <1>2. e \in cache[c] /\ e.key \in Nat
    BY EntryKey DEF IInv
  <1>3. ~(e.key <= Depth[0][c])
    BY <1>1, <1>2, FirstView DEF BitsExact
  <1>4. Depth[0][c] \in Nat
    BY Constants
  <1> QED
    BY <1>2, <1>3, <1>4, FirstView DEF Hit

\* A step of a worker: the bits it adds are right, its matches are, and it
\* lets go of a chunk only after it has matched it.
LEMMA WorkExactStep ==
  ASSUME IInv, Unchanged, Scanning, NEW w \in Worker, Work(w)
  PROVE  /\ BitsExact'
         /\ worker'[w].pc = "match" /\ worker'[w].bitmap = {FALSE} => ~Hit(worker'[w].chunk)
         /\ worker'[w].pc = "add" /\ Hit(worker'[w].chunk) => worker'[w].chunk \in worker'[w].matches
         /\ \A c \in worker'[w].matches : Hit(c)
         /\ \A c \in Chunk : Hit(c) /\ c \in Chunks(w) => c \in Chunks(w)'
         /\ nextChunk' = nextChunk \/ (nextChunk' \in Chunk => nextChunk' \in Chunks(w)')
  <1> USE DEF IInv
  <1>0. worker \in [Worker -> WorkerState] /\ worker[w] \in WorkerState
    BY DEF TypeOK
  <1>00. /\ worker[w].pc = "match" /\ worker[w].bitmap = {FALSE} => ~Hit(worker[w].chunk)
         /\ worker[w].pc = "add" /\ Hit(worker[w].chunk) => worker[w].chunk \in worker[w].matches
         /\ \A c \in worker[w].matches : Hit(c)
         /\ worker[w].chunk \in Chunk
    BY <1>0, FirstView DEF WorkExact, WorkerState
  <1>1. CASE Take(w)
    <2>1. /\ cache' = cache /\ worker'[w].matches = worker[w].matches /\ ~Busy(w)
          /\ worker'[w].pc \in {"result", "lookup"} /\ nextChunk' = nextChunk + 1
          /\ ~(nextChunk' > NumChunks) => worker'[w].pc = "lookup" /\ worker'[w].chunk = nextChunk'
      BY <1>0, <1>1 DEF Take, Busy, WorkerState
    <2>2. nextChunk' \in Chunk => ~(nextChunk' > NumChunks)
      BY Constants DEF Chunk
    <2> QED
      BY <1>00, <2>1, <2>2, FirstView DEF BitsExact, Chunks, Busy
  <1>2. CASE Lookup(w)
    <2> DEFINE S == LookupEntry(worker[w].chunk, request.key)
    <2>1. /\ cache' = cache /\ nextChunk' = nextChunk /\ worker'[w].bitmap = Bits(S)
          /\ worker'[w].matches = worker[w].matches /\ worker'[w].chunk = worker[w].chunk
          /\ worker'[w].pc \in {"search", "match"}
      BY <1>0, <1>2 DEF Lookup, WorkerState, scanVars
    <2>2. S \subseteq cache[worker[w].chunk] /\ \A e \in S : e.key <= request.key
      BY FirstView DEF LookupEntry
    <2>3. worker'[w].bitmap = {FALSE} => ~Hit(worker'[w].chunk)
      BY <1>00, <2>1, <2>2, FoundBits
    <2> QED
      BY <1>00, <1>2, <2>1, <2>3, FirstView DEF BitsExact, Chunks, Busy, Lookup
  <1>3. CASE Search(w)
    <2> DEFINE S == SearchEntry(worker[w].chunk, request.key)
    <2>1. /\ cache' = cache /\ nextChunk' = nextChunk /\ worker'[w].bitmap = Bits(S)
          /\ worker'[w].matches = worker[w].matches /\ worker'[w].chunk = worker[w].chunk
          /\ worker'[w].pc = "match"
      BY <1>0, <1>3 DEF Search, WorkerState, scanVars
    <2>2. S \subseteq cache[worker[w].chunk] /\ \A e \in S : e.key <= request.key
      <3>1. S \subseteq cache[worker[w].chunk] /\ \A e \in S : e.key < request.key
        BY DEF SearchEntry
      <3>2. \A e \in S : e.key \in Nat
        BY <1>00, <3>1, EntryKey
      <3> QED
        BY <3>1, <3>2, FirstView
    <2>3. worker'[w].bitmap = {FALSE} => ~Hit(worker'[w].chunk)
      BY <1>00, <2>1, <2>2, FoundBits
    <2> QED
      BY <1>00, <1>3, <2>1, <2>3, FirstView DEF BitsExact, Chunks, Busy, Search
  <1>4. CASE Match(w)
    <2> DEFINE c == worker[w].chunk
    <2>1. /\ cache' = cache /\ nextChunk' = nextChunk
          /\ worker'[w].chunk = c /\ worker'[w].pc = "add" /\ worker[w].pc = "match"
      BY <1>0, <1>4 DEF Match, WorkerState, scanVars
    <2>2. worker'[w].matches = worker[w].matches \cup (IF Hit(c) THEN {c} ELSE {})
      <3>1. worker[w].bitmap # {FALSE} /\ Matches(c, request) <=> Hit(c)
        <4>1. Matches(c, request) <=> Hit(c)
          BY <1>00, FirstView
        <4> QED
          BY <1>00, <2>1, <4>1
      <3>2. worker'[w].matches = worker[w].matches \cup
              (IF worker[w].bitmap # {FALSE} /\ Matches(c, request) THEN {c} ELSE {})
        BY <1>0, <1>4 DEF Match, WorkerState
      <3> QED
        BY <3>1, <3>2
    <2> QED
      BY <1>00, <2>1, <2>2, FirstView DEF BitsExact, Chunks, Busy
  <1>5. CASE Add(w)
    <2> DEFINE c == worker[w].chunk
               e == [key |-> request.key, bit |-> c \in worker[w].matches]
    <2>1. /\ nextChunk' = nextChunk /\ worker[w].pc = "add"
          /\ worker'[w].pc \in {"done", "send"} /\ worker'[w].matches = worker[w].matches
      BY <1>0, <1>5 DEF Add, Move, WorkerState, scanVars
    <2>2. e.bit = (e.key <= Depth[0][c])
      BY <1>00, <2>1 DEF Hit
    <2>3. BitsExact'
      <3>1. \A d \in Chunk : \A f \in cache'[d] : f \in cache[d] \/ (d = c /\ f = e)
        BY <1>5 DEF Add, TypeOK
      <3> QED
        BY <2>2, <3>1, FirstView DEF BitsExact
    <2> QED
      BY <1>00, <2>1, <2>3 DEF Chunks, Busy
  <1>6. CASE SendCount(w) \/ SendResult(w)
    <2>1. /\ cache' = cache /\ nextChunk' = nextChunk /\ ~Busy(w)
          /\ worker'[w].pc \in {"take", "done"} /\ worker'[w].matches = worker[w].matches
      BY <1>0, <1>6 DEF SendCount, SendResult, Move, Busy, WorkerState, scanVars
    <2> QED
      BY <1>00, <2>1, FirstView DEF BitsExact, Chunks, Busy
  <1> QED
    BY <1>1, <1>2, <1>3, <1>4, <1>5, <1>6 DEF Work

\* Everything that is exact stays so.
LEMMA ExactStep ==
  ASSUME IInv, Next
  PROVE  Exact'
  <1> SUFFICES ASSUME Unchanged'
               PROVE  BitsExact' /\ WorkExact' /\ NoneSkipped' /\ ResultExact'
    BY DEF Exact
  <1> USE DEF IInv
  <1>0. Unchanged /\ nth' = nth /\ items' = items
    BY NoWayBack
  <1>1. CASE Retry \/ ChangeQuery \/ ChangeNth \/ ChangeWithNth \/ Coordinator
    <2>1. UNCHANGED <<worker, request, pc, nextChunk, result>>
      BY <1>1 DEF Retry, ChangeQuery, ChangeNth, ChangeWithNth, Coordinator, ScanStopped,
                  ResumeScan, CacheClear, ResetChanged, scanVars
    <2>2. cache' = cache \/ \A c \in Chunk : cache'[c] = {}
      BY <1>1 DEF Retry, ChangeQuery, ChangeNth, ChangeWithNth, Coordinator, ScanStopped,
                  ResumeScan, CacheClear, ResetChanged
    <2>3. BitsExact'
      BY <1>0, <2>2, FirstView DEF BitsExact
    <2> QED
      BY <1>0, <2>1, <2>3, FirstView
         DEF WorkExact, NoneSkipped, ResultExact, Scanning, Hit, Chunks, Busy, Matches
  <1>2. CASE TakeRequest \/ Stopped \/ SetSearchFin
    <2>1. cache' = cache /\ pc' \in {"lock", "wait"}
      BY <1>2 DEF TakeRequest, Stopped, SetSearchFin
    <2> QED
      BY <1>0, <2>1, FirstView DEF BitsExact, WorkExact, NoneSkipped, ResultExact, Scanning
  <1>3. CASE PassAll
    <2>1. cache' = cache /\ pc' = "set" /\ request' = request /\ \A c \in Chunk : result'[c] = 1
      BY <1>3 DEF PassAll
    <2>2. \A c \in Chunk : Matches(c, request)'
      <3>1. \A c \in Chunk : 0 <= Depth[0][c]
        <4>1. \A c \in Chunk : Depth[0][c] \in Nat
          BY Constants
        <4> QED
          BY <4>1
      <3> QED
        BY <1>0, <1>3, <2>1, <3>1, FirstView DEF PassAll, Matches, Unchanged
    <2> QED
      BY <1>0, <2>1, <2>2, FirstView DEF BitsExact, WorkExact, NoneSkipped, ResultExact, Scanning
  <1>4. CASE StartScan
    <2>1. cache' = cache /\ pc' = "count" /\ nextChunk' = 0
      BY <1>4 DEF StartScan
    <2>2. \A w \in Worker : worker'[w].pc = "take" /\ worker'[w].matches = {}
      BY <1>4, IdleType DEF StartScan, WorkerState
    <2>3. \A c \in Chunk : ~(c <= 0)
      BY Constants DEF Chunk
    <2> QED
      BY <1>0, <2>1, <2>2, <2>3, FirstView
         DEF BitsExact, WorkExact, NoneSkipped, ResultExact
  <1>5. CASE Count \/ SetSearchProgress
    <2>1. UNCHANGED <<worker, request, nextChunk, cache>> /\ Scanning /\ pc' # "set"
      BY <1>5 DEF Count, SetSearchProgress, scanVars, Scanning
    <2> QED
      BY <1>0, <2>1, FirstView
         DEF BitsExact, WorkExact, NoneSkipped, ResultExact, Hit, Chunks, Busy
  <1>6. CASE Collect
    <2>1. /\ pc = "collect" /\ pc' = "set" /\ cache' = cache /\ request' = request
          /\ \A c \in Chunk : result'[c] = Merged(Worker)[c]
          /\ \A w \in Worker : worker[w].pc = "done"
      BY <1>6 DEF Collect, AllDone
    <2>2. nextChunk > NumChunks
      BY <2>1, ScanAssumption DEF OnlyWhenDone
    <2>3. ASSUME NEW c \in Chunk
          PROVE  result'[c] = IF Matches(c, request)' THEN 1 ELSE 0
      <3>1. Matches(c, request)' <=> Hit(c)
        <4>1. Matches(c, request)' <=> Matches(c, request)
          BY <1>0, <2>1 DEF Matches
        <4> QED
          BY <1>0, <4>1, FirstView
      <3>2. Hit(c) <=> \E w \in Worker : c \in worker[w].matches
        <4>1. \A w \in Worker : c \in worker[w].matches => Hit(c)
          BY <1>0, <2>1, FirstView DEF WorkExact, Scanning
        <4>2. c <= nextChunk
          BY <2>2, Constants DEF TypeOK, Chunk
        <4>3. Hit(c) => \E w \in Worker : c \in Chunks(w)
          BY <1>0, <2>1, <4>2, FirstView DEF NoneSkipped, Scanning
        <4>4. \A w \in Worker : Chunks(w) = worker[w].matches
          BY <2>1 DEF Chunks, Busy
        <4> QED
          BY <4>1, <4>3, <4>4
      <3> QED
        BY <2>1, <3>1, <3>2, OncePerChunk
    <2> QED
      BY <1>0, <2>1, <2>3, FirstView DEF BitsExact, WorkExact, NoneSkipped, ResultExact, Scanning
  <1>7. CASE \E w \in Worker : Work(w)
    <2>1. PICK w \in Worker : Work(w)
      BY <1>7
    <2>2. worker[w].pc # "done"
      BY <2>1 DEF Work, Take, Lookup, Search, Match, Add, SendCount, SendResult
    <2>3. Scanning
      BY <2>2, IdleType DEF Locks
    <2>4. UNCHANGED <<pc, request>> /\ \A v \in Worker \ {w} : worker'[v] = worker[v]
      BY <2>1, WorkChunks
    <2>5. WorkExact'
      <3>1. \A c : Hit(c)' <=> Hit(c)
        BY <2>4 DEF Hit
      <3> SUFFICES ASSUME NEW v \in Worker
                   PROVE  /\ worker'[v].pc = "match" /\ worker'[v].bitmap = {FALSE} => ~Hit(worker'[v].chunk)
                          /\ worker'[v].pc = "add" /\ Hit(worker'[v].chunk)
                                => worker'[v].chunk \in worker'[v].matches
                          /\ \A c \in worker'[v].matches : Hit(c)
        BY <3>1 DEF WorkExact
      <3>2. CASE v = w
        BY <1>0, <2>1, <2>3, <3>2, WorkExactStep
      <3>3. CASE v # w
        BY <1>0, <2>3, <2>4, <3>3, FirstView DEF WorkExact
      <3> QED
        BY <3>2, <3>3
    <2>6. NoneSkipped'
      <3> SUFFICES ASSUME NEW c \in Chunk, c <= nextChunk', Hit(c)'
                   PROVE  \E v \in Worker : c \in Chunks(v)'
        BY DEF NoneSkipped
      <3>1. Hit(c)
        BY <2>4 DEF Hit
      <3>2. CASE c <= nextChunk
        <4>1. PICK v \in Worker : c \in Chunks(v)
          BY <1>0, <2>3, <3>1, <3>2, FirstView DEF NoneSkipped
        <4>2. CASE v = w
          BY <1>0, <2>1, <2>3, <3>1, <4>1, <4>2, WorkExactStep
        <4>3. CASE v # w
          BY <2>1, <4>1, <4>3, WorkChunks
        <4> QED
          BY <4>2, <4>3
      <3>3. CASE ~(c <= nextChunk)
        <4>1. nextChunk \in Nat /\ c \in Nat
          BY Constants DEF TypeOK
        <4>2. c = nextChunk' /\ nextChunk' # nextChunk
          BY <2>1, <3>3, <4>1, WorkChunks
        <4> QED
          BY <1>0, <2>1, <2>3, <4>2, WorkExactStep
      <3> QED
        BY <3>2, <3>3
    <2>7. ResultExact'
      BY <2>3, <2>4 DEF ResultExact, Scanning
    <2> QED
      BY <1>0, <2>1, <2>3, <2>5, <2>6, <2>7, WorkExactStep
  <1> QED
    BY <1>1, <1>2, <1>3, <1>4, <1>5, <1>6, <1>7 DEF Next, Loop

-----------------------------------------------------------------------------
\* The invariant holds in every reachable state.
LEMMA Inductive == Spec => []IInv
  <1>1. IInv /\ [Next]_vars => IInv'
    <2> SUFFICES ASSUME IInv, [Next]_vars
                 PROVE  IInv'
      OBVIOUS
    <2>1. CASE Next
      <3>1. TypeOK'
        BY <2>1, CoordinatorType, LoopType, WorkType DEF Next
      <3> QED
        BY <2>1, <3>1, BoundsStep, LocksStep, OneEachStep, OnlyWhenDoneStep, ExactStep DEF IInv
    <2>2. CASE UNCHANGED vars
      <3>1. TypeOK' /\ Bounds' /\ Locks'
        BY <2>2 DEF vars, coordVars, scanVars, IInv, TypeOK, Bounds, Locks, Scanning
      <3>2. OneEach' /\ OnlyWhenDone'
        BY <2>2 DEF vars, coordVars, scanVars, IInv, OneEach, OnlyWhenDone, Chunks, Busy
      <3>3. Exact'
        BY <2>2 DEF vars, coordVars, scanVars, IInv, Exact, BitsExact, WorkExact, NoneSkipped,
                    ResultExact, Scanning, Hit, Chunks, Busy, Matches, Unchanged
      <3> QED
        BY <3>1, <3>2, <3>3 DEF IInv
    <2> QED
      BY <2>1, <2>2
  <1> QED
    BY <1>1, InitIInv, PTL DEF Spec

\* The scan keeps its types; a result has an item once at most.
THEOREM Typing == Spec => []TypeOK
  BY Inductive, PTL DEF IInv

\* No worker of a scan is about when the scan has returned: the next scan has
\* the slabs and the sort buffers for itself.
THEOREM WorkersGone == Spec => []NoneLeftBehind
  <1>1. IInv => NoneLeftBehind
    BY IdleType DEF IInv, Locks, Scanning, NoneLeftBehind, AllDone
  <1> QED
    BY <1>1, Inductive, PTL

\* No worker is about when items are rewritten for change-with-nth.
THEOREM Unshared == Spec => []ItemsUnshared
  <1>1. IInv => ItemsUnshared
    BY IdleType DEF IInv, Locks, ItemsUnshared, AllDone
  <1> QED
    BY <1>1, Inductive, PTL

\* A scan finds each matching item once and no other.
THEOREM ScanRight == Spec => []ResultExact
  <1>1. IInv => ResultExact
    BY DEF IInv, Exact, ResultExact
  <1> QED
    BY <1>1, Inductive, PTL

\* The bitmaps of the chunk cache are those of their queries.
THEOREM CacheRight == Spec => []CacheExact
  <1>1. ASSUME IInv, Unchanged
        PROVE  BitmapsExact
    <2> SUFFICES ASSUME NEW c \in Chunk, NEW e \in cache[c]
                 PROVE  e.bit = Matches(c, [key |-> e.key, nth |-> nth])
      BY DEF BitmapsExact
    <2>1. e.bit = (e.key <= Depth[0][c])
      BY <1>1, FirstView DEF BitsExact
    <2>2. nth + items = 0
      BY <1>1 DEF Unchanged
    <2> QED
      BY <2>1, <2>2 DEF Matches
  <1> QED
    BY <1>1, Inductive, PTL DEF CacheExact

-----------------------------------------------------------------------------
(***************************************************************************)
(* What is proved of the merger (Merging.tla), for snapshots of any size,  *)
(* any number of workers and any rows asked for in any order.              *)
(*                                                                         *)
(* A merger of chunks: Get finds the item of a row by dividing by the size *)
(* of a chunk; ItemAt says that this is the item as far from the first as  *)
(* the row is, and FindsWhatGetShows that FindIndex then returns the row.  *)
(*                                                                         *)
(* A merger of lists: the invariant Merges says that the rows merged so    *)
(* far are what the cursors have passed, in order, and all of them before  *)
(* everything that is left.  Taking the best of the heads keeps it         *)
(* (TakeKeeps), so mergedGet does (MergesUpTo), and a row has as many      *)
(* results above it as its number says (RowPlace, by counting).            *)
(*                                                                         *)
(* It starts because each worker's list is in order (ListsInOrder): a      *)
(* worker finds its items one after the other (FoundInOrder), and          *)
(* radixSortResults orders them by rank (RadixSorts).  A pass of it leaves *)
(* equal digits in their order (ScatterStep), so eight passes order the    *)
(* results by all the bytes of their points (AllBytes), which are numbers  *)
(* of 16 bits (PointType), and then by item; with --tac the runs of equal  *)
(* ranks are reversed (ReversalsSort).                                     *)
(***************************************************************************)

\* The view on its own: one merger, and the rows the terminal asks it for
ViewSpec == InitView /\ [][Get]_<<view, got>>

\* A function on 1 .. n is a sequence of length n.
LEMMA FunIsSeq ==
  ASSUME NEW S, NEW n \in Nat, NEW f \in [1 .. n -> S]
  PROVE  f \in Seq(S) /\ Len(f) = n /\ DOMAIN f = 1 .. n
  <1>1. f \in Seq(S)
    BY SeqDef
  <1>2. Len(f) \in Nat /\ DOMAIN f = 1 .. Len(f)
    BY <1>1, LenProperties
  <1>3. DOMAIN f = 1 .. n
    OBVIOUS
  <1> DEFINE m == Len(f)
  <1>4. m \in Nat /\ 1 .. m = 1 .. n
    BY <1>2, <1>3
  <1> HIDE DEF m
  <1>5. m = n
    BY <1>4
  <1> QED
    BY <1>1, <1>3, <1>5 DEF m

\* The partial sums of f
IsSums(n, f, s) ==
  s \in [0 .. n -> Nat] /\ s[0] = 0 /\ \A i \in 1 .. n : s[i] = s[i - 1] + f[i]

\* Sum adds up f: its value is the last partial sum.
LEMMA SumIs ==
  ASSUME NEW n \in Nat, NEW f \in [1 .. n -> Nat], NEW s, IsSums(n, f, s)
  PROVE  Sum(f) = s[n]
  <1> DEFINE Sums(t) == t = [i \in 0 .. n |-> IF i = 0 THEN 0 ELSE t[i - 1] + f[i]]
             o == CHOOSE t : Sums(t)
  <1>1. Len(f) = n
    BY FunIsSeq
  <1>2. Sum(f) = o[n]
    <2>1. Sum(f) = (CHOOSE t : t = [i \in 0 .. Len(f) |->
                                      IF i = 0 THEN 0 ELSE t[i - 1] + f[i]])[Len(f)]
      BY DEF Sum
    <2> QED
      BY <1>1, <2>1
  <1>3. s \in [0 .. n -> Nat] /\ s[0] = 0 /\ \A i \in 1 .. n : s[i] = s[i - 1] + f[i]
    BY DEF IsSums
  <1>4. Sums(s)
    <2>1. \A i \in 0 .. n : s[i] = IF i = 0 THEN 0 ELSE s[i - 1] + f[i]
      BY <1>3
    <2> QED
      BY <1>3, <2>1
  <1>5. Sums(o)
    BY <1>4
  <1> HIDE DEF o
  <1>6. \A i \in 0 .. n : o[i] = IF i = 0 THEN 0 ELSE o[i - 1] + f[i]
    BY <1>5
  <1>7. \A i \in 0 .. n : o[i] = s[i]
    <2> DEFINE Bad == {i \in 0 .. n : o[i] # s[i]}
    <2> SUFFICES ASSUME Bad # {} PROVE FALSE
      OBVIOUS
    <2>1. PICK k \in Bad : \A j \in Bad : k <= j
      <3>1. Bad \in SUBSET Nat
        OBVIOUS
      <3> HIDE DEF Bad
      <3> QED
        BY <3>1, LeastNat
    <2>2. k \in 1 .. n /\ k - 1 \in 0 .. n /\ k - 1 \notin Bad
      BY <2>1, <1>3, <1>6
    <2> QED
      BY <2>2, <1>3, <1>6
  <1> QED
    BY <1>2, <1>7

\* Every f has partial sums.
LEMMA SumsExist ==
  ASSUME NEW n \in Nat, NEW f \in [1 .. n -> Nat]
  PROVE  \E s : IsSums(n, f, s)
  BY PrefixSums DEF IsSums

-----------------------------------------------------------------------------
(* A merger of chunks *)

\* The place of the first item of chunk k in the list
FirstPlace(chunks, k) == IF k = 1 THEN 0 ELSE Len(chunks[1]) + ChunkSize * (k - 2)

\* How many items the chunks have
Total(chunks) == FirstPlace(chunks, Len(chunks)) + Len(chunks[Len(chunks)])

\* The sizes of the chunks add up to their Total.
LEMMA ChunksSum ==
  ASSUME NEW chunks, IsSnapshot(chunks)
  PROVE  /\ Len(chunks) \in Nat \ {0} /\ DOMAIN chunks = 1 .. Len(chunks)
         /\ Sum([k \in DOMAIN chunks |-> Len(chunks[k])]) = Total(chunks)
  <1> DEFINE n == Len(chunks)
             f == [k \in DOMAIN chunks |-> Len(chunks[k])]
  <1>1. chunks \in Seq(Seq(Nat)) /\ chunks # <<>>
    BY DEF IsSnapshot
  <1>2. n \in Nat /\ n # 0 /\ DOMAIN chunks = 1 .. n
    BY <1>1, LenProperties, EmptySeq
  <1>3. \A k \in 1 .. n : chunks[k] \in Seq(Nat) /\ Len(chunks[k]) \in Nat
    BY <1>1, <1>2, ElementOfSeq, LenProperties
  <1>4. f \in [1 .. n -> Nat]
    BY <1>2, <1>3
  <1>5. PICK s : IsSums(n, f, s)
    <2> HIDE DEF n, f
    <2> QED
      BY <1>2, <1>4, SumsExist
  <1>6. Sum(f) = s[n]
    <2> HIDE DEF n, f
    <2> QED
      BY <1>2, <1>4, <1>5, SumIs
  <1>7. \A k \in 1 .. n : f[k] = Len(chunks[k])
    BY <1>2
  <1>8. s \in [0 .. n -> Nat] /\ s[0] = 0 /\ \A i \in 1 .. n : s[i] = s[i - 1] + f[i]
    BY <1>5 DEF IsSums
  <1>9. s[1] = Len(chunks[1])
    <2>1. 1 \in 1 .. n /\ 1 - 1 = 0
      BY <1>2
    <2> HIDE DEF f, n
    <2>2. s[1] = s[0] + f[1]
      BY <1>8, <2>1
    <2> QED
      BY <1>3, <1>7, <1>8, <2>1, <2>2
  <1>10. s[n] = Total(chunks)
    <2>1. CASE n = 1
      BY <1>3, <1>9, <2>1 DEF Total, FirstPlace
    <2>2. CASE n # 1
      <3> DEFINE m == n - 1
      <3>1. m \in 1 .. n /\ m \in Nat /\ m - 1 = n - 2
        BY <1>2, <2>2
      <3>2. ChunkSize \in Nat
        BY MergingAssumption
      <3>3. \A i \in 2 .. m : s[i] = s[i - 1] + ChunkSize
        <4>1. \A i \in 2 .. n - 1 : Len(chunks[i]) = ChunkSize
          BY DEF IsSnapshot
        <4>2. \A i \in 2 .. m : i \in 1 .. n /\ i \in 2 .. n - 1
          BY <1>2
        <4> HIDE DEF m, f, n
        <4> QED
          BY <1>7, <1>8, <4>1, <4>2 DEF m
      <3>4. s[m] = s[1] + ChunkSize * (m - 1)
        <4> HIDE DEF m, f, n
        <4> QED
          BY <1>2, <1>8, <3>1, <3>2, <3>3, LinearSums
      <3>5. s[n] = s[m] + Len(chunks[n])
        BY <1>2, <1>7, <1>8
      <3> QED
        BY <1>9, <2>2, <3>1, <3>4, <3>5 DEF Total, FirstPlace
    <2> QED
      BY <2>1, <2>2
  <1> QED
    BY <1>2, <1>6, <1>10

\* Division by the size of a chunk
LEMMA Division ==
  ASSUME NEW c \in Nat \ {0}, NEW i \in Nat
  PROVE  i \div c \in Nat /\ i % c \in 0 .. c - 1 /\ i = c * (i \div c) + (i % c)
  <1>1. i \div c \in Int /\ i % c \in 0 .. c - 1 /\ i = c * (i \div c) + (i % c)
    OBVIOUS
  <1> DEFINE q == i \div c
             r == i % c
  <1> HIDE DEF q, r
  <1>2. ASSUME q \in Int, r \in 0 .. c - 1, i = c * q + r PROVE q \in Nat
    BY <1>2
  <1> QED
    BY <1>1, <1>2 DEF q, r

\* What is before another chunk's first item is in an earlier chunk.
LEMMA FewerChunks ==
  ASSUME NEW c \in Nat \ {0}, NEW q \in Int, NEW m \in Int, c * q < c * m
  PROVE  q < m
  <1> SUFFICES ASSUME q >= m PROVE FALSE
    OBVIOUS
  <1>1. q - m \in Nat
    OBVIOUS
  <1>2. c * (q - m) >= 0
    BY <1>1
  <1>3. c * (q - m) = c * q - c * m
    OBVIOUS
  <1> QED
    BY <1>2, <1>3

\* The item at place r of the chunk with q others between it and the first one
LEMMA BehindTheFirst ==
  ASSUME NEW chunks, IsSnapshot(chunks), NEW q \in Nat, NEW r \in 0 .. ChunkSize - 1,
         Len(chunks[1]) + ChunkSize * q + r < Total(chunks)
  PROVE  chunks[q + 2][r + 1] = chunks[1][1] + Len(chunks[1]) + ChunkSize * q + r
  <1> DEFINE n == Len(chunks)
             l == Len(chunks[1])
             len == Len(chunks[n])
             c == ChunkSize
             b == chunks[1][1]
  <1>1. n \in Nat \ {0} /\ DOMAIN chunks = 1 .. n
    BY ChunksSum
  <1>2. c \in Nat \ {0} /\ l \in 1 .. c /\ len \in 1 .. c
    <2>1. \A k \in 1 .. n : Len(chunks[k]) \in 1 .. c
      BY <1>1 DEF IsSnapshot
    <2>2. 1 \in 1 .. n /\ n \in 1 .. n
      BY <1>1
    <2> QED
      BY <2>1, <2>2, MergingAssumption
  <1>3. \A k \in 1 .. n : chunks[k] \in Seq(Nat) /\ DOMAIN chunks[k] = 1 .. Len(chunks[k])
    BY <1>1, ElementOfSeq, LenProperties DEF IsSnapshot
  <1>4. b \in Nat
    <2>1. 1 \in 1 .. n /\ 1 \in 1 .. l
      BY <1>1, <1>2
    <2> QED
      BY <1>3, <2>1, ElementOfSeq
  <1>5. Total(chunks) = (IF n = 1 THEN 0 ELSE l + c * (n - 2)) + len /\ (n = 1 => len = l)
    BY DEF Total, FirstPlace
  <1> DEFINE cq == c * q
             cm == c * (n - 2)
  <1>6. cq \in Nat /\ cm \in Int
    BY <1>1, <1>2
  <1>7. n # 1 /\ cq + r < cm + len
    <2> HIDE DEF cq, cm, l, len, n
    <2>1. l + cq + r < Total(chunks)
      BY DEF cq, l
    <2>2. Total(chunks) = (IF n = 1 THEN 0 ELSE l + cm) + len
      BY <1>5 DEF cm
    <2> QED
      BY <1>1, <1>2, <1>5, <1>6, <2>1, <2>2
  <1>8. q < n - 1
    <2>1. c * (n - 1) = cm + c
      BY <1>1, <1>2
    <2>2. cq < c * (n - 1)
      <3> DEFINE d == c * (n - 1)
      <3> HIDE DEF cq, cm, d, len
      <3> QED
        BY <1>2, <1>6, <1>7, <2>1 DEF d
    <2> QED
      BY <1>1, <1>2, <2>2, FewerChunks
  <1> DEFINE k == q + 2
  <1>9. k \in 2 .. n /\ k \in DOMAIN chunks /\ k # 1 /\ k - 2 = q
    BY <1>1, <1>8
  <1>10. r + 1 \in 1 .. Len(chunks[k])
    <2>1. CASE k = n
      <3>1. q = n - 2
        <4> HIDE DEF n
        <4> QED
          BY <1>1, <2>1
      <3>2. r < len
        <4>1. cq = cm
          BY <3>1
        <4> HIDE DEF cq, cm, len
        <4> QED
          BY <1>2, <1>6, <1>7, <4>1
      <3> QED
        BY <1>2, <2>1, <3>2
    <2>2. CASE k # n
      <3>1. k \in 2 .. n - 1
        <4> HIDE DEF n, k
        <4> QED
          BY <1>1, <1>9, <2>2
      <3>2. Len(chunks[k]) = c
        BY <3>1 DEF IsSnapshot
      <3> QED
        BY <1>2, <3>2
    <2> QED
      BY <2>1, <2>2
  <1>11. r + 1 \in DOMAIN chunks[k]
    BY <1>1, <1>3, <1>9, <1>10
  <1>12. chunks[k][r + 1] = b + (l + c * (k - 2)) + (r + 1) - 1
    <2> HIDE DEF k
    <2> QED
      BY <1>9, <1>11 DEF IsSnapshot
  <1>13. chunks[k][r + 1] = b + (l + cq) + (r + 1) - 1
    BY <1>9, <1>12
  <1> HIDE DEF cq, l, b
  <1>14. chunks[k][r + 1] = b + l + cq + r
    BY <1>2, <1>4, <1>6, <1>13
  <1> QED
    BY <1>14 DEF cq, l, b

\* The item at place r of the first chunk
LEMMA InTheFirst ==
  ASSUME NEW chunks, IsSnapshot(chunks), NEW r \in 0 .. Len(chunks[1]) - 1
  PROVE  chunks[1][r + 1] = chunks[1][1] + r
  <1>1. Len(chunks) \in Nat \ {0} /\ DOMAIN chunks = 1 .. Len(chunks)
    BY ChunksSum
  <1>2. 1 \in DOMAIN chunks /\ chunks[1] \in Seq(Nat)
    BY <1>1, ElementOfSeq DEF IsSnapshot
  <1>3. Len(chunks[1]) \in Nat /\ DOMAIN chunks[1] = 1 .. Len(chunks[1])
    BY <1>2, LenProperties
  <1>4. r + 1 \in DOMAIN chunks[1] /\ r \in Nat
    BY <1>3
  <1>5. 1 \in DOMAIN chunks[1]
    BY <1>3
  <1>6. chunks[1][1] \in Nat
    BY <1>2, <1>3, <1>5, ElementOfSeq
  <1>7. chunks[1][r + 1] = chunks[1][1] + 0 + (r + 1) - 1
    BY <1>2, <1>4 DEF IsSnapshot
  <1> QED
    BY <1>4, <1>6, <1>7

\* Get reads the item at the place it was asked for, in whichever chunk.
LEMMA ItemAt ==
  ASSUME NEW chunks, IsSnapshot(chunks), NEW i \in 0 .. Total(chunks) - 1
  PROVE  LET short == Len(chunks[1]) < ChunkSize /\ i >= Len(chunks[1])
             j == IF short THEN i - Len(chunks[1]) ELSE i
         IN  chunks[j \div ChunkSize + (IF short THEN 2 ELSE 1)][(j % ChunkSize) + 1]
               = chunks[1][1] + i
  <1> DEFINE n == Len(chunks)
             l == Len(chunks[1])
             c == ChunkSize
             b == chunks[1][1]
  <1>1. n \in Nat \ {0} /\ DOMAIN chunks = 1 .. n
    BY ChunksSum
  <1>2. c \in Nat \ {0} /\ l \in 1 .. c
    <2>1. 1 \in 1 .. n
      BY <1>1
    <2> QED
      BY <1>1, <2>1, MergingAssumption DEF IsSnapshot
  <1>3. b \in Nat
    <2>1. chunks[1] \in Seq(Nat) /\ 1 \in 1 .. l
      BY <1>1, <1>2, ElementOfSeq DEF IsSnapshot
    <2> QED
      BY <2>1, LenProperties, ElementOfSeq
  <1>4. i \in Nat /\ i < Total(chunks)
    <2>1. Total(chunks) \in Int
      <3>1. n \in 1 .. n /\ Len(chunks[n]) \in Nat
        BY <1>1, <1>2 DEF IsSnapshot
      <3> QED
        BY <1>1, <1>2, <3>1 DEF Total, FirstPlace
    <2> QED
      BY <2>1
  <1>5. CASE l < c /\ i >= l
    <2> DEFINE j == i - l
               q == j \div c
               r == j % c
    <2>1. j \in Nat /\ i = l + j
      <3> HIDE DEF l
      <3> QED
        BY <1>2, <1>4, <1>5
    <2>2. q \in Nat /\ r \in 0 .. c - 1 /\ j = c * q + r
      <3> HIDE DEF j
      <3> QED
        BY <1>2, <2>1, Division
    <2>3. i = l + c * q + r
      <3> DEFINE m == c * q
      <3>1. m \in Nat /\ r \in Nat /\ l \in Nat /\ i = l + j /\ j = m + r
        <4> HIDE DEF j, r, q
        <4> QED
          BY <1>2, <2>1, <2>2
      <3> HIDE DEF m, r, l, j
      <3>2. i = l + m + r
        BY <3>1
      <3> QED
        BY <3>2 DEF m
    <2> HIDE DEF q, r, j
    <2>4. chunks[q + 2][r + 1] = b + l + c * q + r
      BY <1>4, <2>2, <2>3, BehindTheFirst
    <2>5. b + l + c * q + r = b + i
      <3> DEFINE m == c * q
      <3>1. m \in Nat /\ r \in Nat
        BY <1>2, <2>2
      <3> HIDE DEF m, b, l
      <3> QED
        BY <1>2, <1>3, <2>3, <3>1 DEF m
    <2> QED
      BY <1>5, <2>4, <2>5 DEF q, r, j
  <1>6. CASE ~(l < c /\ i >= l)
    <2> DEFINE q == i \div c
               r == i % c
    <2>1. q \in Nat /\ r \in 0 .. c - 1 /\ i = c * q + r
      BY <1>2, <1>4, Division
    <2> HIDE DEF q, r
    <2>2. chunks[q + 1][r + 1] = b + i
      <3>1. CASE q = 0
        <4>1. i = r /\ i < c
          BY <1>2, <2>1, <3>1
        <4>2. r \in 0 .. l - 1
          <5> HIDE DEF l
          <5> QED
            BY <1>2, <1>6, <2>1, <4>1
        <4> QED
          BY <3>1, <4>1, <4>2, InTheFirst
      <3>2. CASE q # 0
        <4> DEFINE p == q - 1
                   m == c * p
        <4>1. p \in Nat /\ q + 1 = p + 2 /\ c * q = c + m /\ m \in Nat
          BY <1>2, <2>1, <3>2
        <4>2. l = c
          <5>1. i >= c
            <6> HIDE DEF m, p
            <6> QED
              BY <1>2, <2>1, <4>1
          <5> HIDE DEF l
          <5> QED
            BY <1>2, <1>4, <1>6, <5>1
        <4>3. i = l + m + r
          <5> HIDE DEF l, m, p
          <5> QED
            BY <1>2, <2>1, <4>1, <4>2
        <4>4. chunks[p + 2][r + 1] = b + l + m + r
          <5> HIDE DEF p
          <5> QED
            BY <1>4, <2>1, <4>1, <4>3, BehindTheFirst
        <4>5. b + l + m + r = b + i
          <5> HIDE DEF b, l, m
          <5> QED
            BY <1>2, <1>3, <2>1, <4>1, <4>3
        <4> QED
          BY <4>1, <4>4, <4>5
      <3> QED
        BY <3>1, <3>2
    <2> QED
      BY <1>6, <2>2 DEF q, r
  <1> QED
    BY <1>5, <1>6

\* FindIndex finds what Get shows, whatever row it was asked for.
LEMMA FindsWhatGetShows ==
  ASSUME NEW chunks \in Snapshots, NEW tac \in BOOLEAN, NEW start \in HeaderLines,
         NEW v, v = PassMerger(chunks, tac, start), NEW idx \in 0 .. v.count - 1
  PROVE  FindIndex(v, PassGet(v, idx)) = idx
  <1> DEFINE N == Total(chunks)
             b == chunks[1][1]
             i == (IF tac THEN v.count - idx - 1 ELSE idx) + start
  <1>1. IsSnapshot(chunks) /\ start \in Nat
    BY MergingAssumption
  <1>2. /\ v.chunks = chunks /\ v.tac = tac /\ v.startIndex = start /\ v.minIndex = b + start
        /\ v.count = MaxOf(0, Sum([k \in DOMAIN chunks |-> Len(chunks[k])]) - start)
    BY DEF PassMerger
  <1>3. Sum([k \in DOMAIN chunks |-> Len(chunks[k])]) = N
    BY <1>1, ChunksSum
  <1>4. N \in Int /\ b \in Nat
    <2>1. Len(chunks) \in Nat \ {0} /\ DOMAIN chunks = 1 .. Len(chunks)
      BY <1>1, ChunksSum
    <2>2. \A k \in DOMAIN chunks : chunks[k] \in Seq(Nat) /\ Len(chunks[k]) \in 1 .. ChunkSize
      BY <1>1, <2>1, ElementOfSeq DEF IsSnapshot
    <2>3. 1 \in DOMAIN chunks /\ Len(chunks) \in DOMAIN chunks
      BY <2>1
    <2>4. Len(chunks[1]) \in Nat \ {0} /\ Len(chunks[Len(chunks)]) \in Nat
      BY <2>2, <2>3, MergingAssumption
    <2>5. b \in Nat
      BY <2>2, <2>3, <2>4, LenProperties, ElementOfSeq
    <2> QED
      BY <2>1, <2>4, <2>5, MergingAssumption DEF Total, FirstPlace
  <1> HIDE DEF N, b
  <1>5. v.count = N - start /\ v.count \in Nat /\ idx \in Nat /\ idx < v.count
    <2>1. v.count = MaxOf(0, N - start)
      BY <1>2, <1>3
    <2>2. N - start \in Int
      BY <1>1, <1>4
    <2>3. v.count \in Nat /\ (v.count > 0 => v.count = N - start)
      BY <2>1, <2>2 DEF MaxOf
    <2> QED
      BY <2>3
  <1>6. i \in 0 .. N - 1
    BY <1>1, <1>4, <1>5
  <1>7. PassGet(v, idx) = b + i
    <2> HIDE DEF i
    <2>1. LET short == Len(chunks[1]) < ChunkSize /\ i >= Len(chunks[1])
              j == IF short THEN i - Len(chunks[1]) ELSE i
          IN  chunks[j \div ChunkSize + (IF short THEN 2 ELSE 1)][(j % ChunkSize) + 1] = b + i
      BY <1>1, <1>6, ItemAt DEF N, b
    <2> QED
      BY <1>2, <2>1 DEF PassGet, i
  <1> QED
    BY <1>1, <1>2, <1>4, <1>5, <1>7 DEF FindIndex

\* A merger of chunks stays what PassMerger made it.
PassView ==
  /\ "kind" \in DOMAIN view
  /\ view.kind = "pass" =>
    \E chunks \in Snapshots : \E tac \in BOOLEAN : \E start \in HeaderLines :
      view = PassMerger(chunks, tac, start)

\* PassView and the property hold when the view is made.
LEMMA InitPass == InitView => PassView /\ FoundWhereShown
  <1> SUFFICES ASSUME InitView PROVE PassView /\ FoundWhereShown
    OBVIOUS
  <1>1. FoundWhereShown
    BY DEF InitView, FoundWhereShown
  <1>2. CASE \E lists, sort, tac : view = NewMerger(lists, sort, tac)
    <2>1. "kind" \in DOMAIN view /\ view.kind = "lists"
      BY <1>2 DEF NewMerger
    <2> QED
      BY <1>1, <2>1 DEF PassView
  <1>3. CASE \E chunks \in Snapshots : \E tac \in BOOLEAN : \E start \in HeaderLines :
               view = PassMerger(chunks, tac, start)
    <2>1. "kind" \in DOMAIN view
      BY <1>3 DEF PassMerger
    <2> QED
      BY <1>1, <1>3, <2>1 DEF PassView
  <1> QED
    BY <1>2, <1>3 DEF InitView

\* Get of a merger of chunks leaves it alone; of a merger of lists, it stays one.
LEMMA GetPass ==
  ASSUME PassView, FoundWhereShown, [Get]_<<view, got>>
  PROVE  PassView' /\ FoundWhereShown'
  <1>1. CASE UNCHANGED <<view, got>>
    BY <1>1 DEF PassView, FoundWhereShown
  <1>2. CASE Get /\ view.kind = "pass"
    <2>1. PICK idx \in 0 .. view.count - 1 : view' = view /\ got' = <<idx, PassGet(view, idx)>>
      BY <1>2 DEF Get
    <2>2. PICK chunks \in Snapshots : \E tac \in BOOLEAN : \E start \in HeaderLines :
            view = PassMerger(chunks, tac, start)
      BY <1>2 DEF PassView
    <2>3. FindIndex(view, PassGet(view, idx)) = idx
      BY <2>2, FindsWhatGetShows
    <2> QED
      BY <2>1, <2>3 DEF PassView, FoundWhereShown
  <1>3. CASE Get /\ view.kind # "pass"
    <2>1. PICK idx \in 0 .. view.count - 1 : view' = MergedUpTo(view, Row(view, idx))
      BY <1>3 DEF Get
    <2> DEFINE v == MergedUpTo(view, Row(view, idx))
    <2>2. \E merged, cursors : v = [view EXCEPT !.merged = merged, !.cursors = cursors]
      BY DEF MergedUpTo
    <2> HIDE DEF v
    <2>3. DOMAIN v = DOMAIN view /\ v.kind = view.kind
      BY <2>2 DEF PassView
    <2> QED
      BY <1>3, <2>1, <2>3 DEF v, PassView, FoundWhereShown
  <1> QED
    BY <1>1, <1>2, <1>3

\* The item of a row is found at that row again.
THEOREM Found == ViewSpec => []FoundWhereShown
  <1>1. PassView /\ FoundWhereShown /\ [Get]_<<view, got>> => (PassView /\ FoundWhereShown)'
    BY GetPass
  <1> QED
    BY InitPass, <1>1, PTL DEF ViewSpec

-----------------------------------------------------------------------------
(* A merger of lists: the order of the results *)

Result == [index : Nat, points : [1 .. 4 -> 0 .. MaxUint16]]

\* The points are numbers.
LEMMA NumbersOnly ==
  ASSUME NEW r \in Result
  PROVE  r.points \in [1 .. 4 -> Nat] /\ r.index \in Nat
  <1>1. r.points \in [1 .. 4 -> 0 .. MaxUint16] /\ r.index \in Nat
    BY DEF Result
  <1>2. 0 .. MaxUint16 \in SUBSET Nat
    BY DEF MaxUint16
  <1> QED
    BY <1>1, <1>2

\* The first place where two results differ
LEMMA FirstPoint ==
  ASSUME NEW i \in Result, NEW j \in Result, NEW D,
         D = {k \in 1 .. 4 : i.points[k] # j.points[k]}, D # {}
  PROVE  FirstOf(D) \in D /\ \A k \in D : FirstOf(D) <= k
  <1>1. \E x \in D : \A y \in D : x <= y
    <2>1. D \in SUBSET Nat
      OBVIOUS
    <2> QED
      BY <2>1, LeastNat
  <1> QED
    BY <1>1 DEF FirstOf

\* q is before r by its points.
PointsLess(q, r) ==
  \E k \in 1 .. 4 : q.points[k] < r.points[k] /\ \A m \in 1 .. k - 1 : q.points[m] = r.points[m]
PointsSame(q, r) == \A k \in 1 .. 4 : q.points[k] = r.points[k]

\* i is better than j: at the first point they differ, or by the index
Outranks(i, j, tac) ==
  \/ PointsLess(i, j)
  \/ PointsSame(i, j) /\ (IF tac THEN i.index > j.index ELSE i.index < j.index)

\* compareRanks compares the points and then the indices.
LEMMA RanksCompare ==
  ASSUME NEW i \in Result, NEW j \in Result, i.index # j.index, NEW tac \in BOOLEAN
  PROVE  CompareRanks(i, j, tac) <=> Outranks(i, j, tac)
  <1> DEFINE D == {k \in 1 .. 4 : i.points[k] # j.points[k]}
  <1>1. /\ i.points \in [1 .. 4 -> Nat] /\ j.points \in [1 .. 4 -> Nat]
        /\ i.index \in Nat /\ j.index \in Nat
    BY NumbersOnly
  <1>2. CASE D = {}
    <2>1. CompareRanks(i, j, tac) <=> ((i.index <= j.index) # tac)
      BY <1>2 DEF CompareRanks
    <2>2. \A k \in 1 .. 4 : i.points[k] = j.points[k]
      BY <1>2
    <2>3. Outranks(i, j, tac) <=> (IF tac THEN i.index > j.index ELSE i.index < j.index)
      BY <1>1, <2>2 DEF Outranks, PointsLess, PointsSame
    <2>4. CASE tac
      <3>1. ((i.index <= j.index) # tac) <=> ~(i.index <= j.index)
        BY <2>4
      <3>2. ~(i.index <= j.index) <=> i.index > j.index
        BY <1>1
      <3> QED
        BY <2>1, <2>3, <2>4, <3>1, <3>2
    <2>5. CASE ~tac
      <3>1. ((i.index <= j.index) # tac) <=> (i.index <= j.index)
        BY <2>5
      <3>2. (i.index <= j.index) <=> i.index < j.index
        BY <1>1
      <3> QED
        BY <2>1, <2>3, <2>5, <3>1, <3>2
    <2> QED
      BY <2>4, <2>5
  <1>3. CASE D # {}
    <2> DEFINE f == FirstOf(D)
    <2>1. CompareRanks(i, j, tac) <=> i.points[f] < j.points[f]
      BY <1>3 DEF CompareRanks
    <2>2. f \in D /\ \A k \in D : f <= k
      <3> HIDE DEF f
      <3> QED
        BY <1>3, FirstPoint DEF f
    <2> HIDE DEF f
    <2>3. f \in 1 .. 4 /\ i.points[f] # j.points[f]
            /\ \A m \in 1 .. f - 1 : i.points[m] = j.points[m]
      <3>1. \A m \in 1 .. f - 1 : m \in 1 .. 4 /\ ~(f <= m)
        BY <2>2
      <3> QED
        BY <2>2, <3>1
    <2>4. i.points[f] < j.points[f] => Outranks(i, j, tac)
      BY <2>3 DEF Outranks, PointsLess, PointsSame
    <2>5. ASSUME Outranks(i, j, tac) PROVE i.points[f] < j.points[f]
      <3>1. PICK k \in 1 .. 4 : i.points[k] < j.points[k]
              /\ \A m \in 1 .. k - 1 : i.points[m] = j.points[m]
        BY <2>3, <2>5 DEF Outranks, PointsLess, PointsSame
      <3>2. ~(k < f)
        <4>1. i.points[k] # j.points[k]
          BY <1>1, <3>1
        <4>2. k < f => k \in 1 .. f - 1
          BY <2>3
        <4> QED
          BY <2>3, <4>1, <4>2
      <3>3. ~(f < k)
        <4>1. f < k => f \in 1 .. k - 1
          BY <2>3
        <4> QED
          BY <2>3, <3>1, <4>1
      <3>4. k = f
        BY <2>3, <3>2, <3>3
      <3> QED
        BY <3>1, <3>4
    <2> QED
      BY <2>1, <2>4, <2>5
  <1> QED
    BY <1>2, <1>3

\* The order of ranks is a strict total one of results with different indices.
LEMMA BetterOrder ==
  ASSUME NEW tac \in BOOLEAN
  PROVE  /\ \A i, j \in Result : Outranks(i, j, tac) => ~Outranks(j, i, tac)
         /\ \A i, j \in Result : i.index # j.index => Outranks(i, j, tac) \/ Outranks(j, i, tac)
         /\ \A i, j, k \in Result :
              Outranks(i, j, tac) /\ Outranks(j, k, tac) => Outranks(i, k, tac)
  <1>1. \A i \in Result : i.points \in [1 .. 4 -> Nat] /\ i.index \in Nat
    BY NumbersOnly
  <1>2. ASSUME NEW i \in Result, NEW j \in Result, Outranks(i, j, tac), Outranks(j, i, tac)
        PROVE FALSE
    <2>1. CASE \A k \in 1 .. 4 : i.points[k] = j.points[k]
      BY <1>1, <1>2, <2>1 DEF Outranks, PointsLess, PointsSame
    <2>2. CASE ~ \A k \in 1 .. 4 : i.points[k] = j.points[k]
      <3>1. PICK k \in 1 .. 4 : i.points[k] < j.points[k]
              /\ \A m \in 1 .. k - 1 : i.points[m] = j.points[m]
        BY <1>2, <2>2 DEF Outranks, PointsLess, PointsSame
      <3>2. PICK l \in 1 .. 4 : j.points[l] < i.points[l]
              /\ \A m \in 1 .. l - 1 : j.points[m] = i.points[m]
        BY <1>2, <2>2 DEF Outranks, PointsLess, PointsSame
      <3>3. /\ i.points[k] \in Nat /\ j.points[k] \in Nat /\ i.points[l] \in Nat
                 /\ j.points[l] \in Nat
        BY <1>1
      <3>4. CASE k < l
        <4>1. k \in 1 .. l - 1
          BY <3>4
        <4> QED
          BY <3>1, <3>2, <3>3, <4>1
      <3>5. CASE l < k
        <4>1. l \in 1 .. k - 1
          BY <3>5
        <4> QED
          BY <3>1, <3>2, <3>3, <4>1
      <3>6. CASE k = l
        BY <3>1, <3>2, <3>3, <3>6
      <3> QED
        BY <3>4, <3>5, <3>6
    <2> QED
      BY <2>1, <2>2
  <1>3. ASSUME NEW i \in Result, NEW j \in Result, i.index # j.index
        PROVE  Outranks(i, j, tac) \/ Outranks(j, i, tac)
    <2> DEFINE D == {k \in 1 .. 4 : i.points[k] # j.points[k]}
    <2>1. CASE D = {}
      <3>1. \A k \in 1 .. 4 : i.points[k] = j.points[k] /\ j.points[k] = i.points[k]
        BY <2>1
      <3>2. i.index \in Nat /\ j.index \in Nat
        BY <1>1
      <3>3. CASE tac
        BY <1>3, <3>1, <3>2, <3>3 DEF Outranks, PointsLess, PointsSame
      <3>4. CASE ~tac
        BY <1>3, <3>1, <3>2, <3>4 DEF Outranks, PointsLess, PointsSame
      <3> QED
        BY <3>3, <3>4
    <2>2. CASE D # {}
      <3>1. PICK f \in D : \A k \in D : f <= k
        <4>1. D \in SUBSET Nat
          OBVIOUS
        <4> HIDE DEF D
        <4> QED
          BY <2>2, <4>1, LeastNat
      <3>2. \A m \in 1 .. f - 1 : i.points[m] = j.points[m] /\ j.points[m] = i.points[m]
        <4>1. \A m \in 1 .. f - 1 : m \in 1 .. 4 /\ ~(f <= m)
          BY <3>1
        <4> QED
          BY <3>1, <4>1
      <3>3. f \in 1 .. 4 /\ (i.points[f] < j.points[f] \/ j.points[f] < i.points[f])
        BY <1>1, <3>1
      <3> QED
        BY <3>2, <3>3 DEF Outranks, PointsLess, PointsSame
    <2> QED
      BY <2>1, <2>2
  <1>4. ASSUME NEW i \in Result, NEW j \in Result, NEW k \in Result,
               Outranks(i, j, tac), Outranks(j, k, tac)
        PROVE  Outranks(i, k, tac)
    <2>1. CASE (\A m \in 1 .. 4 : i.points[m] = j.points[m])
            /\ (\A m \in 1 .. 4 : j.points[m] = k.points[m])
      <3>1. \A m \in 1 .. 4 : i.points[m] = k.points[m]
        BY <2>1
      <3>2. IF tac THEN i.index > j.index ELSE i.index < j.index
        BY <1>1, <1>4, <2>1 DEF Outranks, PointsLess, PointsSame
      <3>3. IF tac THEN j.index > k.index ELSE j.index < k.index
        BY <1>1, <1>4, <2>1 DEF Outranks, PointsLess, PointsSame
      <3>4. i.index \in Nat /\ j.index \in Nat /\ k.index \in Nat
        BY <1>1
      <3>5. IF tac THEN i.index > k.index ELSE i.index < k.index
        BY <3>2, <3>3, <3>4
      <3> QED
        BY <3>1, <3>5 DEF Outranks, PointsLess, PointsSame
    <2>2. CASE (\A m \in 1 .. 4 : i.points[m] = j.points[m])
            /\ ~(\A m \in 1 .. 4 : j.points[m] = k.points[m])
      <3>1. PICK f \in 1 .. 4 : j.points[f] < k.points[f]
              /\ \A m \in 1 .. f - 1 : j.points[m] = k.points[m]
        BY <1>4, <2>2 DEF Outranks, PointsLess, PointsSame
      <3>2. i.points[f] < k.points[f] /\ \A m \in 1 .. f - 1 : i.points[m] = k.points[m]
        BY <2>2, <3>1
      <3> QED
        BY <3>2 DEF Outranks, PointsLess, PointsSame
    <2>3. CASE ~(\A m \in 1 .. 4 : i.points[m] = j.points[m])
            /\ (\A m \in 1 .. 4 : j.points[m] = k.points[m])
      <3>1. PICK f \in 1 .. 4 : i.points[f] < j.points[f]
              /\ \A m \in 1 .. f - 1 : i.points[m] = j.points[m]
        BY <1>4, <2>3 DEF Outranks, PointsLess, PointsSame
      <3>2. i.points[f] < k.points[f] /\ \A m \in 1 .. f - 1 : i.points[m] = k.points[m]
        BY <2>3, <3>1
      <3> QED
        BY <3>2 DEF Outranks, PointsLess, PointsSame
    <2>4. CASE ~(\A m \in 1 .. 4 : i.points[m] = j.points[m])
            /\ ~(\A m \in 1 .. 4 : j.points[m] = k.points[m])
      <3>1. PICK f \in 1 .. 4 : i.points[f] < j.points[f]
              /\ \A m \in 1 .. f - 1 : i.points[m] = j.points[m]
        BY <1>4, <2>4 DEF Outranks, PointsLess, PointsSame
      <3>2. PICK g \in 1 .. 4 : j.points[g] < k.points[g]
              /\ \A m \in 1 .. g - 1 : j.points[m] = k.points[m]
        BY <1>4, <2>4 DEF Outranks, PointsLess, PointsSame
      <3>3. \A m \in 1 .. 4 : i.points[m] \in Nat /\ j.points[m] \in Nat /\ k.points[m] \in Nat
        BY <1>1
      <3>4. CASE f < g
        <4>1. f \in 1 .. g - 1 /\ \A m \in 1 .. f - 1 : m \in 1 .. g - 1
          BY <3>4
        <4>2. i.points[f] < k.points[f] /\ \A m \in 1 .. f - 1 : i.points[m] = k.points[m]
          BY <3>1, <3>2, <3>3, <4>1
        <4> QED
          BY <4>2 DEF Outranks, PointsLess, PointsSame
      <3>5. CASE g < f
        <4>1. g \in 1 .. f - 1 /\ \A m \in 1 .. g - 1 : m \in 1 .. f - 1
          BY <3>5
        <4>2. i.points[g] < k.points[g] /\ \A m \in 1 .. g - 1 : i.points[m] = k.points[m]
          BY <3>1, <3>2, <3>3, <4>1
        <4> QED
          BY <4>2 DEF Outranks, PointsLess, PointsSame
      <3>6. CASE f = g
        <4>2. i.points[f] < k.points[f] /\ \A m \in 1 .. f - 1 : i.points[m] = k.points[m]
          BY <3>1, <3>2, <3>3, <3>6
        <4> QED
          BY <4>2 DEF Outranks, PointsLess, PointsSame
      <3> QED
        BY <3>4, <3>5, <3>6
    <2> QED
      BY <2>1, <2>2, <2>3, <2>4
  <1> QED
    BY <1>2, <1>3, <1>4

\* The order a merger keeps is a strict total one of results with different indices.
LEMMA BeforeOrder ==
  ASSUME NEW v, v.tac \in BOOLEAN, v.sorted \in BOOLEAN
  PROVE  /\ \A i, j \in Result : i.index # j.index /\ Before(v, i, j) => ~Before(v, j, i)
         /\ \A i, j \in Result : i.index # j.index => Before(v, i, j) \/ Before(v, j, i)
         /\ \A i, j, k \in Result :
              i.index # j.index /\ j.index # k.index /\ i.index # k.index
                /\ Before(v, i, j) /\ Before(v, j, k) => Before(v, i, k)
  <1>1. CASE v.sorted
    <2>1. \A i, j \in Result : i.index # j.index => (Before(v, i, j) <=> Outranks(i, j, v.tac))
      BY <1>1, RanksCompare DEF Before
    <2> QED
      BY <2>1, BetterOrder
  <1>2. CASE ~v.sorted
    <2>1. \A i, j \in Result : Before(v, i, j) <=> i.index < j.index
      BY <1>2 DEF Before
    <2>2. \A i \in Result : i.index \in Nat
      BY DEF Result
    <2> QED
      BY <2>1, <2>2
  <1> QED
    BY <1>1, <1>2

\* What the workers hand over: each list in order, no item in two places
SortedLists(v) ==
  /\ v.tac \in BOOLEAN /\ v.sorted \in BOOLEAN
  /\ v.lists \in Seq(Seq(Result))
  /\ \A l \in DOMAIN v.lists : \A a, b \in DOMAIN v.lists[l] :
       a < b => Before(v, v.lists[l][a], v.lists[l][b])
  /\ \A l, m \in DOMAIN v.lists : \A a \in DOMAIN v.lists[l], b \in DOMAIN v.lists[m] :
       v.lists[l][a].index = v.lists[m][b].index => l = m /\ a = b

AllResults(v) == UNION {{v.lists[l][k] : k \in DOMAIN v.lists[l]} : l \in DOMAIN v.lists}

\* What is merged so far is the beginning of the whole list: what the cursors have passed, in
\* order, and before everything else.
Merges(v) ==
  /\ v = [kind |-> "lists", lists |-> v.lists, sorted |-> v.sorted, tac |-> v.tac,
          merged |-> v.merged, cursors |-> v.cursors, count |-> v.count]
  /\ SortedLists(v)
  /\ v.merged \in Seq(Result)
  /\ v.cursors \in [DOMAIN v.lists -> Nat]
  /\ \A l \in DOMAIN v.lists : v.cursors[l] <= Len(v.lists[l])
  /\ \A l \in DOMAIN v.lists : \A a \in 1 .. v.cursors[l] :
       \E p \in DOMAIN v.merged : v.merged[p] = v.lists[l][a]
  /\ \A p \in DOMAIN v.merged : \E l \in DOMAIN v.lists : \E a \in 1 .. v.cursors[l] :
       v.merged[p] = v.lists[l][a]
  /\ \A p, q \in DOMAIN v.merged : p < q => /\ Before(v, v.merged[p], v.merged[q])
                                         /\ v.merged[p].index # v.merged[q].index
  /\ \A p \in DOMAIN v.merged : \A l \in DOMAIN v.lists :
       \A a \in v.cursors[l] + 1 .. Len(v.lists[l]) : Before(v, v.merged[p], v.lists[l][a])
  /\ v.count = Cardinality(AllResults(v))

\* Places in the lists, and the results there
LEMMA ListFacts ==
  ASSUME NEW v, SortedLists(v)
  PROVE  /\ Len(v.lists) \in Nat /\ DOMAIN v.lists = 1 .. Len(v.lists)
         /\ \A l \in DOMAIN v.lists : /\ v.lists[l] \in Seq(Result) /\ Len(v.lists[l]) \in Nat
                                      /\ DOMAIN v.lists[l] = 1 .. Len(v.lists[l])
         /\ \A l \in DOMAIN v.lists : \A a \in 1 .. Len(v.lists[l]) : v.lists[l][a] \in Result
  <1>1. v.lists \in Seq(Seq(Result))
    BY DEF SortedLists
  <1>2. Len(v.lists) \in Nat /\ DOMAIN v.lists = 1 .. Len(v.lists)
    BY <1>1, LenProperties
  <1>3. \A l \in DOMAIN v.lists : v.lists[l] \in Seq(Result)
    BY <1>1, <1>2, ElementOfSeq
  <1> QED
    BY <1>2, <1>3, LenProperties, ElementOfSeq

\* Among the lists that have items left, one has the best head.
LEMMA BestExists ==
  ASSUME NEW v, SortedLists(v), v.cursors \in [DOMAIN v.lists -> Nat], Live(v) # {}
  PROVE  /\ Best(v) \in Live(v)
         /\ \A y \in Live(v) \ {Best(v)} : Before(v, HeadOf(v, Best(v)), HeadOf(v, y))
  <1> DEFINE L == Live(v)
             H(x) == HeadOf(v, x)
             Under(x) == {y \in L : y # x /\ Before(v, H(y), H(x))}
             Sizes == {Cardinality(Under(x)) : x \in L}
  <1>0. Len(v.lists) \in Nat /\ DOMAIN v.lists = 1 .. Len(v.lists)
    BY ListFacts
  <1>1. /\ \A x \in L : /\ x \in DOMAIN v.lists /\ H(x) \in Result
                        /\ v.cursors[x] + 1 \in DOMAIN v.lists[x]
        /\ \A x, y \in L : x # y => H(x).index # H(y).index
    <2>1. \A x \in L : x \in DOMAIN v.lists /\ v.cursors[x] \in Nat
            /\ v.cursors[x] < Len(v.lists[x])
      BY DEF Live
    <2>2. \A x \in L : /\ Len(v.lists[x]) \in Nat /\ DOMAIN v.lists[x] = 1 .. Len(v.lists[x])
                       /\ v.cursors[x] + 1 \in 1 .. Len(v.lists[x])
      BY <2>1, ListFacts
    <2>3. \A x \in L : H(x) \in Result
      BY <2>1, <2>2, ListFacts DEF HeadOf
    <2>4. ASSUME NEW x \in L, NEW y \in L, x # y PROVE H(x).index # H(y).index
      <3> DEFINE a == v.cursors[x] + 1
                 b == v.cursors[y] + 1
      <3>1. x \in DOMAIN v.lists /\ y \in DOMAIN v.lists /\ a \in DOMAIN v.lists[x]
              /\ b \in DOMAIN v.lists[y]
        BY <2>1, <2>2
      <3>2. H(x) = v.lists[x][a] /\ H(y) = v.lists[y][b]
        BY DEF HeadOf
      <3> HIDE DEF a, b, L, H
      <3> QED
        BY <2>4, <3>1, <3>2 DEF SortedLists
    <2> QED
      BY <2>1, <2>2, <2>3, <2>4
  <1>2. v.tac \in BOOLEAN /\ v.sorted \in BOOLEAN
    BY DEF SortedLists
  <1>3. IsFiniteSet(L)
    <2>1. L \in SUBSET (1 .. Len(v.lists))
      BY <1>0, <1>1
    <2>2. IsFiniteSet(1 .. Len(v.lists))
      <3>1. 1 \in Int /\ Len(v.lists) \in Int
        BY <1>0
      <3> QED
        BY <3>1, FS_Interval
    <2> HIDE DEF L
    <2> QED
      BY <2>1, <2>2, FS_Subset
  <1> HIDE DEF L, H
  <1>4. \A x \in L : IsFiniteSet(Under(x)) /\ Cardinality(Under(x)) \in Nat
    BY <1>3, FS_Subset, FS_CardinalityType
  <1>5. PICK x \in L : \A y \in L : Cardinality(Under(x)) <= Cardinality(Under(y))
    <2>1. Sizes \in SUBSET Nat /\ Sizes # {}
      BY <1>4 DEF L
    <2>2. PICK n \in Sizes : \A m \in Sizes : n <= m
      <3> HIDE DEF Sizes
      <3> QED
        BY <2>1, LeastNat
    <2> QED
      BY <2>2
  <1>6. ASSUME NEW y \in L, y # x PROVE Before(v, H(x), H(y))
    <2> SUFFICES ASSUME Before(v, H(y), H(x)) PROVE FALSE
      BY <1>1, <1>2, <1>6, BeforeOrder
    <2>1. Under(y) \in SUBSET Under(x)
      <3>1. ASSUME NEW z \in L, z # y, Before(v, H(z), H(y)) PROVE z # x /\ Before(v, H(z), H(x))
        <4>1. z # x
          BY <1>1, <1>2, <1>6, <3>1, BeforeOrder
        <4> QED
          BY <1>1, <1>2, <1>6, <3>1, <4>1, BeforeOrder
      <3> QED
        BY <3>1
    <2>2. y \in Under(x) /\ y \notin Under(y)
      BY <1>6
    <2>3. Cardinality(Under(y)) <= Cardinality(Under(x))
            /\ Cardinality(Under(y)) # Cardinality(Under(x))
      <3> DEFINE A == Under(x)
                 B == Under(y)
      <3>1. IsFiniteSet(A) /\ B \in SUBSET A /\ A # B
        BY <1>4, <2>1, <2>2
      <3> HIDE DEF A, B
      <3>2. Cardinality(B) <= Cardinality(A) /\ Cardinality(A) # Cardinality(B)
        BY <3>1, FS_Subset
      <3> QED
        BY <3>2 DEF A, B
    <2>4. Cardinality(Under(x)) <= Cardinality(Under(y))
      BY <1>5, <1>6
    <2>5. Cardinality(Under(x)) \in Nat /\ Cardinality(Under(y)) \in Nat
      BY <1>4, <1>5, <1>6
    <2> QED
      BY <2>3, <2>4, <2>5
  <1>7. \E z \in L : \A y \in L \ {z} : Before(v, H(z), H(y))
    BY <1>6
  <1> QED
    BY <1>7 DEF Best, L, H

\* Taking the best head keeps all that.
LEMMA TakeKeeps ==
  ASSUME NEW v, Merges(v), Live(v) # {}, NEW w, w = TakeBest(v)
  PROVE  /\ Merges(w) /\ Len(w.merged) = Len(v.merged) + 1
         /\ w.lists = v.lists /\ w.sorted = v.sorted /\ w.tac = v.tac /\ w.count = v.count
  <1> DEFINE l == Best(v)
             c == v.cursors[l] + 1
             r == HeadOf(v, l)
             n == Len(v.merged)
             Le(x) == Len(v.lists[x])
  <1>1. /\ SortedLists(v) /\ v.merged \in Seq(Result) /\ v.cursors \in [DOMAIN v.lists -> Nat]
        /\ v.tac \in BOOLEAN /\ v.sorted \in BOOLEAN
    BY DEF Merges, SortedLists
  <1>2. l \in Live(v) /\ \A y \in Live(v) \ {l} : Before(v, r, HeadOf(v, y))
    BY <1>1, BestExists
  <1>3. /\ \A x \in DOMAIN v.lists : DOMAIN v.lists[x] = 1 .. Le(x) /\ Le(x) \in Nat
        /\ \A x \in DOMAIN v.lists : \A a \in 1 .. Le(x) : v.lists[x][a] \in Result
    BY <1>1, ListFacts
  <1>4. l \in DOMAIN v.lists /\ c \in 1 .. Le(l) /\ v.cursors[l] \in Nat /\ r = v.lists[l][c]
          /\ r \in Result
    <2>1. l \in DOMAIN v.lists /\ v.cursors[l] \in Nat /\ v.cursors[l] < Le(l)
      <3> HIDE DEF l
      <3> QED
        BY <1>1, <1>2 DEF Live
    <2>2. c \in 1 .. Le(l)
      <3> DEFINE x == v.cursors[l]
                 y == Le(l)
      <3>1. x \in Nat /\ y \in Nat /\ x < y
        BY <1>3, <2>1
      <3> HIDE DEF x, y
      <3>2. x + 1 \in 1 .. y
        BY <3>1
      <3> QED
        BY <3>2 DEF x, y
    <2>3. r = v.lists[l][c]
      BY DEF HeadOf
    <2> QED
      BY <1>3, <2>1, <2>2, <2>3
  <1> HIDE DEF l
  <1>5. w = [kind |-> "lists", lists |-> v.lists, sorted |-> v.sorted, tac |-> v.tac,
             merged |-> Append(v.merged, r), cursors |-> [v.cursors EXCEPT ![l] = c],
             count |-> v.count]
    <2>1. w = [v EXCEPT !.merged = Append(v.merged, r), !.cursors = [v.cursors EXCEPT ![l] = c]]
      BY DEF TakeBest, l
    <2>2. v = [kind |-> "lists", lists |-> v.lists, sorted |-> v.sorted, tac |-> v.tac,
               merged |-> v.merged, cursors |-> v.cursors, count |-> v.count]
      BY DEF Merges
    <2> DEFINE m == Append(v.merged, r)
               k == [v.cursors EXCEPT ![l] = c]
    <2>3. w = [v EXCEPT !.merged = m, !.cursors = k]
      BY <2>1
    <2> HIDE DEF m, k
    <2>4. w = [kind |-> "lists", lists |-> v.lists, sorted |-> v.sorted, tac |-> v.tac,
               merged |-> m, cursors |-> k, count |-> v.count]
      <3> DEFINE a == v.lists
                 b == v.sorted
                 d == v.tac
                 e == v.merged
                 f == v.cursors
                 g == v.count
      <3>1. v = [kind |-> "lists", lists |-> a, sorted |-> b, tac |-> d, merged |-> e,
              cursors |-> f,
                 count |-> g]
        BY <2>2
      <3> HIDE DEF a, b, d, e, f, g
      <3>2. w = [kind |-> "lists", lists |-> a, sorted |-> b, tac |-> d, merged |-> m,
              cursors |-> k,
                 count |-> g]
        BY <2>3, <3>1
      <3> QED
        BY <3>2 DEF a, b, d, g
    <2> QED
      BY <2>4 DEF m, k
  <1> HIDE DEF r, c
  <1>6. /\ w.lists = v.lists /\ w.sorted = v.sorted /\ w.tac = v.tac /\ w.count = v.count
        /\ w.merged = Append(v.merged, r) /\ w.cursors = [v.cursors EXCEPT ![l] = c]
             /\ w.kind = "lists"
    BY <1>5
  <1>7. \A i, j : Before(w, i, j) <=> Before(v, i, j)
    BY <1>6 DEF Before
  <1>8. SortedLists(w)
    BY <1>1, <1>6, <1>7 DEF SortedLists
  <1>9. /\ w.merged \in Seq(Result) /\ Len(w.merged) = n + 1 /\ n \in Nat
        /\ DOMAIN v.merged = 1 .. n /\ DOMAIN w.merged = 1 .. n + 1
        /\ w.merged[n + 1] = r /\ \A p \in 1 .. n : w.merged[p] = v.merged[p]
    <2>1. n \in Nat /\ DOMAIN v.merged = 1 .. n
      BY <1>1, LenProperties
    <2>2. /\ Append(v.merged, r) \in Seq(Result) /\ Len(Append(v.merged, r)) = n + 1
          /\ Append(v.merged, r)[n + 1] = r
               /\ \A p \in 1 .. n : Append(v.merged, r)[p] = v.merged[p]
      BY <1>1, <1>4, AppendProperties
    <2>3. DOMAIN Append(v.merged, r) = 1 .. n + 1
      BY <2>2, LenProperties
    <2> QED
      BY <1>6, <2>1, <2>2, <2>3
  <1> HIDE DEF n
  <1>10. /\ w.cursors \in [DOMAIN v.lists -> Nat] /\ w.cursors[l] = c /\ c = v.cursors[l] + 1
         /\ \A x \in DOMAIN v.lists : x # l => w.cursors[x] = v.cursors[x]
    <2>1. c \in Nat /\ c = v.cursors[l] + 1
      BY <1>3, <1>4 DEF c
    <2> QED
      BY <1>1, <1>4, <1>6, <2>1
  <1>11. \A x \in DOMAIN v.lists : w.cursors[x] <= Le(x)
    <2>1. \A x \in DOMAIN v.lists : v.cursors[x] <= Le(x)
      BY DEF Merges
    <2> QED
      BY <1>4, <1>10, <2>1
  <1>12. ASSUME NEW x \in DOMAIN v.lists, NEW a \in 1 .. w.cursors[x]
         PROVE  \E p \in 1 .. n + 1 : w.merged[p] = v.lists[x][a]
    <2>1. CASE x = l /\ a = c
      <3>1. n + 1 \in 1 .. n + 1
        BY <1>9
      <3> QED
        BY <1>4, <1>9, <2>1, <3>1
    <2>2. CASE ~(x = l /\ a = c)
      <3>1. a \in 1 .. v.cursors[x]
        BY <1>1, <1>10, <2>2
      <3>2. PICK p \in DOMAIN v.merged : v.merged[p] = v.lists[x][a]
        BY <3>1 DEF Merges
      <3>3. p \in 1 .. n /\ p \in 1 .. n + 1
        BY <1>9
      <3> QED
        BY <1>9, <3>2, <3>3
    <2> QED
      BY <2>1, <2>2
  <1>13. ASSUME NEW p \in 1 .. n + 1
         PROVE  \E x \in DOMAIN v.lists : \E a \in 1 .. w.cursors[x] : w.merged[p] = v.lists[x][a]
    <2>1. CASE p = n + 1
      <3>1. c \in 1 .. w.cursors[l]
        BY <1>4, <1>10
      <3> QED
        BY <1>4, <1>9, <2>1, <3>1
    <2>2. CASE p # n + 1
      <3>1. p \in 1 .. n
        BY <1>9, <2>2
      <3>2. PICK x \in DOMAIN v.lists : \E a \in 1 .. v.cursors[x] : v.merged[p] = v.lists[x][a]
        BY <1>9, <3>1 DEF Merges
      <3>3. PICK a \in 1 .. v.cursors[x] : v.merged[p] = v.lists[x][a]
        BY <3>2
      <3>4. a \in 1 .. w.cursors[x]
        BY <1>1, <1>10
      <3> QED
        BY <1>9, <3>1, <3>3, <3>4
    <2> QED
      BY <2>1, <2>2
  \* the new row is before everything that is left
  <1>14. ASSUME NEW x \in DOMAIN v.lists, NEW a \in w.cursors[x] + 1 .. Le(x)
         PROVE  Before(v, r, v.lists[x][a])
    <2>1. CASE x = l
      <3>1. a \in 1 .. Le(l) /\ c < a
        BY <1>3, <1>4, <1>10, <2>1
      <3> QED
        BY <1>1, <1>3, <1>4, <2>1, <3>1 DEF SortedLists
    <2>2. CASE x # l
      <3> DEFINE b == v.cursors[x] + 1
                 h == v.lists[x][b]
      <3>1. a \in b .. Le(x) /\ b \in 1 .. Le(x) /\ v.cursors[x] \in Nat /\ v.cursors[x] < Le(x)
        <4>1. v.cursors[x] \in Nat /\ w.cursors[x] = v.cursors[x] /\ Le(x) \in Nat
          BY <1>1, <1>3, <1>10, <2>2
        <4> QED
          BY <4>1
      <3>2. x \in Live(v) \ {l}
        BY <2>2, <3>1 DEF Live
      <3>3. Before(v, r, h)
        BY <1>2, <3>2 DEF HeadOf, r
      <3>4. CASE a = b
        BY <3>3, <3>4
      <3>5. CASE a # b
        <4>1. a \in 1 .. Le(x) /\ b < a
          BY <1>3, <3>1, <3>5
        <4> HIDE DEF b
        <4>2. Before(v, h, v.lists[x][a])
          BY <1>1, <1>3, <3>1, <4>1 DEF SortedLists
        <4>3. /\ r.index # h.index /\ h.index # v.lists[x][a].index /\ r.index # v.lists[x][a].index
          BY <1>1, <1>3, <1>4, <2>2, <3>1, <3>5, <4>1 DEF SortedLists
        <4>4. r \in Result /\ h \in Result /\ v.lists[x][a] \in Result
          BY <1>3, <1>4, <3>1, <4>1
        <4> QED
          BY <1>1, <3>3, <4>2, <4>3, <4>4, BeforeOrder
      <3> QED
        BY <3>4, <3>5
    <2> QED
      BY <2>1, <2>2
  <1>15. ASSUME NEW p \in 1 .. n PROVE Before(v, v.merged[p], r) /\ v.merged[p].index # r.index
    <2>1. c \in v.cursors[l] + 1 .. Le(l)
      BY <1>3, <1>4, <1>10
    <2>2. PICK x \in DOMAIN v.lists : \E a \in 1 .. v.cursors[x] : v.merged[p] = v.lists[x][a]
      BY <1>9 DEF Merges
    <2>3. PICK a \in 1 .. v.cursors[x] : v.merged[p] = v.lists[x][a]
      BY <2>2
    <2>4. a \in DOMAIN v.lists[x] /\ c \in DOMAIN v.lists[l]
      <3>1. v.cursors[x] \in Nat /\ v.cursors[x] <= Le(x)
        BY DEF Merges
      <3> QED
        BY <1>3, <1>4, <3>1
    <2>5. ~(x = l /\ a = c)
      BY <1>4, <1>10
    <2>6. v.merged[p].index # r.index
      BY <1>1, <1>4, <2>3, <2>4, <2>5 DEF SortedLists
    <2> QED
      BY <1>4, <1>9, <2>1, <2>6 DEF Merges
  <1>16. ASSUME NEW p \in 1 .. n + 1, NEW q \in 1 .. n + 1, p < q
         PROVE  Before(v, w.merged[p], w.merged[q]) /\ w.merged[p].index # w.merged[q].index
    <2>1. p \in 1 .. n /\ w.merged[p] = v.merged[p]
      BY <1>9, <1>16
    <2>2. CASE q = n + 1
      BY <1>9, <1>15, <2>1, <2>2
    <2>3. CASE q # n + 1
      <3>1. q \in 1 .. n /\ w.merged[q] = v.merged[q]
        BY <1>9, <2>3
      <3>2. Before(v, v.merged[p], v.merged[q]) /\ v.merged[p].index # v.merged[q].index
        BY <1>9, <1>16, <2>1, <3>1 DEF Merges
      <3> QED
        BY <2>1, <3>1, <3>2
    <2> QED
      BY <2>2, <2>3
  <1>17. ASSUME NEW p \in 1 .. n + 1, NEW x \in DOMAIN v.lists, NEW a \in w.cursors[x] + 1 .. Le(x)
         PROVE  Before(v, w.merged[p], v.lists[x][a])
    <2>1. CASE p = n + 1
      BY <1>9, <1>14, <2>1
    <2>2. CASE p # n + 1
      <3>1. p \in 1 .. n
        BY <1>9, <2>2
      <3>2. a \in v.cursors[x] + 1 .. Le(x)
        <4>1. v.cursors[x] \in Nat /\ w.cursors[x] \in Nat /\ v.cursors[x] <= w.cursors[x]
                /\ Le(x) \in Nat
          <5>1. v.cursors[x] \in Nat /\ w.cursors[x] \in Nat /\ Le(x) \in Nat
            BY <1>1, <1>3, <1>10
          <5>2. CASE x = l
            BY <1>10, <5>1, <5>2
          <5>3. CASE x # l
            BY <1>10, <5>1, <5>3
          <5> QED
            BY <5>1, <5>2, <5>3
        <4> QED
          BY <4>1
      <3> QED
        BY <1>9, <3>1, <3>2 DEF Merges
    <2> QED
      BY <2>1, <2>2
  <1>18. w.count = Cardinality(AllResults(w))
    <2>1. AllResults(w) = AllResults(v)
      BY <1>6 DEF AllResults
    <2> QED
      BY <1>6, <2>1 DEF Merges
  <1>19. w = [kind |-> "lists", lists |-> w.lists, sorted |-> w.sorted, tac |-> w.tac,
              merged |-> w.merged, cursors |-> w.cursors, count |-> w.count]
    BY <1>5
  <1>20. Merges(w)
    <2>1. /\ w.cursors \in [DOMAIN w.lists -> Nat]
          /\ \A x \in DOMAIN w.lists : w.cursors[x] <= Len(w.lists[x])
      BY <1>6, <1>10, <1>11
    <2>2. /\ \A x \in DOMAIN w.lists : \A a \in 1 .. w.cursors[x] :
               \E p \in DOMAIN w.merged : w.merged[p] = w.lists[x][a]
          /\ \A p \in DOMAIN w.merged : \E x \in DOMAIN w.lists : \E a \in 1 .. w.cursors[x] :
               w.merged[p] = w.lists[x][a]
      <3>1. \A x \in DOMAIN v.lists : \A a \in 1 .. w.cursors[x] :
              \E p \in 1 .. n + 1 : w.merged[p] = v.lists[x][a]
        BY <1>12
      <3>2. \A p \in 1 .. n + 1 : \E x \in DOMAIN v.lists : \E a \in 1 .. w.cursors[x] :
              w.merged[p] = v.lists[x][a]
        BY <1>13
      <3>3. w.lists = v.lists /\ DOMAIN w.merged = 1 .. n + 1
        BY <1>6, <1>9
      <3>4. \A x \in DOMAIN w.lists : \A a \in 1 .. w.cursors[x] :
              \E p \in DOMAIN w.merged : w.merged[p] = w.lists[x][a]
        BY <3>1, <3>3
      <3>5. \A p \in DOMAIN w.merged : \E x \in DOMAIN w.lists : \E a \in 1 .. w.cursors[x] :
              w.merged[p] = w.lists[x][a]
        BY <3>2, <3>3
      <3> QED
        BY <3>4, <3>5
    <2>3. /\ \A p, q \in DOMAIN w.merged : p < q => /\ Before(w, w.merged[p], w.merged[q])
                                                  /\ w.merged[p].index # w.merged[q].index
          /\ \A p \in DOMAIN w.merged : \A x \in DOMAIN w.lists :
               \A a \in w.cursors[x] + 1 .. Len(w.lists[x]) : Before(w, w.merged[p], w.lists[x][a])
      BY <1>6, <1>7, <1>9, <1>16, <1>17
    <2> QED
      BY <1>8, <1>9, <1>18, <1>19, <2>1, <2>2, <2>3 DEF Merges
  <1> QED
    BY <1>6, <1>9, <1>20 DEF n

\* The rows merged so far are different items of the lists.
LEMMA MergedFacts ==
  ASSUME NEW v, Merges(v)
  PROVE  /\ Len(v.merged) \in Nat /\ DOMAIN v.merged = 1 .. Len(v.merged)
         /\ \A p \in DOMAIN v.merged : v.merged[p] \in Result /\ v.merged[p] \in AllResults(v)
         /\ \A p, q \in DOMAIN v.merged : v.merged[p] = v.merged[q] => p = q
         /\ IsFiniteSet(1 .. Len(v.merged)) /\ Cardinality(1 .. Len(v.merged)) = Len(v.merged)
  <1> DEFINE n == Len(v.merged)
  <1>1. SortedLists(v) /\ v.merged \in Seq(Result) /\ v.tac \in BOOLEAN /\ v.sorted \in BOOLEAN
    BY DEF Merges, SortedLists
  <1>2. n \in Nat /\ DOMAIN v.merged = 1 .. n /\ \A p \in 1 .. n : v.merged[p] \in Result
    BY <1>1, LenProperties, ElementOfSeq
  <1>3. ASSUME NEW p \in 1 .. n PROVE v.merged[p] \in AllResults(v)
    <2>1. PICK l \in DOMAIN v.lists : \E a \in 1 .. v.cursors[l] : v.merged[p] = v.lists[l][a]
      BY <1>2 DEF Merges
    <2>2. PICK a \in 1 .. v.cursors[l] : v.merged[p] = v.lists[l][a]
      BY <2>1
    <2>3. a \in DOMAIN v.lists[l]
      <3>1. v.cursors[l] \in Nat /\ v.cursors[l] <= Len(v.lists[l])
        BY DEF Merges
      <3>2. Len(v.lists[l]) \in Nat /\ DOMAIN v.lists[l] = 1 .. Len(v.lists[l])
        BY <1>1, ListFacts
      <3> QED
        BY <3>1, <3>2
    <2> QED
      BY <2>2, <2>3 DEF AllResults
  <1>4. ASSUME NEW p \in 1 .. n, NEW q \in 1 .. n, v.merged[p] = v.merged[q] PROVE p = q
    <2>1. ~(p < q) /\ ~(q < p)
      BY <1>2, <1>4 DEF Merges
    <2> QED
      BY <1>2, <2>1
  <1>5. IsFiniteSet(1 .. n) /\ Cardinality(1 .. n) = n
    <2> HIDE DEF n
    <2>1. 1 \in Int /\ n \in Int
      BY <1>2
    <2>2. IsFiniteSet(1 .. n) /\ Cardinality(1 .. n) = IF 1 > n THEN 0 ELSE n - 1 + 1
      BY <2>1, FS_Interval
    <2> QED
      BY <1>2, <2>2
  <1> QED
    BY <1>2, <1>3, <1>4, <1>5

\* There is a head to take as long as not every item is merged.
LEMMA LiveIfShort ==
  ASSUME NEW v, Merges(v), Live(v) = {}
  PROVE  Len(v.merged) = v.count
  <1> DEFINE n == Len(v.merged)
             A == AllResults(v)
  <1>1. /\ n \in Nat /\ DOMAIN v.merged = 1 .. n /\ v.merged \in Seq(Result)
        /\ \A p \in 1 .. n : v.merged[p] \in A
        /\ \A p, q \in 1 .. n : v.merged[p] = v.merged[q] => p = q
        /\ IsFiniteSet(1 .. n) /\ Cardinality(1 .. n) = n
    BY MergedFacts DEF Merges
  <1>2. ASSUME NEW r \in A PROVE \E p \in 1 .. n : v.merged[p] = r
    <2>1. PICK l \in DOMAIN v.lists : \E a \in DOMAIN v.lists[l] : r = v.lists[l][a]
      BY DEF AllResults
    <2>2. PICK a \in DOMAIN v.lists[l] : r = v.lists[l][a]
      BY <2>1
    <2>3. SortedLists(v) /\ v.cursors[l] \in Nat /\ ~(v.cursors[l] < Len(v.lists[l]))
      BY DEF Merges, Live
    <2>4. Len(v.lists[l]) \in Nat /\ DOMAIN v.lists[l] = 1 .. Len(v.lists[l])
      BY <2>3, ListFacts
    <2>5. a \in 1 .. v.cursors[l]
      BY <2>3, <2>4
    <2> QED
      BY <1>1, <2>2, <2>5 DEF Merges
  <1> DEFINE f == v.merged
  <1> HIDE DEF n, A
  <1>3. /\ n \in Nat /\ \A p \in 1 .. n : f[p] \in A
        /\ \A p, q \in 1 .. n : f[p] = f[q] => p = q
        /\ \A r \in A : \E p \in 1 .. n : f[p] = r
    BY <1>1, <1>2
  <1>4. PICK all, rows, size : all = f /\ rows = A /\ size = n
    OBVIOUS
  <1>5. Cardinality(rows) = size
    <2>1. /\ size \in Nat /\ \A p \in 1 .. size : all[p] \in rows
          /\ \A p, q \in 1 .. size : all[p] = all[q] => p = q
          /\ \A r \in rows : \E p \in 1 .. size : all[p] = r
      BY <1>3, <1>4
    <2> QED
      BY ONLY <2>1, CountedBy
  <1> QED
    BY <1>4, <1>5 DEF Merges, n, A

\* What mergedGet leaves: more rows merged, of the same lists
MergedFrom(v, w) ==
  /\ Merges(w)
  /\ w.lists = v.lists /\ w.sorted = v.sorted /\ w.tac = v.tac /\ w.count = v.count

\* mergedGet merges as many rows as it was asked for, and keeps the invariant.
LEMMA MergesUpTo ==
  ASSUME NEW v, Merges(v), NEW n \in Nat, n < v.count
  PROVE  MergedFrom(v, MergedUpTo(v, n)) /\ n < Len(MergedUpTo(v, n).merged)
  <1> DEFINE a == Len(v.merged)
             b == MaxOf(n + 1, a)
             Good(k, s) == s = [i \in a .. k |-> IF i = a THEN v ELSE TakeBest(s[i - 1])]
             Bad == {k \in a .. b : ~ \E s : Good(k, s)}
             o == CHOOSE s : Good(b, s)
  <1>1. a \in Nat
    BY MergedFacts
  <1>2. b \in Nat /\ a <= b /\ n + 1 <= b /\ (b = a \/ b = n + 1)
    <2> HIDE DEF a
    <2> QED
      BY <1>1 DEF MaxOf
  <1>3. MergedUpTo(v, n) = [v EXCEPT !.merged = o[b].merged, !.cursors = o[b].cursors]
    BY DEF MergedUpTo
  <1>4. \E s : Good(b, s)
    <2> SUFFICES ASSUME Bad # {} PROVE FALSE
      <3>1. b \in a .. b
        BY <1>1, <1>2
      <3> QED
        BY <3>1
    <2>1. PICK k \in Bad : \A j \in Bad : k <= j
      <3>1. Bad \in SUBSET Nat
        BY <1>1, <1>2
      <3> HIDE DEF Bad
      <3> QED
        BY <3>1, LeastNat
    <2>2. k \in a .. b /\ k \in Nat /\ ~ \E s : Good(k, s)
      BY <1>1, <1>2
    <2> HIDE DEF a, b
    <2>3. CASE k = a
      <3> DEFINE s == [i \in a .. k |-> v]
      <3>1. \A i \in a .. k : i = a
        BY <1>1, <2>3
      <3>2. Good(k, s)
        BY <3>1
      <3> QED
        BY <2>2, <3>2
    <2>4. CASE k # a
      <3>1. k - 1 \in a .. b /\ ~(k <= k - 1)
        BY <1>1, <1>2, <2>2, <2>4
      <3>2. k - 1 \notin Bad
        BY <2>1, <3>1
      <3>3. PICK s : Good(k - 1, s)
        BY <3>1, <3>2
      <3> DEFINE t == [i \in a .. k |-> IF i = k THEN TakeBest(s[k - 1]) ELSE s[i]]
      <3>4. ASSUME NEW i \in a .. k PROVE t[i] = IF i = a THEN v ELSE TakeBest(t[i - 1])
        <4>1. CASE i = k
          <5>1. k - 1 \in a .. k /\ k - 1 # k
            BY <1>1, <1>2, <3>1
          <5>2. t[k - 1] = s[k - 1]
            BY <5>1
          <5> QED
            BY <2>4, <4>1, <5>2
        <4>2. CASE i # k
          <5>1. i \in a .. k - 1 /\ (i # a => i - 1 \in a .. k /\ i - 1 # k)
            BY <1>1, <1>2, <2>2, <4>2
          <5>2. s[i] = IF i = a THEN v ELSE TakeBest(s[i - 1])
            BY <3>3, <5>1
          <5>3. t[i] = s[i] /\ (i # a => t[i - 1] = s[i - 1])
            BY <4>2, <5>1
          <5> QED
            BY <5>2, <5>3
        <4> QED
          BY <4>1, <4>2
      <3>5. Good(k, t)
        <4>1. t = [i \in a .. k |-> t[i]]
          OBVIOUS
        <4> HIDE DEF t
        <4>2. t = [i \in a .. k |-> IF i = a THEN v ELSE TakeBest(t[i - 1])]
          BY <3>4, <4>1
        <4> QED
          BY <4>2
      <3> QED
        BY <2>2, <3>5
    <2> QED
      BY <2>3, <2>4
  <1>5. Good(b, o)
    BY <1>4
  <1> HIDE DEF o
  <1>6. \A i \in a .. b : o[i] = IF i = a THEN v ELSE TakeBest(o[i - 1])
    BY <1>5
  <1>7. \A i \in a .. b : MergedFrom(v, o[i]) /\ Len(o[i].merged) = i
    <2> DEFINE Wrong == {i \in a .. b : ~(MergedFrom(v, o[i]) /\ Len(o[i].merged) = i)}
    <2> SUFFICES ASSUME Wrong # {} PROVE FALSE
      OBVIOUS
    <2>1. PICK k \in Wrong : \A j \in Wrong : k <= j
      <3>1. Wrong \in SUBSET Nat
        BY <1>1, <1>2
      <3> HIDE DEF Wrong
      <3> QED
        BY <3>1, LeastNat
    <2>2. k # a
      <3>1. a \in a .. b /\ o[a] = v
        BY <1>1, <1>2, <1>6
      <3> QED
        BY <2>1, <3>1 DEF MergedFrom
    <2> HIDE DEF a, b
    <2>3. k - 1 \in a .. b /\ ~(k <= k - 1) /\ k \in a .. b
      BY <1>1, <1>2, <2>1, <2>2
    <2> DEFINE u == o[k - 1]
    <2>4. MergedFrom(v, u) /\ Len(u.merged) = k - 1
      BY <2>1, <2>3
    <2>5. o[k] = TakeBest(u)
      BY <1>6, <2>2, <2>3
    <2>6. Live(u) # {}
      <3>1. k - 1 # u.count
        <4>1. v.count = u.count
          BY <2>4 DEF MergedFrom
        <4>2. b = n + 1 /\ k - 1 <= n
          BY <1>1, <1>2, <2>2, <2>3
        <4>3. u.count = Cardinality(AllResults(u))
          BY <2>4 DEF MergedFrom, Merges
        <4> QED
          BY <2>3, <4>1, <4>2, <1>1, <1>2
      <3> QED
        BY <2>4, <3>1, LiveIfShort DEF MergedFrom
    <2> HIDE DEF u
    <2>7. MergedFrom(v, o[k]) /\ Len(o[k].merged) = k
      <3>1. /\ Merges(o[k]) /\ Len(o[k].merged) = Len(u.merged) + 1
            /\ o[k].lists = u.lists /\ o[k].sorted = u.sorted /\ o[k].tac = u.tac
                 /\ o[k].count = u.count
        BY <2>4, <2>5, <2>6, TakeKeeps DEF MergedFrom
      <3>2. Len(o[k].merged) = k
        BY <1>1, <1>2, <2>3, <2>4, <3>1
      <3> QED
        BY <2>4, <3>1, <3>2 DEF MergedFrom
    <2> QED
      BY <2>1, <2>7
  <1>8. b \in a .. b
    BY <1>1, <1>2
  <1>9. MergedFrom(v, o[b]) /\ Len(o[b].merged) = b
    BY <1>7, <1>8
  <1> HIDE DEF a, b
  <1>10. n < b
    BY <1>2
  <1>11. MergedUpTo(v, n) = o[b]
    <2> DEFINE ls == v.lists
               s == v.sorted
               t == v.tac
               c == v.count
               w == o[b]
               m == w.merged
               k == w.cursors
    <2>1. /\ v = [kind |-> "lists", lists |-> ls, sorted |-> s, tac |-> t, merged |-> v.merged,
                  cursors |-> v.cursors, count |-> c]
          /\ w = [kind |-> "lists", lists |-> ls, sorted |-> s, tac |-> t, merged |-> m,
                  cursors |-> k, count |-> c]
      BY <1>9 DEF MergedFrom, Merges
    <2>2. MergedUpTo(v, n) = [v EXCEPT !.merged = m, !.cursors = k]
      BY <1>3
    <2> DEFINE d == v.merged
               e == v.cursors
    <2>3. v = [kind |-> "lists", lists |-> ls, sorted |-> s, tac |-> t, merged |-> d, cursors |-> e,
               count |-> c]
      BY <2>1
    <2> HIDE DEF ls, s, t, c, m, k, d, e
    <2>4. MergedUpTo(v, n) = [kind |-> "lists", lists |-> ls, sorted |-> s, tac |-> t, merged |-> m,
                              cursors |-> k, count |-> c]
      BY <2>2, <2>3
    <2> QED
      BY <2>1, <2>4
  <1> QED
    BY <1>9, <1>10, <1>11

\* The count of a merger, the sum of the lengths, is the number of its items.
LEMMA AllCounted ==
  ASSUME NEW v, SortedLists(v)
  PROVE  /\ IsFiniteSet(AllResults(v))
         /\ Cardinality(AllResults(v)) = Sum([l \in DOMAIN v.lists |-> Len(v.lists[l])])
  <1> DEFINE n == Len(v.lists)
             f == [l \in DOMAIN v.lists |-> Len(v.lists[l])]
             R(l) == {v.lists[l][k] : k \in DOMAIN v.lists[l]}
             P(k) == UNION {R(l) : l \in 1 .. k}
  <1>1. /\ n \in Nat /\ DOMAIN v.lists = 1 .. n
        /\ \A l \in 1 .. n : Len(v.lists[l]) \in Nat /\ DOMAIN v.lists[l] = 1 .. Len(v.lists[l])
    BY ListFacts
  <1>2. f \in [1 .. n -> Nat] /\ \A l \in 1 .. n : f[l] = Len(v.lists[l])
    BY <1>1
  <1>3. PICK s : IsSums(n, f, s)
    <2> HIDE DEF n, f
    <2> QED
      BY <1>1, <1>2, SumsExist
  <1>4. Sum(f) = s[n]
    <2> HIDE DEF n, f
    <2> QED
      BY <1>1, <1>2, <1>3, SumIs
  <1>5. ASSUME NEW l \in 1 .. n PROVE IsFiniteSet(R(l)) /\ Cardinality(R(l)) = f[l]
    <2> DEFINE m == Len(v.lists[l])
               g == v.lists[l]
               T == R(l)
    <2>1. m \in Nat /\ DOMAIN v.lists[l] = 1 .. m /\ f[l] = m
      BY <1>1, <1>2
    <2>2. T = {v.lists[l][k] : k \in 1 .. m}
      BY <2>1
    <2>3. \A j, k \in 1 .. m : v.lists[l][j] = v.lists[l][k] => j = k
      <3> SUFFICES ASSUME NEW j \in 1 .. m, NEW k \in 1 .. m, v.lists[l][j] = v.lists[l][k]
                   PROVE  j = k
        OBVIOUS
      <3>1. v.lists[l][j].index = v.lists[l][k].index /\ l \in DOMAIN v.lists
        BY <1>1
      <3>2. j \in DOMAIN v.lists[l] /\ k \in DOMAIN v.lists[l]
        BY <2>1
      <3> HIDE DEF m, n
      <3>3. \A a, b \in DOMAIN v.lists[l] : v.lists[l][a].index = v.lists[l][b].index => a = b
        BY <3>1 DEF SortedLists
      <3> QED
        BY <3>1, <3>2, <3>3
    <2> HIDE DEF m, T
    <2>4. /\ m \in Nat /\ \A k \in 1 .. m : g[k] \in T
          /\ \A j, k \in 1 .. m : g[j] = g[k] => j = k
          /\ \A x \in T : \E k \in 1 .. m : g[k] = x
      BY <2>1, <2>2, <2>3
    <2> HIDE DEF g
    <2>5. IsFiniteSet(T) /\ Cardinality(T) = m
      BY <2>4, CountedBy
    <2> QED
      BY <2>1, <2>5 DEF T
  <1>6. \A l, m \in 1 .. n : l # m => R(l) \cap R(m) = {}
    <2> SUFFICES ASSUME NEW l \in 1 .. n, NEW m \in 1 .. n, l # m, NEW r \in R(l), r \in R(m)
                 PROVE  FALSE
      OBVIOUS
    <2>1. PICK a \in DOMAIN v.lists[l] : r = v.lists[l][a]
      OBVIOUS
    <2>2. PICK b \in DOMAIN v.lists[m] : r = v.lists[m][b]
      OBVIOUS
    <2>3. v.lists[l][a].index = v.lists[m][b].index
      BY <2>1, <2>2
    <2> HIDE DEF n
    <2> QED
      BY <1>1, <2>1, <2>2, <2>3 DEF SortedLists
  <1> HIDE DEF R, f, n
  <1>7. s \in [0 .. n -> Nat] /\ s[0] = 0 /\ \A i \in 1 .. n : s[i] = s[i - 1] + f[i]
    BY <1>3 DEF IsSums
  <1>8. \A k \in 0 .. n : IsFiniteSet(P(k)) /\ Cardinality(P(k)) = s[k]
    <2> DEFINE Bad == {k \in 0 .. n : ~(IsFiniteSet(P(k)) /\ Cardinality(P(k)) = s[k])}
    <2> SUFFICES ASSUME Bad # {} PROVE FALSE
      OBVIOUS
    <2>1. PICK k \in Bad : \A j \in Bad : k <= j
      <3>1. Bad \in SUBSET Nat
        OBVIOUS
      <3> HIDE DEF Bad
      <3> QED
        BY <3>1, LeastNat
    <2>2. k # 0
      <3>1. P(0) = {}
        OBVIOUS
      <3>2. IsFiniteSet(P(0)) /\ Cardinality(P(0)) = s[0]
        <4> HIDE DEF P
        <4> QED
          BY <1>7, <3>1, FS_EmptySet
      <3> HIDE DEF P
      <3> QED
        BY <2>1, <3>2
    <2>3. k \in 1 .. n /\ k - 1 \in 0 .. n /\ ~(k <= k - 1)
      BY <1>1, <2>1, <2>2
    <2>4. IsFiniteSet(P(k - 1)) /\ Cardinality(P(k - 1)) = s[k - 1]
      <3> HIDE DEF P
      <3> QED
        BY <2>1, <2>3
    <2>5. P(k) = P(k - 1) \cup R(k)
      <3>1. \A l : l \in 1 .. k <=> (l \in 1 .. k - 1 \/ l = k)
        BY <2>3
      <3> QED
        BY <3>1
    <2>6. P(k - 1) \cap R(k) = {}
      <3>1. \A l \in 1 .. k - 1 : l \in 1 .. n /\ l # k
        BY <1>1, <2>3
      <3> QED
        BY <1>6, <2>3, <3>1
    <2>7. IsFiniteSet(R(k)) /\ Cardinality(R(k)) = f[k]
      BY <1>5, <2>3
    <2> DEFINE A == P(k - 1)
               B == R(k)
               C == P(k)
    <2>8. IsFiniteSet(C) /\ Cardinality(C) = s[k]
      <3>1. /\ IsFiniteSet(A) /\ IsFiniteSet(B) /\ C = A \cup B /\ A \cap B = {}
            /\ Cardinality(A) = s[k - 1] /\ Cardinality(B) = f[k]
        BY <2>4, <2>5, <2>6, <2>7
      <3> HIDE DEF A, B, C
      <3>2. IsFiniteSet(C) /\ Cardinality(C) = Cardinality(A) + Cardinality(B) - Cardinality({})
        BY <3>1, FS_Union
      <3>3. s[k] = s[k - 1] + f[k] /\ s[k - 1] \in Nat /\ s[k] \in Nat
        BY <1>7, <2>3
      <3>4. Cardinality({}) = 0 /\ Cardinality(B) \in Nat
        BY <3>1, FS_EmptySet, FS_CardinalityType
      <3> QED
        BY <3>1, <3>2, <3>3, <3>4
    <2> HIDE DEF P
    <2> QED
      BY <2>1, <2>8 DEF C
  <1>9. AllResults(v) = P(n)
    BY <1>1 DEF AllResults, R
  <1>10. n \in 0 .. n
    BY <1>1
  <1> HIDE DEF P
  <1>11. IsFiniteSet(P(n)) /\ Cardinality(P(n)) = s[n]
    BY <1>8, <1>10
  <1> QED
    BY <1>4, <1>9, <1>11 DEF f

\* A merged row has as many items before it as there are rows before it.
LEMMA RowPlace ==
  ASSUME NEW v, Merges(v), NEW p \in 1 .. Len(v.merged), NEW r, r = v.merged[p]
  PROVE  /\ r \in AllResults(v) /\ r \in Result
         /\ Cardinality({q \in AllResults(v) \ {r} : Before(v, q, r)}) = p - 1
         /\ Cardinality({q \in AllResults(v) \ {r} : ~Before(v, q, r)}) = v.count - p
  <1> DEFINE n == Len(v.merged)
             A == AllResults(v)
             U == {q \in A \ {r} : Before(v, q, r)}
             O == {q \in A \ {r} : ~Before(v, q, r)}
             m == p - 1
             f == v.merged
  <1>1. /\ n \in Nat /\ DOMAIN v.merged = 1 .. n
        /\ \A x \in 1 .. n : v.merged[x] \in A /\ v.merged[x] \in Result
        /\ \A x, y \in 1 .. n : v.merged[x] = v.merged[y] => x = y
    BY MergedFacts
  <1>2. /\ SortedLists(v) /\ v.tac \in BOOLEAN /\ v.sorted \in BOOLEAN
        /\ v.cursors \in [DOMAIN v.lists -> Nat] /\ v.count = Cardinality(A)
    BY DEF Merges, SortedLists
  <1>3. IsFiniteSet(A)
    BY <1>2, AllCounted
  <1>4. m \in Nat /\ p \in 1 .. n /\ \A x \in 1 .. m : x \in 1 .. n /\ x < p
    BY <1>1
  <1>5. ASSUME NEW x \in 1 .. m PROVE v.merged[x] \in U
    <2>1. Before(v, v.merged[x], r) /\ v.merged[x].index # r.index
      BY <1>1, <1>4 DEF Merges
    <2> QED
      BY <1>1, <1>4, <2>1
  <1>6. ASSUME NEW q \in U PROVE \E x \in 1 .. m : v.merged[x] = q
    <2>1. q \in A /\ q # r /\ Before(v, q, r)
      OBVIOUS
    <2>2. PICK l \in DOMAIN v.lists : \E a \in DOMAIN v.lists[l] : q = v.lists[l][a]
      BY <2>1 DEF AllResults
    <2>3. PICK a \in DOMAIN v.lists[l] : q = v.lists[l][a]
      BY <2>2
    <2>4. Len(v.lists[l]) \in Nat /\ DOMAIN v.lists[l] = 1 .. Len(v.lists[l]) /\ q \in Result
      BY <1>2, <2>3, ListFacts
    <2>5. CASE a \in 1 .. v.cursors[l]
      <3>1. PICK x \in 1 .. n : v.merged[x] = q
        <4> HIDE DEF n
        <4>1. \E x \in DOMAIN v.merged : v.merged[x] = v.lists[l][a]
          BY <2>5 DEF Merges
        <4> QED
          BY <1>1, <2>3, <4>1
      <3>2. ~(p < x)
        <4> SUFFICES ASSUME p < x PROVE FALSE
          OBVIOUS
        <4>1. Before(v, r, q) /\ r.index # q.index
          BY <1>1, <1>4, <3>1 DEF Merges
        <4> QED
          BY <1>1, <1>2, <1>4, <2>1, <2>4, <4>1, BeforeOrder
      <3>3. x # p
        BY <2>1, <3>1
      <3> QED
        BY <1>1, <1>4, <3>1, <3>2, <3>3
    <2>6. CASE a \notin 1 .. v.cursors[l]
      <3>1. a \in v.cursors[l] + 1 .. Len(v.lists[l])
        BY <1>2, <2>4, <2>6
      <3>2. Before(v, r, q)
        BY <1>1, <1>4, <2>3, <3>1 DEF Merges
      <3>3. r.index # q.index
        <4>1. PICK k \in DOMAIN v.lists : \E b \in 1 .. v.cursors[k] : r = v.lists[k][b]
          <5> HIDE DEF n
          <5>1. p \in DOMAIN v.merged
            BY <1>1, <1>4
          <5> QED
            BY <5>1 DEF Merges
        <4>2. PICK b \in 1 .. v.cursors[k] : r = v.lists[k][b]
          BY <4>1
        <4>3. b \in DOMAIN v.lists[k]
          <5>1. v.cursors[k] \in Nat /\ v.cursors[k] <= Len(v.lists[k])
            BY DEF Merges
          <5>2. Len(v.lists[k]) \in Nat /\ DOMAIN v.lists[k] = 1 .. Len(v.lists[k])
            BY <1>2, ListFacts
          <5> QED
            BY <5>1, <5>2
        <4>4. ~(k = l /\ b = a)
          BY <2>6
        <4> QED
          BY <1>2, <2>3, <4>2, <4>3, <4>4 DEF SortedLists
      <3> QED
        BY <1>1, <1>2, <1>4, <2>1, <2>4, <3>2, <3>3, BeforeOrder
    <2> QED
      BY <2>5, <2>6
  <1>7. r \in A /\ r \in Result
    BY <1>1, <1>4
  <1>8. O = (A \ {r}) \ U /\ U \subseteq A \ {r}
    OBVIOUS
  <1>9. \A x, y \in 1 .. m : v.merged[x] = v.merged[y] => x = y
    BY <1>1, <1>4
  <1> HIDE DEF n, A, U, O, m
  <1>10. /\ m \in Nat /\ \A x \in 1 .. m : f[x] \in U
         /\ \A x, y \in 1 .. m : f[x] = f[y] => x = y
         /\ \A q \in U : \E x \in 1 .. m : f[x] = q
    BY <1>4, <1>5, <1>6, <1>9
  <1>11. Cardinality(U) = m /\ IsFiniteSet(U)
    <2> HIDE DEF f
    <2> QED
      BY <1>10, CountedBy
  <1>12. Cardinality(O) = Cardinality(A) - p
    <2> DEFINE B == A \ {r}
    <2>1. IsFiniteSet(B) /\ Cardinality(B) = Cardinality(A) - 1
      BY <1>3, <1>7, FS_RemoveElement
    <2>2. O = B \ U /\ U \subseteq B
      BY <1>8
    <2> HIDE DEF B
    <2>3. IsFiniteSet(O) /\ B = U \cup O /\ U \cap O = {}
      <3>1. O \in SUBSET B
        BY <2>2
      <3> QED
        BY <2>1, <2>2, <3>1, FS_Subset
    <2>4. Cardinality(B) = Cardinality(U) + Cardinality(O) - Cardinality({})
      BY <1>11, <2>3, FS_Union
    <2>5. Cardinality({}) = 0 /\ Cardinality(O) \in Nat /\ Cardinality(A) \in Nat
      BY <1>3, <2>3, FS_EmptySet, FS_CardinalityType
    <2>6. m = p - 1 /\ p \in Int
      BY <1>4 DEF m
    <2> QED
      BY <1>11, <2>1, <2>4, <2>5, <2>6
  <1> QED
    BY <1>2, <1>7, <1>11, <1>12 DEF A, U, O, m

-----------------------------------------------------------------------------
(* The sort of a worker's results *)

\* The members of a set come in its order.
LEMMA NthFacts ==
  ASSUME NEW S, IsFiniteSet(S), NEW R, StrictOrder(S, R)
  PROVE  /\ \A k \in 1 .. Cardinality(S) : Nth(S, R, k) \in S
         /\ \A a, b \in 1 .. Cardinality(S) : a < b => <<Nth(S, R, a), Nth(S, R, b)>> \in R
  <1> DEFINE n == Cardinality(S)
             rank(i) == Cardinality({j \in S : <<j, i>> \in R})
  <1>1. n \in Nat
    BY FS_CardinalityType
  <1>2. ASSUME NEW k \in 1 .. n PROVE Nth(S, R, k) \in S /\ rank(Nth(S, R, k)) = k - 1
    <2>1. k - 1 \in 0 .. n - 1
      <3> HIDE DEF n
      <3> QED
        BY <1>1
    <2>2. \E i \in S : rank(i) = k - 1
      BY <2>1, RankTaken
    <2> QED
      BY <2>2 DEF Nth
  <1>3. ASSUME NEW a \in 1 .. n, NEW b \in 1 .. n, a < b
        PROVE  <<Nth(S, R, a), Nth(S, R, b)>> \in R
    <2> DEFINE x == Nth(S, R, a)
               y == Nth(S, R, b)
    <2>1. x \in S /\ y \in S /\ rank(x) = a - 1 /\ rank(y) = b - 1
      BY <1>2
    <2>2. a \in Int /\ b \in Int /\ ~(b - 1 < a - 1) /\ a - 1 # b - 1
      <3> HIDE DEF n
      <3> QED
        BY <1>1, <1>3
    <2> HIDE DEF x, y
    <2>3. x # y
      BY <2>1, <2>2
    <2>4. <<x, y>> \in R \/ <<y, x>> \in R
      BY <2>1, <2>3 DEF StrictOrder
    <2>5. CASE <<y, x>> \in R
      <3>1. rank(y) < rank(x)
        BY <2>1, <2>5, RankGrows
      <3> HIDE DEF rank
      <3> QED
        BY <2>1, <2>2, <3>1
    <2> QED
      BY <2>4, <2>5 DEF x, y
  <1> QED
    BY <1>2, <1>3

\* Arranged puts a sequence in order.
LEMMA ArrangedFacts ==
  ASSUME NEW n \in Nat, NEW s, DOMAIN s = 1 .. n, NEW R, StrictOrder(1 .. n, R)
  PROVE  \E p \in [1 .. n -> 1 .. n] :
           /\ Arranged(s, R) = [k \in 1 .. n |-> s[p[k]]]
           /\ \A a, b \in 1 .. n : a < b => <<p[a], p[b]>> \in R
  <1> DEFINE p == [k \in 1 .. n |-> Nth(1 .. n, R, k)]
  <1>1. IsFiniteSet(1 .. n) /\ Cardinality(1 .. n) = n
    BY FS_Interval
  <1>2. /\ \A k \in 1 .. n : Nth(1 .. n, R, k) \in 1 .. n
        /\ \A a, b \in 1 .. n : a < b => <<Nth(1 .. n, R, a), Nth(1 .. n, R, b)>> \in R
    BY <1>1, NthFacts
  <1>3. p \in [1 .. n -> 1 .. n] /\ \A a, b \in 1 .. n : a < b => <<p[a], p[b]>> \in R
    BY <1>2
  <1>4. Arranged(s, R) = [k \in 1 .. n |-> s[p[k]]]
    BY DEF Arranged
  <1> HIDE DEF p
  <1> QED
    BY <1>3, <1>4

\* The bytes of the key, from the least significant
LEMMA Digits ==
  ASSUME NEW r \in Result
  PROVE  /\ \A k \in 1 .. 4 : r.points[k] \in 0 .. MaxUint16
         /\ Digit(r, 0) = r.points[4] % 256 /\ Digit(r, 1) = r.points[4] \div 256
         /\ Digit(r, 2) = r.points[3] % 256 /\ Digit(r, 3) = r.points[3] \div 256
         /\ Digit(r, 4) = r.points[2] % 256 /\ Digit(r, 5) = r.points[2] \div 256
         /\ Digit(r, 6) = r.points[1] % 256 /\ Digit(r, 7) = r.points[1] \div 256
  <1>1. \A k \in 1 .. 4 : r.points[k] \in 0 .. MaxUint16
    BY DEF Result
  <1>2. /\ 4 - (0 \div 2) = 4 /\ 4 - (1 \div 2) = 4 /\ 4 - (2 \div 2) = 3 /\ 4 - (3 \div 2) = 3
        /\ 4 - (4 \div 2) = 2 /\ 4 - (5 \div 2) = 2 /\ 4 - (6 \div 2) = 1 /\ 4 - (7 \div 2) = 1
    OBVIOUS
  <1>3. /\ 0 % 2 = 0 /\ 1 % 2 # 0 /\ 2 % 2 = 0 /\ 3 % 2 # 0
        /\ 4 % 2 = 0 /\ 5 % 2 # 0 /\ 6 % 2 = 0 /\ 7 % 2 # 0
    OBVIOUS
  <1>4. \A d : Digit(r, d) = IF d % 2 = 0 THEN r.points[4 - d \div 2] % 256
                             ELSE r.points[4 - d \div 2] \div 256
    BY DEF Digit
  <1> QED
    BY <1>1, <1>2, <1>3, <1>4

\* The bytes of a point, and their order
LEMMA Bytes ==
  ASSUME NEW x \in 0 .. MaxUint16
  PROVE  x \div 256 \in Nat /\ x % 256 \in 0 .. 255 /\ x = 256 * (x \div 256) + (x % 256)
  <1>1. x \in Nat
    BY SMTT(30) DEF MaxUint16
  <1> QED
    BY ONLY <1>1, SMTT(30)

LEMMA DigitType ==
  ASSUME NEW r \in Result, NEW d \in 0 .. 7
  PROVE  Digit(r, d) \in Nat
  <1>1. \A k \in 1 .. 4 : r.points[k] \div 256 \in Nat /\ r.points[k] % 256 \in Nat
    <2> SUFFICES ASSUME NEW k \in 1 .. 4
                 PROVE  r.points[k] \div 256 \in Nat /\ r.points[k] % 256 \in Nat
      OBVIOUS
    <2> DEFINE x == r.points[k]
    <2>1. x \in 0 .. MaxUint16
      BY Digits
    <2> HIDE DEF x
    <2>2. x \div 256 \in Nat /\ x % 256 \in 0 .. 255
      BY <2>1, Bytes
    <2> QED
      BY <2>2 DEF x
  <1>2. d \in {0, 1, 2, 3, 4, 5, 6, 7}
    OBVIOUS
  <1> QED
    BY <1>1, <1>2, Digits

\* The order by the last p bytes of the key
LowLess(q, r, p) ==
  \E d \in 0 .. p - 1 : /\ Digit(q, d) < Digit(r, d)
                        /\ \A e \in d + 1 .. p - 1 : Digit(q, e) = Digit(r, e)
LowSame(q, r, p) == \A e \in 0 .. p - 1 : Digit(q, e) = Digit(r, e)

\* t has the results of s, ordered by the last p bytes and, if these are equal, by item.
InPass(s, t, n, p) ==
  /\ t \in [1 .. n -> Result]
  /\ \A k \in 1 .. n : \E i \in 1 .. n : t[k] = s[i]
  /\ \A a, b \in 1 .. n : a < b => \/ LowLess(t[a], t[b], p)
                                   \/ LowSame(t[a], t[b], p) /\ t[a].index < t[b].index

\* A pass orders by one byte more.
LEMMA ScatterStep ==
  ASSUME NEW n \in Nat, NEW s, NEW t, NEW p \in 0 .. 7, InPass(s, t, n, p)
  PROVE  InPass(s, Scatter(t, p), n, p + 1)
  <1> DEFINE R == {e \in (1 .. n) \X (1 .. n) :
                     \/ Digit(t[e[1]], p) < Digit(t[e[2]], p)
                     \/ Digit(t[e[1]], p) = Digit(t[e[2]], p) /\ e[1] < e[2]}
             u == Scatter(t, p)
  <1>1. t \in [1 .. n -> Result] /\ DOMAIN t = 1 .. n
    BY DEF InPass
  <1>2. \A i \in 1 .. n : Digit(t[i], p) \in Nat
    BY <1>1, DigitType
  <1>3. \A i, j \in 1 .. n : <<i, j>> \in R <=>
          Digit(t[i], p) < Digit(t[j], p) \/ (Digit(t[i], p) = Digit(t[j], p) /\ i < j)
    OBVIOUS
  <1>4. u = Arranged(t, R)
    BY <1>1 DEF Scatter
  <1> HIDE DEF R, u
  <1>5. StrictOrder(1 .. n, R)
    <2> DEFINE f == [i \in 1 .. n |-> Digit(t[i], p)]
    <2>1. f \in [1 .. n -> Nat]
      BY <1>2
    <2>2. \A i, j \in 1 .. n : <<i, j>> \in R <=> f[i] < f[j] \/ (f[i] = f[j] /\ i < j)
      BY <1>3
    <2> HIDE DEF f
    <2>3. \A i \in 1 .. n : <<i, i>> \notin R
      BY <2>1, <2>2
    <2>4. \A i, j \in 1 .. n : i # j => <<i, j>> \in R \/ <<j, i>> \in R
      BY <2>1, <2>2
    <2>5. ASSUME NEW i \in 1 .. n, NEW j \in 1 .. n, NEW k \in 1 .. n,
                 <<i, j>> \in R, <<j, k>> \in R
          PROVE  <<i, k>> \in R
      <3>1. f[i] < f[j] \/ (f[i] = f[j] /\ i < j)
        BY <2>2, <2>5
      <3>2. f[j] < f[k] \/ (f[j] = f[k] /\ j < k)
        BY <2>2, <2>5
      <3>3. f[i] < f[k] \/ (f[i] = f[k] /\ i < k)
        BY <2>1, <3>1, <3>2
      <3> QED
        BY <2>2, <3>3
    <2> QED
      BY <2>3, <2>4, <2>5 DEF StrictOrder
  <1>6. PICK m \in [1 .. n -> 1 .. n] :
          /\ u = [k \in 1 .. n |-> t[m[k]]]
          /\ \A a, b \in 1 .. n : a < b => <<m[a], m[b]>> \in R
    BY <1>1, <1>4, <1>5, ArrangedFacts
  <1>7. u \in [1 .. n -> Result] /\ \A k \in 1 .. n : u[k] = t[m[k]] /\ m[k] \in 1 .. n
    BY <1>1, <1>6
  <1>8. \A k \in 1 .. n : \E i \in 1 .. n : u[k] = s[i]
    <2>1. \A i \in 1 .. n : \E j \in 1 .. n : t[i] = s[j]
      BY DEF InPass
    <2> SUFFICES ASSUME NEW k \in 1 .. n PROVE \E i \in 1 .. n : u[k] = s[i]
      OBVIOUS
    <2>2. m[k] \in 1 .. n /\ u[k] = t[m[k]]
      BY <1>7
    <2> QED
      BY <2>1, <2>2
  <1>9. ASSUME NEW a \in 1 .. n, NEW b \in 1 .. n, a < b
        PROVE  \/ LowLess(u[a], u[b], p + 1)
               \/ LowSame(u[a], u[b], p + 1) /\ u[a].index < u[b].index
    <2> DEFINE q == u[a]
               r == u[b]
               i == m[a]
               j == m[b]
    <2>1. i \in 1 .. n /\ j \in 1 .. n /\ q = t[i] /\ r = t[j]
      BY <1>7
    <2>2. Digit(q, p) < Digit(r, p) \/ (Digit(q, p) = Digit(r, p) /\ i < j)
      <3>1. <<i, j>> \in R
        BY <1>6, <1>9
      <3> HIDE DEF q, r, i, j
      <3> QED
        BY <1>3, <2>1, <3>1
    <2> HIDE DEF q, r, i, j
    <2>3. CASE Digit(q, p) < Digit(r, p)
      <3>1. p \in 0 .. (p + 1) - 1 /\ (p + 1 .. (p + 1) - 1) = {}
        OBVIOUS
      <3>2. LowLess(q, r, p + 1)
        BY <2>3, <3>1 DEF LowLess
      <3> QED
        BY <3>2 DEF q, r
    <2>4. CASE Digit(q, p) = Digit(r, p) /\ i < j
      <3>1. LowLess(q, r, p) \/ (LowSame(q, r, p) /\ q.index < r.index)
        BY <2>1, <2>4 DEF InPass
      <3>2. CASE LowLess(q, r, p)
        <4>1. PICK d \in 0 .. p - 1 : /\ Digit(q, d) < Digit(r, d)
                                      /\ \A e \in d + 1 .. p - 1 : Digit(q, e) = Digit(r, e)
          BY <3>2 DEF LowLess
        <4>2. d \in 0 .. (p + 1) - 1
                /\ \A e \in d + 1 .. (p + 1) - 1 : e \in d + 1 .. p - 1 \/ e = p
          OBVIOUS
        <4>3. LowLess(q, r, p + 1)
          BY <2>4, <4>1, <4>2 DEF LowLess
        <4> QED
          BY <4>3 DEF q, r
      <3>3. CASE LowSame(q, r, p) /\ q.index < r.index
        <4>1. \A e \in 0 .. (p + 1) - 1 : e \in 0 .. p - 1 \/ e = p
          OBVIOUS
        <4>2. LowSame(q, r, p + 1)
          BY <2>4, <3>3, <4>1 DEF LowSame
        <4> QED
          BY <3>3, <4>2 DEF q, r
      <3> QED
        BY <3>1, <3>2, <3>3
    <2> QED
      BY <2>2, <2>3, <2>4
  <1> QED
    BY <1>7, <1>8, <1>9 DEF InPass, u

\* Numbers compare as their bytes do.
LEMMA BytesOrder ==
  ASSUME NEW x \in 0 .. MaxUint16, NEW y \in 0 .. MaxUint16
  PROVE  /\ x \div 256 < y \div 256 => x < y
         /\ x \div 256 = y \div 256 /\ x % 256 < y % 256 => x < y
         /\ x \div 256 = y \div 256 /\ x % 256 = y % 256 => x = y
  <1> DEFINE a == x \div 256
             b == x % 256
             c == y \div 256
             d == y % 256
  <1>1. a \in Nat /\ b \in 0 .. 255 /\ x = 256 * a + b
    BY Bytes
  <1>2. c \in Nat /\ d \in 0 .. 255 /\ y = 256 * c + d
    BY Bytes
  <1> HIDE DEF a, b, c, d
  <1>3. a < c => x < y
    BY <1>1, <1>2
  <1>4. a = c /\ b < d => x < y
    BY <1>1, <1>2
  <1>5. a = c /\ b = d => x = y
    BY <1>1, <1>2
  <1> QED
    BY <1>3, <1>4, <1>5 DEF a, b, c, d

\* All eight bytes are the points.
LEMMA AllBytes ==
  ASSUME NEW q \in Result, NEW r \in Result
  PROVE  LowLess(q, r, 8) => PointsLess(q, r)
  <1> SUFFICES ASSUME LowLess(q, r, 8) PROVE PointsLess(q, r)
    OBVIOUS
  <1>1. PICK d \in 0 .. 7 : /\ Digit(q, d) < Digit(r, d)
                            /\ \A e \in d + 1 .. 7 : Digit(q, e) = Digit(r, e)
    BY DEF LowLess
  <1> DEFINE High(x) == r.points[x] \div 256 = q.points[x] \div 256
             Low(x) == r.points[x] % 256 = q.points[x] % 256
  <1>2. /\ q.points[1] \in 0 .. MaxUint16 /\ q.points[2] \in 0 .. MaxUint16
        /\ q.points[3] \in 0 .. MaxUint16 /\ q.points[4] \in 0 .. MaxUint16
        /\ r.points[1] \in 0 .. MaxUint16 /\ r.points[2] \in 0 .. MaxUint16
        /\ r.points[3] \in 0 .. MaxUint16 /\ r.points[4] \in 0 .. MaxUint16
    BY Digits
  <1>3. \A k \in 1 .. 4 :
          /\ q.points[k] \div 256 < r.points[k] \div 256 => q.points[k] < r.points[k]
          /\ q.points[k] \div 256 = r.points[k] \div 256 /\ q.points[k] % 256 < r.points[k] % 256
               => q.points[k] < r.points[k]
          /\ q.points[k] \div 256 = r.points[k] \div 256 /\ q.points[k] % 256 = r.points[k] % 256
               => q.points[k] = r.points[k]
    <2> SUFFICES ASSUME NEW k \in 1 .. 4
                 PROVE  /\ q.points[k] \div 256 < r.points[k] \div 256 => q.points[k] < r.points[k]
                        /\ q.points[k] \div 256 = r.points[k] \div 256
                             /\ q.points[k] % 256 < r.points[k] % 256 => q.points[k] < r.points[k]
                        /\ q.points[k] \div 256 = r.points[k] \div 256
                             /\ q.points[k] % 256 = r.points[k] % 256 => q.points[k] = r.points[k]
      OBVIOUS
    <2>1. q.points[k] \in 0 .. MaxUint16 /\ r.points[k] \in 0 .. MaxUint16
      BY Digits
    <2> QED
      BY <2>1, BytesOrder
  <1>4. ASSUME NEW k \in 1 .. 4, q.points[k] < r.points[k],
               \A m \in 1 .. k - 1 : q.points[m] = r.points[m]
        PROVE  PointsLess(q, r)
    BY <1>4 DEF PointsLess
  <1>5. CASE d \in {6, 7}
    <2>1. q.points[1] < r.points[1]
      BY <1>1, <1>3, <1>5, Digits
    <2> QED
      BY <1>4, <2>1
  <1>6. CASE d \in {4, 5}
    <2>1. Digit(q, 6) = Digit(r, 6) /\ Digit(q, 7) = Digit(r, 7)
      BY <1>1, <1>6
    <2>2. q.points[1] = r.points[1]
      BY <1>3, <2>1, Digits
    <2>3. q.points[2] < r.points[2]
      BY <1>1, <1>3, <1>6, Digits
    <2> QED
      BY <1>4, <2>2, <2>3
  <1>7. CASE d \in {2, 3}
    <2>1. /\ Digit(q, 6) = Digit(r, 6) /\ Digit(q, 7) = Digit(r, 7)
          /\ Digit(q, 4) = Digit(r, 4) /\ Digit(q, 5) = Digit(r, 5)
      BY <1>1, <1>7
    <2>2. q.points[1] = r.points[1] /\ q.points[2] = r.points[2]
      BY <1>3, <2>1, Digits
    <2>3. q.points[3] < r.points[3]
      BY <1>1, <1>3, <1>7, Digits
    <2>4. \A m \in 1 .. 3 - 1 : q.points[m] = r.points[m]
      BY <2>2
    <2> QED
      BY <1>4, <2>3, <2>4
  <1>8. CASE d \in {0, 1}
    <2>1. /\ Digit(q, 6) = Digit(r, 6) /\ Digit(q, 7) = Digit(r, 7)
          /\ Digit(q, 4) = Digit(r, 4) /\ Digit(q, 5) = Digit(r, 5)
          /\ Digit(q, 2) = Digit(r, 2) /\ Digit(q, 3) = Digit(r, 3)
      BY <1>1, <1>8
    <2>2. q.points[1] = r.points[1] /\ q.points[2] = r.points[2] /\ q.points[3] = r.points[3]
      BY <1>3, <2>1, Digits
    <2>3. q.points[4] < r.points[4]
      BY <1>1, <1>3, <1>8, Digits
    <2>4. \A m \in 1 .. 4 - 1 : q.points[m] = r.points[m]
      BY <2>2
    <2> QED
      BY <1>4, <2>3, <2>4
  <1>9. d \in {0, 1} \/ d \in {2, 3} \/ d \in {4, 5} \/ d \in {6, 7}
    OBVIOUS
  <1> QED
    BY <1>5, <1>6, <1>7, <1>8, <1>9

LEMMA AllSame ==
  ASSUME NEW q \in Result, NEW r \in Result
  PROVE  LowSame(q, r, 8) => PointsSame(q, r)
  <1> SUFFICES ASSUME LowSame(q, r, 8), NEW k \in 1 .. 4 PROVE q.points[k] = r.points[k]
    BY DEF PointsSame
  <1>1. /\ Digit(q, 0) = Digit(r, 0) /\ Digit(q, 1) = Digit(r, 1) /\ Digit(q, 2) = Digit(r, 2)
        /\ Digit(q, 3) = Digit(r, 3) /\ Digit(q, 4) = Digit(r, 4) /\ Digit(q, 5) = Digit(r, 5)
        /\ Digit(q, 6) = Digit(r, 6) /\ Digit(q, 7) = Digit(r, 7)
    BY DEF LowSame
  <1>2. /\ q.points[k] \div 256 = r.points[k] \div 256
        /\ q.points[k] % 256 = r.points[k] % 256
    <2>1. k \in {1, 2, 3, 4}
      OBVIOUS
    <2> QED
      BY <1>1, <2>1, Digits
  <1>3. q.points[k] \in 0 .. MaxUint16 /\ r.points[k] \in 0 .. MaxUint16
    BY Digits
  <1> QED
    BY <1>2, <1>3, BytesOrder

\* t has the results of s, in the order of their ranks.
SortOf(s, t, n, tac) ==
  /\ t \in [1 .. n -> Result]
  /\ \A k \in 1 .. n : \E i \in 1 .. n : t[k] = s[i]
  /\ \A a, b \in 1 .. n : a < b => Outranks(t[a], t[b], tac)

\* What a worker found: its results in the order of their items
ByItem(s, n) ==
  /\ s \in [1 .. n -> Result]
  /\ \A a, b \in 1 .. n : a < b => s[a].index < s[b].index

\* The comparison sort
LEMMA RelevanceSorts ==
  ASSUME NEW n \in Nat, NEW s, ByItem(s, n), NEW tac \in BOOLEAN
  PROVE  SortOf(s, ByRelevance(s, tac), n, tac)
  <1> DEFINE R == {e \in (1 .. n) \X (1 .. n) : e[1] # e[2] /\ CompareRanks(s[e[1]], s[e[2]], tac)}
             t == ByRelevance(s, tac)
  <1>1. s \in [1 .. n -> Result] /\ DOMAIN s = 1 .. n
    BY DEF ByItem
  <1>2. \A i, j \in 1 .. n : i # j => s[i].index # s[j].index
    <2> SUFFICES ASSUME NEW i \in 1 .. n, NEW j \in 1 .. n, i # j PROVE s[i].index # s[j].index
      OBVIOUS
    <2>1. s[i].index \in Nat /\ s[j].index \in Nat
      BY <1>1 DEF Result
    <2>2. i < j \/ j < i
      OBVIOUS
    <2>3. s[i].index < s[j].index \/ s[j].index < s[i].index
      BY <2>2 DEF ByItem
    <2> QED
      BY <2>1, <2>3
  <1>3. \A i, j \in 1 .. n : <<i, j>> \in R <=> i # j /\ Outranks(s[i], s[j], tac)
    <2> SUFFICES ASSUME NEW i \in 1 .. n, NEW j \in 1 .. n
                 PROVE  <<i, j>> \in R <=> i # j /\ Outranks(s[i], s[j], tac)
      OBVIOUS
    <2>1. <<i, j>> \in R <=> i # j /\ CompareRanks(s[i], s[j], tac)
      OBVIOUS
    <2>2. i # j => (CompareRanks(s[i], s[j], tac) <=> Outranks(s[i], s[j], tac))
      BY <1>1, <1>2, RanksCompare
    <2> HIDE DEF R
    <2> QED
      BY <2>1, <2>2
  <1>4. t = Arranged(s, R)
    BY <1>1 DEF ByRelevance
  <1> HIDE DEF R, t
  <1>5. StrictOrder(1 .. n, R)
    <2>1. \A i \in 1 .. n : <<i, i>> \notin R
      BY <1>3
    <2>2. \A i, j \in 1 .. n : i # j => <<i, j>> \in R \/ <<j, i>> \in R
      BY <1>1, <1>2, <1>3, BetterOrder
    <2>3. ASSUME NEW i \in 1 .. n, NEW j \in 1 .. n, NEW k \in 1 .. n,
                 <<i, j>> \in R, <<j, k>> \in R
          PROVE  <<i, k>> \in R
      <3>1. Outranks(s[i], s[j], tac) /\ Outranks(s[j], s[k], tac)
        BY <1>3, <2>3
      <3>2. s[i] \in Result /\ s[j] \in Result /\ s[k] \in Result
        BY <1>1
      <3>3. Outranks(s[i], s[k], tac)
        BY <3>1, <3>2, BetterOrder
      <3>4. i # k
        BY <3>1, <3>2, BetterOrder
      <3> QED
        BY <1>3, <3>3, <3>4
    <2> QED
      BY <2>1, <2>2, <2>3 DEF StrictOrder
  <1>6. PICK p \in [1 .. n -> 1 .. n] :
          /\ t = [k \in 1 .. n |-> s[p[k]]]
          /\ \A a, b \in 1 .. n : a < b => <<p[a], p[b]>> \in R
    BY <1>1, <1>4, <1>5, ArrangedFacts
  <1>7. t \in [1 .. n -> Result] /\ \A k \in 1 .. n : t[k] = s[p[k]] /\ p[k] \in 1 .. n
    BY <1>1, <1>6
  <1>8. \A k \in 1 .. n : \E i \in 1 .. n : t[k] = s[i]
    BY <1>7
  <1>9. ASSUME NEW a \in 1 .. n, NEW b \in 1 .. n, a < b PROVE Outranks(t[a], t[b], tac)
    <2>1. <<p[a], p[b]>> \in R /\ p[a] \in 1 .. n /\ p[b] \in 1 .. n
      BY <1>6, <1>7, <1>9
    <2>2. Outranks(s[p[a]], s[p[b]], tac)
      BY <1>3, <2>1
    <2>3. t[a] = s[p[a]] /\ t[b] = s[p[b]]
      BY <1>7
    <2> QED
      BY <2>2, <2>3
  <1> QED
    BY <1>7, <1>8, <1>9 DEF SortOf, t

\* After eight passes the results are in order.
LEMMA PassesSort ==
  ASSUME NEW n \in Nat, NEW s, NEW t, InPass(s, t, n, 8)
  PROVE  SortOf(s, t, n, FALSE)
  <1>1. t \in [1 .. n -> Result] /\ \A k \in 1 .. n : \E i \in 1 .. n : t[k] = s[i]
    BY DEF InPass
  <1>2. ASSUME NEW a \in 1 .. n, NEW b \in 1 .. n, a < b PROVE Outranks(t[a], t[b], FALSE)
    <2>1. LowLess(t[a], t[b], 8) \/ (LowSame(t[a], t[b], 8) /\ t[a].index < t[b].index)
      BY <1>2 DEF InPass
    <2>2. t[a] \in Result /\ t[b] \in Result
      BY <1>1
    <2>3. PointsLess(t[a], t[b]) \/ (PointsSame(t[a], t[b]) /\ t[a].index < t[b].index)
      BY <2>1, <2>2, AllBytes, AllSame
    <2> QED
      BY <2>3 DEF Outranks
  <1> QED
    BY <1>1, <1>2 DEF SortOf

\* The passes one after the other
LEMMA RadixPasses ==
  ASSUME NEW n \in Nat, NEW s, ByItem(s, n), NEW f,
         f = [pass \in 0 .. 8 |-> IF pass = 0 THEN s ELSE Scatter(f[pass - 1], pass - 1)]
  PROVE  InPass(s, f[8], n, 8)
  <1>1. f[0] = s
    OBVIOUS
  <1>2. InPass(s, f[0], n, 0)
    <2>1. \A q, r : LowSame(q, r, 0)
      BY DEF LowSame
    <2> QED
      BY <1>1, <2>1 DEF ByItem, InPass
  <1>3. ASSUME NEW p \in 0 .. 7, InPass(s, f[p], n, p) PROVE InPass(s, f[p + 1], n, p + 1)
    <2>1. f[p + 1] = Scatter(f[p], p)
      <3>1. p + 1 \in 0 .. 8 /\ p + 1 # 0 /\ (p + 1) - 1 = p
        OBVIOUS
      <3> QED
        BY <3>1
    <2> QED
      BY <1>3, <2>1, ScatterStep
  <1>4. InPass(s, f[1], n, 1)
    BY <1>2, <1>3
  <1>5. InPass(s, f[2], n, 2)
    BY <1>3, <1>4
  <1>6. InPass(s, f[3], n, 3)
    BY <1>3, <1>5
  <1>7. InPass(s, f[4], n, 4)
    BY <1>3, <1>6
  <1>8. InPass(s, f[5], n, 5)
    BY <1>3, <1>7
  <1>9. InPass(s, f[6], n, 6)
    BY <1>3, <1>8
  <1>10. InPass(s, f[7], n, 7)
    BY <1>3, <1>9
  <1> QED
    BY <1>3, <1>10

\* The passes exist: what the recursive definition of the sort stands for.
LEMMA PassesExist ==
  ASSUME NEW s
  PROVE  \E f : f = [pass \in 0 .. 8 |-> IF pass = 0 THEN s ELSE Scatter(f[pass - 1], pass - 1)]
  <1> DEFINE t1 == Scatter(s, 0)
             t2 == Scatter(t1, 1)
             t3 == Scatter(t2, 2)
             t4 == Scatter(t3, 3)
             t5 == Scatter(t4, 4)
             t6 == Scatter(t5, 5)
             t7 == Scatter(t6, 6)
             t8 == Scatter(t7, 7)
  <1>1. /\ t1 = Scatter(s, 0) /\ t2 = Scatter(t1, 1) /\ t3 = Scatter(t2, 2) /\ t4 = Scatter(t3, 3)
        /\ t5 = Scatter(t4, 4) /\ t6 = Scatter(t5, 5) /\ t7 = Scatter(t6, 6) /\ t8 = Scatter(t7, 7)
    OBVIOUS
  <1> HIDE DEF t1, t2, t3, t4, t5, t6, t7, t8
  <1> DEFINE f == [pass \in 0 .. 8 |->
                     CASE pass = 0 -> s [] pass = 1 -> t1 [] pass = 2 -> t2 [] pass = 3 -> t3
                       [] pass = 4 -> t4 [] pass = 5 -> t5 [] pass = 6 -> t6 [] pass = 7 -> t7
                       [] pass = 8 -> t8]
  <1>2. /\ f[0] = s /\ f[1] = t1 /\ f[2] = t2 /\ f[3] = t3 /\ f[4] = t4 /\ f[5] = t5 /\ f[6] = t6
        /\ f[7] = t7 /\ f[8] = t8 /\ f = [pass \in 0 .. 8 |-> f[pass]]
    OBVIOUS
  <1> HIDE DEF f
  <1>3. ASSUME NEW pass \in 0 .. 8
        PROVE  f[pass] = IF pass = 0 THEN s ELSE Scatter(f[pass - 1], pass - 1)
    <2>1. pass \in {0, 1, 2, 3, 4, 5, 6, 7, 8}
      OBVIOUS
    <2>2. /\ 1 - 1 = 0 /\ 2 - 1 = 1 /\ 3 - 1 = 2 /\ 4 - 1 = 3 /\ 5 - 1 = 4 /\ 6 - 1 = 5
          /\ 7 - 1 = 6 /\ 8 - 1 = 7
      OBVIOUS
    <2> QED
      BY <1>1, <1>2, <2>1, <2>2
  <1>4. f = [pass \in 0 .. 8 |-> IF pass = 0 THEN s ELSE Scatter(f[pass - 1], pass - 1)]
    BY <1>2, <1>3
  <1> QED
    BY <1>4

\* The points order results in one direction only.
LEMMA PointsOrder ==
  /\ \A q, r \in Result :
       PointsLess(q, r) => ~PointsLess(r, q) /\ ~PointsSame(q, r) /\ ~PointsSame(r, q)
  /\ \A q, r \in Result : q.points = r.points <=> PointsSame(q, r)
  <1>1. \A q \in Result : /\ q.points = [k \in 1 .. 4 |-> q.points[k]]
                          /\ \A k \in 1 .. 4 : q.points[k] \in Nat
    <2>1. \A q \in Result : q.points \in [1 .. 4 -> 0 .. MaxUint16]
      BY DEF Result
    <2>2. 0 .. MaxUint16 \subseteq Nat
      BY DEF MaxUint16
    <2> QED
      BY <2>1, <2>2
  <1>2. ASSUME NEW q \in Result, NEW r \in Result, PointsLess(q, r)
        PROVE  ~PointsLess(r, q) /\ ~PointsSame(q, r) /\ ~PointsSame(r, q)
    <2>1. PICK k \in 1 .. 4 : /\ q.points[k] < r.points[k]
                              /\ \A m \in 1 .. k - 1 : q.points[m] = r.points[m]
      BY <1>2 DEF PointsLess
    <2>2. q.points[k] \in Nat /\ r.points[k] \in Nat
      BY <1>1
    <2>3. ~PointsSame(q, r) /\ ~PointsSame(r, q)
      BY <2>1, <2>2 DEF PointsSame
    <2>4. ASSUME PointsLess(r, q) PROVE FALSE
      <3>1. PICK l \in 1 .. 4 : /\ r.points[l] < q.points[l]
                                /\ \A m \in 1 .. l - 1 : r.points[m] = q.points[m]
        BY <2>4 DEF PointsLess
      <3>2. q.points[l] \in Nat /\ r.points[l] \in Nat
        BY <1>1
      <3>3. CASE k < l
        <4>1. k \in 1 .. l - 1
          BY <3>3
        <4>2. q.points[k] = r.points[k]
          BY <3>1, <4>1
        <4> QED
          BY <2>1, <2>2, <4>2
      <3>4. CASE l < k
        <4>1. l \in 1 .. k - 1
          BY <3>4
        <4>2. q.points[l] = r.points[l]
          BY <2>1, <4>1
        <4> QED
          BY <3>1, <3>2, <4>2
      <3>5. CASE k = l
        BY <2>1, <2>2, <3>1, <3>5
      <3> QED
        BY <3>3, <3>4, <3>5
    <2> QED
      BY <2>3, <2>4
  <1>3. ASSUME NEW q \in Result, NEW r \in Result, PointsSame(q, r) PROVE q.points = r.points
    <2>1. \A k \in 1 .. 4 : q.points[k] = r.points[k]
      BY <1>3 DEF PointsSame
    <2> QED
      BY <1>1, <2>1
  <1>4. \A q, r \in Result : q.points = r.points => PointsSame(q, r)
    BY DEF PointsSame
  <1> QED
    BY <1>2, <1>3, <1>4

\* Reversing the runs of equal keys turns the order of items with equal ranks around.
LEMMA ReversalsSort ==
  ASSUME NEW n \in Nat, NEW s, NEW t, SortOf(s, t, n, FALSE)
  PROVE  SortOf(s, Reversals(t), n, TRUE)
  <1> DEFINE Ties(i) == {j \in 1 .. n : t[j].points = t[i].points}
             turned == [i \in 1 .. n |-> FirstOf(Ties(i)) + LastOf(Ties(i)) - i]
             u == Reversals(t)
  <1>1. t \in [1 .. n -> Result] /\ DOMAIN t = 1 .. n
    BY DEF SortOf
  <1>2. u = [i \in 1 .. n |-> t[turned[i]]]
    BY <1>1 DEF Reversals
  <1>3. ASSUME NEW i \in 1 .. n
        PROVE  /\ FirstOf(Ties(i)) \in Ties(i) /\ LastOf(Ties(i)) \in Ties(i)
               /\ \A j \in Ties(i) : FirstOf(Ties(i)) <= j /\ j <= LastOf(Ties(i))
    <2> DEFINE S == Ties(i)
    <2>1. S \in SUBSET Nat /\ S \in SUBSET (0 .. n) /\ S # {}
      BY <1>1
    <2> HIDE DEF S
    <2>2. \E x \in S : \A y \in S : x <= y
      BY <2>1, LeastNat
    <2>3. Max(S) \in S /\ \A y \in S : y <= Max(S)
      BY <2>1, MaxNat
    <2>4. FirstOf(S) \in S /\ \A j \in S : FirstOf(S) <= j
      BY <2>2 DEF FirstOf
    <2>5. \E x \in S : \A y \in S : x >= y
      <3> DEFINE m == Max(S)
      <3>1. m \in S /\ \A y \in S : y <= m
        BY <2>3
      <3> HIDE DEF m
      <3>2. m \in Nat /\ \A y \in S : y \in Nat
        BY <2>1, <3>1
      <3>3. \A y \in S : m >= y
        BY <3>1, <3>2
      <3> QED
        BY <3>1, <3>3
    <2>6. LastOf(S) \in S /\ \A j \in S : LastOf(S) >= j
      BY <2>5 DEF LastOf
    <2>7. \A j \in S : j <= LastOf(S)
      BY <2>1, <2>6
    <2> QED
      BY <2>4, <2>6, <2>7 DEF S
  <1>4. ASSUME NEW i \in 1 .. n, NEW j \in 1 .. n, i < j
        PROVE  \/ PointsLess(t[i], t[j])
               \/ PointsSame(t[i], t[j]) /\ t[i].index < t[j].index
    BY <1>4 DEF SortOf, Outranks
  <1>5. ASSUME NEW i \in 1 .. n, NEW x \in Ties(i), NEW y \in Ties(i), NEW j \in x .. y
        PROVE  j \in Ties(i)
    <2>1. x \in 1 .. n /\ y \in 1 .. n /\ j \in 1 .. n
      OBVIOUS
    <2>2. t[x].points = t[i].points /\ t[y].points = t[i].points
      OBVIOUS
    <2>3. /\ t[x] \in Result /\ t[y] \in Result /\ t[j] \in Result /\ t[i] \in Result
      BY <1>1, <2>1
    <2>4. CASE j = x \/ j = y
      BY <2>4
    <2>5. CASE x < j /\ j < y
      <3>1. PointsSame(t[x], t[j])
        <4> SUFFICES ASSUME PointsLess(t[x], t[j]) PROVE FALSE
          BY <1>4, <2>1, <2>5
        <4>1. PointsLess(t[j], t[y]) \/ PointsSame(t[j], t[y])
          BY <1>4, <2>1, <2>5
        <4>2. PointsLess(t[j], t[x]) \/ PointsSame(t[j], t[x])
          BY <2>2, <4>1 DEF PointsLess, PointsSame
        <4> QED
          BY <2>3, <4>2, PointsOrder
      <3>2. t[x].points = t[j].points
        BY <2>3, <3>1, PointsOrder
      <3> QED
        BY <2>1, <2>2, <3>2
    <2>6. x \in Int /\ y \in Int /\ j \in Int /\ x <= j /\ j <= y
      BY <2>1
    <2> QED
      BY <2>4, <2>5, <2>6
  <1>6. ASSUME NEW i \in 1 .. n
        PROVE  turned[i] \in Ties(i)
    <2> DEFINE a == FirstOf(Ties(i))
               b == LastOf(Ties(i))
    <2>1. i \in Ties(i) /\ a \in Ties(i) /\ b \in Ties(i) /\ a <= i /\ i <= b
      BY <1>3
    <2>2. a \in 1 .. n /\ b \in 1 .. n
      BY <2>1
    <2>3. turned[i] = a + b - i
      OBVIOUS
    <2> HIDE DEF turned, a, b
    <2>4. turned[i] \in a .. b
      BY <2>1, <2>2, <2>3
    <2> QED
      BY <1>5, <2>1, <2>4
  <1>7. ASSUME NEW i \in 1 .. n, NEW j \in 1 .. n, t[i].points = t[j].points, i < j
        PROVE  turned[j] < turned[i]
    <2> DEFINE a == FirstOf(Ties(i))
               b == LastOf(Ties(i))
    <2>1. Ties(i) = Ties(j)
      BY <1>7
    <2>2. a \in 1 .. n /\ b \in 1 .. n
      BY <1>3
    <2>3. turned[i] = a + b - i /\ turned[j] = a + b - j
      BY <2>1
    <2> HIDE DEF a, b, turned, Ties
    <2> QED
      BY <1>7, <2>2, <2>3
  <1> HIDE DEF turned, u
  <1>8. \A i \in 1 .. n : turned[i] \in 1 .. n /\ t[turned[i]].points = t[i].points
          /\ u[i] = t[turned[i]]
    BY <1>2, <1>6
  <1>9. u \in [1 .. n -> Result]
    BY <1>1, <1>2, <1>8
  <1>10. \A k \in 1 .. n : \E i \in 1 .. n : u[k] = s[i]
    <2>1. \A i \in 1 .. n : \E j \in 1 .. n : t[i] = s[j]
      BY DEF SortOf
    <2> QED
      BY <1>8, <2>1
  <1>11. ASSUME NEW a \in 1 .. n, NEW b \in 1 .. n, a < b PROVE Outranks(u[a], u[b], TRUE)
    <2>1. /\ turned[a] \in 1 .. n /\ turned[b] \in 1 .. n
          /\ u[a] = t[turned[a]] /\ u[b] = t[turned[b]]
          /\ u[a].points = t[a].points /\ u[b].points = t[b].points
      BY <1>8
    <2>2. t[a] \in Result /\ t[b] \in Result /\ u[a] \in Result /\ u[b] \in Result
      BY <1>1, <1>9
    <2>3. CASE PointsLess(t[a], t[b])
      <3>1. PointsLess(u[a], u[b])
        BY <2>1, <2>3 DEF PointsLess
      <3> QED
        BY <3>1 DEF Outranks
    <2>4. CASE PointsSame(t[a], t[b])
      <3>1. t[a].points = t[b].points
        BY <2>2, <2>4, PointsOrder
      <3>2. turned[b] < turned[a]
        BY <1>7, <1>11, <3>1
      <3>3. PointsSame(u[a], u[b]) /\ PointsSame(u[b], u[a])
        BY <2>1, <3>1 DEF PointsSame
      <3>4. PointsLess(u[b], u[a]) \/ u[b].index < u[a].index
        BY <1>4, <2>1, <3>2
      <3>5. u[b].index < u[a].index
        BY <2>2, <3>3, <3>4, PointsOrder
      <3>6. u[a].index > u[b].index
        BY <2>2, <3>5 DEF Result
      <3> QED
        BY <3>3, <3>6 DEF Outranks
    <2> QED
      BY <1>4, <1>11, <2>3, <2>4
  <1> QED
    BY <1>9, <1>10, <1>11 DEF SortOf, u

\* radixSortResults sorts, whichever way it takes.
THEOREM RadixSorts ==
  ASSUME NEW n \in Nat, NEW s, ByItem(s, n), NEW tac \in BOOLEAN
  PROVE  SortOf(s, RadixSortResults(s, tac), n, tac)
  <1> DEFINE Passes(f) ==
               f = [pass \in 0 .. 8 |-> IF pass = 0 THEN s ELSE Scatter(f[pass - 1], pass - 1)]
             o == CHOOSE f : Passes(f)
  <1>1. Passes(o)
    <2>1. \E f : Passes(f)
      BY PassesExist
    <2> HIDE DEF Passes
    <2> QED
      BY <2>1
  <1>2. InPass(s, o[8], n, 8)
    <2> HIDE DEF o
    <2> QED
      BY <1>1, RadixPasses
  <1>3. RadixSortResults(s, tac) = IF Len(s) < RadixMin THEN ByRelevance(s, tac)
                                   ELSE IF tac THEN Reversals(o[8]) ELSE o[8]
    BY DEF RadixSortResults
  <1> HIDE DEF o
  <1>4. SortOf(s, o[8], n, FALSE)
    BY <1>2, PassesSort
  <1>5. SortOf(s, Reversals(o[8]), n, TRUE)
    BY <1>4, ReversalsSort
  <1>6. SortOf(s, ByRelevance(s, tac), n, tac)
    BY RelevanceSorts
  <1>7. CASE Len(s) < RadixMin
    BY <1>3, <1>6, <1>7
  <1>8. CASE ~(Len(s) < RadixMin) /\ tac
    BY <1>3, <1>5, <1>8
  <1>9. CASE ~(Len(s) < RadixMin) /\ ~tac
    BY <1>3, <1>4, <1>9
  <1> QED
    BY <1>7, <1>8, <1>9

-----------------------------------------------------------------------------
(* The ranks the code gives, and what a worker finds *)

\* AsUint16 cuts to 16 bits.
LEMMA Uint16Type ==
  ASSUME NEW x \in Int
  PROVE  AsUint16(x) \in 0 .. MaxUint16
  <1>1. MaxUint16 \in Nat
    BY DEF MaxUint16
  <1>2. AsUint16(x) = IF x > MaxUint16 THEN MaxUint16 ELSE IF x > 0 THEN x ELSE 0
    BY DEF AsUint16, MaxOf
  <1> QED
    BY <1>1, <1>2

\* The first and the last of a set of naturals
LEMMA FirstAndLast ==
  ASSUME NEW S, S \in SUBSET Nat, S # {}
  PROVE  /\ FirstOf(S) \in S
         /\ IsFiniteSet(S) => LastOf(S) \in S
  <1>1. FirstOf(S) \in S
    <2>1. \E x \in S : \A y \in S : x <= y
      BY LeastNat
    <2> QED
      BY <2>1 DEF FirstOf
  <1>2. ASSUME IsFiniteSet(S) PROVE LastOf(S) \in S
    <2>1. PICK x \in S : \A y \in S : y <= x
      BY <1>2, GreatestNat
    <2>2. \A y \in S : x >= y
      BY <2>1
    <2>3. \E m \in S : \A y \in S : m >= y
      BY <2>2
    <2> QED
      BY <2>3 DEF LastOf
  <1> QED
    BY <1>1, <1>2

\* How much whitespace a text has at its ends is a number.
LEMMA LeadingType ==
  ASSUME NEW text, Len(text) \in Nat
  PROVE  Leading(text) \in Nat
  <1> DEFINE at == {i \in 0 .. Len(text) - 1 : ~IsSpace(At(text, i))}
  <1>1. CASE at = {}
    BY <1>1 DEF Leading
  <1>2. CASE at # {}
    <2>1. at \in SUBSET Nat
      OBVIOUS
    <2>2. Leading(text) = CHOOSE i \in at : \A j \in at : i <= j
      BY <1>2 DEF Leading
    <2> HIDE DEF at
    <2>3. \E i \in at : \A j \in at : i <= j
      BY <1>2, <2>1, LeastNat
    <2> QED
      BY <2>1, <2>2, <2>3
  <1> QED
    BY <1>1, <1>2

\* So is the length of a text without it.
LEMMA TrimType ==
  ASSUME NEW S, NEW text \in Seq(S)
  PROVE  Len(text) \in Nat /\ TrimLength(text) \in 0 .. MaxUint16
  <1> DEFINE n == Len(text)
             back == Reversed(text)
  <1>1. n \in Nat /\ DOMAIN text = 1 .. n
    BY LenProperties
  <1>2. back = [i \in 1 .. n |-> text[n + 1 - i]]
    BY <1>1 DEF Reversed
  <1>3. \A i \in 1 .. n : n + 1 - i \in 1 .. n
    BY <1>1
  <1>4. back \in [1 .. n -> S]
    <2>1. \A i \in 1 .. n : text[i] \in S
      BY <1>1, ElementOfSeq
    <2> HIDE DEF n, back
    <2> QED
      BY <1>2, <1>3, <2>1
  <1>5. Len(back) \in Nat
    <2> HIDE DEF n, back
    <2> QED
      BY <1>1, <1>4, FunIsSeq
  <1>6. Leading(text) \in Nat /\ Trailing(text) \in Nat
    BY <1>1, <1>5, LeadingType DEF Trailing
  <1> DEFINE l == Leading(text)
             t == Trailing(text)
  <1>7. TrimLength(text) = IF l = n THEN 0 ELSE AsUint16(n - l - t)
    BY DEF TrimLength
  <1> HIDE DEF n, l, t
  <1>8. n - l - t \in Int
    BY <1>1, <1>6 DEF l, t
  <1>9. AsUint16(n - l - t) \in 0 .. MaxUint16
    BY <1>8, Uint16Type
  <1>10. 0 \in 0 .. MaxUint16
    BY DEF MaxUint16
  <1> QED
    BY <1>1, <1>7, <1>9, <1>10 DEF n

\* Every point is a number of 16 bits.
LEMMA PointType ==
  ASSUME NEW criterion \in Criteria, NEW text \in Seq(STRING), NEW score \in Int,
         NEW b \in Nat, NEW m \in Nat, NEW e \in Nat
  PROVE  Point(criterion, text, score, b, m, e) \in 0 .. MaxUint16
  <1> DEFINE n == Len(text)
             spaces == {i \in 0 .. n - 1 : IsSpace(At(text, i))}
             clear == {i \in 0 .. n : i = b \/ i >= n - 1 \/ i \notin spaces}
             white == FirstOf(clear)
             delims == {-1} \cup {i \in 0 .. n - 1 : At(text, i) = "/"}
             froms == {0} \cup {i + 1 : i \in {s \in spaces : s < b}}
             tos == {n} \cup {s \in spaces : s >= e}
             p == Point(criterion, text, score, b, m, e)
             trim == TrimLength(text)
  <1>1. n \in Nat /\ trim \in 0 .. MaxUint16
    BY TrimType
  <1>2. spaces \in SUBSET (0 .. n - 1)
    OBVIOUS
  <1>3. white \in Int
    <2>1. clear \in SUBSET Nat /\ n \in clear /\ \A x \in clear : x \in Int
      BY <1>1
    <2> HIDE DEF clear
    <2>2. FirstOf(clear) \in clear
      BY <2>1, FirstAndLast
    <2> QED
      BY <2>1, <2>2
  <1>4. LastOf(froms) \in Int
    <2>1. froms \in SUBSET (0 .. n) /\ 0 \in froms
      <3> HIDE DEF spaces
      <3> QED
        BY <1>1, <1>2
    <2>2. IsFiniteSet(0 .. n)
      BY <1>1, FS_Interval
    <2> HIDE DEF froms, n
    <2>3. froms \in SUBSET Nat /\ froms # {} /\ \A x \in froms : x \in Int
      BY <1>1, <2>1
    <2>5. IsFiniteSet(froms)
      BY <2>1, <2>2, FS_Subset
    <2>4. LastOf(froms) \in froms
      BY <2>3, <2>5, FirstAndLast
    <2> QED
      BY <2>3, <2>4
  <1>5. FirstOf(tos) \in Int
    <2>1. tos \in SUBSET Nat /\ n \in tos /\ \A x \in tos : x \in Int
      BY <1>1
    <2> HIDE DEF tos
    <2>2. FirstOf(tos) \in tos
      BY <2>1, FirstAndLast
    <2> QED
      BY <2>1, <2>2
  <1>6. LastOf(delims) \in Int
    <2> DEFINE D == {i \in 0 .. n - 1 : At(text, i) = "/"}
    <2>1. D \in SUBSET Nat /\ D \in SUBSET (0 .. n - 1) /\ delims = {-1} \cup D
      BY <1>1
    <2>2. IsFiniteSet(D)
      <3>1. IsFiniteSet(0 .. n - 1)
        BY <1>1, FS_Interval
      <3> HIDE DEF D
      <3> QED
        BY <2>1, <3>1, FS_Subset
    <2> HIDE DEF D, delims
    <2>3. \E x \in delims : \A y \in delims : x >= y
      <3>1. CASE D = {}
        <4>1. delims = {-1}
          BY <2>1, <3>1
        <4> QED
          BY <4>1
      <3>2. CASE D # {}
        <4>1. PICK x \in D : \A y \in D : y <= x
          BY <2>1, <2>2, <3>2, GreatestNat
        <4>2. x \in Nat /\ \A y \in D : y \in Nat
          BY <2>1
        <4>3. x \in delims /\ \A y \in delims : x >= y
          BY <2>1, <4>1, <4>2
        <4> QED
          BY <4>3
      <3> QED
        BY <3>1, <3>2
    <2>4. LastOf(delims) \in delims
      BY <2>3 DEF LastOf
    <2>5. \A x \in delims : x \in Int
      BY <2>1
    <2> QED
      BY <2>4, <2>5
  <1> HIDE DEF n, spaces, white, delims, froms, tos, trim
  <1>7. CASE criterion = "score"
    <2> DEFINE a == AsUint16(score)
    <2>1. p = MaxUint16 - a
      BY <1>7 DEF Point
    <2>2. a \in 0 .. MaxUint16
      BY Uint16Type
    <2>3. MaxUint16 \in Nat
      BY DEF MaxUint16
    <2> HIDE DEF a
    <2> QED
      BY <2>1, <2>2, <2>3
  <1>8. CASE criterion = "length"
    <2>1. p = trim
      BY <1>8 DEF Point, trim
    <2> QED
      BY <1>1, <2>1
  <1>9. CASE criterion # "score" /\ criterion # "length" /\ b >= e
    <2>1. p = MaxUint16
      BY <1>9 DEF Point
    <2> QED
      BY <2>1 DEF MaxUint16
  <1>10. CASE criterion = "chunk" /\ ~(b >= e)
    <2>1. p = AsUint16(FirstOf(tos) - LastOf(froms))
      BY <1>10 DEF Point, tos, froms, spaces, n
    <2>2. FirstOf(tos) - LastOf(froms) \in Int
      BY <1>4, <1>5
    <2> QED
      BY <2>1, <2>2, Uint16Type
  <1>11. CASE criterion = "pathname" /\ ~(b >= e)
    <2>1. p = IF LastOf(delims) <= b THEN AsUint16(b - LastOf(delims)) ELSE MaxUint16
      BY <1>11 DEF Point, delims, n
    <2>2. b - LastOf(delims) \in Int
      BY <1>6
    <2>3. AsUint16(b - LastOf(delims)) \in 0 .. MaxUint16
      BY <2>2, Uint16Type
    <2>4. MaxUint16 \in 0 .. MaxUint16
      BY DEF MaxUint16
    <2> QED
      BY <2>1, <2>3, <2>4
  <1>12. CASE criterion = "begin" /\ ~(b >= e)
    <2>1. p = AsUint16(m - white)
      BY <1>12 DEF Point, white, spaces, n
    <2>2. m - white \in Int
      BY <1>3
    <2> QED
      BY <2>1, <2>2, Uint16Type
  <1>13. CASE criterion = "end" /\ ~(b >= e)
    <2> DEFINE d == MaxUint16 * (e - white)
               k == d \div (trim + 1)
    <2>1. p = AsUint16(MaxUint16 - k)
      BY <1>13 DEF Point, white, spaces, n, trim
    <2>2. d \in Int
      BY <1>3 DEF MaxUint16
    <2>3. trim + 1 \in Nat /\ trim + 1 > 0
      BY ONLY <1>1, SMTT(30) DEF MaxUint16
    <2>4. k \in Int
      <3> DEFINE q == trim + 1
      <3> HIDE DEF d, q
      <3>1. d \div q \in Int
        BY <2>2, <2>3 DEF q
      <3> QED
        BY <3>1 DEF q
    <2> HIDE DEF k
    <2>5. MaxUint16 - k \in Int
      BY <2>4 DEF MaxUint16
    <2> QED
      BY <2>1, <2>5, Uint16Type
  <1> QED
    BY <1>7, <1>8, <1>9, <1>10, <1>11, <1>12, <1>13 DEF Criteria

\* What an item's match may be
IsMatch(match) ==
  match.score \in Int /\ match.offsets \subseteq Nat \X Nat /\ IsFiniteSet(match.offsets)

\* A result has its item and four points.
LEMMA BuildResultType ==
  ASSUME NEW index \in Nat, NEW text \in Seq(STRING), NEW match, IsMatch(match),
         NEW criteria \in Seq(Criteria)
  PROVE  /\ BuildResult(index, text, match, criteria) \in Result
         /\ BuildResult(index, text, match, criteria).index = index
  <1> DEFINE valid == {m \in match.offsets : m[1] < m[2]}
             begins == {m[1] : m \in valid}
             ends == {m[2] : m \in valid}
             b == IF valid = {} THEN 0 ELSE FirstOf(begins)
             m == IF valid = {} THEN 0 ELSE FirstOf(ends)
             e == IF valid = {} THEN 0 ELSE LastOf(ends)
             points == [k \in 1 .. 4 |-> IF k > Len(criteria) THEN 0
                                         ELSE Point(criteria[k], text, match.score, b, m, e)]
  <1>1. BuildResult(index, text, match, criteria) = [index |-> index, points |-> points]
    BY DEF BuildResult
  <1>2. match.score \in Int /\ match.offsets \subseteq Nat \X Nat /\ IsFiniteSet(match.offsets)
    BY DEF IsMatch
  <1>3. begins \in SUBSET Nat /\ ends \in SUBSET Nat
    BY <1>2
  <1>4. IsFiniteSet(ends)
    <2>1. valid \in SUBSET match.offsets
      OBVIOUS
    <2> HIDE DEF valid
    <2>2. IsFiniteSet(valid)
      BY <1>2, <2>1, FS_Subset
    <2> DEFINE f == [x \in valid |-> x[2]]
    <2>3. ends = {f[x] : x \in valid}
      OBVIOUS
    <2> HIDE DEF f, ends
    <2> QED
      BY <2>2, <2>3, FiniteImage
  <1>5. b \in Nat /\ m \in Nat /\ e \in Nat
    <2>1. CASE valid = {}
      BY <2>1
    <2>2. CASE valid # {}
      <3>1. begins # {} /\ ends # {}
        BY <2>2
      <3> HIDE DEF begins, ends
      <3>2. FirstOf(begins) \in begins /\ FirstOf(ends) \in ends /\ LastOf(ends) \in ends
        BY <1>3, <1>4, <3>1, FirstAndLast
      <3>3. FirstOf(begins) \in Nat /\ FirstOf(ends) \in Nat /\ LastOf(ends) \in Nat
        BY <1>3, <3>2
      <3> HIDE DEF valid
      <3> QED
        BY <2>2, <3>3
    <2> QED
      BY <2>1, <2>2
  <1> HIDE DEF b, m, e
  <1>6. Len(criteria) \in Nat /\ DOMAIN criteria = 1 .. Len(criteria)
    BY LenProperties
  <1>7. ASSUME NEW k \in 1 .. 4 PROVE points[k] \in 0 .. MaxUint16
    <2>1. CASE k > Len(criteria)
      <3>1. points[k] = 0
        BY <2>1
      <3> HIDE DEF points
      <3> QED
        BY <3>1 DEF MaxUint16
    <2>2. CASE ~(k > Len(criteria))
      <3>1. k \in 1 .. Len(criteria)
        BY <1>6, <2>2
      <3>2. criteria[k] \in Criteria
        BY <1>6, <3>1, ElementOfSeq
      <3>3. Point(criteria[k], text, match.score, b, m, e) \in 0 .. MaxUint16
        BY <1>2, <1>5, <3>2, PointType
      <3> QED
        BY <2>2, <3>3
    <2> QED
      BY <2>1, <2>2
  <1>8. points \in [1 .. 4 -> 0 .. MaxUint16]
    BY <1>7
  <1> HIDE DEF points
  <1> QED
    BY <1>1, <1>8 DEF Result

\* What a merger is given: each list in order, and no item in two places
InitMerged == view.kind = "lists" => SortedLists(view)

\* A worker finds its items in order.
LEMMA FoundInOrder ==
  ASSUME NEW s \in Searches, NEW found \in [0 .. Len(s.texts) - 1 -> s.options], NEW owner, NEW w
  PROVE  \E n \in Nat : /\ ByItem(FoundBy(s, found, owner, w), n)
                        /\ \A k \in 1 .. n : owner[FoundBy(s, found, owner, w)[k].index] = w
  <1> DEFINE mine == {i \in DOMAIN found : found[i] # <<>> /\ owner[i] = w}
             n == Cardinality(mine)
             R == {e \in mine \X mine : e[1] < e[2]}
             place == [k \in 1 .. n |-> Nth(mine, R, k)]
             Built(i) == BuildResult(i, At(s.texts, i), found[i][1], s.criteria)
             results == FoundBy(s, found, owner, w)
  <1>1. IsSearch(s)
    BY MergingAssumption
  <1>2. /\ s.texts \in Seq(Seq(STRING)) /\ s.criteria \in Seq(Criteria)
        /\ Len(s.texts) \in Nat /\ DOMAIN s.texts = 1 .. Len(s.texts)
    BY <1>1, LenProperties DEF IsSearch
  <1>3. /\ DOMAIN found = 0 .. Len(s.texts) - 1
        /\ \A i \in mine : i \in 0 .. Len(s.texts) - 1 /\ found[i] # <<>> /\ owner[i] = w
    OBVIOUS
  <1>4. IsFiniteSet(mine) /\ \A i \in mine : i \in Nat
    <2>1. IsFiniteSet(0 .. Len(s.texts) - 1)
      BY <1>2, FS_Interval
    <2>2. mine \in SUBSET (0 .. Len(s.texts) - 1) /\ \A i \in mine : i \in Nat
      BY <1>2, <1>3
    <2> HIDE DEF mine
    <2>3. IsFiniteSet(mine)
      BY <2>1, <2>2, FS_Subset
    <2> QED
      BY <2>2, <2>3
  <1>5. \A i, j \in mine : <<i, j>> \in R <=> i < j
    <2> HIDE DEF mine
    <2> QED
      OBVIOUS
  <1>6. ASSUME NEW i \in mine PROVE Built(i) \in Result /\ Built(i).index = i
    <2>0. i \in 0 .. Len(s.texts) - 1 /\ found[i] # <<>>
      BY <1>3
    <2>1. i \in Nat /\ found[i] \in s.options \ {<<>>}
      <3> HIDE DEF mine
      <3>1. found[i] \in s.options
        BY ONLY <2>0, found \in [0 .. Len(s.texts) - 1 -> s.options]
      <3> QED
        BY <1>2, <2>0, <3>1
    <2>2. IsMatch(found[i][1])
      BY <1>1, <2>1 DEF IsSearch, IsMatch
    <2>3. At(s.texts, i) \in Seq(STRING)
      <3>1. i + 1 \in 1 .. Len(s.texts)
        BY <1>2, <2>0
      <3> QED
        BY <1>2, <3>1, ElementOfSeq DEF At
    <2> QED
      BY <1>2, <2>1, <2>2, <2>3, BuildResultType
  <1>7. results = [k \in 1 .. n |-> Built(Nth(mine, R, k))]
    BY DEF FoundBy
  <1> HIDE DEF R, mine, Built, results
  <1>8. StrictOrder(mine, R)
    BY <1>4, <1>5 DEF StrictOrder
  <1>9. /\ \A k \in 1 .. n : Nth(mine, R, k) \in mine
        /\ \A a, b \in 1 .. n : a < b => <<Nth(mine, R, a), Nth(mine, R, b)>> \in R
    BY <1>4, <1>8, NthFacts
  <1>10. n \in Nat
    BY <1>4, FS_CardinalityType
  <1> HIDE DEF n
  <1>11. /\ \A k \in 1 .. n : place[k] \in mine
         /\ \A a, b \in 1 .. n : a < b => place[a] < place[b]
    BY <1>5, <1>9
  <1>12. results = [k \in 1 .. n |-> Built(place[k])]
    BY <1>7
  <1> HIDE DEF place
  <1>13. \A k \in 1 .. n : results[k] \in Result /\ results[k].index = place[k]
    BY <1>6, <1>11, <1>12
  <1>14. results \in [1 .. n -> Result]
    BY <1>12, <1>13
  <1>15. ByItem(results, n)
    BY <1>11, <1>13, <1>14 DEF ByItem
  <1>16. \A k \in 1 .. n : owner[results[k].index] = w
    BY <1>3, <1>11, <1>13
  <1> QED
    BY <1>10, <1>15, <1>16 DEF results

\* What a worker hands over: results in the order of a merger, all of its own
InList(t, n, owner, w, sort, tac) ==
  /\ t \in [1 .. n -> Result]
  /\ \A k \in 1 .. n : owner[t[k].index] = w
  /\ \A a, b \in 1 .. n : a < b => /\ t[a].index # t[b].index
                                   /\ IF sort THEN CompareRanks(t[a], t[b], tac)
                                      ELSE t[a].index < t[b].index

\* It does so sorted or not.
LEMMA ListInOrder ==
  ASSUME NEW s \in Searches, NEW found \in [0 .. Len(s.texts) - 1 -> s.options], NEW owner,
         NEW sort \in BOOLEAN, NEW tac \in BOOLEAN, NEW w \in 1 .. s.workers
  PROVE  \E n \in Nat : InList(Lists(s, found, owner, sort, tac)[w], n, owner, w, sort, tac)
  <1> DEFINE r == FoundBy(s, found, owner, w)
             t == Lists(s, found, owner, sort, tac)[w]
  <1>1. t = IF sort THEN RadixSortResults(r, tac) ELSE r
    BY DEF Lists
  <1>2. PICK n \in Nat : ByItem(r, n) /\ \A k \in 1 .. n : owner[r[k].index] = w
    BY FoundInOrder
  <1> HIDE DEF r, t
  <1>3. /\ r \in [1 .. n -> Result] /\ \A k \in 1 .. n : r[k] \in Result /\ r[k].index \in Nat
        /\ \A a, b \in 1 .. n : a < b => r[a].index < r[b].index
    BY <1>2 DEF ByItem, Result
  <1>4. CASE ~sort
    <2>1. t = r
      BY <1>1, <1>4
    <2>2. \A a, b \in 1 .. n : a < b => r[a].index # r[b].index
      BY <1>3
    <2> QED
      BY <1>2, <1>3, <1>4, <2>1, <2>2 DEF InList, t
  <1>5. CASE sort
    <2>1. SortOf(r, t, n, tac)
      BY <1>1, <1>2, <1>5, RadixSorts
    <2>2. /\ t \in [1 .. n -> Result] /\ \A k \in 1 .. n : t[k] \in Result
          /\ \A k \in 1 .. n : \E i \in 1 .. n : t[k] = r[i]
          /\ \A a, b \in 1 .. n : a < b => Outranks(t[a], t[b], tac)
      BY <2>1 DEF SortOf
    <2>3. ASSUME NEW a \in 1 .. n, NEW b \in 1 .. n, a < b PROVE t[a].index # t[b].index
      <3> SUFFICES ASSUME t[a].index = t[b].index PROVE FALSE
        OBVIOUS
      <3>1. PICK i \in 1 .. n : t[a] = r[i]
        BY <2>2
      <3>2. PICK j \in 1 .. n : t[b] = r[j]
        BY <2>2
      <3>3. i = j
        <4>1. r[i].index = r[j].index /\ r[i].index \in Nat
          BY <1>3, <3>1, <3>2
        <4>2. ~(i < j) /\ ~(j < i)
          BY <1>3, <4>1
        <4> QED
          BY <4>2
      <3>4. Outranks(t[a], t[b], tac) /\ t[a] = t[b]
        BY <2>2, <2>3, <3>1, <3>2, <3>3
      <3> QED
        BY <2>2, <3>4, BetterOrder
    <2>4. ASSUME NEW a \in 1 .. n, NEW b \in 1 .. n, a < b PROVE CompareRanks(t[a], t[b], tac)
      <3>1. t[a] \in Result /\ t[b] \in Result /\ Outranks(t[a], t[b], tac)
        BY <2>2, <2>4
      <3>2. t[a].index # t[b].index
        BY <2>3, <2>4
      <3> QED
        BY <3>1, <3>2, RanksCompare
    <2>5. ASSUME NEW k \in 1 .. n PROVE owner[t[k].index] = w
      <3>1. PICK i \in 1 .. n : t[k] = r[i]
        BY <2>2
      <3> QED
        BY <1>2, <3>1
    <2> QED
      BY <1>5, <2>2, <2>3, <2>4, <2>5, ZenonT(40) DEF InList, t
  <1> QED
    BY <1>4, <1>5

\* So what the workers hand over is in order: in each list, and no item in two places.
LEMMA ListsInOrder == InitView => InitMerged
  <1> SUFFICES ASSUME InitView, view.kind = "lists" PROVE SortedLists(view)
    BY DEF InitMerged
  <1>1. PICK s \in Searches : \E found \in [0 .. Len(s.texts) - 1 -> s.options] :
          \E owner \in [0 .. Len(s.texts) - 1 -> 1 .. s.workers] : \E sort, tac \in BOOLEAN :
            view = NewMerger(Lists(s, found, owner, sort, tac), sort, tac)
    <2>1. \A chunks, tac, start : PassMerger(chunks, tac, start).kind = "pass"
      BY DEF PassMerger
    <2> QED
      BY <2>1 DEF InitView
  <1>2. PICK found \in [0 .. Len(s.texts) - 1 -> s.options] :
          \E owner \in [0 .. Len(s.texts) - 1 -> 1 .. s.workers] : \E sort, tac \in BOOLEAN :
            view = NewMerger(Lists(s, found, owner, sort, tac), sort, tac)
    BY <1>1
  <1>3. PICK owner : \E sort, tac \in BOOLEAN :
          view = NewMerger(Lists(s, found, owner, sort, tac), sort, tac)
    BY <1>2
  <1>4. PICK sort \in BOOLEAN, tac \in BOOLEAN :
          view = NewMerger(Lists(s, found, owner, sort, tac), sort, tac)
    BY <1>3
  <1> DEFINE lists == Lists(s, found, owner, sort, tac)
             n == s.workers
             Good(w, m) == InList(lists[w], m, owner, w, sort, tac)
  <1>5. view.lists = lists /\ view.sorted = sort /\ view.tac = tac
    BY <1>4 DEF NewMerger
  <1>6. n \in Nat /\ DOMAIN lists = 1 .. n /\ lists = [w \in 1 .. n |-> lists[w]]
    <2>1. IsSearch(s)
      BY MergingAssumption
    <2> QED
      BY <2>1 DEF IsSearch, Lists
  <1>7. \A w \in 1 .. n : \E m \in Nat : Good(w, m)
    BY ListInOrder
  <1> HIDE DEF lists, n
  <1>8. \A w \in 1 .. n : lists[w] \in Seq(Result)
    <2> SUFFICES ASSUME NEW w \in 1 .. n PROVE lists[w] \in Seq(Result)
      OBVIOUS
    <2>1. PICK m \in Nat : Good(w, m)
      BY <1>7
    <2> QED
      BY <2>1, FunIsSeq DEF InList
  <1>9. lists \in Seq(Seq(Result))
    <2>1. lists \in [1 .. n -> Seq(Result)]
      BY <1>6, <1>8
    <2> QED
      BY <1>6, <2>1, FunIsSeq
  <1>10. ASSUME NEW l \in 1 .. n, NEW a \in DOMAIN lists[l], NEW b \in DOMAIN lists[l], a < b
         PROVE  Before(view, lists[l][a], lists[l][b]) /\ lists[l][a].index # lists[l][b].index
    <2>1. PICK m \in Nat : Good(l, m)
      BY <1>7
    <2>2. DOMAIN lists[l] = 1 .. m
      BY <2>1 DEF InList
    <2> QED
      BY <1>5, <1>10, <2>1, <2>2 DEF InList, Before
  <1>11. ASSUME NEW l \in 1 .. n, NEW k \in 1 .. n, NEW a \in DOMAIN lists[l],
                NEW b \in DOMAIN lists[k], lists[l][a].index = lists[k][b].index
         PROVE  l = k /\ a = b
    <2>1. \A w \in 1 .. n : \A c \in DOMAIN lists[w] : owner[lists[w][c].index] = w /\ c \in Nat
      <3> SUFFICES ASSUME NEW w \in 1 .. n, NEW c \in DOMAIN lists[w]
                   PROVE  owner[lists[w][c].index] = w /\ c \in Nat
        OBVIOUS
      <3>1. PICK m \in Nat : Good(w, m)
        BY <1>7
      <3>2. c \in 1 .. m
        BY <3>1 DEF InList
      <3> QED
        BY <3>1, <3>2 DEF InList
    <2>2. l = k
      BY <1>11, <2>1
    <2>3. a \in Nat /\ b \in Nat
      BY <2>1
    <2>4. ~(a < b) /\ ~(b < a)
      BY <1>10, <1>11, <2>2
    <2> QED
      BY <2>2, <2>3, <2>4
  <1> QED
    BY <1>5, <1>6, <1>9, <1>10, <1>11 DEF SortedLists

-----------------------------------------------------------------------------
(* Every row *)

\* The inductive invariant of a merger of lists
MergedView == "kind" \in DOMAIN view /\ (view.kind = "lists" => Merges(view))

\* A merger of lists starts with the invariant.
LEMMA InitRows == InitView => MergedView /\ RowsInOrder
  <1> SUFFICES ASSUME InitView PROVE MergedView /\ RowsInOrder
    OBVIOUS
  <1>0. CASE view.kind # "lists"
    <2>1. \A lists, sorted, tac : "kind" \in DOMAIN NewMerger(lists, sorted, tac)
      BY DEF NewMerger
    <2>2. \A chunks, tac, start : "kind" \in DOMAIN PassMerger(chunks, tac, start)
      BY DEF PassMerger
    <2>3. "kind" \in DOMAIN view
      BY <2>1, <2>2 DEF InitView
    <2> QED
      BY <1>0, <2>3 DEF MergedView, RowsInOrder
  <1>20. SUFFICES ASSUME view.kind = "lists" PROVE MergedView /\ RowsInOrder
    BY <1>0
  <1>1. got = <<>> /\ SortedLists(view)
    BY <1>20, ListsInOrder DEF InitView, InitMerged
  <1>2. PICK lists, sorted, tac : view = NewMerger(lists, sorted, tac)
    <2>1. \A chunks, tac, start : PassMerger(chunks, tac, start).kind = "pass"
      BY DEF PassMerger
    <2> QED
      BY <1>20, <2>1 DEF InitView
  <1>3. /\ view.kind = "lists" /\ view.lists = lists /\ view.sorted = sorted /\ view.tac = tac
        /\ view.merged = <<>> /\ view.cursors = [l \in DOMAIN lists |-> 0]
        /\ view.count = Sum([l \in DOMAIN lists |-> Len(lists[l])])
    BY <1>2 DEF NewMerger
  <1>4. view = [kind |-> "lists", lists |-> view.lists, sorted |-> view.sorted, tac |-> view.tac,
                merged |-> view.merged, cursors |-> view.cursors, count |-> view.count]
    BY <1>2 DEF NewMerger
  <1>5. view.count = Cardinality(AllResults(view))
    BY <1>1, <1>3, AllCounted
  <1>6. view.merged \in Seq(Result) /\ DOMAIN view.merged = {}
    BY <1>3
  <1>7. \A l \in DOMAIN view.lists : Len(view.lists[l]) \in Nat
    BY <1>1, ListFacts
  <1>8. /\ view.cursors \in [DOMAIN view.lists -> Nat]
        /\ \A l \in DOMAIN view.lists : view.cursors[l] = 0
    BY <1>3
  <1>9. \A l \in DOMAIN view.lists : view.cursors[l] <= Len(view.lists[l])
          /\ 1 .. view.cursors[l] = {}
    BY <1>7, <1>8
  <1>10. Merges(view)
    BY <1>1, <1>4, <1>5, <1>6, <1>8, <1>9 DEF Merges
  <1>11. "kind" \in DOMAIN view
    BY <1>4
  <1> QED
    BY <1>1, <1>10, <1>11 DEF RowsInOrder, MergedView

\* The row Get reads has the result that belongs there.
LEMMA RightRow ==
  ASSUME NEW v, Merges(v), NEW idx \in 0 .. v.count - 1, NEW w, MergedFrom(v, w),
         Row(v, idx) < Len(w.merged), Row(v, idx) \in Nat
  PROVE  <<idx, w.merged[Row(v, idx) + 1].index>> \in InOrder(w)
  <1> DEFINE p == Row(v, idx) + 1
             r == w.merged[p]
             A == AllResults(w)
             Above(x) == {q \in A \ {x} : IF w.sorted THEN CompareRanks(q, x, w.tac)
                                          ELSE (q.index < x.index) # w.tac}
  <1>1. Merges(w) /\ w.tac \in BOOLEAN /\ w.sorted \in BOOLEAN /\ SortedLists(w)
    BY DEF MergedFrom, Merges, SortedLists
  <1>2. w.sorted = v.sorted /\ w.tac = v.tac /\ w.count = v.count
    BY DEF MergedFrom
  <1>3. p \in 1 .. Len(w.merged)
    <2>1. Len(w.merged) \in Nat
      BY <1>1, MergedFacts
    <2> QED
      BY <2>1
  <1>4. /\ r \in A /\ r \in Result
        /\ Cardinality({q \in A \ {r} : Before(w, q, r)}) = p - 1
        /\ Cardinality({q \in A \ {r} : ~Before(w, q, r)}) = w.count - p
    BY <1>1, <1>3, RowPlace
  <1>5. w.count \in Nat
    <2>1. w.count = Cardinality(A)
      BY <1>1 DEF Merges
    <2> QED
      BY <1>1, <2>1, AllCounted, FS_CardinalityType
  <1> HIDE DEF p, r, A
  <1>6. Cardinality(Above(r)) = idx
    <2>1. CASE w.sorted
      <3>1. Above(r) = {q \in A \ {r} : Before(w, q, r)}
        BY <2>1 DEF Before
      <3>2. p - 1 = idx
        BY <1>2, <1>5, <2>1 DEF p, Row
      <3> QED
        BY <1>4, <3>1, <3>2
    <2>2. CASE ~w.sorted /\ ~w.tac
      <3>1. \A q \in A \ {r} : ((q.index < r.index) # w.tac) <=> (q.index < r.index)
        <4>1. w.tac = FALSE
          BY <1>1, <2>2
        <4>2. \A x, y : (x < y) \in BOOLEAN
          OBVIOUS
        <4>3. \A b \in BOOLEAN : (b # FALSE) <=> b
          OBVIOUS
        <4>4. \A q \in A \ {r} : ((q.index < r.index) # FALSE) <=> (q.index < r.index)
          BY <4>2, <4>3, Zenon
        <4> QED
          BY <4>1, <4>4
      <3>2. Above(r) = {q \in A \ {r} : Before(w, q, r)}
        BY <2>2, <3>1 DEF Before
      <3>3. p - 1 = idx
        BY <1>2, <1>5, <2>2 DEF p, Row
      <3> QED
        BY <1>4, <3>2, <3>3
    <2>3. CASE ~w.sorted /\ w.tac
      <3>1. \A q \in A \ {r} : ((q.index < r.index) # w.tac) <=> ~(q.index < r.index)
        BY <2>3
      <3>2. Above(r) = {q \in A \ {r} : ~Before(w, q, r)}
        BY <2>3, <3>1 DEF Before
      <3>3. w.count - p = idx
        BY <1>2, <1>5, <2>3 DEF p, Row
      <3> QED
        BY <1>4, <3>2, <3>3
    <2> QED
      BY <1>1, <2>1, <2>2, <2>3
  <1>7. InOrder(w) = {<<Cardinality(Above(x)), x.index>> : x \in A}
    BY DEF InOrder, AllResults, A
  <1>8. <<idx, r.index>> \in InOrder(w)
    BY <1>4, <1>6, <1>7
  <1> QED
    BY <1>8 DEF r, p

\* Get keeps the invariant and answers with the right result.
LEMMA GetRow ==
  ASSUME MergedView, RowsInOrder, [Get]_<<view, got>>
  PROVE  MergedView' /\ RowsInOrder'
  <1>1. CASE UNCHANGED <<view, got>>
    BY <1>1 DEF MergedView, RowsInOrder
  <1>2. CASE Get /\ view.kind = "lists"
    <2>1. PICK idx \in 0 .. view.count - 1 :
            /\ view' = MergedUpTo(view, Row(view, idx))
            /\ got' = <<idx, MergedUpTo(view, Row(view, idx)).merged[
                               Row(MergedUpTo(view, Row(view, idx)), idx) + 1].index>>
      <3>1. view.kind # "pass" /\ Merges(view)
        BY <1>2 DEF MergedView
      <3>2. \A n : MergedUpTo(view, n).kind # "pass"
        <4> SUFFICES ASSUME NEW n PROVE MergedUpTo(view, n).kind # "pass"
          OBVIOUS
        <4> DEFINE v == MergedUpTo(view, n)
        <4>1. \E merged, cursors : v = [view EXCEPT !.merged = merged, !.cursors = cursors]
          BY DEF MergedUpTo
        <4>2. "kind" \in DOMAIN view
          BY <3>1 DEF Merges
        <4> HIDE DEF v
        <4>3. v.kind # "pass"
          BY <3>1, <4>1, <4>2
        <4> QED
          BY <4>3 DEF v
      <3> QED
        BY <1>2, <3>1, <3>2 DEF Get
    <2>2. Merges(view)
      BY <1>2 DEF MergedView
    <2>3. view.count \in Nat
      <3>1. SortedLists(view) /\ view.count = Cardinality(AllResults(view))
        BY <2>2 DEF Merges
      <3> QED
        BY <3>1, AllCounted, FS_CardinalityType
    <2> DEFINE n == Row(view, idx)
               w == MergedUpTo(view, n)
    <2>4. n \in Nat /\ n < view.count
      BY <2>3 DEF Row
    <2>5. view' = w /\ got' = <<idx, w.merged[Row(w, idx) + 1].index>>
      BY <2>1
    <2> HIDE DEF n
    <2>6. MergedFrom(view, w) /\ n < Len(w.merged)
      BY <2>2, <2>4, MergesUpTo
    <2> HIDE DEF w
    <2>7. Row(w, idx) = n
      BY <2>6 DEF n, Row, MergedFrom
    <2>8. <<idx, w.merged[n + 1].index>> \in InOrder(w)
      BY <2>2, <2>4, <2>6, RightRow DEF n
    <2>9. got' \in InOrder(view')
      BY <2>5, <2>7, <2>8
    <2>10. view'.kind = "lists" /\ Merges(view')
      BY <1>2, <2>5, <2>6 DEF MergedFrom, Merges
    <2>11. "kind" \in DOMAIN view'
      <3>1. view' = [kind |-> "lists", lists |-> view'.lists, sorted |-> view'.sorted,
                     tac |-> view'.tac, merged |-> view'.merged, cursors |-> view'.cursors,
                     count |-> view'.count]
        BY <2>10 DEF Merges
      <3> QED
        BY <3>1
    <2> QED
      BY <2>9, <2>10, <2>11 DEF MergedView, RowsInOrder
  <1>3. CASE Get /\ view.kind # "lists"
    <2>1. view'.kind # "lists" /\ "kind" \in DOMAIN view'
      <3>1. PICK idx \in 0 .. view.count - 1 :
              view' = IF view.kind = "pass" THEN view ELSE MergedUpTo(view, Row(view, idx))
        BY <1>3 DEF Get
      <3> DEFINE v == MergedUpTo(view, Row(view, idx))
      <3>2. \E merged, cursors : v = [view EXCEPT !.merged = merged, !.cursors = cursors]
        BY DEF MergedUpTo
      <3> HIDE DEF v
      <3>3. "kind" \in DOMAIN view
        BY DEF MergedView
      <3>4. v.kind = view.kind /\ "kind" \in DOMAIN v
        BY <3>2, <3>3
      <3> QED
        BY <1>3, <3>1, <3>3, <3>4 DEF v
    <2> QED
      BY <2>1 DEF MergedView, RowsInOrder
  <1> QED
    BY <1>1, <1>2, <1>3

\* Every row has the result that belongs there, whatever rows were asked for before ("a single,
\* globally-sorted list", merger.go:10), however the items were divided among the workers and
\* however many each sorted, by digits or by comparison (result.go:354).
THEOREM RowsShown == ViewSpec => []RowsInOrder
  <1>1. MergedView /\ RowsInOrder /\ [Get]_<<view, got>> => (MergedView /\ RowsInOrder)'
    BY GetRow
  <1> QED
    BY InitRows, <1>1, PTL DEF ViewSpec
=============================================================================
