----------------------------- MODULE CoreProofs ----------------------------
(***************************************************************************)
(* Proofs about the coordinator, its terminal, reader and matcher, for all *)
(* lists, bounds and --tail.  Every property of Core that its runs check   *)
(* as an invariant is a theorem here; progress (Settles) is left to TLC.   *)
(*                                                                         *)
(* The handlers of Run come first: AfterKilledFin, AfterRead and           *)
(* AfterSearch say variable by variable what they do, so that what follows *)
(* need not look into the functions that Run is made of.  The invariant is *)
(* built in layers, each kept by every step given the ones before it:      *)
(*   Sound      types, fresh patterns, the reader and the coordinator in   *)
(*              step, commands in order;                                   *)
(*   Sessions   what requests and results are about, under reload-sync;    *)
(*   Asked      what the terminal refers to has been displayed;            *)
(*   Exact      the cache of the matcher, before a first reload;           *)
(*   Carried    what the user asked for is on its way, or has arrived;     *)
(*   Answering  the newest request is on its way, or displayed.            *)
(***************************************************************************)
EXTENDS Core, TLAPS

\* What a handler works on
HandlerState == [v : CoordState, patterns : SUBSET Pattern, list : Snap]

\* PatternsFresh for a handler
Fresh(s) == \A p \in s.patterns : p.nth = s.v.nth /\ p.deny = s.v.deny

\* The variables of Run by what they are for: the reader, the list, the search
SameReader(v, w) == w.reading = v.reading /\ w.next = v.next /\ w.command = v.command
SameSnap(v, w) == w.snap = v.snap /\ w.snapRev = v.snapRev
SameSearch(v, w) == w.sort = v.sort /\ w.nth = v.nth /\ w.deny = v.deny

\* bumpMinor counts the revision and leaves the rest.
LEMMA BumpFacts ==
  ASSUME NEW v \in CoordState, NEW w, w = bumpMinor(v)
  PROVE  /\ w \in CoordState
         /\ w.inputRev = [major |-> v.inputRev.major, minor |-> v.inputRev.minor + 1]
         /\ SameReader(v, w) /\ SameSnap(v, w) /\ SameSearch(v, w)
         /\ w.useSnapshot = v.useSnapshot
  <1> DEFINE bumped == [major |-> v.inputRev.major, minor |-> v.inputRev.minor + 1]
  <1>1. bumped \in Revision
    BY DEF CoordState, Revision
  <1>2. [v.inputRev EXCEPT !.minor = @ + 1] = bumped
    BY DEF CoordState, Revision
  <1>3. w = [v EXCEPT !.inputRev = bumped]
    BY <1>2 DEF bumpMinor, CoordState
  <1> HIDE DEF bumped
  <1>4. w \in CoordState /\ w.inputRev = bumped
    BY <1>1, <1>3 DEF CoordState
  <1>5. SameReader(v, w) /\ SameSnap(v, w)
    BY <1>3 DEF CoordState, SameReader, SameSnap
  <1>6. SameSearch(v, w) /\ w.useSnapshot = v.useSnapshot
    BY <1>3 DEF CoordState, SameSearch
  <1> QED
    BY <1>4, <1>5, <1>6 DEF bumped

\* clearDenylist
LEMMA ClearFacts ==
  ASSUME NEW s \in HandlerState, NEW t, t = clearDenylist(s)
  PROVE  /\ t \in HandlerState /\ t.list = s.list
         /\ t.v = [s.v EXCEPT !.deny = {}]
         /\ Fresh(s) => Fresh(t)
  <1>1. t = [v |-> [s.v EXCEPT !.deny = {}], list |-> s.list,
             patterns |-> IF s.v.deny # {} THEN {} ELSE s.patterns]
    BY DEF HandlerState, clearDenylist
  <1>2. [s.v EXCEPT !.deny = {}] \in CoordState
    BY DEF HandlerState, CoordState
  <1>3. Fresh(s) => Fresh(t)
    BY <1>1 DEF HandlerState, CoordState, Fresh
  <1> QED
    BY <1>1, <1>2, <1>3 DEF HandlerState

\* The trimmed list m of a list l, with its revision
Trims(l, m, rev, rev2) ==
  /\ m.major = l.major /\ m.hi = l.hi /\ rev2.major = rev.major
  /\ \/ m = l /\ rev2 = rev
     \/ /\ Tail > 0 /\ CountItems(l) > Tail /\ m.lo = l.hi - Tail
        /\ rev2.minor = rev.minor + 1

\* TrimList keeps the session and the end of the list, and leaves Tail items at most.
LEMMA TrimFacts ==
  ASSUME NEW s \in HandlerState, NEW t, t = TrimList(s)
  PROVE  /\ t \in HandlerState
         /\ Trims(s.list, t.list, s.v.inputRev, t.v.inputRev)
         /\ Tail > 0 => CountItems(t.list) <= Tail
         /\ SameReader(s.v, t.v) /\ SameSnap(s.v, t.v) /\ SameSearch(s.v, t.v)
         /\ t.v.useSnapshot = s.v.useSnapshot
         /\ t.patterns = s.patterns
  <1> USE CoreAssumption
  <1> DEFINE cut == [major |-> s.list.major, lo |-> s.list.hi - Tail, hi |-> s.list.hi]
             w == bumpMinor(s.v)
  <1>1. CASE Tail > 0 /\ CountItems(s.list) > Tail
    <2>1. s.list \in Snap /\ s.v \in CoordState
      BY DEF HandlerState
    <2>2. cut \in Snap /\ CountItems(cut) = Tail
      BY <1>1, <2>1 DEF Snap, CountItems
    <2>3. [s.list EXCEPT !.lo = s.list.hi - Tail] = cut
      BY <2>1 DEF Snap
    <2>4. t = [v |-> w, patterns |-> s.patterns, list |-> cut]
      BY <1>1, <2>3 DEF HandlerState, TrimList
    <2> HIDE DEF w
    <2>5. /\ w \in CoordState
          /\ w.inputRev = [major |-> s.v.inputRev.major, minor |-> s.v.inputRev.minor + 1]
          /\ SameReader(s.v, w) /\ SameSnap(s.v, w) /\ SameSearch(s.v, w)
          /\ w.useSnapshot = s.v.useSnapshot
      BY <2>1, BumpFacts DEF w
    <2>6. Trims(s.list, cut, s.v.inputRev, w.inputRev)
      BY <1>1, <2>5 DEF Trims
    <2> HIDE DEF cut
    <2> QED
      BY <2>2, <2>4, <2>5, <2>6 DEF HandlerState
  <1>2. CASE ~(Tail > 0 /\ CountItems(s.list) > Tail)
    <2>1. t = s
      BY <1>2 DEF TrimList
    <2>2. CountItems(s.list) \in Int
      BY DEF HandlerState, Snap, CountItems
    <2> QED
      BY <1>2, <2>1, <2>2 DEF Trims, SameReader, SameSnap, SameSearch
  <1> QED
    BY <1>1, <1>2

\* UseList
LEMMA UseFacts ==
  ASSUME NEW s \in HandlerState, NEW t, t = UseList(s)
  PROVE  /\ t \in HandlerState /\ t.list = s.list /\ t.patterns = s.patterns
         /\ t.v.snap = s.list /\ t.v.snapRev = s.v.inputRev /\ t.v.inputRev = s.v.inputRev
         /\ SameReader(s.v, t.v) /\ SameSearch(s.v, t.v)
         /\ t.v.useSnapshot = s.v.useSnapshot
  <1> DEFINE w == [s.v EXCEPT !.snap = s.list, !.snapRev = s.v.inputRev]
  <1>1. t = [v |-> w, patterns |-> s.patterns, list |-> s.list]
    BY DEF HandlerState, CoordState, UseList
  <1>2. w \in CoordState /\ w.snap = s.list /\ w.snapRev = s.v.inputRev
    BY DEF HandlerState, CoordState
  <1>3. w.inputRev = s.v.inputRev /\ SameReader(s.v, w)
    BY DEF HandlerState, CoordState, SameReader
  <1>4. w.useSnapshot = s.v.useSnapshot /\ SameSearch(s.v, w)
    BY DEF HandlerState, CoordState, SameSearch
  <1> HIDE DEF w
  <1> QED
    BY <1>1, <1>2, <1>3, <1>4 DEF HandlerState

\* restart: t is what is left of s once the command c starts a session
Restarts(s, t, c, major) ==
  /\ t \in HandlerState
  /\ t.list = [major |-> major, lo |-> 0, hi |-> 0]
  /\ t.v.inputRev = [major |-> major, minor |-> 0]
  /\ t.v.reading /\ t.v.next = 0 /\ t.v.command = c
  /\ SameSnap(s.v, t.v) /\ t.v.useSnapshot = s.v.useSnapshot
  /\ t.v.sort = s.v.sort /\ t.v.nth = s.v.nth
  /\ t.v.deny = IF s.v.useSnapshot THEN s.v.deny ELSE {}
  /\ Fresh(s) => Fresh(t)

\* restart, with the snapshot that Run searches left as it is
LEMMA RestartedFacts ==
  ASSUME NEW s \in HandlerState, NEW c \in Session,
         NEW major \in Session, major = s.v.inputRev.major + 1,
         NEW t, t = Restarted(s, c)
  PROVE  Restarts(s, t, c, major)
  <1> DEFINE u == IF s.v.useSnapshot THEN s ELSE clearDenylist(s)
             rev == [major |-> major, minor |-> 0]
             empty == [major |-> major, lo |-> 0, hi |-> 0]
             w == [u.v EXCEPT !.reading = TRUE, !.killed = FALSE, !.command = c, !.next = 0,
                              !.inputRev = rev]
  <1>1. u \in HandlerState /\ (Fresh(s) => Fresh(u))
    BY ClearFacts
  <1>2. /\ u.v.snap = s.v.snap /\ u.v.snapRev = s.v.snapRev /\ u.v.useSnapshot = s.v.useSnapshot
        /\ u.v.sort = s.v.sort /\ u.v.nth = s.v.nth
    BY ClearFacts, ZenonT(60) DEF HandlerState, CoordState
  <1>3. u.v.deny = IF s.v.useSnapshot THEN s.v.deny ELSE {}
    BY ClearFacts DEF HandlerState, CoordState
  <1>4. empty \in Snap /\ rev \in Revision /\ 0 \in Session
    BY CoreAssumption DEF Snap, Revision, Session
  <1>5. t = [u EXCEPT !.list = empty, !.v = w]
    BY <1>1 DEF HandlerState, CoordState, Restarted
  <1> HIDE DEF u, rev, empty
  <1>6. w \in CoordState
    BY <1>1, <1>4 DEF HandlerState, CoordState
  <1>7. w.reading = TRUE /\ w.next = 0 /\ w.command = c /\ w.inputRev = rev
    BY <1>1 DEF HandlerState, CoordState
  <1>8. SameSnap(u.v, w) /\ w.useSnapshot = u.v.useSnapshot
    BY <1>1 DEF HandlerState, CoordState, SameSnap
  <1>9. SameSearch(u.v, w)
    BY <1>1 DEF HandlerState, CoordState, SameSearch
  <1> HIDE DEF w
  <1>10. t = [v |-> w, patterns |-> u.patterns, list |-> empty]
    BY <1>1, <1>5 DEF HandlerState
  <1>11. t \in HandlerState
    BY <1>1, <1>4, <1>6, <1>10 DEF HandlerState
  <1>12. Fresh(s) => Fresh(t)
    BY <1>1, <1>9, <1>10 DEF Fresh, SameSearch
  <1> QED
    BY <1>2, <1>3, <1>7, <1>8, <1>9, <1>10, <1>11, <1>12
    DEF Restarts, SameSnap, SameSearch, rev, empty

\* BuildPattern: the pattern of a query, whether it is found or built
LEMMA PatternForIs ==
  ASSUME NEW s \in HandlerState, NEW q \in Query, Fresh(s)
  PROVE  /\ PatternFor(s, q) = [query |-> q, nth |-> s.v.nth, deny |-> s.v.deny]
         /\ PatternFor(s, q) \in Pattern
  BY DEF PatternFor, Fresh, HandlerState, Pattern, CoordState

\* What the patterns exclude once a searchRequest is applied
Excluding(r) == IF Excludes(r) THEN coord.deny \cup r.deny ELSE coord.deny

\* The revision of the input then
RevisionFor(r) ==
  IF Excludes(r) \/ r.nth >= 0
  THEN [major |-> coord.inputRev.major, minor |-> coord.inputRev.minor + 1] ELSE coord.inputRev

\* A searchRequest, before its command is looked at
LEMMA AppliedFacts ==
  ASSUME TypeOK, PatternsFresh, NEW r \in SearchRequest, NEW s, s = Applied(r)
  PROVE  /\ s \in HandlerState /\ s.list = list
         /\ SameReader(coord, s.v) /\ SameSnap(coord, s.v)
         /\ s.v.sort = r.sort
         /\ s.v.nth = IF r.nth >= 0 THEN r.nth ELSE coord.nth
         /\ s.v.deny = Excluding(r)
         /\ s.v.useSnapshot = IF r.command # 0 THEN r.sync ELSE coord.useSnapshot
         /\ s.v.inputRev = RevisionFor(r)
         /\ Fresh(s)
  <1> DEFINE w == Requested(r)
             nth == IF r.nth >= 0 THEN r.nth ELSE coord.nth
             sync == IF r.command # 0 THEN r.sync ELSE coord.useSnapshot
  <1>1. coord \in CoordState /\ patterns \subseteq Pattern /\ list \in Snap
    BY DEF TypeOK, CoordTypes, BoxTypes
  <1>2. nth \in 0 .. 1 /\ sync \in BOOLEAN /\ r.sort \in BOOLEAN /\ Excluding(r) \in SUBSET Session
    BY <1>1 DEF SearchRequest, CoordState, Excluding
  <1>3. w = [coord EXCEPT !.sort = r.sort, !.deny = Excluding(r), !.nth = nth, !.useSnapshot = sync]
    BY <1>1 DEF CoordState, Requested, Excluding
  <1>4. r.nth < 0 => nth = coord.nth
    BY DEF SearchRequest
  <1>5. s = IF Excludes(r) \/ r.nth >= 0
            THEN [v |-> bumpMinor(w), patterns |-> {}, list |-> list]
            ELSE [v |-> w, patterns |-> patterns, list |-> list]
    BY DEF Applied, Start
  <1> HIDE DEF nth, sync, w
  <1>6. w \in CoordState
    BY <1>1, <1>2, <1>3 DEF CoordState
  <1>7. SameReader(coord, w) /\ SameSnap(coord, w)
    BY <1>1, <1>3 DEF CoordState, SameReader, SameSnap
  <1>8. /\ w.sort = r.sort /\ w.nth = nth /\ w.deny = Excluding(r) /\ w.useSnapshot = sync
        /\ w.inputRev = coord.inputRev
    BY <1>1, <1>3 DEF CoordState
  <1>9. CASE Excludes(r) \/ r.nth >= 0
    <2> DEFINE b == bumpMinor(w)
    <2>1. s = [v |-> b, patterns |-> {}, list |-> list]
      BY <1>5, <1>9
    <2>2. /\ b \in CoordState
          /\ b.inputRev = [major |-> w.inputRev.major, minor |-> w.inputRev.minor + 1]
          /\ SameReader(w, b) /\ SameSnap(w, b) /\ SameSearch(w, b)
          /\ b.useSnapshot = w.useSnapshot
      BY <1>6, BumpFacts
    <2> HIDE DEF b
    <2>3. s \in HandlerState /\ Fresh(s)
      BY <1>1, <2>1, <2>2 DEF HandlerState, Fresh
    <2>4. SameReader(coord, b) /\ SameSnap(coord, b)
      BY <1>7, <2>2 DEF SameReader, SameSnap
    <2>5. b.inputRev = RevisionFor(r)
      BY <1>8, <1>9, <2>2 DEF RevisionFor
    <2> QED
      BY <1>8, <2>1, <2>2, <2>3, <2>4, <2>5 DEF SameSearch, nth, sync
  <1>10. CASE ~Excludes(r) /\ ~(r.nth >= 0)
    <2>1. s = [v |-> w, patterns |-> patterns, list |-> list] /\ s \in HandlerState
      BY <1>1, <1>5, <1>6, <1>10 DEF HandlerState
    <2>2. r.nth < 0
      BY <1>10 DEF SearchRequest
    <2>3. nth = coord.nth /\ w.deny = coord.deny
      BY <1>4, <1>8, <1>10, <2>2 DEF Excluding
    <2>4. Fresh(s)
      BY <1>8, <2>1, <2>3 DEF Fresh, PatternsFresh
    <2>5. w.inputRev = RevisionFor(r)
      BY <1>8, <1>10 DEF RevisionFor
    <2> QED
      BY <1>7, <1>8, <2>1, <2>3, <2>4, <2>5 DEF nth, sync
  <1> QED
    BY <1>9, <1>10

\* The command of a searchRequest: nothing, the running one is told to end, or a new one started
LEMMA CommandedFacts ==
  ASSUME NEW s \in HandlerState, NEW r \in SearchRequest, NEW t, t = Commanded(s, r),
         NEW major, major = s.v.inputRev.major + 1,
         r.command # 0 /\ ~s.v.reading => major \in Session
  PROVE  /\ t \in HandlerState
         /\ SameSnap(s.v, t.v) /\ t.v.useSnapshot = s.v.useSnapshot
         /\ t.v.sort = s.v.sort /\ t.v.nth = s.v.nth
         /\ IF r.command # 0 /\ ~s.v.reading
            THEN /\ t.list = [major |-> major, lo |-> 0, hi |-> 0]
                 /\ t.v.inputRev = [major |-> major, minor |-> 0]
                 /\ t.v.reading /\ t.v.next = 0 /\ t.v.command = r.command
                 /\ t.v.deny = IF s.v.useSnapshot THEN s.v.deny ELSE {}
            ELSE /\ t.list = s.list /\ t.v.inputRev = s.v.inputRev /\ t.v.deny = s.v.deny
                 /\ t.v.reading = s.v.reading /\ t.v.command = s.v.command
                 /\ t.v.next = IF r.command # 0 THEN r.command ELSE s.v.next
         /\ Fresh(s) => Fresh(t)
  <1>1. r.command \in Session /\ s.v \in CoordState
    BY DEF SearchRequest, HandlerState
  <1>2. CASE r.command = 0
    BY <1>2 DEF Commanded, SameSnap
  <1>3. CASE r.command # 0 /\ s.v.reading
    <2> DEFINE w == [s.v EXCEPT !.killed = TRUE, !.next = r.command]
    <2>1. t = [v |-> w, patterns |-> s.patterns, list |-> s.list]
      BY <1>1, <1>3 DEF Commanded, HandlerState, CoordState
    <2>2. w \in CoordState
      BY <1>1 DEF CoordState
    <2>3. SameSnap(s.v, w) /\ w.useSnapshot = s.v.useSnapshot /\ w.inputRev = s.v.inputRev
      BY <1>1 DEF CoordState, SameSnap
    <2>4. SameSearch(s.v, w)
      BY <1>1 DEF CoordState, SameSearch
    <2>5. w.reading = s.v.reading /\ w.command = s.v.command /\ w.next = r.command
      BY <1>1 DEF CoordState
    <2> HIDE DEF w
    <2>6. t \in HandlerState /\ (Fresh(s) => Fresh(t))
      BY <2>1, <2>2, <2>4 DEF HandlerState, Fresh, SameSearch
    <2>7. t.v = w /\ t.list = s.list
      BY <2>1
    <2> QED
      BY <1>3, <2>3, <2>4, <2>5, <2>6, <2>7, Zenon DEF SameSearch
  <1>4. CASE r.command # 0 /\ ~s.v.reading
    <2>1. t = Restarted(s, r.command)
      BY <1>4 DEF Commanded
    <2>2. major \in Session
      BY <1>4
    <2>3. Restarts(s, t, r.command, major)
      BY <1>1, <2>1, <2>2, RestartedFacts
    <2> QED
      BY <1>4, <2>3, Zenon DEF Restarts
  <1> QED
    BY <1>2, <1>3, <1>4

\* The list that is searched for a searchRequest
LEMMA SearchedListFacts ==
  ASSUME NEW s \in HandlerState, NEW r, NEW t, t = SearchedList(s, r)
  PROVE  /\ t \in HandlerState /\ t.patterns = s.patterns
         /\ SameReader(s.v, t.v) /\ SameSearch(s.v, t.v) /\ t.v.useSnapshot = s.v.useSnapshot
         /\ s.v.useSnapshot \/ ~r.changed => t = s
         /\ ~s.v.useSnapshot /\ r.changed =>
              /\ Trims(s.list, t.list, s.v.inputRev, t.v.inputRev)
              /\ Tail > 0 => CountItems(t.list) <= Tail
              /\ IF r.command = 0 \/ CountItems(t.list) > 0
                 THEN t.v.snap = t.list /\ t.v.snapRev = t.v.inputRev
                 ELSE SameSnap(s.v, t.v)
  <1>1. CASE s.v.useSnapshot \/ ~r.changed
    BY <1>1 DEF SearchedList, SameReader, SameSearch
  <1>2. CASE ~(s.v.useSnapshot \/ ~r.changed)
    <2> DEFINE u == TrimList(s)
    <2>1. /\ u \in HandlerState
          /\ Trims(s.list, u.list, s.v.inputRev, u.v.inputRev)
          /\ Tail > 0 => CountItems(u.list) <= Tail
          /\ SameReader(s.v, u.v) /\ SameSnap(s.v, u.v) /\ SameSearch(s.v, u.v)
          /\ u.v.useSnapshot = s.v.useSnapshot
          /\ u.patterns = s.patterns
      BY TrimFacts
    <2>2. t = IF r.command = 0 \/ CountItems(u.list) > 0 THEN UseList(u) ELSE u
      BY <1>2 DEF SearchedList
    <2> HIDE DEF u
    <2>3. CASE r.command = 0 \/ CountItems(u.list) > 0
      <3>1. t = UseList(u)
        BY <2>2, <2>3
      <3>2. /\ t \in HandlerState /\ t.list = u.list /\ t.patterns = u.patterns
            /\ t.v.snap = u.list /\ t.v.snapRev = u.v.inputRev /\ t.v.inputRev = u.v.inputRev
            /\ SameReader(u.v, t.v) /\ SameSearch(u.v, t.v)
            /\ t.v.useSnapshot = u.v.useSnapshot
        BY <2>1, <3>1, UseFacts
      <3> QED
        BY <1>2, <2>1, <2>3, <3>2 DEF SameReader, SameSearch
    <2>4. CASE ~(r.command = 0 \/ CountItems(u.list) > 0)
      <3>1. t = u
        BY <2>2, <2>4
      <3> QED
        BY <1>2, <2>1, <2>4, <3>1
    <2> QED
      BY <2>3, <2>4
  <1> QED
    BY <1>1, <1>2

-----------------------------------------------------------------------------
(* What is known of every state *)

\* The events of the box that are not handled yet
Pending == IF batch = {} \/ "SearchNew" \in batch THEN box.searchNew ELSE {}
Answered == IF batch = {} \/ "SearchFin" \in batch THEN box.searchFin ELSE {}

\* Where the reader and the coordinator are with each other
Reading ==
  /\ reader # "done" => coord.reading
  /\ coord.next # 0 \/ coord.useSnapshot => coord.reading
  /\ dirty => reader # "done"
  /\ "ReadFin" \in batch => box.readFin
  /\ box.readFin /\ (batch = {} \/ "ReadFin" \in batch) => reader = "done" /\ coord.reading
  /\ reader = "done" /\ coord.reading => box.readFin /\ (batch = {} \/ "ReadFin" \in batch)
  /\ list.major = coord.inputRev.major
  /\ batch = {} \/ "Clear" \in batch

\* Commands are numbered in the order of the user's reloads, and each starts one session at most
Commands ==
  /\ coord.inputRev.major <= coord.command
  /\ coord.command <= terminal.command /\ terminal.command <= terminal.ops
  /\ coord.next # 0 => coord.command < coord.next /\ coord.next <= terminal.command
  /\ \A r \in outgoing \cup Pending : r.command # 0 =>
       coord.command < r.command /\ coord.next < r.command /\ r.command <= terminal.command
  /\ \A r \in Pending, o \in outgoing : o.command # 0 => r.command < o.command

\* The first layer of the invariant
Sound == TypeOK /\ PatternsFresh /\ Reading /\ Commands

\* The request for the newest query, list and pattern
Target == [snap |-> coord.snap,
           pattern |-> [query |-> terminal.query, nth |-> coord.nth, deny |-> coord.deny],
           final |-> ~coord.reading, sort |-> coord.sort, revision |-> coord.snapRev]

\* Reset: the mailbox of the matcher holds Target as its newest request.
Asks(kind) == reqBox' = [reqBox EXCEPT !.last = kind, ![kind] = {Target'}]

\* What the handlers do, by variable
AfterHandler(e) ==
  /\ e \in batch /\ batch' = batch \ {e}
  /\ coord' \in CoordState /\ list' \in Snap /\ patterns' \subseteq Pattern /\ PatternsFresh'
  /\ UNCHANGED <<box, matcher, dropped, terminal, outgoing>>

\* restart: the list is emptied and the reader started for the command.
NewSession(command) ==
  /\ coord.inputRev.major + 1 \in Session
  /\ list' = [major |-> coord.inputRev.major + 1, lo |-> 0, hi |-> 0]
  /\ coord'.inputRev = [major |-> coord.inputRev.major + 1, minor |-> 0]
  /\ coord'.reading /\ coord'.next = 0 /\ coord'.command = command
  /\ reader' = "run" /\ ~dirty'

\* EvtReadFin of a reader that was told to end: the command that waits starts.
AfterKilledFin ==
  /\ AfterHandler("ReadFin")
  /\ coord.next # 0
  /\ NewSession(coord.next)
  /\ SameSnap(coord, coord')
  /\ coord'.useSnapshot = coord.useSnapshot
  /\ coord'.sort = coord.sort /\ coord'.nth = coord.nth
  /\ coord'.deny = IF coord.useSnapshot THEN coord.deny ELSE {}
  /\ UNCHANGED <<reqBox, shown>>

\* What a handler starts from has the types of the state.
LEMMA SnapshotPart == TypeOK => Start \in HandlerState
  BY DEF TypeOK, CoordTypes, BoxTypes, Start, HandlerState

\* EvtReadFin of a reader that was told to end starts the command that waits.
LEMMA KilledFinFacts == Sound /\ HandleKilledFin => AfterKilledFin
  <1> SUFFICES ASSUME Sound, HandleKilledFin PROVE AfterKilledFin
    OBVIOUS
  <1> DEFINE s == Restarted(Start, coord.next)
             major == coord.inputRev.major + 1
  <1>1. Start \in HandlerState /\ coord \in CoordState /\ terminal.ops \in 0 .. MaxOps
    BY SnapshotPart DEF Sound, TypeOK, CoordTypes, TerminalTypes
  <1>2. coord.next # 0 /\ coord.next \in Session
    BY <1>1 DEF HandleKilledFin, CoordState
  <1>3. major \in Session
    BY <1>1, <1>2, CoreAssumption DEF Sound, Commands, TypeOK, TerminalTypes, CoordState,
       Revision, Session
  <1>4. Start.v = coord /\ Start.patterns = patterns /\ Start.list = list
    BY DEF Start
  <1>5. Fresh(Start)
    BY <1>4 DEF Sound, PatternsFresh, Fresh
  <1> HIDE DEF major
  <1>6. major = Start.v.inputRev.major + 1
    BY <1>4 DEF major
  <1> HIDE DEF s
  <1>7. Restarts(Start, s, coord.next, major)
    BY <1>1, <1>2, <1>3, <1>6, RestartedFacts DEF s
  <1>8. /\ s \in HandlerState
        /\ s.list = [major |-> major, lo |-> 0, hi |-> 0]
        /\ s.v.inputRev = [major |-> major, minor |-> 0]
        /\ s.v.reading /\ s.v.next = 0 /\ s.v.command = coord.next
        /\ SameSnap(coord, s.v) /\ s.v.useSnapshot = coord.useSnapshot
        /\ s.v.sort = coord.sort /\ s.v.nth = coord.nth
        /\ s.v.deny = IF coord.useSnapshot THEN coord.deny ELSE {}
        /\ Fresh(s)
    BY <1>4, <1>5, <1>7 DEF Restarts
  <1>9. /\ "ReadFin" \in batch /\ batch' = batch \ {"ReadFin"}
        /\ coord' = s.v /\ list' = s.list /\ patterns' = s.patterns
        /\ UNCHANGED <<reqBox, termVars, box, matcher, dropped>>
        /\ reader' = "run" /\ dirty' = FALSE
    BY DEF HandleKilledFin, Handle, NoReset, s
  <1>10. AfterHandler("ReadFin")
    BY <1>8, <1>9 DEF AfterHandler, HandlerState, Fresh, PatternsFresh, termVars
  <1>11. NewSession(coord.next)
    BY <1>3, <1>8, <1>9 DEF NewSession, major
  <1> QED
    BY <1>2, <1>8, <1>9, <1>10, <1>11 DEF AfterKilledFin, termVars

\* EvtReadNew and EvtReadFin: new items, or the end of the input
AfterRead(e) ==
  /\ AfterHandler(e)
  /\ e = "ReadFin" => coord.next = 0
  /\ coord'.reading = (coord.reading /\ e # "ReadFin")
  /\ coord'.next = coord.next /\ coord'.command = coord.command
  /\ coord'.sort = coord.sort /\ coord'.nth = coord.nth
  /\ coord'.useSnapshot = (coord.useSnapshot /\ e # "ReadFin")
  /\ coord'.deny = IF coord.useSnapshot /\ e = "ReadFin" THEN {} ELSE coord.deny
  /\ IF coord'.useSnapshot
     THEN /\ list' = list /\ coord'.inputRev = coord.inputRev /\ SameSnap(coord, coord')
          /\ reqBox' = reqBox
     ELSE /\ Trims(list, list', coord.inputRev, coord'.inputRev)
          /\ Tail > 0 => CountItems(list') <= Tail
          /\ coord'.snap = list' /\ coord'.snapRev = coord'.inputRev
          /\ Asks("retry")
  /\ UNCHANGED <<reader, dirty, shown>>

\* Reset asks for what the variables of Run say now
LEMMA ResetFacts ==
  ASSUME NEW s \in HandlerState, Fresh(s), Reset(s, "retry") \/ Reset(s, "reset"), TypeOK,
         UNCHANGED terminal, coord' = s.v
  PROVE  /\ patterns' \subseteq Pattern /\ PatternsFresh'
         /\ Reset(s, "retry") => Asks("retry")
         /\ Reset(s, "reset") => Asks("reset")
  <1> DEFINE p == PatternFor(s, terminal.query)
  <1>1. terminal.query \in Query
    BY DEF TypeOK, TerminalTypes
  <1>2. /\ p = [query |-> terminal.query, nth |-> s.v.nth, deny |-> s.v.deny]
        /\ p \in Pattern
    BY <1>1, PatternForIs
  <1>3. patterns' = s.patterns \cup {p}
    BY DEF Reset
  <1>4. Target' = [snap |-> s.v.snap, pattern |-> p, final |-> ~s.v.reading, sort |-> s.v.sort,
                   revision |-> s.v.snapRev]
    BY <1>2 DEF Target
  <1>5. Reset(s, "retry") => Asks("retry")
    BY <1>4 DEF Reset, Asks
  <1>6. Reset(s, "reset") => Asks("reset")
    BY <1>4 DEF Reset, Asks
  <1> HIDE DEF p
  <1> QED
    BY <1>2, <1>3, <1>5, <1>6 DEF HandlerState, Fresh, PatternsFresh

\* The handler of EvtReadNew and EvtReadFin is what AfterRead says.
LEMMA ReadFacts ==
  ASSUME Sound, NEW e \in {"ReadNew", "ReadFin"}, HandleRead(e)
  PROVE  AfterRead(e)
  <1> DEFINE fin == e = "ReadFin"
             w == [coord EXCEPT !.reading = @ /\ ~fin]
             s1 == [Start EXCEPT !.v.reading = @ /\ ~fin]
             s2 == IF coord.useSnapshot /\ fin
                   THEN [clearDenylist(s1) EXCEPT !.v.useSnapshot = FALSE] ELSE s1
             s3 == IF s2.v.useSnapshot THEN s2 ELSE UseList(TrimList(s2))
  <1>1. Start \in HandlerState /\ coord \in CoordState
    BY SnapshotPart DEF Sound, TypeOK, CoordTypes
  <1>2. s1 = [v |-> w, patterns |-> patterns, list |-> list]
    BY DEF Start
  <1>3. w \in CoordState
    BY <1>1 DEF CoordState
  <1>4. /\ SameSnap(coord, w) /\ SameSearch(coord, w) /\ w.useSnapshot = coord.useSnapshot
        /\ w.reading = (coord.reading /\ ~fin) /\ w.next = coord.next /\ w.command = coord.command
        /\ w.inputRev = coord.inputRev
    BY <1>1 DEF CoordState, SameSnap, SameSearch
  <1> HIDE DEF w
  <1>5. s1 \in HandlerState /\ Fresh(s1)
    <2>1. patterns \subseteq Pattern /\ list \in Snap /\ PatternsFresh
      BY DEF Sound, TypeOK, CoordTypes, BoxTypes
    <2> QED
      BY <1>2, <1>3, <1>4, <2>1 DEF HandlerState, Fresh, PatternsFresh, SameSearch
  <1>6. s1.v = w /\ s1.patterns = patterns /\ s1.list = list
    BY <1>2
  <1> HIDE DEF s1
  <1>7. /\ s2 \in HandlerState /\ Fresh(s2) /\ s2.list = list
        /\ SameSnap(coord, s2.v) /\ SameReader(w, s2.v) /\ s2.v.inputRev = coord.inputRev
        /\ s2.v.sort = coord.sort /\ s2.v.nth = coord.nth
        /\ s2.v.useSnapshot = (coord.useSnapshot /\ ~fin)
        /\ s2.v.deny = IF coord.useSnapshot /\ fin THEN {} ELSE coord.deny
    <2>1. CASE coord.useSnapshot /\ fin
      <3> DEFINE c == clearDenylist(s1)
                 x == [w EXCEPT !.deny = {}, !.useSnapshot = FALSE]
      <3>1. c \in HandlerState /\ c.list = list /\ c.v = [w EXCEPT !.deny = {}] /\ Fresh(c)
        BY <1>5, <1>6, ClearFacts
      <3> HIDE DEF c
      <3>2. s2 = [c EXCEPT !.v.useSnapshot = FALSE]
        BY <2>1 DEF c
      <3>3. [c.v EXCEPT !.useSnapshot = FALSE] = x
        BY <1>3, <3>1 DEF CoordState
      <3>4. s2 = [v |-> x, patterns |-> c.patterns, list |-> list]
        BY <3>1, <3>2, <3>3 DEF HandlerState
      <3>5. x \in CoordState
        BY <1>3 DEF CoordState
      <3>6. /\ SameSnap(w, x) /\ SameReader(w, x) /\ x.inputRev = w.inputRev
            /\ x.sort = w.sort /\ x.nth = w.nth
        BY <1>3 DEF CoordState, SameSnap, SameReader
      <3>7. ~x.useSnapshot /\ x.deny = {}
        BY <1>3 DEF CoordState
      <3>8. c.v.nth = w.nth /\ c.v.deny = {}
        BY <1>3, <3>1 DEF CoordState
      <3> HIDE DEF x, s2
      <3>9. s2 \in HandlerState /\ Fresh(s2)
        BY <3>1, <3>4, <3>5, <3>6, <3>7, <3>8 DEF HandlerState, Fresh
      <3>10. s2.v = x /\ s2.list = list
        BY <3>4
      <3>11. SameSnap(coord, s2.v) /\ s2.v.inputRev = coord.inputRev
        BY <1>4, <3>6, <3>10 DEF SameSnap
      <3>12. s2.v.sort = coord.sort /\ s2.v.nth = coord.nth
        BY <1>4, <3>6, <3>10 DEF SameSearch
      <3>13. x.useSnapshot \in BOOLEAN
        BY <3>5 DEF CoordState
      <3>14. s2.v.useSnapshot = (coord.useSnapshot /\ ~fin)
        BY <2>1, <3>7, <3>10, <3>13
      <3> QED
        BY <2>1, <3>6, <3>7, <3>9, <3>10, <3>11, <3>12, <3>14
    <2>2. CASE ~(coord.useSnapshot /\ fin)
      <3>1. s2 = s1
        BY <2>2
      <3>2. coord.useSnapshot \in BOOLEAN
        BY <1>1 DEF CoordState
      <3> QED
        BY <1>4, <1>5, <1>6, <2>2, <3>1, <3>2 DEF SameReader, SameSearch
    <2> QED
      BY <2>1, <2>2
  <1>8. s2.v.useSnapshot \in BOOLEAN /\ s2.v \in CoordState
    BY <1>7 DEF HandlerState, CoordState
  <1>9. /\ fin => coord.next = 0
        /\ Handle(e, s3)
        /\ IF s3.v.useSnapshot THEN NoReset(s3) ELSE Reset(s3, "retry")
        /\ UNCHANGED <<termVars, reader, dirty, box, matcher>>
    BY DEF HandleRead, s1
  <1> HIDE DEF s2
  <1>10. /\ s3 \in HandlerState /\ Fresh(s3)
         /\ SameReader(w, s3.v) /\ s3.v.sort = coord.sort /\ s3.v.nth = coord.nth
         /\ s3.v.useSnapshot = s2.v.useSnapshot /\ s3.v.deny = s2.v.deny
         /\ IF s3.v.useSnapshot
            THEN s3.list = list /\ s3.v.inputRev = coord.inputRev /\ SameSnap(coord, s3.v)
            ELSE /\ Trims(list, s3.list, coord.inputRev, s3.v.inputRev)
                 /\ Tail > 0 => CountItems(s3.list) <= Tail
                 /\ s3.v.snap = s3.list /\ s3.v.snapRev = s3.v.inputRev
    <2>1. CASE s2.v.useSnapshot
      <3>1. s3 = s2
        BY <2>1
      <3> QED
        BY <1>7, <2>1, <3>1
    <2>2. CASE ~s2.v.useSnapshot
      <3> DEFINE u == TrimList(s2)
      <3>1. /\ u \in HandlerState
            /\ Trims(s2.list, u.list, s2.v.inputRev, u.v.inputRev)
            /\ Tail > 0 => CountItems(u.list) <= Tail
            /\ SameReader(s2.v, u.v) /\ SameSnap(s2.v, u.v) /\ SameSearch(s2.v, u.v)
            /\ u.v.useSnapshot = s2.v.useSnapshot
            /\ u.patterns = s2.patterns
        BY <1>7, TrimFacts
      <3> HIDE DEF u
      <3>2. s3 = UseList(u)
        BY <2>2 DEF u
      <3> HIDE DEF s3
      <3>3. /\ s3 \in HandlerState /\ s3.list = u.list /\ s3.patterns = u.patterns
            /\ s3.v.snap = u.list /\ s3.v.snapRev = u.v.inputRev /\ s3.v.inputRev = u.v.inputRev
            /\ SameReader(u.v, s3.v) /\ SameSearch(u.v, s3.v)
            /\ s3.v.useSnapshot = u.v.useSnapshot
        BY <3>1, <3>2, UseFacts
      <3>4. Fresh(s3)
        BY <1>7, <3>1, <3>3 DEF Fresh, SameSearch
      <3>5. SameReader(w, s3.v)
        BY <1>7, <3>1, <3>3 DEF SameReader
      <3>6. s3.v.sort = coord.sort /\ s3.v.nth = coord.nth /\ s3.v.deny = s2.v.deny
        BY <1>7, <3>1, <3>3 DEF SameSearch
      <3> QED
        BY <1>7, <2>2, <3>1, <3>3, <3>4, <3>5, <3>6
    <2> QED
      BY <2>1, <2>2
  <1> HIDE DEF s3
  <1>11. /\ e \in batch /\ batch' = batch \ {e} /\ coord' = s3.v /\ list' = s3.list
         /\ UNCHANGED <<dropped, termVars, reader, dirty, box, matcher>>
    BY <1>9 DEF Handle
  <1>12. /\ patterns' \subseteq Pattern /\ PatternsFresh'
         /\ IF s3.v.useSnapshot THEN reqBox' = reqBox ELSE Asks("retry")
    <2>1. CASE s3.v.useSnapshot
      BY <1>9, <1>10, <1>11, <2>1 DEF NoReset, HandlerState, Fresh, PatternsFresh
    <2>2. CASE ~s3.v.useSnapshot
      <3>1. Reset(s3, "retry") /\ UNCHANGED terminal
        BY <1>9, <2>2 DEF termVars
      <3> QED
        BY <1>10, <1>11, <2>2, <3>1, ResetFacts DEF Sound
    <2> QED
      BY <2>1, <2>2
  <1>13. AfterHandler(e)
    BY <1>10, <1>11, <1>12 DEF AfterHandler, HandlerState, termVars
  <1>14. /\ coord'.reading = (coord.reading /\ ~fin) /\ coord'.next = coord.next
         /\ coord'.command = coord.command
    BY <1>4, <1>10, <1>11 DEF SameReader
  <1>15. /\ coord'.useSnapshot = (coord.useSnapshot /\ ~fin)
         /\ coord'.deny = IF coord.useSnapshot /\ fin THEN {} ELSE coord.deny
    BY <1>7, <1>10, <1>11
  <1>16. UNCHANGED <<reader, dirty, shown>>
    BY <1>11 DEF termVars
  <1> QED
    BY <1>9, <1>10, <1>11, <1>12, <1>13, <1>14, <1>15, <1>16 DEF AfterRead

\* EvtSearchNew: what the user has done
AfterSearch(r) ==
  /\ AfterHandler("SearchNew")
  /\ r \in box.searchNew
  /\ coord'.sort = r.sort
  /\ coord'.nth = IF r.nth >= 0 THEN r.nth ELSE coord.nth
  /\ coord'.useSnapshot = IF r.command # 0 THEN r.sync ELSE coord.useSnapshot
  /\ IF r.command # 0 /\ ~coord.reading
     THEN /\ NewSession(r.command) /\ SameSnap(coord, coord')
          /\ coord'.deny = IF r.sync THEN Excluding(r) ELSE {}
     ELSE /\ coord'.reading = coord.reading /\ coord'.command = coord.command
          /\ coord'.next = IF r.command # 0 THEN r.command ELSE coord.next
          /\ coord'.deny = Excluding(r)
          /\ IF coord'.useSnapshot \/ ~r.changed
             THEN list' = list /\ coord'.inputRev = RevisionFor(r) /\ SameSnap(coord, coord')
             ELSE /\ Trims(list, list', RevisionFor(r), coord'.inputRev)
                  /\ Tail > 0 => CountItems(list') <= Tail
                  /\ IF r.command = 0 \/ CountItems(list') > 0
                     THEN coord'.snap = list' /\ coord'.snapRev = coord'.inputRev
                     ELSE SameSnap(coord, coord')
          /\ UNCHANGED <<reader, dirty>>
  /\ IF r.changed THEN Asks("reset") ELSE reqBox' = reqBox
  /\ UNCHANGED shown

\* The handler of EvtSearchNew is what AfterSearch says of the request in the box.
LEMMA SearchFacts ==
  ASSUME Sound, HandleSearchNew
  PROVE  \E r \in box.searchNew : AfterSearch(r)
  <1>1. PICK r \in box.searchNew :
          /\ Handle("SearchNew", SearchedList(Commanded(Applied(r), r), r))
          /\ IF r.changed THEN Reset(SearchedList(Commanded(Applied(r), r), r), "reset")
                          ELSE NoReset(SearchedList(Commanded(Applied(r), r), r))
          /\ IF r.command # 0 /\ ~coord.reading
             THEN reader' = "run" /\ dirty' = FALSE ELSE UNCHANGED <<reader, dirty>>
          /\ UNCHANGED <<termVars, box, matcher>>
    BY DEF HandleSearchNew
  <1> DEFINE s == Applied(r)
             t == Commanded(s, r)
             u == SearchedList(t, r)
             major == coord.inputRev.major + 1
  <1>2. /\ coord \in CoordState /\ r \in SearchRequest /\ TypeOK /\ PatternsFresh
        /\ terminal.ops \in 0 .. MaxOps
    BY DEF Sound, TypeOK, CoordTypes, BoxTypes, TerminalTypes
  <1>3. r.command # 0 /\ ~coord.reading => major \in Session
    <2> SUFFICES ASSUME r.command # 0, ~coord.reading PROVE major \in Session
      OBVIOUS
    <2>1. "SearchNew" \in batch
      BY <1>1 DEF Handle
    <2>2. r \in outgoing \cup Pending
      BY <2>1 DEF Pending
    <2>3. coord.command < r.command /\ r.command <= terminal.command
      BY <2>2 DEF Sound, Commands
    <2>4. coord.inputRev.major <= coord.command /\ terminal.command <= terminal.ops
      BY DEF Sound, Commands
    <2>5. /\ coord.inputRev.major \in Session /\ coord.command \in Session /\ r.command \in Session
          /\ terminal.command \in Session
      BY <1>2 DEF CoordState, Revision, SearchRequest, TypeOK, TerminalTypes
    <2> QED
      BY <1>2, <2>3, <2>4, <2>5, CoreAssumption DEF Session
  <1>4. /\ s \in HandlerState /\ s.list = list
        /\ SameReader(coord, s.v) /\ SameSnap(coord, s.v)
        /\ s.v.sort = r.sort
        /\ s.v.nth = IF r.nth >= 0 THEN r.nth ELSE coord.nth
        /\ s.v.deny = Excluding(r)
        /\ s.v.useSnapshot = IF r.command # 0 THEN r.sync ELSE coord.useSnapshot
        /\ s.v.inputRev = RevisionFor(r)
        /\ Fresh(s)
    BY <1>2, AppliedFacts
  <1>5. RevisionFor(r).major = coord.inputRev.major
    BY DEF RevisionFor
  <1> HIDE DEF s, major
  <1>6. major = s.v.inputRev.major + 1
    BY <1>4, <1>5 DEF major
  <1>7. s.v.reading = coord.reading /\ s.v.command = coord.command /\ s.v.next = coord.next
    BY <1>4 DEF SameReader
  <1> HIDE DEF t
  <1>8. /\ t \in HandlerState
        /\ SameSnap(s.v, t.v) /\ t.v.useSnapshot = s.v.useSnapshot
        /\ t.v.sort = s.v.sort /\ t.v.nth = s.v.nth
        /\ IF r.command # 0 /\ ~s.v.reading
           THEN /\ t.list = [major |-> major, lo |-> 0, hi |-> 0]
                /\ t.v.inputRev = [major |-> major, minor |-> 0]
                /\ t.v.reading /\ t.v.next = 0 /\ t.v.command = r.command
                /\ t.v.deny = IF s.v.useSnapshot THEN s.v.deny ELSE {}
           ELSE /\ t.list = s.list /\ t.v.inputRev = s.v.inputRev /\ t.v.deny = s.v.deny
                /\ t.v.reading = s.v.reading /\ t.v.command = s.v.command
                /\ t.v.next = IF r.command # 0 THEN r.command ELSE s.v.next
        /\ Fresh(s) => Fresh(t)
    BY <1>2, <1>3, <1>4, <1>6, <1>7, CommandedFacts DEF t
  <1> HIDE DEF u
  <1>9. /\ u \in HandlerState /\ u.patterns = t.patterns
        /\ SameReader(t.v, u.v) /\ SameSearch(t.v, u.v) /\ u.v.useSnapshot = t.v.useSnapshot
        /\ t.v.useSnapshot \/ ~r.changed => u = t
        /\ ~t.v.useSnapshot /\ r.changed =>
             /\ Trims(t.list, u.list, t.v.inputRev, u.v.inputRev)
             /\ Tail > 0 => CountItems(u.list) <= Tail
             /\ IF r.command = 0 \/ CountItems(u.list) > 0
                THEN u.v.snap = u.list /\ u.v.snapRev = u.v.inputRev
                ELSE SameSnap(t.v, u.v)
    BY <1>8, SearchedListFacts DEF u
  <1>10. /\ "SearchNew" \in batch /\ batch' = batch \ {"SearchNew"} /\ coord' = u.v
         /\ list' = u.list
         /\ UNCHANGED <<dropped, terminal, outgoing, shown, box, matcher>>
    BY <1>1 DEF Handle, termVars, s, t, u
  <1>11. Fresh(u)
    BY <1>4, <1>8, <1>9 DEF Fresh, SameSearch
  <1>12. /\ patterns' \subseteq Pattern /\ PatternsFresh'
         /\ IF r.changed THEN Asks("reset") ELSE reqBox' = reqBox
    <2>1. CASE ~r.changed
      <3>1. NoReset(u)
        BY <1>1, <2>1 DEF s, t, u
      <3> QED
        BY <1>9, <1>10, <1>11, <2>1, <3>1 DEF NoReset, HandlerState, Fresh, PatternsFresh
    <2>2. CASE r.changed
      <3>1. Reset(u, "reset")
        BY <1>1, <2>2 DEF s, t, u
      <3> QED
        BY <1>2, <1>9, <1>10, <1>11, <2>2, <3>1, ResetFacts
    <2> QED
      BY <2>1, <2>2
  <1>13. AfterHandler("SearchNew")
    BY <1>9, <1>10, <1>12 DEF AfterHandler, HandlerState
  <1>14. /\ coord'.sort = r.sort
         /\ coord'.nth = IF r.nth >= 0 THEN r.nth ELSE coord.nth
         /\ coord'.useSnapshot = IF r.command # 0 THEN r.sync ELSE coord.useSnapshot
         /\ coord'.deny = t.v.deny
    BY <1>4, <1>8, <1>9, <1>10 DEF SameSearch
  <1>15. SameSnap(coord, t.v)
    BY <1>4, <1>8 DEF SameSnap
  <1>16. CASE r.command # 0 /\ ~coord.reading
    <2>1. /\ t.list = [major |-> major, lo |-> 0, hi |-> 0]
          /\ t.v.inputRev = [major |-> major, minor |-> 0]
          /\ t.v.reading /\ t.v.next = 0 /\ t.v.command = r.command
          /\ t.v.deny = IF r.sync THEN Excluding(r) ELSE {}
          /\ major \in Session
      BY <1>3, <1>4, <1>7, <1>8, <1>16
    <2>2. CountItems(t.list) = 0
      BY <2>1 DEF CountItems
    <2>3. SameSnap(t.v, u.v) /\ u.list = t.list /\ u.v.inputRev = t.v.inputRev
      <3>1. CASE t.v.useSnapshot \/ ~r.changed
        BY <1>9, <3>1 DEF SameSnap
      <3>2. CASE ~t.v.useSnapshot /\ r.changed
        <4>1. Trims(t.list, u.list, t.v.inputRev, u.v.inputRev)
          BY <1>9, <3>2
        <4>2. u.list = t.list /\ u.v.inputRev = t.v.inputRev
          BY <2>2, <4>1, CoreAssumption DEF Trims
        <4>3. ~(r.command = 0 \/ CountItems(u.list) > 0)
          BY <1>16, <2>2, <4>2
        <4> QED
          BY <1>9, <3>2, <4>2, <4>3
      <3> QED
        BY <1>8, <3>1, <3>2 DEF HandlerState, CoordState
    <2>4. SameSnap(coord, coord')
      BY <1>10, <1>15, <2>3 DEF SameSnap
    <2>5. reader' = "run" /\ ~dirty'
      BY <1>1, <1>16
    <2>6. NewSession(r.command)
      BY <1>9, <1>10, <2>1, <2>3, <2>5 DEF NewSession, SameReader, major
    <2>7. coord'.deny = IF r.sync THEN Excluding(r) ELSE {}
      BY <1>14, <2>1
    <2> QED
      BY <1>10, <1>12, <1>13, <1>14, <1>16, <2>4, <2>6, <2>7 DEF AfterSearch
  <1>17. CASE ~(r.command # 0 /\ ~coord.reading)
    <2>1. /\ t.list = list /\ t.v.inputRev = RevisionFor(r) /\ t.v.deny = Excluding(r)
          /\ t.v.reading = coord.reading /\ t.v.command = coord.command
          /\ t.v.next = IF r.command # 0 THEN r.command ELSE coord.next
      BY <1>4, <1>7, <1>8, <1>17
    <2>2. /\ coord'.reading = coord.reading /\ coord'.command = coord.command
          /\ coord'.next = IF r.command # 0 THEN r.command ELSE coord.next
      BY <1>9, <1>10, <2>1 DEF SameReader
    <2>3. UNCHANGED <<reader, dirty>>
      BY <1>1, <1>17
    <2>4. coord'.useSnapshot = t.v.useSnapshot
      BY <1>9, <1>10
    <2>5. IF coord'.useSnapshot \/ ~r.changed
          THEN list' = list /\ coord'.inputRev = RevisionFor(r) /\ SameSnap(coord, coord')
          ELSE /\ Trims(list, list', RevisionFor(r), coord'.inputRev)
               /\ Tail > 0 => CountItems(list') <= Tail
               /\ IF r.command = 0 \/ CountItems(list') > 0
                  THEN coord'.snap = list' /\ coord'.snapRev = coord'.inputRev
                  ELSE SameSnap(coord, coord')
      <3>1. CASE t.v.useSnapshot \/ ~r.changed
        BY <1>9, <1>10, <1>15, <2>1, <2>4, <3>1
      <3>2. CASE ~(t.v.useSnapshot \/ ~r.changed)
        <4>1. /\ Trims(list, list', RevisionFor(r), coord'.inputRev)
              /\ Tail > 0 => CountItems(list') <= Tail
              /\ IF r.command = 0 \/ CountItems(list') > 0
                 THEN coord'.snap = list' /\ coord'.snapRev = coord'.inputRev
                 ELSE SameSnap(t.v, coord')
          BY <1>9, <1>10, <2>1, <3>2
        <4>2. SameSnap(t.v, coord') => SameSnap(coord, coord')
          BY <1>15 DEF SameSnap
        <4> QED
          BY <2>4, <3>2, <4>1, <4>2
      <3> QED
        BY <3>1, <3>2
    <2>6. coord'.deny = Excluding(r)
      BY <1>14, <2>1
    <2> QED
      BY <1>10, <1>12, <1>13, <1>14, <1>17, <2>2, <2>3, <2>5, <2>6 DEF AfterSearch
  <1> QED
    BY <1>16, <1>17

-----------------------------------------------------------------------------
(* Types *)

\* A step that leaves the variables of a group alone keeps their types.
LEMMA KeepTypes ==
  /\ TerminalTypes /\ UNCHANGED termVars => TerminalTypes'
  /\ CoordTypes /\ UNCHANGED <<coord, patterns>> => CoordTypes'
  /\ MatcherTypes /\ UNCHANGED matchVars => MatcherTypes'
  <1>1. TerminalTypes /\ UNCHANGED termVars => TerminalTypes'
    BY DEF TerminalTypes, termVars
  <1>2. CoordTypes /\ UNCHANGED <<coord, patterns>> => CoordTypes'
    BY DEF CoordTypes
  <1>3. MatcherTypes /\ UNCHANGED matchVars => MatcherTypes'
    BY DEF MatcherTypes, matchVars
  <1> QED
    BY <1>1, <1>2, <1>3

\* The mailbox keeps its types when a handler asks for Target, or for nothing.
LEMMA AsksTypes ==
  ASSUME TypeOK, terminal'.query \in Query, coord' \in CoordState,
         reqBox' = reqBox \/ Asks("retry") \/ Asks("reset"), UNCHANGED matcher
  PROVE  MatcherTypes'
  <1> DEFINE t == Target'
  <1>1. coord' \in CoordState /\ terminal'.query \in Query
    OBVIOUS
  <1>2. t \in Request
    <2>1. [query |-> terminal'.query, nth |-> coord'.nth, deny |-> coord'.deny] \in Pattern
      BY <1>1 DEF CoordState, Pattern
    <2>2. coord'.snap \in Snap /\ coord'.sort \in BOOLEAN /\ coord'.snapRev \in Revision
      BY <1>1 DEF CoordState
    <2> QED
      BY <2>1, <2>2 DEF Target, Request
  <1>3. Single({t})
    BY DEF Single
  <1>4. CASE reqBox' = reqBox
    BY <1>4 DEF TypeOK, MatcherTypes
  <1>5. CASE Asks("retry")
    <2>1. reqBox' = [reqBox EXCEPT !.last = "retry", !["retry"] = {t}]
      BY <1>5 DEF Asks
    <2> HIDE DEF t
    <2> QED
      BY <1>2, <1>3, <2>1 DEF TypeOK, MatcherTypes
  <1>6. CASE Asks("reset")
    <2>1. reqBox' = [reqBox EXCEPT !.last = "reset", !["reset"] = {t}]
      BY <1>6 DEF Asks
    <2> HIDE DEF t
    <2> QED
      BY <1>2, <1>3, <2>1 DEF TypeOK, MatcherTypes
  <1> QED
    BY <1>4, <1>5, <1>6

\* A handler keeps the types if it does so with what it displays and with the reader.
LEMMA HandlerTypes ==
  ASSUME TypeOK, NEW e, AfterHandler(e),
         shown' \in Result, reader' \in {"run", "fin", "done"}, dirty' \in BOOLEAN,
         reqBox' = reqBox \/ Asks("retry") \/ Asks("reset")
  PROVE  TypeOK'
  <1>1. TerminalTypes'
    BY DEF AfterHandler, TypeOK, TerminalTypes
  <1>2. BoxTypes'
    BY DEF AfterHandler, TypeOK, BoxTypes
  <1>3. CoordTypes'
    BY DEF AfterHandler, CoordTypes
  <1>4. MatcherTypes'
    BY AsksTypes DEF AfterHandler, TypeOK, TerminalTypes
  <1> QED
    BY <1>1, <1>2, <1>3, <1>4 DEF TypeOK

\* The steps of the reader keep the types.
LEMMA ReaderTypes ==
  ASSUME TypeOK, Push \/ SetReadNew \/ EndOfInput \/ SetReadFin
  PROVE  TypeOK'
  <1>1. TerminalTypes' /\ CoordTypes' /\ MatcherTypes'
    BY KeepTypes DEF TypeOK, Push, SetReadNew, EndOfInput, SetReadFin, readVars, termVars, matchVars
  <1>2. BoxTypes'
    <2>1. CASE Push
      <3>1. list \in Snap /\ list.hi < MaxItems /\ list' = [list EXCEPT !.hi = @ + 1]
        BY <2>1 DEF Push, TypeOK, BoxTypes
      <3>2. list' \in Snap
        BY <3>1, CoreAssumption DEF Snap
      <3> QED
        BY <2>1, <3>2 DEF Push, TypeOK, BoxTypes
    <2>2. CASE SetReadNew
      BY <2>2 DEF SetReadNew, TypeOK, BoxTypes
    <2>3. CASE EndOfInput
      BY <2>3 DEF EndOfInput, TypeOK, BoxTypes
    <2>4. CASE SetReadFin
      BY <2>4 DEF SetReadFin, TypeOK, BoxTypes
    <2> QED
      BY <2>1, <2>2, <2>3, <2>4
  <1> QED
    BY <1>1, <1>2 DEF TypeOK

\* Loop takes the request r, and with it the result that is cached for it.
Takes(kind, r) ==
  /\ matcher.pc = "wait"
  /\ matcher' = [pc |-> "scan", request |-> {r}, sort |-> r.sort, revision |-> r.revision,
                 prevCount |-> IF CacheStale(r) THEN matcher.prevCount ELSE CountItems(r.snap),
                 cache |-> IF CacheStale(r) \/ CountItems(r.snap) # matcher.prevCount THEN {}
                           ELSE matcher.cache,
                 result |-> IF CacheStale(r) \/ CountItems(r.snap) # matcher.prevCount THEN {}
                            ELSE {f \in matcher.cache : /\ f.pattern.query = r.pattern.query
                                                        /\ f.final = r.final}]
  /\ reqBox' = EmptyBox(kind)
  /\ dropped' = IF reqBox.last # kind /\ reqBox[reqBox.last] # {}
                THEN dropped \cup {"request"} ELSE dropped
  /\ UNCHANGED <<termVars, readVars, box, batch, coord, patterns>>

\* The steps of the matcher keep the types.
LEMMA MatcherStepTypes ==
  ASSUME TypeOK, Matcher
  PROVE  TypeOK'
  <1>1. TerminalTypes' /\ CoordTypes'
    BY KeepTypes DEF TypeOK, Matcher, TakeRequest, ScanDone, ScanCancelled, SetSearchFin
  <1>2. /\ matcher \in [pc : {"wait", "scan", "set"}, request : SUBSET Request,
                        result : SUBSET Request, cache : SUBSET Request,
                        prevCount : 0 .. MaxItems, revision : Revision, sort : BOOLEAN]
        /\ Single(matcher.request)
    BY DEF TypeOK, MatcherTypes
  <1>3. CASE TakeRequest
    <2>1. PICK kind \in {"retry", "reset"} : \E r \in reqBox[kind] : Takes(kind, r)
      BY <1>3 DEF TakeRequest, Takes
    <2>2. PICK r \in reqBox[kind] : Takes(kind, r)
      BY <2>1
    <2>3. r \in Request
      BY <2>1 DEF TypeOK, MatcherTypes
    <2>4. CountItems(r.snap) \in 0 .. MaxItems
      <3>1. r.snap \in Snap
        BY <2>3 DEF Request
      <3> QED
        BY <3>1, CoreAssumption DEF CountItems, Snap
    <2>5. r.sort \in BOOLEAN /\ r.revision \in Revision
      BY <2>3 DEF Request
    <2>6. Single({r}) /\ Single({})
      BY DEF Single
    <2>7. MatcherTypes'
      BY <1>2, <2>1, <2>2, <2>3, <2>4, <2>5, <2>6 DEF Takes, MatcherTypes, EmptyBox
    <2>8. BoxTypes'
      <3>1. UNCHANGED <<readVars, box, batch>> /\ dropped' \subseteq dropped \cup {"request"}
        BY <1>3, <2>2 DEF TakeRequest, Takes
      <3> QED
        BY <3>1 DEF TypeOK, BoxTypes, readVars
    <2> QED
      BY <1>1, <2>7, <2>8 DEF TypeOK
  <1>4. CASE ScanDone
    <2>1. PICK r \in matcher.request :
            LET found == IF matcher.result # {} THEN matcher.result ELSE {r}
                others == {f \in matcher.cache : f.pattern.query # r.pattern.query}
            IN  matcher' = [matcher EXCEPT !.pc = "set", !.result = found,
                                            !.cache = others \cup found]
      BY <1>4 DEF ScanDone
    <2>2. r \in Request
      BY <1>2
    <2>3. MatcherTypes'
      BY <1>2, <1>4, <2>1, <2>2 DEF ScanDone, TypeOK, MatcherTypes
    <2>4. BoxTypes'
      BY <1>4 DEF ScanDone, TypeOK, BoxTypes, readVars
    <2> QED
      BY <1>1, <2>3, <2>4 DEF TypeOK
  <1>5. CASE ScanCancelled
    <2>1. MatcherTypes'
      BY <1>2, <1>5 DEF ScanCancelled, TypeOK, MatcherTypes, Single
    <2>2. BoxTypes'
      BY <1>5 DEF ScanCancelled, TypeOK, BoxTypes, readVars
    <2> QED
      BY <1>1, <2>1, <2>2 DEF TypeOK
  <1>6. CASE SetSearchFin
    <2>1. MatcherTypes'
      BY <1>2, <1>6 DEF SetSearchFin, TypeOK, MatcherTypes, Single
    <2>2. PICK r \in matcher.request, f \in matcher.result :
            box' = [box EXCEPT !.searchFin = {[request |-> r, found |-> f]}]
      BY <1>6 DEF SetSearchFin
    <2> DEFINE x == [request |-> r, found |-> f]
    <2>3. x \in Result
      BY <1>2, <2>2 DEF Result
    <2>4. box' = [box EXCEPT !.searchFin = {x}] /\ Single({x})
      BY <2>2 DEF Single
    <2> HIDE DEF x
    <2>5. BoxTypes'
      BY <1>6, <2>3, <2>4 DEF SetSearchFin, TypeOK, BoxTypes, readVars
    <2> QED
      BY <1>1, <2>1, <2>5 DEF TypeOK
  <1> QED
    BY <1>3, <1>4, <1>5, <1>6 DEF Matcher

\* So do the steps of the terminal,
LEMMA UserTypes ==
  ASSUME Sound, SetSearchNew \/ (\E f \in Features : Operate(f))
  PROVE  TypeOK'
  <1>0. TypeOK
    BY DEF Sound
  <1>1. CASE SetSearchNew
    <2>1. TerminalTypes'
      BY <1>0, <1>1 DEF SetSearchNew, TypeOK, TerminalTypes, Single
    <2>2. /\ box' = [box EXCEPT !.searchNew = outgoing] /\ outgoing \subseteq SearchRequest
          /\ Single(outgoing)
      BY <1>0, <1>1 DEF SetSearchNew, TypeOK, TerminalTypes
    <2>3. BoxTypes'
      BY <1>0, <1>1, <2>2 DEF SetSearchNew, TypeOK, BoxTypes, readVars
    <2> QED
      BY <1>0, <1>1, <2>1, <2>3, KeepTypes DEF TypeOK, SetSearchNew
  <1>2. CASE \E f \in Features : Operate(f)
    <2>1. PICK f \in Features : Operate(f)
      BY <1>2
    <2> DEFINE rev == shown.found.revision
               reload == f \in {"reload", "reload-sync", "type+reload"}
               command == IF reload THEN terminal.command + 1 ELSE 0
               sort == IF f = "sort" THEN ~terminal.sort ELSE terminal.sort
               nth == IF f = "nth" THEN 1 - terminal.nth ELSE terminal.nth
               deny == IF f = "exclude" THEN {rev.major} ELSE {}
               asked == [sort |-> sort, nth |-> IF f = "nth" THEN nth ELSE -1,
                         deny |-> deny, command |-> command, sync |-> f = "reload-sync",
                         changed |-> f \notin {"reload", "reload-sync"}, revision |-> rev]
    <2>2. PICK q \in Query :
            /\ terminal' = [terminal EXCEPT !.query = q, !.sort = sort, !.nth = nth,
                              !.excluded = @ \cup deny, !.ops = @ + 1,
                              !.command = IF reload THEN command ELSE @]
            /\ outgoing' = {asked}
      BY <2>1 DEF Operate
    <2>3. /\ terminal.ops < MaxOps
          /\ UNCHANGED <<shown, readVars, box, batch, coord, patterns, matchVars, dropped>>
      BY <2>1 DEF Operate
    <2>4. terminal \in [query : Query, sort : BOOLEAN, nth : 0 .. 1, excluded : SUBSET Session,
                        command : Session, ops : 0 .. MaxOps]
          /\ shown \in Result
      BY <1>0 DEF TypeOK, TerminalTypes
    <2>5. rev \in Revision
      BY <2>4 DEF Result, Request
    <2>6. deny \in SUBSET Session
      BY <2>5 DEF Revision
    <2>7. sort \in BOOLEAN /\ nth \in 0 .. 1
      <3>1. terminal.sort \in BOOLEAN /\ terminal.nth \in 0 .. 1
        BY <2>4
      <3>2. sort \in BOOLEAN
        BY <3>1
      <3>3. nth \in 0 .. 1
        BY <3>1
      <3> QED
        BY <3>2, <3>3
    <2>8. command \in Session /\ terminal.ops + 1 \in 0 .. MaxOps
      <3>1. terminal.command <= terminal.ops
        BY DEF Sound, Commands
      <3> QED
        BY <2>3, <2>4, <3>1, CoreAssumption DEF Session
    <2>9. asked \in SearchRequest /\ Single({asked})
      BY <2>5, <2>6, <2>7, <2>8 DEF SearchRequest, Single
    <2> HIDE DEF rev, command, sort, nth, deny, asked
    <2>10. TerminalTypes'
      BY <2>2, <2>3, <2>4, <2>6, <2>7, <2>8, <2>9 DEF TerminalTypes
    <2>11. BoxTypes'
      BY <1>0, <2>3 DEF TypeOK, BoxTypes, readVars
    <2> QED
      BY <1>0, <2>3, <2>10, <2>11, KeepTypes DEF TypeOK
  <1> QED
    BY <1>1, <1>2

\* and the handlers of Run.
LEMMA CoordinatorTypes ==
  ASSUME Sound, Coordinator
  PROVE  TypeOK'
  <1>0. TypeOK
    BY DEF Sound
  <1>1. CASE Take
    <2>1. BoxTypes'
      BY <1>0, <1>1 DEF Take, TypeOK, BoxTypes, readVars
    <2> QED
      BY <1>0, <1>1, <2>1, KeepTypes DEF TypeOK, Take
  <1>2. CASE Clear
    <2>1. BoxTypes'
      BY <1>0, <1>2 DEF Clear, TypeOK, BoxTypes, readVars, Single
    <2> QED
      BY <1>0, <1>2, <2>1, KeepTypes DEF TypeOK, Clear
  <1>3. CASE HandleKilledFin
    <2>1. AfterKilledFin
      BY <1>3, KilledFinFacts
    <2>2. /\ AfterHandler("ReadFin") /\ reader' = "run" /\ dirty' = FALSE
          /\ shown' \in Result /\ reqBox' = reqBox
      <3>1. dirty' = FALSE
        BY <1>3 DEF HandleKilledFin
      <3> QED
        BY <1>0, <2>1, <3>1 DEF AfterKilledFin, NewSession, TypeOK, TerminalTypes
    <2> QED
      BY <1>0, <2>2, HandlerTypes
  <1>4. ASSUME NEW e \in {"ReadNew", "ReadFin"}, HandleRead(e) PROVE TypeOK'
    <2>1. AfterRead(e)
      BY <1>4, ReadFacts
    <2>2. /\ AfterHandler(e) /\ UNCHANGED <<reader, dirty, shown>>
          /\ reqBox' = reqBox \/ Asks("retry")
      BY <2>1 DEF AfterRead
    <2>3. shown' \in Result /\ reader' \in {"run", "fin", "done"} /\ dirty' \in BOOLEAN
      BY <1>0, <2>2 DEF TypeOK, TerminalTypes, BoxTypes
    <2> QED
      BY <1>0, <2>2, <2>3, HandlerTypes
  <1>5. CASE HandleSearchNew
    <2>1. PICK r \in box.searchNew : AfterSearch(r)
      BY <1>5, SearchFacts
    <2>2. AfterHandler("SearchNew") /\ UNCHANGED shown /\ (reqBox' = reqBox \/ Asks("reset"))
      BY <2>1 DEF AfterSearch
    <2>3. reader' \in {"run", "fin", "done"} /\ dirty' \in BOOLEAN
      BY <1>0, <1>5 DEF HandleSearchNew, TypeOK, BoxTypes
    <2>4. shown' \in Result
      BY <1>0, <2>2 DEF TypeOK, TerminalTypes
    <2> QED
      BY <1>0, <2>2, <2>3, <2>4, HandlerTypes
  <1>6. CASE HandleSearchFin
    <2>1. UNCHANGED <<coord, list, dropped, terminal, outgoing, reader, dirty, box, patterns,
                      matchVars>>
          /\ batch' \subseteq batch /\ shown' \in box.searchFin
      BY <1>6 DEF HandleSearchFin, Handle, Start
    <2>2. TerminalTypes'
      BY <1>0, <2>1 DEF TypeOK, TerminalTypes, BoxTypes
    <2>3. BoxTypes'
      BY <1>0, <2>1 DEF TypeOK, BoxTypes
    <2> QED
      BY <1>0, <2>1, <2>2, <2>3, KeepTypes DEF TypeOK
  <1> QED
    BY <1>1, <1>2, <1>3, <1>4, <1>5, <1>6 DEF Coordinator

\* Every step keeps the types.
LEMMA TypeStep == Sound /\ [Next]_vars => TypeOK'
  <1> SUFFICES ASSUME Sound, [Next]_vars PROVE TypeOK'
    OBVIOUS
  <1>1. TypeOK
    BY DEF Sound
  <1>2. CASE UNCHANGED vars
    <2>1. BoxTypes'
      BY <1>1, <1>2 DEF vars, readVars, TypeOK, BoxTypes
    <2> QED
      BY <1>1, <1>2, <2>1, KeepTypes DEF vars, TypeOK
  <1> QED
    BY <1>1, <1>2, ReaderTypes, UserTypes, CoordinatorTypes, MatcherStepTypes DEF Next

-----------------------------------------------------------------------------
(* Patterns *)

\* Every step keeps the patterns fresh: nth and denylist change along with clearing them.
LEMMA FreshStep == Sound /\ [Next]_vars => PatternsFresh'
  <1> SUFFICES ASSUME Sound, [Next]_vars PROVE PatternsFresh'
    OBVIOUS
  <1>1. CASE UNCHANGED <<coord, patterns>>
    BY <1>1 DEF Sound, PatternsFresh
  <1>2. CASE HandleKilledFin
    BY <1>2, KilledFinFacts DEF AfterKilledFin, AfterHandler
  <1>3. ASSUME NEW e \in {"ReadNew", "ReadFin"}, HandleRead(e) PROVE PatternsFresh'
    BY <1>3, ReadFacts DEF AfterRead, AfterHandler
  <1>4. CASE HandleSearchNew
    BY <1>4, SearchFacts DEF AfterSearch, AfterHandler
  <1>5. CASE Push \/ SetReadNew \/ EndOfInput \/ SetReadFin
    BY <1>1, <1>5 DEF Push, SetReadNew, EndOfInput, SetReadFin
  <1>6. CASE SetSearchNew \/ (\E f \in Features : Operate(f))
    BY <1>1, <1>6 DEF SetSearchNew, Operate
  <1>7. CASE Take \/ Clear \/ HandleSearchFin
    BY <1>1, <1>7 DEF Take, Clear, HandleSearchFin, Handle, Start
  <1>8. CASE Matcher
    BY <1>1, <1>8 DEF Matcher, TakeRequest, ScanDone, ScanCancelled, SetSearchFin
  <1> QED
    BY <1>1, <1>2, <1>3, <1>4, <1>5, <1>6, <1>7, <1>8 DEF Next, Coordinator, vars

-----------------------------------------------------------------------------
(* The reader and the coordinator *)

\* What a handler does to the batch and the events in it
LEMMA ReadingHandled ==
  ASSUME Sound, NEW e, AfterHandler(e), list'.major = coord'.inputRev.major,
         e \in {"ReadNew", "ReadFin", "SearchNew", "SearchFin"}
  PROVE  /\ batch' # {} /\ (batch' = {} \/ "Clear" \in batch')
         /\ "ReadFin" \in batch' => box'.readFin
         /\ "ReadFin" \in batch' <=> "ReadFin" \in batch /\ e # "ReadFin"
         /\ list'.major = coord'.inputRev.major
  BY DEF Sound, Reading, AfterHandler

\* Every step keeps the reader and the coordinator together.
LEMMA ReadingStep == Sound /\ [Next]_vars => Reading'
  <1> SUFFICES ASSUME Sound, [Next]_vars PROVE Reading'
    OBVIOUS
  <1>1. TypeOK /\ Reading /\ coord \in CoordState
    BY DEF Sound, TypeOK, CoordTypes
  <1>2. coord.reading \in BOOLEAN /\ coord.useSnapshot \in BOOLEAN /\ dirty \in BOOLEAN
    BY <1>1 DEF CoordState, TypeOK, BoxTypes
  <1>3. CASE UNCHANGED <<reader, dirty, box, batch, coord>> /\ list'.major = list.major
    BY <1>1, <1>3 DEF Reading
  <1>4. CASE Push
    <2>1. list'.major = list.major
      BY <1>1, <1>4 DEF Push, TypeOK, BoxTypes, Snap
    <2> QED
      BY <1>1, <1>4, <2>1 DEF Push, Reading
  <1>5. CASE SetReadNew
    BY <1>1, <1>5 DEF SetReadNew, Reading, BoxUnlocked, TypeOK, BoxTypes
  <1>6. CASE EndOfInput
    BY <1>1, <1>6 DEF EndOfInput, Reading
  <1>7. CASE SetReadFin
    BY <1>1, <1>7 DEF SetReadFin, Reading, BoxUnlocked, TypeOK, BoxTypes
  <1>8. CASE SetSearchNew
    BY <1>1, <1>8 DEF SetSearchNew, Reading, TypeOK, BoxTypes, readVars
  <1>9. CASE \E f \in Features : Operate(f)
    BY <1>3, <1>9 DEF Operate, readVars
  <1>10. CASE Take
    BY <1>1, <1>10 DEF Take, Reading, readVars
  <1>11. CASE Clear
    BY <1>1, <1>11 DEF Clear, Reading, readVars
  <1>12. CASE HandleKilledFin
    <2>1. AfterKilledFin
      BY <1>12, KilledFinFacts
    <2>2. /\ AfterHandler("ReadFin") /\ reader' = "run" /\ ~dirty' /\ coord'.reading
          /\ list'.major = coord'.inputRev.major
      BY <2>1 DEF AfterKilledFin, NewSession
    <2> QED
      BY <2>2, ReadingHandled DEF Reading
  <1>13. ASSUME NEW e \in {"ReadNew", "ReadFin"}, HandleRead(e) PROVE Reading'
    <2>1. AfterRead(e)
      BY <1>13, ReadFacts
    <2>2. list'.major = coord'.inputRev.major
      BY <1>1, <2>1 DEF AfterRead, Reading, Trims
    <2>3. /\ AfterHandler(e) /\ reader' = reader /\ dirty' = dirty /\ box' = box
          /\ coord'.reading = (coord.reading /\ e # "ReadFin")
          /\ coord'.useSnapshot = (coord.useSnapshot /\ e # "ReadFin")
          /\ coord'.next = coord.next
          /\ e = "ReadFin" => coord.next = 0
      BY <2>1 DEF AfterRead, AfterHandler
    <2>4. e \in batch
      BY <2>3 DEF AfterHandler
    <2> QED
      BY <1>1, <1>2, <2>2, <2>3, <2>4, ReadingHandled DEF Reading
  <1>14. CASE HandleSearchNew
    <2>1. PICK r \in box.searchNew : AfterSearch(r)
      BY <1>14, SearchFacts
    <2>2. AfterHandler("SearchNew") /\ box' = box
      BY <2>1 DEF AfterSearch, AfterHandler
    <2>3. CASE r.command # 0 /\ ~coord.reading
      <3>1. NewSession(r.command)
        BY <2>1, <2>3 DEF AfterSearch
      <3>2. /\ reader' = "run" /\ ~dirty' /\ coord'.reading
            /\ list'.major = coord'.inputRev.major
        BY <3>1 DEF NewSession
      <3> QED
        BY <1>1, <2>2, <2>3, <3>2, ReadingHandled DEF Reading
    <2>4. CASE ~(r.command # 0 /\ ~coord.reading)
      <3>1. /\ reader' = reader /\ dirty' = dirty /\ coord'.reading = coord.reading
            /\ coord'.next = IF r.command # 0 THEN r.command ELSE coord.next
            /\ coord'.useSnapshot = IF r.command # 0 THEN r.sync ELSE coord.useSnapshot
        BY <2>1, <2>4 DEF AfterSearch
      <3>2. list'.major = coord'.inputRev.major
        BY <1>1, <2>1, <2>4 DEF AfterSearch, Reading, Trims, RevisionFor
      <3>3. coord'.next # 0 \/ coord'.useSnapshot => coord'.reading
        <4>1. CASE r.command = 0
          BY <1>1, <3>1, <4>1 DEF Reading
        <4>2. CASE r.command # 0
          BY <2>4, <3>1, <4>2
        <4> QED
          BY <4>1, <4>2
      <3>4. /\ batch' # {} /\ (batch' = {} \/ "Clear" \in batch')
            /\ "ReadFin" \in batch' => box'.readFin
            /\ "ReadFin" \in batch' <=> "ReadFin" \in batch
            /\ "SearchNew" \in batch
        BY <2>2, <3>2, ReadingHandled DEF AfterHandler
      <3> QED
        BY <1>1, <2>2, <3>1, <3>2, <3>3, <3>4 DEF Reading
    <2> QED
      BY <2>3, <2>4
  <1>15. CASE HandleSearchFin
    BY <1>1, <1>15 DEF HandleSearchFin, Handle, Start, Reading
  <1>16. CASE Matcher
    <2>1. UNCHANGED <<reader, dirty, batch, coord, list>> /\ box'.readFin = box.readFin
      BY <1>1, <1>16 DEF Matcher, TakeRequest, ScanDone, ScanCancelled, SetSearchFin, readVars,
           TypeOK, BoxTypes
    <2> QED
      BY <1>1, <2>1 DEF Reading
  <1>17. CASE UNCHANGED vars
    BY <1>3, <1>17 DEF vars, readVars
  <1> QED
    BY <1>4, <1>5, <1>6, <1>7, <1>8, <1>9, <1>10, <1>11, <1>12, <1>13, <1>14, <1>15, <1>16, <1>17
      DEF Next, Coordinator

-----------------------------------------------------------------------------
(* The numbers of the commands *)

\* A handler takes its own event out of the batch and no other.
LEMMA OtherEvents ==
  ASSUME Reading, NEW e \in {"ReadNew", "ReadFin", "SearchNew", "SearchFin"},
         e \in batch, batch' = batch \ {e}, UNCHANGED box
  PROVE  /\ Pending' = IF e = "SearchNew" THEN {} ELSE Pending
         /\ Answered' = IF e = "SearchFin" THEN {} ELSE Answered
  BY DEF Reading, Pending, Answered

\* The numbers of commands and sessions are natural numbers.
LEMMA NumberTypes ==
  ASSUME TypeOK
  PROVE  /\ coord.command \in Nat /\ coord.next \in Nat /\ coord.inputRev.major \in Nat
         /\ terminal.command \in Nat /\ terminal.ops \in Nat
         /\ Pending \subseteq box.searchNew
         /\ \A r \in outgoing \cup box.searchNew \cup Pending : r.command \in Nat
  <1>1. coord \in CoordState /\ Session \subseteq Nat
    BY DEF TypeOK, CoordTypes, Session
  <1>2. coord.command \in Nat /\ coord.next \in Nat /\ coord.inputRev.major \in Nat
    BY <1>1 DEF CoordState, Revision
  <1>3. terminal.command \in Nat /\ terminal.ops \in Nat
    <2>1. terminal.command \in Session /\ terminal.ops \in 0 .. MaxOps
      BY DEF TypeOK, TerminalTypes
    <2>2. terminal.ops \in Nat
      BY <2>1
    <2> QED
      BY <1>1, <2>1, <2>2
  <1>4. Pending \subseteq box.searchNew
    BY DEF Pending
  <1>5. \A r \in SearchRequest : r.command \in Nat
    BY <1>1 DEF SearchRequest
  <1>6. outgoing \subseteq SearchRequest /\ box.searchNew \subseteq SearchRequest
    BY DEF TypeOK, TerminalTypes, BoxTypes
  <1> QED
    BY <1>2, <1>3, <1>4, <1>5, <1>6

\* Every step keeps the commands in order: a handled number is behind all that are asked for.
LEMMA CommandsStep == Sound /\ [Next]_vars => Commands'
  <1> SUFFICES ASSUME Sound, [Next]_vars PROVE Commands'
    OBVIOUS
  <1>1. TypeOK /\ Reading /\ Commands
    BY DEF Sound
  <1>2. ASSUME Pending' \subseteq Pending, outgoing' = outgoing, terminal' = terminal,
               coord'.command = coord.command, coord'.next = coord.next,
               coord'.inputRev.major = coord.inputRev.major
        PROVE  Commands'
    BY <1>1, <1>2 DEF Commands
  <1>3. CASE Push \/ SetReadNew \/ EndOfInput \/ SetReadFin
    <2>1. box'.searchNew = box.searchNew /\ UNCHANGED <<batch, outgoing, terminal, coord>>
      BY <1>1, <1>3 DEF Push, SetReadNew, EndOfInput, SetReadFin, termVars, TypeOK, BoxTypes
    <2>2. Pending' = Pending
      BY <2>1 DEF Pending
    <2> QED
      BY <1>2, <2>1, <2>2
  <1>4. CASE SetSearchNew
    <2>1. /\ Pending' = outgoing /\ Pending = box.searchNew /\ outgoing' = {}
          /\ terminal' = terminal /\ coord' = coord
      BY <1>1, <1>4 DEF SetSearchNew, BoxUnlocked, TypeOK, BoxTypes, Pending
    <2> QED
      BY <1>1, <2>1 DEF Commands
  <1>5. CASE \E f \in Features : Operate(f)
    <2>1. PICK command \in {0, terminal.command + 1} :
            /\ outgoing = {} /\ \A o \in outgoing' : o.command = command
            /\ terminal'.command = IF command = 0 THEN terminal.command ELSE command
            /\ terminal'.ops = terminal.ops + 1
            /\ UNCHANGED <<coord, box, batch>>
      <3>1. PICK f \in Features : Operate(f)
        BY <1>5
      <3> DEFINE command == IF f \in {"reload", "reload-sync", "type+reload"}
                            THEN terminal.command + 1 ELSE 0
      <3>2. /\ outgoing = {} /\ UNCHANGED <<coord, box, batch>>
            /\ \A o \in outgoing' : o.command = command
        BY <3>1 DEF Operate
      <3>3. /\ terminal'.command = IF f \in {"reload", "reload-sync", "type+reload"}
                                   THEN command ELSE terminal.command
            /\ terminal'.ops = terminal.ops + 1
        BY <1>1, <3>1 DEF Operate, TypeOK, TerminalTypes
      <3>4. terminal.command \in Nat
        BY <1>1, NumberTypes
      <3>5. /\ command \in {0, terminal.command + 1}
            /\ terminal'.command = IF command = 0 THEN terminal.command ELSE command
        BY <3>3, <3>4
      <3> QED
        BY <3>2, <3>3, <3>5
    <2>2. Pending' = Pending
      BY <2>1 DEF Pending
    <2> QED
      BY <1>1, <2>1, <2>2, NumberTypes DEF Commands
  <1>6. CASE Take
    <2>1. Pending' \subseteq Pending
      BY <1>6 DEF Take, Pending
    <2> QED
      BY <1>2, <1>6, <2>1 DEF Take, termVars
  <1>7. CASE Clear
    <2>1. Pending' = {}
      BY <1>7 DEF Clear, Pending
    <2> QED
      BY <1>2, <1>7, <2>1 DEF Clear, termVars
  <1>8. CASE HandleKilledFin
    <2>1. AfterKilledFin
      BY <1>8, KilledFinFacts
    <2>2. /\ coord.next # 0 /\ coord'.next = 0 /\ coord'.command = coord.next
          /\ coord'.inputRev.major = coord.inputRev.major + 1
          /\ UNCHANGED <<terminal, outgoing>>
      BY <2>1 DEF AfterKilledFin, NewSession, AfterHandler
    <2>3. Pending' = Pending
      BY <1>1, <2>1, OtherEvents DEF AfterKilledFin, AfterHandler
    <2> QED
      BY <1>1, <2>2, <2>3, NumberTypes DEF Commands
  <1>9. ASSUME NEW e \in {"ReadNew", "ReadFin"}, HandleRead(e) PROVE Commands'
    <2>1. AfterRead(e)
      BY <1>9, ReadFacts
    <2>2. coord'.inputRev.major = coord.inputRev.major
      BY <2>1 DEF AfterRead, Trims
    <2>3. Pending' = Pending
      BY <1>1, <2>1, OtherEvents DEF AfterRead, AfterHandler
    <2> QED
      BY <1>2, <2>1, <2>2, <2>3 DEF AfterRead, AfterHandler
  <1>10. CASE HandleSearchNew
    <2>1. PICK r \in box.searchNew : AfterSearch(r)
      BY <1>10, SearchFacts
    <2>2. Pending' = {} /\ UNCHANGED <<terminal, outgoing>>
      BY <1>1, <2>1, OtherEvents DEF AfterSearch, AfterHandler
    <2>3. r \in Pending
      BY <2>1 DEF AfterSearch, AfterHandler, Pending
    <2>4. CASE r.command # 0 /\ ~coord.reading
      <3>1. /\ coord'.next = 0 /\ coord'.command = r.command
            /\ coord'.inputRev.major = coord.inputRev.major + 1
        BY <2>1, <2>4 DEF AfterSearch, NewSession
      <3> QED
        BY <1>1, <2>2, <2>3, <2>4, <3>1, NumberTypes DEF Commands
    <2>5. CASE ~(r.command # 0 /\ ~coord.reading)
      <3>1. /\ coord'.next = IF r.command # 0 THEN r.command ELSE coord.next
            /\ coord'.command = coord.command
        BY <2>1, <2>5 DEF AfterSearch
      <3>2. coord'.inputRev.major = coord.inputRev.major
        BY <2>1, <2>5 DEF AfterSearch, Trims, RevisionFor
      <3> QED
        BY <1>1, <2>2, <2>3, <3>1, <3>2, NumberTypes DEF Commands
    <2> QED
      BY <2>4, <2>5
  <1>11. CASE HandleSearchFin
    <2>1. /\ UNCHANGED <<terminal, outgoing, coord, box>> /\ "SearchFin" \in batch
          /\ batch' = batch \ {"SearchFin"}
      BY <1>11 DEF HandleSearchFin, Handle, Start
    <2>2. Pending' = Pending
      BY <1>1, <2>1, OtherEvents
    <2> QED
      BY <1>2, <2>1, <2>2
  <1>12. CASE Matcher
    <2>1. UNCHANGED <<terminal, outgoing, coord, batch>> /\ box'.searchNew = box.searchNew
      BY <1>1, <1>12 DEF Matcher, TakeRequest, ScanDone, ScanCancelled, SetSearchFin, termVars,
           TypeOK, BoxTypes
    <2>2. Pending' = Pending
      BY <2>1 DEF Pending
    <2> QED
      BY <1>2, <2>1, <2>2
  <1>13. CASE UNCHANGED vars
    BY <1>2, <1>13 DEF vars, termVars, Pending
  <1> QED
    BY <1>3, <1>4, <1>5, <1>6, <1>7, <1>8, <1>9, <1>10, <1>11, <1>12, <1>13 DEF Next, Coordinator

\* The first layer of the invariant holds at the start,
LEMMA InitSound == Init => Sound
  <1> SUFFICES ASSUME Init PROVE Sound
    OBVIOUS
  <1>1. PICK q \in Query :
          /\ terminal = [query |-> q, sort |-> TRUE, nth |-> 0, excluded |-> {},
                         command |-> 0, ops |-> 0]
          /\ LET r == [snap |-> Snap0, pattern |-> [query |-> q, nth |-> 0, deny |-> {}],
                       final |-> FALSE, sort |-> TRUE, revision |-> Rev0]
             IN  shown = [request |-> r, found |-> r]
    BY DEF Init
  <1>2. Snap0 \in Snap /\ Rev0 \in Revision /\ 0 \in Session
    BY CoreAssumption DEF Snap0, Snap, Rev0, Revision, Session
  <1>3. Single({})
    BY DEF Single
  <1>4. TerminalTypes
    <2>1. terminal \in [query : Query, sort : BOOLEAN, nth : 0 .. 1, excluded : SUBSET Session,
                        command : Session, ops : 0 .. MaxOps]
      BY <1>1, <1>2 DEF Session
    <2>2. shown \in Result
      BY <1>1, <1>2 DEF Result, Request, Pattern
    <2> QED
      BY <1>3, <2>1, <2>2 DEF Init, TerminalTypes
  <1>5. BoxTypes
    BY <1>2, <1>3 DEF Init, BoxTypes
  <1>6. CoordTypes
    BY <1>2 DEF Init, CoordTypes, CoordState
  <1>7. MatcherTypes
    BY <1>2, <1>3, CoreAssumption DEF Init, MatcherTypes
  <1>8. PatternsFresh
    BY DEF Init, PatternsFresh
  <1>9. Reading
    BY DEF Init, Reading, Snap0, Rev0
  <1>10. Commands
    BY <1>1 DEF Init, Commands, Pending, Rev0
  <1> QED
    BY <1>4, <1>5, <1>6, <1>7, <1>8, <1>9, <1>10 DEF Sound, TypeOK

\* is kept by every step,
LEMMA SoundStep == Sound /\ [Next]_vars => Sound'
  BY TypeStep, FreshStep, ReadingStep, CommandsStep DEF Sound

\* and so it is always there.
LEMMA SoundAlways == Spec => []Sound
  BY InitSound, SoundStep, PTL DEF Spec

\* The variables have their types, and the sets that stand for an optional value hold one
\* at most: one searchRequest waits in the event box, and one request of each kind in the mailbox.
THEOREM Typing == Spec => []TypeOK
  <1>1. Sound => TypeOK
    BY DEF Sound
  <1> QED
    BY <1>1, SoundAlways, PTL

\* A pattern of the cache was built for the nth and the denylist that Run has now: every
\* branch of Run that changes one of the two clears the cache (change-nth, exclude, restart).
THEOREM NoStalePattern == Spec => []PatternsFresh
  <1>1. Sound => PatternsFresh
    BY DEF Sound
  <1> QED
    BY <1>1, SoundAlways, PTL

-----------------------------------------------------------------------------
(* Requests, results and the sessions they are about *)

\* All requests for the matcher, all results, and all that the terminal asks of Run
Requests ==
  reqBox.retry \cup reqBox.reset \cup matcher.request \cup matcher.result \cup matcher.cache
Results == box.searchFin \cup {shown}
SearchRequests == outgoing \cup box.searchNew

\* Requests, results and exclusions are about session n or an earlier one.
UpTo(n) ==
  /\ coord.snap.major <= n /\ coord.snapRev.major <= n
  /\ \A r \in Requests : r.snap.major <= n /\ r.revision.major <= n
  /\ \A r \in Results : r.found.revision.major <= n /\ r.request.snap.major <= n
  /\ \A e \in terminal.excluded : e <= n

\* What the terminal asks for refers to a list it has displayed.
Asked ==
  \A r \in SearchRequests :
    /\ r.deny \in {{}, {r.revision.major}} /\ r.revision.major <= coord.inputRev.major
    /\ r.command = 0 => r.changed
    /\ r.sync => r.command # 0 /\ ~r.changed

\* During reload-sync everything is about an earlier session than the one that is read.
Sessions ==
  /\ UpTo(coord.inputRev.major)
  /\ coord.useSnapshot /\ coord.next = 0 => UpTo(coord.inputRev.major - 1)

\* The matcher makes no request, and its results answer the request it works on.
LEMMA MatcherRequests ==
  ASSUME TypeOK, Matcher
  PROVE  /\ Requests' \subseteq Requests
         /\ Results' \subseteq Results \cup
              {[request |-> r, found |-> f] : r \in matcher.request, f \in matcher.result}
  <1>1. CASE TakeRequest
    <2>1. PICK kind \in {"retry", "reset"} : \E r \in reqBox[kind] : Takes(kind, r)
      BY <1>1 DEF TakeRequest, Takes
    <2>2. PICK r \in reqBox[kind] : Takes(kind, r)
      BY <2>1
    <2>3. r \in reqBox.retry \cup reqBox.reset
      BY <2>1
    <2> QED
      BY <2>2, <2>3 DEF Takes, EmptyBox, Requests, Results, termVars
  <1>2. CASE ScanDone
    BY <1>2 DEF ScanDone, TypeOK, MatcherTypes, Requests, Results, termVars
  <1>3. CASE ScanCancelled
    BY <1>3 DEF ScanCancelled, TypeOK, MatcherTypes, Requests, Results, termVars
  <1>4. CASE SetSearchFin
    BY <1>4 DEF SetSearchFin, TypeOK, BoxTypes, MatcherTypes, Requests, Results, termVars
  <1> QED
    BY <1>1, <1>2, <1>3, <1>4 DEF Matcher

\* A handler makes one request at most.
LEMMA AskedRequests ==
  ASSUME TypeOK, Asks("retry") \/ Asks("reset") \/ reqBox' = reqBox, UNCHANGED matcher
  PROVE  Requests' \subseteq Requests \cup {Target'}
  <1> DEFINE t == Target'
  <1>1. Asks("retry") => reqBox' = [reqBox EXCEPT !.last = "retry", !["retry"] = {t}]
    BY DEF Asks
  <1>2. Asks("reset") => reqBox' = [reqBox EXCEPT !.last = "reset", !["reset"] = {t}]
    BY DEF Asks
  <1> HIDE DEF t
  <1>3. /\ reqBox'.retry \subseteq reqBox.retry \cup {t}
        /\ reqBox'.reset \subseteq reqBox.reset \cup {t}
    <2>1. reqBox \in [retry : SUBSET Request, reset : SUBSET Request, last : {"retry", "reset"}]
      BY DEF TypeOK, MatcherTypes
    <2>2. CASE Asks("retry")
      BY <1>1, <2>1, <2>2
    <2>3. CASE Asks("reset")
      BY <1>2, <2>1, <2>3
    <2> QED
      BY <2>2, <2>3
  <1>4. Requests' \subseteq Requests \cup {t}
    BY <1>3 DEF Requests
  <1> QED
    BY <1>4 DEF t

\* What a step makes new of requests, results and exclusions
LEMMA NewRequests ==
  ASSUME Sound, [Next]_vars
  PROVE  /\ Requests' \subseteq Requests \cup {Target'}
         /\ Results' \subseteq Results \cup
              {[request |-> r, found |-> f] : r \in matcher.request, f \in matcher.result}
         /\ terminal'.excluded \subseteq terminal.excluded \cup {shown.found.revision.major}
  <1>1. TypeOK
    BY DEF Sound
  <1>2. CASE UNCHANGED vars
    BY <1>2 DEF vars, termVars, matchVars, Requests, Results
  <1>3. CASE Push \/ SetReadNew \/ EndOfInput \/ SetReadFin
    BY <1>1, <1>3 DEF Push, SetReadNew, EndOfInput, SetReadFin, termVars, matchVars, Requests,
       Results, TypeOK, BoxTypes
  <1>4. CASE SetSearchNew
    BY <1>1, <1>4 DEF SetSearchNew, matchVars, Requests, Results, TypeOK, BoxTypes
  <1>5. CASE \E f \in Features : Operate(f)
    <2>1. PICK f \in Features : Operate(f)
      BY <1>5
    <2>2. UNCHANGED <<shown, box, reqBox, matcher>>
      BY <2>1 DEF Operate, matchVars
    <2>3. terminal'.excluded \subseteq terminal.excluded \cup {shown.found.revision.major}
      BY <1>1, <2>1 DEF Operate, TypeOK, TerminalTypes
    <2> QED
      BY <2>2, <2>3 DEF Requests, Results
  <1>6. CASE Take \/ Clear
    BY <1>1, <1>6 DEF Take, Clear, termVars, matchVars, Requests, Results, TypeOK, BoxTypes
  <1>7. CASE HandleSearchFin
    BY <1>7 DEF HandleSearchFin, Handle, matchVars, Requests, Results
  <1>8. CASE HandleKilledFin
    <2>1. UNCHANGED <<terminal, shown, box, reqBox, matcher>>
      BY <1>8, KilledFinFacts DEF AfterKilledFin, AfterHandler
    <2> QED
      BY <2>1 DEF Requests, Results
  <1>9. ASSUME NEW e \in {"ReadNew", "ReadFin"}, HandleRead(e)
        PROVE  UNCHANGED <<terminal, shown, box, matcher>> /\ (Asks("retry") \/ reqBox' = reqBox)
    BY <1>9, ReadFacts DEF AfterRead, AfterHandler
  <1>10. CASE HandleSearchNew
    <2>1. UNCHANGED <<terminal, shown, box, matcher>> /\ (Asks("reset") \/ reqBox' = reqBox)
      BY <1>10, SearchFacts DEF AfterSearch, AfterHandler
    <2> QED
      BY <1>1, <2>1, AskedRequests DEF Results
  <1>11. CASE HandleRead("ReadNew") \/ HandleRead("ReadFin")
    <2>1. UNCHANGED <<terminal, shown, box, matcher>> /\ (Asks("retry") \/ reqBox' = reqBox)
      BY <1>9, <1>11
    <2> QED
      BY <1>1, <2>1, AskedRequests DEF Results
  <1>12. CASE Matcher
    <2>1. terminal' = terminal
      BY <1>12 DEF Matcher, TakeRequest, ScanDone, ScanCancelled, SetSearchFin, termVars
    <2> QED
      BY <1>1, <1>12, <2>1, MatcherRequests
  <1> QED
    BY <1>2, <1>3, <1>4, <1>5, <1>6, <1>7, <1>8, <1>10, <1>11, <1>12 DEF Next, Coordinator

\* Requests and results have their types
LEMMA RequestTypes ==
  ASSUME TypeOK
  PROVE  /\ Requests \subseteq Request /\ Results \subseteq Result
         /\ SearchRequests \subseteq SearchRequest
  BY DEF TypeOK, TerminalTypes, BoxTypes, MatcherTypes, Requests, Results, SearchRequests

\* and so have the sessions that they are about.
LEMMA MajorTypes ==
  ASSUME TypeOK
  PROVE  /\ coord.snap.major \in Nat /\ coord.snapRev.major \in Nat
         /\ \A r \in Requests : r.snap.major \in Nat /\ r.revision.major \in Nat
         /\ \A r \in Results : r.found.revision.major \in Nat /\ r.request.snap.major \in Nat
         /\ \A e \in terminal.excluded : e \in Nat
  <1>1. Session \subseteq Nat
    BY DEF Session
  <1>2. \A r \in Request : r.snap.major \in Nat /\ r.revision.major \in Nat
    BY <1>1 DEF Request, Snap, Revision
  <1>3. \A r \in Result : r.found \in Request /\ r.request \in Request
    BY DEF Result
  <1>4. coord.snap.major \in Nat /\ coord.snapRev.major \in Nat
    BY <1>1 DEF TypeOK, CoordTypes, CoordState, Snap, Revision
  <1>5. terminal.excluded \subseteq Session
    BY DEF TypeOK, TerminalTypes
  <1> QED
    BY <1>1, <1>2, <1>3, <1>4, <1>5, RequestTypes

\* A step keeps UpTo(n) if it keeps the list that is searched at n.
LEMMA UpToStep ==
  ASSUME Sound, [Next]_vars, NEW n \in Int, UpTo(n),
         coord'.snap.major <= n, coord'.snapRev.major <= n
  PROVE  UpTo(n)'
  <1>1. /\ Requests' \subseteq Requests \cup {Target'}
        /\ Results' \subseteq Results \cup
             {[request |-> r, found |-> f] : r \in matcher.request, f \in matcher.result}
        /\ terminal'.excluded \subseteq terminal.excluded \cup {shown.found.revision.major}
    BY NewRequests
  <1>2. \A r \in Requests' : r.snap.major <= n /\ r.revision.major <= n
    BY <1>1 DEF UpTo, Target
  <1>3. \A r \in Results' : r.found.revision.major <= n /\ r.request.snap.major <= n
    <2>1. matcher.request \subseteq Requests /\ matcher.result \subseteq Requests
      BY DEF Requests
    <2> QED
      BY <1>1, <2>1 DEF UpTo
  <1>4. \A e \in terminal'.excluded : e <= n
    BY <1>1 DEF UpTo, Results
  <1> QED
    BY <1>2, <1>3, <1>4 DEF UpTo

\* How the sessions of the input and of the list that is searched change
LEMMA SessionStep ==
  ASSUME Sound, [Next]_vars
  PROVE  \/ /\ coord'.inputRev.major = coord.inputRev.major
            /\ \/ SameSnap(coord, coord')
               \/ /\ coord'.snap.major = coord.inputRev.major
                  /\ coord'.snapRev.major = coord.inputRev.major
            /\ coord'.useSnapshot /\ coord'.next = 0 =>
                 coord.useSnapshot /\ coord.next = 0 /\ SameSnap(coord, coord')
         \/ coord'.inputRev.major = coord.inputRev.major + 1 /\ SameSnap(coord, coord')
  <1>1. Reading
    BY DEF Sound
  <1>2. CASE UNCHANGED coord
    BY <1>2 DEF SameSnap
  <1>3. CASE HandleKilledFin
    BY <1>3, KilledFinFacts DEF AfterKilledFin, NewSession
  <1>4. ASSUME NEW e \in {"ReadNew", "ReadFin"}, HandleRead(e)
        PROVE  /\ coord'.inputRev.major = coord.inputRev.major
               /\ \/ SameSnap(coord, coord')
                  \/ /\ coord'.snap.major = coord.inputRev.major
                     /\ coord'.snapRev.major = coord.inputRev.major
               /\ coord'.useSnapshot /\ coord'.next = 0 =>
                    coord.useSnapshot /\ coord.next = 0 /\ SameSnap(coord, coord')
    <2>1. AfterRead(e)
      BY <1>4, ReadFacts
    <2>2. CASE coord'.useSnapshot
      BY <2>1, <2>2 DEF AfterRead
    <2>3. CASE ~coord'.useSnapshot
      BY <1>1, <2>1, <2>3 DEF AfterRead, Trims, Reading
    <2> QED
      BY <2>2, <2>3
  <1>5. CASE HandleSearchNew
    <2>1. PICK r \in box.searchNew : AfterSearch(r)
      BY <1>5, SearchFacts
    <2>2. CASE r.command # 0 /\ ~coord.reading
      BY <2>1, <2>2 DEF AfterSearch, NewSession
    <2>3. CASE ~(r.command # 0 /\ ~coord.reading)
      <3>1. coord'.inputRev.major = coord.inputRev.major /\ list'.major = list.major
        BY <2>1, <2>3 DEF AfterSearch, Trims, RevisionFor
      <3>2. \/ SameSnap(coord, coord')
            \/ /\ coord'.snap.major = coord.inputRev.major
               /\ coord'.snapRev.major = coord.inputRev.major
        BY <1>1, <2>1, <2>3, <3>1 DEF AfterSearch, Reading
      <3>3. ASSUME coord'.useSnapshot, coord'.next = 0
            PROVE  coord.useSnapshot /\ coord.next = 0 /\ SameSnap(coord, coord')
        BY <2>1, <2>3, <3>3 DEF AfterSearch
      <3> QED
        BY <3>1, <3>2, <3>3
    <2> QED
      BY <2>2, <2>3
  <1>6. CASE Push \/ SetReadNew \/ EndOfInput \/ SetReadFin \/ SetSearchNew
    BY <1>2, <1>6 DEF Push, SetReadNew, EndOfInput, SetReadFin, SetSearchNew
  <1>7. CASE \E f \in Features : Operate(f)
    BY <1>2, <1>7 DEF Operate
  <1>8. CASE Take \/ Clear \/ HandleSearchFin
    BY <1>2, <1>8 DEF Take, Clear, HandleSearchFin, Handle, Start
  <1>9. CASE Matcher
    BY <1>2, <1>9 DEF Matcher, TakeRequest, ScanDone, ScanCancelled, SetSearchFin
  <1>10. CASE UNCHANGED vars
    BY <1>2, <1>10 DEF vars
  <1> QED
    BY <1>3, <1>4, <1>5, <1>6, <1>7, <1>8, <1>9, <1>10 DEF Next, Coordinator

\* Every step keeps the sessions apart: see SessionStep for the two ways they change.
LEMMA SessionsStep == Sound /\ Sessions /\ [Next]_vars => Sessions'
  <1> SUFFICES ASSUME Sound, Sessions, [Next]_vars PROVE Sessions'
    OBVIOUS
  <1>1. PICK m \in Nat : m = coord.inputRev.major
    BY NumberTypes DEF Sound
  <1>2. UpTo(m)
    BY <1>1 DEF Sessions
  <1>3. UpTo(m + 1)
    <2>1. \A x \in Nat : x <= m => x <= m + 1
      OBVIOUS
    <2>2. /\ coord.snap.major \in Nat /\ coord.snapRev.major \in Nat
          /\ \A r \in Requests : r.snap.major \in Nat /\ r.revision.major \in Nat
          /\ \A r \in Results : r.found.revision.major \in Nat /\ r.request.snap.major \in Nat
          /\ \A e \in terminal.excluded : e \in Nat
      BY MajorTypes DEF Sound
    <2> QED
      BY <1>2, <2>1, <2>2 DEF UpTo
  <1>4. CASE /\ coord'.inputRev.major = coord.inputRev.major
             /\ \/ SameSnap(coord, coord')
                \/ /\ coord'.snap.major = coord.inputRev.major
                   /\ coord'.snapRev.major = coord.inputRev.major
             /\ coord'.useSnapshot /\ coord'.next = 0 =>
                  coord.useSnapshot /\ coord.next = 0 /\ SameSnap(coord, coord')
    <2>1. UpTo(m)'
      BY <1>1, <1>2, <1>4, UpToStep DEF SameSnap, UpTo
    <2>2. ASSUME coord'.useSnapshot, coord'.next = 0
          PROVE  UpTo(m - 1)'
      <3>1. UpTo(m - 1) /\ SameSnap(coord, coord')
        BY <1>1, <1>4, <2>2 DEF Sessions
      <3> QED
        BY <3>1, UpToStep DEF SameSnap, UpTo
    <2> QED
      BY <1>1, <1>4, <2>1, <2>2 DEF Sessions
  <1>5. CASE coord'.inputRev.major = coord.inputRev.major + 1 /\ SameSnap(coord, coord')
    <2>1. UpTo(m)' /\ UpTo(m + 1)'
      BY <1>2, <1>3, <1>5, UpToStep DEF SameSnap, UpTo
    <2> QED
      BY <1>1, <1>5, <2>1 DEF Sessions
  <1> QED
    BY <1>4, <1>5, SessionStep

\* At the start everything is about session 0.
LEMMA InitSessions == Init => Sessions
  BY DEF Init, Sessions, UpTo, Requests, Results, Snap0, Rev0

\* While reload-sync reads, nothing asks for the new list or displays it: Run keeps the
\* snapshot of the old one until EvtReadFin, whatever the user types meanwhile.
THEOREM ListKeptBySync == Spec => []SyncKeepsList
  <1>1. Sound /\ Sessions => SyncKeepsList
    <2> SUFFICES ASSUME Sound, Sessions, coord.useSnapshot, coord.next = 0,
                        NEW r \in reqBox.retry \cup reqBox.reset \cup {shown.request}
                 PROVE  r.snap.major < coord.inputRev.major
      BY DEF SyncKeepsList
    <2>1. r.snap.major <= coord.inputRev.major - 1
      BY DEF Sessions, UpTo, Requests, Results
    <2>2. r.snap.major \in Nat /\ coord.inputRev.major \in Nat
      BY NumberTypes, MajorTypes DEF Sound, Requests, Results
    <2> QED
      BY <2>1, <2>2
  <1> QED
    BY <1>1, InitSound, SoundStep, InitSessions, SessionsStep, PTL DEF Spec

\* Every step keeps what the terminal asks for within the sessions there have been.
LEMMA AskedStep == Sound /\ Sessions /\ Asked /\ [Next]_vars => Asked'
  <1> SUFFICES ASSUME Sound, Sessions, Asked, [Next]_vars PROVE Asked'
    OBVIOUS
  <1>1. TypeOK
    BY DEF Sound
  <1>2. coord.inputRev.major <= coord'.inputRev.major
    BY SessionStep, NumberTypes DEF Sound
  <1>3. ASSUME SearchRequests' \subseteq SearchRequests PROVE Asked'
    <2>1. \A r \in SearchRequests : r.revision.major \in Nat
      BY <1>1, RequestTypes DEF SearchRequest, Revision, Session
    <2>2. coord.inputRev.major \in Nat /\ coord'.inputRev.major \in Nat
      BY <1>1, SessionStep, NumberTypes
    <2> QED
      BY <1>2, <1>3, <2>1, <2>2 DEF Asked
  <1>4. CASE \E f \in Features : Operate(f)
    <2>1. PICK f \in Features : Operate(f)
      BY <1>4
    <2>2. UNCHANGED <<coord, box>>
      BY <2>1 DEF Operate
    <2>3. terminal.command \in Nat
      BY <1>1, NumberTypes
    <2>4. shown.found.revision.major <= coord.inputRev.major
      BY DEF Sessions, UpTo, Results
    <2>5. \A o \in outgoing' :
            /\ o.deny \in {{}, {o.revision.major}} /\ o.revision = shown.found.revision
            /\ o.command = 0 => o.changed
            /\ o.sync => o.command # 0 /\ ~o.changed
      <3> DEFINE rev == shown.found.revision
                 command == IF f \in {"reload", "reload-sync", "type+reload"}
                            THEN terminal.command + 1 ELSE 0
                 sort == IF f = "sort" THEN ~terminal.sort ELSE terminal.sort
                 nth == IF f = "nth" THEN 1 - terminal.nth ELSE -1
                 deny == IF f = "exclude" THEN {rev.major} ELSE {}
                 sync == f = "reload-sync"
                 changed == f \notin {"reload", "reload-sync"}
                 asked == [sort |-> sort, nth |-> nth, deny |-> deny, command |-> command,
                           sync |-> sync, changed |-> changed, revision |-> rev]
      <3>1. outgoing' = {asked}
        BY <2>1 DEF Operate
      <3>2. (command = 0 => changed) /\ (sync => command # 0 /\ ~changed)
        BY <2>3
      <3>3. deny \in {{}, {rev.major}}
        OBVIOUS
      <3> HIDE DEF rev, command, sort, nth, deny, sync, changed
      <3>4. asked.command = command /\ asked.sync = sync /\ asked.changed = changed
        OBVIOUS
      <3>5. /\ asked.command = 0 => asked.changed
            /\ asked.sync => asked.command # 0 /\ ~asked.changed
        BY <3>2, <3>4, Zenon
      <3>6. \A o \in outgoing' : o.deny \in {{}, {o.revision.major}} /\ o.revision = rev
        BY <3>1, <3>3
      <3> QED
        BY <3>1, <3>5, <3>6, Zenon DEF rev
    <2> QED
      BY <2>2, <2>4, <2>5 DEF Asked, SearchRequests
  <1>5. CASE ~(\E f \in Features : Operate(f))
    <2>1. CASE Push \/ SetReadNew \/ EndOfInput \/ SetReadFin
      BY <1>1, <1>3, <2>1 DEF Push, SetReadNew, EndOfInput, SetReadFin, termVars, SearchRequests,
         TypeOK, BoxTypes
    <2>2. CASE SetSearchNew
      BY <1>1, <1>3, <2>2 DEF SetSearchNew, SearchRequests, TypeOK, BoxTypes
    <2>3. CASE Take \/ Clear
      BY <1>1, <1>3, <2>3 DEF Take, Clear, termVars, SearchRequests, TypeOK, BoxTypes
    <2>4. CASE HandleKilledFin
      BY <1>3, <2>4, KilledFinFacts DEF AfterKilledFin, AfterHandler, SearchRequests
    <2>5. ASSUME NEW e \in {"ReadNew", "ReadFin"}, HandleRead(e) PROVE Asked'
      BY <1>3, <2>5, ReadFacts DEF AfterRead, AfterHandler, SearchRequests
    <2>6. CASE HandleSearchNew
      BY <1>3, <2>6, SearchFacts DEF AfterSearch, AfterHandler, SearchRequests
    <2>7. CASE HandleSearchFin
      BY <1>3, <2>7 DEF HandleSearchFin, SearchRequests
    <2>8. CASE Matcher
      BY <1>1, <1>3, <2>8 DEF Matcher, TakeRequest, ScanDone, ScanCancelled, SetSearchFin, termVars,
         SearchRequests, TypeOK, BoxTypes
    <2>9. CASE UNCHANGED vars
      BY <1>3, <2>9 DEF vars, termVars, SearchRequests
    <2> QED
      BY <1>5, <2>1, <2>2, <2>3, <2>4, <2>5, <2>6, <2>7, <2>8, <2>9 DEF Next, Coordinator
  <1> QED
    BY <1>4, <1>5

-----------------------------------------------------------------------------
(* The cache of results, as long as no reload has been asked for *)

\* The requests that may still be displayed
Waiting == reqBox.retry \cup reqBox.reset
Live == Waiting \cup matcher.request \cup matcher.cache

\* Requests of one revision differ in what the matcher compares only.
Alike(a, b) ==
  a.revision = b.revision =>
    a.snap.lo = b.snap.lo /\ a.pattern.nth = b.pattern.nth /\ a.pattern.deny = b.pattern.deny

\* Run searches the list it has: under a revision the list starts at one item and is
\* searched with one pattern but for the query, and it never gets shorter for a later one.
Unreloaded ==
  /\ coord.inputRev = coord.snapRev
  /\ coord.snap.lo = list.lo /\ coord.snap.hi <= list.hi
  /\ Tail > 0 => CountItems(coord.snap) <= Tail
  /\ \A a, b \in Live : Alike(a, b)
  /\ \A r \in Live :
       /\ r.revision.minor <= coord.inputRev.minor
       /\ CountItems(r.snap) <= CountItems(coord.snap)
       /\ r.revision = coord.snapRev =>
            r.snap.lo = coord.snap.lo /\ r.pattern.nth = coord.nth /\ r.pattern.deny = coord.deny

\* What is cached was found for the revision and the order that the matcher compares, in no
\* more items than whatever is asked for later: counts that agree mean the same items.
Cached ==
  /\ \A r \in Results : r.found = r.request
  /\ matcher.pc = "scan" => matcher.result \subseteq matcher.request
  /\ matcher.pc = "set" => matcher.result = matcher.request
  /\ \A f \in matcher.cache :
       /\ f.sort = matcher.sort /\ f.revision = matcher.revision
       /\ \A r \in Waiting \cup matcher.request : CountItems(f.snap) <= CountItems(r.snap)
  /\ \A r \in matcher.request :
       /\ r.sort = matcher.sort /\ r.revision = matcher.revision
       /\ \A q \in Waiting : CountItems(r.snap) <= CountItems(q.snap)
  /\ \A r \in Live : matcher.prevCount <= CountItems(r.snap)
  /\ matcher.prevCount <= CountItems(coord.snap)

\* A reload may give the counts of an old list to a new one; see ResultExact.
Exact == terminal.command = 0 => Unreloaded /\ Cached

\* Without a reload there is one session only.
LEMMA FirstSession ==
  ASSUME Sound, Sessions, terminal.command = 0
  PROVE  /\ coord.inputRev.major = 0 /\ list.major = 0 /\ coord.next = 0 /\ ~coord.useSnapshot
         /\ coord.snap.major = 0
         /\ \A r \in Requests : r.snap.major = 0 /\ r.revision.major = 0
         /\ \A r \in outgoing \cup Pending : r.command = 0
  <1>1. coord.inputRev.major = 0 /\ coord.next = 0
    BY NumberTypes DEF Sound, Commands
  <1>2. \A r \in outgoing \cup Pending : r.command = 0
    BY NumberTypes DEF Sound, Commands
  <1>3. ~coord.useSnapshot
    <2> SUFFICES ASSUME coord.useSnapshot PROVE FALSE
      OBVIOUS
    <2>1. coord.snap.major <= 0 - 1
      BY <1>1 DEF Sessions, UpTo
    <2> QED
      BY <2>1, MajorTypes DEF Sound
  <1>4. coord.snap.major = 0 /\ \A r \in Requests : r.snap.major = 0 /\ r.revision.major = 0
    BY <1>1, MajorTypes DEF Sound, Sessions, UpTo
  <1> QED
    BY <1>1, <1>2, <1>3, <1>4 DEF Sound, Reading

\* The requests that are waiting, worked on or cached have their types.
LEMMA LiveTypes ==
  ASSUME TypeOK
  PROVE  /\ Live \subseteq Requests /\ matcher.result \subseteq Requests
         /\ \A r \in Requests : /\ r \in Request /\ r.revision \in Revision
                               /\ r.revision.minor \in Nat /\ CountItems(r.snap) \in Nat
         /\ CountItems(coord.snap) \in Nat /\ coord.inputRev.minor \in Nat
         /\ coord.inputRev \in Revision
         /\ matcher.prevCount \in Nat
  <1>1. Live \subseteq Requests /\ matcher.result \subseteq Requests
    BY DEF Live, Waiting, Requests
  <1>2. \A s \in Snap : CountItems(s) \in Nat
    BY DEF Snap, CountItems
  <1>3. \A r \in Request : r.revision \in Revision /\ r.revision.minor \in Nat /\ r.snap \in Snap
    BY DEF Request, Revision
  <1>4. coord.snap \in Snap /\ coord.inputRev \in Revision /\ coord.inputRev.minor \in Nat
    BY DEF TypeOK, CoordTypes, CoordState, Revision
  <1>5. matcher.prevCount \in Nat
    BY DEF TypeOK, MatcherTypes
  <1> QED
    BY <1>1, <1>2, <1>3, <1>4, <1>5, RequestTypes

\* Steps that leave the coordinator and the matcher alone
LEMMA ExactFrame ==
  ASSUME TypeOK, Unreloaded, Cached, UNCHANGED <<coord, reqBox, matcher>>,
         list'.lo = list.lo, list'.hi = list.hi \/ list'.hi = list.hi + 1,
         Results' \subseteq Results
  PROVE  Unreloaded' /\ Cached'
  <1>1. Live' = Live /\ Waiting' = Waiting
    BY DEF Live, Waiting
  <1>2. coord'.snap.hi <= list'.hi
    BY DEF Unreloaded, TypeOK, CoordTypes, CoordState, BoxTypes, Snap
  <1>3. Unreloaded'
    BY <1>1, <1>2 DEF Unreloaded
  <1>4. Cached'
    BY <1>1 DEF Cached
  <1> QED
    BY <1>3, <1>4

\* A handler that has searched for the newest list
LEMMA ExactRefresh ==
  ASSUME TypeOK, TypeOK', Unreloaded, Cached, Asks("retry") \/ Asks("reset"),
         UNCHANGED <<box, shown, matcher>>,
         coord'.snap = list', coord'.snapRev = coord'.inputRev,
         CountItems(coord.snap) <= CountItems(list'),
         Tail > 0 => CountItems(list') <= Tail,
         \/ /\ coord'.inputRev = coord.inputRev /\ list'.lo = list.lo
            /\ coord'.nth = coord.nth /\ coord'.deny = coord.deny
         \/ coord'.inputRev.minor > coord.inputRev.minor
  PROVE  Unreloaded' /\ Cached'
  <1> DEFINE t == Target'
  <1>1. /\ t.snap = coord'.snap /\ t.revision = coord'.snapRev
        /\ t.pattern.nth = coord'.nth /\ t.pattern.deny = coord'.deny
    BY DEF Target
  <1>2. Waiting' \subseteq Waiting \cup {t}
    <2>1. reqBox \in [retry : SUBSET Request, reset : SUBSET Request, last : {"retry", "reset"}]
      BY DEF TypeOK, MatcherTypes
    <2>2. CASE Asks("retry")
      <3>1. reqBox' = [reqBox EXCEPT !.last = "retry", !["retry"] = {t}]
        BY <2>2 DEF Asks
      <3> HIDE DEF t
      <3> QED
        BY <2>1, <3>1 DEF Waiting
    <2>3. CASE Asks("reset")
      <3>1. reqBox' = [reqBox EXCEPT !.last = "reset", !["reset"] = {t}]
        BY <2>3 DEF Asks
      <3> HIDE DEF t
      <3> QED
        BY <2>1, <3>1 DEF Waiting
    <2> QED
      BY <2>2, <2>3
  <1> HIDE DEF t
  <1>3. Live' \subseteq Live \cup {t}
    BY <1>2 DEF Live
  <1>4. /\ \A r \in Live : r.revision.minor \in Nat /\ CountItems(r.snap) \in Nat
        /\ coord.inputRev.minor \in Nat /\ coord'.inputRev.minor \in Nat
        /\ CountItems(coord.snap) \in Nat /\ CountItems(coord'.snap) \in Nat
        /\ matcher.prevCount \in Nat
    <2>1. CountItems(coord'.snap) \in Nat /\ coord'.inputRev.minor \in Nat
      BY DEF TypeOK, CoordTypes, CoordState, Revision, Snap, CountItems
    <2> QED
      BY <2>1, LiveTypes
  <1>5. coord.inputRev.minor <= coord'.inputRev.minor
    BY <1>4
  <1>6. \A r \in Live : /\ r.revision.minor <= coord'.inputRev.minor
                       /\ CountItems(r.snap) <= CountItems(coord'.snap)
    BY <1>4, <1>5 DEF Unreloaded
  <1>7. ASSUME NEW r \in Live, r.revision = coord'.snapRev
        PROVE  /\ r.snap.lo = coord'.snap.lo /\ r.pattern.nth = coord'.nth
               /\ r.pattern.deny = coord'.deny
    <2>1. ~(coord'.inputRev.minor > coord.inputRev.minor)
      BY <1>4, <1>7 DEF Unreloaded
    <2> QED
      BY <1>7, <2>1 DEF Unreloaded
  <1>8. \A a, b \in Live' : Alike(a, b)
    BY <1>1, <1>3, <1>7 DEF Unreloaded, Alike
  <1>9. \A r \in Live' : /\ r.revision.minor <= coord'.inputRev.minor
                        /\ CountItems(r.snap) <= CountItems(coord'.snap)
    BY <1>1, <1>3, <1>4, <1>6
  <1>10. Unreloaded'
    <2>1. coord'.snap.lo = list'.lo /\ coord'.snap.hi <= list'.hi
      BY DEF TypeOK, CoordTypes, CoordState, Snap
    <2> QED
      BY <1>1, <1>3, <1>7, <1>8, <1>9, <2>1 DEF Unreloaded
  <1>11. \A r \in Live' : matcher.prevCount <= CountItems(r.snap)
    BY <1>1, <1>3, <1>4 DEF Cached
  <1>12. matcher.prevCount <= CountItems(coord'.snap)
    BY <1>4 DEF Cached
  <1>13. \A f \in matcher.cache : \A r \in Waiting' \cup matcher.request :
           CountItems(f.snap) <= CountItems(r.snap)
    BY <1>1, <1>2, <1>6 DEF Cached, Live
  <1>14. \A r \in matcher.request : \A q \in Waiting' : CountItems(r.snap) <= CountItems(q.snap)
    BY <1>1, <1>2, <1>6 DEF Cached, Live
  <1>15. Results' = Results
    BY DEF Results
  <1> QED
    BY <1>10, <1>11, <1>12, <1>13, <1>14, <1>15 DEF Cached

\* A trimmed list is one of an earlier revision with another start, or the same.
LEMMA TrimCounts ==
  ASSUME TypeOK, TypeOK', Unreloaded, NEW rev, NEW rev2, Trims(list, list', rev, rev2)
  PROVE  /\ CountItems(coord.snap) <= CountItems(list')
         /\ \/ list' = list /\ rev2 = rev
            \/ rev2.minor = rev.minor + 1
  <1>1. coord.snap \in Snap /\ list \in Snap /\ list' \in Snap
    BY DEF TypeOK, CoordTypes, CoordState, BoxTypes
  <1>2. CASE list' = list /\ rev2 = rev
    BY <1>1, <1>2 DEF Unreloaded, CountItems, Snap
  <1>3. CASE Tail > 0 /\ list'.lo = list.hi - Tail /\ rev2.minor = rev.minor + 1
    <2>1. list'.hi = list.hi
      BY DEF Trims
    <2>2. CountItems(list') = Tail
      BY <1>1, <1>3, <2>1, CoreAssumption DEF CountItems, Snap
    <2> QED
      BY <1>3, <2>2 DEF Unreloaded
  <1> QED
    BY <1>2, <1>3 DEF Trims

\* The handler of EvtReadNew and EvtReadFin keeps Unreloaded.
LEMMA ExactRead ==
  ASSUME Sound, TypeOK', Sessions, terminal.command = 0, Unreloaded, Cached,
         NEW e \in {"ReadNew", "ReadFin"}, AfterRead(e)
  PROVE  Unreloaded' /\ Cached'
  <1>1. TypeOK /\ ~coord.useSnapshot
    BY FirstSession DEF Sound
  <1>2. ~coord'.useSnapshot
    BY <1>1 DEF AfterRead
  <1>3. /\ Trims(list, list', coord.inputRev, coord'.inputRev)
        /\ Tail > 0 => CountItems(list') <= Tail
        /\ coord'.snap = list' /\ coord'.snapRev = coord'.inputRev
        /\ Asks("retry")
    BY <1>2 DEF AfterRead
  <1>4. /\ coord'.nth = coord.nth /\ coord'.deny = coord.deny
        /\ UNCHANGED <<box, shown, matcher>>
    BY <1>1 DEF AfterRead, AfterHandler
  <1>5. /\ CountItems(coord.snap) <= CountItems(list')
        /\ \/ list' = list /\ coord'.inputRev = coord.inputRev
           \/ coord'.inputRev.minor = coord.inputRev.minor + 1
    BY <1>1, <1>3, TrimCounts
  <1>6. coord'.inputRev.minor = coord.inputRev.minor + 1 =>
          coord'.inputRev.minor > coord.inputRev.minor
    BY <1>1, LiveTypes
  <1> QED
    BY <1>1, <1>3, <1>4, <1>5, <1>6, ExactRefresh

\* So does the handler of EvtSearchNew when it carries no command.
LEMMA ExactSearch ==
  ASSUME Sound, TypeOK', Sessions, Asked, terminal.command = 0, Unreloaded, Cached,
         NEW r, AfterSearch(r)
  PROVE  Unreloaded' /\ Cached'
  <1>1. TypeOK /\ ~coord.useSnapshot
    BY FirstSession DEF Sound
  <1>2. r \in box.searchNew /\ r \in Pending
    BY DEF AfterSearch, AfterHandler, Pending
  <1>3. r.command = 0 /\ r.changed
    BY <1>2, FirstSession DEF Asked, SearchRequests
  <1>4. ~coord'.useSnapshot
    BY <1>1, <1>3 DEF AfterSearch
  <1>5. /\ Trims(list, list', RevisionFor(r), coord'.inputRev)
        /\ Tail > 0 => CountItems(list') <= Tail
        /\ coord'.snap = list' /\ coord'.snapRev = coord'.inputRev
        /\ Asks("reset")
        /\ coord'.deny = Excluding(r)
        /\ coord'.nth = IF r.nth >= 0 THEN r.nth ELSE coord.nth
    BY <1>3, <1>4 DEF AfterSearch
  <1>6. UNCHANGED <<box, shown, matcher>>
    BY DEF AfterSearch, AfterHandler
  <1>7. /\ CountItems(coord.snap) <= CountItems(list')
        /\ \/ list' = list /\ coord'.inputRev = RevisionFor(r)
           \/ coord'.inputRev.minor = RevisionFor(r).minor + 1
    BY <1>1, <1>5, TrimCounts
  <1>8. coord.inputRev.minor \in Nat
    BY <1>1, LiveTypes
  <1>9. CASE Excludes(r) \/ r.nth >= 0
    <2>1. RevisionFor(r).minor = coord.inputRev.minor + 1
      BY <1>9 DEF RevisionFor
    <2>2. coord'.inputRev.minor > coord.inputRev.minor
      BY <1>7, <1>8, <2>1
    <2> QED
      BY <1>1, <1>5, <1>6, <1>7, <2>2, ExactRefresh
  <1>10. CASE ~(Excludes(r) \/ r.nth >= 0)
    <2>1. RevisionFor(r) = coord.inputRev /\ coord'.nth = coord.nth /\ coord'.deny = coord.deny
      BY <1>5, <1>10 DEF RevisionFor, Excluding
    <2>2. \/ list' = list /\ coord'.inputRev = coord.inputRev
          \/ coord'.inputRev.minor > coord.inputRev.minor
      BY <1>7, <1>8, <2>1
    <2> QED
      BY <1>1, <1>5, <1>6, <1>7, <2>1, <2>2, ExactRefresh
  <1> QED
    BY <1>9, <1>10

\* The matcher takes the last request: a result in the cache is of that very request.
LEMMA ExactTake ==
  ASSUME Sound, Sessions, terminal.command = 0, Unreloaded, Cached,
         NEW kind \in {"retry", "reset"}, NEW r \in reqBox[kind], Takes(kind, r)
  PROVE  Unreloaded' /\ Cached'
  <1>1. TypeOK /\ coord.inputRev \in Revision
    BY LiveTypes DEF Sound
  <1>2. r \in Waiting /\ r \in Live /\ r \in Requests
    BY DEF Waiting, Live, Requests
  <1>3. /\ matcher'.pc = "scan" /\ matcher'.request = {r} /\ matcher'.sort = r.sort
        /\ matcher'.revision = r.revision
        /\ UNCHANGED <<shown, box, coord, list>>
    BY DEF Takes, termVars, readVars
  <1>4. Waiting' = {}
    BY DEF Takes, EmptyBox, Waiting
  <1>5. /\ CountItems(r.snap) \in Nat /\ matcher.prevCount \in Nat
        /\ \A f \in Live : CountItems(f.snap) \in Nat
    BY <1>1, <1>2, LiveTypes
  <1>6. \/ /\ matcher'.cache = {} /\ matcher'.result = {}
           /\ matcher'.prevCount \in {matcher.prevCount, CountItems(r.snap)}
        \/ /\ r.sort = matcher.sort /\ r.revision = matcher.revision
           /\ CountItems(r.snap) = matcher.prevCount /\ matcher'.prevCount = matcher.prevCount
           /\ matcher'.cache = matcher.cache
           /\ matcher'.result = {f \in matcher.cache : /\ f.pattern.query = r.pattern.query
                                                      /\ f.final = r.final}
    BY DEF Takes, CacheStale
  <1>7. matcher'.cache \subseteq matcher.cache
    BY <1>6
  <1>8. Live' \subseteq Live
    BY <1>2, <1>3, <1>4, <1>7 DEF Live
  <1>9. Unreloaded'
    BY <1>3, <1>8 DEF Unreloaded
  <1>10. \A x \in Live' : matcher'.prevCount <= CountItems(x.snap)
    <2>1. CASE matcher'.cache = {} /\ matcher'.prevCount \in {matcher.prevCount, CountItems(r.snap)}
      <3>1. Live' = {r}
        BY <1>3, <1>4, <2>1 DEF Live
      <3>2. matcher.prevCount <= CountItems(r.snap)
        BY <1>2 DEF Cached
      <3> QED
        BY <1>5, <2>1, <3>1, <3>2
    <2>2. CASE matcher'.prevCount = matcher.prevCount
      BY <1>8, <2>2 DEF Cached
    <2> QED
      BY <1>6, <2>1, <2>2
  <1>11. matcher'.prevCount <= CountItems(coord.snap)
    BY <1>2, <1>5, <1>6 DEF Cached, Unreloaded
  <1>12. matcher'.result \subseteq {r}
    <2> SUFFICES ASSUME NEW f \in matcher'.result PROVE f = r
      OBVIOUS
    <2>1. /\ r.sort = matcher.sort /\ r.revision = matcher.revision
          /\ CountItems(r.snap) = matcher.prevCount
          /\ f \in matcher.cache /\ f.pattern.query = r.pattern.query /\ f.final = r.final
      BY <1>6
    <2>2. f \in Live /\ f \in Requests
      BY <2>1 DEF Live, Requests
    <2>3. f.sort = r.sort /\ f.revision = r.revision
      BY <2>1 DEF Cached
    <2>4. f.snap.lo = r.snap.lo /\ f.pattern.nth = r.pattern.nth /\ f.pattern.deny = r.pattern.deny
      BY <1>2, <2>2, <2>3 DEF Unreloaded, Alike
    <2>5. CountItems(f.snap) = CountItems(r.snap)
      <3>1. CountItems(f.snap) <= CountItems(r.snap)
        BY <1>2, <2>1 DEF Cached
      <3>2. matcher.prevCount <= CountItems(f.snap)
        BY <2>2 DEF Cached
      <3> QED
        BY <1>5, <2>1, <2>2, <3>1, <3>2
    <2>6. f \in Request /\ r \in Request
      BY <1>1, <1>2, <2>2, LiveTypes
    <2>7. f.snap = r.snap
      <3>1. f.snap \in Snap /\ r.snap \in Snap
        BY <2>6 DEF Request
      <3>2. f.snap.major = r.snap.major
        BY <1>2, <2>2, FirstSession
      <3>3. f.snap.hi = r.snap.hi
        BY <2>4, <2>5, <3>1 DEF CountItems, Snap
      <3> QED
        BY <2>4, <3>1, <3>2, <3>3 DEF Snap
    <2>8. f.pattern = r.pattern
      <3>1. f.pattern \in Pattern /\ r.pattern \in Pattern
        BY <2>6 DEF Request
      <3> QED
        BY <2>1, <2>4, <3>1 DEF Pattern
    <2> QED
      BY <2>1, <2>3, <2>6, <2>7, <2>8 DEF Request
  <1>13. \A f \in matcher'.cache : f.sort = r.sort /\ f.revision = r.revision
                                 /\ CountItems(f.snap) <= CountItems(r.snap)
    BY <1>2, <1>6 DEF Cached
  <1>14. Results' = Results
    BY <1>3 DEF Results
  <1>15. Cached'
    BY <1>3, <1>4, <1>10, <1>11, <1>12, <1>13, <1>14 DEF Cached
  <1> QED
    BY <1>9, <1>15

\* A scan that ends caches what it has found for its own request,
LEMMA ExactScan ==
  ASSUME TypeOK, Unreloaded, Cached, ScanDone \/ ScanCancelled \/ SetSearchFin
  PROVE  Unreloaded' /\ Cached'
  <1>1. /\ matcher \in [pc : {"wait", "scan", "set"}, request : SUBSET Request,
                        result : SUBSET Request, cache : SUBSET Request,
                        prevCount : 0 .. MaxItems, revision : Revision, sort : BOOLEAN]
        /\ Single(matcher.request)
    BY DEF TypeOK, MatcherTypes
  <1>2. UNCHANGED <<shown, coord, list, reqBox>>
    BY DEF ScanDone, ScanCancelled, SetSearchFin, termVars, readVars
  <1>3. CASE ScanDone
    <2>1. PICK r \in matcher.request :
            LET found == IF matcher.result # {} THEN matcher.result ELSE {r}
                others == {f \in matcher.cache : f.pattern.query # r.pattern.query}
            IN  matcher' = [matcher EXCEPT !.pc = "set", !.result = found,
                                            !.cache = others \cup found]
      BY <1>3 DEF ScanDone
    <2>2. matcher.result \subseteq matcher.request /\ matcher.request = {r}
      <3>1. matcher.request = {r}
        BY <1>1 DEF Single
      <3>2. matcher.result \subseteq matcher.request
        BY <1>3 DEF ScanDone, Cached
      <3> QED
        BY <3>1, <3>2
    <2>3. (IF matcher.result # {} THEN matcher.result ELSE {r}) = {r}
      BY <2>2
    <2>4. /\ matcher'.pc = "set" /\ matcher'.result = {r} /\ matcher'.request = {r}
          /\ matcher'.cache \subseteq matcher.cache \cup {r}
          /\ matcher'.prevCount = matcher.prevCount
          /\ matcher'.sort = matcher.sort /\ matcher'.revision = matcher.revision
      BY <1>1, <2>1, <2>2, <2>3
    <2>5. Live' \subseteq Live /\ Waiting' = Waiting /\ Results' = Results
      BY <1>2, <1>3, <2>2, <2>4 DEF ScanDone, Live, Waiting, Results
    <2>6. Unreloaded'
      BY <1>2, <2>5 DEF Unreloaded
    <2>7. \A f \in matcher'.cache :
            /\ f.sort = matcher.sort /\ f.revision = matcher.revision
            /\ \A q \in Waiting \cup {r} : CountItems(f.snap) <= CountItems(q.snap)
      <3>1. CountItems(r.snap) \in Nat
        BY <2>2, LiveTypes DEF Requests
      <3> QED
        BY <2>2, <2>4, <3>1 DEF Cached
    <2>8. Cached'
      BY <1>2, <2>2, <2>4, <2>5, <2>7 DEF Cached
    <2> QED
      BY <2>6, <2>8
  <1>4. CASE ScanCancelled
    <2>1. /\ matcher'.pc = "wait" /\ matcher'.request = {} /\ matcher'.cache = matcher.cache
          /\ matcher'.prevCount = matcher.prevCount
          /\ matcher'.sort = matcher.sort /\ matcher'.revision = matcher.revision
      BY <1>1, <1>4 DEF ScanCancelled
    <2>2. Live' \subseteq Live /\ Waiting' = Waiting /\ Results' = Results
      BY <1>2, <1>4, <2>1 DEF ScanCancelled, Live, Waiting, Results
    <2>3. Unreloaded'
      BY <1>2, <2>2 DEF Unreloaded
    <2>4. Cached'
      BY <1>2, <2>1, <2>2 DEF Cached
    <2> QED
      BY <2>3, <2>4
  <1>5. CASE SetSearchFin
    <2>1. /\ matcher'.pc = "wait" /\ matcher'.request = {} /\ matcher'.cache = matcher.cache
          /\ matcher'.prevCount = matcher.prevCount
          /\ matcher'.sort = matcher.sort /\ matcher'.revision = matcher.revision
      BY <1>1, <1>5 DEF SetSearchFin
    <2>2. Live' \subseteq Live /\ Waiting' = Waiting
      BY <1>2, <2>1 DEF Live, Waiting
    <2>3. \A x \in Results' : x.found = x.request
      <3>1. PICK r \in matcher.request, f \in matcher.result :
              box' = [box EXCEPT !.searchFin = {[request |-> r, found |-> f]}]
        BY <1>5 DEF SetSearchFin
      <3>2. f = r
        BY <1>1, <1>5, <3>1 DEF SetSearchFin, Cached, Single
      <3>3. box'.searchFin = {[request |-> r, found |-> f]}
        BY <3>1 DEF TypeOK, BoxTypes
      <3> QED
        BY <1>2, <3>2, <3>3 DEF Results, Cached
    <2>4. Unreloaded'
      BY <1>2, <2>2 DEF Unreloaded
    <2>5. Cached'
      BY <1>2, <2>1, <2>2, <2>3 DEF Cached
    <2> QED
      BY <2>4, <2>5
  <1> QED
    BY <1>3, <1>4, <1>5

\* A reload is never taken back.
LEMMA CommandStep ==
  ASSUME TypeOK, [Next]_vars
  PROVE  terminal'.command = terminal.command \/ terminal'.command = terminal.command + 1
  <1>1. CASE \E f \in Features : Operate(f)
    BY <1>1 DEF TypeOK, TerminalTypes, Operate
  <1>2. CASE ~(\E f \in Features : Operate(f))
    <2>1. UNCHANGED terminal
      BY <1>2 DEF Next, Coordinator, Matcher, vars, termVars, Push, SetReadNew, EndOfInput,
         SetReadFin,
         SetSearchNew, Take, Clear, HandleKilledFin, HandleRead, HandleSearchNew, HandleSearchFin,
         TakeRequest, ScanDone, ScanCancelled, SetSearchFin
    <2> QED
      BY <2>1
  <1> QED
    BY <1>1, <1>2

\* and so every step keeps what is cached exact,
LEMMA ExactStep == Sound /\ Sessions /\ Asked /\ Exact /\ [Next]_vars => Exact'
  <1> SUFFICES ASSUME Sound, Sessions, Asked, Exact, [Next]_vars, terminal'.command = 0
               PROVE  Unreloaded' /\ Cached'
    BY DEF Exact
  <1>1. TypeOK /\ TypeOK' /\ list \in Snap
    BY TypeStep DEF Sound, TypeOK, BoxTypes
  <1>2. terminal.command = 0 /\ Unreloaded /\ Cached
    BY <1>1, CommandStep, NumberTypes DEF Exact
  <1>3. CASE Push \/ SetReadNew \/ EndOfInput \/ SetReadFin
    <2>1. /\ UNCHANGED <<coord, reqBox, matcher, shown>> /\ box'.searchFin = box.searchFin
          /\ list'.lo = list.lo /\ (list'.hi = list.hi \/ list'.hi = list.hi + 1)
      BY <1>1, <1>3 DEF Push, SetReadNew, EndOfInput, SetReadFin, termVars, matchVars, Snap,
         TypeOK, BoxTypes
    <2>2. Results' = Results
      BY <2>1 DEF Results
    <2> QED
      BY <1>1, <1>2, <2>1, <2>2, ExactFrame
  <1>4. CASE SetSearchNew \/ (\E f \in Features : Operate(f)) \/ Take \/ Clear
    <2>1. /\ UNCHANGED <<coord, reqBox, matcher, shown, list>>
          /\ box'.searchFin \subseteq box.searchFin
      <3>1. CASE SetSearchNew
        BY <1>1, <3>1 DEF SetSearchNew, readVars, matchVars, TypeOK, BoxTypes
      <3>2. CASE \E f \in Features : Operate(f)
        BY <3>2 DEF Operate, readVars, matchVars
      <3>3. CASE Take
        BY <3>3 DEF Take, termVars, readVars, matchVars
      <3>4. CASE Clear
        BY <3>4 DEF Clear, termVars, readVars, matchVars
      <3> QED
        BY <1>4, <3>1, <3>2, <3>3, <3>4
    <2>2. Results' \subseteq Results
      BY <2>1 DEF Results
    <2> QED
      BY <1>1, <1>2, <2>1, <2>2, ExactFrame
  <1>5. CASE HandleKilledFin
    BY <1>2, <1>5, FirstSession DEF HandleKilledFin
  <1>6. ASSUME NEW e \in {"ReadNew", "ReadFin"}, HandleRead(e) PROVE Unreloaded' /\ Cached'
    BY <1>1, <1>2, <1>6, ReadFacts, ExactRead
  <1>7. CASE HandleSearchNew
    <2>1. PICK r \in box.searchNew : AfterSearch(r)
      BY <1>7, SearchFacts
    <2> QED
      BY <1>1, <1>2, <2>1, ExactSearch
  <1>8. CASE HandleSearchFin
    <2>1. UNCHANGED <<coord, reqBox, matcher, box, list>> /\ shown' \in box.searchFin
      BY <1>8 DEF HandleSearchFin, Handle, Start, matchVars
    <2>2. Results' \subseteq Results
      BY <2>1 DEF Results
    <2> QED
      BY <1>1, <1>2, <2>1, <2>2, ExactFrame
  <1>9. CASE TakeRequest
    <2>1. PICK kind \in {"retry", "reset"} : \E r \in reqBox[kind] : Takes(kind, r)
      BY <1>9 DEF TakeRequest, Takes
    <2> QED
      BY <1>2, <2>1, ExactTake
  <1>10. CASE ScanDone \/ ScanCancelled \/ SetSearchFin
    BY <1>1, <1>2, <1>10, ExactScan
  <1>11. CASE UNCHANGED vars
    <2>1. UNCHANGED <<coord, reqBox, matcher, shown, list, box>>
      BY <1>11 DEF vars, termVars, readVars, matchVars
    <2> QED
      BY <1>1, <1>2, <2>1, ExactFrame DEF Results
  <1> QED
    BY <1>3, <1>4, <1>5, <1>6, <1>7, <1>8, <1>9, <1>10, <1>11 DEF Next, Coordinator, Matcher

\* as it is at the start.
LEMMA InitExact == Init => Asked /\ Exact
  <1> SUFFICES ASSUME Init PROVE Asked /\ Exact
    OBVIOUS
  <1>1. Asked
    BY DEF Init, Asked, SearchRequests
  <1>2. Live = {} /\ Waiting = {}
    BY DEF Init, Live, Waiting
  <1>3. Unreloaded
    BY <1>2, CoreAssumption DEF Init, Unreloaded, Snap0, Rev0, CountItems
  <1>4. Cached
    <2>1. \A r \in Results : r.found = r.request
      <3>1. shown.found = shown.request
        BY DEF Init
      <3>2. Results = {shown}
        BY DEF Init, Results
      <3> QED
        BY <3>1, <3>2
    <2>2. matcher.cache = {} /\ matcher.request = {} /\ matcher.pc = "wait" /\ matcher.prevCount = 0
      BY DEF Init
    <2>3. CountItems(coord.snap) = 0
      BY DEF Init, Snap0, CountItems
    <2> QED
      BY <1>2, <2>1, <2>2, <2>3 DEF Cached
  <1> QED
    BY <1>1, <1>3, <1>4 DEF Exact

\* A result that is displayed was found in the items, by the fields and with the denylist of
\* its request, before a first reload: whatever Matcher.Loop takes from its cache was found for
\* the same revision, and so in the same list, and for as many items.
THEOREM CacheNeverWrong == Spec => []ResultExact
  <1>1. Exact => ResultExact
    BY DEF Exact, Cached, Results, ResultExact
  <1> QED
    BY <1>1, InitSound, SoundStep, InitSessions, SessionsStep, AskedStep, InitExact, ExactStep,
       PTL DEF Spec

-----------------------------------------------------------------------------
(* What the user has asked for is on its way to the display *)

\* The last command, --nth and order are with the terminal, with the event box or with Run.
LastCommand ==
  /\ \A o \in outgoing : o.command # 0 => o.command = terminal.command
  /\ (\A o \in outgoing : o.command = 0) =>
       \A r \in Pending : r.command # 0 => r.command = terminal.command
  /\ (\A r \in outgoing \cup Pending : r.command = 0) =>
       terminal.command = IF coord.next # 0 THEN coord.next ELSE coord.command

LastNth ==
  /\ \A o \in outgoing : o.nth # -1 => o.nth = terminal.nth
  /\ (\A o \in outgoing : o.nth = -1) => \A r \in Pending : r.nth # -1 => r.nth = terminal.nth
  /\ (\A r \in outgoing \cup Pending : r.nth = -1) => coord.nth = terminal.nth

LastSort ==
  /\ \A o \in outgoing : o.sort = terminal.sort
  /\ outgoing = {} => \A r \in Pending : r.sort = terminal.sort
  /\ outgoing = {} /\ Pending = {} => coord.sort = terminal.sort

\* So are the items excluded of the session that is read, but not while an earlier one is searched.
LastDeny ==
  coord.next = 0 /\ ~coord.useSnapshot =>
    /\ coord.deny \subseteq {coord.inputRev.major}
    /\ coord.inputRev.major \in terminal.excluded <=>
         \/ coord.inputRev.major \in coord.deny
         \/ \E r \in outgoing \cup Pending : coord.inputRev.major \in r.deny

\* nth, command and exclusions are set once: unlike the order they can be replaced.
Carried ==
  /\ LastSort
  /\ \A r \in SearchRequests : r.deny \subseteq terminal.excluded
  /\ dropped = {} => LastCommand /\ LastNth /\ LastDeny

\* The newest request, or what it has become
Newest ==
  IF reqBox[reqBox.last] # {} THEN reqBox[reqBox.last]
  ELSE IF matcher.request # {} THEN matcher.request
  ELSE IF Answered # {} THEN {r.request : r \in Answered} ELSE {shown.request}

\* The newest of two requests is the last one set, and the matcher works when it has one.
\* Once the reader is done and the user waits, the newest one is for all there is.
Answering ==
  /\ Waiting # {} => reqBox[reqBox.last] # {}
  /\ matcher.pc = "wait" <=> matcher.request = {}
  /\ dropped = {} /\ ~coord.reading /\ outgoing = {} /\ Pending = {} =>
       Newest = {Target} /\ coord.snap = list

\* What is dropped is recorded for good.
LEMMA DroppedStep ==
  ASSUME [Next]_vars PROVE dropped \subseteq dropped'
  <1>1. CASE UNCHANGED dropped
    BY <1>1
  <1>2. CASE SetSearchNew \/ TakeRequest
    BY <1>2 DEF SetSearchNew, TakeRequest
  <1>3. CASE Push \/ SetReadNew \/ EndOfInput \/ SetReadFin \/ (\E f \in Features : Operate(f))
    BY <1>1, <1>3 DEF Push, SetReadNew, EndOfInput, SetReadFin, Operate
  <1>4. CASE Coordinator
    BY <1>1, <1>4 DEF Coordinator, Take, Clear, HandleKilledFin, HandleRead, HandleSearchNew,
       HandleSearchFin, Handle
  <1>5. CASE ScanDone \/ ScanCancelled \/ SetSearchFin
    BY <1>1, <1>5 DEF ScanDone, ScanCancelled, SetSearchFin
  <1> QED
    BY <1>1, <1>2, <1>3, <1>4, <1>5 DEF Next, Matcher, vars

\* Steps that have nothing to do with the requests of the user
LEMMA CarryFrame ==
  ASSUME Sound, [Next]_vars,
         ~SetSearchNew, ~(\E f \in Features : Operate(f)), ~HandleSearchNew
  PROVE  /\ UNCHANGED <<terminal, outgoing>> /\ Pending' = Pending
         /\ SearchRequests' \subseteq SearchRequests
  <1>1. TypeOK /\ Reading
    BY DEF Sound
  <1>2. CASE Push \/ SetReadNew \/ EndOfInput \/ SetReadFin \/ Matcher
    <2>1. UNCHANGED <<terminal, outgoing, batch>> /\ box'.searchNew = box.searchNew
      BY <1>1, <1>2 DEF Push, SetReadNew, EndOfInput, SetReadFin, Matcher, TakeRequest, ScanDone,
         ScanCancelled, SetSearchFin, termVars, TypeOK, BoxTypes
    <2> QED
      BY <2>1 DEF Pending, SearchRequests
  <1>3. CASE Take
    BY <1>3 DEF Take, termVars, Pending, SearchRequests
  <1>4. CASE Clear
    BY <1>1, <1>4 DEF Clear, termVars, Pending, SearchRequests, TypeOK, BoxTypes
  <1>5. ASSUME NEW e \in {"ReadNew", "ReadFin", "SearchFin"}, e \in batch, batch' = batch \ {e},
               UNCHANGED <<box, terminal, outgoing>>
        PROVE  /\ UNCHANGED <<terminal, outgoing>> /\ Pending' = Pending
               /\ SearchRequests' \subseteq SearchRequests
    BY <1>1, <1>5, OtherEvents DEF SearchRequests
  <1>6. CASE HandleKilledFin
    BY <1>5, <1>6, KilledFinFacts DEF AfterKilledFin, AfterHandler
  <1>7. CASE HandleRead("ReadNew")
    BY <1>5, <1>7, ReadFacts DEF AfterRead, AfterHandler
  <1>8. CASE HandleRead("ReadFin")
    BY <1>5, <1>8, ReadFacts DEF AfterRead, AfterHandler
  <1>9. CASE HandleSearchFin
    BY <1>5, <1>9 DEF HandleSearchFin, Handle
  <1>10. CASE UNCHANGED vars
    BY <1>10 DEF vars, termVars, Pending, SearchRequests
  <1> QED
    BY <1>2, <1>3, <1>4, <1>6, <1>7, <1>8, <1>9, <1>10 DEF Next, Coordinator

\* A searchRequest is set, and nothing that it replaces says something once only.
LEMMA CarrySet ==
  ASSUME Sound, SetSearchNew
  PROVE  /\ Pending' = outgoing /\ outgoing' = {} /\ outgoing # {}
         /\ UNCHANGED <<terminal, coord, list>>
         /\ SearchRequests' \subseteq SearchRequests
         /\ dropped' = {} =>
              \A r \in Pending : r.command = 0 /\ r.nth = -1 /\ r.deny = {}
  <1>1. TypeOK
    BY DEF Sound
  <1>2. batch = {} /\ batch' = {} /\ box'.searchNew = outgoing /\ outgoing' = {} /\ outgoing # {}
        /\ UNCHANGED <<terminal, coord, list>>
    BY <1>1 DEF SetSearchNew, BoxUnlocked, readVars, TypeOK, BoxTypes
  <1>3. ASSUME dropped' = {}, NEW r \in Pending
        PROVE  r.command = 0 /\ r.nth = -1 /\ r.deny = {}
    <2>1. r \in box.searchNew /\ r \in SearchRequest
      BY <1>1, <1>2 DEF Pending, TypeOK, BoxTypes
    <2>2. ~HasPayload(r)
      BY <1>3, <2>1 DEF SetSearchNew
    <2> QED
      BY <2>1, <2>2 DEF HasPayload, SearchRequest
  <1> QED
    BY <1>2, <1>3 DEF Pending, SearchRequests

\* The user does something.
LEMMA CarryOperate ==
  ASSUME Sound, NEW f \in Features, Operate(f)
  PROVE  /\ outgoing = {} /\ Pending' = Pending /\ box' = box /\ coord' = coord /\ outgoing' # {}
         /\ dropped' = dropped
         /\ \A o \in outgoing' :
              /\ o.sort = terminal'.sort
              /\ \/ o.nth = -1 /\ terminal'.nth = terminal.nth
                 \/ o.nth # -1 /\ o.nth = terminal'.nth
              /\ \/ o.command = 0 /\ terminal'.command = terminal.command
                 \/ o.command # 0 /\ o.command = terminal'.command
              /\ terminal'.excluded = terminal.excluded \cup o.deny
  <1>1. TypeOK
    BY DEF Sound
  <1> DEFINE rev == shown.found.revision
             reload == f \in {"reload", "reload-sync", "type+reload"}
             command == IF reload THEN terminal.command + 1 ELSE 0
             sort == IF f = "sort" THEN ~terminal.sort ELSE terminal.sort
             nth == IF f = "nth" THEN 1 - terminal.nth ELSE terminal.nth
             deny == IF f = "exclude" THEN {rev.major} ELSE {}
             asked == [sort |-> sort, nth |-> IF f = "nth" THEN nth ELSE -1,
                       deny |-> deny, command |-> command, sync |-> f = "reload-sync",
                       changed |-> f \notin {"reload", "reload-sync"}, revision |-> rev]
  <1>2. PICK q \in Query :
          /\ terminal' = [terminal EXCEPT !.query = q, !.sort = sort, !.nth = nth,
                            !.excluded = @ \cup deny, !.ops = @ + 1,
                            !.command = IF reload THEN command ELSE @]
          /\ outgoing' = {asked}
    BY DEF Operate
  <1>3. outgoing = {} /\ UNCHANGED <<box, batch, coord, dropped>>
    BY DEF Operate
  <1>4. /\ terminal'.sort = sort /\ terminal'.nth = nth
        /\ terminal'.excluded = terminal.excluded \cup deny
        /\ terminal'.command = IF reload THEN command ELSE terminal.command
    <2>1. terminal \in [query : Query, sort : BOOLEAN, nth : 0 .. 1, excluded : SUBSET Session,
                        command : Session, ops : 0 .. MaxOps]
      BY <1>1 DEF TypeOK, TerminalTypes
    <2> HIDE DEF sort, nth, deny, reload, command
    <2> QED
      BY <1>2, <2>1
  <1>5. (f # "nth" => nth = terminal.nth) /\ (f = "nth" => nth # -1)
    <2>1. terminal.nth \in 0 .. 1
      BY <1>1 DEF TypeOK, TerminalTypes
    <2> QED
      BY <2>1
  <1>6. (reload => command # 0) /\ (~reload => command = 0)
    BY <1>1, NumberTypes
  <1>7. /\ asked.sort = sort /\ asked.deny = deny /\ asked.command = command
        /\ asked.nth = IF f = "nth" THEN nth ELSE -1
    OBVIOUS
  <1> HIDE DEF rev, reload, command, sort, nth, deny, asked
  <1> QED
    BY <1>2, <1>3, <1>4, <1>5, <1>6, <1>7 DEF Pending

\* The request that is handled is the only one.
LEMMA CarryHandled ==
  ASSUME Sound, NEW r, AfterSearch(r)
  PROVE  /\ Pending = {r} /\ Pending' = {} /\ UNCHANGED <<terminal, outgoing, box, dropped>>
         /\ r \in SearchRequest
  <1>1. TypeOK /\ Reading
    BY DEF Sound
  <1>2. "SearchNew" \in batch /\ batch' = batch \ {"SearchNew"} /\ r \in box.searchNew
        /\ UNCHANGED <<terminal, outgoing, box, dropped>>
    BY DEF AfterSearch, AfterHandler
  <1>3. box.searchNew \subseteq SearchRequest /\ Single(box.searchNew)
    BY <1>1 DEF TypeOK, BoxTypes
  <1>4. Pending = {r}
    BY <1>2, <1>3 DEF Pending, Single
  <1> QED
    BY <1>1, <1>2, <1>3, <1>4, OtherEvents

\* What Run does with its variables when it handles something else
LEMMA OtherHandlers ==
  ASSUME Sound, [Next]_vars, ~HandleSearchNew
  PROVE  /\ coord'.sort = coord.sort /\ coord'.nth = coord.nth
         /\ \/ coord'.next = coord.next /\ coord'.command = coord.command
            \/ coord.next # 0 /\ coord'.next = 0 /\ coord'.command = coord.next
  <1>1. CASE UNCHANGED coord
    BY <1>1
  <1>2. CASE HandleKilledFin
    BY <1>2, KilledFinFacts DEF AfterKilledFin, NewSession
  <1>3. ASSUME NEW e \in {"ReadNew", "ReadFin"}, HandleRead(e)
        PROVE  /\ coord'.sort = coord.sort /\ coord'.nth = coord.nth
               /\ coord'.next = coord.next /\ coord'.command = coord.command
    BY <1>3, ReadFacts DEF AfterRead
  <1>4. CASE Push \/ SetReadNew \/ EndOfInput \/ SetReadFin \/ SetSearchNew
    BY <1>1, <1>4 DEF Push, SetReadNew, EndOfInput, SetReadFin, SetSearchNew
  <1>5. CASE \E f \in Features : Operate(f)
    BY <1>1, <1>5 DEF Operate
  <1>6. CASE Take \/ Clear \/ HandleSearchFin
    BY <1>1, <1>6 DEF Take, Clear, HandleSearchFin, Handle, Start
  <1>7. CASE Matcher
    BY <1>1, <1>7 DEF Matcher, TakeRequest, ScanDone, ScanCancelled, SetSearchFin
  <1> QED
    BY <1>1, <1>2, <1>3, <1>4, <1>5, <1>6, <1>7 DEF Next, Coordinator, vars

\* A newer searchRequest repeats the order, so one that is dropped does no harm.
LEMMA LastSortStep == Sound /\ LastSort /\ [Next]_vars => LastSort'
  <1> SUFFICES ASSUME Sound, LastSort, [Next]_vars PROVE LastSort'
    OBVIOUS
  <1>1. CASE SetSearchNew
    BY <1>1, CarrySet DEF LastSort
  <1>2. ASSUME NEW f \in Features, Operate(f) PROVE LastSort'
    BY <1>2, CarryOperate DEF LastSort
  <1>3. CASE HandleSearchNew
    <2>1. PICK r \in box.searchNew : AfterSearch(r)
      BY <1>3, SearchFacts
    <2>2. coord'.sort = r.sort
      BY <2>1 DEF AfterSearch
    <2> QED
      BY <2>1, <2>2, CarryHandled DEF LastSort
  <1>4. CASE ~SetSearchNew /\ ~(\E f \in Features : Operate(f)) /\ ~HandleSearchNew
    BY <1>4, CarryFrame, OtherHandlers DEF LastSort
  <1> QED
    BY <1>1, <1>2, <1>3, <1>4

\* nth is set once: it arrives unless its searchRequest is replaced.
LEMMA LastNthStep == Sound /\ dropped' = {} /\ LastNth /\ [Next]_vars => LastNth'
  <1> SUFFICES ASSUME Sound, dropped' = {}, LastNth, [Next]_vars PROVE LastNth'
    OBVIOUS
  <1>1. CASE SetSearchNew
    BY <1>1, CarrySet DEF LastNth
  <1>2. ASSUME NEW f \in Features, Operate(f) PROVE LastNth'
    BY <1>2, CarryOperate DEF LastNth
  <1>3. CASE HandleSearchNew
    <2>1. PICK r \in box.searchNew : AfterSearch(r)
      BY <1>3, SearchFacts
    <2>2. coord'.nth = IF r.nth # -1 THEN r.nth ELSE coord.nth
      BY <2>1, CarryHandled DEF AfterSearch, SearchRequest
    <2> QED
      BY <2>1, <2>2, CarryHandled DEF LastNth
  <1>4. CASE ~SetSearchNew /\ ~(\E f \in Features : Operate(f)) /\ ~HandleSearchNew
    BY <1>4, CarryFrame, OtherHandlers DEF LastNth
  <1> QED
    BY <1>1, <1>2, <1>3, <1>4

\* So does the command, which may wait until the reader has ended,
LEMMA LastCommandStep == Sound /\ dropped' = {} /\ LastCommand /\ [Next]_vars => LastCommand'
  <1> SUFFICES ASSUME Sound, dropped' = {}, LastCommand, [Next]_vars PROVE LastCommand'
    OBVIOUS
  <1>1. CASE SetSearchNew
    BY <1>1, CarrySet DEF LastCommand
  <1>2. ASSUME NEW f \in Features, Operate(f) PROVE LastCommand'
    BY <1>2, CarryOperate DEF LastCommand
  <1>3. CASE HandleSearchNew
    <2>1. PICK r \in box.searchNew : AfterSearch(r)
      BY <1>3, SearchFacts
    <2>2. /\ r.command = 0 => coord'.next = coord.next /\ coord'.command = coord.command
          /\ r.command # 0 => \/ coord'.next = r.command
                              \/ coord'.next = 0 /\ coord'.command = r.command
      BY <2>1 DEF AfterSearch, NewSession
    <2> QED
      BY <2>1, <2>2, CarryHandled DEF LastCommand
  <1>4. CASE ~SetSearchNew /\ ~(\E f \in Features : Operate(f)) /\ ~HandleSearchNew
    BY <1>4, CarryFrame, OtherHandlers DEF LastCommand
  <1> QED
    BY <1>1, <1>2, <1>3, <1>4

\* The exclusions refer to sessions there have been.
LEMMA DenyRange ==
  ASSUME Sound, Sessions, Carried
  PROVE  /\ coord.inputRev.major + 1 \notin terminal.excluded
         /\ \A r \in outgoing \cup Pending : coord.inputRev.major + 1 \notin r.deny
         /\ coord.useSnapshot /\ coord.next = 0 =>
              /\ coord.inputRev.major \notin terminal.excluded
              /\ \A r \in outgoing \cup Pending : coord.inputRev.major \notin r.deny
  <1>1. coord.inputRev.major \in Nat /\ \A e \in terminal.excluded : e \in Nat
    BY NumberTypes, MajorTypes DEF Sound
  <1>2. coord.inputRev.major + 1 \notin terminal.excluded
    BY <1>1 DEF Sessions, UpTo
  <1>3. coord.useSnapshot /\ coord.next = 0 => coord.inputRev.major \notin terminal.excluded
    BY <1>1 DEF Sessions, UpTo
  <1>4. \A r \in outgoing \cup Pending : r.deny \subseteq terminal.excluded
    BY DEF Carried, SearchRequests, Pending
  <1> QED
    BY <1>2, <1>3, <1>4

\* and so do the items to exclude, which a reload forgets.
LEMMA LastDenyStep ==
  ASSUME Sound, Sessions, Asked, Carried, [Next]_vars, dropped' = {}, LastDeny
  PROVE  LastDeny'
  <1>1. TypeOK /\ Reading
    BY DEF Sound
  <1>2. CASE SetSearchNew
    BY <1>2, CarrySet DEF LastDeny
  <1>3. ASSUME NEW f \in Features, Operate(f) PROVE LastDeny'
    <2>1. /\ outgoing = {} /\ Pending' = Pending /\ coord' = coord /\ outgoing' # {}
          /\ \A o \in outgoing' : terminal'.excluded = terminal.excluded \cup o.deny
      BY <1>3, CarryOperate
    <2> QED
      BY <2>1 DEF LastDeny
  <1>4. CASE HandleSearchNew
    <2>1. PICK r \in box.searchNew : AfterSearch(r)
      BY <1>4, SearchFacts
    <2>2. Pending = {r} /\ Pending' = {} /\ UNCHANGED <<terminal, outgoing>>
      BY <2>1, CarryHandled
    <2>3. CASE r.command # 0 /\ ~coord.reading
      <3>1. /\ coord'.inputRev.major = coord.inputRev.major + 1
            /\ coord'.deny = IF r.sync THEN Excluding(r) ELSE {}
            /\ coord'.useSnapshot = r.sync
        BY <2>1, <2>3 DEF AfterSearch, NewSession
      <3>2. ~coord'.useSnapshot => coord'.deny = {}
        BY <3>1
      <3> QED
        BY <2>2, <3>1, <3>2, DenyRange DEF LastDeny
    <2>4. CASE r.command # 0 /\ coord.reading
      <3>1. coord'.next # 0
        BY <2>1, <2>4 DEF AfterSearch
      <3> QED
        BY <3>1 DEF LastDeny
    <2>5. CASE r.command = 0
      <3>1. /\ coord'.next = coord.next /\ coord'.useSnapshot = coord.useSnapshot
            /\ coord'.deny = Excluding(r)
        BY <2>1, <2>5 DEF AfterSearch
      <3>2. coord'.inputRev.major = coord.inputRev.major
        BY <2>1, <2>5 DEF AfterSearch, Trims, RevisionFor
      <3>3. r.deny \in {{}, {r.revision.major}}
        BY <2>1 DEF Asked, SearchRequests
      <3> QED
        BY <2>2, <3>1, <3>2, <3>3 DEF LastDeny, Excluding, Excludes
    <2> QED
      BY <2>3, <2>4, <2>5
  <1>5. CASE HandleKilledFin
    <2>1. AfterKilledFin /\ UNCHANGED <<terminal, outgoing>> /\ Pending' = Pending
      BY <1>1, <1>5, KilledFinFacts, OtherEvents DEF AfterKilledFin, AfterHandler
    <2>2. /\ coord'.inputRev.major = coord.inputRev.major + 1
          /\ coord'.useSnapshot = coord.useSnapshot
          /\ coord'.deny = IF coord.useSnapshot THEN coord.deny ELSE {}
      BY <2>1 DEF AfterKilledFin, NewSession
    <2> QED
      BY <2>1, <2>2, DenyRange DEF LastDeny
  <1>6. ASSUME NEW e \in {"ReadNew", "ReadFin"}, HandleRead(e) PROVE LastDeny'
    <2>1. AfterRead(e) /\ UNCHANGED <<terminal, outgoing>> /\ Pending' = Pending
      BY <1>1, <1>6, ReadFacts, OtherEvents DEF AfterRead, AfterHandler
    <2>2. /\ coord'.useSnapshot = (coord.useSnapshot /\ e # "ReadFin")
          /\ coord'.deny = IF coord.useSnapshot /\ e = "ReadFin" THEN {} ELSE coord.deny
          /\ coord'.next = coord.next
          /\ coord'.inputRev.major = coord.inputRev.major
      BY <2>1 DEF AfterRead, Trims
    <2>3. CASE coord.useSnapshot /\ e = "ReadFin"
      BY <2>1, <2>2, <2>3, DenyRange DEF LastDeny
    <2>4. CASE ~(coord.useSnapshot /\ e = "ReadFin")
      <3>1. coord'.useSnapshot \/ ~coord.useSnapshot
        BY <2>2, <2>4
      <3> QED
        BY <2>1, <2>2, <2>4, <3>1 DEF LastDeny
    <2> QED
      BY <2>3, <2>4
  <1>7. CASE /\ UNCHANGED coord /\ ~SetSearchNew /\ ~(\E f \in Features : Operate(f))
             /\ ~HandleSearchNew
    BY <1>7, CarryFrame DEF LastDeny
  <1>8. CASE \/ Push \/ SetReadNew \/ EndOfInput \/ SetReadFin \/ Take \/ Clear
             \/ HandleSearchFin \/ Matcher
             \/ UNCHANGED vars
    <2>1. UNCHANGED coord
      BY <1>8 DEF Push, SetReadNew, EndOfInput, SetReadFin, Take, Clear, HandleSearchFin, Handle,
         Start, Matcher, TakeRequest, ScanDone, ScanCancelled, SetSearchFin, vars
    <2> QED
      BY <1>2, <1>3, <1>4, <1>7, <2>1
  <1> QED
    BY <1>2, <1>3, <1>4, <1>5, <1>6, <1>7, <1>8 DEF Next, Coordinator

\* Every step keeps the wishes of the user on their way.
LEMMA CarriedStep ==
  ASSUME Sound, Sessions, Asked, Carried, [Next]_vars
  PROVE  Carried'
  <1>1. LastSort'
    BY LastSortStep DEF Carried
  <1>2. \A r \in SearchRequests' : r.deny \subseteq terminal'.excluded
    <2>1. CASE SetSearchNew
      BY <2>1, CarrySet DEF Carried
    <2>2. ASSUME NEW f \in Features, Operate(f)
          PROVE  \A r \in SearchRequests' : r.deny \subseteq terminal'.excluded
      <3>1. /\ outgoing = {} /\ box' = box /\ outgoing' # {}
            /\ \A o \in outgoing' : terminal'.excluded = terminal.excluded \cup o.deny
        BY <2>2, CarryOperate
      <3> QED
        BY <3>1 DEF Carried, SearchRequests
    <2>3. CASE HandleSearchNew
      <3>1. UNCHANGED <<terminal, outgoing, box>>
        BY <2>3, SearchFacts, CarryHandled
      <3> QED
        BY <3>1 DEF Carried, SearchRequests
    <2>4. CASE ~SetSearchNew /\ ~(\E f \in Features : Operate(f)) /\ ~HandleSearchNew
      BY <2>4, CarryFrame DEF Carried
    <2> QED
      BY <2>1, <2>2, <2>3, <2>4
  <1>3. ASSUME dropped' = {} PROVE LastCommand' /\ LastNth' /\ LastDeny'
    <2>1. dropped = {}
      BY <1>3, DroppedStep
    <2>2. LastCommand /\ LastNth /\ LastDeny
      BY <2>1 DEF Carried
    <2> QED
      BY <1>3, <2>2, LastCommandStep, LastNthStep, LastDenyStep
  <1> QED
    BY <1>1, <1>2, <1>3 DEF Carried

-----------------------------------------------------------------------------
(* The newest request is answered *)

\* Steps that leave the newest request alone
LEMMA AnsweringFrame ==
  ASSUME Answering, UNCHANGED <<reqBox, matcher, shown, coord, terminal>>,
         list' = list \/ coord.reading,
         Answered' = Answered, dropped \subseteq dropped',
         \/ outgoing' = outgoing /\ Pending' = Pending
         \/ outgoing' # {} \/ Pending' # {}
  PROVE  Answering'
  <1>1. Newest' = Newest /\ Target' = Target /\ Waiting' = Waiting
    BY DEF Newest, Target, Waiting
  <1> QED
    BY <1>1 DEF Answering

\* A handler that asks for what Target says
LEMMA AnsweringAsks ==
  ASSUME TypeOK, Answering, NEW kind \in {"retry", "reset"}, Asks(kind), UNCHANGED matcher,
         coord'.reading \/ coord'.snap = list'
  PROVE  Answering'
  <1> DEFINE t == Target'
  <1>1. reqBox' = [reqBox EXCEPT !.last = kind, ![kind] = {t}]
    BY DEF Asks
  <1> HIDE DEF t
  <1>2. reqBox'.last = kind /\ reqBox'[kind] = {t}
    BY <1>1 DEF TypeOK, MatcherTypes
  <1>3. reqBox'[reqBox'.last] = {t}
    BY <1>2
  <1>4. Newest' = {Target'}
    BY <1>3 DEF Newest, t
  <1> QED
    BY <1>3, <1>4 DEF Answering

\* The matcher takes the newest request, scans for it, and hands its result on.
LEMMA AnsweringMatcher ==
  ASSUME TypeOK, Answering, Matcher
  PROVE  Answering'
  <1>1. /\ UNCHANGED <<shown, coord, terminal, outgoing, list, batch>>
        /\ box'.searchNew = box.searchNew
    BY DEF Matcher, TakeRequest, ScanDone, ScanCancelled, SetSearchFin, termVars, readVars,
       TypeOK, BoxTypes
  <1>2. Target' = Target /\ Pending' = Pending
    BY <1>1 DEF Target, Pending
  <1>3. dropped \subseteq dropped'
    BY DroppedStep DEF Next
  <1>4. /\ matcher \in [pc : {"wait", "scan", "set"}, request : SUBSET Request,
                        result : SUBSET Request, cache : SUBSET Request,
                        prevCount : 0 .. MaxItems, revision : Revision, sort : BOOLEAN]
        /\ Single(matcher.request)
    BY DEF TypeOK, MatcherTypes
  <1>5. CASE TakeRequest
    <2>1. PICK kind \in {"retry", "reset"} : \E r \in reqBox[kind] : Takes(kind, r)
      BY <1>5 DEF TakeRequest, Takes
    <2>2. PICK r \in reqBox[kind] : Takes(kind, r)
      BY <2>1
    <2>3. /\ matcher'.pc = "scan" /\ matcher'.request = {r} /\ Waiting' = {}
          /\ reqBox'[reqBox'.last] = {}
      BY <2>2 DEF Takes, EmptyBox, Waiting
    <2>4. reqBox[reqBox.last] # {}
      BY <2>1 DEF Answering, Waiting
    <2>5. dropped' = {} => reqBox.last = kind
      BY <2>2, <2>4 DEF Takes
    <2>6. Single(reqBox[kind])
      BY DEF TypeOK, MatcherTypes
    <2>7. dropped' = {} => Newest = {r}
      BY <2>4, <2>5, <2>6 DEF Newest, Single
    <2>8. Newest' = {r}
      BY <2>3 DEF Newest
    <2> QED
      BY <1>1, <1>2, <1>3, <2>3, <2>7, <2>8 DEF Answering
  <1>6. CASE ScanDone
    <2>1. /\ matcher.pc = "scan" /\ matcher'.pc = "set" /\ matcher'.request = matcher.request
          /\ UNCHANGED <<reqBox, box>>
      BY <1>4, <1>6 DEF ScanDone
    <2>2. Newest' = Newest /\ Waiting' = Waiting
      BY <1>1, <2>1 DEF Newest, Waiting, Answered
    <2> QED
      BY <1>1, <1>2, <1>3, <2>1, <2>2 DEF Answering
  <1>7. CASE ScanCancelled
    <2>1. /\ matcher'.pc = "wait" /\ matcher'.request = {} /\ reqBox.reset # {} /\ reqBox' = reqBox
      BY <1>4, <1>7 DEF ScanCancelled
    <2>2. reqBox[reqBox.last] # {}
      BY <2>1 DEF Answering, Waiting
    <2>3. Newest' = Newest /\ Waiting' = Waiting
      BY <2>1, <2>2 DEF Newest, Waiting
    <2> QED
      BY <1>1, <1>2, <1>3, <2>1, <2>2, <2>3 DEF Answering
  <1>8. CASE SetSearchFin
    <2>1. PICK r \in matcher.request, f \in matcher.result :
            box' = [box EXCEPT !.searchFin = {[request |-> r, found |-> f]}]
      BY <1>8 DEF SetSearchFin
    <2>2. matcher.request = {r}
      BY <1>4, <2>1 DEF Single
    <2>3. matcher'.pc = "wait" /\ matcher'.request = {} /\ reqBox' = reqBox /\ batch = {}
      BY <1>4, <1>8 DEF SetSearchFin, BoxUnlocked
    <2>4. box'.searchFin = {[request |-> r, found |-> f]}
      BY <2>1 DEF TypeOK, BoxTypes
    <2>5. Answered' = {[request |-> r, found |-> f]}
      BY <1>1, <2>3, <2>4 DEF Answered
    <2>6. {x.request : x \in Answered'} = {r}
      BY <2>5
    <2>7. Newest' = Newest /\ Waiting' = Waiting
      BY <2>2, <2>3, <2>5, <2>6 DEF Newest, Waiting
    <2> QED
      BY <1>1, <1>2, <1>3, <2>3, <2>7 DEF Answering
  <1> QED
    BY <1>5, <1>6, <1>7, <1>8 DEF Matcher

\* Every step keeps the newest request on its way to the display.
LEMMA AnsweringStep ==
  ASSUME Sound, Asked, Answering, [Next]_vars
  PROVE  Answering'
  <1>1. TypeOK /\ Reading /\ dropped \subseteq dropped'
    BY DroppedStep DEF Sound
  <1>2. CASE Push \/ SetReadNew \/ EndOfInput \/ SetReadFin
    <2>1. /\ UNCHANGED <<reqBox, matcher, shown, coord, terminal, outgoing, batch>>
          /\ box'.searchNew = box.searchNew /\ box'.searchFin = box.searchFin
          /\ list' = list \/ reader = "run"
      BY <1>1, <1>2 DEF Push, SetReadNew, EndOfInput, SetReadFin, termVars, matchVars, TypeOK,
         BoxTypes
    <2>2. Answered' = Answered /\ Pending' = Pending /\ (list' = list \/ coord.reading)
      BY <1>1, <2>1 DEF Answered, Pending, Reading
    <2> QED
      BY <1>1, <2>1, <2>2, AnsweringFrame
  <1>3. CASE SetSearchNew
    <2>1. /\ UNCHANGED <<reqBox, matcher, shown, coord, terminal, list, batch>>
          /\ box'.searchFin = box.searchFin
      BY <1>1, <1>3 DEF SetSearchNew, readVars, matchVars, TypeOK, BoxTypes
    <2>2. Answered' = Answered /\ Pending' # {}
      BY <1>3, <2>1, CarrySet DEF Answered
    <2> QED
      BY <1>1, <2>1, <2>2, AnsweringFrame
  <1>4. ASSUME NEW f \in Features, Operate(f) PROVE Answering'
    <2>1. outgoing' # {} /\ dropped' = dropped
      BY <1>4, CarryOperate
    <2>2. UNCHANGED <<reqBox, matcher>>
      BY <1>4 DEF Operate, matchVars
    <2> QED
      BY <2>1, <2>2 DEF Answering, Waiting
  <1>5. CASE Take
    <2>1. UNCHANGED <<reqBox, matcher, shown, coord, terminal, list, outgoing>>
      BY <1>5 DEF Take, termVars, readVars, matchVars
    <2>2. Answered' = Answered /\ Pending' = Pending
      BY <1>5 DEF Take, Answered, Pending
    <2> QED
      BY <1>1, <2>1, <2>2, AnsweringFrame
  <1>6. CASE Clear
    <2>1. UNCHANGED <<reqBox, matcher, shown, coord, terminal, list, outgoing>>
      BY <1>6 DEF Clear, termVars, readVars, matchVars
    <2>2. Answered' = Answered /\ Pending' = Pending
      BY <1>6 DEF Clear, Answered, Pending
    <2> QED
      BY <1>1, <2>1, <2>2, AnsweringFrame
  <1>7. CASE HandleKilledFin
    <2>1. coord'.reading /\ UNCHANGED <<reqBox, matcher>>
      BY <1>7, KilledFinFacts DEF AfterKilledFin, AfterHandler, NewSession
    <2> QED
      BY <2>1 DEF Answering, Waiting
  <1>8. ASSUME NEW e \in {"ReadNew", "ReadFin"}, HandleRead(e) PROVE Answering'
    <2>1. AfterRead(e) /\ UNCHANGED matcher
      BY <1>8, ReadFacts DEF AfterRead, AfterHandler
    <2>2. CASE coord'.useSnapshot
      <3>1. coord'.reading /\ reqBox' = reqBox
        BY <1>1, <2>1, <2>2 DEF AfterRead, Reading
      <3> QED
        BY <2>1, <3>1 DEF Answering, Waiting
    <2>3. CASE ~coord'.useSnapshot
      <3>1. Asks("retry") /\ coord'.snap = list'
        BY <2>1, <2>3 DEF AfterRead
      <3> QED
        BY <1>1, <2>1, <3>1, AnsweringAsks
    <2> QED
      BY <2>2, <2>3
  <1>9. CASE HandleSearchNew
    <2>1. PICK r \in box.searchNew : AfterSearch(r)
      BY <1>9, SearchFacts
    <2>2. UNCHANGED matcher
      BY <2>1 DEF AfterSearch, AfterHandler
    <2>3. coord'.reading \/ (r.command = 0 /\ ~coord.reading)
      BY <2>1 DEF AfterSearch, NewSession
    <2>4. CASE coord'.reading
      <3>1. CASE Asks("reset")
        BY <1>1, <2>2, <2>4, <3>1, AnsweringAsks
      <3>2. CASE reqBox' = reqBox
        BY <2>2, <2>4, <3>2 DEF Answering, Waiting
      <3> QED
        BY <2>1, <3>1, <3>2 DEF AfterSearch
    <2>5. CASE r.command = 0 /\ ~coord.reading
      <3>1. r.changed /\ ~coord.useSnapshot
        BY <1>1, <2>1, <2>5 DEF Asked, SearchRequests, Reading
      <3>2. Asks("reset") /\ ~coord'.useSnapshot
        BY <2>1, <2>5, <3>1 DEF AfterSearch
      <3>3. coord'.snap = list'
        BY <2>1, <2>5, <3>1, <3>2 DEF AfterSearch
      <3> QED
        BY <1>1, <2>2, <3>2, <3>3, AnsweringAsks
    <2> QED
      BY <2>3, <2>4, <2>5
  <1>10. CASE HandleSearchFin
    <2>1. PICK x \in box.searchFin : shown' = x
      BY <1>10 DEF HandleSearchFin
    <2>2. /\ "SearchFin" \in batch /\ batch' = batch \ {"SearchFin"}
          /\ UNCHANGED <<reqBox, matcher, coord, terminal, list, outgoing, box>>
      BY <1>10 DEF HandleSearchFin, Handle, Start, matchVars
    <2>3. Answered' = {} /\ Pending' = Pending
      BY <1>1, <2>2, OtherEvents
    <2>4. Answered = {x}
      BY <1>1, <2>1, <2>2 DEF Answered, TypeOK, BoxTypes, Single
    <2>5. {r.request : r \in Answered} = {shown'.request}
      BY <2>1, <2>4
    <2>6. Newest' = Newest /\ Target' = Target /\ Waiting' = Waiting
      BY <2>2, <2>3, <2>4, <2>5 DEF Newest, Target, Waiting
    <2> QED
      BY <1>1, <2>2, <2>3, <2>6 DEF Answering
  <1>11. CASE Matcher
    BY <1>1, <1>11, AnsweringMatcher
  <1>12. CASE UNCHANGED vars
    <2>1. UNCHANGED <<reqBox, matcher, shown, coord, terminal, list, outgoing, box, batch>>
      BY <1>12 DEF vars, termVars, readVars, matchVars
    <2> QED
      BY <1>1, <2>1, AnsweringFrame DEF Answered, Pending
  <1> QED
    BY <1>2, <1>3, <1>4, <1>5, <1>6, <1>7, <1>8, <1>9, <1>10, <1>11, <1>12 DEF Next, Coordinator

\* At the start nothing has been asked for.
LEMMA InitCarried == Init => Carried /\ Answering
  <1> SUFFICES ASSUME Init PROVE Carried /\ Answering
    OBVIOUS
  <1>1. outgoing = {} /\ Pending = {} /\ SearchRequests = {} /\ coord.reading
    BY DEF Init, Pending, SearchRequests
  <1>2. /\ terminal.sort = TRUE /\ terminal.nth = 0 /\ terminal.command = 0
        /\ terminal.excluded = {}
        /\ coord.sort = TRUE /\ coord.nth = 0 /\ coord.command = 0 /\ coord.next = 0
        /\ coord.deny = {}
    BY DEF Init
  <1>3. Carried
    BY <1>1, <1>2 DEF Carried, LastSort, LastCommand, LastNth, LastDeny
  <1>4. Answering
    BY <1>1 DEF Init, Answering, Waiting
  <1> QED
    BY <1>3, <1>4

\* When nothing is on its way any more, everything has arrived.
LEMMA QuietAnswer == Sound /\ Carried /\ Answering => NothingLost
  <1> SUFFICES ASSUME Sound, Carried, Answering, Quiescent, dropped = {}
               PROVE  /\ coord.command = terminal.command
                      /\ shown.request.final
                      /\ shown.request.snap = list
                      /\ shown.request.sort = terminal.sort
                      /\ shown.request.pattern = [query |-> terminal.query, nth |-> terminal.nth,
                                                  deny |-> terminal.excluded \cap {list.major}]
    BY DEF NothingLost
  <1>1. outgoing = {} /\ Pending = {} /\ Answered = {} /\ matcher.request = {}
    BY DEF Quiescent, Pending, Answered, Answering
  <1>2. reqBox[reqBox.last] = {}
    BY DEF Quiescent, Sound, TypeOK, MatcherTypes
  <1>3. ~coord.reading /\ coord.next = 0 /\ ~coord.useSnapshot /\ list.major = coord.inputRev.major
    BY DEF Quiescent, Sound, Reading
  <1>4. shown.request = Target /\ coord.snap = list
    BY <1>1, <1>2, <1>3 DEF Answering, Newest
  <1>5. /\ terminal.command = coord.command /\ coord.nth = terminal.nth
        /\ coord.sort = terminal.sort
    BY <1>1, <1>3 DEF Carried, LastCommand, LastNth, LastSort
  <1>6. coord.deny = terminal.excluded \cap {list.major}
    BY <1>1, <1>3 DEF Carried, LastDeny
  <1>7. /\ Target.snap = coord.snap /\ Target.sort = coord.sort /\ Target.final = ~coord.reading
        /\ Target.pattern = [query |-> terminal.query, nth |-> coord.nth, deny |-> coord.deny]
    BY DEF Target
  <1>8. shown.request.final
    BY <1>3, <1>4, <1>7
  <1> QED
    BY <1>4, <1>5, <1>6, <1>7, <1>8

\* Once everything is quiet, the display answers the last query, order, nth, exclusion and
\* reload of the user with the whole of the list, unless a searchRequest was replaced in the
\* event box, or the newer of two requests for the matcher was.
THEOREM AnswerToTheLastWish == Spec => []NothingLost
  BY InitSound, SoundStep, InitSessions, SessionsStep, AskedStep, InitExact, InitCarried,
     CarriedStep, AnsweringStep, QuietAnswer, PTL DEF Spec
=============================================================================
