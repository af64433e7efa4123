-------------------------------- MODULE Core -------------------------------
(***************************************************************************)
(* core.go (the event loop of Run), Matcher.Loop of matcher.go, and what   *)
(* the terminal and the reader do with the event box: how a keystroke, a   *)
(* new item or a reload becomes a search, and how its result gets back.    *)
(*                                                                         *)
(* The coordinator handles a batch of events with the event box locked, so *)
(* no event is set meanwhile, but the matcher and the terminal run on.     *)
(* Items are numbered, and a result is the request searched for: which     *)
(* items match which query is left to the pattern.  Reader.tla has the     *)
(* details of the reader, EventBox.tla those of the box, Scan.tla those of *)
(* a scan.                                                                 *)
(***************************************************************************)
EXTENDS Integers, FiniteSets

CONSTANTS
  Query,     \* the query strings
  Features,  \* what the user does: a subset of AllFeatures
  Sync,      \* --sync: the interface starts with the first final result
  Tail,      \* --tail, 0 if it is not given
  MaxOps,    \* bound: actions of the user
  MaxItems   \* bound: items read per session

AllFeatures == {"type", "sort", "nth", "exclude", "reload", "reload-sync", "type+reload"}

ASSUME CoreAssumption ==
  /\ Query # {}
  /\ Features \subseteq AllFeatures
  /\ Sync \in BOOLEAN
  /\ {Tail, MaxOps, MaxItems} \subseteq Nat

VARIABLES
  terminal,    \* t.input, t.sort and, to compare with, what the user asked for
  outgoing,    \* the searchRequest the terminal is about to set (one at most)
  shown,       \* the result the terminal displays
  list,        \* the chunk list: items lo + 1 .. hi of a session
  reader,      \* "run", "fin" (about to set EvtReadFin) or "done"
  dirty,       \* items were pushed that EvtReadNew was not set for
  box,         \* the event box: readNew, readFin, searchNew, searchFin
  batch,       \* the events of the batch still to handle
  coord,       \* the variables of Run
  patterns,    \* patternCache: a set of patterns, one per query at most
  reqBox,      \* the request box of the matcher, and which request is the newer
  matcher,     \* the variables of Matcher and of its Loop
  dropped      \* history: what a newer request was allowed to replace

termVars == <<terminal, outgoing, shown>>
readVars == <<list, reader, dirty>>
matchVars == <<reqBox, matcher>>
vars == <<termVars, readVars, box, batch, coord, patterns, matchVars, dropped>>

Session == 0 .. MaxOps
Revision == [major : Session, minor : Nat]
Snap == {s \in [major : Session, lo : 0 .. MaxItems, hi : 0 .. MaxItems] : s.lo <= s.hi}
Pattern == [query : Query, nth : 0 .. 1, deny : SUBSET Session]
Request == [snap : Snap, pattern : Pattern, final : BOOLEAN, sort : BOOLEAN,
            revision : Revision]
SearchRequest == [sort : BOOLEAN, nth : {-1, 0, 1}, deny : SUBSET Session,
                  command : Session, sync : BOOLEAN, changed : BOOLEAN,
                  revision : Revision]

\* The result of a search, found, is given as the request that was searched
\* for; with a cache it may be another one than the request it is the answer to.
Result == [request : Request, found : Request]

CountItems(s) == s.hi - s.lo

\* A set that stands for a value or for none
Single(S) == \A x, y \in S : x = y

TerminalTypes ==
  /\ terminal \in [query : Query, sort : BOOLEAN, nth : 0 .. 1, excluded : SUBSET Session,
                   command : Session, ops : 0 .. MaxOps]
  /\ outgoing \subseteq SearchRequest /\ Single(outgoing)
  /\ shown \in Result

BoxTypes ==
  /\ list \in Snap
  /\ reader \in {"run", "fin", "done"}
  /\ dirty \in BOOLEAN
  /\ box \in [readNew : BOOLEAN, readFin : BOOLEAN, searchNew : SUBSET SearchRequest,
              searchFin : SUBSET Result]
  /\ Single(box.searchNew) /\ Single(box.searchFin)
  /\ batch \subseteq {"ReadNew", "ReadFin", "SearchNew", "SearchFin", "Clear"}
  /\ dropped \subseteq {"payload", "request"}

CoordState ==
  [reading : BOOLEAN, killed : BOOLEAN, next : Session, command : Session,
   useSnapshot : BOOLEAN, snap : Snap, snapRev : Revision, inputRev : Revision,
   sort : BOOLEAN, nth : 0 .. 1, deny : SUBSET Session]

CoordTypes ==
  /\ coord \in CoordState
  /\ patterns \subseteq Pattern

MatcherTypes ==
  /\ reqBox \in [retry : SUBSET Request, reset : SUBSET Request, last : {"retry", "reset"}]
  /\ Single(reqBox.retry) /\ Single(reqBox.reset)
  /\ matcher \in [pc : {"wait", "scan", "set"}, request : SUBSET Request, result : SUBSET Request,
                  cache : SUBSET Request, prevCount : 0 .. MaxItems, revision : Revision,
                  sort : BOOLEAN]
  /\ Single(matcher.request)

TypeOK == TerminalTypes /\ BoxTypes /\ CoordTypes /\ MatcherTypes

Rev0 == [major |-> 0, minor |-> 0]
Snap0 == [major |-> 0, lo |-> 0, hi |-> 0]

Init ==
  /\ \E q \in Query :
       /\ terminal = [query |-> q, sort |-> TRUE, nth |-> 0, excluded |-> {},
                      command |-> 0, ops |-> 0]
       /\ LET r == [snap |-> Snap0, pattern |-> [query |-> q, nth |-> 0, deny |-> {}],
                    final |-> FALSE, sort |-> TRUE, revision |-> Rev0]
          IN  shown = [request |-> r, found |-> r]
  /\ outgoing = {}
  /\ list = Snap0
  /\ reader = "run"
  /\ dirty = FALSE
  /\ box = [readNew |-> FALSE, readFin |-> FALSE, searchNew |-> {}, searchFin |-> {}]
  /\ batch = {}
  /\ coord = [reading |-> TRUE, killed |-> FALSE, next |-> 0, command |-> 0,
              useSnapshot |-> FALSE, snap |-> Snap0, snapRev |-> Rev0, inputRev |-> Rev0,
              sort |-> TRUE, nth |-> 0, deny |-> {}]
  /\ patterns = {}
  /\ reqBox = [retry |-> {}, reset |-> {}, last |-> "retry"]
  /\ matcher = [pc |-> "wait", request |-> {}, result |-> {}, cache |-> {},
                prevCount |-> 0, revision |-> Rev0, sort |-> TRUE]
  /\ dropped = {}

BoxUnlocked == batch = {}

-----------------------------------------------------------------------------
(* The reader (Reader.tla) *)

Push ==
  /\ reader = "run"
  /\ list.hi < MaxItems
  /\ list' = [list EXCEPT !.hi = @ + 1]
  /\ dirty' = TRUE
  /\ UNCHANGED <<termVars, reader, box, batch, coord, patterns, matchVars, dropped>>

SetReadNew ==
  /\ dirty
  /\ BoxUnlocked
  /\ dirty' = FALSE
  /\ box' = [box EXCEPT !.readNew = TRUE]
  /\ UNCHANGED <<termVars, list, reader, batch, coord, patterns, matchVars, dropped>>

EndOfInput ==
  /\ reader = "run"
  /\ reader' = "fin"
  /\ UNCHANGED <<termVars, list, dirty, box, batch, coord, patterns, matchVars, dropped>>

\* fin waits until the poller has set EvtReadNew for the last time.
SetReadFin ==
  /\ reader = "fin"
  /\ ~dirty
  /\ BoxUnlocked
  /\ reader' = "done"
  /\ box' = [box EXCEPT !.readFin = TRUE]
  /\ UNCHANGED <<termVars, list, dirty, batch, coord, patterns, matchVars, dropped>>

-----------------------------------------------------------------------------
(* The terminal *)

\* One round of the main loop: the user does one thing of Features, and a
\* searchRequest for it will be set.  A new query is seen by Input at once.
Operate(f) ==
  /\ outgoing = {}
  /\ terminal.ops < MaxOps
  /\ Sync => shown.found.final
  /\ \E q \in Query :
       LET rev == shown.found.revision
           typed == f \in {"type", "type+reload"}
           reload == f \in {"reload", "reload-sync", "type+reload"}
           command == IF reload THEN terminal.command + 1 ELSE 0
           sort == IF f = "sort" THEN ~terminal.sort ELSE terminal.sort
           nth == IF f = "nth" THEN 1 - terminal.nth ELSE terminal.nth
           deny == IF f = "exclude" THEN {rev.major} ELSE {}
       IN  /\ typed <=> q # terminal.query
           /\ f = "exclude" => CountItems(shown.found.snap) > 0
           /\ terminal' = [terminal EXCEPT !.query = q, !.sort = sort, !.nth = nth,
                             !.excluded = @ \cup deny, !.ops = @ + 1,
                             !.command = IF reload THEN command ELSE @]
           /\ outgoing' = {[sort |-> sort, nth |-> IF f = "nth" THEN nth ELSE -1,
                            deny |-> deny, command |-> command,
                            sync |-> f = "reload-sync",
                            changed |-> f \notin {"reload", "reload-sync"},
                            revision |-> rev]}
  /\ UNCHANGED <<shown, readVars, box, batch, coord, patterns, matchVars, dropped>>

\* What a request says once only: the query and the order are in the next one too.
HasPayload(r) == r.command # 0 \/ r.nth >= 0 \/ r.deny # {}

\* t.eventBox.Set(EvtSearchNew, ...): a request not yet handled is replaced.
SetSearchNew ==
  /\ outgoing # {}
  /\ BoxUnlocked
  /\ box' = [box EXCEPT !.searchNew = outgoing]
  /\ outgoing' = {}
  /\ dropped' = dropped \cup {"payload" : r \in {r \in box.searchNew : HasPayload(r)}}
  /\ UNCHANGED <<terminal, shown, readVars, batch, coord, patterns, matchVars>>

-----------------------------------------------------------------------------
(* The coordinator *)

Take ==
  LET events == {e \in {"ReadNew", "ReadFin", "SearchNew", "SearchFin"} :
                   \/ e = "ReadNew" /\ box.readNew /\ ~box.readFin
                   \/ e = "ReadFin" /\ box.readFin
                   \/ e = "SearchNew" /\ box.searchNew # {}
                   \/ e = "SearchFin" /\ box.searchFin # {}}
  IN  /\ batch = {}
      /\ events # {}
      /\ batch' = events \cup {"Clear"}
      /\ UNCHANGED <<termVars, readVars, box, coord, patterns, matchVars, dropped>>

Clear ==
  /\ batch = {"Clear"}
  /\ batch' = {}
  /\ box' = [readNew |-> FALSE, readFin |-> FALSE, searchNew |-> {}, searchFin |-> {}]
  /\ UNCHANGED <<termVars, readVars, coord, patterns, matchVars, dropped>>

\* A handler works on the variables of Run (v), on the cache of patterns and
\* on the list, in the order of the code.
Start == [v |-> coord, patterns |-> patterns, list |-> list]

bumpMinor(v) == [v EXCEPT !.inputRev.minor = @ + 1]

clearDenylist(s) ==
  [s EXCEPT !.patterns = IF s.v.deny # {} THEN {} ELSE @, !.v.deny = {}]

\* Faulty variant of TrimList: the revision stays although items are gone.
TrimSilently(s) ==
  IF Tail > 0 /\ CountItems(s.list) > Tail THEN [s EXCEPT !.list.lo = s.list.hi - Tail] ELSE s

\* chunkList.Snapshot, which trims the list with --tail.
TrimList(s) ==
  LET trim == Tail > 0 /\ CountItems(s.list) > Tail
  IN  IF trim THEN [s EXCEPT !.list.lo = s.list.hi - Tail, !.v = bumpMinor(@)] ELSE s

UseList(s) == [s EXCEPT !.v.snap = s.list, !.v.snapRev = s.v.inputRev]

\* restart of Run, up to the goroutine it starts.
Restarted(s, command) ==
  LET t == IF s.v.useSnapshot THEN s ELSE clearDenylist(s)
      major == s.v.inputRev.major + 1
  IN  [t EXCEPT !.list = [major |-> major, lo |-> 0, hi |-> 0],
                !.v.reading = TRUE, !.v.killed = FALSE, !.v.command = command,
                !.v.next = 0, !.v.inputRev = [major |-> major, minor |-> 0]]

\* BuildPattern: a pattern already built for the query is used again.
PatternFor(s, q) ==
  LET known == {p \in s.patterns : p.query = q}
  IN  IF known # {} THEN CHOOSE p \in known : TRUE
                    ELSE [query |-> q, nth |-> s.v.nth, deny |-> s.v.deny]

\* Matcher.Reset: the request replaces the one pending under the same event.
Reset(s, kind) ==
  LET p == PatternFor(s, terminal.query)
  IN  /\ patterns' = s.patterns \cup {p}
      /\ reqBox' = [reqBox EXCEPT !.last = kind, ![kind] =
           {[snap |-> s.v.snap, pattern |-> p, final |-> ~s.v.reading, sort |-> s.v.sort,
             revision |-> s.v.snapRev]}]

NoReset(s) == patterns' = s.patterns /\ UNCHANGED reqBox

Handle(e, s) ==
  /\ e \in batch
  /\ batch' = batch \ {e}
  /\ coord' = s.v
  /\ list' = s.list
  /\ UNCHANGED dropped

\* EvtReadFin of a command that had to make way for the next one.
HandleKilledFin ==
  /\ coord.next # 0
  /\ LET s == Restarted(Start, coord.next) IN Handle("ReadFin", s) /\ NoReset(s)
  /\ reader' = "run" /\ dirty' = FALSE
  /\ UNCHANGED <<termVars, box, matcher>>

HandleRead(e) ==
  LET fin == e = "ReadFin"
      s1 == [Start EXCEPT !.v.reading = @ /\ ~fin]
      s2 == IF coord.useSnapshot /\ fin
            THEN [clearDenylist(s1) EXCEPT !.v.useSnapshot = FALSE] ELSE s1
      s3 == IF s2.v.useSnapshot THEN s2 ELSE UseList(TrimList(s2))
  IN  /\ fin => coord.next = 0
      /\ Handle(e, s3)
      /\ IF s3.v.useSnapshot THEN NoReset(s3) ELSE Reset(s3, "retry")
      /\ UNCHANGED <<termVars, reader, dirty, box, matcher>>

\* What a searchRequest changes before its command is looked at.
Excludes(r) == r.deny # {} /\ r.revision.major = coord.inputRev.major

Requested(r) ==
  [coord EXCEPT !.sort = r.sort,
                !.deny = IF Excludes(r) THEN @ \cup r.deny ELSE @,
                !.nth = IF r.nth >= 0 THEN r.nth ELSE @,
                !.useSnapshot = IF r.command # 0 THEN r.sync ELSE @]

Applied(r) ==
  IF Excludes(r) \/ r.nth >= 0
  THEN [v |-> bumpMinor(Requested(r)), patterns |-> {}, list |-> list]
  ELSE [Start EXCEPT !.v = Requested(r)]

\* The command is started, or the one that runs is told to end first.
Commanded(s, r) ==
  CASE r.command = 0 -> s
    [] r.command # 0 /\ s.v.reading -> [s EXCEPT !.v.killed = TRUE, !.v.next = r.command]
    [] r.command # 0 /\ ~s.v.reading -> Restarted(s, r.command)

\* Faulty variant of SearchedList: reload-sync is forgotten.
NewestList(s, r) ==
  LET t == TrimList(s) IN IF r.command = 0 \/ CountItems(t.list) > 0 THEN UseList(t) ELSE t

\* The list to search now: the newest one, but the old one during reload-sync
\* and, so that no empty list is shown, when a command has just been started.
SearchedList(s, r) ==
  LET t == TrimList(s)
  IN  CASE s.v.useSnapshot \/ ~r.changed -> s
        [] ~(s.v.useSnapshot \/ ~r.changed) ->
             IF r.command = 0 \/ CountItems(t.list) > 0 THEN UseList(t) ELSE t

HandleSearchNew ==
  \E r \in box.searchNew :
    LET s == SearchedList(Commanded(Applied(r), r), r)
        restarted == r.command # 0 /\ ~coord.reading
    IN  /\ Handle("SearchNew", s)
        /\ IF r.changed THEN Reset(s, "reset") ELSE NoReset(s)
        /\ IF restarted THEN reader' = "run" /\ dirty' = FALSE ELSE UNCHANGED <<reader, dirty>>
        /\ UNCHANGED <<termVars, box, matcher>>

\* terminal.UpdateList
HandleSearchFin ==
  \E r \in box.searchFin :
    /\ Handle("SearchFin", Start)
    /\ shown' = r
    /\ UNCHANGED <<terminal, outgoing, reader, dirty, box, patterns, matchVars>>

Coordinator ==
  \/ Take \/ Clear \/ HandleKilledFin \/ HandleRead("ReadNew") \/ HandleRead("ReadFin")
  \/ HandleSearchNew \/ HandleSearchFin

-----------------------------------------------------------------------------
(* The matcher *)

\* The results found so far are for another list, for another --nth or order.
CacheStale(r) == r.sort # matcher.sort \/ r.revision # matcher.revision

\* Faulty variant of EmptyBox: the request that lost stays in the box.
KeepLoser(kind) == [reqBox EXCEPT ![kind] = {}]

\* Faulty variant of EmptyBox: the requests stay in the box.
KeepAll(kind) == reqBox

EmptyBox(kind) == [retry |-> {}, reset |-> {}, last |-> "retry"]

\* Loop: the requests are taken out of the box in the order of a map, and the
\* last one wins.  Then the caches are looked at.
TakeRequest ==
  /\ matcher.pc = "wait"
  /\ \E kind \in {"retry", "reset"} : \E r \in reqBox[kind] :
       LET clear == CacheStale(r)
           count == CountItems(r.snap)
           known == {f \in matcher.cache : f.pattern.query = r.pattern.query /\ f.final = r.final}
       IN  /\ matcher' = [pc |-> "scan", request |-> {r}, sort |-> r.sort, revision |-> r.revision,
                          prevCount |-> IF clear THEN matcher.prevCount ELSE count,
                          cache |-> IF clear \/ count # matcher.prevCount THEN {} ELSE matcher.cache,
                          result |-> IF clear \/ count # matcher.prevCount THEN {} ELSE known]
           /\ reqBox' = EmptyBox(kind)
           /\ dropped' = IF reqBox.last # kind /\ reqBox[reqBox.last] # {}
                         THEN dropped \cup {"request"} ELSE dropped
  /\ UNCHANGED <<termVars, readVars, box, batch, coord, patterns>>

\* The scan ends (Scan.tla), or there is a cached result; it is cached, and
\* merger.final is set, also of the merger in the cache.
ScanDone ==
  /\ matcher.pc = "scan"
  /\ \E r \in matcher.request :
       LET found == IF matcher.result # {} THEN matcher.result ELSE {r}
           others == {f \in matcher.cache : f.pattern.query # r.pattern.query}
       IN  matcher' = [matcher EXCEPT !.pc = "set", !.result = found, !.cache = others \cup found]
  /\ UNCHANGED <<termVars, readVars, box, batch, coord, patterns, reqBox, dropped>>

\* An empty list is not scanned, and a cached result needs no scan.
ScanCancelled ==
  /\ matcher.pc = "scan"
  /\ \E r \in matcher.request : CountItems(r.snap) > 0
  /\ matcher.result = {}
  /\ reqBox.reset # {}
  /\ matcher' = [matcher EXCEPT !.pc = "wait", !.request = {}]
  /\ UNCHANGED <<termVars, readVars, box, batch, coord, patterns, reqBox, dropped>>

SetSearchFin ==
  /\ matcher.pc = "set"
  /\ BoxUnlocked
  /\ \E r \in matcher.request, f \in matcher.result :
       box' = [box EXCEPT !.searchFin = {[request |-> r, found |-> f]}]
  /\ matcher' = [matcher EXCEPT !.pc = "wait", !.request = {}, !.result = {}]
  /\ UNCHANGED <<termVars, readVars, batch, coord, patterns, reqBox, dropped>>

Matcher == TakeRequest \/ ScanDone \/ ScanCancelled \/ SetSearchFin

-----------------------------------------------------------------------------
Next ==
  \/ Push \/ SetReadNew \/ EndOfInput \/ SetReadFin
  \/ \E f \in Features : Operate(f)
  \/ SetSearchNew \/ Coordinator \/ Matcher

Spec == Init /\ [][Next]_vars

\* Goroutines run, and get the lock of the event box in the end; the input is
\* finite. Nothing is assumed of the user.
FairSpec ==
  /\ Spec
  /\ WF_vars(EndOfInput) /\ WF_vars(Coordinator) /\ WF_vars(Matcher)
  /\ SF_vars(SetReadNew) /\ SF_vars(SetReadFin)
  /\ SF_vars(SetSearchNew) /\ SF_vars(SetSearchFin)

-----------------------------------------------------------------------------
\* A pattern is cached by its query, but it holds the value --nth had and the
\* items excluded when it was built: whoever changes one of them must drop the
\* patterns (change-nth, exclude, and clearDenylist in restart).
PatternsFresh ==
  \A p \in patterns : p.nth = coord.nth /\ p.deny = coord.deny

\* What is displayed is what the search it answers would find, as long as the
\* list is not reloaded: the cache of mergers never stands in for a different
\* query, order or --nth, nor for a list that has grown or was trimmed.
ResultExact == terminal.command = 0 => shown.found = shown.request

\* reload-sync: until the command has completed, searches go on in the old
\* list, also when the query changes meanwhile.
SyncKeepsList ==
  coord.useSnapshot /\ coord.next = 0 =>
    \A r \in reqBox.retry \cup reqBox.reset \cup {shown.request} :
      r.snap.major < coord.inputRev.major

\* Nothing is on its way from the reader or the user to the display.
Quiescent ==
  /\ reader = "done" /\ outgoing = {} /\ batch = {}
  /\ ~box.readNew /\ ~box.readFin /\ box.searchNew = {} /\ box.searchFin = {}
  /\ reqBox.retry = {} /\ reqBox.reset = {} /\ matcher.pc = "wait"

\* Nothing is lost: when all is quiet the terminal shows the answer to the
\* final request for the whole list of the last reload and for the query, the
\* sort order, --nth and the exclusions the user asked for. Two things may be
\* dropped on the way: what a searchRequest carries beside the query, by the
\* next one (EventBox.Set), and the newer of two requests (Matcher.Loop).
NothingLost ==
  Quiescent /\ dropped = {} =>
    /\ coord.command = terminal.command
    /\ shown.request.final
    /\ shown.request.snap = list
    /\ shown.request.sort = terminal.sort
    /\ shown.request.pattern = [query |-> terminal.query, nth |-> terminal.nth,
                                deny |-> terminal.excluded \cap {list.major}]

\* Everything comes to rest once the input and the user are done: no event is
\* handled twice, and nobody waits for an event that nobody will set.
Settles == <>[]Quiescent
=============================================================================
