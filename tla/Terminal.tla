------------------------------ MODULE Terminal ------------------------------
(***************************************************************************)
(* The main loop of the terminal (Loop of terminal.go), and UpdateList and *)
(* UpdateCount, by which the coordinator hands it results.                 *)
(*                                                                         *)
(* An iteration of Loop handles one event with t.mutex held, so it is one  *)
(* action here: a chain of the functions of Actions.                       *)
(*                                                                         *)
(* e is what the coordinator (core.go) knows that decides which results    *)
(* can arrive: its revision, whether input is still read, the request it   *)
(* has not taken yet, the searches under way, in `lost` that the last one  *)
(* asked for was dropped, the events it sent back, how many requests the   *)
(* scene still allows, and in `quiet` that it is left out, to look at the  *)
(* terminal on its own.                                                    *)
(***************************************************************************)
EXTENDS Actions, FiniteSets

CONSTANTS
  Scenes,      \* the first states of the records, with the bindings, see MCTerminal
  Lists,       \* results, as sequences of indices
  MaxHistory,  \* --history-size
  MaxPrints,   \* bound: prints
  MaxEvents    \* capacity of eventChan

\* A scene shows the items of its first list, each once, and nothing is selected yet; no action was
\* put off, and a search is awaited only if there is more to read.  A list of results has each item
\* once: the coordinator's merger goes through the items of a snapshot.
Distinct(s) == \A i, j \in DOMAIN s : Index(s[i]) = Index(s[j]) => i = j
ListOf(M) == {s \in Seq({M} \X Nat) : Distinct(s)}
ListFields == {"shown", "result", "pass", "raw", "match", "cy", "offset", "selected", "multi",
               "touched", "lines", "multiLine", "gap", "height", "scrollOff", "cycle", "reverse"}
ControlFields == {"revision", "idNth", "pendingSelections", "track", "trackIndex", "trackKey",
                  "trackBlocked", "trackSync", "target", "reading", "filterSelection",
                  "triggerLoad", "wait"}

ASSUME TerminalAssumption ==
  /\ MaxSteps \in Nat
  /\ \A indices \in Lists :
       /\ indices \in Seq(Nat)
       /\ \A i, j \in DOMAIN indices : indices[i] = indices[j] => i = j
  /\ \A scene \in Scenes :
       /\ DOMAIN scene.l = ListFields /\ ControlFields \subseteq DOMAIN scene.c
       /\ scene.l.shown \in ListOf(0) /\ scene.l.result \in ListOf(0) /\ scene.l.pass \in ListOf(0)
       /\ scene.l.selected = <<>> /\ scene.l.multi \in Nat
       /\ scene.l.cy \in Int /\ scene.l.offset \in Int /\ scene.l.height \in Nat /\ scene.l.scrollOff \in Nat
       /\ scene.l.multiLine \in BOOLEAN /\ scene.l.gap \in Nat
       /\ \A i \in DOMAIN scene.l.lines : scene.l.lines[i] \in Nat \ {0}
       /\ scene.c.revision = <<0, 0>> /\ scene.c.pendingSelections = {} /\ scene.c.reading \in BOOLEAN
       /\ scene.c.wait \in [blocked : {FALSE}, pending : {<<>>}, searching : BOOLEAN]
       /\ scene.c.wait.searching => scene.c.reading

VARIABLES q, l, c, e

vars == <<q, l, c, e>>
----------------------------------------------------------------------------
(* An iteration of Loop *)

\* The actions bound to an event
Fire(s, key) == IF Bound(s.c, key) THEN DoActions(s, s.c.keymap[key]) ELSE s

Begin(callbacks) ==
  [q |-> [q EXCEPT !.input = [@ EXCEPT !.shared = TRUE, !.off = 0, !.old = Text(q)]],
   l |-> [l EXCEPT !.touched = FALSE],
   c |-> [c EXCEPT !.bg = {j \in @ : \A i \in DOMAIN callbacks : callbacks[i] # j}],
   x |-> [changed |-> FALSE, queryChanged |-> FALSE, beof |-> FALSE, command |-> None, deny |-> {},
          triggering |-> {}, callbacks |-> callbacks, inBg |-> FALSE, stuck |-> FALSE]]

\* The deferred actions, once the wait is over
Deferred(s) ==
  IF s.c.wait.pending # <<>> /\ ~s.c.wait.blocked
  THEN DoActions([s EXCEPT !.c.wait.pending = <<>>], s.c.wait.pending) ELSE s

\* Faulty variant of QueryChanged: a paste that has ended is not looked at.
QueryChangedNow(s) == s.c.pasting = <<>> /\ s.q.input.old # Text(s.q)

\* previousInput is compared through the array it shares with t.input.
QueryChanged(s) == s.x.queryChanged \/ (s.c.pasting = <<>> /\ s.q.input.old # Text(s.q))

\* In jump mode a label moves the cursor; every other key leaves the mode.
Jump(s, label) ==
  LET hit == label # None /\ label < s.l.height /\ label < Count(s.l)
      t == IF hit THEN [s EXCEPT !.l.cy = label + s.l.offset] ELSE s
      u == IF hit /\ s.c.jumping = "accept" THEN End(t, "accept") ELSE t
  IN  Fire([u EXCEPT !.c.jumping = "off"], IF hit THEN "jump" ELSE "jump-cancel")

\* What the event is bound to, or its character
LeaveJump(s) == IF c.jumping = "off" THEN s ELSE Fire([s EXCEPT !.c.jumping = "off"], "jump-cancel")
Act(s, event, actions) ==
  LET acts == IF actions # <<>> THEN actions ELSE ActionsFor(s.c, event.key)
  IN  IF acts = <<>> /\ event.char # None
      THEN DoAction(s, [t |-> "char", a |-> event.char], <<>>).s ELSE DoActions(s, acts)
Truncated(s) == IF s.q.inputless THEN s ELSE [s EXCEPT !.q = TruncateQuery(@)]
Noticed(s) == [s EXCEPT !.x.queryChanged = QueryChanged(s), !.x.changed = @ \/ QueryChanged(s)]

\* Then the events it has caused, one after the other: what one is bound to may cause the next.
Caused(s, key) ==
  CASE key = "change" -> s.x.queryChanged [] key = "backward-eof" -> s.x.beof [] key = "multi" -> s.l.touched
FireIf(s, key) == IF Caused(s, key) THEN Fire(s, key) ELSE s
FireEach(s) == FireIf(FireIf(FireIf(s, "change"), "backward-eof"), "multi")

\* The whole iteration.  jumpingBefore is read before the deferred actions run.
Handled(s, event, actions) ==
  IF c.jumping = "off" \/ actions # <<>>
  THEN FireEach(Noticed(Truncated(Act(LeaveJump(s), event, actions))))
  ELSE Jump(s, event.label)
Iteration(event, actions, callbacks) == Handled(Deferred(Begin(callbacks)), event, actions)
----------------------------------------------------------------------------
(* What the iteration leaves behind *)

NoRequest == [changed |-> FALSE, command |-> None, bump |-> FALSE]

\* The searchRequest sent at the end of the loop.  A later one replaces it in the event box.
Request(s) == [changed |-> s.x.changed, command |-> s.x.command,
               bump |-> s.x.deny # {} \/ s.c.nth # c.nth \/ s.c.headerLines # c.headerLines
                        \/ (s.c.filterSelection /\ ~c.filterSelection)]
Sends(s) == s.x.changed \/ s.x.command # None

\* A scene has a bound on the requests.
Affordable == e.quiet \/ e.requests > 0

\* The bound on how far the list may be off between two redraws
Near(m) == m.offset \in -1 .. Count(m) + 1 /\ m.cy \in -1 .. Count(m) + m.height

\* What the loop takes: a key or a character pressed, a label in jump mode, all the events in
\* eventChan, the output of a background command, or the empty action list <<ignore>> by which
\* UpdateList wakes it up at the end of a wait
Kinds == {"key", "char", "label", "events", "background", "wake"}

\* Names in the keymap that no key press makes
Events == {"focus", "change", "backward-eof", "multi", "jump", "jump-cancel", "load", "one", "zero",
           "result", "result-final", "left-click"}

Given(kind) ==
  CASE kind = "key" -> DOMAIN c.keymap \ Events
    [] kind = "char" -> c.typed
    [] kind = "label" -> IF c.jumping = "off" THEN {} ELSE 0 .. 1
    [] kind = "events" -> IF e.events = <<>> THEN {} ELSE {e.events}
    [] kind = "background" -> c.bg
    [] kind = "wake" -> {w \in {TRUE} : e.wake}

Event(kind, arg) ==
  [key |-> CASE kind = "key" -> arg [] kind = "events" -> arg[Len(arg)] [] OTHER -> None,
   char |-> CASE kind = "char" -> arg [] kind = "label" -> "a" [] OTHER -> None,
   label |-> IF kind = "label" THEN arg ELSE None]

\* The actions of all events are looked up before any of them runs.
ActionsGiven(kind, arg) ==
  LET Acts[n \in 0 .. Len(arg)] == IF n = 0 THEN <<>> ELSE Acts[n - 1] \o ActionsFor(c, arg[n])
  IN  CASE kind = "events" -> Acts[Len(arg)]
        [] kind = "background" -> <<[t |-> "async"]>>
        [] kind = "wake" -> <<[t |-> "ignore"]>>
        [] OTHER -> <<>>

Taken(kind) ==
  CASE kind = "events" -> [e EXCEPT !.events = <<>>] [] kind = "wake" -> [e EXCEPT !.wake = FALSE] [] OTHER -> e

Loop(kind, arg) ==
  /\ c.ends = None
  /\ \E s \in {Iteration(Event(kind, arg), ActionsGiven(kind, arg), IF kind = "background" THEN <<arg>> ELSE <<>>)} :
       /\ ~s.x.stuck
       /\ Len(s.c.printed) <= MaxPrints
       /\ Near(s.l)
       /\ Sends(s) => Affordable
       /\ q' = [s.q EXCEPT !.input = [@ EXCEPT !.shared = FALSE, !.off = 0, !.old = <<>>]]
       /\ l' = [s.l EXCEPT !.touched = FALSE]
       /\ c' = [s.c EXCEPT !.wait.searching = @ \/ Sends(s)]
       /\ e' = IF Sends(s)
               THEN [Taken(kind) EXCEPT !.request = Request(s), !.requests = IF e.quiet THEN 0 ELSE @ - 1]
               ELSE Taken(kind)

\* A click on the query line, x columns right of the prompt (actMouse)
ClickOnPrompt(x) ==
  /\ c.ends = None /\ c.width > 0 /\ ~q.inputless /\ ~c.wait.blocked /\ ~c.trackBlocked /\ c.jumping = "off"
  /\ q' = TruncateQuery(ClickPrompt(q, x, c.xoffset))
  /\ UNCHANGED <<l, c, e>>

\* reqList of the render loop, and every other redraw: printList
Draw(m) ==
  LET current == CurrentIndex(m)
      focused == current # c.focused
      tells == focused /\ Bound([keymap |-> c.keymapOrg], "focus") /\ current # c.lastFocus
  IN  /\ l' = m
      /\ c' = [c EXCEPT !.xoffset = IF c.width > 0 THEN PromptOffset(q, @, c.width) ELSE @,
                        !.track = IF @ = "current" /\ c.trackIndex # current THEN "off" ELSE @,
                        !.focused = IF Bound([keymap |-> c.keymapOrg], "focus") THEN current ELSE @,
                        !.lastFocus = IF tells THEN current ELSE @]
      /\ e' = IF tells THEN [e EXCEPT !.events = Append(@, "focus")] ELSE e
      /\ UNCHANGED q
Render ==
  /\ c.ends = None
  /\ Len(e.events) < MaxEvents
  /\ \E m \in {ConstrainList(l)} : Draw(m)
----------------------------------------------------------------------------
(* UpdateList and UpdateCount.  A result r is [result, pass, major, minor, final]. *)

\* The item to keep the cursor on
KeptIndex(r) ==
  IF c.target # NoIndex THEN c.target
  ELSE IF c.revision[1] = r.major /\ c.track # "off"
  THEN IF Count(l) > 0 THEN CurrentIndex(l)
       ELSE IF r.result # <<>> THEN Index(r.result[1]) ELSE NoIndex
  ELSE NoIndex

Shown(r) == [l EXCEPT !.shown = IF l.raw THEN r.pass ELSE r.result, !.result = r.result, !.pass = r.pass,
                      !.match = IF l.raw THEN Indices(r.result) ELSE {}]

\* Faulty variant of Reselected: the selection outlives a reload.
ReselectedNot(m, r) == m

\* The selection after a new list: none after a reload; after a trim by --tail what is left; after
\* a new --with-nth what still matches
Reselected(m, r) ==
  IF c.revision = <<r.major, r.minor>> THEN m
  ELSE IF c.revision[1] # r.major THEN [m EXCEPT !.selected = <<>>]
  ELSE LET kept == Keep(m, Indices(r.pass)) IN
       IF c.filterSelection THEN Keep(kept, Indices(r.result)) ELSE kept

\* The selection of before a reload-sync is remembered by --id-nth
Remembered(r) ==
  IF c.revision[1] # r.major /\ c.trackSync /\ c.idNth /\ l.multi > 0 /\ l.selected # <<>>
  THEN {Key(l.selected[i]) : i \in DOMAIN l.selected} ELSE c.pendingSelections

\* The first item with the key is selected again, if input has ended
Restore(m, keys) ==
  LET first == {i \in DOMAIN m.shown : Key(m.shown[i]) \in keys
                  /\ \A j \in 1 .. i - 1 : Key(m.shown[j]) # Key(m.shown[i])}
      new == {Index(m.shown[i]) : i \in first}
  IN  [Keep(m, SelectedIndices(m) \ new) EXCEPT !.selected = @ \o Only(m.shown, new)]

\* Faulty variant of Recursored: the cursor stays on its row.
RecursoredByRow(m, prev) ==
  IF m.cy > Count(m) THEN [m EXCEPT !.cy = Count(m) - Smaller(Count(m), m.height) + m.cy - m.offset] ELSE m

\* The cursor: on the tracked key, on the previous item, or about where it was
Recursored(m, prev) ==
  LET pos == m.cy - m.offset
      at == Place(m.shown, prev)
  IN  IF prev < 0 THEN m
      ELSE IF at >= 0 THEN [m EXCEPT !.cy = at, !.offset = at - pos]
      ELSE IF c.track = "current" THEN [m EXCEPT !.cy = pos, !.offset = 0]
      ELSE IF m.cy > Count(m) THEN [m EXCEPT !.cy = Count(m) - Smaller(Count(m), m.height) + pos]
      ELSE m

ByKey == c.trackKey # NoIndex /\ (~c.trackSync \/ ~c.reading)
Hits(m) == {i \in DOMAIN m.shown : Key(m.shown[i]) = c.trackKey}
Hit(m) == CHOOSE i \in Hits(m) : \A j \in Hits(m) : i <= j

\* What UpdateList makes of the list
Pointed(m, r) ==
  IF ~ByKey THEN Recursored(m, KeptIndex(r))
  ELSE IF Hits(m) = {} THEN m ELSE [m EXCEPT !.cy = Hit(m) - 1]
Restored(m, r) == IF c.reading THEN m ELSE Restore(m, Remembered(r))
ListAfter(r) == Restored(Pointed(Reselected(Shown(r), r), r), r)

\* ... and of the rest of the state
ControlAfter(r) ==
  LET m == Shown(r)
      same == c.revision = <<r.major, r.minor>>
      lost == ~ByKey /\ KeptIndex(r) >= 0 /\ Place(m.shown, KeptIndex(r)) = -1 /\ c.track = "current"
      tracks == ByKey /\ Hits(m) # {}
      c1 == [c EXCEPT !.revision = <<r.major, r.minor>>, !.target = NoIndex,
                      !.filterSelection = @ /\ same,
                      !.triggerLoad = FALSE,
                      !.pendingSelections = IF c.reading THEN Remembered(r) ELSE {},
                      !.track = IF lost THEN "off" ELSE @,
                      !.trackIndex = IF tracks /\ c.track = "current" THEN Index(m.shown[Hit(m)]) ELSE @,
                      !.wait = IF r.final THEN [@ EXCEPT !.searching = FALSE, !.blocked = FALSE] ELSE @]
  IN  IF tracks \/ (ByKey /\ ~c.reading) THEN UnblockTrack(c1) ELSE c1

\* The events it sends, and whether it wakes up the loop
Told(r) ==
  LET happens(k) == CASE k = "load" -> c.triggerLoad
                      [] k = "zero" -> ~c.reading /\ r.result = <<>>
                      [] k = "one" -> ~c.reading /\ Len(r.result) = 1
                      [] k = "result" -> TRUE
                      [] k = "result-final" -> ~c.reading
  IN  SelectSeq(<<"load", "zero", "one", "result", "result-final">>,
                LAMBDA k : (k = "load" \/ Bound(c, k)) /\ happens(k))
Wakes(r) == r.final /\ c.wait.blocked /\ c.wait.pending # <<>>

UpdateCount(final) ==
  c' = [c EXCEPT !.triggerLoad = @ \/ (c.reading /\ final /\ Bound([keymap |-> c.keymapOrg], "load")),
                 !.reading = ~final]
----------------------------------------------------------------------------
(* The coordinator *)

\* Faulty variant of Search: the search for a new query is never the last one.
SearchNotLast(e0, cancel) ==
  [major |-> e0.major, minor |-> e0.minor, final |-> ~e0.reading /\ ~cancel, cancel |-> cancel]

\* It cancels the one under way for a request of the terminal, but not for new input.
Search(e0, cancel) ==
  [major |-> e0.major, minor |-> e0.minor, final |-> ~e0.reading, cancel |-> cancel]

\* The searches after a new one is asked for.  One that is under way or whose result is in the event
\* box may come first.  If one waits in the matcher's box and is of the other kind, the matcher drops
\* either of the two: it keeps the one it sees last in a map.
Dropping(e0, new) == {ss \in {e0.searches} : ss # <<>> /\ ss[1].cancel # new.cancel}
Searches(e0, new) == {<<new>>, Append(e0.searches, new)} \cup Dropping(e0, new)
Ask(e0, new, ss) == [e0 EXCEPT !.searches = ss, !.lost = \A i \in DOMAIN ss : ss[i] # new]

\* EvtSearchNew.  Until the end of a reload-sync the old list is searched, under its revision.
TakeRequest ==
  LET r == e.request
      e1 == [e EXCEPT !.request = NoRequest]
      e2 == CASE r.command = "plain" ->
                   [e1 EXCEPT !.major = @ + 1, !.minor = 0, !.reading = TRUE, !.sync = FALSE]
              [] r.command = "sync" -> [e1 EXCEPT !.reading = TRUE, !.sync = TRUE]
              [] r.command \notin {"plain", "sync"} /\ r.bump /\ ~e.sync -> [e1 EXCEPT !.minor = @ + 1]
              [] OTHER -> e1
  IN  /\ r # NoRequest /\ ~e.quiet
      /\ Len(e.searches) < 2
      /\ \E ss \in Searches(e2, Search(e2, TRUE)) :
           e' = IF r.changed THEN Ask(e2, Search(e2, TRUE), ss) ELSE e2
      /\ UNCHANGED <<q, l, c>>

\* EvtReadNew: there are more items
ReadMore ==
  /\ e.reading /\ ~e.sync /\ e.searches = <<>>
  /\ UpdateCount(FALSE)
  /\ e' = Ask(e, Search(e, FALSE), <<Search(e, FALSE)>>)
  /\ UNCHANGED <<q, l>>

\* EvtReadFin: the end of the input; after reload-sync this is when the new list is shown.
ReadEnd ==
  LET e1 == [e EXCEPT !.reading = FALSE, !.sync = FALSE,
                      !.major = IF e.sync THEN @ + 1 ELSE @, !.minor = IF e.sync THEN 0 ELSE @]
  IN  /\ e.reading
      /\ Len(e.searches) < 2
      /\ UpdateCount(TRUE)
      /\ \E ss \in Searches(e1, Search(e1, FALSE)) : e' = Ask(e1, Search(e1, FALSE), ss)
      /\ UNCHANGED <<q, l>>

Items(major, indices) == [i \in DOMAIN indices |-> <<major, indices[i]>>]

\* EvtSearchFin.  While input is read, the list has only some of the items.
Deliver(indices) ==
  LET job == Head(e.searches)
      result == Items(job.major, indices)
      r == [result |-> result, pass |-> IF job.final THEN Items(job.major, <<0, 1, 2>>) ELSE result,
            major |-> job.major, minor |-> job.minor, final |-> job.final]
  IN  /\ c.ends = None /\ e.searches # <<>>
      /\ Len(e.events) + Len(Told(r)) <= MaxEvents
      /\ \E m \in {ListAfter(r)} : Near(m) /\ l' = m
      /\ c' = ControlAfter(r)
      /\ e' = [e EXCEPT !.searches = Tail(@), !.events = @ \o Told(r), !.wake = @ \/ Wakes(r)]
      /\ UNCHANGED q

\* reqClose, reqPrintQuery, reqQuit: the render loop ends fzf and keeps the query in the history.
Exit ==
  /\ c.ends \in {"accept", "print-query", "quit"}
  /\ c' = [c EXCEPT !.ends = "ended"]
  /\ q' = IF c.ends = "quit" THEN q
          ELSE [q EXCEPT !.history = AppendHistory(@, Text(q), MaxHistory)]
  /\ UNCHANGED <<l, e>>
----------------------------------------------------------------------------
Init ==
  \E scene \in Scenes :
    /\ q = scene.q /\ l = scene.l /\ c = scene.c
    /\ e = [major |-> 0, minor |-> 0, reading |-> scene.c.reading, sync |-> FALSE, request |-> NoRequest,
            searches |-> <<>>, lost |-> FALSE, events |-> <<>>, wake |-> FALSE, quiet |-> scene.requests = 0,
            requests |-> scene.requests]

Results == \E indices \in Lists : Deliver(indices)

Next == \/ \E kind \in Kinds : \E arg \in Given(kind) : Loop(kind, arg)
        \/ \E x \in 0 .. MaxPattern : ClickOnPrompt(x)
        \/ Render \/ Exit
        \/ TakeRequest \/ ReadMore \/ ReadEnd \/ Results

Spec == Init /\ [][Next]_vars
----------------------------------------------------------------------------
(* What is checked *)

\* A change of the query is always noticed, that is, a search is requested and `change` is
\* triggered; a pasted text is looked at once, when the paste ends.  The query is edited in place,
\* and previousInput looks into the same array.
ChangeNoticed ==
  [][/\ c.pasting = <<>> /\ c'.pasting = <<>> /\ Text(q') # Text(q) => e'.request.changed
     /\ c.pasting # <<>> /\ c'.pasting = <<>> /\ Text(q') # c.pasting[1] => e'.request.changed]_vars

\* Moving through the history loses nothing that was typed: the line left keeps the text of the
\* query, and all others what they had.
LineAt(h, i) == CurrentLine([h EXCEPT !.cursor = i])
HistoryKept ==
  [][q.history.cursor # q'.history.cursor =>
       \A i \in 1 .. Len(q.history.lines) :
         LineAt(q'.history, i) = IF i = q.history.cursor THEN Text(q) ELSE LineAt(q.history, i)]_vars

\* Selected are items of the list the terminal shows, each once and at most `multi`.  With --id-nth
\* the selection restored after a reload may be larger: the limit is not looked at.
SelectionSound ==
  /\ \A i \in DOMAIN l.selected : l.selected[i][1] = c.revision[1]
  /\ Cardinality(SelectedIndices(l)) = Len(l.selected)
  /\ c.idNth \/ Len(l.selected) <= l.multi

\* Whenever the list is drawn, on a line at least, the first line of the current item is on the
\* screen, whatever number of lines the items above it take, and wherever a new result has put the
\* cursor.
CursorVisible ==
  \E m \in {ConstrainList(l)} :
    LET above[i \in m.offset .. Larger(m.offset, m.cy)] ==
          IF i = m.offset THEN 0 ELSE above[i - 1] + LinesUpTo(m, i - 1, m.height).n
    IN  HasCurrent(m) /\ m.height > 0 => m.cy >= m.offset /\ above[m.cy] < m.height

\* The actions after a `wait` run in order, all of them or none, however waits are nested in
\* triggers and background commands: the scene always prints 2 after 1.
WaitKeepsOrder ==
  LET p == c.printed IN
  \A i \in DOMAIN p : /\ p[i] = 1 => i < Len(p) /\ p[i + 1] = 2
                      /\ p[i] = 2 => i > 1 /\ p[i - 1] = 1

\* What ends a wait: a request that the coordinator has still to take, more input, whose end starts
\* a last search, or a search of the whole list under way
Answers(e0) == e0.request # NoRequest \/ e0.reading \/ \E i \in DOMAIN e0.searches : e0.searches[i].final

\* Once a wait is over the loop has been woken to run what was put off, and a search that the
\* terminal waits for will come, whichever searches and requests were cancelled or replaced, unless
\* the matcher has dropped the last search it was asked for, and no other was asked for since.
WaitsAnswered ==
  /\ c.wait.pending # <<>> /\ ~c.wait.blocked => e.wake
  /\ c.wait.searching => Answers(e) \/ e.lost

\* Tracking: a new result of the same list leaves the cursor on its item if that is still there,
\* and a wait for a reloaded list ends with the cursor on an item with the tracked key if there is one.
TrackKeepsItem ==
  [][e.searches # <<>> /\ e'.searches = Tail(e.searches) =>
       /\ c.track # "off" /\ c.trackKey = NoIndex /\ c.target = NoIndex /\ HasCurrent(l)
            /\ c'.revision[1] = c.revision[1] /\ Place(l'.shown, CurrentIndex(l)) >= 0
          => CurrentIndex(l') = CurrentIndex(l)
       /\ c.trackBlocked /\ ~c'.trackBlocked /\ (\E i \in DOMAIN l'.shown : Key(l'.shown[i]) = c.trackKey)
          => HasCurrent(l') /\ Key(CurrentItem(l')) = c.trackKey]_vars
=============================================================================
