------------------------------ MODULE Actions ------------------------------
(***************************************************************************)
(* What the actions bound to keys and events do (doAction and doActions in *)
(* Loop, terminal.go), as functions of a record s of                       *)
(*   q, l   query line and list, see Query and ItemList                    *)
(*   c      the rest of the terminal's state: what is bound, wait and      *)
(*          tracking, search switched off or overridden, paste, jump, the  *)
(*          background commands, what `print` has queued, how fzf ends     *)
(*   x      the variables of an iteration of Loop: changed, queryChanged,  *)
(*          beof, command, deny, triggering, callbacks, inBg               *)
(* An action is a record [t, a] of its name and its argument.              *)
(***************************************************************************)
EXTENDS ItemList, TLC

CONSTANTS
  MaxFocus,    \* maxFocusEvents
  MaxSteps,    \* bound: steps of a list of actions, with those it runs
  None         \* nil

Key(item) == (item[1] + item[2]) % 3       \* trackKeyFor: the --id-nth field of an item
Bound(c0, key) == key \in DOMAIN c0.keymap
ActionsFor(c0, key) == IF Bound(c0, key) THEN c0.keymap[key] ELSE <<>>
Restricted(f, keys) == [k \in DOMAIN f \cap keys |-> f[k]]
----------------------------------------------------------------------------
(* wait and tracking *)

BlockWait(s, pending) == [s EXCEPT !.c.wait = [@ EXCEPT !.blocked = TRUE, !.pending = pending]]
\* Faulty variant of DeferActions: what follows a nested wait is forgotten.
DeferNothing(s, actions) == s

DeferActions(s, actions) == [s EXCEPT !.c.wait.pending = @ \o actions]

CancelWait(s) == [s EXCEPT !.c.wait = [@ EXCEPT !.blocked = FALSE, !.pending = <<>>]]
UnblockTrack(c0) == IF c0.trackBlocked THEN [c0 EXCEPT !.trackBlocked = FALSE, !.trackKey = NoIndex] ELSE c0

\* actReload, actReloadSync: needsItem if the command mentions the current item
Reload(s, sync, needsItem) ==
  IF needsItem /\ ~HasCurrent(s.l) THEN s ELSE
  LET track == s.c.idNth /\ s.c.track # "off" /\ HasCurrent(s.l)
      c1 == [s.c EXCEPT !.reading = TRUE, !.trackSync = IF s.c.idNth THEN sync ELSE @]
  IN  [s EXCEPT !.x.command = IF sync THEN "sync" ELSE "plain",
                !.c = IF track THEN [c1 EXCEPT !.trackKey = Key(CurrentItem(s.l)), !.trackBlocked = TRUE]
                      ELSE c1]
----------------------------------------------------------------------------
(* Actions *)

EditNames == {"beginning-of-line", "end-of-line", "backward-char", "forward-char", "backward-word",
  "forward-word", "backward-subword", "forward-subword", "delete-char", "kill-word",
  "kill-subword", "kill-line", "clear-query", "yank", "put", "char", "change-query",
  "replace-query", "prev-history", "next-history"}
Edit(s, a) ==
  LET p == s.q IN
  CASE a.t = "beginning-of-line" -> BeginningOfLine(p)
    [] a.t = "end-of-line" -> EndOfLine(p)
    [] a.t = "backward-char" -> BackwardChar(p)
    [] a.t = "forward-char" -> ForwardChar(p)
    [] a.t = "backward-word" -> BackwardWord(p, FALSE)
    [] a.t = "forward-word" -> ForwardWord(p, FALSE)
    [] a.t = "backward-subword" -> BackwardWord(p, TRUE)
    [] a.t = "forward-subword" -> ForwardWord(p, TRUE)
    [] a.t = "delete-char" -> DeleteChar(p)
    [] a.t = "kill-word" -> KillWord(p, FALSE)
    [] a.t = "kill-subword" -> KillWord(p, TRUE)
    [] a.t = "kill-line" -> KillLine(p)
    [] a.t = "clear-query" -> ClearQuery(p)
    [] a.t = "yank" -> Put(p, p.yanked)
    [] a.t = "put" -> Put(p, a.a)
    [] a.t = "char" -> Char(p, a.a)
    [] a.t = "change-query" -> ChangeQuery(p, a.a)          \* also transform-query
    [] a.t = "replace-query" -> IF HasCurrent(s.l) THEN ChangeQuery(p, a.a) ELSE p
    [] a.t = "prev-history" -> PrevHistory(p)
    [] a.t = "next-history" -> NextHistory(p)

\* These ring the bell of an empty query (beof).
RuboutNames == {"backward-delete-char", "unix-line-discard", "unix-word-rubout", "backward-kill-subword"}
EditBack(p, a) ==
  CASE a.t = "backward-delete-char" -> BackwardDeleteChar(p)
    [] a.t = "unix-line-discard" -> UnixLineDiscard(p)
    [] a.t = "unix-word-rubout" -> Rubout(p, FALSE)          \* also backward-kill-word
    [] a.t = "backward-kill-subword" -> Rubout(p, TRUE)

ListNames == {"up", "down", "up-match", "down-match", "first", "best", "last", "pos", "page-up",
  "page-down", "half-page-up", "half-page-down", "offset-up", "offset-down", "offset-middle",
  "select", "deselect", "toggle", "toggle-up", "toggle-down", "toggle-in", "toggle-out",
  "select-all", "deselect-all", "toggle-all", "clear-multi", "change-multi", "next-selected",
  "prev-selected", "raw"}
Browse(m, a) ==
  CASE a.t = "up" -> Move(m, 1, FALSE)
    [] a.t = "down" -> Move(m, -1, FALSE)
    [] a.t = "up-match" -> Move(m, 1, TRUE)
    [] a.t = "down-match" -> Move(m, -1, TRUE)
    [] a.t \in {"first", "best", "last", "pos"} ->
         ConstrainList(CASE a.t = "first" -> First(m) [] a.t = "best" -> Best(m)
                         [] a.t = "last" -> LastItem(m) [] a.t = "pos" -> Position(m, a.a))
    [] a.t \in {"page-up", "page-down", "half-page-up", "half-page-down"} ->
         Page(m, a.t \in {"page-up", "half-page-up"}, a.t \in {"half-page-up", "half-page-down"})
    [] a.t \in {"offset-up", "offset-down"} -> Offset(m, IF a.t = "offset-up" THEN 1 ELSE -1)
    [] a.t = "offset-middle" -> OffsetMiddle(m)
    [] a.t = "select" -> Select(m)
    [] a.t = "deselect" -> Deselect(m)
    [] a.t = "toggle" -> Toggle(m)
    [] a.t = "toggle-up" -> ToggleMove(m, 1)
    [] a.t = "toggle-down" -> ToggleMove(m, -1)
    [] a.t = "toggle-in" -> ToggleMove(m, IF m.reverse THEN 1 ELSE -1)
    [] a.t = "toggle-out" -> ToggleMove(m, IF m.reverse THEN -1 ELSE 1)
    [] a.t = "select-all" -> SelectAll(m)
    [] a.t = "deselect-all" -> DeselectAll(m)
    [] a.t = "toggle-all" -> ToggleAll(m)
    [] a.t = "clear-multi" -> ClearSelection(m)
    [] a.t = "change-multi" -> ChangeMulti(m, a.a)
    [] a.t = "next-selected" -> ToSelected(m, TRUE)
    [] a.t = "prev-selected" -> ToSelected(m, FALSE)
    [] a.t = "raw" -> SetRaw(m, IF a.a = "toggle" THEN ~m.raw ELSE a.a = "on")

\* req of a terminal event: looping is FALSE.  The render loop takes reqClose first, reqQuit last.
End(s, how) ==
  IF s.c.ends = "accept" \/ (s.c.ends = "print-query" /\ how = "quit") THEN s
  ELSE [s EXCEPT !.c.ends = how]
Changed(s) == [s EXCEPT !.x.changed = TRUE]
Excluding(s, items) == [Changed(s) EXCEPT !.x.deny = @ \cup Indices(items)]
Cancelled(s) == IF Text(s.q) = <<>> THEN End(s, "quit") ELSE [s EXCEPT !.q = ClearToYank(s.q)]
TrackCurrent(s) == [s EXCEPT !.c.track = "current", !.c.trackIndex = CurrentIndex(s.l)]

\* The actions that are neither editing nor browsing
Control(s, a) ==
  CASE a.t = "accept" -> End(s, "accept")
    [] a.t = "accept-non-empty" ->
         IF Chosen(s.l) # <<>> \/ Count(s.l) > 0 \/ (~s.c.reading /\ s.c.count = 0)
         THEN End(s, "accept") ELSE s
    [] a.t = "accept-or-print-query" ->
         End(s, IF s.l.selected # <<>> \/ Count(s.l) > 0 THEN "accept" ELSE "print-query")
    [] a.t = "print-query" -> End(s, "print-query")
    [] a.t = "abort" -> End(s, "quit")
    [] a.t = "cancel" -> Cancelled(s)
    [] a.t = "delete-char/eof" ->
         IF s.q.cx < Len(Text(s.q)) THEN [s EXCEPT !.q = DeleteChar(@)]
         ELSE IF s.q.cx = 0 THEN End(s, "quit") ELSE s
    [] a.t = "backward-delete-char/eof" ->
         IF Text(s.q) = <<>> THEN End(s, "quit") ELSE [s EXCEPT !.q = BackwardDeleteChar(@)]
    [] a.t = "print" -> [s EXCEPT !.c.printed = Append(@, a.a)]
    [] a.t = "toggle-sort" -> Changed(s)
    [] a.t = "change-nth" ->
         IF a.a = s.c.nth THEN s ELSE Changed([s EXCEPT !.c.nth = a.a])
    [] a.t = "change-with-nth" -> Changed([s EXCEPT !.c.filterSelection = TRUE])
    [] a.t = "change-header-lines" ->
         IF a.a = s.c.headerLines THEN s
         ELSE Changed([s EXCEPT !.c.headerLines = a.a, !.c.target = CurrentIndex(s.l),
                                !.l = Keep(@, {i \in SelectedIndices(@) : i >= a.a})])
    [] a.t = "exclude" -> IF ~HasCurrent(s.l) THEN s
                          ELSE Excluding([s EXCEPT !.l = DeselectItem(@, CurrentItem(s.l))],
                                         <<CurrentItem(s.l)>>)
    [] a.t = "exclude-multi" ->
         Excluding(IF s.l.selected = <<>> THEN s
                   ELSE [s EXCEPT !.l = [@ EXCEPT !.selected = <<>>, !.touched = TRUE]], Chosen(s.l))
    [] a.t = "reload" -> Reload(s, FALSE, a.a)
    [] a.t = "reload-sync" -> Reload(s, TRUE, a.a)
    [] a.t = "toggle-search" -> [s EXCEPT !.c.paused = ~@, !.x.changed = s.c.paused]
    [] a.t = "enable-search" -> Changed([s EXCEPT !.c.paused = FALSE])
    [] a.t = "disable-search" -> [s EXCEPT !.c.paused = TRUE]
    [] a.t = "search" -> Changed([s EXCEPT !.c.override = a.a])         \* also transform-search
    [] a.t = "toggle-input" -> [s EXCEPT !.q.inputless = ~@]
    [] a.t = "toggle-track" ->
         [s EXCEPT !.c = UnblockTrack([@ EXCEPT !.track = CASE @ = "on" -> "off"
                                                            [] @ = "off" -> "on"
                                                            [] OTHER -> @])]
    [] a.t = "toggle-track-current" ->
         LET t == CASE s.c.track = "current" -> [s EXCEPT !.c.track = "off"]
                    [] s.c.track = "off" -> TrackCurrent(s)
                    [] OTHER -> s
         IN  [t EXCEPT !.c = UnblockTrack(@)]
    [] a.t = "track-current" -> IF s.c.track = "on" THEN s ELSE TrackCurrent(s)
    [] a.t = "untrack-current" ->
         [s EXCEPT !.c = UnblockTrack([@ EXCEPT !.track = IF @ = "current" THEN "off" ELSE @])]
    [] a.t = "paste-begin" -> [s EXCEPT !.c.pasting = <<Text(s.q)>>]
    [] a.t = "paste-end" ->
         IF s.c.pasting = <<>> THEN s
         ELSE [s EXCEPT !.x.queryChanged = Text(s.q) # s.c.pasting[1], !.c.pasting = <<>>]
    [] a.t = "jump" -> [s EXCEPT !.c.jumping = "on"]
    [] a.t = "jump-accept" -> [s EXCEPT !.c.jumping = "accept"]
    [] a.t = "unbind" -> [s EXCEPT !.c.keymap = Restricted(@, DOMAIN @ \ a.a)]
    [] a.t = "rebind" -> [s EXCEPT !.c.keymap = Restricted(s.c.keymapOrg, a.a) @@ @]
    [] a.t = "toggle-bind" ->
         [s EXCEPT !.c.keymap = Restricted(s.c.keymapOrg, a.a \ DOMAIN @) @@ Restricted(@, DOMAIN @ \ a.a)]
    [] a.t = "bg-transform" -> [s EXCEPT !.c.bg = @ \cup {[valid |-> TRUE, actions |-> a.a]}]
    [] a.t = "bg-cancel" -> [s EXCEPT !.c.bg = {[j EXCEPT !.valid = FALSE] : j \in @}]
    [] OTHER -> s                                                       \* ignore, start, bell, ...

\* What an action does that runs no other actions
Effect(s, a) ==
  CASE a.t \in EditNames -> [s EXCEPT !.q = Edit(s, a)]
    [] a.t \in RuboutNames -> [s EXCEPT !.x.beof = Text(s.q) = <<>>, !.q = EditBack(s.q, a)]
    [] a.t \in ListNames -> [s EXCEPT !.l = Browse(s.l, a)]
    [] OTHER -> Control(s, a)

\* doAction, at its beginning: while it waits, only some actions are let through.
TrackFree == {"toggle-track", "toggle-track-current", "untrack-current"}
Passes(s, a) == s.x.inBg \/ a.t \in {"async", "paste-begin", "paste-end"}
Refused(s, a) == ~Passes(s, a) /\ (s.c.wait.blocked \/ (s.c.trackBlocked /\ a.t \notin TrackFree))
Refuse(s, a) ==
  IF a.t \notin {"abort", "cancel"} THEN s
  ELSE IF s.c.wait.blocked THEN CancelWait(s) ELSE [s EXCEPT !.c = UnblockTrack(@)]

\* ... and at its end, where p was the query before: one that is not shown is restored.
Done(p, s) ==
  IF s.q.inputless
  THEN [s EXCEPT !.q.input = p.input, !.q.cx = Len(Text(p)), !.x.beof = FALSE]
  ELSE IF Text(s.q) # Text(p) THEN [s EXCEPT !.c.override = None] ELSE s
----------------------------------------------------------------------------
(* Lists of actions.  An action may run another list, so what is done is a  *)
(* machine of the state s and the calls under way, the innermost first,     *)
(* each a frame with its local variables:                                   *)
(*   list     doActions: the actions left; the iteration, and the query and *)
(*            the focus from before it; whether an action ran, and whether  *)
(*            it waited before that                                         *)
(*   restore  doAction, which comes back to its end: the query before       *)
(*   keys     trigger: the keys left, those being triggered, and the wait   *)
(*   jobs     async: the callbacks left                                     *)
Machine(s, calls) == [s |-> s, calls |-> calls]

Round(s, actions, iter, before) ==
  [f |-> "list", actions |-> actions, iter |-> iter, before |-> before, focus |-> CurrentIndex(s.l),
   ran |-> FALSE, blocked |-> s.c.wait.blocked]
Call(s, actions, calls) == Machine(s, <<Round(s, actions, 0, Text(s.q))>> \o calls)

\* The actions that run others
Nesting == {"click", "transform", "trigger", "async"}
Nest(s, a, calls) ==
  CASE a.t = "click" -> Call([s EXCEPT !.l = Vset(@, @.offset + a.a)], ActionsFor(s.c, "left-click"), calls)
    [] a.t = "transform" -> Call(s, a.a, calls)
    [] a.t = "trigger" -> Machine(s, <<[f |-> "keys", keys |-> a.a, triggering |-> s.x.triggering,
                                        blocked |-> s.c.wait.blocked]>> \o calls)
    [] a.t = "async" -> Machine([s EXCEPT !.x.inBg = TRUE],
                                <<[f |-> "jobs", jobs |-> s.x.callbacks]>> \o calls)

\* doAction comes back to its end, but not from a click, which it leaves with a return.
Return(s, a) == IF a.t = "click" THEN <<>> ELSE <<[f |-> "restore", q |-> s.q]>>

DoAction(s, a, calls) ==
  IF Refused(s, a) THEN Machine(Refuse(s, a), calls)
  ELSE IF a.t \in Nesting THEN Nest(s, a, Return(s, a) \o calls)
  ELSE Machine(Done(s.q, Effect(s, a)), calls)

\* `wait`, with the frame g of its list, of which it leaves the rest for later.
\* The query that it compares with is the one before the first round.
Searching(s, before) == s.x.changed \/ s.x.command # None \/ s.c.wait.searching \/ before # Text(s.q)
Wait(s, g, calls) ==
  IF s.c.wait.blocked
  THEN Machine(IF s.x.inBg THEN DeferActions(s, g.actions) ELSE s, calls)
  ELSE IF Searching(s, g.before) THEN Machine(BlockWait(s, g.actions), calls)
  ELSE Machine(s, <<g>> \o calls)

\* After a list those actions bound to `focus`, as long as the focus moves
Focused(s) == [s EXCEPT !.c.lastFocus = CurrentIndex(s.l)]
EndRound(s, g, calls) ==
  IF Bound(s.c, "focus") /\ g.iter < MaxFocus /\ CurrentIndex(s.l) # g.focus
  THEN Machine(Focused(s), <<Round(s, s.c.keymap["focus"], g.iter + 1, g.before)>> \o calls)
  ELSE Machine(s, calls)

\* An action that armed a wait defers the rest of this list too; a terminal one ends the list.
Armed(s, g) == ~g.blocked /\ s.c.wait.blocked
RunList(s, g, calls) ==
  LET rest == [g EXCEPT !.actions = Tail(@)]
      running == [rest EXCEPT !.ran = TRUE, !.blocked = s.c.wait.blocked]
  IN  IF Armed(s, g) THEN Machine(DeferActions(s, g.actions), calls)
      ELSE IF g.actions = <<>> \/ (g.ran /\ s.c.ends # None) THEN EndRound(s, g, calls)
      ELSE IF Head(g.actions).t = "wait" THEN Wait(s, rest, calls)
      ELSE DoAction(s, Head(g.actions), <<running>> \o calls)

\* trigger: not recursively; once a wait is armed, the rest of the keys wait too
Free(s, key) == key \notin s.x.triggering /\ Bound(s.c, key)
ActionsOf(s, keys) ==
  LET joined[n \in 0 .. Len(keys)] ==
        IF n = 0 THEN <<>> ELSE joined[n - 1] \o (IF Free(s, keys[n]) THEN s.c.keymap[keys[n]] ELSE <<>>)
  IN  joined[Len(keys)]
RunKeys(s0, g, calls) ==
  LET s == [s0 EXCEPT !.x.triggering = g.triggering]
      rest == <<[g EXCEPT !.keys = Tail(@)]>> \o calls
  IN  IF Armed(s, g) THEN Machine(DeferActions(s, ActionsOf(s, g.keys)), calls)
      ELSE IF g.keys = <<>> THEN Machine(s, calls)
      ELSE IF Free(s, Head(g.keys))
      THEN Call([s EXCEPT !.x.triggering = @ \cup {Head(g.keys)}], s.c.keymap[Head(g.keys)], rest)
      ELSE Machine(s, rest)

\* The results of background commands, unless they were cancelled meanwhile
RunJobs(s, g, calls) ==
  LET rest == <<[g EXCEPT !.jobs = Tail(@)]>> \o calls
  IN  IF g.jobs = <<>> THEN Machine([s EXCEPT !.x.inBg = FALSE], calls)
      ELSE IF Head(g.jobs).valid THEN Call(s, Head(g.jobs).actions, rest)
      ELSE Machine(s, rest)

Continue(s, g, calls) ==
  CASE g.f = "list" -> RunList(s, g, calls)
    [] g.f = "restore" -> Machine(Done(g.q, s), calls)
    [] g.f = "keys" -> RunKeys(s, g, calls)
    [] OTHER -> RunJobs(s, g, calls)

\* doActions, in at most MaxSteps steps: `stuck` says that there were more.
Run(m) ==
  LET run[n \in 0 .. MaxSteps] ==
        IF n = 0 THEN m
        ELSE LET so == run[n - 1] IN
             IF so.calls = <<>> THEN so ELSE Continue(so.s, Head(so.calls), Tail(so.calls))
  IN  run[MaxSteps]
Outcome(m) == [m.s EXCEPT !.x.stuck = @ \/ m.calls # <<>>]
DoActions(s, actions) == Outcome(Run(Call(s, actions, <<>>)))
=============================================================================
