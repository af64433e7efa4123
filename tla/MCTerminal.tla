----------------------------- MODULE MCTerminal -----------------------------
(* Scenes for Terminal: bindings of keys, and the state fzf starts in. *)
EXTENDS Terminal

A(name) == [t |-> name]
With(name, arg) == [t |-> name, a |-> arg]
Plain(names) == [k \in names |-> <<A(k)>>]    \* keys named as what they do

query == [input |-> Fresh(<<>>, <<>>), cx |-> 0, yanked |-> <<>>, inputless |-> FALSE,
          history |-> NewHistory(<<>>)]
three == <<<<0, 0>>, <<0, 1>>, <<0, 2>>>>
list == [shown |-> three, result |-> three, pass |-> three, raw |-> FALSE, match |-> {},
         cy |-> 0, offset |-> 0, selected |-> <<>>, multi |-> 0, touched |-> FALSE,
         lines |-> [i \in 0 .. 2 |-> 1], multiLine |-> FALSE, gap |-> 0,
         height |-> 2, scrollOff |-> 0, cycle |-> FALSE, reverse |-> FALSE]
control == [keymapOrg |-> <<>>, keymap |-> <<>>,
            wait |-> [blocked |-> FALSE, pending |-> <<>>, searching |-> FALSE],
            reading |-> FALSE, count |-> 3, track |-> "off", trackIndex |-> NoIndex, trackKey |-> NoIndex,
            trackBlocked |-> FALSE, trackSync |-> FALSE, idNth |-> FALSE, pendingSelections |-> {},
            target |-> NoIndex, revision |-> <<0, 0>>, filterSelection |-> FALSE, triggerLoad |-> FALSE,
            paused |-> FALSE, override |-> None, pasting |-> <<>>, jumping |-> "off", nth |-> 0,
            headerLines |-> 0, bg |-> {}, printed |-> <<>>, ends |-> None, width |-> 0, xoffset |-> 0,
            focused |-> 0, lastFocus |-> 0, typed |-> {}]
Scene(p, m, keys, requests) ==
  [q |-> p, l |-> m, c |-> [control EXCEPT !.keymap = keys, !.keymapOrg = keys], requests |-> requests]
Typing(scene, chars) == [scene EXCEPT !.c.typed = chars]

\* The query line, two columns wide, with each editing key doing one thing
editing == Typing([Scene([query EXCEPT !.input = Fresh(<<"a", ".">>, <<>>), !.cx = 1], list,
  Plain({"beginning-of-line", "backward-char", "backward-word", "forward-word", "delete-char",
         "unix-line-discard", "unix-word-rubout", "kill-word", "kill-line", "yank", "cancel",
         "backward-delete-char/eof"}), 0)
  EXCEPT !.c.width = 2], {"a", "."})

\* Sub-words, a paste and an input that is hidden
pasting == Typing(Scene([query EXCEPT !.input = Fresh(<<"a">>, <<>>), !.cx = 1], list,
  Plain({"backward-kill-subword", "kill-subword", "forward-subword", "paste-begin",
         "paste-end", "toggle-input", "accept"})
  @@ ("put" :> <<With("put", <<"a", "A">>)>>)
  @@ ("change-query" :> <<With("change-query", <<"A", "a", "a", "a">>)>>), 0), {"A"})

\* A history of two lines
remembering == Typing(Scene([query EXCEPT !.history = NewHistory(<<<<"a">>, <<"a", "a">>>>)], list,
  Plain({"prev-history", "next-history", "backward-delete-char", "accept"}), 0), {"a"})

\* Browsing and selecting, in items of one or two lines
browsing == Scene(query, [list EXCEPT !.multi = 2, !.multiLine = TRUE, !.lines[1] = 2, !.height = 3, !.scrollOff = 1],
  Plain({"up", "down", "page-up", "half-page-down", "offset-up", "offset-middle", "toggle-up", "toggle-all",
         "next-selected", "last", "exclude-multi"})
  @@ ("search" :> <<With("search", "x")>>) @@ ("pos" :> <<With("pos", -1)>>)
  @@ ("one" :> <<A("first")>>), 1)
looking == Scene(query, [list EXCEPT !.multi = 2, !.cycle = TRUE, !.reverse = TRUE],
  Plain({"up-match", "down-match", "best", "select", "deselect-all", "accept-non-empty"})
  @@ ("j" :> <<A("jump")>>) @@ ("jump" :> <<A("toggle")>>)
  @@ ("raw" :> <<With("raw", "toggle")>>) @@ ("search" :> <<With("search", "x")>>)
  @@ ("click" :> <<With("click", 1)>>) @@ ("left-click" :> <<A("toggle")>>)
  @@ ("fewer" :> <<With("change-multi", 1)>>) @@ ("multi" :> <<A("offset-down")>>), 2)

\* The focus moves, and so do what is bound to it
focusing == Scene(query, list, Plain({"up", "first"}) @@ ("search" :> <<With("search", "x")>>)
  @@ ("focus" :> <<A("down"), A("track-current")>>), 1)

\* wait: 1 is always to be printed with 2 after it
waiting == Scene(query, list,
     ("w" :> <<With("search", "x"), A("wait"), With("print", 1), With("print", 2)>>)
  @@ ("n" :> <<With("trigger", <<"jump">>), With("print", 2)>>)
  @@ ("jump" :> <<With("reload", FALSE), A("wait"), With("print", 1)>>)
  @@ ("p" :> <<With("print", 3)>>)
  @@ ("b" :> <<With("bg-transform", <<With("search", "y"), A("wait"), With("print", 1), With("print", 2)>>)>>)
  @@ ("x" :> <<A("bg-cancel"), A("abort")>>), 2)

\* Selections and the tracked item, kept over a reload with --id-nth
keeping == [Scene(query, [list EXCEPT !.multi = 1, !.height = 3],
     Plain({"up", "select"})
  @@ ("reload-sync" :> <<With("reload-sync", TRUE)>>) @@ ("reload" :> <<With("reload", FALSE)>>), 2)
  EXCEPT !.c.idNth = TRUE, !.c.track = "on"]

\* Tracking over changes of the list
tracking == [Scene(query, list,
     Plain({"up", "toggle-track-current", "exclude"})
  @@ ("search" :> <<With("search", "x")>>) @@ ("reload" :> <<With("reload", FALSE)>>)
  @@ ("load" :> <<A("last")>>)
  @@ ("headers" :> <<With("change-header-lines", 1)>>), 1) EXCEPT !.c.reading = TRUE, !.c.wait.searching = TRUE]

AllScenes == {editing, pasting, remembering, browsing, looking, focusing, waiting, keeping, tracking}

SomeLists == {<<>>, <<2, 0>>, <<0, 1, 2>>}
=============================================================================
