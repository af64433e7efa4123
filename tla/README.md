# A verification project for fzf

TLA+ models of fzf (`src/`, the Go program), the TLC runs that check them on small
instances, and proofs about them that TLAPS checks. Source positions below are relative to
`src/src/` unless they start with `src/`.

- [The system](#the-system)
- [Modules and how they correspond to the code](#modules-and-how-they-correspond-to-the-code)
- [What the runs check](#what-the-runs-check)
- [Where the code and its documentation disagree](#where-the-code-and-its-documentation-disagree)
- [What is proved](#what-is-proved)
- [What is not modelled](#what-is-not-modelled)
- [Plan](#plan)
- [Running it](#running-it)

## The system

fzf reads items, matches them against a query while the user types, and displays the matches.
The parts run as goroutines and talk through *event boxes* (a map from event type to the last
value, with one waiter), channels, and shared memory under mutexes.

```
   Reader --EvtReadNew/EvtReadFin--> [event box] --> coordinator (core.go Run)
   Terminal --EvtSearchNew---------> [event box] --> coordinator
   Matcher --EvtSearchProgress/Fin-> [event box] --> coordinator
   coordinator --Matcher.Reset--> [reqBox] --> Matcher --> scan workers --> ChunkCache
   coordinator --UpdateList/UpdateCount/...--> Terminal --reqBox--> render loop, preview
   Reader --Push--> ChunkList <--Snapshot-- coordinator
```

| Component | State it keeps | Operations | Talks to | What is hard about it | What makes it correct |
|---|---|---|---|---|---|
| Event box (`util/eventbox.go`) | `events`, `ignore`, a condition variable | Set, Wait (with a callback under the lock), WaitFor, Watch, Unwatch, Clear, Peek | everybody | one wait without a loop; values replaced before they are seen | newest value of every type delivered, no lost wake-up |
| Chunk list (`chunklist.go`) | slice of pointers to chunks of items | Push, Snapshot (trims with `--tail`, copies the chunks still written to), Clear, CountItems, ForEachItem | reader pushes, coordinator takes snapshots, matcher and terminal read them without the lock | sharing of chunks between the list and its snapshots | snapshots immutable and complete; counts right |
| Chunk cache (`cache.go`) | per chunk: query to bitmap of matches | Add, Lookup, Search, retire, Clear | scan workers, coordinator, chunk list | validity: keyed by chunk pointer and query only | a bitmap says what matches |
| Reader (`reader.go`) | `event`, `finChan`, `killed`, `termFunc`, `exec` | ReadSource, feed, startEventPoller, fin, terminate, restart | coordinator, child process | reload while reading; poller against fin | every item announced, sessions not mixed |
| Coordinator (`core.go` `Run`) | `reading`, `snapshot` and its revision, `inputRevision`, `useSnapshot`, `nextCommand`, `denylist`, `patternCache`, `nth`, `sort` | one case per event | all | revisions, reload, `reload-sync`, order of handling in a batch | what is displayed belongs to the last query, list and options |
| Matcher (`matcher.go`) | two pending requests, `mergerCache`, `prevCount`, `revision`, `cancelScan`, `scanMutex` | Loop, scan, Reset, CancelScan, ResumeScan, Stop | coordinator, workers, pattern | requests that overtake each other, cancelled scans, cached results | exact results, in order; scans end |
| Merger, ranks (`merger.go`, `result.go`) | sorted lists and a cursor into each | Get, mergedGet, FindIndex, ranks, radix sort | terminal | rows merged only as far as asked for; header lines, `--tail` | the merged order is the sorted order; an item is found where it is shown |
| Pattern (`pattern.go`) | terms of a query, bitmaps of earlier queries | BuildPattern, Match, extendedMatch | workers, chunk cache | a query that looks narrower than another and is not | the cache never hides an item |
| Match algorithms (`algo/`) | - | FuzzyMatchV1, FuzzyMatchV2, exact, prefix, suffix, equal | pattern | fast paths and prefilters beside the general algorithm | they agree; a match is one |
| Tokenizer, items, chars (`tokenizer.go`, `item.go`, `util/chars.go`) | - | Tokenize, Transform, ParseRange | pattern, terminal | negative and open ranges | fields selected as documented |
| Terminal: query (`terminal.go`, `history.go`) | slice of characters, cursor, cut text; lines, edits and cursor of the history | the editing actions, append, override, previous, next | main loop | slices that share an array | every change noticed, edits belong to their line |
| Terminal: list (`terminal.go`) | merger, cursor, offset, selection, tracking, wait | UpdateList, Loop (one case per action), constrain | coordinator, renderer | results that arrive between actions; keys and indices across reloads | cursor and selection stay valid; waiting actions run in order |
| Terminal: layout (`terminal.go`) | windows, the preview's specification | resizeWindows, resizeIfNeeded, the mouse on a border | renderer, main loop | positions computed from the heights of other sections, in every order of them | sections apart and whole |
| Terminal: goroutines (`terminal.go`) | `mutex`, `uiMutex`, `reqBox`, `eventChan` | main loop, render loop, wake-up | coordinator, matcher | locks taken in the callbacks of event boxes; sends with locks held | nobody waits for good |
| Terminal: preview | version, cancel and kill channels, the lines so far | runner, collector, canceller, delayed marker | child process, renderer | late output of older commands | the window shows the current item |
| Terminal: background commands | queue, two semaphores, callback channel | captureAsync, dispatchAsync, bg-cancel | child processes, main loop | more invocations than room | the last invocation is heard |
| HTTP server (`server.go`) | listener, action channel | GET (state), POST (actions) | terminal | time-outs, lock of the terminal | an answer says what happened |
| Options, key bindings (`options.go`) | - | ParseOptions, parseKeymap | start | grammar of bindings | as documented |
| ANSI colours (`ansi.go`) | attributes carried from line to line | nextAnsiEscapeSequence, extractColor, ToString | coordinator | a hand-written scanner; offsets closed late | every character has the colour of the codes before it |
| Light renderer (`tui/light.go`) | input buffer | GetChar, escSequence; drawing | main loop | sequences in pieces, several keys in one read | one event per key, in order |
| Other TUI (`tui/tcell.go`, `tui/tui.go`) | - | drawing | - | - | - |
| Popups (`proxy.go`, `tmux.go`, `zellij.go`, `winpty.go`) | named pipes, border label updater | runProxy | another fzf | - | - |
| File walker (in `reader.go`) | - | readFiles | reader | must notice `killed` | - |
| Shell integration, Vim plugin | scripts | - | - | - | - |

The hazards list of `PROJECT.json` names, at its line, what in this is hard to test, with the
properties that look for it.

## Modules and how they correspond to the code

| Module | Models | Remarks |
|---|---|---|
| `Mailbox` | what an event box promises | abstract specification: `Post` a newer value, `Deliver` the newest of every type |
| `EventBox` | `util/eventbox.go` with the waiter of `core.go` | implements `Mailbox` with its own `value` and `handled` |
| `ChunkList` | `chunklist.go`, keys of `cache.go` | a heap of chunks; a pointer is an index into it |
| `Reader` | `reader.go`, and of `core.go` what starts, stops and listens to the reader | event poller, `fin`, `terminate`, `restart` |
| `Core` | the event loop of `core.go`, `Matcher.Loop` with `mergerCache`, the terminal's `searchRequest`s, the pattern cache | composes the components on the level of their events |
| `Scan` | `Matcher.scan`, its workers, `cache.go` under concurrency, `CancelScan`/`ResumeScan` | composes matcher, workers, cache and coordinator |
| `Query` | the query line of `terminal.go`, `history.go` | functions of a record |
| `ItemList` | list, cursor, scrolling, selection; `constrain` | functions of a record, on top of `Query` |
| `Actions` | `doAction` and `doActions` | what a binding does, with `wait`, triggers and callbacks |
| `Terminal` | `Loop`, `UpdateList`, `UpdateCount` | composes the three above with what the coordinator may send |
| `Layout` | `resizeWindows` and what it calls, of `tui.go` and `options.go` too | a function from options to windows |
| `Screen` | the actions and events that change windows, the render loop's redraw | state machine over `Layout` |
| `Tasks` | the goroutines of the terminal and the locks and channels between them | data left out |
| `Preview` | the goroutines of the preview command, `printPreview` | |
| `Background` | `captureAsync`, `dispatchAsync`, `bg-cancel` | |
| `Algo`, `Matches` | `algo/algo.go`; what a match is | algorithms, and their definition to compare with |
| `Tokens` | `tokenizer.go` | |
| `Terms` | `pattern.go` with one chunk of `cache.go` | searches one after the other as the query is edited |
| `Merging` | `result.go`, `merger.go` | rows asked for in any order |
| `Keys` | key decoding of `tui/light.go` | bytes arriving and events taken |
| `Ansi` | `ansi.go`, and of `core.go` `ansiProcessor` and `transformItem` | bytes for the scanner, pieces of a line for the colours |
| `MC...` | constants and start states for the runs | `MCTasks`, `MCMatching` and `MCText` join state machines that share no variable |
| `EventBoxProofs`, `ChunkListProofs`, `ReaderProofs`, `CoreProofs`, `TerminalProofs` | theorems about the module of that name | see [What is proved](#what-is-proved) |
| `MatcherProofs` | theorems about `Scan` and `Merging` | |
| `AlgoProofs` | theorems about `Algo`, by the definitions of `Matches` | |
| `NatLemmas` | least numbers, partial sums, counting, functions defined step by step | used by the proofs |

Definitions introduced by "Faulty variant of ..." are what a plausible bug would make of a definition.
No specification uses them; they serve to check that a property would notice the bug.

**Event box.** Every method takes `cond.L`, so each is one action. `Wait` on an empty box is two:
`Park` (`cond.Wait` gives the lock up) and, after a Broadcast, the callback. `Wait` has no loop
around `cond.Wait`, hence `CallbackSeesEvents`. The waiter first does what `--sync` does in
`core.go:353` (Unwatch, WaitFor, Watch) and then handles batches. A value is a number that grows
with every Set of its type. In the other modules the box is "locked" while a batch is handled,
which is what the callback of `Wait` amounts to: `Set` waits.

**Chunk list.** Items are the indices `itemTransformer` gives them, and start again from 0 at a
reload. `Push`, `Snapshot` and `Clear` are the methods; `Trim` and `Duplicate` are the two parts of
`Snapshot`, and `CountItems` is the code's arithmetic over the first and the last chunk. `taken`
remembers for each snapshot what it contained, so that later writes to shared chunks show.

**Reader.** Start, feed, and `fin` are split where the code gives other goroutines a chance:
between pushing an item and storing `EvtReadNew`, between the poller's swap of `r.event` and its
`Set`, between the store of `EvtReadFin`, the receive from `finChan` and the `Set`. A command, a
walk and standard input differ in how `terminate` reaches them.

**Core.** One action per event handled, and one per step of another goroutine that the handlers
can interleave with. A batch is handled in any order, since the code ranges over a map. A handler
is a composition of functions over the variables of `Run` in the order of the code (`Applied`,
`Commanded`, `SearchedList`, `Reset`). Which items match is left to the pattern: a result remembers
the request that was searched (`found`) beside the one it was given for (`request`), so an answer
from a cache can be compared with the question. Items are counted per session, so a snapshot is a
session and an interval. `dropped` records what the code knowingly or not throws away: the payload of
a searchRequest that the next one replaces, and the newer of two requests in the matcher's box.

**Scan.** One worker action per step on shared data: the atomic index, the look-ups in the cache,
the match, the add, the sends. An entry of the cache is one bit, an item per chunk; a query is the
number of its characters, each a prefix of the next, so that the bitmap of a shorter query may be
used for a longer one. `slow` says whether scans reach `progressMinDuration` and so report
progress.

**Terminal** (`Query`, `ItemList`, `Actions`, `Terminal`). An iteration of `Loop` handles one event
with `t.mutex` held, so it is one action: the record of the state goes through the functions of
`Actions`, one per group of cases of `doAction`, in the order of the chain bound to the event, and
then through the comparisons at the end of the iteration. An action can trigger others, which the code
runs by calling `doActions` within `doAction`; `Actions` has a machine for that, whose state is the record
and a stack of calls, and `Run` takes at most `MaxSteps` of its steps. An iteration with more is
not taken (`stuck`); the bound is above what any scene needs. `UpdateList` is the other big action; what
the coordinator may send is decided by a small model of it, `e`: at most two searches, of which the
matcher drops either one while both are in its box (`Dropping`; `e.lost` if it was the newer). A query is `[text, off, cap, shared,
old]`, since the editing actions append in place and `previousInput` looks into the same array. An
item is its list and its index, and its lines and its key are given by the scene. A scene of
`MCTerminal` is a set of bindings and a start state; each looks at one group of actions.

**Layout and screen.** `Windows` follows `resizeWindows` from the margins to the last inline
section, a window being its place, size and border. `Screen` holds the options as the actions change
them, the windows of the last layout and the requests to the renderer; `NeedsLayout` is
`resizeIfNeeded`. `MaxFitAndPad` is what `core.go` uses for `--height=~`.

**Tasks.** One program counter per goroutine, one action per acquisition of a lock, send or receive.
A lock is its owner. The coordinator holds `box` for a whole batch, the renderer `req`. A send to
`eventChan` waits while it is full, also the renderer's `focus`, with every lock of the sender held.
The matcher has a request of each kind in its box, takes either of the two and drops the other;
`lost` remembers that the one dropped was the search of the whole input.

**Preview, Background.** One action per channel operation of each goroutine. A line of output is
known by its item; the clear code starts over, and `version--` with it; `reused` remembers that the
version on the screen is one of an earlier command. A job is an action and a number. It gives up its
semaphores in a step after the send of its callback, as the code does.

**Algorithms.** `Algo` has the code's functions with its indices and its score arithmetic, on a
alphabet with one member for each character class. A score matrix is a function over rows and columns
instead of two slabs. `Matches` says what a match is: an embedding of the pattern's characters.
`Terms` parses queries character by character, and its bitmaps are sets of items. `Merging` computes
ranks as the code does and hands out rows by `mergedGet`, one step per row asked for.

**Keys, Ansi.** `Press` puts the bytes of a key in the tty, perhaps in two pieces; `GetChar` and
`SecondChance` are the two calls of `escSequence`. `Ansi` looks at a line twice: as bytes, where
`nextAnsiEscapeSequence` is compared with the regular expression of its comment, and as characters
and codes, where the offsets are compared with the colour that the codes before a character say.
With `--with-nth` a line is shown as any sequence of its tokens, none and the same one twice included. What a token
should look like comes from `raw`, the colour that the lines end in as they were read, not from the code's own state.

## What the runs check

All runs are exhaustive. "Bounds" are the constants of the `.cfg` files.

| Run | Properties | Bounds, and why they are enough |
|---|---|---|
| `eventbox` | `ImplementsMailbox`, `EventuallyHandled` | three types (ignored, awaited, other), two values each: a value can be replaced in every state of the waiter, and arrive before, during and after `WaitFor` |
| `chunklist` | `SnapshotsImmutable`, `SnapshotExact` | chunks of two items, `--tail` absent, smaller and larger than two chunks, nine chunks allocated, two snapshots kept: a middle chunk, a cut first chunk and a copied last chunk occur together, and across a reload |
| `reader` | `OneSession`, `FinalIsComplete`, `ReloadStarts` | each source first, three sessions of two items: a reload during a reload, and `terminate` at every step of either session |
| `core_typing` | `ResultExact`, `Settles`, with `--sync` and `--tail` | three items, a tail of one, three actions, two queries: a trim on every new item, cached results for both queries |
| `core_all` | `NothingLost`, `SyncKeepsList` over all actions | every pair of actions in every interleaving, one item in each list |
| `scan` | `ResultExact`, `ScanEnds` | two workers, three chunks (the last not full), queries of up to two characters, two changes; quick and slow scans |
| `terminal` | `SelectionSound`, `CursorVisible`, `WaitKeepsOrder`, `ChangeNoticed`, `HistoryKept`, `TrackKeepsItem`, `WaitsAnswered` | nine scenes; three items, a screen of two or three lines, items of one or two lines, queries of up to three characters, two or fewer requests; results are every list of `SomeLists`: empty, reordered and shorter, complete |
| `screen` | `SectionsApart`, `SectionsWhole`, `AllFit`, `PressKeepsSize`, `PreviewToggles` | three layouts with every order and kind of border of the sections, five positions of the preview, thresholds, two sizes of the terminal; one line more or less of each section at a time |
| `tasks` | `LoopReturns`, `WaitEnds`, `QuitQuits`; `PreviewSettles`; `LastIsCalled` | three scripts of a user, the real capacity of `eventChan`, one partial search, `load` bound: both kinds of request are in the matcher's box together, and each lock is asked for by two while a third holds it; two items with outputs of two to four lines, one with the clear code, three moves of the cursor; two actions, three jobs, room for one |
| `matching` | `MatchSound`, `FastPathsAgree`; `CacheNarrows`, `OffsetsOfWholeLine`; `RowsInOrder`, `FoundWhereShown` | texts to four and patterns to three characters of five, six option records; three searches in a row over six items, 25 scenes of queries, ranges and delimiters; four results by two workers under three orders, with `--tac` and without; lists of up to three chunks |
| `text` | `EventsAreKeys`; `EscapesLikeRegex`; `ColorsExact`, `TokensKeepColors` | three keys of 20, in pieces; four bytes of 11 behind four beginnings; lines of five pieces together, three sets of pieces, up to two tokens shown in any order, one of them twice too |
| `execute_deadlock` | `LoopReturns`, violated | all events bound, one script of two keys, one partial search; renderer and main loop prompt: see the next section |

Deadlock is not checked: every model stops when its bounded input is used up.

Fairness. A goroutine that can run does so (`WF` per goroutine): the Go scheduler is preemptive
and has no priorities. Whoever waits for the lock of the event box gets it although the coordinator
takes it again and again (`SF` on the `Set`s in `Reader` and `Core`): a `sync.Mutex` switches to a
first-come mode once a waiter starves. In `Scan` and `MCTasks` weak fairness is enough. No user action,
no delivery and no end of an input is assumed, except that in `Core` and `MCTasks` the input ends and the
commands do (`execute` too), and that in `Reader` a killed command and a walk that is told to stop
do end. A read of standard input that blocks may never end, and `ReloadStarts` leaves it out. The main
loop comes round only for what it receives: `MCTasks` is fair to it when there is an event in
`eventChan`, a wake-up or a callback (`Loop`, `Callbacks`), not to keys (`SelectKey`) and not to an
iteration for nothing (`Iterate`), which may happen or not. In
`MCTasks` a behaviour follows one of three groups of goroutines, so that one fairness condition for
actions of different groups is one for each of them.

The properties, grouped by what they are about:

- *nothing is lost on the way*: `ImplementsMailbox`, `EventuallyHandled`, `NothingLost`, `Settles`,
  `ChangeNoticed`, `EventsAreKeys`, `LastIsCalled`
- *what is shared does not change under a reader*: `SnapshotsImmutable`, `SnapshotExact`
- *what was cached or remembered is not stale*: `ResultExact` (of mergers in `Core`, of
  scans in `Scan`), `CacheNarrows`, `SectionsWhole`, `PreviewSettles`, `HistoryKept`
- *order*: `FinalIsComplete`, `SyncKeepsList`, `OneSession`, `WaitKeepsOrder`, `RowsInOrder`
- *places*: `SelectionSound`, `CursorVisible`, `TrackKeepsItem`, `FoundWhereShown`, `SectionsApart`,
  `AllFit`, `PressKeepsSize`, `PreviewToggles`, `OffsetsOfWholeLine`, `ColorsExact`, `TokensKeepColors`
- *two ways to the same result*: `MatchSound`, `FastPathsAgree`, `EscapesLikeRegex`
- *somebody waits and is served*: `ReloadStarts`, `ScanEnds`, `LoopReturns`, `WaitEnds`, `WaitsAnswered`,
  `QuitQuits`

Some hold only under a condition, which is in the property or in the input and not hidden in a model:

| Property | Condition | What happens otherwise |
|---|---|---|
| `ResultExact` (`Core`) | no reload was asked for | stale merger |
| `NothingLost` | nothing was dropped | lost request, lost reload |
| `ResultExact` (`Scan`) | only the query changes | stale bitmaps |
| `WaitEnds`, `WaitsAnswered` | the matcher has not dropped the last search (`lost`) | lost request |
| `LoopReturns` | the events bound have room in `eventChan` (only `load` is bound) | run `execute_deadlock` |
| `LastIsCalled` | the job is not `Stalled`: in the queue with nothing running and no callback to come | stalled job |
| `PreviewSettles` | not `reused`: an output with the clear code has not taken the version of another | mixed preview |
| `ScanEnds`, cancelled | scans that report no progress | cancel under the event box's lock |
| `ChangeNoticed` | one editing action for each key | missed change |
| `SelectionSound`, limit | no `--id-nth` | selections restored beyond `--multi` |
| `SectionsApart` | not `Collides` | overlap with `--header-first` and `next` |
| `SectionsWhole` | not `InlineSection`, `InputUnplaced`, `Detached` | sections that are not laid out again |
| `AllFit` | not `InlineSection` | one item too few |
| `PressKeepsSize` | border touching the preview, or position `next` | the preview jumps |
| `EventsAreKeys` | `Lone` keys have nothing behind them | a sequence taken apart |
| `EscapesLikeRegex` | not `Loose`: ESC `\` with parameters, commands with unprintable text, ESC ] 8 ; ; ESC | loose scanner |
| `ColorsExact`, `TokensKeepColors` | not `EndsInIdleCode`; links | colour lost, link kept |
| `TokensKeepColors` | not `OneTokenTwice`: the only token of a line gets no prefix | shown twice, it begins in the colour it ends in |
| `TokensKeepColors` | not `BeginsStale`: the state the line begins with is that of the lines read | lost colour |

The last column is explained next.

## Where the code and its documentation disagree

One of them has a run that ends in a counterexample:

- `execute_deadlock` (`terminal.go:2201`): `UpdateList` sends its events to `eventChan` with `t.mutex` and
  the event box locked. The channel has room for 7, computed as if each event came once (1181). In the
  trace `load`, `one`, `result` and `result-final` are bound, and `focus` is sent for `--info-command`; the first
  final result and the list printed after it send five events while the main loop is busy with a key that changes
  the query. Its next `select` finds `eventChan` ready and the key of `execute`, and takes any of the two: the key.
  The command is running when the result of the new query comes: `one` and `result` fill the channel, and the
  send of `result-final` waits for the main loop, which waits for `t.mutex` once the command ends. The renderer is prompt in this run, so nothing hinges on a goroutine that
  is not scheduled.

For five more the modules state what the documentation says beside the property that holds. Such a statement,
given to the run as its only property, has a counterexample in it, too:

- Lost request (`matcher.go:89`; `WaitReleased`, run `tasks`): `Matcher.Loop` ranges over its two pending
  requests and keeps the one it sees last, a random order. The newer may lose: the search for what was just typed, for a new
  `--nth`, or the final one, for which a `wait` waits ("until the current search completes",
  `src/man/man1/fzf.1:2330`). Nothing repeats it until the next event.
- Stalled job (`terminal.go:5772`; `QueuedStarts`, run `tasks`): a job sends its callback before it gives up
  its semaphores. The callback brings the main loop to `dispatchAsync`, which may find them still taken and puts the next job back to the
  queue (5755), where it stays until a key is pressed or something else wakes the loop.
- Mixed preview (`terminal.go:6465`; `PreviewClears`, run `tasks`): the clear code does `version--`, which can
  equal the version of the command before. `printPreview` then takes the output for that of the same command, and lines of the other item
  stay below the first ("clearing the display (CSI 2 J) is supported", `src/man/man1/fzf.1:943`).
- Loose scanner (`ansi.go:180`; `EscapesMatchRegex`, run `text`): the scanner is said to be equivalent to a
  regular expression (186-190), but takes ESC `\` as the beginning of a control sequence too. It also takes commands with text that is not
  printable, and the end of a link without its last byte.
- Lost colour (`core.go:124`; `LinesKeepColors`, run `text`): with `--with-nth`, a line of several tokens
  begins in the state from before the previous line, not in that it ended in (`prevLineAnsiState`, set at 96), so a colour that goes on over a line
  break is lost ("for cross-line continuity", 120).

The others were met while modelling. Some appear when the condition of the table above is dropped, the
rest were seen in the code.

*Search and results.*

- Stale merger: `Matcher.Loop` drops `mergerCache` on a new revision but does not set `prevCount`
  then (`matcher.go:118-131`). The next snapshot whose length equals the old `prevCount` finds
  results cached for a list in between.
- Lost reload: a `searchRequest` replaces one not handled yet (`terminal.go:8609`), with the
  command, denylist and `nth` it carries. A key typed right after `reload` can make the reload
  disappear.
- Stale bitmaps: `change-nth`, `change-with-nth` and `exclude` clear the chunk cache while a scan may
  run (`core.go:505-546`). Its workers finish their chunk and then add bitmaps found the old way, and
  the next search skips items by them.
- Cancel under the event box's lock: `CancelScan` is called in the callback of `Wait` (`core.go:520`). A
  scan that has just tested `cancelScan` and sets `EvtSearchProgress` (`matcher.go:229`) waits for that
  lock with `scanMutex` held, which `CancelScan` waits for.
- During `reload-sync` a `change-nth` bumps `inputRevision` but not `snapshotRevision`, and the matcher
  answers from `mergerCache` with results of the old `nth`.
- A plain `reload` right after `reload-sync` keeps the denylist of the old list (`core.go:405`) for the
  first snapshots of the new one.

*Matching.* With `--tiebreak` on the end of the match, points are 0 once the match reaches trailing white
space (`result.go:110`). `'foo$` loses its anchor. `RangesToString` prints -1 for the range -3 to -1.

*Terminal.*

- Missed change: `previousInput := t.input` (6923) is not a copy. A binding of several editing actions can
  end with a different query that compares equal, and neither search nor `change` happens ("Triggered
  whenever the query string is changed", `src/man/man1/fzf.1`).
- Selections restored by `--id-nth` after a reload ignore the limit of `--multi` (2160).
- `up-match` and `down-match` with `--cycle` do not end when nothing matches in raw mode (7545).
- `UpdateList` between `accept` and the exit can change what is printed (6698).
- A `wait` after edits that cancel out: `wait` in a list that an action triggered asks whether the query
  differs from that at the begin of the list (6987), the search at the end of the iteration whether it
  differs from that at the begin of the iteration. After `w:delete-char+trigger(t)` and `t:put(a)+wait`, on the query
  "a", no search follows, and the rest waits for the next one ("blocks ... until the search
  completes", `src/man/man1/fzf.1:2330`).
- `offset-down` at the bottom leaves `t.offset` at -1 until the list is drawn again (7779-7797). With
  `--multi-line` items, `page-up` in the same binding then asks the merger for row -1 (7745).
- `numLinesCache` is cleared for `change-with-nth` before the items are rewritten (7313). A result of
  the list before a reload may end the wait for a tracked key (2122).

*Layout.*

- Overlap: with `--header-first`, header lines as the only header and a preview of position `next` in the
  reverse layout (3226), or with a hidden input.
- `--height=~` counts inline headers and footers one line short (1548).
- `change-header-lines` leaves the windows of inline header lines as they were (the comment at 7323
  expects otherwise). `show-input` when only a header gives the input a window: not noticed (3680).
- A press on the list's border with sections between it and the preview moves the border (8125-8132).
- `change-preview-window` leaves `activePreviewOpts` at the alternative of the old specification.

*Preview and background.*

- `killChan` is sent to without waiting (6034): a cancellation may be lost. A late `reqPreviewDelayed`
  leaves "Loading .." on the window (6725).
- `dispatchAsync` drops `queue[:len-1]`, among them jobs it has just started, and their temporary files
  (5757).

*Keys.* F1 to F8 in the form `ESC [ 1 N ~`, and modified Delete, Page Up and Page Down, are known only if
nothing follows in the buffer (`light.go:593`, 612, 735). `ESC ESC [ A` in two pieces loses its Alt.

*Colours.* A line that ends in a code that changes nothing loses the colour of its last part
(`ansi.go:358`). The prefix of a token, ESC [ m and its own codes, does not end a link. The only token of a
line has no prefix (`core.go:124`): shown twice, it begins in the colour it ends in.

## What is proved

`EventBoxProofs` (for any set of event types, any ignored and awaited ones, with and without
`--sync`, and any bound `MaxValue`; assumption `EventBoxAssumption`):

- `Typing`, `WakeUp`, `NoEmptyCallback`, `Outstanding`, `Barrier`: type correctness,
  `NoLostWakeup`, `CallbackSeesEvents`, `NothingDropped`, `SyncBarrier`.
- `Refinement`: `Spec => ImplementsMailbox`.

The invariant `IInv` is the conjunction of `TypeOK`, `NoLostWakeup`, `CallbackSeesEvents` and
`NothingDropped` with `SyncStages` (what was set and handled in each stage of the waiter) and
`WaiterStages` (it sleeps only in `WaitFor` and in the main loop, and ignores nothing in the latter):
a sleeper is woken by a type that is not ignored, so one has to know that the ignored types do not
change while it sleeps. Beside it, `HandledBelow`: a fresh value differs from the one handled last.
The refinement needs `NothingDropped`: a callback is a `Deliver` step because the box is not empty
exactly if some value was not handled yet.

`ChunkListProofs` (for every chunk size, every set of `--tail` values, any number of chunks and
snapshots; assumption `ChunkListAssumption`):

- `Typing`, `Shape`, `Immutable`, `CountRight`, `CachedStable`: `TypeOK`, `ListShape`,
  `SnapshotsImmutable`, `CountIsRight`, `CachedChunksStable`.
- `SnapshotsExact`: `SnapshotExact`, an action property.

`SnapshotsImmutable` is not inductive: a `Push` writes to the last chunk of the list, so one has to
know that this chunk is in no snapshot, also after a trim and a `Clear`. `ListShape` says that, and
that the list has no chunk twice and only full ones in the middle, which is also why `CountItems` may
look at two chunks only. Cached chunks have to be full (`CachedFull`), and full chunks are not
written to. `IInv` is the conjunction of these with `TypeOK`. The proof has a lemma per part of
`Snapshot`: `FirstKeptFacts` and `Suffix` for what is kept by a trim, `TrimList`, `DuplicateList`,
`SnapshotStep`; `PushNew` and `PushLast` for the two cases of `Push`; `NatLemmas` has the arithmetic of
offsets.

`SnapshotExact` compares the concatenation of a snapshot's chunks with the end of the list's. `FlattenSeq`
is a recursive function, and no induction over it is at hand, so the proof says what a concatenation is instead: `IsFlat`
gives the place of each item by the partial sums of the lengths, `FlattenIs` shows that `FlattenSeq` is
such a sequence, and `FlatUnique` that there is only one. What an induction would do is done with the
smallest number for which a claim fails (`LeastNat`). `CutFlat` then says what is left when chunks are dropped
and the first one is cut, `TrimShows` and `DuplicateShows` apply it to the two parts of `Snapshot`.

`ReaderProofs` (for any of the sources, any number of sessions and of items; assumption
`ReaderAssumption`): `Typing`, `OnlyOneSession`, `FinalSearch` and `KilledQuietly`, that is `TypeOK`,
`OneSession`, `FinalIsComplete` and `KilledNotShown`. `IInv` follows the end of a session through its stages:

- `Handshake`: how far `fin` and the poller are with each other. The poller leaves only after `EvtReadFin`,
  and `fin` returns only after the poller has left; hence `Pollers`, at most one is about.
- `Readiness` and `FinOnItsWay`: the coordinator starts a session only when the one before has ended and
  its `EvtReadFin` was handled, and until then it believes that the reader reads.
- `Reports`: an `EvtReadFin` is about its own session. One that was told to terminate is followed by the
  next command (`nextCommand`), so its failure is not shown, even if `terminate` comes after `fin`
  has looked at `r.killed`.

`CoreProofs` (for any queries, any features, with and without `--sync`, any `--tail` and bounds;
assumption `CoreAssumption`): `Typing`, `NoStalePattern`, `ListKeptBySync`, `CacheNeverWrong` and
`AnswerToTheLastWish`, that is `TypeOK`, `PatternsFresh`, `SyncKeepsList`, `ResultExact` and `NothingLost`:
all that the runs check of `Core` but its progress, and more.

- Each handler is summarised once, variable by variable (`AfterKilledFin`, `AfterRead`, `AfterSearch`), from
  a lemma about each function it is made of; the invariants are about the summaries.
- `Sound`: types, `PatternsFresh`, `Reading` (the reader and what the coordinator thinks of it) and `Commands`
  (commands are started in the order they were asked for).
- `Sessions`: of which session requests, results and the cache of the matcher are. During a `reload-sync`
  none is of the new one, which gives `SyncKeepsList`.
- `Exact`: before the first reload, two lists with the same revision and count are the same list, and the
  matcher's cache and `prevCount` are of the revision it has. That is why the code may use the count to tell
  lists apart, and why it may not after a reload (see "stale merger" above): `ResultExact` is conditional.
- `Carried`: unless something was dropped, each wish of the user (command, `nth`, order, exclusions) is in
  the terminal's request, in the box, or in the variables of `Run` already. `Answering`: the newest
  request is in the box of the matcher, being searched, on its way back or displayed. `NothingLost` is
  what the two say when all is quiet.

`MatcherProofs` on `Merging` (for any size of chunks, any snapshots of the shape that `Shape` above shows, any numbers of
header lines, any number of workers, any texts, scores, offsets and criteria, any `RadixMin`; assumption
`MergingAssumption`, which gives the types of these): `Found` and `RowsShown`, that is `FoundWhereShown`
and `RowsInOrder`, for the state machine of a view (`ViewSpec`), and `RadixSorts`.

- `Found`: the place of an item by division (`ItemAt`), with a first chunk that was cut or not.
- `RowsShown`: the invariant `Merges` says that the rows merged so far are what the cursors have passed, each
  before the next and all of them before everything that is left. Of the heads that are left one is
  best, since ranks are a strict total order (`BetterOrder`, `BestExists`); taking it keeps `Merges`
  (`TakeKeeps`), so `mergedGet` does, and never runs out of items (`LiveIfShort`, its `panic`). The number of a
  row is then the number of results above it (`RowPlace`), counted over the workers' lists (`AllCounted`).
- It starts from lists that are in order and share no item (`ListsInOrder`): each worker finds its items one
  after the other (`FoundInOrder`) and sorts them.
- `RadixSorts`: what comes out of `radixSortResults` is in the order of `compareRanks`. A pass that counts
  keeps the order of equal digits (`ScatterStep`), so after pass p the results are ordered by the last p
  bytes of their keys and then by item; eight bytes are the four points (`AllBytes`, `AllSame`), because each
  is a number of 16 bits (`PointType`, `BuildResultType`: no point is left negative or too large by its
  criterion's arithmetic). With `--tac` the runs of equal ranks are contiguous, so reversing each is
  enough (`ReversalsSort`). That the sort of the library sorts (`RelevanceSorts`) is by the definition of
  `Arranged`: the member with k - 1 before it comes k-th, and there is one for each k (`RankTaken`).

`MatcherProofs` on `Scan` (for any set of workers, any number of chunks and operations, any queries and whatever the
items match in each view; assumption `ScanAssumption`, in which the set of workers is finite and not
empty): `Typing`, `WorkersGone`, `Unshared`, `ScanRight`, `CacheRight`, that is `TypeOK`,
`NoneLeftBehind`, `ItemsUnshared`, `ResultExact` and `CacheExact`.

- `Locks` ties the mutex to the place of `Loop` and of the coordinator, and says that all workers are at
  rest outside a scan. `NoneLeftBehind` and `ItemsUnshared` follow from it.
- `OneEach`: a chunk is in the hands of one worker at most, and one given out by the index. Results
  therefore have an item once at most.
- `OnlyWhenDone`: a worker leaves a scan that goes on only when the index has run out. That, and that each
  chunk given out is in some worker's hands until it was matched (`NoneSkipped`), makes the result complete
  without counting the counts in the channel.
- `BitsExact` and `WorkExact`: each step of a worker keeps the bits right, whatever was cached before,
  since an item that does not match a query matches no longer one. `CacheExact` alone is not inductive:
  the bit that `Add` stores depends on what the worker found at `Lookup` or `Search` some steps earlier.
- These last three are conditional on `Unchanged`, like the properties. `Bounds` has what they need of the
  requests under way: none is for an `nth` that was not set yet.

`TerminalProofs` (for any lists, scenes, bindings however they trigger each other, and bounds; assumption
`TerminalAssumption`, which says what a scene is: lists of distinct items, nothing selected, no wait begun, a
window of any height in which an item has one line or more):
`SelectionIsSound`, `TrackingKeepsItem` and `CursorIsVisible`, that is `SelectionSound`, `TrackKeepsItem` and
`CursorVisible`, `WaitsAreAnswered`, that is `WaitsAnswered`, and `ListsComeInOrder`, which is stated in the module.

- `Good(s, c0)` is what every action keeps of an iteration that began with c0: the list has the same revision,
  what is selected are distinct items of it, within the limit (`SoundList`), actions are put off only by a wait that goes on, and what is sent asks for something. A lemma for each group of
  actions says that it keeps it. `RunGood` concludes that any list of actions does, with all they
  trigger: were there a first step of the machine after which it does not hold, it would be one of these.
  `IterationGood` adds the beginning and the end of an iteration.
- `SelectionInv`: with `SoundList`, that the selection to restore is empty without `--id-nth`. With it, the
  limit is not claimed.
- `CoordInv`: revisions only grow, from the list shown to those searched to that of the coordinator; there are at
  most two searches, in order. `ListsComeInOrder` follows, and `SelectionSound` and `TrackKeepsItem` compare
  lists of different revisions only where the code does.
- `WaitsAnswered`: what a wait put off is not left behind once the wait is over, since the loop was woken
  (`e.wake`); and while the terminal waits for a search there is a request that the coordinator will take,
  input being read, whose end starts a search, or a search of the whole list, unless the matcher has dropped
  the last search (`e.lost`): with two requests in its box it may keep either. `WaitInv` adds that
  each request asks for a search or a reload: one that asks for neither would be taken without an answer.
- `CursorVisible`, for any list, numbers of lines, height, gap and `--scroll-off`: `Rows` are the lines before
  each item, and the current item is in view (`Seen`) if the window has more than the lines between the offset and it.
  `Fitting` is a number of items that fit, from the offset on or, near the end of the list, before the last one
  (`FittingIs`), although items that are cut off count only sometimes. The
  lines before the cursor are counted right or come out larger than the room there is (`BeforeIs`), so
  `--scroll-off` moves the offset up only if there is room for the context, and then comes down until the
  cursor is in view (`ScrollUp`, `ScrollDown`). A round of `constrain` therefore keeps the current item in view, or else
  brings the offset closer to it by an item at least (`RoundIs`). The first round leaves less than a window
  between them: as many rounds as the window has lines, which is what the code allows, are enough
  (`RoundsStep`, `ConstrainIs`). A round that changes nothing ends the loop, and then the item is in view.

`AlgoProofs` (for any text over the model's characters, any pattern the options allow and any options; no
assumption): `MatchesAreSound`, that is `MatchSound`, for the state machine of a text and a pattern
(`ProbeSpec`).

- A way is a place for each character of the pattern, in order. The prefilter finds the characters one after
  the other and is never behind a way (`PlacesAre`), so it drops no text that has one and the part it
  leaves has all the ways (`FilterKeeps`). For a text that is no ASCII that needs `runePrefilterable`: what folds
  to a character of the pattern is found by the search for it (`FoldsToFinds`).
- `FuzzyMatchV1`: the search forth stops at the first end of a way (`FirstEndIs`), the one back from there at the last
  start (`ShortestToIs`), also if both go through the reversed text (`GreedyIs`).
- Exact matches: `BestOccurrenceIs`, `BeginningsAre`, `EndingsAre`.
- `FuzzyMatchV2`: `IsMatrix` says of the matrix that a place of the row's character scores more than the cell above
  and to the left, and any other cell less than the one to its left, or nothing. Therefore phase 4, which
  compares scores only, takes places of the character and no others, and leaves no row without having taken one
  (`StepBehindIs`, `BacktraceIs`); it begins at the best cell of the last row (`BestEndIs`). Phases 2 and 3
  make such a matrix whatever the bonus points are (`FirstRowIs`, `NextRowIs`), since a match adds 16 and
  more, a gap takes 3 or 1, and the cells that are not written are not read; the single pass for two
  characters makes one of two rows (`TwoIs`). If a character is missing, there is no way (`FirstsAre`).

The attempt to prove `MatchSound` for all texts showed that its clauses for prefix, suffix and equal matches
had been wrong beyond the bounds of the run: white space at an end of the text is skipped unless the
*pattern* has it at that end, so a pattern with a space at both ends is not found in a text with two.

Some of what is proved is not in a run any more, since a proof for all constants says more: `TypeOK`
of `EventBox`, `ChunkList`, `Reader`, `Core` and `Scan`, `NoLostWakeup`, `CallbackSeesEvents` and
`SyncBarrier` of `EventBox`, `PatternsFresh` of `Core`, `ListShape`, `CountIsRight` and `CachedChunksStable` of `ChunkList`,
`NoneLeftBehind`, `ItemsUnshared` and `CacheExact` of `Scan`. They were
model-checked before, and can be by adding them to the configuration. `KilledNotShown` is stated in
`ReaderProofs`.

Model-checked only:

- all liveness properties, which need fairness and `ENABLED`, out of the prover's reach;
- of the terminal: `WaitKeepsOrder` (about what the bindings of one scene print), `ChangeNoticed` (a property of the bindings: it fails for some, see "missed
  change"), and `HistoryKept`;
- `Layout` and `Screen`; `Tasks`, `Preview` and `Background`, whose runs check progress only;
- `FastPathsAgree`: that the scores are the same too, whichever path is taken;
- `Terms`, `Keys` and `Ansi`.

## What is not modelled

- Filter mode (`--filter`), `--select-1`, `--exit-0`: branches of `Run` before or beside the event loop.
- In `Scan`: more than one item per chunk; queries that are not prefixes of each other (they are in
  `Terms`, without concurrency); answers from `mergerCache` and reloads, which are in `Core`.
- In `Core`: `with-nth`, whose synchronisation is in `Scan`; temporary files.
- In `Terminal`: actions that only print, copy or change a colour, label or prompt; `change-with-nth`'s
  effect on texts; `execute` and `become` (their locks are in `Tasks`); the server's parser and
  time-outs.
- In `Layout`: labels, the contents of windows, images, wide characters.
- In `Preview`: scrolling, `follow`, wrapping. In `Background`: what the callback does.
- In `Algo`: texts of more than a few characters, hence overflow of scores and slabs, and the fallback of
  `FuzzyMatchV2` to `FuzzyMatchV1` when the matrix is too large for a slab; most of the
  normalization table; the vectorised byte search.
- In `Ansi`: bytes beyond ASCII and DEL in a sequence; delimiters other than white space.
- Options and key bindings: a parser of independent cases without state. Drawing by `tui/light.go` and
  `tui/tcell.go`, popups (`proxy.go`, `tmux.go`, `zellij.go`, `winpty.go`) and the scripts: input and
  output only.

## Plan

Done, in this order: `Mailbox`, `EventBox`, `ChunkList`, `Reader`, `Core`, `Scan` with the proofs of
`EventBox`, `ChunkList` and `Scan`; then `Terminal` (with `Query`, `ItemList`, `Actions`), `Screen`
(with `Layout`), `Tasks`, `Preview`, `Background`, the matching modules (`Algo`, `Matches`, `Tokens`,
`Terms`, `Merging`), `Keys` and `Ansi`.

Then proofs: all invariants of `Reader` and `Core`, `SnapshotExact`, the merger and its sort, the selection, tracking
and waits of the terminal, the match algorithms. Next, most wanted first:

1. `Background`: a job that was started holds both semaphores, and neither exceeds its capacity.
2. `Tasks`: each lock has one owner, and who holds which at each place.
3. `Preview`: versions grow, and a result has the version of its command.
4. `Screen`: what the actions keep of the windows (`PressKeepsSize`, `PreviewToggles`).

Further models: the server with its time-outs; `colorOffsets` of `result.go`; `parseKeymap`.

## Running it

```
tlc -workers 2 -config MCCoreAll.cfg MCCore
tlapm ChunkListProofs.tla
```

`PROJECT.json` lists the runs with their modules and configurations, which definition models which
lines, and for every property a faulty variant that violates it. The longest runs take about three
minutes.
