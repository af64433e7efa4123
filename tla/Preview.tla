------------------------------ MODULE Preview -------------------------------
(***************************************************************************)
(* The preview command: the goroutine that runs it, the two that collect   *)
(* its output and that cancel it, and the render goroutine, which asks for *)
(* a preview and displays what there is of it (src/src/terminal.go: Loop,  *)
(* refreshPreview, printPreview).                                          *)
(*                                                                         *)
(* The output of the command for an item is a sequence of lines; a line    *)
(* with the code that clears the screen starts over.  A line is known by   *)
(* its item.  The window has Height lines and is not scrolled.             *)
(***************************************************************************)
EXTENDS Integers, Sequences

CONSTANTS
    Commands,       \* the outputs of commands: functions from items to sequences of BOOLEAN (clear)
    Height,
    MaxRequests,    \* bound: times a preview is asked for
    NoItem          \* no match: nothing to preview

VARIABLES
    outputs,     \* item -> what the command writes for it
    current,     \* the item under the cursor
    requested,   \* number of requests
    previewBox,  \* reqPreviewEnqueue: the item, or "none"
    runner,      \* the goroutine that runs the command, and the command
    canceller,   \* goroutine 3: "off", "on", "grace" (until the command is killed), "killed"
    display,     \* reqPreviewDisplay in reqBox: a sequence of at most one result
    delayed,     \* reqPreviewDelayed in reqBox: a sequence of at most one version
    previewer,   \* what is to be displayed: version, item, lines; cleared: its version is
                 \* one of an earlier command
    previewed,   \* what was displayed: version, lines, filled.  Its item, and reused: it was
                 \* left there for another item; the code knows neither
    screen       \* the item of the first line, that of the others, and Loading ..

pvars == <<outputs, current, requested, previewBox, runner, canceller, display, delayed,
           previewer, previewed, screen>>

Items == DOMAIN outputs
Idle == [pc |-> "idle", item |-> NoItem, version |-> 0, shows |-> 0, left |-> <<>>, lines |-> 0]

PInit ==
    /\ outputs \in Commands
    /\ current = NoItem
    /\ requested = 0
    /\ previewBox = "none"
    /\ runner = Idle
    /\ canceller = "off"
    /\ display = <<>> /\ delayed = <<>>
    /\ previewer = [version |-> 0, item |-> NoItem, lines |-> 0, cleared |-> FALSE]
    /\ previewed = [version |-> 0, lines |-> 0, filled |-> FALSE, item |-> NoItem, reused |-> FALSE]
    /\ screen = [first |-> NoItem, others |-> NoItem, loading |-> FALSE]

\* refreshPreview, when the cursor moves or with refresh-preview: the running command
\* is cancelled, if its canceller listens, and the request replaces one not yet taken
RefreshPreview(item) ==
    /\ requested < MaxRequests
    /\ requested' = requested + 1
    /\ current' = item
    /\ canceller' = IF canceller = "on" THEN "grace" ELSE canceller
    /\ previewBox' = item
    /\ UNCHANGED <<outputs, runner, display, delayed, previewer, previewed, screen>>

\* The request is taken.  "We don't display preview window if no match".
TakeRequest ==
    /\ runner.pc = "idle" /\ previewBox # "none"
    /\ previewBox' = "none"
    /\ LET v == runner.version + 1
       IN  IF previewBox = NoItem
           THEN /\ runner' = [Idle EXCEPT !.version = v]
                /\ display' = << [version |-> v, item |-> NoItem, lines |-> 0, cleared |-> FALSE] >>
           ELSE /\ runner' = [pc |-> "start", item |-> previewBox, version |-> v, shows |-> v,
                              left |-> outputs[previewBox], lines |-> 0]
                /\ UNCHANGED display
    /\ UNCHANGED <<outputs, current, requested, canceller, delayed, previewer, previewed, screen>>

StartCommand ==
    /\ runner.pc = "start"
    /\ runner' = [runner EXCEPT !.pc = "run"]
    /\ canceller' = "on"
    /\ UNCHANGED <<outputs, current, requested, previewBox, display, delayed, previewer, previewed, screen>>

\* A line is read.  The code that clears the screen counts the version down, so that
\* the window is drawn anew.
ReadLine ==
    /\ runner.pc = "run" /\ runner.left # <<>> /\ canceller # "killed"
    /\ runner' = [runner EXCEPT !.left = Tail(@),
                                !.lines = IF Head(runner.left) THEN 1 ELSE @ + 1,
                                !.shows = IF Head(runner.left) THEN @ - 1 ELSE @]
    /\ UNCHANGED <<outputs, current, requested, previewBox, canceller, display, delayed, previewer, previewed, screen>>

Result == [version |-> runner.shows, item |-> runner.item, lines |-> runner.lines,
           cleared |-> runner.shows # runner.version]

\* Goroutine 2, every previewChunkDelay
Tick ==
    /\ runner.pc = "run" /\ runner.lines > 0
    /\ display # <<Result>>
    /\ display' = <<Result>>
    /\ UNCHANGED <<outputs, current, requested, previewBox, runner, canceller, delayed, previewer, previewed, screen>>

\* The command ends, by itself or killed
EndOfOutput ==
    /\ runner.pc = "run" /\ (runner.left = <<>> \/ canceller = "killed")
    /\ display' = <<Result>>
    /\ runner' = [runner EXCEPT !.pc = "reap"]
    /\ UNCHANGED <<outputs, current, requested, previewBox, canceller, delayed, previewer, previewed, screen>>

\* Goroutine 3: the command takes long, and after previewCancelWait it is killed
Delayed ==
    /\ canceller = "on" /\ runner.pc = "run"
    /\ delayed # <<runner.version>>
    /\ delayed' = <<runner.version>>
    /\ UNCHANGED <<outputs, current, requested, previewBox, runner, canceller, display, previewer, previewed, screen>>

Kill ==
    /\ canceller = "grace" /\ runner.pc = "run"
    /\ canceller' = "killed"
    /\ UNCHANGED <<outputs, current, requested, previewBox, runner, display, delayed, previewer, previewed, screen>>

\* Goroutines 2 and 3 have finished
Reap ==
    /\ runner.pc = "reap"
    /\ runner' = [runner EXCEPT !.pc = "idle"]
    /\ canceller' = "off"
    /\ UNCHANGED <<outputs, current, requested, previewBox, display, delayed, previewer, previewed, screen>>

-----------------------------------------------------------------------------
(* The render goroutine                                                    *)

\* Faulty variant of Unchanged: the version is not compared
SameLines(p) == previewed.filled \/ p.lines = previewed.lines

\* printPreview: only the first line, with the scroll offset, is drawn again
Unchanged(p) ==
    /\ previewed.filled \/ p.lines = previewed.lines
    /\ p.version = previewed.version

Drawn(p) ==
    [first |-> IF p.lines > 0 THEN p.item ELSE NoItem,
     others |-> IF Unchanged(p) THEN screen.others ELSE IF p.lines > 1 THEN p.item ELSE NoItem,
     loading |-> FALSE]

\* printPreviewDelayed
Late(p, shown) == ~(p.lines > 0 /\ shown = p.version)

\* reqPreviewDisplay comes before reqPreviewDelayed
Render ==
    LET p == IF display = <<>> THEN previewer ELSE display[1]
        q == IF delayed = <<>> THEN p ELSE [p EXCEPT !.version = delayed[1]]
        shown == IF display = <<>> THEN previewed.version ELSE p.version
    IN  /\ display \o delayed # <<>>
        /\ display' = <<>> /\ delayed' = <<>>
        /\ previewer' = q
        /\ previewed' = IF display = <<>> THEN previewed
                        ELSE [version |-> p.version, lines |-> p.lines, item |-> p.item,
                              filled |-> IF Unchanged(p) THEN previewed.filled ELSE p.lines > Height,
                              reused |-> Unchanged(p) /\ (previewed.reused \/ (p.cleared /\ p.item # previewed.item))]
        /\ screen' = LET s == IF display = <<>> THEN screen ELSE Drawn(p)
                     IN  IF delayed # <<>> /\ Late(q, shown) THEN [s EXCEPT !.loading = TRUE] ELSE s
        /\ UNCHANGED <<outputs, current, requested, previewBox, runner, canceller>>

-----------------------------------------------------------------------------
Runner == TakeRequest \/ StartCommand \/ ReadLine \/ EndOfOutput \/ Reap

PNext ==
    \/ \E item \in Items \cup {NoItem} : RefreshPreview(item)
    \/ Runner \/ Tick \/ Delayed \/ Kill
    \/ Render

-----------------------------------------------------------------------------
(* Properties                                                              *)

Clears(i) == \E n \in DOMAIN outputs[i] : outputs[i][n]

\* The lines of the item in the last output
Lines(i) ==
    LET out == outputs[i]
        starts == {n \in DOMAIN out : out[n]}
        first == IF starts = {} THEN 1 ELSE CHOOSE n \in starts : \A m \in starts : m <= n
    IN  Len(out) - first + 1

\* Once the cursor rests, the window shows the whole output for the item under it,
\* and nothing of an item the cursor was on before: results carry the version of
\* their command, and `unchanged` in printPreview must not take one for another.
\* (Loading .. may stay on it: a late reqPreviewDelayed is not withdrawn.)  Excepted is
\* output that clears the screen, whose version, counted down, is that of the item
\* before: the lines of that one may stay.
PreviewSettles ==
    <>[](\/ previewed.reused
         \/ /\ screen.first = IF current = NoItem \/ Lines(current) = 0 THEN NoItem ELSE current
            /\ screen.others = IF current = NoItem \/ Lines(current) <= 1 THEN NoItem ELSE current)

\* "ANSI escape sequence for clearing the display (CSI 2 J) is supported": what follows it
\* is shown, and nothing of another item.  This is PreviewSettles without the exception,
\* and does not hold.
PreviewClears ==
    <>[](screen.others = IF current = NoItem \/ Lines(current) <= 1 THEN NoItem ELSE current)
=============================================================================
