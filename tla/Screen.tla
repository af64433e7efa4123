------------------------------- MODULE Screen -------------------------------
(***************************************************************************)
(* The windows on the screen while fzf runs: the actions of the main loop  *)
(* that change a section or the preview window, the mouse on the border of *)
(* the preview window, a change of the size of the terminal, and the       *)
(* render goroutine, which lays the windows out again when they no longer  *)
(* fit (src/src/terminal.go: doAction, the render loop, resizeIfNeeded).   *)
(*                                                                         *)
(* Every action runs with Terminal.mutex held.  A request to the render    *)
(* goroutine is a member of `pending` (reqBox); what the requests print is *)
(* left out.                                                               *)
(***************************************************************************)
EXTENDS Layout, FiniteSets

CONSTANTS
    Startups,        \* the options fzf may be started with
    Terminals,       \* the sizes [width, height] of the terminal
    PreviewChoices,  \* what change-preview-window may be given, parsed
    MaxPreview,      \* bound: the size the preview window is dragged to
    MaxLines         \* bound: the lines of a header or a footer

VARIABLES
    o,          \* the options (see Layout)
    active,     \* activePreviewOpts
    forced,     \* forcePreview, of the last layout
    win,        \* the windows
    pending,    \* requests in reqBox
    tty,        \* the size of the terminal
    drag        \* pborderDragging

vars == <<o, active, forced, win, pending, tty, drag>>

-----------------------------------------------------------------------------
(* resizeIfNeeded: whether a section no longer has the window it needs     *)

\* Faulty variant of Mismatch: a section that lost lines keeps its window
TooShort(shape, height, want) == height < want /\ shape # "inline"

Mismatch(shape, height, want) ==
    /\ height # want
    /\ ~(shape = "inline" /\ height < want)

NeedsLayout(opts, w) ==
    LET lines == HasHeaderLinesWindow(opts)
        primary == VisibleHeaderLines(opts) - (IF lines THEN opts.headerLines ELSE 0)
        wrong(present, shape, window, want) ==
            IF present THEN ~Exists(window) \/ Mismatch(shape, window.height, want)
            ELSE Exists(window)
    IN  \/ Visible(opts.inputB) /\ ~Exists(w.input.window) /\ ~opts.inputless
        \/ Exists(w.input.window) /\ opts.inputless
        \/ wrong(opts.footer > 0, opts.footerB, w.footer.window, opts.footer)
        \/ wrong(HasHeaderWindow(opts), opts.headerB, w.header.window, primary)
        \/ wrong(lines, opts.headerLinesB, w.headerLines.window, opts.headerLines)

\* Rows of the list window that other sections use
VisibleHeaderLinesInList(opts, w) ==
    IF Exists(w.header.window) \/ Exists(w.headerLines.window) THEN 0 ELSE VisibleHeaderLines(opts)

PromptLines(opts, w) ==
    IF opts.inputless \/ Exists(w.input.window) THEN 0 ELSE InputLines(opts)

MaxItems(opts, w) ==
    AtLeast(0, w.list.height - VisibleHeaderLinesInList(opts, w) - PromptLines(opts, w))

-----------------------------------------------------------------------------
(* The height of the screen: all of the terminal, or with --height=~ what  *)
(* the list of `fit` items, the sections and the margins need              *)

ContentHeight(opts, i) ==
    LET content == opts.fit + ExtraLines(opts)
        spec == ActiveSpec(opts, i)
        border == BorderLines(PreviewBorder(opts, spec))
    IN  IF ~NeedPreviewWindow(opts, i) THEN content
        ELSE IF spec.pos \notin {"up", "down", "next"} THEN AtLeast(content, 1 + border)
        ELSE IF spec.percent THEN AtLeast(content + 1 + border, (content * 100) \div (100 - spec.size))
        ELSE content + spec.size + border

ScreenHeight(opts, i, size) ==
    IF opts.fit < 0 THEN size.height ELSE AtMost(size.height, ContentHeight(opts, i) + opts.pad)

\* updateTerminalSize
OnScreen(opts, i, size) ==
    [opts EXCEPT !.width = size.width, !.height = ScreenHeight(opts, i, size)]

\* core.go: the height is known when the list is; at most what fits
FitIn(opts, pad) == [fit |-> opts.height - pad - ExtraLines(opts), pad |-> pad]
PadOf(a) == a.m[1] + a.m[3] + a.p[1] + a.p[3]
MaxFitAndPad(opts) == FitIn(opts, PadOf(AdjustMarginAndPadding(opts, 1)))

Fitted(opts, known, size) ==
    OnScreen([opts EXCEPT !.fit = IF @ < 0 THEN -1 ELSE AtMost(@, known.fit), !.pad = known.pad], 1, size)
FullScreen(opts, size) ==
    [opts EXCEPT !.width = size.width, !.height = size.height, !.fit = opts.items]
Started(opts, size) ==
    Fitted(FullScreen(opts, size), MaxFitAndPad(FullScreen(opts, size)), size)

-----------------------------------------------------------------------------
(* Layout steps                                                            *)

\* resizeWindows
Resize(opts, i, force) ==
    /\ \E r \in {Windows(opts, i, force)} :
         /\ o' = [opts EXCEPT !.previews = r.previews]
         /\ active' = r.active
         /\ win' = r.windows
    /\ forced' = force

\* updatePreviewWindow
UpdatePreviewWindow(opts, i, force) ==
    /\ Resize(opts, i, force)
    /\ pending' = pending \cup {"prompt", "list", "info", "header", "footer"}

Request(opts, requests) ==
    /\ o' = opts
    /\ pending' = pending \cup requests
    /\ UNCHANGED <<active, forced, win, tty, drag>>

\* Toggle of the active specification; the alternative may be that of the start
WithActive(spec) ==
    IF active = Detached THEN [o EXCEPT !.detached = spec]
    ELSE IF active = 2 /\ o.shared
    THEN [o EXCEPT !.previews[2] = spec, !.initial[2] = spec]
    ELSE [o EXCEPT !.previews[active] = spec]

Toggled == [ActiveSpec(o, active) EXCEPT !.hidden = ~@]

HasPreviewWindow == Exists(win.pwindow)

\* NewTerminal: nothing is on the screen yet
Init ==
    /\ o \in Startups
    /\ tty = [width |-> o.width, height |-> o.height]
    /\ active = 1
    /\ forced = FALSE
    /\ win = [w \in {"border", "list", "wborder", "pborder", "pwindow"} |-> NoWindow]
             @@ [w \in {"input", "header", "headerLines", "footer"} |-> NoSection]
    /\ pending = {}
    /\ drag = -1

Running == Exists(win.list)

\* Loop waits until the height is known, and lays the windows out
Start ==
    /\ ~Running
    /\ Resize(Started(o, tty), 1, FALSE)
    /\ pending' = {"prompt", "info", "header", "footer", "list"}
    /\ UNCHANGED <<tty, drag>>

-----------------------------------------------------------------------------
(* Actions of the main loop                                                *)

\* toggle-input, show-input and hide-input
ToggleInput ==
    Request([o EXCEPT !.inputless = ~@], {"list", "info", "prompt", "header"})

ToggleHeader ==
    Request([o EXCEPT !.headerVisible = ~@], {"list", "info", "prompt", "header"})

ChangeHeader(n) ==
    Request([o EXCEPT !.header0 = n],
            {"header"} \cup (IF n = o.header0 THEN {}
                             ELSE IF o.headerB = "inline" THEN {"redraw"}
                             ELSE {"list", "prompt", "info"}))

ChangeFooter(n) ==
    Request([o EXCEPT !.footer = n],
            {"footer"} \cup (IF n # o.footer /\ o.footerB = "inline" THEN {"redraw"} ELSE {}))

ChangeHeaderLines(n) ==
    /\ n # o.headerLines
    /\ Request([o EXCEPT !.headerLines = n], {"list", "prompt", "info", "header"})

\* toggle-preview; show-preview and hide-preview are its halves, and close is the
\* second one
TogglePreview ==
    /\ HasPreviewWindow \/ o.command
    /\ UpdatePreviewWindow(WithActive(Toggled), active, FALSE)
    /\ UNCHANGED <<tty, drag>>

\* preview(...): a window even when the specification is hidden
Preview ==
    /\ ~HasPreviewWindow /\ o.previewer
    /\ UpdatePreviewWindow(o, active, TRUE)
    /\ UNCHANGED <<tty, drag>>

\* change-preview; change-preview() leaves fzf without a command
ChangePreview ==
    /\ o.previewer
    /\ UpdatePreviewWindow([o EXCEPT !.command = ~@], active, FALSE)
    /\ UNCHANGED <<tty, drag>>

\* previewOpts.compare of the old specifications and the new ones
SameLayout(old, i, new) ==
    LET sameThreshold == old[1].pos = new[1].pos /\ old[1].threshold = new[1].threshold
        same(a, b) == /\ a.size = b.size /\ a.percent = b.percent /\ a.pos = b.pos
                      /\ a.border = b.border /\ a.hidden = b.hidden
    IN  IF i = 2
        THEN IF Len(new) > 1 THEN sameThreshold /\ same(old[2], new[2]) ELSE same(old[2], new[1])
        ELSE /\ Len(new) > 1 => sameThreshold
             /\ same(old[1], new[1])

\* The choice is applied to the specification of the start.  Its alternative is
\* kept, and is the same object, unless the choice has a threshold of its own.
ChangePreviewWindow(choice) ==
    LET own == Len(choice) > 1
        new == IF choice = <<>> THEN o.initial
               ELSE IF own \/ Len(o.initial) = 1 THEN choice
               ELSE <<[choice[1] EXCEPT !.threshold = o.initial[1].threshold], o.initial[2]>>
        lost == active = 2 /\ (own \/ ~o.shared)
        opts == [o EXCEPT !.previews = new, !.shared = ~own,
                          !.detached = IF lost THEN o.previews[2] ELSE @]
        i == IF lost THEN Detached ELSE active
        keep == HasPreviewWindow /\ ~ActiveSpec(opts, i).hidden
    IN  /\ IF ~SameLayout(o.previews, active, new) \/ NoSeparatorLine(opts) # NoSeparatorLine(o)
           THEN UpdatePreviewWindow(opts, i, keep)
           ELSE /\ o' = opts
                /\ active' = i
                /\ pending' = IF HasSeparator(opts) # HasSeparator(o) THEN pending \cup {"info"} ELSE pending
                /\ UNCHANGED <<win, forced>>
        /\ UNCHANGED <<tty, drag>>

-----------------------------------------------------------------------------
(* The mouse: the border of the preview window, or that of the list on the *)
(* side of the preview window, is dragged                                  *)

Encloses(w, y, x) == y \in w.top..(Bottom(w) - 1) /\ x \in w.left..(w.left + w.width - 1)

Spec1 == ActiveSpec(o, active)

\* The preview is above or to the left of what it is dragged against
Before == Spec1.pos \in {"up", "left"} \/ (Spec1.pos = "next" /\ o.layout = "reverse")

\* 0: on the border of the preview; 1: on that of the list; -1: on neither
Grabbed(y, x) ==
    LET p == win.pborder
        l == win.wborder
        own == /\ Encloses(p, y, x)
               /\ IF Spec1.pos \in {"left", "right"}
                  THEN x = IF Before THEN p.left + p.width - 1 ELSE p.left
                  ELSE y = IF Before THEN Bottom(p) - 1 ELSE p.top
        other == CASE Spec1.pos = "left" ->
                        HasLeft(o.listB) /\ y \in p.top..(Bottom(p) - 1) /\ x = l.left
                   [] Spec1.pos = "right" ->
                        HasRight(o.listB) /\ y \in p.top..(Bottom(p) - 1) /\ x = l.left + l.width - 1
                   [] OTHER ->
                        /\ x \in p.left..(p.left + p.width - 1)
                        /\ IF Before THEN HasTop(o.listB) /\ y = l.top
                           ELSE HasBottom(o.listB) /\ y = Bottom(l) - 1
    IN  IF own THEN 0 ELSE IF other THEN 1 ELSE -1

\* Faulty variant of HeaderGap: the list is taken to be next to the preview
NoGap(grab) == 0

\* The sections between a preview of position `next` and the list
HeaderGap(grab) ==
    LET p == win.pborder
        l == win.wborder
    IN  IF Spec1.pos # "next" \/ grab # 1 \/ ~Exists(l) THEN 0
        ELSE IF Before THEN l.top - Bottom(p) ELSE p.top - Bottom(l)

\* The size the preview gets when the mouse is at y, x
DraggedSize(y, x, grab) ==
    LET p == win.pborder
        side == Spec1.pos \in {"left", "right"}
        prev == IF side THEN win.pwindow.width ELSE win.pwindow.height
        at == IF side THEN x - p.left ELSE y - p.top
        frame == (IF side THEN p.width ELSE p.height) - prev
    IN  AtLeast(1, (IF Before THEN at - frame + 1 ELSE prev - at) - HeaderGap(grab) - grab)

PreviewContentSize ==
    IF Spec1.pos \in {"left", "right"} THEN win.pwindow.width ELSE win.pwindow.height

DragTo(y, x, grab) ==
    LET size == DraggedSize(y, x, grab)
    IN  IF size = PreviewContentSize
        THEN UNCHANGED <<o, active, forced, win, pending>>
        ELSE UpdatePreviewWindow(
               WithActive([Spec1 EXCEPT !.size = size, !.percent = FALSE]), active, TRUE)

\* The button is pressed outside the contents and the scrollbar of the preview
Press(y, x) ==
    /\ drag = -1 /\ HasPreviewWindow
    /\ ~Encloses(win.pwindow, y, x)
    /\ ~(Encloses(win.pwindow, y, x - 1) /\ x = win.pwindow.left + win.pwindow.width)
    /\ Grabbed(y, x) >= 0
    /\ drag' = Grabbed(y, x)
    /\ DragTo(y, x, Grabbed(y, x))
    /\ UNCHANGED tty

Drag(y, x) ==
    /\ drag >= 0 /\ HasPreviewWindow
    /\ DraggedSize(y, x, drag) <= MaxPreview
    /\ DragTo(y, x, drag)
    /\ UNCHANGED <<tty, drag>>

Release ==
    /\ drag >= 0
    /\ drag' = -1
    /\ UNCHANGED <<o, active, forced, win, pending, tty>>

-----------------------------------------------------------------------------
(* The terminal, and the render goroutine                                  *)

TerminalResized(size) ==
    /\ size # tty
    /\ tty' = size
    /\ pending' = pending \cup {"resize"}
    /\ UNCHANGED <<o, active, forced, win, drag>>

\* One wake-up of the render goroutine.  A redraw (printAll) lays the windows out,
\* after asking for the size of the terminal when it was resized; then the info
\* line, the header and the footer are printed unless they no longer fit, which
\* lays the windows out (again).  An inline info line is part of the prompt.
PrintSections ==
    \/ {"info", "header", "footer"} \cap pending # {}
    \/ "prompt" \in pending /\ o.info \in {"inline", "inline-right"}

\* The options, the windows and the index of the specification, after the redraw if there is one
PrintAll(opts, r) == [o |-> [opts EXCEPT !.previews = r.previews], win |-> r.windows, active |-> r.active]
Redraw(opts) == PrintAll(opts, Windows(opts, active, forced))
Redrawn ==
    IF {"redraw", "resize"} \cap pending # {}
    THEN Redraw(IF "resize" \in pending THEN OnScreen(o, active, tty) ELSE o)
    ELSE [o |-> o, win |-> win, active |-> active]

Render ==
    /\ pending # {}
    /\ pending' = {}
    /\ \E s \in {Redrawn} :
         IF PrintSections /\ NeedsLayout(s.o, s.win)
         THEN Resize(s.o, s.active, forced)
         ELSE /\ o' = s.o /\ active' = s.active /\ win' = s.win
              /\ UNCHANGED forced
    /\ UNCHANGED <<tty, drag>>

-----------------------------------------------------------------------------

\* Bound: where the mouse goes: the edges of the preview and of the list
Spots ==
    LET p == win.pborder
        l == IF Exists(win.wborder) THEN win.wborder ELSE win.list
    IN  {<<y, p.left>> : y \in {p.top, Bottom(p) - 1, l.top, Bottom(l) - 1}}
          \cup {<<p.top, x>> : x \in {p.left + p.width - 1, l.left, l.left + l.width - 1}}

\* Bound: what the user has keys for, o.binds; the rest never happens
Bound(action) == Running /\ action \in o.binds

Next ==
    \/ Start
    \/ Bound("toggle-input") /\ ToggleInput
    \/ Bound("toggle-header") /\ ToggleHeader
    \/ Bound("change-header") /\ \E n \in 0..MaxLines : ChangeHeader(n)
    \/ Bound("change-footer") /\ \E n \in 0..MaxLines : ChangeFooter(n)
    \/ Bound("change-header-lines") /\ \E n \in 0..MaxLines : ChangeHeaderLines(n)
    \/ Bound("toggle-preview") /\ TogglePreview
    \/ Bound("preview") /\ Preview
    \/ Bound("change-preview") /\ ChangePreview
    \/ Bound("change-preview-window") /\ \E choice \in PreviewChoices : ChangePreviewWindow(choice)
    \/ Bound("mouse") /\ \E at \in Spots : Press(at[1], at[2]) \/ Drag(at[1], at[2])
    \/ Running /\ Release
    \/ Bound("resize") /\ \E size \in Terminals : TerminalResized(size)
    \/ Running /\ Render

Spec == Init /\ [][Next]_vars

-----------------------------------------------------------------------------
(* Properties                                                              *)

Frames(w) ==
    LET all == << IF Exists(w.wborder) THEN w.wborder ELSE w.list, w.pborder, w.input.border,
                  w.header.border, w.headerLines.border, w.footer.border >>
    IN  SelectSeq(all, LAMBDA f : f.width > 0 /\ f.height > 0)

Apart(a, b) ==
    \/ Bottom(a) <= b.top \/ Bottom(b) <= a.top
    \/ a.left + a.width <= b.left \/ b.left + b.width <= a.left

\* With --header-first and a preview of position `next`, resizeWindows forgets the
\* preview where it places the input (the header lines are the only header,
\* reverse layout), or the header (the input is hidden)
Collides ==
    /\ o.headerFirst /\ HasPreviewWindow /\ Spec1.pos = "next"
    /\ ~Exists(win.input.window) \/ (o.header0 = 0 /\ HasHeaderLinesWindow(o))

\* When nothing is left to print, the sections that have lines of their own, the
\* list and the preview do not overlap and are all on the screen: resizeWindows
\* computes each position from the heights of the sections it believes to be
\* between the section and the list, in every layout.  `Collides` is where not.
SectionsApart ==
    Running /\ pending = {} /\ ~Collides =>
        LET f == Frames(win)
        IN  /\ \A i, j \in DOMAIN f : i # j => Apart(f[i], f[j])
            /\ \A i \in DOMAIN f : /\ f[i].top >= 0 /\ Bottom(f[i]) <= o.height
                                   /\ f[i].left >= 0 /\ f[i].left + f[i].width <= o.width

InlineSection == o.headerB = "inline" \/ o.headerLinesB = "inline" \/ o.footerB = "inline"

\* A header appears and gives the input a window; resizeIfNeeded does not look at it
InputUnplaced ==
    ~o.inputless /\ ~Exists(win.input.window) /\ (HasHeaderWindow(o) \/ HasHeaderLinesWindow(o))

\* When nothing is left to print, header, header lines and footer have the lines
\* that a layout from nothing gives them, a hidden input has no window, and the
\* preview has one when it should: resizeIfNeeded compares only some of the
\* sections with their windows ("Check if header borders are used and header has
\* changed"), and the actions ask for a redraw only where they know they need it.
SectionsWhole ==
    Running /\ pending = {} /\ ~InlineSection /\ ~InputUnplaced /\ active # Detached =>
        \E fresh \in {Windows(o, active, forced).windows} :
            /\ \A section \in {"header", "headerLines", "footer"} :
                 AtLeast(0, fresh[section].window.height) = AtLeast(0, win[section].window.height)
            /\ Exists(fresh.pwindow) = Exists(win.pwindow)
            /\ o.inputless => ~Exists(win.input.window)

\* --height=~N: "automatically determine the height in the range according to the
\* input size" (man/man1/fzf.1): where the terminal is high enough, the height
\* computed by contentHeight and extraLines leaves the list a line for each item,
\* once resizeWindows has given every section, border and the preview its own.
AllFit ==
    Running /\ ~InlineSection =>
        \E opts \in {[o EXCEPT !.height = ContentHeight(o, active) + o.pad]} :
            o.fit >= 0 /\ opts.height <= tty.height =>
                \E w \in {Windows(opts, active, FALSE).windows} : MaxItems(opts, w) >= o.fit

\* The border of the list is next to that of the preview
Touching ==
    CASE Spec1.pos \in {"left", "right"} -> TRUE
      [] Before -> win.wborder.top = Bottom(win.pborder)
      [] OTHER -> Bottom(win.wborder) = win.pborder.top

\* Pressing the button on a border starts a drag and moves nothing: the size the
\* mouse stands for is the size the preview has ("so the initial click does not
\* jump", doAction, actMouse).
PressKeepsSize ==
    [][drag = -1 /\ (drag' = 0 \/ (drag' = 1 /\ (Spec1.pos = "next" \/ Touching))) => win' = win]_vars

\* toggle-preview shows a preview window that is hidden and hides one that is
\* shown, whichever of the two specifications the size of the terminal selects and
\* whatever change-preview-window put in their place; except with the alternative
\* of a specification that is no longer used, `Detached`.
PreviewToggles ==
    [][o' = WithActive(Toggled) /\ active # Detached /\ (HasPreviewWindow \/ o.command)
         => HasPreviewWindow' # HasPreviewWindow]_vars
=============================================================================
