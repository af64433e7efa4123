------------------------------- MODULE Layout -------------------------------
(***************************************************************************)
(* Where fzf puts its windows: Terminal.resizeWindows and the functions it *)
(* calls (src/src/terminal.go, tui.go and options.go), as operators from   *)
(* the options `o` and the index `active` of the preview specification in  *)
(* use to a record of windows.                                             *)
(*                                                                         *)
(* o: layout, width and height (the screen), margin and padding (TRBL),    *)
(* the border shapes border, listB, inputB, headerB, headerLinesB ("unset" *)
(* when --header-lines-border is not given) and footerB, headerFirst, the  *)
(* numbers of lines header0, headerLines and footer, inputless,            *)
(* headerVisible, info, separator ("auto", "own", "none"), scrollbar,      *)
(* previewer, command, previews: the preview specification and, when it    *)
(* has a threshold, its alternative, and detached: the specification that  *)
(* activePreviewOpts still points to after change-preview-window.          *)
(* active: 1 or 2, an index of previews, or Detached.                      *)
(*                                                                         *)
(* "rounded" stands for the shapes with all four sides.  Labels, colours   *)
(* and what is painted inside a window are left out.                       *)
(***************************************************************************)
EXTENDS Integers, SequencesExt

BorderWidth == 1     \* the width of a vertical border line
MinWidth == 4
MinHeight == 3

HasTop(shape) == shape \in {"rounded", "horizontal", "top"}
HasBottom(shape) == shape \in {"rounded", "horizontal", "bottom"}
HasLeft(shape) == shape \in {"rounded", "vertical", "left"}
HasRight(shape) == shape \in {"rounded", "vertical", "right"}
Visible(shape) == shape # "none"

Count(b) == IF b THEN 1 ELSE 0
AtLeast(a, b) == IF a > b THEN a ELSE b
AtMost(a, b) == IF a < b THEN a ELSE b

\* util.Constrain: the lower bound wins
Constrain(v, lo, hi) == AtLeast(AtMost(v, hi), lo)

BorderLines(shape) == Count(HasTop(shape)) + Count(HasBottom(shape))
BorderColumns(shape) ==
    (1 + BorderWidth) * (Count(HasLeft(shape)) + Count(HasRight(shape)))

-----------------------------------------------------------------------------
(* Preview specifications: [pos, size, percent, hidden, border, threshold] *)

Detached == 0
ActiveSpec(o, active) == IF active = Detached THEN o.detached ELSE o.previews[active]

Vertical(pos) == pos \in {"up", "down", "next"}

\* The threshold of specification i counts only when there is an alternative
HasThreshold(o, i) == i < Len(o.previews) /\ o.previews[i].threshold > 0

\* previewOpts.Visible: an alternative has no alternative
SpecVisible(o, i) ==
    \/ ActiveSpec(o, i).size > 0
    \/ i = 1 /\ Len(o.previews) > 1 /\ o.previews[2].size > 0

NeedPreviewWindow(o, active) == o.previewer /\ o.command /\ SpecVisible(o, active)

\* --preview-border=line: one line on the side of the list
PreviewBorder(o, spec) ==
    IF spec.border # "line" THEN spec.border
    ELSE CASE spec.pos = "up" -> "bottom"
           [] spec.pos = "down" -> "top"
           [] spec.pos = "left" -> "right"
           [] spec.pos = "right" -> "left"
           [] spec.pos = "next" -> IF o.layout = "reverse" THEN "bottom" ELSE "top"

-----------------------------------------------------------------------------
(* Which sections have a window of their own, and the separator line       *)

\* The header lines look like the header when they are all of it
InheritedShape(o) ==
    IF o.header0 = 0 /\ Visible(o.headerB) THEN o.headerB ELSE "phantom"

HeaderLinesAs(o, shape) ==
    IF ~o.headerVisible \/ o.headerLines = 0 THEN [window |-> FALSE, shape |-> "none"]
    ELSE IF o.headerLinesB # "unset" THEN [window |-> TRUE, shape |-> o.headerLinesB]
    ELSE IF \/ o.layout = "reverse-list"
            \/ o.headerFirst /\ (o.header0 > 0 \/ shape = "phantom")
    THEN [window |-> TRUE, shape |-> shape]
    ELSE [window |-> FALSE, shape |-> IF o.header0 = 0 THEN o.headerB ELSE "none"]

HeaderLinesShape(o) == HeaderLinesAs(o, InheritedShape(o))

HasHeaderLinesWindow(o) == HeaderLinesShape(o).window

HasHeaderWindow(o) ==
    /\ o.headerVisible
    /\ IF HasHeaderLinesWindow(o) THEN o.header0 > 0
       ELSE IF Visible(o.headerB) \/ o.headerFirst THEN o.header0 + o.headerLines > 0
       ELSE Visible(o.inputB)

VisibleHeaderLines(o) == IF o.headerVisible THEN o.header0 + o.headerLines ELSE 0

BorderFacingInput(o, shape) ==
    shape = "inline" \/ IF o.layout = "reverse" THEN HasTop(shape) ELSE HasBottom(shape)

\* The shape is resolved at start-up (resolveInputBorderShape)
InputBorderFacesList(o) ==
    IF o.layout = "reverse" THEN HasBottom(o.inputB) ELSE HasTop(o.inputB)

\* lines: the header lines; header: whether the header has a window
FacesNextPreview(o) ==
    /\ o.command
    /\ \A i \in DOMAIN o.previews :
         /\ o.previews[i].pos = "next" /\ ~o.previews[i].hidden /\ o.previews[i].size > 0
         /\ BorderFacingInput(o, PreviewBorder(o, o.previews[i]))

NeighborShape(o, lines, header) ==
    IF header /\ VisibleHeaderLines(o) > 0 /\ ~o.headerFirst /\ o.headerB # "inline" THEN o.headerB
    ELSE IF lines.window /\ o.layout # "reverse-list" /\ (header \/ ~o.headerFirst) THEN lines.shape
    ELSE o.listB

FacesBorder(o, lines, header) ==
    IF o.previewer /\ \E i \in DOMAIN o.previews : o.previews[i].pos = "next" THEN FacesNextPreview(o)
    ELSE /\ o.previews[1].pos = "next" \/ Visible(o.inputB) \/ header \/ lines.window
         /\ BorderFacingInput(o, NeighborShape(o, lines, header))

SeparatedByBorder(o) ==
    InputBorderFacesList(o) \/ FacesBorder(o, HeaderLinesShape(o), HasHeaderWindow(o))

HasSeparator(o) ==
    o.separator = "own" \/ (o.separator = "auto" /\ ~SeparatedByBorder(o))

NoSeparatorLine(o) ==
    \/ o.inputless
    \/ o.info = "inline"
    \/ o.info \in {"hidden", "inline-right"} /\ ~HasSeparator(o)

InputLines(o) == IF NoSeparatorLine(o) THEN 1 ELSE 2

\* Faulty variant of FooterLines: the border is forgotten
FooterText(o) == o.footer
FooterLines(o) == IF o.footer > 0 THEN BorderLines(o.footerB) + o.footer ELSE 0

\* The height fzf needs around the list, for --height=~N
ExtraLines(o) ==
      (IF o.inputless THEN 0 ELSE InputLines(o) + BorderLines(o.inputB))
    + BorderLines(o.listB)
    + (IF ~o.headerVisible THEN 0
       ELSE (IF HasHeaderWindow(o) THEN BorderLines(o.headerB) ELSE 0) + o.header0
          + (IF HasHeaderLinesWindow(o) THEN BorderLines(HeaderLinesShape(o).shape) ELSE 0)
          + o.headerLines)
    + FooterLines(o)

-----------------------------------------------------------------------------
(* Sizes                                                                   *)

CalculateSize(base, spec, occupied, minSize) ==
    Constrain(IF spec.percent THEN (base * spec.size) \div 100 ELSE spec.size + minSize - 1,
              minSize, AtLeast(base - occupied, minSize))

MinPreviewHeight(o, spec) == 1 + BorderLines(PreviewBorder(o, spec))

MinPreviewWidth(o, spec) ==
    1 + BorderColumns(PreviewBorder(o, spec))
      + Count(~Vertical(spec.pos) /\ o.scrollbar /\ ~HasRight(PreviewBorder(o, spec)))

MinListHeight(o) == MinHeight - Count(o.inputless) - Count(NoSeparatorLine(o))

\* The lines and columns of the outer border, TRBL
ExtraMargin(o) ==
    << Count(HasTop(o.border)), (1 + BorderWidth) * Count(HasRight(o.border)),
       Count(HasBottom(o.border)), (1 + BorderWidth) * Count(HasLeft(o.border)) >>

\* What the list and the preview window of the previous frame need at least
LeastHeight(o, spec, list) ==
    IF Vertical(spec.pos) THEN list + MinPreviewHeight(o, spec) ELSE AtLeast(MinPreviewHeight(o, spec), list)
LeastWidth(o, spec) ==
    IF Vertical(spec.pos) THEN AtLeast(MinPreviewWidth(o, spec), MinWidth) ELSE MinWidth + MinPreviewWidth(o, spec)
Least(o, active) ==
    IF NeedPreviewWindow(o, active)
    THEN [height |-> LeastHeight(o, ActiveSpec(o, active), MinListHeight(o)),
          width |-> LeastWidth(o, ActiveSpec(o, active))]
    ELSE [height |-> MinListHeight(o), width |-> MinWidth]

Along(i, size) == IF i \in {1, 3} THEN size.height ELSE size.width
Sized(s, length) == IF s.percent THEN (length * s.size) \div 100 ELSE s.size
Opposite(i) == IF i <= 2 THEN i + 2 ELSE i - 2

\* v of the `total` lines of margin and padding, shrunk when they leave less than `least`
Share(v, total, length, least) ==
    IF length - total < least THEN ((length - least) * v) \div total ELSE v

Shrunk(o, extra, m, p, total, least) ==
    [m |-> [i \in 1..4 |-> AtLeast(extra[i], Share(m[i], total[i], Along(i, o), least[i]))],
     p |-> [i \in 1..4 |-> Share(p[i], total[i], Along(i, o), least[i])]]

Adjusted(o, extra, m, p, least) ==
    Shrunk(o, extra, m, p, [i \in 1..4 |-> m[i] + m[Opposite(i)] + p[i] + p[Opposite(i)]],
           [i \in 1..4 |-> AtMost(Along(i, o), Along(i, least))])

Adjust(o, extra, least) ==
    Adjusted(o, extra, [i \in 1..4 |-> Sized(o.margin[i], Along(i, o)) + extra[i]],
             [i \in 1..4 |-> Sized(o.padding[i], Along(i, o))], least)

\* [m |-> margin, p |-> padding], TRBL
AdjustMarginAndPadding(o, active) == Adjust(o, ExtraMargin(o), Least(o, active))

\* The area inside the outer border and the padding; a: the margin and the padding
Area(o, a) ==
    [top |-> a.m[1] + a.p[1], left |-> a.m[4] + a.p[4],
     width |-> o.width - a.m[2] - a.p[2] - a.m[4] - a.p[4],
     height |-> o.height - a.m[1] - a.p[1] - a.m[3] - a.p[3]]

\* computePreviewSize in resizeWindows
PreviewSize(o, area, spec) ==
    IF Vertical(spec.pos)
    THEN CalculateSize(area.height, spec,
                       MinListHeight(o),
                       MinPreviewHeight(o, spec))
    ELSE CalculateSize(area.width, spec,
                       MinWidth + 2 * Count(HasLeft(o.listB)) + Count(HasRight(o.listB)),
                       MinPreviewWidth(o, spec))

\* effectivePreviewOpts: the specification the layout expects to settle on
EffectivePreview(o, area, active) ==
    IF /\ NeedPreviewWindow(o, active)
       /\ o.previews[1].size > 0 /\ HasThreshold(o, 1)
       /\ PreviewSize(o, area, o.previews[1]) < o.previews[1].threshold
    THEN 2 ELSE 1

\* Faulty variant of Shows: the main specification decides for its alternative
ShowsFirst(previews, i) == previews[i].size > 0 /\ ~previews[1].hidden

Shows(previews, i) == previews[i].size > 0 /\ ~previews[i].hidden

\* resizePreviewWindows, up to the windows: the specification it ends at, whether
\* it makes a window, and the specifications, which a forced preview un-hides
Uncovered(o, i, force) ==
    IF force /\ (i = 2 \/ o.previews[1].size > 0)
    THEN [o.previews EXCEPT ![i].hidden = FALSE] ELSE o.previews
Settled(i, previews) == [active |-> i, previews |-> previews, shown |-> Shows(previews, i)]
SettledAt(o, i, force) == Settled(i, Uncovered(o, i, force))
SettledPreview(o, area, force) ==
    SettledAt(o, IF /\ o.previews[1].size > 0 /\ HasThreshold(o, 1)
                    /\ PreviewSize(o, area, o.previews[1]) < o.previews[1].threshold
                 THEN 2 ELSE 1, force)

-----------------------------------------------------------------------------
(* The lines each section takes, top to bottom of resizeWindows            *)

\* inlineMetaFor: whether the section is above the list, and next to it
OnTop(o, role) == CASE role = "header" -> o.layout = "reverse"
                    [] role = "headerLines" -> o.layout # "default"
                    [] role = "footer" -> o.layout # "reverse"
IsInner(o, role) == CASE role = "header" -> FALSE
                      [] role = "headerLines" -> TRUE
                      [] role = "footer" -> o.layout # "reverse-list"

\* An inline section takes its lines and a separator
StackLines(slots) ==
    FoldLeft(LAMBDA n, slot : n + (IF slot.lines > 0 THEN slot.lines + 1 ELSE 0), 0, slots)

\* b: the budget of lines: available, shift (what the list is pushed down by),
\* shrink (what it loses), the height of each section, and the inline sections
\* above and below the list, outermost first
PutInline(o, b, slot) ==
    CASE OnTop(o, slot.role) /\ IsInner(o, slot.role) -> [b EXCEPT !.top = Append(@, slot)]
      [] OnTop(o, slot.role) /\ ~IsInner(o, slot.role) -> [b EXCEPT !.top = <<slot>> \o @]
      [] ~OnTop(o, slot.role) /\ IsInner(o, slot.role) -> [b EXCEPT !.bottom = Append(@, slot)]
      [] OTHER -> [b EXCEPT !.bottom = <<slot>> \o @]

InlineLines(lines, remaining) == IF remaining < 2 THEN 0 ELSE Constrain(lines, 1, remaining - 1)

AddInline(o, b, role, lines) ==
    PutInline(o, b, [role |-> role,
                     lines |-> InlineLines(lines, b.available - BorderLines(o.listB)
                                                    - StackLines(b.top) - StackLines(b.bottom) - 1)])

Spend(b, role, n, above) ==
    [b EXCEPT !.height[role] = n, !.available = @ - n, !.shrink = @ + n, !.shift = IF above THEN @ + n ELSE @]

AddSection(o, b, role, shape, lines, above) ==
    IF shape = "inline" THEN AddInline(o, b, role, lines)
    ELSE Spend(b, role, Constrain(BorderLines(shape) + lines, 0, b.available), above)

HasInputWindow(o, effective) ==
    /\ ~o.inputless
    /\ \/ Visible(o.inputB) \/ HasHeaderWindow(o) \/ HasHeaderLinesWindow(o)
       \/ o.previews[effective].pos = "next"

Unspent(area) ==
    [available |-> area.height, shift |-> 0, shrink |-> 0, top |-> <<>>, bottom |-> <<>>,
     height |-> [r \in {"input", "header", "headerLines", "footer"} |-> 0]]

BudgetInput(o, b, window) ==
    IF window THEN AddSection(o, b, "input", o.inputB, InputLines(o), o.layout = "reverse")
    ELSE IF o.inputless THEN b
    ELSE [b EXCEPT !.available = @ - InputLines(o)]

BudgetPreview(o, b, need, spec) ==
    IF need /\ Vertical(spec.pos) THEN [b EXCEPT !.available = @ - MinPreviewHeight(o, spec)] ELSE b

BudgetHeader(o, b, lines) ==
    IF HasHeaderWindow(o)
    THEN AddSection(o, b, "header", o.headerB,
                    VisibleHeaderLines(o) - (IF lines.window THEN o.headerLines ELSE 0), o.layout = "reverse")
    ELSE b

BudgetHeaderLines(o, b, lines) ==
    IF lines.window
    THEN AddSection(o, b, "headerLines", lines.shape, o.headerLines, o.layout # "default") ELSE b

BudgetFooter(o, b) ==
    IF o.footer > 0 THEN AddSection(o, b, "footer", o.footerB, o.footer, o.layout # "reverse") ELSE b

\* In this order, for a section takes no more than what is left
Budgeted(o, area, need, effective, lines) ==
    BudgetFooter(o, BudgetHeaderLines(o, BudgetHeader(o,
        BudgetPreview(o, BudgetInput(o, Unspent(area), HasInputWindow(o, effective)),
                      need, o.previews[effective]), lines), lines))

Budget(o, area, active) ==
    Budgeted(o, area, NeedPreviewWindow(o, active), EffectivePreview(o, area, active), HeaderLinesShape(o))

-----------------------------------------------------------------------------
(* Windows                                                                 *)

NoWindow == [top |-> 0, left |-> 0, width |-> -1, height |-> -1]

Exists(w) == w.width >= 0

\* tui.NewWindow
NewWindow(top, left, width, height) ==
    [top |-> top, left |-> left, width |-> AtLeast(0, width), height |-> AtLeast(0, height)]

Bottom(w) == w.top + w.height

Outside(o, a, extra) ==
    NewWindow(a.m[1] - extra[1], a.m[4] - extra[4],
              o.width - a.m[2] - a.m[4] + extra[2] + extra[4],
              o.height - a.m[1] - a.m[3] + extra[1] + extra[3])

OuterBorder(o, a) == IF Visible(o.border) THEN Outside(o, a, ExtraMargin(o)) ELSE NoWindow

\* When only the outer border has a right side the list is one column wider
StickToRight(o, p) ==
    /\ HasRight(o.border)
    /\ IF p.shown /\ o.previews[p.active].pos = "right"
       THEN ~HasRight(PreviewBorder(o, o.previews[p.active]))
       ELSE /\ ~HasRight(o.listB) /\ ~HasRight(o.inputB)
            /\ ~o.headerVisible \/ ~HasRight(o.headerB) \/ VisibleHeaderLines(o) = 0
            /\ p.shown => ~HasRight(PreviewBorder(o, o.previews[p.active]))

\* The size of the preview band: its lines, or its columns at the side
BandSize(o, area, spec, available) ==
    IF Vertical(spec.pos)
    THEN Constrain(PreviewSize(o, area, spec), MinPreviewHeight(o, spec), available)
    ELSE PreviewSize(o, area, spec)

\* ... above the list, in lines or columns it takes from it, and between it and the list
BandAbove(o, pos, size) == IF pos = "up" \/ (pos = "next" /\ o.layout = "reverse") THEN size ELSE 0
LinesLost(pos, size) == IF Vertical(pos) THEN size ELSE 0
ColumnsLost(pos, size) == IF pos \in {"left", "right"} THEN size ELSE 0
Gap(o, pos) == Count(pos = "left" /\ ~Visible(o.listB))

ListBorder(o, area, b, pos, size, width) ==
    IF ~Visible(o.listB) THEN NoWindow
    ELSE NewWindow(area.top + BandAbove(o, pos, size) + b.shift,
                   area.left + (IF pos = "left" THEN size ELSE 0),
                   width - ColumnsLost(pos, size), area.height - LinesLost(pos, size) - b.shrink)

ListWindow(o, area, b, pos, size, width) ==
    NewWindow(area.top + Count(HasTop(o.listB)) + BandAbove(o, pos, size) + b.shift + StackLines(b.top),
              area.left + 2 * Count(HasLeft(o.listB)) + (IF pos = "left" THEN size + Gap(o, pos) ELSE 0),
              width - 2 * Count(HasLeft(o.listB)) - Count(HasRight(o.listB)) - ColumnsLost(pos, size) - Gap(o, pos)
                + Count(pos = "left" /\ HasRight(o.border) /\ ~Visible(o.listB)),
              area.height - BorderLines(o.listB) - LinesLost(pos, size) - b.shrink
                - StackLines(b.top) - StackLines(b.bottom))

Band(o, area, b, pos, size, width) ==
    [list |-> ListWindow(o, area, b, pos, size, width), wborder |-> ListBorder(o, area, b, pos, size, width),
     size |-> size, width |-> width, next |-> IF pos = "next" THEN size ELSE 0]

\* The window of the list, its border, and the preview band
ListAndPreview(o, area, b, p) ==
    Band(o, area, b, IF p.shown THEN o.previews[p.active].pos ELSE "none",
         IF p.shown THEN BandSize(o, area, o.previews[p.active], b.available) ELSE 0,
         area.width + Count(~(p.shown /\ o.previews[p.active].pos = "left") /\ StickToRight(o, p)))

\* inputBorderTop in resizeWindows; w is the border of the list or else its window
InputTopBy(o, b, w, next, lines, header) ==
    IF o.headerFirst
       /\ ((header /\ o.headerB # "inline") \/ (lines.window /\ lines.shape # "inline"))
    THEN CASE o.layout = "default" ->
                Bottom(w) + next + (IF header /\ lines.window THEN b.height.headerLines ELSE 0)
           [] o.layout = "reverse" ->
                w.top - b.height.input - next - (IF header /\ lines.window THEN b.height.headerLines ELSE 0)
           [] o.layout = "reverse-list" -> Bottom(w) + next
    ELSE CASE o.layout = "default" -> Bottom(w) + b.height.header + b.height.headerLines + next
           [] o.layout = "reverse" -> w.top - b.shrink + b.height.footer - next
           [] o.layout = "reverse-list" -> Bottom(w) + b.height.header + next
InputTop(o, b, w, next) == InputTopBy(o, b, w, next, HeaderLinesShape(o), HasHeaderWindow(o))

\* createPreviewWindow: the border and the window in it
PreviewFrame(o, area, pos, inputTop, inputHeight, band) ==
    CASE pos = "up" -> NewWindow(area.top, area.left, band.width, band.size)
      [] pos = "down" -> NewWindow(area.top + area.height - band.size, area.left, band.width, band.size)
      [] pos = "next" -> NewWindow(IF o.layout = "reverse" THEN inputTop + inputHeight ELSE inputTop - band.size,
                                   area.left, band.width, band.size)
      [] pos = "left" -> NewWindow(area.top, area.left, band.size, area.height)
      [] pos = "right" -> NewWindow(area.top, area.left + band.width - band.size, band.size, area.height)

InsidePreview(o, border, shape) ==
    [pborder |-> border,
     pwindow |-> NewWindow(border.top + Count(HasTop(shape)), border.left + 2 * Count(HasLeft(shape)),
                           border.width - BorderColumns(shape) - Count(o.scrollbar /\ ~HasRight(shape)),
                           border.height - BorderLines(shape))]

PreviewWindows(o, area, p, inputTop, inputHeight, band) ==
    IF p.shown
    THEN InsidePreview(o, PreviewFrame(o, area, o.previews[p.active].pos, inputTop, inputHeight, band),
                       PreviewBorder(o, o.previews[p.active]))
    ELSE [pborder |-> NoWindow, pwindow |-> NoWindow]

-----------------------------------------------------------------------------
(* The sections around the list                                            *)

\* createInnerWindow
Indent(o, shape) ==
    IF HasLeft(o.listB) /\ ~HasLeft(shape) /\ shape # "inline" THEN 1 + BorderWidth ELSE 0

InnerWindow(o, list, border, shape, shift) ==
    NewWindow(border.top + Count(HasTop(shape)),
              border.left + shift + 2 * Count(HasLeft(shape)),
              AtMost(list.width + Indent(o, shape),
                     border.width - BorderColumns(shape) - shift + Count(HasRight(shape))),
              border.height - BorderLines(shape))

HeaderTop(o, b, w, next, input) ==
    IF input /\ o.headerFirst
    THEN CASE o.layout = "reverse" -> w.top - b.shrink + b.height.footer - next
           [] o.layout = "reverse-list" -> Bottom(w) + b.height.input + next
           [] o.layout = "default" -> Bottom(w) + b.height.input + b.height.headerLines + next
    ELSE CASE o.layout = "reverse" -> w.top - b.height.header - b.height.headerLines
           [] o.layout = "reverse-list" -> Bottom(w)
           [] o.layout = "default" -> Bottom(w) + b.height.headerLines

HeaderLinesTop(o, b, w, next) ==
    IF o.headerFirst /\ o.header0 = 0
    THEN CASE o.layout = "default" -> Bottom(w) + b.height.input + next
           [] o.layout = "reverse" -> w.top - b.height.headerLines - b.height.input
           [] o.layout = "reverse-list" -> w.top - b.height.headerLines
    ELSE IF o.layout # "default" THEN w.top - b.height.headerLines ELSE Bottom(w)

\* Faulty variant of FooterTop: the header lines above the list are forgotten
FooterTopInside(o, b, w) == IF o.layout = "reverse" THEN Bottom(w) ELSE w.top - b.height.footer

FooterTop(o, b, w) ==
    CASE o.layout = "reverse" -> Bottom(w)
      [] o.layout = "reverse-list" -> w.top - b.height.footer - b.height.headerLines
      [] o.layout = "default" -> w.top - b.height.footer

\* placeInlineStack: where the section of `role` is, NoWindow when it is not inline
InlineAt(list, stack, i, onTop) ==
    NewWindow(IF onTop
              THEN list.top - StackLines(stack) + StackLines(SubSeq(stack, 1, i - 1))
              ELSE Bottom(list) + StackLines(stack) - StackLines(SubSeq(stack, 1, i - 1)) - stack[i].lines,
              list.left, list.width, stack[i].lines)
Slots(stack, role) == {i \in DOMAIN stack : stack[i].role = role}
InlineWindow(o, b, band, role) ==
    IF ~Exists(band.wborder) THEN NoWindow
    ELSE CASE Slots(b.top, role) # {} -> InlineAt(band.list, b.top, CHOOSE i \in Slots(b.top, role) : TRUE, TRUE)
           [] Slots(b.bottom, role) # {} ->
                InlineAt(band.list, b.bottom, CHOOSE i \in Slots(b.bottom, role) : TRUE, FALSE)
           [] OTHER -> NoWindow

NoSection == [border |-> NoWindow, window |-> NoWindow]

Framed(o, list, frame, shape, shift) ==
    [border |-> frame, window |-> InnerWindow(o, list, frame, shape, shift)]

\* The section of `role`, the first line of its frame at `at`, under or over the list framed by w
SectionAt(o, b, band, w, role, shape, at, shift) ==
    IF shape = "inline" THEN [border |-> NoWindow, window |-> InlineWindow(o, b, band, role)]
    ELSE Framed(o, band.list, NewWindow(at, w.left, w.width, b.height[role]), shape, shift)

\* border, area: the outer border and what is in it; b: the budget; p: the preview; input: whether
\* the input has a window; top: the first line of it; w: the border of the list or else its window
Windowed(o, g, band, w, top, lines) ==
    [windows |->
        [border |-> g.border, list |-> band.list, wborder |-> band.wborder]
          @@ PreviewWindows(o, g.area, g.p, top, g.b.height.input, band)
          @@ [input |-> IF g.input
                        THEN SectionAt(o, g.b, band, w, "input", o.inputB, top,
                                       (1 + BorderWidth) * Count(~HasLeft(o.inputB) /\ HasLeft(o.listB)))
                        ELSE NoSection,
              header |-> IF HasHeaderWindow(o)
                         THEN SectionAt(o, g.b, band, w, "header", o.headerB,
                                        HeaderTop(o, g.b, w, band.next, g.input), 0)
                         ELSE NoSection,
              headerLines |-> IF lines.window
                              THEN SectionAt(o, g.b, band, w, "headerLines", lines.shape,
                                             HeaderLinesTop(o, g.b, w, band.next), 0)
                              ELSE NoSection,
              footer |-> IF o.footer > 0
                         THEN SectionAt(o, g.b, band, w, "footer", o.footerB, FooterTop(o, g.b, w), 0)
                         ELSE NoSection],
     active |-> g.p.active,
     previews |-> g.p.previews]

WindowsBy(o, g, band, w) ==
    Windowed(o, g, band, w, InputTop(o, g.b, w, band.next), HeaderLinesShape(o))
WindowsAround(o, g, band) == WindowsBy(o, g, band, IF Exists(band.wborder) THEN band.wborder ELSE band.list)
WindowsOf(o, g) == WindowsAround(o, g, ListAndPreview(o, g.area, g.b, g.p))
WindowsIn(o, active, force, border, area) ==
    WindowsOf(o, [border |-> border, area |-> area, b |-> Budget(o, area, active),
                  p |-> IF force \/ NeedPreviewWindow(o, active) THEN SettledPreview(o, area, force)
                        ELSE [active |-> 1, previews |-> o.previews, shown |-> FALSE],
                  input |-> HasInputWindow(o, EffectivePreview(o, area, active))])
WindowsWith(o, active, force, a) == WindowsIn(o, active, force, OuterBorder(o, a), Area(o, a))

Windows(o, active, force) == WindowsWith(o, active, force, AdjustMarginAndPadding(o, active))
=============================================================================
