------------------------------ MODULE ItemList ------------------------------
(***************************************************************************)
(* The list of the terminal: cursor, scrolling and selection (constrain,   *)
(* vmove, vset, selectItem, ... and the actions on them in Loop, all in    *)
(* terminal.go).  A record l of                                            *)
(*   shown, result, pass   t.merger, t.resultMerger, t.passMerger          *)
(*   raw, match            raw mode, and t.matchMap, the indices that match*)
(*   cy, offset            cursor, and the first item on the screen        *)
(*   selected, multi       selected items in the order of selection, limit *)
(*   touched               t.version was increased                         *)
(*   lines, multiLine, gap lines of the items that have several, whether   *)
(*                         they are shown, and the lines between items   *)
(*   height, scrollOff, cycle, reverse      layout                         *)
(*                                                                         *)
(* An item is <<list, index>>: a reload starts a new list, and the         *)
(* terminal knows items by their index in it.                              *)
(***************************************************************************)
EXTENDS Query

NoIndex == -1   \* minItem.Index(): no item

Index(item) == item[2]
Count(l) == Len(l.shown)
ItemAt(l, i) == l.shown[i + 1]                      \* merger.Get(i)
FindIndex(s, idx) ==                                \* merger.FindIndex(idx)
  LET at == {i \in 1 .. Len(s) : Index(s[i]) = idx} IN
  IF at = {} THEN -1 ELSE CHOOSE i \in at : \A j \in at : i <= j
Place(s, idx) == LET i == FindIndex(s, idx) IN IF i = -1 THEN -1 ELSE i - 1

HasCurrent(l) == l.cy \in 0 .. Count(l) - 1
CurrentItem(l) == ItemAt(l, l.cy)                   \* only if HasCurrent(l)
Indices(s) == {Index(s[i]) : i \in DOMAIN s}
CurrentIndex(l) == IF HasCurrent(l) THEN Index(CurrentItem(l)) ELSE NoIndex
IsItemMatch(l, item) == Index(item) \in l.match
IsCurrentItemMatch(l) == HasCurrent(l) /\ (l.raw => IsItemMatch(l, CurrentItem(l)))
----------------------------------------------------------------------------
(* Moving *)

Vset(l, n) == [l EXCEPT !.cy = Constrain(n, 0, Count(l) - 1)]

\* Where vmove goes to, before it is cut off at the ends
Destination(l, o, allowCycle) ==
  LET dest == l.cy + (IF l.reverse THEN -o ELSE o)
      last == Count(l) - 1
  IN  IF ~(l.cycle /\ allowCycle) THEN dest
      ELSE IF dest > last /\ l.cy = last THEN 0
      ELSE IF dest <= last /\ dest < 0 /\ l.cy = 0 THEN last
      ELSE dest
Vmove(l, o, allowCycle) == Vset(l, Destination(l, o, allowCycle))
Vmoved(l, o, allowCycle) == Vmove(l, o, allowCycle).cy = Destination(l, o, allowCycle)

\* actUpMatch and actDownMatch in raw mode: step until an item matches; back if none does
MoveToMatch(l, dir) ==
  LET Step(from, to) == [l |-> to, going |-> Vmoved(from, dir, TRUE) /\ ~IsCurrentItemMatch(to)]
      walk[n \in 0 .. Count(l) + 1] ==    \* where the cursor is after n calls of vmove
        IF n = 0 THEN [l |-> l, going |-> TRUE]
        ELSE LET so == walk[n - 1] IN IF so.going THEN Step(so.l, Vmove(so.l, dir, TRUE)) ELSE so
      end == walk[Count(l) + 1].l
  IN  IF Len(l.result) = 0 THEN l
      ELSE IF IsCurrentItemMatch(end) THEN [l EXCEPT !.cy = end.cy] ELSE Vset(l, l.cy)

Move(l, dir, toMatch) == IF l.raw /\ toMatch THEN MoveToMatch(l, dir) ELSE Vmove(l, dir, TRUE)
----------------------------------------------------------------------------
(* Scrolling *)

SpansLines(l) == l.multiLine \/ l.gap > 0         \* canSpanMultiLines

\* numItemLines: lines with the gap, and whether they are more than atMost
OwnLines(l, item) == IF l.multiLine /\ Index(item) \in DOMAIN l.lines THEN l.lines[Index(item)] ELSE 1
ItemLines(l, i) == OwnLines(l, ItemAt(l, i)) + l.gap
CutOff(l, lines, atMost) ==
  IF l.multiLine /\ lines > 1 + l.gap /\ lines > atMost + l.gap
  THEN [n |-> atMost + l.gap, over |-> TRUE]
  ELSE [n |-> lines, over |-> lines > atMost]
LinesUpTo(l, i, atMost) == CutOff(l, ItemLines(l, i), atMost)

\* add of constrain, for the item at i: an item cut off at the end counts only if it is the first
AddLines(l, acc, got) ==
  LET full == acc.sum + got.n >= l.height
  IN  [sum |-> acc.sum + got.n, full |-> full,
       items |-> IF ~full \/ acc.items = 0 \/ ~got.over THEN acc.items + 1 ELSE acc.items]
AddItem(l, acc, i) == IF acc.full THEN acc ELSE AddLines(l, acc, LinesUpTo(l, i, l.height - acc.sum))

\* Faulty variant of Fitting: the items before offset are not counted in lines.
FittingByItems(l) ==
  IF ~SpansLines(l) \/ Count(l) = 0 THEN l.height ELSE
  LET down[i \in l.offset .. Count(l)] ==
        IF i = l.offset THEN [sum |-> 0, full |-> FALSE, items |-> 0] ELSE AddItem(l, down[i - 1], i - 1)
  IN  down[Count(l)].items + l.offset

\* How many items fit on the screen: those from offset on, then those before it
Fitting(l) ==
  IF ~SpansLines(l) \/ Count(l) = 0 THEN l.height ELSE
  LET none == [sum |-> 0, full |-> FALSE, items |-> 0]
      down[i \in l.offset .. Count(l)] ==
        IF i = l.offset THEN none ELSE AddItem(l, down[i - 1], i - 1)
      up[n \in 0 .. l.offset] ==
        IF n = 0 THEN down[Count(l)] ELSE AddItem(l, up[n - 1], l.offset - n)
  IN  up[l.offset].items

\* The --scroll-off adjustment: phase 0 scrolls up, phase 1 down, until there is enough context
LinesBefore(l, offset) ==
  LET sum[i \in offset .. Larger(offset, Smaller(l.cy, Count(l)))] ==
        IF i = offset THEN 0
        ELSE LET so == sum[i - 1] IN
             so + LinesUpTo(l, i - 1, l.height - so
                              - LinesUpTo(l, Smaller(l.cy, Count(l) - 1), l.height).n).n
  IN  IF ~SpansLines(l) THEN l.cy - offset
      ELSE sum[Larger(offset, Smaller(l.cy, Count(l)))]
Scroll(l, offset, before, phase, least, most) ==
  LET want == Smaller(l.height \div 2, l.scrollOff)
      own == IF SpansLines(l) /\ l.cy < Count(l) THEN LinesUpTo(l, l.cy, l.height).n ELSE 1 + l.gap
      behind == l.height - (before + own)
  IN  IF before < want /\ behind < want THEN offset
      ELSE IF phase = 0 /\ before < want THEN Larger(least, offset - 1)
      ELSE IF phase = 1 /\ behind < want THEN Smaller(most, offset + 1)
      ELSE offset
ScrollOff(l, phase, least, most) ==
  LET move[n \in 0 .. Count(l) + 1] ==
        IF n = 0 THEN l.offset ELSE Scroll(l, move[n - 1], LinesBefore(l, move[n - 1]), phase, least, most)
  IN  [l EXCEPT !.offset = move[Count(l) + 1]]

\* One round of the loop of constrain, for a cursor that is in the list
Within(l, least, most) ==
  LET n == [l EXCEPT !.offset = Constrain(@, least, most)]
  IN  IF l.scrollOff = 0 THEN n ELSE ScrollOff(ScrollOff(n, 0, least, most), 1, least, most)
WithFitting(l, fit) == Within(l, Larger(l.cy - fit + 1, 0), Larger(Smaller(Count(l) - fit, l.cy), 0))
ConstrainOnce(l) == WithFitting(l, Fitting(l))

\* constrain: cursor and offset put right, in at most one round per line of the window.  Each round
\* puts the cursor in the list first, which the first one does for all.
InList(l) == IF l.height > 0 THEN Constrain(l.cy, 0, Larger(0, Count(l) - 1)) ELSE l.cy
Settled(offset, next) == [offset |-> next, done |-> next = offset]
Scrolled(l, start) ==
  LET round[n \in 0 .. l.height] ==
        IF n = 0 THEN [offset |-> start, done |-> FALSE]
        ELSE LET so == round[n - 1] IN
             IF so.done THEN so ELSE Settled(so.offset, ConstrainOnce([l EXCEPT !.offset = so.offset]).offset)
  IN  [l EXCEPT !.offset = round[l.height].offset]
ConstrainList(l) == Scrolled([l EXCEPT !.cy = InList(l)], Constrain(l.offset, 0, Count(l)))

\* actFirst, actBest, actLast and actPosition, before the cursor is put right
First(l) == Vset(l, 0)
Best(l) == IF ~l.raw THEN First(l)
           ELSE IF l.result = <<>> THEN l ELSE Vset(l, Place(l.shown, Index(l.result[1])))
LastItem(l) == Vset(l, Count(l) - 1)
Position(l, n) == Vset(l, IF n > 0 THEN n - 1 ELSE IF n < 0 THEN n + Count(l) ELSE n)

OffsetMiddle(l) == [ConstrainList([l EXCEPT !.scrollOff = l.height]) EXCEPT !.scrollOff = l.scrollOff]

\* actOffsetUp (1) and actOffsetDown (-1): at the end of the list, the cursor moves instead
Moved(put, offset, o) == IF put.offset = offset THEN put ELSE Vmove([put EXCEPT !.offset = offset], o, FALSE)
Offset(l, dir) ==
  LET offset == l.offset + (IF l.reverse THEN -dir ELSE dir)
  IN  Moved(ConstrainList([l EXCEPT !.offset = offset]), offset, dir)

\* actPageUp, ...: in a list of single lines the cursor moves by so many items; else it moves
\* item by item until a page of lines has gone by
Page(l, up, half) ==
  LET steps == Larger(1, IF half THEN l.height \div 2 ELSE l.height - 1)
      dir == IF up = l.reverse THEN -1 ELSE 1
      Sum(a, b) == LET s[i \in a - 1 .. Larger(a - 1, b)] ==
                         IF i = a - 1 THEN 0 ELSE s[i - 1] + LinesUpTo(l, i, l.height).n
                   IN  s[Larger(a - 1, b)]
      fullDown == {i \in l.offset .. Count(l) - 1 : Sum(l.offset, i) >= l.height}
      fullUp == {i \in 0 .. Smaller(l.offset, Count(l) - 1) : Sum(i, l.offset) >= l.height}
      most == IF fullDown = {} THEN Count(l) ELSE CHOOSE i \in fullDown : \A j \in fullDown : i <= j
      least == IF l.offset >= Count(l) THEN l.offset
               ELSE IF fullUp = {} THEN -1
               ELSE LET i == CHOOSE i \in fullUp : \A j \in fullUp : j <= i IN
                    IF Sum(i, l.offset) > l.height THEN i + 1 ELSE i
      Step(n, from, to) ==
        IF to.cy = from.cy THEN [l |-> to, going |-> FALSE]
        ELSE IF n > 1 /\ (IF dir = 1 THEN to.offset > most ELSE to.offset < least)
        THEN [l |-> from, going |-> FALSE]
        ELSE [l |-> to, going |-> TRUE]
      go[n \in 0 .. steps] ==
        IF n = 0 THEN [l |-> l, going |-> TRUE]
        ELSE LET so == go[n - 1] IN
             IF so.going THEN Step(n, so.l, ConstrainList(Vset(so.l, so.l.cy + dir))) ELSE so
      end == go[steps].l
  IN  IF SpansLines(l) THEN [l EXCEPT !.cy = end.cy, !.offset = end.offset] ELSE Vset(l, l.cy + dir * steps)
----------------------------------------------------------------------------
(* Selecting *)

SelectedIndices(l) == Indices(l.selected)
IsSelected(l, item) == Index(item) \in SelectedIndices(l)

\* The items of s with an index in I, in their order
Only(s, I) ==
  LET kept[n \in 0 .. Len(s)] ==
        IF n = 0 THEN <<>> ELSE IF Index(s[n]) \in I THEN Append(kept[n - 1], s[n]) ELSE kept[n - 1]
  IN  kept[Len(s)]
Keep(l, I) == [l EXCEPT !.selected = Only(@, I)]

\* selectItem: fails at the limit, and does nothing to a selected item
Room(l) == Len(l.selected) < l.multi

SelectItem(l, item) ==
  IF ~Room(l) \/ IsSelected(l, item) THEN l
  ELSE [l EXCEPT !.selected = Append(@, item), !.touched = TRUE]
DeselectItem(l, item) ==
  [Keep(l, SelectedIndices(l) \ {Index(item)}) EXCEPT !.touched = TRUE]

\* toggleItem, and whether it did anything
ToggleItem(l, item) == IF IsSelected(l, item) THEN DeselectItem(l, item) ELSE SelectItem(l, item)
CanToggle(l) == l.multi > 0 /\ HasCurrent(l) /\ (IsSelected(l, CurrentItem(l)) \/ Room(l))

Select(l) == IF l.multi > 0 /\ HasCurrent(l) THEN SelectItem(l, CurrentItem(l)) ELSE l
Deselect(l) == IF l.multi > 0 /\ HasCurrent(l) /\ IsSelected(l, CurrentItem(l))
               THEN DeselectItem(l, CurrentItem(l)) ELSE l
Toggle(l) == IF CanToggle(l) THEN ToggleItem(l, CurrentItem(l)) ELSE l
ToggleMove(l, o) == IF CanToggle(l) THEN Vmove(Toggle(l), o, TRUE) ELSE l
ClearSelection(l) == IF l.multi > 0 THEN [l EXCEPT !.selected = <<>>, !.touched = TRUE] ELSE l

\* selectItem for each of a sequence of items, until the limit is reached, and deselectItem
SelectEach(l, items) ==
  LET others == Only(items, Indices(items) \ SelectedIndices(l))
      new == Before(others, Constrain(l.multi - Len(l.selected), 0, Len(others)))
  IN  [l EXCEPT !.selected = @ \o new, !.touched = @ \/ new # <<>>]
DeselectEach(l, items) ==
  [Keep(l, SelectedIndices(l) \ Indices(items))
     EXCEPT !.touched = @ \/ (items # <<>> /\ l.selected # <<>>)]

\* Also in raw mode these are about the matching items only.
SelectAll(l) == IF l.multi > 0 THEN SelectEach(l, l.result) ELSE l
DeselectAll(l) == IF l.multi > 0 THEN DeselectEach(l, l.result) ELSE l
ToggleAll(l) ==
  IF l.multi = 0 THEN l ELSE
  LET were == Only(l.result, SelectedIndices(l))
      others == Only(l.result, Indices(l.result) \ SelectedIndices(l))
  IN  SelectEach(DeselectEach(l, were), others)

\* actChangeMulti: what is no number is ignored
ChangeMulti(l, arg) ==
  LET multi == IF arg \in Nat THEN arg ELSE l.multi IN
  [(IF l.multi > 0 /\ multi # l.multi THEN [l EXCEPT !.selected = <<>>, !.touched = TRUE] ELSE l)
     EXCEPT !.multi = multi]

\* actNextSelected and actPrevSelected: the nearest other selected item in this direction
ToSelected(l, next) ==
  LET total == Count(l)
      down == l.reverse = next
      Y(i) == IF down THEN (l.cy + i) % total ELSE (l.cy - i + total) % total
      hits == {i \in 1 .. total - 1 : IsSelected(l, ItemAt(l, Y(i)))}
  IN  IF l.selected = <<>> \/ hits = {} THEN l
      ELSE Vset(l, Y(CHOOSE i \in hits : \A j \in hits : i <= j))

\* The items an execution or the end of fzf gets: the selected ones, or else the current one
\* (output, buildPlusList)
Chosen(l) == IF l.selected # <<>> THEN l.selected
             ELSE IF HasCurrent(l) THEN <<CurrentItem(l)>> ELSE <<>>
----------------------------------------------------------------------------
(* Raw mode *)

\* The matching item closest to the cursor, the one behind it first
Closest(l) ==
  LET near == {d \in 1 .. Count(l) : \E c \in {l.cy + d, l.cy - d} :
                 c \in 0 .. Count(l) - 1 /\ IsItemMatch(l, ItemAt(l, c))}
      d == CHOOSE d \in near : \A e \in near : d <= e
      c == IF l.cy + d < Count(l) /\ IsItemMatch(l, ItemAt(l, l.cy + d)) THEN l.cy + d ELSE l.cy - d
  IN  IF near = {} THEN CurrentIndex(l) ELSE Index(ItemAt(l, c))

\* actToggleRaw, actEnableRaw, actDisableRaw
SetRaw(l, raw) ==
  IF l.raw = raw THEN l ELSE
  LET keep == IF ~raw /\ ~IsCurrentItemMatch(l) /\ Len(l.result) > 1 THEN Closest(l) ELSE CurrentIndex(l)
      m == IF raw
           THEN [l EXCEPT !.match = IF @ = {} THEN Indices(l.result) ELSE @,
                          !.shown = l.pass]
           ELSE [Keep(l, l.match) EXCEPT !.shown = l.result]
      n == [m EXCEPT !.raw = raw]
      cy == Larger(0, Place(n.shown, keep))
  IN  IF keep = NoIndex THEN n ELSE [n EXCEPT !.cy = cy, !.offset = cy - (l.cy - l.offset)]
=============================================================================
