------------------------------- MODULE Query -------------------------------
(***************************************************************************)
(* The query line of the terminal (terminal.go) and its history            *)
(* (history.go): a record q of                                             *)
(*   input     the slice t.input, see below                                *)
(*   cx        the position of the cursor, t.cx                            *)
(*   yanked    what was cut last                                           *)
(*   inputless --no-input: the query is not shown and not edited           *)
(*   history   [lines, modified, cursor] of history.go, lines without the  *)
(*             file                                                        *)
(* and one operator per editing action of Loop, from q to q.               *)
(*                                                                         *)
(* A query is a sequence of characters: a small letter, a capital, or one  *)
(* that belongs to no word.                                                *)
(*                                                                         *)
(* Slices.  The editing actions append to t.input[:i] in place if the      *)
(* backing array has room, and Loop keeps `previousInput := t.input`,      *)
(* which looks into the same array.  So t.input is [text, off, cap,        *)
(* shared, old]: its text, where it starts in its array, its capacity,     *)
(* whether the array is the one previousInput looks into, and what         *)
(* previousInput reads now.                                                *)
(***************************************************************************)
EXTENDS Integers, Sequences

CONSTANT MaxPattern   \* maxPatternLength

ASSUME QueryAssumption == MaxPattern \in Nat \ {0}

Smaller(a, b) == IF a < b THEN a ELSE b
Larger(a, b) == IF a > b THEN a ELSE b
Constrain(n, lo, hi) == Larger(Smaller(n, hi), lo)

Before(s, n) == SubSeq(s, 1, n)            \* s[:n]
After(s, n) == SubSeq(s, n + 1, Len(s))    \* s[n:]
----------------------------------------------------------------------------
(* Slices *)

\* Allocations of runes are rounded up to a multiple of eight bytes.
Rounded(n) == n + (n % 2)

\* []rune(s), and a slice made with just the room it needs
Fresh(s, old) == [text |-> s, off |-> 0, cap |-> Rounded(Len(s)), shared |-> FALSE, old |-> old]
Exact(s, old) == [Fresh(s, old) EXCEPT !.cap = Len(s)]

\* A text of which the part from off on is overwritten with xs
Overlay(s, off, xs) == [i \in DOMAIN s |-> IF i \in off + 1 .. off + Len(xs) THEN xs[i - off] ELSE s[i]]

\* append(b[:n], xs...)
AppendTo(b, n, xs) ==
  LET text == Before(b.text, n) \o xs IN
  IF Len(text) <= b.cap
  THEN [b EXCEPT !.text = text,
                 !.old = IF b.shared THEN Overlay(@, b.off + n, xs) ELSE @]
  ELSE [Fresh(text, b.old) EXCEPT !.cap = Rounded(Larger(Len(text), 2 * b.cap))]

\* b[n:]
From(b, n) == [b EXCEPT !.text = After(@, n), !.off = @ + n, !.cap = @ - n]

\* b[:n]
UpTo(b, n) == [b EXCEPT !.text = Before(@, n)]
----------------------------------------------------------------------------
(* Words *)

IsWord(c) == c \in {"a", "A"}

\* The two characters at i start a word (or, for sub-words, a hump).
StartsWord(s, i, sub) ==
  /\ i < Len(s)
  /\ \/ ~IsWord(s[i]) /\ IsWord(s[i + 1])
     \/ sub /\ s[i] = "a" /\ s[i + 1] = "A"

\* The places the regular expression for the beginning of a word matches: the matches do not
\* overlap, they are found from left to right.
WordStarts(s, sub) ==
  LET match[i \in 0 .. Len(s)] ==
        i > 0 /\ StartsWord(s, i, sub) /\ ~match[i - 1]
  IN  {i \in 1 .. Len(s) : match[i]}

\* findLastMatch(wordRubout, s) + 1
LastStart(s, sub) ==
  LET at == WordStarts(s, sub) IN
  IF at = {} THEN 0 ELSE CHOOSE i \in at : \A j \in at : j <= i

\* findFirstMatch(wordNext, s) + 1
FirstEnd(s, sub) ==
  LET at == {i \in 1 .. Len(s) : \/ i = Len(s)
                                 \/ IsWord(s[i]) /\ ~IsWord(s[i + 1])
                                 \/ sub /\ s[i] = "a" /\ s[i + 1] = "A"}
  IN  IF at = {} THEN 0 ELSE CHOOSE i \in at : \A j \in at : i <= j
----------------------------------------------------------------------------
(* Actions.  text and cursor are q.input.text and q.cx. *)

Text(q) == q.input.text
WithText(q, s) == [q EXCEPT !.input = Fresh(s, @.old), !.cx = Len(s)]

BeginningOfLine(q) == [q EXCEPT !.cx = 0]
EndOfLine(q) == [q EXCEPT !.cx = Len(Text(q))]
BackwardChar(q) == [q EXCEPT !.cx = Larger(@ - 1, 0)]
ForwardChar(q) == [q EXCEPT !.cx = IF @ < Len(Text(q)) THEN @ + 1 ELSE @]
BackwardWord(q, sub) == [q EXCEPT !.cx = LastStart(Before(Text(q), @), sub)]
ForwardWord(q, sub) == [q EXCEPT !.cx = @ + FirstEnd(After(Text(q), @), sub)]

\* delChar
DeleteChar(q) ==
  IF q.cx < Len(Text(q)) THEN [q EXCEPT !.input = AppendTo(@, q.cx, After(@.text, q.cx + 1))] ELSE q

BackwardDeleteChar(q) ==
  IF q.cx > 0
  THEN [q EXCEPT !.input = AppendTo(@, q.cx - 1, After(@.text, q.cx)), !.cx = @ - 1]
  ELSE q

\* rubout
Rubout(q, sub) ==
  IF q.cx = 0 THEN q ELSE
  LET cx == LastStart(Before(Text(q), q.cx), sub) IN
  [q EXCEPT !.cx = cx,
            !.yanked = SubSeq(Text(q), cx + 1, q.cx),
            !.input = AppendTo(@, cx, After(@.text, q.cx))]

KillWord(q, sub) ==
  LET ncx == q.cx + FirstEnd(After(Text(q), q.cx), sub) IN
  IF ncx = q.cx THEN q ELSE
  [q EXCEPT !.yanked = SubSeq(Text(q), q.cx + 1, ncx),
            !.input = AppendTo(@, q.cx, After(@.text, ncx))]

UnixLineDiscard(q) ==
  IF q.cx = 0 THEN q ELSE
  [q EXCEPT !.yanked = Before(Text(q), q.cx), !.input = From(@, q.cx), !.cx = 0]

KillLine(q) ==
  IF q.cx = Len(Text(q)) THEN q ELSE
  [q EXCEPT !.yanked = After(Text(q), q.cx), !.input = UpTo(@, q.cx)]

\* actCancel on a query that is not empty
ClearToYank(q) == [q EXCEPT !.yanked = Text(q), !.input = Exact(<<>>, @.old), !.cx = 0]
ClearQuery(q) == [q EXCEPT !.input = Exact(<<>>, @.old), !.cx = 0]
ChangeQuery(q, s) == WithText(q, s)

\* actPut, and actYank with q.yanked
Put(q, s) ==
  LET suffix == After(Text(q), q.cx)
      first == AppendTo(q.input, q.cx, s)
  IN  [q EXCEPT !.input = AppendTo(first, q.cx + Len(s), suffix), !.cx = @ + Len(s)]

\* actChar: the prefix is copied first
Char(q, c) ==
  LET prefix == Exact(Before(Text(q), q.cx), q.input.old)
      suffix == After(Text(q), q.cx)
      first == AppendTo(prefix, q.cx, <<c>>)
  IN  [q EXCEPT !.input = AppendTo(first, q.cx + 1, suffix), !.cx = @ + 1]

\* A click on the query line, x columns right of the prompt, with the line scrolled by xoffset
ClickPrompt(q, x, xoffset) == [q EXCEPT !.cx = Constrain(x, 0, Len(Text(q))) + xoffset]

\* truncateQuery
TruncateQuery(q) ==
  LET n == Smaller(Len(Text(q)), MaxPattern) IN
  [q EXCEPT !.input = UpTo(@, n), !.cx = Constrain(@, 0, n)]

\* updatePromptOffset: how far the line may be scrolled, for characters of width one
PromptOffset(q, xoffset, width) ==
  LET least == Larger(q.cx - width, 0)
      most == least + (width - Larger(0, width - q.cx)) \div 2
  IN  Constrain(xoffset, least, most)
----------------------------------------------------------------------------
(* History *)

\* NewHistory, for the lines of a file: a new line to edit comes last.
NewHistory(lines) == [lines |-> Append(lines, <<>>), modified |-> [i \in {} |-> <<>>],
                      cursor |-> Len(lines) + 1]

\* history.append: drops the edits of the new line, keeps maxSize lines
AppendHistory(h, s, maxSize) ==
  IF s = <<>> THEN h ELSE
  LET lines == Append(Before(h.lines, Len(h.lines) - 1), s)
      kept == After(lines, Larger(Len(lines) - maxSize, 0))
  IN  [h EXCEPT !.lines = Append(kept, <<>>)]

\* history.override
OverrideHistory(h, s) ==
  IF h.cursor = Len(h.lines) THEN [h EXCEPT !.lines[h.cursor] = s]
  ELSE [h EXCEPT !.modified = [i \in DOMAIN h.modified \cup {h.cursor} |->
                                 IF i = h.cursor THEN s ELSE h.modified[i]]]

\* history.current
CurrentLine(h) ==
  IF h.cursor \in DOMAIN h.modified THEN h.modified[h.cursor] ELSE h.lines[h.cursor]

\* history.previous and history.next
Previous(h) == [h EXCEPT !.cursor = Larger(@ - 1, 1)]
NextLine(h) == [h EXCEPT !.cursor = Smaller(@ + 1, Len(h.lines))]

\* Faulty variant of PrevHistory: the typed text is kept with the line that is shown next.
PrevHistoryLate(q) ==
  LET h == OverrideHistory(Previous(q.history), Text(q)) IN
  WithText([q EXCEPT !.history = h], CurrentLine(Previous(q.history)))

\* actPrevHistory and actNextHistory: what was typed is kept with the line it was typed over.
PrevHistory(q) ==
  LET h == Previous(OverrideHistory(q.history, Text(q))) IN
  WithText([q EXCEPT !.history = h], CurrentLine(h))

NextHistory(q) ==
  LET h == NextLine(OverrideHistory(q.history, Text(q))) IN
  WithText([q EXCEPT !.history = h], CurrentLine(h))
=============================================================================
