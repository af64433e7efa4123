-------------------------------- MODULE Ansi --------------------------------
(***************************************************************************)
(* ANSI codes in the input (ansi.go, and ansiProcessor and transformItem   *)
(* in core.go).  Two views of a line:                                      *)
(*  - bytes, for nextAnsiEscapeSequence, which finds the next code;        *)
(*  - pieces, characters and codes, for extractColor, which takes the      *)
(*    codes out and leaves offsets: [b, e, color] of parts of the text.    *)
(*                                                                         *)
(* The state nil of the code is the state Plain here: extractColor tells   *)
(* them apart only where it would add an offset without any color.         *)
(***************************************************************************)
EXTENDS Integers, Sequences
LOCAL INSTANCE FiniteSetsExt
LOCAL INSTANCE SequencesExt

CONSTANTS
  AnsiBytes,        \* bytes, and the beginnings they are put behind
  AnsiSeeds,
  MaxBytes,         \* bound: bytes behind the beginning
  Pieces,           \* sets of pieces that lines are made of
  MaxPieces,        \* bounds: pieces of all lines, and tokens that --with-nth shows
  MaxShown

VARIABLES
  bytes,            \* [on, s (bytes), n]
  ansi              \* [on, pieces (to choose from), nth, n (pieces so far), line (being read), before and raw (the
                    \*  color that the lines shown, and the lines read, end in), state (lineAnsiState), prev
                    \*  (prevLineAnsiState), shown (none, or the last line and its offsets)]

IdleBytes == [on |-> FALSE]
IdleAnsi == [on |-> FALSE]
----------------------------------------------------------------------------
(* nextAnsiEscapeSequence *)

NoEscape == <<-1, -1>>
CtrlSeqStart == {"\\", "[", "(", ")"}
Numeric == {"0", "1", "8"}
Parameter == Numeric \cup {";", ":", "?"}
Finals == {"x", "m", "K", "@"}
ControlBytes == {"ESC", "BEL", "BS", "SO", "NL"}

\* matchControlSequence of the code at s[i]: where it ends, or -1
ControlSequenceEnd(s, i) ==
  LET rest == {k \in i + 2 .. Len(s) : s[k] \notin Parameter}
  IN  IF rest = {} \/ s[i + 1] \notin CtrlSeqStart THEN -1
      ELSE IF s[Min(rest)] \in Finals THEN Min(rest) ELSE -1

\* Faulty variant of SystemCommandEnd: an ESC alone ends any command.
SystemCommandEndAny(s, i) ==
  LET seps == {k \in i + 2 .. Len(s) : s[k] \notin Numeric}
      ends == {k \in Min(seps) + 2 .. Len(s) : s[k] \in {"BEL", "ESC"}}
  IN  IF Len(s) < i + 5 \/ s[i + 1] # "]" \/ seps = {} \/ Min(seps) = i + 2 \/ s[Min(seps)] \notin {";", ":"} THEN -1
      ELSE IF s[Min(seps) + 1] \in ControlBytes \/ ends = {} THEN -1
      ELSE Min(ends)

\* matchOperatingSystemCommand, and the loops before it: digits, a separator, anything up to BEL,
\* ESC \, or the ESC of ESC ] 8 ; ; ESC
SystemCommandEnd(s, i) ==
  LET seps == {k \in i + 2 .. Len(s) : s[k] \notin Numeric}
      sep == Min(seps)
      ends == {k \in sep + 2 .. Len(s) : s[k] \in {"BEL", "ESC"}}
      end == Min(ends)
  IN  IF \/ Len(s) < i + 5 \/ s[i + 1] # "]" \/ seps = {}
         \/ sep = i + 2 \/ s[sep] \notin {";", ":"} \/ sep = Len(s)
      THEN -1
      ELSE IF s[sep + 1] \in ControlBytes \/ ends = {} THEN -1
      ELSE IF s[end] = "BEL" THEN end
      ELSE IF end < Len(s) /\ s[end + 1] = "\\" THEN end + 1
      ELSE IF SubSeq(s, i, end) = <<"ESC", "]", "8", ";", ";", "ESC">> THEN end ELSE -1

\* The code that s[i] belongs to, as the slice s[b:e] of the program
EscapeAt(s, i) ==
  CASE s[i] \in {"NL", "SO"} -> <<i - 1, i>>
    [] s[i] = "BS" -> IF i > 1 /\ s[i - 1] # "NL" THEN <<i - 2, i>> ELSE NoEscape
    [] s[i] = "ESC" /\ i < Len(s) ->
         IF ControlSequenceEnd(s, i) # -1 THEN <<i - 1, ControlSequenceEnd(s, i)>>
         ELSE IF SystemCommandEnd(s, i) # -1 THEN <<i - 1, SystemCommandEnd(s, i)>>
         ELSE IF s[i + 1] # "NL" THEN <<i - 1, i + 1>> ELSE NoEscape
    [] OTHER -> NoEscape
NextAnsiEscapeSequence(s) ==
  LET found == {i \in DOMAIN s : EscapeAt(s, i) # NoEscape}
  IN  IF found = {} THEN NoEscape ELSE EscapeAt(s, Min(found))

InitBytes == \E s \in AnsiSeeds : bytes = [on |-> TRUE, s |-> s, n |-> 0]
AddByte ==
  /\ bytes.on /\ bytes.n < MaxBytes
  /\ \E b \in AnsiBytes : bytes' = [bytes EXCEPT !.s = Append(@, b), !.n = @ + 1]
----------------------------------------------------------------------------
(* States and codes.  A code is [is |-> "sgr", of |-> parameters], "erase" (K), "link" (OSC 8) or *)
(* "newline"; a parameter is <<n>>, <<-1>> if empty, or <<4, n>> for 4:n; a character has is = "text". *)

Plain == [fg |-> -1, bg |-> -1, ul |-> -1, attr |-> {}, style |-> 0, lbg |-> -1, url |-> ""]
Colored(st) == st # Plain
TrueColor == 16777216

\* A parameter of ESC [ ... m; mode is state256, ptr what a color is for
Parameterized(p, st) ==
  LET n == p[1] IN
  IF Len(p) = 2
  THEN [st EXCEPT !.attr = IF p[2] = 0 THEN @ \ {"underline"} ELSE @ \cup {"underline"},
                  !.style = IF p[2] \in 2 .. 5 THEN p[2] ELSE 0]
  ELSE CASE n \in 30 .. 37 -> [st EXCEPT !.fg = n - 30]
         [] n \in 40 .. 47 -> [st EXCEPT !.bg = n - 40]
         [] n \in 90 .. 97 -> [st EXCEPT !.fg = n - 82]
         [] n \in 100 .. 107 -> [st EXCEPT !.bg = n - 92]
         [] n = 39 -> [st EXCEPT !.fg = -1]
         [] n = 49 -> [st EXCEPT !.bg = -1]
         [] n = 59 -> [st EXCEPT !.ul = -1]
         [] n \in {1, 2, 3, 4, 5, 7, 9} ->
              [st EXCEPT !.attr = @ \cup {<<"bold", "dim", "italic", "underline", "blink", "", "reverse", "", "strike">>[n]}]
         [] n = 22 -> [st EXCEPT !.attr = @ \ {"bold", "dim"}]
         [] n = 23 -> [st EXCEPT !.attr = @ \ {"italic"}]
         [] n = 24 -> [st EXCEPT !.attr = @ \ {"underline"}, !.style = 0]
         [] n = 25 -> [st EXCEPT !.attr = @ \ {"blink"}]
         [] n = 27 -> [st EXCEPT !.attr = @ \ {"reverse"}]
         [] n = 29 -> [st EXCEPT !.attr = @ \ {"strike"}]
         [] n = 0 -> [Plain EXCEPT !.lbg = st.lbg, !.url = st.url]
         [] OTHER -> st

\* A number of a color, and what the next one is
Put(acc, c, mode) == [acc EXCEPT !.st = [acc.st EXCEPT ![acc.ptr] = c], !.mode = mode]

\* The loop of interpretCode: 38, 48 and 58 begin a color, 5;n or 2;r;g;b
Step(acc, p) ==
  LET n == p[1] IN
  CASE n = -1 -> acc
    [] n # -1 /\ acc.mode = 0 ->
         IF n \in {38, 48, 58} THEN [acc EXCEPT !.mode = 1, !.ptr = CASE n = 38 -> "fg" [] n = 48 -> "bg" [] n = 58 -> "ul"]
         ELSE [acc EXCEPT !.st = Parameterized(p, @)]
    [] n # -1 /\ acc.mode = 1 -> [acc EXCEPT !.mode = CASE n = 2 -> 10 [] n = 5 -> 2 [] OTHER -> 0]
    [] n # -1 /\ acc.mode = 2 -> Put(acc, n, 0)
    [] n # -1 /\ acc.mode = 10 -> Put(acc, TrueColor + n * 65536, 11)
    [] n # -1 /\ acc.mode = 11 -> Put(acc, acc.st[acc.ptr] + n * 256, 12)
    [] n # -1 /\ acc.mode = 12 -> Put(acc, acc.st[acc.ptr] + n, 0)

\* A color that is not complete is none.
Completed(acc) == IF acc.mode > 0 THEN [acc.st EXCEPT ![acc.ptr] = -1] ELSE acc.st

\* A sequence without a number is a reset.
InterpretCode(code, st) ==
  CASE code.is = "sgr" ->
         IF \A k \in DOMAIN code.of : code.of[k][1] = -1 THEN Parameterized(<<0>>, st)
         ELSE Completed(FoldLeft(Step, [st |-> st, mode |-> 0, ptr |-> "fg"], code.of))
    [] code.is = "erase" -> [st EXCEPT !.lbg = st.bg]
    [] code.is = "link" -> [st EXCEPT !.url = code.of]
    [] OTHER -> st

\* ansiState.equals compares pointers to URLs: that of a new link differs from any before.
SameState(code, old, new) == new = old /\ ~(code.is = "link" /\ code.of # "")

\* toAnsiString, toAnsiStringUl and ToString, as codes
ToAnsiString(c, offset) ==
  IF c = -1 THEN <<<<offset + 9>>>>
  ELSE IF c < 8 THEN <<<<offset + c>>>>
  ELSE IF c < 16 THEN <<<<offset + 52 + c>>>>
  ELSE IF c < 256 THEN <<<<offset + 8>>, <<5>>, <<c>>>>
  ELSE IF c < TrueColor THEN <<<<-1>>>>
  ELSE <<<<offset + 8>>, <<2>>, <<(c \div 65536) % 256>>, <<(c \div 256) % 256>>, <<c % 256>>>>
ToAnsiStringUl(c) ==
  IF c = -1 THEN <<>> ELSE IF c < TrueColor THEN <<<<58>>, <<5>>, <<c>>>> ELSE ToAnsiString(c, 50)
AttrCodes(st) ==
  FoldLeft(LAMBDA out, a :
             IF a[2] \notin st.attr THEN out
             ELSE Append(out, IF a[1] = 4 /\ st.style > 0 THEN <<4, st.style>> ELSE <<a[1]>>), <<>>,
           <<<<1, "bold">>, <<2, "dim">>, <<3, "italic">>, <<4, "underline">>, <<5, "blink">>, <<7, "reverse">>, <<9, "strike">>>>)
CodesOf(st) ==
  LET sgr == [is |-> "sgr", of |-> AttrCodes(st) \o ToAnsiString(st.fg, 30) \o ToAnsiString(st.bg, 40) \o ToAnsiStringUl(st.ul), at |-> 0]
  IN  IF ~Colored(st) THEN <<>>
      ELSE IF st.url # "" THEN <<[is |-> "link", of |-> st.url, at |-> 0], sgr>> ELSE <<sgr>>
----------------------------------------------------------------------------
(* extractColor *)

\* Faulty variant of Closed: an offset ends only where the next color begins.
ClosedNot(offsets, st, n) == offsets

\* "Update last offset"
Closed(offsets, st, n) == IF Colored(st) THEN [offsets EXCEPT ![Len(offsets)].e = n] ELSE offsets

Offset(n, color) == [b |-> n, e |-> n, color |-> color, full |-> FALSE]
Full(marker) == [marker EXCEPT !.full = TRUE]           \* the attribute FullBg

\* A code whose state is new
Recolored(acc, piece, new) ==
  LET closed == Closed(acc.offsets, acc.st, acc.n)
      nl == piece.is = "newline"
      n == IF nl THEN acc.n + 1 ELSE acc.n
      st == IF nl THEN [new EXCEPT !.lbg = -1] ELSE new
  IN  IF ~nl /\ SameState(piece, acc.st, new) THEN acc
      ELSE [n |-> n, st |-> st,
            offsets |-> closed \o (IF nl /\ new.lbg >= 0 THEN <<Full(Offset(n, new))>> ELSE <<>>)
                               \o (IF Colored(st) THEN <<Offset(n, st)>> ELSE <<>>)]
Extract(acc, piece) ==
  IF piece.is = "text" THEN [acc EXCEPT !.n = @ + 1]
  ELSE Recolored(acc, piece, InterpretCode(piece, acc.st))
Ended(line, acc) ==
  IF line # <<>> /\ Last(line).is = "text" THEN [acc EXCEPT !.offsets = Closed(@, acc.st, acc.n)] ELSE acc
ExtractColor(line, st) ==
  Ended(line, FoldLeft(Extract, [n |-> 0, st |-> st, offsets |-> IF Colored(st) THEN <<Offset(0, st)>> ELSE <<>>], line))

\* The marker of a full line of background at its end
Marked(x) ==
  LET marker == [Last(x.offsets) EXCEPT !.b = Last(x.offsets).e, !.color.bg = x.st.lbg]
  IN  IF x.st.lbg >= 0
      THEN [x EXCEPT !.offsets = Append(@, Full(marker)), !.st.lbg = -1] ELSE x
AnsiProcessor(line, state) == Marked(ExtractColor(line, state))
----------------------------------------------------------------------------
(* transformItem *)

IsSpace(piece) == piece.is = "newline" \/ (piece.is = "text" /\ piece.of = " ")

\* awkTokenizer: each token with the white space that follows it; that at the beginning is in none.
TokensOf(line) ==
  LET begins == SetToSortSeq({k \in DOMAIN line : ~IsSpace(line[k]) /\ (k = 1 \/ IsSpace(line[k - 1]))}, <)
  IN  [j \in DOMAIN begins |->
         SubSeq(line, begins[j], IF j = Len(begins) THEN Len(line) ELSE begins[j + 1] - 1)]

Reset == [is |-> "sgr", of |-> <<>>, at |-> 0]

\* Faulty variant of Prefix: the colors of the token before are not reset.
PrefixOnly(state) == CodesOf(state)

\* Each of several tokens begins with the color that it has in its line.
Prefix(state) == <<Reset>> \o CodesOf(state)

\* What --with-nth shows of a line: its tokens in an order
ColoredToken(tokens, start, j) ==
  IF Len(tokens) > 1
  THEN Prefix(ExtractColor(FlattenSeq(SubSeq(tokens, 1, j - 1)), start).st) \o tokens[j] ELSE tokens[j]
Transformed(tokens, start, order) == FlattenSeq([i \in DOMAIN order |-> ColoredToken(tokens, start, order[i])])

\* TrimTrailingWhitespaces: white space at the end is not shown, but for those with a background.
Kept(line, offsets) ==
  LET texts == SelectSeq(line, LAMBDA p : p.is \in {"text", "newline"})
  IN  Max({0} \cup {k \in DOMAIN texts : ~IsSpace(texts[k])}
              \cup {offsets[k].e : k \in {k \in DOMAIN offsets : offsets[k].color.bg >= 0}})
----------------------------------------------------------------------------
Visible(st) == [st EXCEPT !.lbg = -1]

\* The color that the codes of a line give to its k-th piece
ColorOf(line, k, start) == Visible(FoldLeft(LAMBDA st, p : InterpretCode(p, st), start, SubSeq(line, 1, k - 1)))

(* Lines are read, all of them as they are or all of them through transformItem. *)

InitAnsi ==
  \E set \in Pieces, nth \in BOOLEAN :
    ansi = [on |-> TRUE, pieces |-> set, nth |-> nth, n |-> 0, line |-> <<>>, before |-> Plain, raw |-> Plain,
            state |-> Plain, prev |-> Plain, shown |-> <<>>]

\* A piece of the line; at is its place, to recognize it in what is shown
AddPiece ==
  /\ ansi.n < MaxPieces
  /\ \E p \in ansi.pieces :
       ansi' = [ansi EXCEPT !.n = @ + 1, !.line = Append(@, [is |-> p.is, of |-> p.of, at |-> Len(ansi.line) + 1]), !.shown = <<>>]

\* A line is shown with the tokens in the order (or as it was read), whose colors begin with start.
Color(line, start) == ColorOf(line, Len(line) + 1, start)
Show(line, order, start, x) ==
  /\ ansi.line # <<>>
  /\ ansi' = [ansi EXCEPT !.line = <<>>, !.before = Color(line, @), !.raw = Color(ansi.line, @),
                          !.state = x.st, !.prev = ansi.state,
                          !.shown = <<[read |-> ansi.line, raw |-> ansi.raw, line |-> line, before |-> ansi.before,
                                       order |-> order, start |-> start, last |-> ansi.state,
                                       offsets |-> x.offsets, kept |-> Kept(line, x.offsets)]>>]
Process(line, order, start) == Show(line, order, start, AnsiProcessor(line, ansi.state))
ReadLine == ~ansi.nth /\ Process(ansi.line, <<>>, ansi.state)

\* A field may be shown twice, and one that the line does not have is not shown.
TransformItem ==
  LET tokens == TokensOf(ansi.line)
      start == IF Len(tokens) > 1 THEN ansi.prev ELSE ansi.state
  IN  /\ ansi.nth
      /\ \E n \in 0 .. MaxShown : \E order \in [1 .. n -> DOMAIN tokens] :
           Process(Transformed(tokens, start, order), order, start)

NextAnsi == ansi.on /\ (AddPiece \/ ReadLine \/ TransformItem)
----------------------------------------------------------------------------
(* What the regular expression in the comment of nextAnsiEscapeSequence matches, as the string of  *)
(* Go that it is in ansi_test.go: there [\\[()] is the set of [ ( and ).                           *)

Sequence(w, begin) ==
  /\ Len(w) > 2 /\ w[1] = "ESC" /\ w[2] \in begin /\ Last(w) \in Finals
  /\ \A k \in 3 .. Len(w) - 1 : w[k] \in Parameter
Command(w, unprintable) ==
  \E sep \in 4 .. Len(w) : \E end \in sep + 2 .. Len(w) :
    /\ w[1] = "ESC" /\ w[2] = "]" /\ \A k \in 3 .. sep - 1 : w[k] \in Numeric
    /\ w[sep] \in {";", ":"} /\ w[sep + 1] \notin ControlBytes
    /\ \A k \in sep + 2 .. end - 1 : w[k] \notin unprintable
    /\ SubSeq(w, end, Len(w)) \in {<<"BEL">>, <<"ESC", "\\">>}
Single(w) ==
  \/ w \in {<<"SO">>, <<"NL">>}
  \/ Len(w) = 2 /\ w[1] = "ESC" /\ w[2] # "NL"
  \/ Len(w) = 2 /\ w[1] # "NL" /\ w[2] = "BS"

\* The leftmost match, the alternatives in their order
Regex(s) ==
  LET matches(i, Alt(_)) == {e \in i .. Len(s) : Alt(SubSeq(s, i, e))}
      at(i) == LET all == <<matches(i, LAMBDA w : Sequence(w, {"[", "(", ")"})),
                            matches(i, LAMBDA w : Command(w, ControlBytes)), matches(i, Single)>>
               IN  SelectSeq(all, LAMBDA found : found # {})
      starts == {i \in DOMAIN s : at(i) # <<>>}
  IN  IF starts = {} THEN NoEscape ELSE <<Min(starts) - 1, Min(Head(at(Min(starts))))>>

\* What only the scanner takes for one code: ESC \ with what would follow ESC [, a command with
\* anything in it that is not printable, and ESC ] 8 ; ; ESC, where a link ends
EndOfTitle(w) == w = <<"ESC", "]", "8", ";", ";", "ESC">>
Loose(s) ==
  \E i \in DOMAIN s : \E e \in i .. Len(s) :
    LET w == SubSeq(s, i, e)
    IN  \/ Sequence(w, {"\\"}) \/ EndOfTitle(w)
        \/ Command(w, {"BEL", "ESC"}) /\ ~Command(w, ControlBytes)

\* The scanner of the program and the regular expression it replaced find the same codes in all bytes
\* that have none of these three.
EscapesLikeRegex == bytes.on => Loose(bytes.s) \/ NextAnsiEscapeSequence(bytes.s) = Regex(bytes.s)

\* What the comment says: "is equivalent to calling FindStringIndex() on the below regex" (ansi.go:187).
\* It does not hold.
EscapesMatchRegex == bytes.on => NextAnsiEscapeSequence(bytes.s) = Regex(bytes.s)
----------------------------------------------------------------------------
\* The place of a piece in the text, and the color that the offsets give to it
Place(line, k) == Cardinality({j \in 1 .. k - 1 : line[j].is \in {"text", "newline"}})
Covering(offsets, i) == {j \in DOMAIN offsets : offsets[j].b <= i /\ i < offsets[j].e}
ColorAt(offsets, i) ==
  LET js == Covering(offsets, i) IN IF js = {} THEN Plain ELSE Visible(offsets[CHOOSE j \in js : TRUE].color)
Texts(line) == {k \in DOMAIN line : line[k].is = "text"}

\* A line that ends in a code that changes nothing, ESC [ K without background or the same color once
\* more, loses the color of its last part: its offset is closed only by a new state or by more text
\* ("if len(rest) > 0", ansi.go:358).
EndsInIdleCode(s) ==
  s.line # <<>> /\
  LET end == Last(s.line)
      st == FoldLeft(Extract, [n |-> 0, st |-> s.last, offsets |-> <<Offset(0, Plain)>>], Front(s.line)).st
  IN  end.is \in {"sgr", "erase", "link", "other"} /\ SameState(end, st, InterpretCode(end, st))

\* Where a line of the text ends whose last ESC [ K fills it with a background
Filled(line, start) ==
  LET ends == {k \in DOMAIN line : line[k].is = "newline" \/ k = Len(line)}
      fills(e) == LET erases == {k \in 1 .. e : line[k].is = "erase" /\ \A j \in k .. e - 1 : line[j].is # "newline"}
                  IN  erases # {} /\ ColorOf(line, Max(erases), start).bg >= 0
  IN  {Place(line, e + 1) : e \in {e \in ends : fills(e)}}

\* Each character has the color that the codes before it say, also those of the lines before; no two
\* parts overlap; and exactly the lines that are to be filled with a background are marked so.
ColorsExact ==
  ansi.on => \A i \in DOMAIN ansi.shown : LET s == ansi.shown[i] IN
    EndsInIdleCode(s) \/
      /\ \A k \in Texts(s.line) :
           /\ ColorAt(s.offsets, Place(s.line, k)) = ColorOf(s.line, k, s.before)
           /\ Cardinality(Covering(s.offsets, Place(s.line, k))) <= 1
      /\ {s.offsets[j].b : j \in {j \in DOMAIN s.offsets : s.offsets[j].full}} = Filled(s.line, s.last)

\* The only token of a line gets no prefix: shown twice it begins in the color it ends in.
OneTokenTwice(s) == Len(TokensOf(s.read)) = 1 /\ Len(s.order) > 1

\* transformItem begins with another color than the lines before end in: that of before the last of
\* them if the line has several tokens, and else that of its last token in the order shown.
BeginsStale(s) == [Visible(s.start) EXCEPT !.url = ""] # [s.raw EXCEPT !.url = ""]

\* The tokens shown have the colors they have in the line that was read, from a color on (but for links,
\* which ESC [ m does not end), and spaces with a background are not trimmed.
KeepsColors(s, color) ==
  \A k \in Texts(s.line) :
    LET wanted == ColorOf(s.read, s.line[k].at, color) IN
    /\ [ColorAt(s.offsets, Place(s.line, k)) EXCEPT !.url = wanted.url] = wanted
    /\ wanted.bg >= 0 => Place(s.line, k) < s.kept

\* A token that --with-nth puts anywhere keeps the color that it has in what was read, in each line that
\* begins in the color that the lines before end in.
TokensKeepColors ==
  ansi.on => \A i \in DOMAIN ansi.shown : LET s == ansi.shown[i] IN
    EndsInIdleCode(s) \/ OneTokenTwice(s) \/ BeginsStale(s) \/ KeepsColors(s, s.raw)

\* What the comment says: "It handles ANSI token propagation using prevLineAnsiState for cross-line
\* continuity" (core.go:120), so that a line goes on in the color that the one before it has ended in
\* (lineAnsiState).  It does not hold.
LinesKeepColors ==
  ansi.on => \A i \in DOMAIN ansi.shown : LET s == ansi.shown[i] IN
    EndsInIdleCode(s) \/ OneTokenTwice(s) \/ KeepsColors(s, s.last)
=============================================================================
