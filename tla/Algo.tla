-------------------------------- MODULE Algo --------------------------------
(***************************************************************************)
(* The match algorithms of fzf (algo/algo.go) on short texts.              *)
(*                                                                         *)
(* A text or a pattern is a sequence of characters of a small alphabet     *)
(* that has a member of every character class, letters in both cases, and  *)
(* the non-ASCII letters "aacute" and "Aacute" (an a and an A with an      *)
(* acute accent), which normalize to "a" and "A".                          *)
(* Positions count from 0, as in the code.  A result is [start, end,       *)
(* score], start = -1 if there is no match, and a match has its positions  *)
(* in pos.  The scores are far below 2^15 here: the code limits a pattern  *)
(* of its score matrix to 1000 characters.                                 *)
(*                                                                         *)
(* An option record o: [case |-> case-sensitive, norm |-> normalize,       *)
(* forward, scheme].                                                       *)
(***************************************************************************)
EXTENDS Integers, Sequences

ScoreMatch == 16
ScoreGapStart == -3
ScoreGapExtension == -1
BonusBoundary == ScoreMatch \div 2
BonusNonWord == ScoreMatch \div 2
BonusCamel123 == BonusBoundary + ScoreGapExtension
BonusConsecutive == -(ScoreGapStart + ScoreGapExtension)
BonusFirstCharMultiplier == 2

MaxOf(a, b) == IF a > b THEN a ELSE b
At(s, i) == s[i + 1]                                \* s[i] of the code
Cut(s, from, to) == SubSeq(s, from + 1, to)         \* s[from:to]
----------------------------------------------------------------------------
(* Characters *)

Lower(c) == CASE c = "A" -> "a" [] c = "B" -> "b" [] c = "Aacute" -> "aacute" [] OTHER -> c
NormalizeRune(c) == CASE c = "aacute" -> "a" [] c = "Aacute" -> "A" [] OTHER -> c
IsAscii(c) == c \notin {"aacute", "Aacute"}
IsSpace(c) == c = " "
Ascii(s) == \A i \in DOMAIN s : IsAscii(s[i])

\* util.Chars keeps a text as bytes if all of it is ASCII (IsBytes)
IsBytes(text) == Ascii(text)

White == 0
NonWord == 1
Delim == 2
LowerCase == 3
UpperCase == 4
Letter == 5
Number == 6
CharClassOf(c) ==
  CASE c = " " -> White
    [] c = "/" -> Delim
    [] c \in {"a", "b", "aacute"} -> LowerCase
    [] c \in {"A", "B", "Aacute"} -> UpperCase
    [] c = "1" -> Number
    [] OTHER -> NonWord

\* What every algorithm compares with the pattern
Folded(c, o) ==
  LET l == IF o.case THEN c ELSE Lower(c) IN IF o.norm THEN NormalizeRune(l) ELSE l

\* Init: the bonus points of a scheme
BoundaryWhite(o) == IF o.scheme = "default" THEN BonusBoundary + 2 ELSE BonusBoundary
BoundaryDelimiter(o) == IF o.scheme = "history" THEN BonusBoundary ELSE BonusBoundary + 1
InitialCharClass(o) == IF o.scheme = "path" THEN Delim ELSE White

BonusFor(prev, class, o) ==
  IF class >= NonWord /\ prev = White THEN BoundaryWhite(o)
  ELSE IF class >= NonWord /\ prev = Delim THEN BoundaryDelimiter(o)
  ELSE IF class >= NonWord /\ prev = NonWord THEN BonusBoundary
  ELSE IF (prev = LowerCase /\ class = UpperCase) \/ (prev # Number /\ class = Number) THEN BonusCamel123
  ELSE IF class \in {NonWord, Delim} THEN BonusNonWord
  ELSE IF class = White THEN BoundaryWhite(o)
  ELSE 0

BonusAt(text, i, o) ==
  IF i = 0 THEN BoundaryWhite(o)
  ELSE BonusFor(CharClassOf(At(text, i - 1)), CharClassOf(At(text, i)), o)

\* The bonus of the character at i, for an algorithm that starts to read at `from`
BonusFrom(text, i, from, o) ==
  BonusFor(IF i = from THEN InitialCharClass(o) ELSE CharClassOf(At(text, i - 1)), CharClassOf(At(text, i)), o)

NoMatch == [start |-> -1, end |-> -1, score |-> 0, pos |-> <<>>]
EmptyMatch == [start |-> 0, end |-> 0, score |-> 0, pos |-> <<>>]
----------------------------------------------------------------------------
(* Prefilter: the part of the text that can hold a match *)

\* Faulty variant of RunePrefilterable: letters that normalize to ASCII are forgotten.
RunePrefilterableCase(text, pattern, o) == o.case \/ Ascii(pattern)

\* runePrefilterable: the scan sees neither case folding nor normalization of non-ASCII runes
RunePrefilterable(text, pattern, o) ==
  /\ \A i \in DOMAIN text : (NormalizeRune(text[i]) # text[i]) =>
       \A j \in DOMAIN pattern : ~IsAscii(pattern[j])
  /\ o.case \/ Ascii(pattern)     \* both non-ASCII letters of the alphabet have a case

\* indexAsciiRune, indexRune, trySkip: the next place, from i on, of a pattern character
Finds(c, p, o) == c = p \/ (~o.case /\ p \in {"a", "b"} /\ IsAscii(c) /\ Lower(c) = p)
IndexFrom(text, p, i, o) ==
  LET at == {j \in i .. Len(text) - 1 : Finds(At(text, j), p, o)} IN
  IF at = {} THEN -1 ELSE CHOOSE j \in at : \A k \in at : j <= k
LastIndexOf(text, p, from, o) ==
  LET at == {j \in from .. Len(text) - 1 : Finds(At(text, j), p, o)} IN
  IF at = {} THEN from - 1 ELSE CHOOSE j \in at : \A k \in at : k <= j

\* Faulty variant of StepBack: the scope begins at the first character itself.
StepBackNot(i) == i

\* "Step back to find the right bonus point"
StepBack(i) == MaxOf(i - 1, 0)

\* The places of the characters of the pattern, found one after the other; -1 ends them
Places(text, pattern, o) ==
  LET found[k \in 0 .. Len(pattern)] ==
        IF k = 0 THEN <<>>
        ELSE LET so == found[k - 1] IN
             IF so # <<>> /\ so[Len(so)] = -1 THEN so
             ELSE Append(so, IndexFrom(text, pattern[k], IF so = <<>> THEN 0 ELSE so[Len(so)] + 1, o))
  IN  found[Len(pattern)]
Around(text, pattern, at, o) ==
  IF at[Len(at)] = -1 THEN [from |-> -1, to |-> -1]
  ELSE [from |-> StepBack(at[1]),
        to |-> LastIndexOf(text, pattern[Len(pattern)], at[Len(at)] + 1, o) + 1]

\* runeFuzzyIndex, and the rest of asciiFuzzyIndex
Scope(text, pattern, o) == Around(text, pattern, Places(text, pattern, o), o)

\* asciiFuzzyIndex
AsciiFuzzyIndex(text, pattern, o) ==
  IF IsBytes(text)
  THEN IF Ascii(pattern) THEN Scope(text, pattern, o) ELSE [from |-> -1, to |-> -1]
  ELSE IF RunePrefilterable(text, pattern, o) THEN Scope(text, pattern, o)
  ELSE [from |-> 0, to |-> Len(text)]
----------------------------------------------------------------------------
(* FuzzyMatchV2 *)

Better(score, best, o) == score > best \/ (~o.forward /\ score >= best)

\* A place of a pattern of one character: the first with a boundary ends the search.
Nowhere == [at |-> -1, score |-> 0, stop |-> FALSE]
BetterPlace(so, i, bonus, o) ==
  LET score == ScoreMatch + BonusFirstCharMultiplier * bonus
  IN  IF so.stop \/ ~Better(score, so.score, o) THEN so
      ELSE [at |-> i, score |-> score, stop |-> o.forward /\ bonus >= BonusBoundary]
MatchAt(b) ==
  IF b.at < 0 THEN NoMatch
  ELSE [start |-> b.at, end |-> b.at + 1, score |-> b.score, pos |-> <<b.at>>]

\* The best of the places
BestOf(text, p, from, to, o) ==
  LET best[n \in from .. to] ==
        IF n = from THEN Nowhere
        ELSE IF Folded(At(text, n - 1), o) # p THEN best[n - 1]
        ELSE BetterPlace(best[n - 1], n - 1, BonusFrom(text, n - 1, from, o), o)
  IN  MatchAt(best[to])

\* fuzzyMatchV2Single: ASCII only, from place to place of the character
FuzzyMatchV2Single(text, p, o) ==
  LET best[n \in 0 .. Len(text)] ==
        IF n = 0 THEN Nowhere
        ELSE IF ~Finds(At(text, n - 1), p, o) THEN best[n - 1]
        ELSE BetterPlace(best[n - 1], n - 1, BonusFrom(text, n - 1, 0, o), o)
  IN  MatchAt(best[Len(text)])

\* Phase 2, row 0: a cell is [h, c], score and length of the run it ends
FirstRow(T, B, p, o) ==
  LET row[n \in 0 .. Len(T)] ==
        IF n = 0 THEN <<>>
        ELSE LET so == row[n - 1]
                 prev == IF n = 1 THEN 0 ELSE so[n - 1].h
                 gap == IF n > 1 /\ T[n - 1] # p THEN ScoreGapExtension ELSE ScoreGapStart
             IN  Append(so, IF T[n] = p THEN [h |-> ScoreMatch + BonusFirstCharMultiplier * B[n], c |-> 1]
                            ELSE [h |-> MaxOf(prev + gap, 0), c |-> 0])
  IN  row[Len(T)]

\* A cell of the matrix that was not written: the slab still has another item's data there.
Stale == [h |-> 1000, c |-> 1000, gap |-> FALSE]

\* Length and bonus of the run that the character at n extends
Run(B, n, length) ==
  IF length = 1 THEN [c |-> 1, b |-> B[n]]
  ELSE LET first == B[n - length + 1] IN
       IF B[n] >= BonusBoundary /\ B[n] > first THEN [c |-> 1, b |-> B[n]]
       ELSE [c |-> length, b |-> MaxOf(B[n], MaxOf(BonusConsecutive, first))]

\* A cell of phase 3, from the one to the left and the one above that
CellOf(hit, bonus, run, diag, s2) ==
  LET breaks == diag.h + ScoreMatch + run.b < s2
      s1 == IF ~hit THEN 0 ELSE diag.h + ScoreMatch + (IF breaks THEN bonus ELSE run.b)
  IN  [h |-> MaxOf(s1, MaxOf(s2, 0)), c |-> IF hit /\ ~breaks THEN run.c ELSE 0, gap |-> s1 < s2]
Cell(T, B, p, n, left, diag) ==
  CellOf(T[n] = p, B[n], Run(B, n, diag.c + 1), diag,
         left.h + (IF left.gap THEN ScoreGapExtension ELSE ScoreGapStart))

\* Phase 3: the row of p, from column f to column `last`, below the row `above`
NextRow(T, B, p, f, last, above) ==
  LET row[n \in 0 .. Len(T)] ==
        IF n = 0 THEN <<>>
        ELSE LET so == row[n - 1]
                 left == IF n = f THEN [h |-> 0, gap |-> FALSE] ELSE so[n - 1]
             IN  Append(so, IF n < f \/ n > last THEN Stale ELSE Cell(T, B, p, n, left, above[n - 1]))
  IN  row[Len(T)]

\* Phase 4: a step back from column j of row i; F[i] is where row i starts
StepBehind(H, F, last, so, i, j) ==
  LET s == H[i][j].h
      s1 == IF i > 1 /\ j >= F[i] THEN H[i - 1][j - 1].h ELSE 0
      s2 == IF j > F[i] THEN H[i][j - 1].h ELSE 0
      take == s > s1 /\ (s > s2 \/ (s = s2 /\ so.prefer))
  IN  IF so.done THEN so
      ELSE IF take /\ i = 1 THEN [so EXCEPT !.pos = <<j>> \o @, !.done = TRUE]
      ELSE [i |-> IF take THEN i - 1 ELSE i,
            j |-> j - 1,
            prefer |-> H[i][j].c > 1
                         \/ (i < Len(H) /\ j < last /\ j + 1 >= F[i + 1] /\ H[i + 1][j + 1].c > 0),
            pos |-> IF take THEN <<j>> \o so.pos ELSE so.pos,
            done |-> FALSE]

\* Phase 4: the positions of the best match, found from its end
Backtrace(H, F, maxPos, last) ==
  LET back[n \in 0 .. maxPos] ==
        IF n = 0 THEN [i |-> Len(H), j |-> maxPos, prefer |-> TRUE, pos |-> <<>>, done |-> FALSE]
        ELSE LET so == back[n - 1] IN StepBehind(H, F, last, so, so.i, so.j)
  IN  back[maxPos]

\* The end of a match: the best score of the last row
BestEnd(row, f, last, o) ==
  LET best[n \in f - 1 .. last] ==
        IF n = f - 1 THEN [at |-> 1, score |-> 0]
        ELSE LET so == best[n - 1] IN
             IF Better(row[n].h, so.score, o) THEN [at |-> n, score |-> row[n].h] ELSE so
  IN  best[last]

Traced(trace, from, end, score) ==
  [start |-> from + trace.j - 1, end |-> from + end, score |-> score,
   pos |-> [i \in DOMAIN trace.pos |-> from + trace.pos[i] - 1]]

\* Phase 2, F: the first occurrence of each character
Firsts(T, pattern) ==
  LET firsts[n \in 0 .. Len(T)] ==
        IF n = 0 THEN <<>>
        ELSE LET so == firsts[n - 1] IN
             IF Len(so) < Len(pattern) /\ T[n] = pattern[Len(so) + 1] THEN Append(so, n) ELSE so
  IN  firsts[Len(T)]
LastPlace(T, p) == CHOOSE n \in DOMAIN T : T[n] = p /\ \A k \in n + 1 .. Len(T) : T[k] # p

\* H, row by row
Rows(T, B, F, pattern, last, o) ==
  LET rows[i \in DOMAIN pattern] ==
        IF i = 1 THEN <<FirstRow(T, B, pattern[1], o)>>
        ELSE LET so == rows[i - 1] IN Append(so, NextRow(T, B, pattern[i], F[i], last, so[i - 1]))
  IN  rows[Len(pattern)]
TracedFrom(H, F, from, last, best) == Traced(Backtrace(H, F, best.at, last), from, best.at, best.score)
BestTrace(H, F, from, last, o) == TracedFrom(H, F, from, last, BestEnd(H[Len(H)], F[Len(H)], last, o))

\* Phases 2 to 4 on the part of the text in scope: T are its characters, B their bonus points
GeneralIn(text, T, B, F, pattern, from, o) ==
  LET last == LastPlace(T, pattern[Len(pattern)])
  IN  IF Len(F) < Len(pattern) THEN NoMatch
      ELSE IF Len(pattern) = 1 THEN BestOf(text, pattern[1], from, from + Len(T), o)
      ELSE BestTrace(Rows(T, B, F, pattern, last, o), F, from, last, o)
GeneralFrom(text, T, pattern, from, o) ==
  GeneralIn(text, T, [n \in DOMAIN T |-> BonusFrom(text, from + n - 1, from, o)], Firsts(T, pattern),
            pattern, from, o)
GeneralMatch(text, pattern, from, to, o) ==
  GeneralFrom(text, [n \in 1 .. to - from |-> Folded(At(text, from + n - 1), o)], pattern, from, o)

\* fuzzyMatchV2Two: two characters, ASCII only, both rows in one pass.  What is kept of the place
\* before: h0, c0, gap0 of the first row, h1, gap1 of the second, and the bonus b.
NoPlace == [f0 |-> -1, f1 |-> -1, h0 |-> 0, c0 |-> 0, b |-> 0, gap0 |-> FALSE, h1 |-> 0, gap1 |-> FALSE,
            max |-> 0, at |-> 0, H |-> <<<<>>, <<>>>>]

\* The cell of the second row; s2 is the score of a gap
SecondOf(so, hit, bonus, s2) ==
  LET newRun == so.c0 = 0 \/ (bonus >= BonusBoundary /\ bonus > so.b)
      bb == IF newRun THEN bonus ELSE MaxOf(bonus, MaxOf(BonusConsecutive, so.b))
      breaks == so.h0 + ScoreMatch + bb < s2
      s1 == IF ~hit THEN 0 ELSE so.h0 + ScoreMatch + (IF breaks THEN bonus ELSE bb)
  IN  [h |-> MaxOf(s1, MaxOf(s2, 0)), c |-> IF ~hit \/ breaks THEN 0 ELSE IF newRun THEN 1 ELSE 2,
       gap |-> s1 < s2]
Second(so, hit, bonus, begins) ==
  SecondOf(so, hit, bonus, (IF begins THEN 0 ELSE so.h1) + (IF so.gap1 THEN ScoreGapExtension ELSE ScoreGapStart))

\* The second row: it begins at f1, the first p1 behind the first p0.
WithSecond(so, off, f1, cell, o) ==
  IF f1 < 0 THEN [so EXCEPT !.H[2] = Append(@, Stale)]
  ELSE [so EXCEPT !.f1 = f1, !.h1 = cell.h, !.gap1 = cell.gap,
                  !.max = IF Better(cell.h, so.max, o) THEN cell.h ELSE @,
                  !.at = IF Better(cell.h, so.max, o) THEN off ELSE @,
                  !.H[2] = Append(@, [h |-> cell.h, c |-> cell.c])]
SecondRow(so, off, f1, c, bonus, p1, o) == WithSecond(so, off, f1, Second(so, c = p1, bonus, off = f1), o)

\* The first row
WithFirst(so, off, h0, hit, bonus) ==
  [so EXCEPT !.f0 = IF @ < 0 /\ hit THEN off ELSE @, !.h0 = h0, !.c0 = IF hit THEN 1 ELSE 0,
             !.gap0 = ~hit, !.b = bonus, !.H[1] = Append(@, [h |-> h0, c |-> IF hit THEN 1 ELSE 0])]

TwoAt(so, off, c, bonus, pattern, o) ==
  WithFirst(SecondRow(so, off, IF so.f0 >= 0 /\ c = pattern[2] /\ so.f1 < 0 THEN off ELSE so.f1,
                      c, bonus, pattern[2], o),
            off,
            IF c = pattern[1] THEN ScoreMatch + BonusFirstCharMultiplier * bonus
            ELSE MaxOf(so.h0 + (IF so.gap0 THEN ScoreGapExtension ELSE ScoreGapStart), 0),
            c = pattern[1], bonus)
TwoFrom(r, from, to) ==
  IF r.f1 < 0 THEN NoMatch
  ELSE Traced(Backtrace(r.H, <<r.f0 + 1, r.f1 + 1>>, r.at + 1, to - from), from, r.at + 1, r.max)
FuzzyMatchV2Two(text, pattern, from, to, o) ==
  LET pass[n \in 0 .. to - from] ==
        IF n = 0 THEN NoPlace
        ELSE TwoAt(pass[n - 1], n - 1, Folded(At(text, from + n - 1), o),
                   BonusFrom(text, from + n - 1, from, o), pattern, o)
  IN  TwoFrom(pass[to - from], from, to)

FuzzyIn(text, pattern, scope, o) ==
  IF scope.from < 0 THEN NoMatch
  ELSE IF Len(pattern) = 2 /\ IsBytes(text) /\ Ascii(pattern)
  THEN FuzzyMatchV2Two(text, pattern, scope.from, scope.to, o)
  ELSE GeneralMatch(text, pattern, scope.from, scope.to, o)
FuzzyMatchV2(text, pattern, o) ==
  IF pattern = <<>> THEN EmptyMatch
  ELSE IF Len(pattern) > Len(text) THEN NoMatch
  ELSE IF Len(pattern) = 1 /\ IsBytes(text) /\ Ascii(pattern) THEN FuzzyMatchV2Single(text, pattern[1], o)
  ELSE FuzzyIn(text, pattern, AsciiFuzzyIndex(text, pattern, o), o)
----------------------------------------------------------------------------
(* FuzzyMatchV1, the greedy algorithm *)

\* A character c of a match: the next of the pattern or a gap
Scored(so, c, pattern, bonus) ==
  LET fb == IF so.run = 0 \/ (bonus >= BonusBoundary /\ bonus > so.bonus) THEN bonus ELSE so.bonus
      b == IF so.run = 0 THEN bonus ELSE MaxOf(bonus, MaxOf(fb, BonusConsecutive))
  IN  IF so.k < Len(pattern) /\ c = pattern[so.k + 1]
      THEN [k |-> so.k + 1, gap |-> FALSE, run |-> so.run + 1, bonus |-> fb,
            score |-> so.score + ScoreMatch + (IF so.k = 0 THEN BonusFirstCharMultiplier * b ELSE b)]
      ELSE [k |-> so.k, gap |-> TRUE, run |-> 0, bonus |-> 0,
            score |-> so.score + (IF so.gap THEN ScoreGapExtension ELSE ScoreGapStart)]

\* calculateScore of text[sidx:eidx]
CalculateScore(text, pattern, sidx, eidx, o) ==
  LET sum[n \in sidx .. eidx] ==
        IF n = sidx THEN [k |-> 0, score |-> 0, gap |-> FALSE, run |-> 0, bonus |-> 0]
        ELSE Scored(sum[n - 1], Folded(At(text, n - 1), o), pattern,
                    BonusFrom(text, n - 1, IF sidx = 0 THEN 0 ELSE -1, o))
  IN  sum[eidx].score

Reversed(s) == [i \in DOMAIN s |-> s[Len(s) + 1 - i]]

\* The first end of a match, and from there back the last start of one: <<sidx, eidx>>, eidx = -1
\* if there is no match
FirstEnd(t, p) ==
  LET forth[n \in 0 .. Len(t)] ==
        IF n = 0 THEN [k |-> 0, e |-> -1]
        ELSE LET so == forth[n - 1] IN
             IF so.k < Len(p) /\ t[n] = p[so.k + 1]
             THEN [k |-> so.k + 1, e |-> IF so.k + 1 = Len(p) THEN n ELSE -1] ELSE so
  IN  forth[Len(t)].e
ShortestTo(t, p, e) ==
  LET back[n \in 0 .. MaxOf(e, 0)] ==
        IF n = 0 THEN [k |-> Len(p), s |-> -1]
        ELSE LET so == back[n - 1] IN
             IF so.k > 0 /\ t[e - n + 1] = p[so.k]
             THEN [k |-> so.k - 1, s |-> IF so.k = 1 THEN e - n ELSE -1] ELSE so
  IN  <<back[MaxOf(e, 0)].s, e>>
ShortestFrom(t, p) == ShortestTo(t, p, FirstEnd(t, p))

ScoredMatch(text, pattern, s, e, o) ==
  [start |-> s, end |-> e, score |-> CalculateScore(text, pattern, s, e, o), pos |-> <<>>]
GreedyIn(text, pattern, m, o) ==
  IF m[2] < 0 THEN NoMatch
  ELSE ScoredMatch(text, pattern, IF o.forward THEN m[1] ELSE Len(text) - m[2],
                   IF o.forward THEN m[2] ELSE Len(text) - m[1], o)
FuzzyMatchV1(text, pattern, o) ==
  LET t == [i \in DOMAIN text |-> Folded(text[i], o)]
  IN  IF pattern = <<>> THEN EmptyMatch
      ELSE IF AsciiFuzzyIndex(text, pattern, o).from < 0 THEN NoMatch
      ELSE GreedyIn(text, pattern, IF o.forward THEN ShortestFrom(t, pattern)
                                   ELSE ShortestFrom(Reversed(t), Reversed(pattern)), o)
----------------------------------------------------------------------------
(* Exact matches *)

Occurs(text, pattern, i, o) ==
  /\ i + Len(pattern) <= Len(text)
  /\ \A k \in DOMAIN pattern : Folded(At(text, i + k - 1), o) = pattern[k]

\* The boundary check of exactMatchNaive, for an occurrence at i
AtBoundary(text, pattern, i, o) ==
  LET e == i + Len(pattern)
      b == IF o.forward THEN BonusAt(text, i, o)
           ELSE IF e < Len(text) THEN BonusAt(text, e, o) ELSE BoundaryWhite(o)
  IN  /\ b >= BonusBoundary
      /\ i = 0 \/ CharClassOf(At(text, i - 1)) <= Delim
      /\ e = Len(text) \/ CharClassOf(At(text, e)) <= Delim

\* The occurrences, in the order the search meets them: after one it goes on behind its first
\* character.  The first with the best bonus is taken, and one at a boundary ends the search.
BestOccurrence(text, pattern, boundary, o) ==
  LET last == Len(text) - Len(pattern)
      Try(so, i, bonus) ==
        IF so.stop \/ ~Occurs(text, pattern, i, o)
             \/ (boundary /\ ~AtBoundary(text, pattern, i, o)) \/ bonus <= so.bonus THEN so
        ELSE [at |-> i, bonus |-> bonus, stop |-> bonus >= BonusBoundary]
      best[n \in 0 .. last + 1] ==
        IF n = 0 THEN [at |-> -1, bonus |-> -1, stop |-> FALSE]
        ELSE LET i == IF o.forward THEN n - 1 ELSE last - (n - 1)
             IN  Try(best[n - 1], i, BonusAt(text, i, o))
  IN  best[last + 1]

\* A match between underscores ranks lower
BoundaryScore(text, pattern, s, bonus, o) ==
  LET e == s + Len(pattern)
      before == s > 0 /\ At(text, s - 1) = "_"
      behind == e < Len(text) /\ At(text, e) = "_"
      deduct == bonus - BonusBoundary + 1
  IN  bonus - (IF before THEN deduct + 1 ELSE 0) - (IF ~behind THEN 0 ELSE IF before THEN 1 ELSE deduct)
        + ScoreMatch * Len(pattern) + BoundaryWhite(o) * (Len(pattern) + 1)

OccurrenceAt(text, pattern, boundary, b, o) ==
  IF b.at < 0 THEN NoMatch
  ELSE [start |-> b.at, end |-> b.at + Len(pattern), pos |-> <<>>,
        score |-> IF boundary THEN BoundaryScore(text, pattern, b.at, b.bonus, o)
                  ELSE CalculateScore(text, pattern, b.at, b.at + Len(pattern), o)]
ExactMatch(text, pattern, boundary, o) ==
  IF pattern = <<>> THEN EmptyMatch
  ELSE IF Len(text) < Len(pattern) \/ AsciiFuzzyIndex(text, pattern, o).from < 0 THEN NoMatch
  ELSE OccurrenceAt(text, pattern, boundary, BestOccurrence(text, pattern, boundary, o), o)
ExactMatchNaive(text, pattern, o) == ExactMatch(text, pattern, FALSE, o)
ExactMatchBoundary(text, pattern, o) == ExactMatch(text, pattern, TRUE, o)

\* Whitespace at the ends of the text is skipped, unless the pattern has it there.
Leading(text) == LET at == {i \in 0 .. Len(text) - 1 : ~IsSpace(At(text, i))} IN
                 IF at = {} THEN Len(text) ELSE CHOOSE i \in at : \A j \in at : i <= j
Trailing(text) == Leading(Reversed(text))
SkippedBefore(text, pattern) == IF IsSpace(pattern[1]) THEN 0 ELSE Leading(text)
SkippedBehind(text, pattern) ==
  IF pattern # <<>> /\ IsSpace(pattern[Len(pattern)]) THEN 0 ELSE Trailing(text)

Matched(text, pattern, s, o) ==
  IF s < 0 \/ ~Occurs(text, pattern, s, o) THEN NoMatch
  ELSE ScoredMatch(text, pattern, s, s + Len(pattern), o)

PrefixMatch(text, pattern, o) ==
  IF pattern = <<>> THEN EmptyMatch ELSE Matched(text, pattern, SkippedBefore(text, pattern), o)

SuffixMatch(text, pattern, o) ==
  LET e == Len(text) - SkippedBehind(text, pattern) IN
  IF pattern = <<>> THEN [EmptyMatch EXCEPT !.start = e, !.end = e]
  ELSE Matched(text, pattern, e - Len(pattern), o)

\* A pattern that is not normalized is, if the text is.
EqualMatch(text, pattern, o) ==
  LET s == SkippedBefore(text, pattern)
      p == IF o.norm THEN [i \in DOMAIN pattern |-> NormalizeRune(pattern[i])] ELSE pattern
  IN  IF pattern = <<>> THEN NoMatch
      ELSE IF Len(text) - s - SkippedBehind(text, pattern) # Len(pattern) \/ ~Occurs(text, p, s, o) THEN NoMatch
      ELSE [start |-> s, end |-> s + Len(pattern), pos |-> <<>>,
            score |-> (ScoreMatch + BoundaryWhite(o)) * Len(pattern)
                        + (BonusFirstCharMultiplier - 1) * BoundaryWhite(o)]
=============================================================================
