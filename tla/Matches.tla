------------------------------- MODULE Matches -------------------------------
(***************************************************************************)
(* The match algorithms of Algo against what a match is, over every text   *)
(* and pattern of a few characters.  Both grow a character at a time, the  *)
(* pattern as it is typed.                                                 *)
(***************************************************************************)
EXTENDS Algo, FiniteSets

CONSTANTS
  Options,          \* the option records o that are tried
  TextChars,        \* the characters of a text, and bounds on its length and the pattern's
  MaxText, MaxPattern

VARIABLES
  probe             \* [on, text, pattern, o]

\* A pattern is in lower case unless case matters, and without letters to normalize if they are.
PatternChars(o) == {c \in TextChars : (o.case \/ Lower(c) = c) /\ (o.norm => NormalizeRune(c) = c)}

InitProbe == probe \in {[on |-> TRUE, text |-> <<>>, pattern |-> <<>>, o |-> o] : o \in Options}
Read ==
  /\ probe.on /\ probe.pattern = <<>> /\ Len(probe.text) < MaxText
  /\ \E c \in TextChars : probe' = [probe EXCEPT !.text = Append(@, c)]
Type ==
  /\ probe.on /\ Len(probe.pattern) < MaxPattern
  /\ \E c \in PatternChars(probe.o) : probe' = [probe EXCEPT !.pattern = Append(@, c)]
NextProbe == Read \/ Type
----------------------------------------------------------------------------
(* What a match is *)

FoldedText == [i \in DOMAIN probe.text |-> Folded(probe.text[i], probe.o)]
Fits(pos) == \A k \in DOMAIN pos : FoldedText[pos[k] + 1] = probe.pattern[k]

\* The ways to find the characters of the pattern in order within text[from:to]
Embeddings(from, to) ==
  {pos \in [DOMAIN probe.pattern -> from .. to - 1] :
     Fits(pos) /\ \A k \in DOMAIN pos : k > 1 => pos[k - 1] < pos[k]}
Embeds(from, to) == Embeddings(from, to) # {}

\* Where the pattern is in the text as it stands: anywhere, at the begin, and at the end.  Spaces at
\* an end of the text do not count, unless the pattern has one at its own.
Occurrences == {i \in 0 .. Len(probe.text) : Occurs(probe.text, probe.pattern, i, probe.o)}
OnlySpaces(S) == \A i \in S : IsSpace(At(probe.text, i))
Beginnings ==
  {i \in Occurrences : IF IsSpace(probe.pattern[1]) THEN i = 0 ELSE OnlySpaces(0 .. i - 1)}
Endings ==
  {i \in Occurrences : LET e == i + Len(probe.pattern) IN
     IF IsSpace(probe.pattern[Len(probe.pattern)]) THEN e = Len(probe.text)
     ELSE OnlySpaces(e .. Len(probe.text) - 1)}
OneOf(S) == IF S = {} THEN {-1} ELSE S

\* A match is found if there is one, it is one, and V1 finds one that cannot be shortened.  Here the
\* prefilter, that knows no normalization, must not drop an item ("a superset", chars.go:37).
MatchSound ==
  probe.on /\ probe.pattern # <<>> =>
    LET n == Len(probe.text)
        p == probe.pattern
    IN  /\ \E v1 \in {FuzzyMatchV1(probe.text, p, probe.o)} : \E v2 \in {FuzzyMatchV2(probe.text, p, probe.o)} :
           IF Embeds(0, n)
           THEN /\ v2.pos \in Embeddings(0, n) /\ v2.start = v2.pos[1] /\ v2.end = v2.pos[Len(p)] + 1
                /\ Embeds(v1.start, v1.end) /\ ~Embeds(v1.start + 1, v1.end) /\ ~Embeds(v1.start, v1.end - 1)
                /\ IF probe.o.forward THEN ~Embeds(0, v1.end - 1) ELSE ~Embeds(v1.start + 1, n)
           ELSE v1 = NoMatch /\ v2 = NoMatch
        /\ ExactMatchNaive(probe.text, p, probe.o).start \in OneOf(Occurrences)
        /\ PrefixMatch(probe.text, p, probe.o).start \in OneOf(Beginnings)
        /\ SuffixMatch(probe.text, p, probe.o).start \in OneOf(Endings)
        /\ EqualMatch(probe.text, p, probe.o).start \in OneOf(Beginnings \cap Endings)

\* The fast paths of FuzzyMatchV2, for one character, for two, and of the prefilter that cuts the
\* text to where a match can be, give what the general algorithm gives on the whole text: the same
\* place, positions and score ("Equivalence tests for the single- and two-character fast paths
\* against the general FuzzyMatchV2 algorithm", fastpath_equiv_test.go:3, does so for ASCII).
FastPathsAgree ==
  probe.on /\ probe.pattern # <<>> =>
    FuzzyMatchV2(probe.text, probe.pattern, probe.o)
      = GeneralMatch(probe.text, probe.pattern, 0, Len(probe.text), probe.o)
=============================================================================
