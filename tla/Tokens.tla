------------------------------- MODULE Tokens -------------------------------
(***************************************************************************)
(* Fields of an item (tokenizer.go): the text is cut into tokens at a      *)
(* delimiter, and --nth limits the search to some of them.  A token is     *)
(* [text, prefix], prefix being the number of characters before it.        *)
(*                                                                         *)
(* A delimiter is [kind, of]: "awk" (words with the whitespace behind      *)
(* them), "str" (one character) or "regex" (a run of characters `of`).     *)
(* A range of fields is [begin, end], counted from 1, or from the end if   *)
(* negative, 0 being an open end.                                          *)
(***************************************************************************)
EXTENDS Algo, FiniteSets
LOCAL INSTANCE SequencesExt

Ellipsis == 0

NewRange(b, e) ==
  [begin |-> IF b = 1 /\ e # 1 THEN Ellipsis ELSE b, end |-> IF e = -1 THEN Ellipsis ELSE e]

\* What --nth may give: N, N.., ..N, N..M and `..`; not a range from the end to the beginning
ParseRange(b, e, dots) ==
  IF ~dots THEN NewRange(b, b) ELSE NewRange(b, e)
Parses(b, e, dots) == IF dots THEN ~(b < 0 /\ e > 0) ELSE b # 0
Ranges(n) ==
  {ParseRange(r[1], r[2], r[3]) : r \in {x \in (-n .. n) \X (-n .. n) \X BOOLEAN : Parses(x[1], x[2], x[3])}}

\* The text cut where `begins` says; a piece ends where the next one begins.
Pieces(text, begins) ==
  LET at == SetToSortSeq(begins, <) IN
  [k \in DOMAIN at |-> Cut(text, at[k], IF k = Len(at) THEN Len(text) ELSE at[k + 1])]

\* Faulty variant of WithPrefixLengths: what is before the first token is not counted.
WithPrefixLengthsFromZero(pieces, begin) ==
  LET ends[k \in 0 .. Len(pieces)] == IF k = 0 THEN 0 ELSE ends[k - 1] + Len(pieces[k]) IN
  [k \in DOMAIN pieces |-> [text |-> pieces[k], prefix |-> ends[k - 1]]]

WithPrefixLengths(pieces, begin) ==
  LET ends[k \in 0 .. Len(pieces)] == IF k = 0 THEN begin ELSE ends[k - 1] + Len(pieces[k]) IN
  [k \in DOMAIN pieces |-> [text |-> pieces[k], prefix |-> ends[k - 1]]]

AwkTokenizer(text) ==
  LET begins == {i \in 0 .. Len(text) - 1 : ~IsSpace(At(text, i)) /\ (i = 0 \/ IsSpace(At(text, i - 1)))}
  IN  Pieces(text, begins)

Ends(text, d, i) == At(text, i) \in d.of /\ (d.kind = "str" \/ i + 1 = Len(text) \/ At(text, i + 1) \notin d.of)

Tokenize(text, d) ==
  LET behind == {i + 1 : i \in {j \in 0 .. Len(text) - 1 : d.kind # "awk" /\ Ends(text, d, j)}}
  IN  CASE d.kind = "awk" -> WithPrefixLengths(AwkTokenizer(text), Leading(text))
        [] d.kind = "str" -> WithPrefixLengths(Pieces(text, {0} \cup behind), 0)
        [] OTHER -> WithPrefixLengths(Pieces(text, ({0} \cup behind) \ {Len(text)}), 0)

\* A trailing delimiter, or whitespace, does not belong to the field.
LastDelimiter(text, d) ==
  LET run(S) == CHOOSE n \in 0 .. Len(text) :
        /\ \A i \in Len(text) - n .. Len(text) - 1 : At(text, i) \in S
        /\ n = Len(text) \/ At(text, Len(text) - n - 1) \notin S
  IN  CASE d.kind = "awk" -> run({" "})
        [] d.kind = "regex" -> run(d.of)
        [] OTHER -> IF text # <<>> /\ Last(text) \in d.of THEN 1 ELSE 0
StripLastDelimiter(text, d) == Cut(text, 0, Len(text) - LastDelimiter(text, d))

JoinTokens(tokens) == FlattenSeq([k \in DOMAIN tokens |-> tokens[k].text])

\* The fields of a range among n, from the first to the last; those there are not are left out
FirstToken(r, n) ==
  IF r.begin = Ellipsis THEN 1 ELSE IF r.begin < 0 THEN r.begin + n + 1 ELSE r.begin
LastToken(r, n) ==
  IF r.begin = r.end THEN (IF r.begin = Ellipsis THEN n ELSE FirstToken(r, n))
  ELSE IF r.end = Ellipsis THEN n ELSE IF r.end < 0 THEN r.end + n + 1 ELSE r.end

\* One range of Transform: the text of its fields, and the prefix of the first
TransformRange(tokens, r) ==
  LET n == Len(tokens)
      first == FirstToken(r, n)
      last == LastToken(r, n)
      index == IF r.begin = r.end /\ first \notin 1 .. n THEN 0 ELSE MaxOf(0, first - 1)
  IN  [text |-> JoinTokens(SubSeq(tokens, MaxOf(1, first), IF last > n THEN n ELSE last)),
       prefix |-> IF index < n THEN tokens[index + 1].prefix ELSE 0]

Transform(tokens, nth) == [k \in DOMAIN nth |-> TransformRange(tokens, nth[k])]

\* transformInput: what is searched of a text
TransformInput(text, nth, d) ==
  LET ret == Transform(Tokenize(text, d), nth) IN
  IF ret = <<>> \/ d.kind = "awk" THEN ret
  ELSE [ret EXCEPT ![Len(ret)].text = StripLastDelimiter(@, d)]
=============================================================================
