-------------------------------- MODULE Terms --------------------------------
(***************************************************************************)
(* Search patterns (pattern.go) over one full chunk, with the bitmaps of   *)
(* its cache (cache.go): the query the user types is parsed into sets of   *)
(* terms, any one of a set must match, and the items an earlier query did  *)
(* not match are skipped if this one is known to be narrower.              *)
(*                                                                         *)
(* A configuration c is what the options fix: the fields of Algo's o       *)
(* (norm, forward, scheme), fuzzy, v1 (--algo=v1), extended, mode ("smart",*)
(* "ignore" or "respect"), nth, delimiter, deny (excluded items) and start *)
(* (the items taken as header lines).  Items are numbered from 0.          *)
(***************************************************************************)
EXTENDS Tokens
LOCAL INSTANCE SequencesExt

CONSTANTS
  Scenes,           \* where a search starts: [conf, chunk (texts of a full chunk), chars, first (queries)]
  QueryCacheMax,    \* queryCacheMax: a bitmap with more matches is not kept
  MaxSearches       \* bound: searches in a row

VARIABLES
  search            \* [scene, query, cache (a function from keys to bitmaps), found, n]

NoSearch == [scene |-> <<>>, query |-> <<>>, cache |-> <<>>, found |-> <<>>, n |-> MaxSearches]
----------------------------------------------------------------------------
(* Parsing *)

All(f(_), s) == [i \in DOMAIN s |-> f(s[i])]
StartsWith(s, c) == s # <<>> /\ Head(s) = c
EndsIn(s, c) == s # <<>> /\ Last(s) = c

\* BuildPattern trims spaces, but not one that is escaped; parseTerms splits at the others.
TrimmedLeft(str) == Cut(str, Leading(str), Len(str))
Trimmed(str) ==
  LET chop[n \in 0 .. Len(str)] ==
        IF n = 0 THEN <<>>
        ELSE IF str[n] # " " \/ (n > 1 /\ str[n - 1] = "\\") THEN SubSeq(str, 1, n) ELSE chop[n - 1]
  IN  TrimmedLeft(chop[Len(str)])
TokensRead(r) == SelectSeq(Append(r.tokens, r.token), LAMBDA t : t # <<>>)
Split(str) ==
  LET Read(r, c) ==
        IF c # " " THEN [r EXCEPT !.token = Append(@, c)]
        ELSE IF EndsIn(r.token, "\\") THEN [r EXCEPT !.token = Append(Front(@), " ")]
        ELSE [token |-> <<>>, tokens |-> Append(r.tokens, r.token)]
  IN  TokensRead(FoldLeft(Read, [token |-> <<>>, tokens |-> <<>>], str))

CaseSensitive(c, text) == c.mode = "respect" \/ (c.mode = "smart" /\ text # All(Lower, text))
NormalizeTerm(c, text) == c.norm /\ All(NormalizeRune, All(Lower, text)) = All(Lower, text)
TextOf(c, token) == IF CaseSensitive(c, token) THEN token ELSE All(Lower, token)

\* The term a token stands for: the marks are taken off one after the other, the ! first, then the $.
Unquoted(c, token, inv, suffix, t) ==
  LET boundary == Len(t) > 2 /\ StartsWith(t, "'") /\ EndsIn(t, "'")
      quoted == StartsWith(t, "'")
      caret == StartsWith(t, "^")
      rest == IF boundary THEN SubSeq(t, 2, Len(t) - 1) ELSE IF quoted \/ caret THEN Tail(t) ELSE t
  IN  [typ |-> CASE boundary -> "boundary"
                 [] quoted -> IF c.fuzzy /\ ~inv THEN "exact" ELSE "fuzzy"
                 [] caret -> IF suffix THEN "equal" ELSE "prefix"
                 [] OTHER -> IF suffix THEN "suffix" ELSE IF inv \/ ~c.fuzzy THEN "exact" ELSE "fuzzy",
       inv |-> inv,
       text |-> IF NormalizeTerm(c, token) THEN All(NormalizeRune, rest) ELSE rest,
       case |-> CaseSensitive(c, token),
       norm |-> NormalizeTerm(c, token)]
Bare(c, token, inv, bare) ==
  IF bare # <<"$">> /\ EndsIn(bare, "$") THEN Unquoted(c, token, inv, TRUE, Front(bare))
  ELSE Unquoted(c, token, inv, FALSE, bare)
Marks(c, token, text) ==
  IF StartsWith(text, "!") THEN Bare(c, token, TRUE, Tail(text)) ELSE Bare(c, token, FALSE, text)
TermOf(c, token) == Marks(c, token, TextOf(c, token))

\* A token between spaces: a bar behind a term makes the next one an alternative.
WithTerm(r, token, t) ==
  IF r.set # <<>> /\ ~r.bar /\ token = <<"|">> THEN [r EXCEPT !.switch = FALSE, !.bar = TRUE]
  ELSE IF t.text = <<>> THEN [r EXCEPT !.bar = FALSE]
  ELSE IF r.switch
  THEN [sets |-> Append(r.sets, r.set), set |-> <<t>>, switch |-> TRUE, bar |-> FALSE]
  ELSE [r EXCEPT !.set = Append(@, t), !.switch = TRUE, !.bar = FALSE]
SetsRead(r) == IF r.set = <<>> THEN r.sets ELSE Append(r.sets, r.set)
ParseTerms(c, str) ==
  SetsRead(FoldLeft(LAMBDA r, token : WithTerm(r, token, TermOf(c, token)),
                    [sets |-> <<>>, set |-> <<>>, switch |-> FALSE, bar |-> FALSE], Split(str)))

\* Faulty variant of Narrowing: a term behind a bar is taken for one that narrows the search.
NarrowingAlternatives(c, sets) ==
  \A i \in DOMAIN sets : \A k \in DOMAIN sets[i] :
    ~sets[i][k].inv /\ sets[i][k].typ = (IF c.fuzzy THEN "fuzzy" ELSE "exact")

\* Whether a bitmap of these terms may be kept: no alternatives, and only terms of the default type
Narrowing(c, sets) ==
  \A i \in DOMAIN sets : \A k \in DOMAIN sets[i] :
    k = 1 /\ ~sets[i][k].inv /\ sets[i][k].typ = (IF c.fuzzy THEN "fuzzy" ELSE "exact")

\* buildCacheKey: the terms that every match has
BuildCacheKey(c, sets) ==
  LET Keeps(set) == Len(set) = 1 /\ ~set[1].inv /\ (c.fuzzy \/ set[1].typ = "exact")
  IN  FoldLeft(LAMBDA key, set : key \o (IF key = <<>> THEN <<>> ELSE <<"\t">>) \o set[1].text,
               <<>>, SelectSeq(sets, Keeps))

\* "We should not sort the result if there are only inverse search terms"
Sortable(sets) == \E i \in DOMAIN sets : \E k \in DOMAIN sets[i] : ~sets[i][k].inv

Extended(c, sets) ==
  [sets |-> sets, sortable |-> Sortable(sets),
   cacheable |-> Narrowing(c, sets), key |-> BuildCacheKey(c, sets),
   direct |-> c.nth = <<>> /\ Len(sets) = 1 /\ Len(sets[1]) = 1
                /\ ~sets[1][1].inv /\ sets[1][1].typ = "fuzzy"]
BuildPattern(c, query) ==
  LET whole == [typ |-> IF c.fuzzy THEN "fuzzy" ELSE "exact", inv |-> FALSE, text |-> TextOf(c, query),
                case |-> CaseSensitive(c, query), norm |-> NormalizeTerm(c, query)]
  IN  IF c.extended THEN Extended(c, ParseTerms(c, Trimmed(query)))
      ELSE [sets |-> <<<<whole>>>>, sortable |-> TRUE, cacheable |-> TRUE, key |-> whole.text, direct |-> FALSE]

IsEmpty(c, p) == c.deny = {} /\ (p.sets = <<>> \/ (~c.extended /\ p.key = <<>>))
----------------------------------------------------------------------------
(* Matching one item *)

ProcFun(c, t, text) ==
  LET o == [case |-> t.case, norm |-> t.norm, forward |-> c.forward, scheme |-> c.scheme] IN
  CASE t.typ = "fuzzy" -> IF c.v1 THEN FuzzyMatchV1(text, t.text, o) ELSE FuzzyMatchV2(text, t.text, o)
    [] t.typ = "exact" -> ExactMatchNaive(text, t.text, o)
    [] t.typ = "boundary" -> ExactMatchBoundary(text, t.text, o)
    [] t.typ = "prefix" -> PrefixMatch(text, t.text, o)
    [] t.typ = "suffix" -> SuffixMatch(text, t.text, o)
    [] OTHER -> EqualMatch(text, t.text, o)

Input(c, text) ==
  IF c.nth = <<>> THEN <<[text |-> text, prefix |-> 0]>> ELSE TransformInput(text, c.nth, c.delimiter)

\* iter: the first field with a match
InField(field, r) ==
  [start |-> r.start + field.prefix, end |-> r.end + field.prefix, score |-> r.score]
FirstHit(input, results) ==
  LET hits == {k \in DOMAIN input : results[k].start >= 0}
      k == CHOOSE i \in hits : \A j \in hits : i <= j
  IN  IF hits = {} THEN [start |-> -1, end |-> -1, score |-> 0] ELSE InField(input[k], results[k])
Iter(c, t, input) == FirstHit(input, [k \in DOMAIN input |-> ProcFun(c, t, input[k].text)])

\* One set of extendedMatch: the first term with a match ends it, an inverse one without does not.
WithMatch(r, inv, m) ==
  IF m.start >= 0 /\ ~inv THEN [done |-> TRUE, offset |-> <<m.start, m.end>>, score |-> m.score]
  ELSE IF m.start < 0 /\ inv THEN [done |-> FALSE, offset |-> <<0, 0>>, score |-> 0]
  ELSE r
MatchSet(c, set, input) ==
  FoldLeft(LAMBDA r, t : IF r.done THEN r ELSE WithMatch(r, t.inv, Iter(c, t, input)),
           [done |-> FALSE, offset |-> <<>>, score |-> 0], set)

\* MatchItem: the offsets of the sets that match, and the sum of their scores; <<>> if one does not
Together(r) ==
  IF \E i \in DOMAIN r : r[i].offset = <<>> THEN <<>>
  ELSE <<[offsets |-> {r[i].offset : i \in DOMAIN r},
          score |-> FoldLeft(LAMBDA sum, m : sum + m.score, 0, r)]>>
MatchSets(c, p, input) == Together([i \in DOMAIN p.sets |-> MatchSet(c, p.sets[i], input)])
MatchItem(c, p, text) == MatchSets(c, p, Input(c, text))

\* The direct path of matchChunk: a single fuzzy term
Direct(r) == IF r.start < 0 THEN <<>> ELSE <<[offsets |-> {<<r.start, r.end>>}, score |-> r.score]>>
MatchDirect(c, p, text) == Direct(ProcFun(c, p.sets[1][1], text))
----------------------------------------------------------------------------
(* Matching the chunk *)

\* matchChunk: the matches, a function from the items that match, and so the bitmap
Hits(tried) == [i \in {i \in DOMAIN tried : tried[i] # <<>>} |-> tried[i][1]]
MatchChunk(c, p, chunk, within) ==
  Hits([i \in {i \in within : i >= c.start /\ i \notin c.deny} |->
          IF p.direct /\ c.deny = {} THEN MatchDirect(c, p, At(chunk, i)) ELSE MatchItem(c, p, At(chunk, i))])

\* ChunkCache.Lookup
Lookup(cache, key) == IF key # <<>> /\ key \in DOMAIN cache THEN {cache[key]} ELSE {}

\* ChunkCache.Search: the longest proper prefix or suffix of the key, the prefix first
Search(cache, key) ==
  LET at == {n \in 1 .. Len(key) - 1 : SubSeq(key, 1, Len(key) - n) \in DOMAIN cache
                                        \/ SubSeq(key, n + 1, Len(key)) \in DOMAIN cache}
      n == CHOOSE x \in at : \A y \in at : x <= y
      prefix == SubSeq(key, 1, Len(key) - n)
  IN  IF at = {} THEN {} ELSE {cache[IF prefix \in DOMAIN cache THEN prefix ELSE SubSeq(key, n + 1, Len(key))]}

\* ChunkCache.Add
Add(cache, key, bitmap) ==
  IF key = <<>> \/ Cardinality(bitmap) > QueryCacheMax THEN cache
  ELSE [k \in DOMAIN cache \cup {key} |-> IF k = key THEN bitmap ELSE cache[k]]

Items(chunk) == 0 .. Len(chunk) - 1

\* Pattern.Match
Cached(p, cache) ==
  LET exact == IF p.cacheable THEN Lookup(cache, p.key) ELSE {}
  IN  IF exact # {} THEN exact ELSE Search(cache, p.key)
Remembering(c, p, cache, found) ==
  [found |-> found, cache |-> IF p.cacheable /\ ~IsEmpty(c, p) THEN Add(cache, p.key, DOMAIN found) ELSE cache]

\* An empty pattern passes every item, without a look at the cache.
Match(c, p, chunk, cache) ==
  Remembering(c, p, cache,
    MatchChunk(c, p, chunk, IF IsEmpty(c, p) \/ Cached(p, cache) = {} THEN Items(chunk) ELSE UNION Cached(p, cache)))
----------------------------------------------------------------------------
InitSearch ==
  search \in {[scene |-> s, query |-> <<>>, cache |-> [k \in {} |-> {}], found |-> <<>>, n |-> 0] : s \in Scenes}

SearchFor(query) ==
  \E m \in {Match(search.scene.conf, BuildPattern(search.scene.conf, query), search.scene.chunk, search.cache)} :
    search' = [search EXCEPT !.query = query, !.cache = m.cache, !.found = m.found, !.n = @ + 1]

\* A query that is given as a whole (change-query, or the text of a few keys), or an edit of the last
ChangeQuery == search.n < MaxSearches /\ \E q \in search.scene.first : SearchFor(q)
Editable == search.n \in 1 .. MaxSearches - 1
Insert ==
  /\ Editable
  /\ \E c \in search.scene.chars : \E i \in 0 .. Len(search.query) : SearchFor(InsertAt(search.query, i + 1, c))
Delete == Editable /\ \E i \in DOMAIN search.query : SearchFor(RemoveAt(search.query, i))

NextSearch == ChangeQuery \/ Insert \/ Delete
----------------------------------------------------------------------------
\* Whatever was searched before, a search finds the items that match the query, each with the
\* same offsets and score: "Bitmap cache: exact match or prefix/suffix" (pattern.go:305) never
\* hides an item, and the direct path of a single fuzzy term (pattern.go:328) agrees with the general one.
CacheNarrows ==
  search.n \in 1 .. MaxSearches /\ search.scene # <<>> =>
    LET c == search.scene.conf
    IN  search.found = MatchChunk(c, [BuildPattern(c, search.query) EXCEPT !.direct = FALSE],
                                  search.scene.chunk, Items(search.scene.chunk))

\* The offsets of a match are places of the whole line, also if only some of its fields are
\* searched: what they enclose begins and ends like the term does (prefixLength, pattern.go:491).
OffsetsOfWholeLine ==
  search.n \in 1 .. MaxSearches /\ search.scene # <<>> =>
    LET Enclosed(t, text, m) ==
          LET at == Cut(text, m[1], m[2])
              Equal(x, y) == Folded(x, [case |-> t.case, norm |-> t.norm]) = y
          IN  at # <<>> /\ Equal(Head(at), Head(t.text)) /\ Equal(Last(at), Last(t.text))
    IN  \A i \in DOMAIN search.found : \A m \in search.found[i].offsets :
          m[1] = m[2] \/ \E sets \in {BuildPattern(search.scene.conf, search.query).sets} :
            \E s \in DOMAIN sets : \E k \in DOMAIN sets[s] :
              ~sets[s][k].inv /\ Enclosed(sets[s][k], At(search.scene.chunk, i), m)
=============================================================================
