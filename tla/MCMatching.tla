----------------------------- MODULE MCMatching -----------------------------
(* Inputs of the model-checking run of the algorithms, patterns and merger. *)
EXTENDS Matches, Terms, Merging

IdleProbe == probe = [on |-> FALSE]
IdleSearch == search = NoSearch
IdleView == view = [kind |-> "none"] /\ got = <<>>

Init ==
  \/ InitProbe /\ IdleSearch /\ IdleView
  \/ InitSearch /\ IdleProbe /\ IdleView
  \/ InitView /\ IdleProbe /\ IdleSearch
Next ==
  \/ NextProbe /\ UNCHANGED <<search, view, got>>
  \/ NextSearch /\ UNCHANGED <<probe, view, got>>
  \/ Get /\ UNCHANGED <<probe, search>>
Spec == Init /\ [][Next]_<<probe, search, view, got>>
----------------------------------------------------------------------------
(* Algorithms *)

SomeOptions ==
  [case : BOOLEAN, norm : {TRUE}, forward : BOOLEAN, scheme : {"default"}]
    \cup [case : {FALSE}, norm : {FALSE}, forward : {TRUE}, scheme : {"default", "path"}]
SomeChars == {"a", "b", "A", "aacute", " "}
----------------------------------------------------------------------------
(* Patterns *)

Conf ==
  [norm |-> TRUE, forward |-> TRUE, scheme |-> "default", fuzzy |-> TRUE, v1 |-> FALSE, extended |-> TRUE,
   mode |-> "smart", nth |-> <<>>, delimiter |-> [kind |-> "awk", of |-> {" "}], deny |-> {}, start |-> 0]
Words == <<<<"a">>, <<"A", "b">>, <<"aacute", "b">>, <<"a", " ", "b">>, <<"b", "a">>, <<"a", "b", "a">>>>
QueryScene(conf, chars, first) == [conf |-> conf, chunk |-> Words, chars |-> chars, first |-> first]

\* Letters and the bar, quotes, an escaped space; the modes of the options
Typed ==
  {QueryScene(Conf, {"a", "b", "A", " "}, {<<"b">>, <<"!", "a", " ", "|", " ", "b">>, <<"b", " ", "A", " ", "|", " ", "aacute">>}),
   QueryScene([Conf EXCEPT !.deny = {1}, !.start = 1], {"b", "aacute", "|"}, {<<"a", " ", "b">>, <<"^", "a">>}),
   QueryScene(Conf, {"'", "^", "$", "!", "\\"}, {<<"a">>, <<"a", " ", "b">>}),
   QueryScene([Conf EXCEPT !.fuzzy = FALSE], {"a", "b", " ", "'"}, {<<"a">>, <<"b">>, <<"!", "b", " ", "|", " ", "a">>}),
   QueryScene([Conf EXCEPT !.extended = FALSE], {"a", "b", "A", " "}, {<<"a">>, <<"aacute">>}),
   QueryScene([Conf EXCEPT !.v1 = TRUE, !.forward = FALSE, !.mode = "ignore"], {"a", "B"}, {<<"a">>, <<"A", "b">>}),
   QueryScene([Conf EXCEPT !.norm = FALSE, !.mode = "respect"], {"a", "A", "aacute"}, {<<"a">>, <<"b">>})}

\* Ranges of fields, with each kind of delimiter
Fields ==
  {[conf |-> [Conf EXCEPT !.nth = r, !.delimiter = d], chars |-> {"a", "b", "$"},
    chunk |-> <<<<" ", "a", "b">>, <<"a", "/", "b">>, <<"b", "/", "/", "a">>, <<" ", "b", " ", "a", " ">>, <<"/", "a", "/">>>>,
    first |-> {<<"'", "a">>, <<"b", "$">>, <<"a", "b">>, <<"^", "b">>}] :
     r \in {<<x>> : x \in Ranges(2)} \cup {<<NewRange(2, 2), NewRange(1, 1)>>},
     d \in {[kind |-> "awk", of |-> {" "}], [kind |-> "str", of |-> {"/"}], [kind |-> "regex", of |-> {"/"}]}}
SomeScenes == Typed \cup Fields
----------------------------------------------------------------------------
(* Results *)

Match1(b, e, score) == <<[offsets |-> {<<b, e>>}, score |-> score]>>
SomeSearches ==
  {[texts |-> <<<<"a", "b">>, <<"/", "a", "b">>, <<" ", "b">>, <<"a", " ">>>>, criteria |-> cr, workers |-> 2,
    options |-> {<<>>, Match1(0, 1, 16), Match1(1, 2, 300)}] :
      cr \in {<<"score", "length">>, <<"begin", "chunk", "end">>, <<"pathname", "score">>}}

\* Items in order in chunks of two, the first and the last of which may have one
SomeSnapshots ==
  {[k \in 1 .. n |-> [i \in 1 .. (IF k = 1 THEN f ELSE IF k = n THEN l ELSE 2) |->
      b + (IF k = 1 THEN 0 ELSE f + 2 * (k - 2)) + i - 1]] : n \in 1 .. 3, f \in 1 .. 2, l \in 1 .. 2, b \in {0, 3}}
=============================================================================
