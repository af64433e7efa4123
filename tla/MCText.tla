------------------------------- MODULE MCText -------------------------------
(* Inputs of the model-checking run of keys and ANSI codes. *)
EXTENDS Keys, Ansi, TLC

Init ==
  \/ InitTty /\ bytes = IdleBytes /\ ansi = IdleAnsi
  \/ InitBytes /\ tty = IdleTty /\ ansi = IdleAnsi
  \/ InitAnsi /\ tty = IdleTty /\ bytes = IdleBytes
Next ==
  \/ NextTty /\ UNCHANGED <<bytes, ansi>>
  \/ AddByte /\ UNCHANGED <<tty, ansi>>
  \/ NextAnsi /\ UNCHANGED <<tty, bytes>>
Spec == Init /\ [][Next]_<<tty, bytes, ansi>>
----------------------------------------------------------------------------
(* What the terminal sends for keys *)

Csi(s) == <<"ESC", "[">> \o s
SomeKeys ==
  (<<"a">> :> Key("a")) @@ (<<"ESC", "^a">> :> <<{"ctrl", "alt"}, "a">>)
    @@ (<<"ESC", "a">> :> <<{"alt"}, "a">>) @@ (<<"ESC">> :> Key("esc"))
    @@ (<<"ESC", "O", "P">> :> Key("f1"))
    @@ (Csi(<<"A">>) :> Key("up")) @@ (<<"ESC", "ESC", "[", "A">> :> <<{"alt"}, "up">>)
    @@ (Csi(<<"Z">>) :> <<{"shift"}, "tab">>) @@ (Csi(<<"1", "~">>) :> Key("home"))
    @@ (Csi(<<"2", "4", "~">>) :> Key("f12"))
    @@ (Csi(<<"2", "0", "~">>) :> Key("f9")) @@ (Csi(<<"2", "0", "0", "~">>) :> Key("paste-begin"))
    @@ (Csi(<<"3", "~">>) :> Key("delete")) @@ (Csi(<<"3", ";", "5", "~">>) :> <<{"ctrl"}, "delete">>)
    @@ (Csi(<<"5", ";", "1", "1", "~">>) :> <<{"alt"}, "page-up">>) @@ (Csi(<<"1", "5", "~">>) :> Key("f5"))
    @@ (Csi(<<"1", ";", "5", "D">>) :> <<{"ctrl"}, "left">>)
    @@ (Csi(<<"1", ";", "1", "0", "D">>) :> <<{"alt", "shift"}, "left">>)
    @@ (Csi(<<"<", "0", ";", "1", ";", "1", "M">>) :> <<{}, <<"mouse", <<"0", ";", "1", ";", "1">>, "M">>>>)
    @@ (Csi(<<"2", ";", "1", "R">>) :> Invalid)
----------------------------------------------------------------------------
(* Bytes *)

SomeBytes == {"ESC", "[", "]", "8", ";", "\\", "BEL", "BS", "SO", "NL", "x"}
SomeSeeds == {<<>>, <<"x", "ESC", "]", "8", ";">>, <<"ESC", "[">>, <<"ESC", "]", "8", ";", ";">>}
----------------------------------------------------------------------------
(* Lines *)

Text(c) == [is |-> "text", of |-> c]
Sgr(params) == [is |-> "sgr", of |-> params]
Newline == [is |-> "newline", of |-> <<>>]
Erase == [is |-> "erase", of |-> <<>>]
Link(url) == [is |-> "link", of |-> url]
SomePieces ==
  {{Text("a"), Text(" "), Sgr(<<<<31>>>>), Sgr(<<<<41>>, <<1>>>>), Sgr(<<<<-1>>>>), Newline},
   {Text("a"), Text(" "), Sgr(<<<<38>>, <<5>>, <<200>>, <<4, 3>>>>), Sgr(<<<<39>>, <<22>>, <<2>>>>), Link("u"), Link("")},
   {Text("a"), Text(" "), Sgr(<<<<48>>, <<2>>, <<1>>, <<2>>, <<3>>, <<58>>, <<5>>, <<9>>>>), Sgr(<<<<24>>, <<94>>, <<9>>>>),
    Sgr(<<<<4>>, <<7>>, <<38>>, <<5>>>>), Erase}}
=============================================================================
