-------------------------------- MODULE Keys --------------------------------
(***************************************************************************)
(* How the light renderer reads keys (tui/light.go): the terminal sends a  *)
(* key as a sequence of bytes, the renderer reads what there is into a     *)
(* buffer and takes one event at a time off its front.  A sequence may     *)
(* arrive in two pieces, and several keys may be in the buffer at once.    *)
(*                                                                         *)
(* A byte is a character or one of "ESC", "DEL", "BS", "^a" (CTRL-A),      *)
(* "NUL" or "^c"; an event is <<modifiers, key>>, or <<{}, "invalid">>.    *)
(***************************************************************************)
EXTENDS Integers, Sequences
LOCAL INSTANCE SequencesExt

CONSTANTS
  KeyBytes,         \* what the terminal sends: a function from sequences of bytes to events
  MaxKeys           \* bound: keys pressed

VARIABLES
  tty               \* [on, n (keys pressed), typed (events), late (bytes on their way), ready (bytes to read),
                    \*  lone, buffer, events (that the renderer returned), again (second chance)]

IdleTty == [on |-> FALSE]

Digits == {"0", "1", "2", "3", "4", "5", "6", "7", "8", "9"}
Number(c) == CHOOSE n \in 0 .. 9 : <<"0", "1", "2", "3", "4", "5", "6", "7", "8", "9">>[n + 1] = c
Byte(b, i) == IF i < Len(b) THEN b[i + 1] ELSE ""   \* b[i] of the code, "" behind the end
Key(name) == <<{}, name>>
Invalid == Key("invalid")
Event(ev, sz, buffer) == [ev |-> ev, sz |-> sz, buffer |-> buffer]
----------------------------------------------------------------------------
(* Escape sequences *)

\* The modifiers of one digit, and of two, that begin with 1
Modifiers(d) ==
  CASE d = "2" -> {"shift"} [] d = "3" -> {"alt"} [] d = "4" -> {"alt", "shift"} [] d = "5" -> {"ctrl"}
    [] d = "6" -> {"ctrl", "shift"} [] d = "7" -> {"ctrl", "alt"} [] d = "8" -> {"ctrl", "alt", "shift"}
    [] d = "9" -> {"alt"} [] OTHER -> {}
Modifiers1(d) ==
  {"alt"} \cup (IF d \in {"3", "4", "5", "6"} THEN {"ctrl"} ELSE {})
          \cup (IF d \in {"0", "2", "4", "6"} THEN {"shift"} ELSE {})

\* Keys with a letter behind ESC [ or ESC O
Letters == {"A", "B", "C", "D", "H", "F", "Z", "P", "Q", "R", "S"}
Letter(c) ==
  CASE c = "A" -> "up" [] c = "B" -> "down" [] c = "C" -> "right" [] c = "D" -> "left" [] c = "H" -> "home"
    [] c = "F" -> "end" [] c = "Z" -> "tab" [] c = "P" -> "f1" [] c = "Q" -> "f2" [] c = "R" -> "f3" [] c = "S" -> "f4"
LetterKey(c, alt, b) ==
  Event(IF c = "Z" THEN <<{"shift"}, "tab">>
        ELSE <<IF alt /\ c \in {"A", "B", "C", "D"} THEN {"alt"} ELSE {}, Letter(c)>>, 3, b)

\* Insert, F9 to F12, and the ends of a paste
Two(b) ==
  LET f == CASE Byte(b, 3) = "0" -> "f9" [] Byte(b, 3) = "1" -> "f10" [] Byte(b, 3) = "3" -> "f11"
             [] Byte(b, 3) = "4" -> "f12" [] OTHER -> "invalid"
  IN  IF Byte(b, 3) = "~" THEN Event(Key("insert"), 4, b)
      ELSE IF Byte(b, 4) = "~" THEN Event(Key(f), 5, b)
      ELSE IF Byte(b, 3) = "0" /\ Byte(b, 4) \in {"0", "1"} /\ Byte(b, 5) = "~"
      THEN Event(Key(IF Byte(b, 4) = "0" THEN "paste-begin" ELSE "paste-end"), 6, b)
      ELSE Event(Invalid, 4, b)

\* Delete, page up and page down with modifiers: only if the buffer ends there
Tilde(b, key) ==
  IF Byte(b, 3) = "~" THEN Event(Key(key), 4, b)
  ELSE IF Len(b) = 7 /\ Byte(b, 6) = "~" /\ Byte(b, 4) = "1"
  THEN Event(IF Byte(b, 5) \in Digits \ {"7", "8", "9"} THEN <<Modifiers1(Byte(b, 5)), key>> ELSE Invalid, 7, b)
  ELSE IF Len(b) = 6 /\ Byte(b, 5) = "~"
  THEN Event(IF Modifiers(Byte(b, 4)) # {} THEN <<Modifiers(Byte(b, 4)), key>> ELSE Invalid, 6, b)
  ELSE Event(Invalid, 4, b)

\* F1 to F8, only if the buffer ends there
Function(b) ==
  LET n == Number(Byte(b, 3)) IN
  IF Len(b) = 5 /\ Byte(b, 4) = "~"
  THEN Event(Key(<<"f1", "f2", "f3", "f4", "f5", "", "f6", "f7", "f8">>[n]), 5, b) ELSE Event(Invalid, 4, b)

\* Alt with the next byte, whatever it is
AltKey(b) == Event(<<{"alt"}, Byte(b, 1)>>, 2, b)

\* Arrows, home and end with modifiers; an unknown letter makes all of it Alt-[
Modified(b) ==
  LET two == Byte(b, 4) = "1" /\ Byte(b, 5) \in Digits \ {"7", "8", "9"}
      c == IF two THEN Byte(b, 6) ELSE Byte(b, 5)
      mods == IF two THEN Modifiers1(Byte(b, 5)) ELSE Modifiers(Byte(b, 4))
  IN  IF Len(b) < 6 THEN Event(Invalid, 4, b)
      ELSE IF Byte(b, 4) \notin Digits \ {"0"} THEN AltKey(b)
      ELSE IF two /\ Len(b) < 7 THEN Event(Invalid, 6, b)
      ELSE IF c \in {"A", "B", "C", "D", "H", "F"} THEN Event(<<mods, Letter(c)>>, IF two THEN 7 ELSE 6, b)
      ELSE AltKey(b)

\* mouseSequence: what is between ESC [ < and the first m or M, three numbers
MouseSequence(b) ==
  LET ends == {i \in 3 .. Len(b) - 1 : Byte(b, i) \in {"m", "M"}}
      end == CHOOSE i \in ends : \A j \in ends : i <= j
      elems == SubSeq(b, 4, end)
  IN  IF Len(b) < 9 \/ ends = {} \/ Len(SelectSeq(elems, LAMBDA c : c = ";")) < 2
      THEN Event(Invalid, 3, b)
      ELSE Event(<<{}, <<"mouse", elems, Byte(b, end)>>>>, end + 1, b)

Numbered(b) ==
  LET d == Byte(b, 2) IN
  CASE Len(b) < 4 -> Event(Invalid, 3, b)
    [] d = "2" -> Two(b)
    [] d = "3" -> Tilde(b, "delete")
    [] d \in {"4", "8"} -> Event(Key("end"), 4, b)
    [] d = "5" -> Tilde(b, "page-up")
    [] d = "6" -> Tilde(b, "page-down")
    [] d = "7" -> Event(Key("home"), 4, b)
    [] Byte(b, 3) = "~" -> Event(Key("home"), 4, b)
    [] Byte(b, 3) \in Digits \ {"0", "6"} -> Function(b)
    [] Byte(b, 3) = ";" -> Modified(b)
    [] OTHER -> AltKey(b)

\* The terminal's answer to a query for the cursor (offsetRegexpBegin): 0, or where it
\* ends. That about bracketed paste (pasteModeRegexpBegin) is left out alike.
ReplyEnd(b) ==
  LET ends == {i \in 2 .. Len(b) - 1 : Byte(b, i) \notin Digits \cup {";"}}
      end == CHOOSE i \in ends : \A j \in ends : i <= j
      numbers == SubSeq(b, 3, end)
  IN  IF Byte(b, 1) = "[" /\ ends # {} /\ Byte(b, end) = "R" /\ Len(SelectSeq(numbers, LAMBDA c : c = ";")) = 1
         /\ Head(numbers) # ";" /\ Last(numbers) # ";"
      THEN end + 1 ELSE 0

\* escSequence: ESC ESC ... is Alt with what the rest stands for.
EscSequence(buffer) ==
  LET alt == Len(buffer) > 2 /\ Byte(buffer, 1) = "ESC"
      b == IF alt THEN Tail(buffer) ELSE buffer
      c == Byte(b, 1)
  IN  CASE Len(buffer) < 2 -> Event(Key("esc"), 1, buffer)
        [] ReplyEnd(buffer) > 0 -> Event(Invalid, ReplyEnd(buffer), buffer)
        [] Byte(buffer, 1) = "BS" -> Event(<<{"ctrl", "alt"}, "backspace">>, 2, buffer)
        [] Byte(buffer, 1) = "^a" -> Event(<<{"ctrl", "alt"}, "a">>, 2, buffer)
        [] c = "ESC" -> Event(Key("esc"), 2, b)
        [] c = "DEL" -> Event(<<{"alt"}, "backspace">>, 2, b)
        [] c \in {"[", "O"} /\ Len(b) < 3 -> Event(Invalid, 2, b)
        [] c \in {"[", "O"} /\ Byte(b, 2) \in Letters -> LetterKey(Byte(b, 2), alt, b)
        [] c \in {"[", "O"} /\ Byte(b, 2) = "<" -> MouseSequence(b)
        [] c \in {"[", "O"} /\ Byte(b, 2) \in Digits \ {"0", "9"} -> Numbered(b)
        [] OTHER -> AltKey(b)

\* GetChar of a buffer that does not begin with ESC
PlainKey(b) ==
  Event(CASE Head(b) = "^c" -> <<{"ctrl"}, "c">> [] Head(b) = "^a" -> <<{"ctrl"}, "a">>
          [] Head(b) = "DEL" -> Key("backspace") [] Head(b) = "BS" -> <<{"ctrl"}, "backspace">>
          [] Head(b) = "NUL" -> <<{"ctrl"}, "space">> [] OTHER -> Key(Head(b)), 1, b)
----------------------------------------------------------------------------
InitTty ==
  tty = [on |-> TRUE, n |-> 0, typed |-> <<>>, lone |-> FALSE, late |-> <<>>, ready |-> <<>>, buffer |-> <<>>,
         events |-> <<>>, again |-> FALSE]

\* These are only known if nothing is behind them in the buffer: ESC, which would become Alt, and
\* sequences whose length is compared with that of the buffer.
Lone(b) ==
  \/ b = <<"ESC">>
  \/ Len(b) = 5 /\ b[3] = "1" /\ Last(b) = "~"
  \/ Len(b) > 5 /\ b[3] \in {"3", "5", "6"} /\ Last(b) = "~"

\* A key is pressed; its bytes may come in two pieces, but not right behind an ESC: the renderer
\* waits for what follows.  (In two pieces, a key with one more ESC for Alt would lose it.)
Press ==
  /\ tty.on /\ tty.n < MaxKeys /\ tty.late = <<>>
  /\ tty.lone => tty.ready = <<>> /\ tty.buffer = <<>>
  /\ \E b \in DOMAIN KeyBytes : \E n \in 1 .. Len(b) :
       /\ n < Len(b) => n > 1 /\ b[2] # "ESC"
       /\ tty' = [tty EXCEPT !.n = @ + 1, !.typed = IF KeyBytes[b] = Invalid THEN @ ELSE Append(@, KeyBytes[b]),
                             !.ready = @ \o SubSeq(b, 1, n), !.late = SubSeq(b, n + 1, Len(b)), !.lone = Lone(b)]
Arrive ==
  /\ tty.on /\ tty.late # <<>>
  /\ tty' = [tty EXCEPT !.ready = @ \o tty.late, !.late = <<>>]

\* GetChar: what the buffer holds, or else what there is to read; an escape sequence that is not
\* complete gets a second chance when more has arrived.
GetChar ==
  LET b == IF tty.buffer = <<>> THEN tty.ready ELSE tty.buffer
  IN  /\ tty.on /\ ~tty.again /\ b # <<>>
      /\ \E e \in {IF Head(b) = "ESC" THEN EscSequence(b) ELSE PlainKey(b)} :
         IF e.ev = Invalid
         THEN tty' = [tty EXCEPT !.buffer = e.buffer, !.ready = IF tty.buffer = <<>> THEN <<>> ELSE @, !.again = TRUE]
         ELSE tty' = [tty EXCEPT !.events = Append(@, e.ev), !.ready = IF tty.buffer = <<>> THEN <<>> ELSE @,
                                 !.buffer = SubSeq(e.buffer, e.sz + 1, Len(e.buffer))]

\* Faulty variant of ReadMore: what arrives replaces what was there.
ReadMoreOnly(buffer, ready) == ready

\* getBytes: what arrives goes behind what is there.
ReadMore(buffer, ready) == buffer \o ready

SecondChance ==
  /\ tty.on /\ tty.again /\ tty.ready # <<>>
  /\ \E e \in {EscSequence(ReadMore(tty.buffer, tty.ready))} :
     tty' = [tty EXCEPT !.events = IF e.ev = Invalid THEN @ ELSE Append(@, e.ev), !.again = FALSE,
                        !.ready = <<>>, !.buffer = SubSeq(e.buffer, e.sz + 1, Len(e.buffer))]

NextTty == Press \/ Arrive \/ GetChar \/ SecondChance
----------------------------------------------------------------------------
\* Each key pressed becomes one event, whatever is in the buffer behind it and however its bytes
\* arrive ("Second chance", light.go:427): the events are the keys, in their order, and none is
\* missing when all bytes have been taken.
EventsAreKeys ==
  tty.on => /\ IsPrefix(tty.events, tty.typed)
            /\ tty.late \o tty.ready \o tty.buffer = <<>> => tty.events = tty.typed
=============================================================================
