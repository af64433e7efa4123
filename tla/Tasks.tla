------------------------------- MODULE Tasks --------------------------------
(***************************************************************************)
(* The goroutines that share the terminal, and the locks they wait for:    *)
(* the main loop, the render goroutine, the coordinator, which calls the   *)
(* terminal from the callback of EventBox.Wait, the matcher, and the       *)
(* goroutine that wakes the main loop after `wait` (src/src/terminal.go,   *)
(* core.go).                                                               *)
(*                                                                         *)
(*   mutex    Terminal.mutex: the state                                    *)
(*   ui       Terminal.uiMutex: the screen                                 *)
(*   box      the lock of eventBox, held in the coordinator's callback     *)
(*   req      the lock of reqBox, held in the render goroutine's callback  *)
(*                                                                         *)
(* eventChan is a channel of EventCap events: a send to a full channel     *)
(* waits, with every lock of the sender held (start and resize, which have *)
(* no part in this, are left out).  What is searched, listed and printed   *)
(* is left out as well; Terminal, Core and Screen say it.                  *)
(***************************************************************************)
EXTENDS Integers, Sequences, FiniteSets

CONSTANTS
    Users,          \* bound: the action lists of the keys that a user presses
    Binds,          \* events with actions, of those in eventChan
    InfoCommand,    \* whether --info-command is given
    EventCap,       \* capacity of eventChan
    MaxPartial      \* bound: searches before all the input is read

Nobody == "nobody"

VARIABLES
    holder,      \* lock -> goroutine, or Nobody
    main,        \* where the main loop is, with the actions of the iteration
    render,      \* where the render goroutine is, with the requests it serves
    coord,       \* where the coordinator is, with the events it serves
    keys,        \* keys still to be pressed
    reqs,        \* reqBox
    events,      \* eventBox
    eventChan,   \* the events in eventChan
    server,      \* number of wake-ups in serverInputChan
    wait,        \* Terminal.wait: searching, blocked, pending
    updates,     \* triggerLoad, pendingReqList, whether the item in focus is not lastFocus,
                 \* and whether there has been a list
    matcher,     \* the reader, the matcher with its reqBox, and the search it is at
    exited       \* the coordinator has got EvtQuit: the process ends

vars == <<holder, main, render, coord, keys, reqs, events, eventChan, server, wait, updates, matcher,
          exited>>
locals == <<keys, server, wait, updates, matcher>>

Free(lock) == holder[lock] = Nobody
Taking(locks, who) == [l \in DOMAIN holder |-> IF l \in locks THEN who ELSE holder[l]]

Init ==
    /\ holder = [l \in {"mutex", "ui", "box", "req"} |-> Nobody]
    /\ main = [pc |-> "select", acts |-> <<>>, own |-> <<>>, changed |-> FALSE, out |-> <<>>, looping |-> TRUE]
    /\ render = [pc |-> "wait", serves |-> {}]
    /\ coord = [pc |-> "wait", serves |-> {}, sends |-> <<>>, out |-> <<>>, then |-> "serve"]
    /\ keys \in Users
    /\ reqs = {"info"}
    /\ events = {}
    /\ eventChan = <<>>
    /\ server = 0
    /\ wait = [searching |-> TRUE, blocked |-> FALSE, pending |-> <<>>, waking |-> FALSE]
    /\ updates = [load |-> FALSE, list |-> FALSE, focus |-> FALSE, listed |-> FALSE]
    /\ matcher = [reading |-> TRUE, partial |-> 0, retry |-> "none", reset |-> "none", scan |-> "none",
                  lost |-> FALSE]
    /\ exited = FALSE

-----------------------------------------------------------------------------
(* The main loop                                                           *)

\* select: a key, the events in eventChan, all of them, or a wake-up; then the mutex
Received(acts) == main' = [main EXCEPT !.pc = "lock", !.acts = <<>>, !.own = acts, !.changed = FALSE, !.out = <<>>]

SelectKey ==
    /\ main.pc = "select" /\ keys # <<>>
    /\ keys' = Tail(keys)
    /\ Received(Head(keys))
    /\ UNCHANGED <<holder, render, coord, reqs, events, eventChan, server, wait, updates, matcher, exited>>

SelectEvents ==
    /\ main.pc = "select" /\ eventChan # <<>>
    /\ eventChan' = <<>>
    /\ Received([i \in 1..Len(SelectSeq(eventChan, LAMBDA e : e \in Binds)) |-> "info"])
    /\ UNCHANGED <<holder, render, coord, keys, reqs, events, server, wait, updates, matcher, exited>>

SelectWakeUp ==
    /\ main.pc = "select" /\ server > 0
    /\ server' = server - 1
    /\ Received(<<>>)
    /\ UNCHANGED <<holder, render, coord, keys, reqs, events, eventChan, wait, updates, matcher, exited>>

\* The actions after a wait that has ended go first, then those of the event
MainLock ==
    /\ main.pc = "lock" /\ Free("mutex")
    /\ holder' = Taking({"mutex"}, "main")
    /\ IF wait.blocked \/ wait.pending = <<>>
       THEN /\ main' = [main EXCEPT !.pc = "act", !.acts = main.own, !.own = <<>>]
            /\ UNCHANGED wait
       ELSE /\ main' = [main EXCEPT !.pc = "act", !.acts = wait.pending]
            /\ wait' = [wait EXCEPT !.pending = <<>>]
    /\ UNCHANGED <<render, coord, keys, reqs, events, eventChan, server, updates, matcher, exited>>

OwnActions ==
    /\ main.pc = "act" /\ main.acts = <<>> /\ main.own # <<>> /\ main.looping
    /\ main' = [main EXCEPT !.acts = main.own, !.own = <<>>]
    /\ UNCHANGED <<holder, render, coord, reqs, events, eventChan, exited, locals>>

Rest(m) == [m EXCEPT !.acts = Tail(@)]

\* An action that neither waits nor executes; a search is asked for at the end of
\* the iteration.  "list" moves the cursor; the actions of `focus` follow at once when
\* there are any, and otherwise the change is left to the render goroutine.  When the
\* main loop waits only `abort` has an effect.
Act ==
    LET a == Head(main.acts)
        m == Rest(main)
    IN  /\ main.pc = "act" /\ main.acts # <<>> /\ main.looping
        /\ a \notin {"wait", "execute"} \/ wait.blocked
        /\ IF wait.blocked
           THEN IF a = "abort"
                THEN /\ wait' = [wait EXCEPT !.blocked = FALSE, !.pending = <<>>]
                     /\ main' = [m EXCEPT !.out = Append(@, "info")]
                ELSE /\ main' = IF a = "wait" THEN [m EXCEPT !.acts = <<>>] ELSE m
                     /\ UNCHANGED wait
           ELSE /\ main' = CASE a = "search" -> [m EXCEPT !.changed = TRUE, !.out = Append(@, "info")]
                             [] a = "abort" -> [m EXCEPT !.looping = FALSE, !.out = Append(@, "quit")]
                             [] a = "accept" -> [m EXCEPT !.looping = FALSE, !.out = Append(@, "close")]
                             [] a \in {"list", "info"} -> [m EXCEPT !.out = Append(@, a)]
                /\ UNCHANGED wait
        /\ updates' = IF a = "list" /\ ~wait.blocked /\ updates.listed
                      THEN [updates EXCEPT !.focus = "focus" \notin Binds]
                      ELSE updates
        /\ UNCHANGED <<holder, render, coord, keys, reqs, events, eventChan, server, matcher, exited>>

\* Faulty variant of Wait: it waits although no search goes on
WaitAnyway ==
    /\ main.pc = "act" /\ main.acts # <<>> /\ main.looping /\ Head(main.acts) = "wait" /\ ~wait.blocked
    /\ wait' = [wait EXCEPT !.blocked = TRUE, !.pending = Tail(main.acts)]
    /\ main' = [main EXCEPT !.acts = <<>>]
    /\ UNCHANGED <<holder, render, coord, keys, reqs, events, eventChan, server, updates, matcher, exited>>

Wait ==
    /\ main.pc = "act" /\ main.acts # <<>> /\ main.looping /\ Head(main.acts) = "wait" /\ ~wait.blocked
    /\ IF wait.searching \/ main.changed
       THEN /\ wait' = [wait EXCEPT !.blocked = TRUE, !.pending = Tail(main.acts)]
            /\ main' = [main EXCEPT !.acts = <<>>]
       ELSE main' = Rest(main) /\ UNCHANGED wait
    /\ UNCHANGED <<holder, render, coord, keys, reqs, events, eventChan, server, updates, matcher, exited>>

\* executeCommand: the mutex is given up before the screen is taken
Execute ==
    /\ main.pc = "act" /\ main.acts # <<>> /\ main.looping /\ Head(main.acts) = "execute" /\ ~wait.blocked
    /\ holder' = Taking({"mutex"}, Nobody)
    /\ main' = [Rest(main) EXCEPT !.pc = "screen"]
    /\ UNCHANGED <<render, coord, reqs, events, eventChan, exited, locals>>

TakeScreen ==
    /\ main.pc = "screen" /\ Free("ui")
    /\ holder' = Taking({"ui"}, "main")
    /\ main' = [main EXCEPT !.pc = "run"]
    /\ UNCHANGED <<render, coord, reqs, events, eventChan, exited, locals>>

\* The command ends
CommandEnds ==
    /\ main.pc = "run"
    /\ main' = [main EXCEPT !.pc = "relock"]
    /\ UNCHANGED <<holder, render, coord, reqs, events, eventChan, exited, locals>>

\* Everything is drawn again, and the screen given up
Relock ==
    /\ main.pc = "relock" /\ Free("mutex")
    /\ holder' = [holder EXCEPT !["mutex"] = "main", !["ui"] = Nobody]
    /\ main' = [main EXCEPT !.pc = "act"]
    /\ UNCHANGED <<render, coord, reqs, events, eventChan, exited, locals>>

\* "Must be unlocked before touching reqBox".  The list that UpdateList has left to
\* the main loop is asked for.
MainUnlock ==
    /\ main.pc = "act" /\ (main.acts \o main.own = <<>> \/ ~main.looping)
    /\ wait' = [wait EXCEPT !.searching = @ \/ main.changed]
    /\ updates' = [updates EXCEPT !.list = FALSE]
    /\ holder' = Taking({"mutex"}, Nobody)
    /\ main' = [main EXCEPT !.pc = "set", !.out = IF updates.list THEN Append(@, "list") ELSE @]
    /\ UNCHANGED <<render, coord, keys, reqs, events, eventChan, server, matcher, exited>>

\* EvtSearchNew first, then the requests, one at a time
SetSearchNew ==
    /\ main.pc = "set" /\ main.changed /\ Free("box")
    /\ events' = events \cup {"new"}
    /\ main' = [main EXCEPT !.changed = FALSE]
    /\ UNCHANGED <<holder, render, coord, reqs, eventChan, exited, locals>>

SetRequests ==
    /\ main.pc = "set" /\ ~main.changed /\ main.out # <<>> /\ Free("req")
    /\ reqs' = reqs \cup {Head(main.out)}
    /\ main' = [main EXCEPT !.out = Tail(@)]
    /\ UNCHANGED <<holder, render, coord, events, eventChan, exited, locals>>

NextIteration ==
    /\ main.pc = "set" /\ ~main.changed /\ main.out = <<>>
    /\ main' = [main EXCEPT !.pc = IF main.looping THEN "select" ELSE "done"]
    /\ UNCHANGED <<holder, render, coord, reqs, events, eventChan, exited, locals>>

-----------------------------------------------------------------------------
(* The render goroutine                                                    *)

RenderWakes ==
    /\ render.pc = "wait" /\ reqs # {} /\ Free("req")
    /\ holder' = Taking({"req"}, "render")
    /\ render' = [pc |-> "first", serves |-> reqs]
    /\ UNCHANGED <<main, coord, reqs, events, eventChan, exited, locals>>

\* Faulty variant of LockOrder: the state is locked before the screen
StateFirst == <<"mutex", "ui">>

\* "t.uiMutex must be locked first to avoid deadlock"
LockOrder == <<"ui", "mutex">>

RenderLocks(pc, i, next) ==
    /\ render.pc = pc /\ Free(LockOrder[i])
    /\ holder' = Taking({LockOrder[i]}, "render")
    /\ render' = [render EXCEPT !.pc = next]
    /\ UNCHANGED <<main, coord, reqs, events, eventChan, exited, locals>>

\* The list is printed.  Another item in focus is made known.
RenderList ==
    LET told == updates.focus /\ ("focus" \in Binds \/ InfoCommand)
    IN  /\ render.pc = "draw" /\ "list" \in render.serves
        /\ render' = [pc |-> IF told THEN "focus" ELSE "draw",
                      serves |-> (render.serves \ {"list"}) \cup (IF told /\ InfoCommand THEN {"info"} ELSE {})]
        /\ updates' = [updates EXCEPT !.focus = FALSE]
        /\ UNCHANGED <<holder, main, coord, reqs, events, eventChan, exited, keys, server, wait, matcher>>

\* The event is sent with the three locks held
RenderFocus ==
    /\ render.pc = "focus" /\ Len(eventChan) < EventCap
    /\ eventChan' = Append(eventChan, "focus")
    /\ render' = [render EXCEPT !.pc = "draw"]
    /\ UNCHANGED <<holder, main, coord, reqs, events, exited, locals>>

\* printInfo runs the info command without the mutex
RenderInfo ==
    /\ render.pc = "draw" /\ "list" \notin render.serves /\ "info" \in render.serves
    /\ {"quit", "close"} \cap render.serves = {}
    /\ render' = [pc |-> IF InfoCommand THEN "info" ELSE "draw", serves |-> render.serves \ {"info"}]
    /\ holder' = IF InfoCommand THEN Taking({"mutex"}, Nobody) ELSE holder
    /\ UNCHANGED <<main, coord, reqs, events, eventChan, exited, locals>>

RenderInfoEnds ==
    /\ render.pc = "info" /\ Free("mutex")
    /\ holder' = Taking({"mutex"}, "render")
    /\ render' = [render EXCEPT !.pc = "draw"]
    /\ UNCHANGED <<main, coord, reqs, events, eventChan, exited, locals>>

RenderDone ==
    /\ render.pc = "draw" /\ {"list", "info", "quit", "close"} \cap render.serves = {}
    /\ holder' = Taking({"mutex", "ui", "req"}, Nobody)
    /\ render' = [pc |-> "wait", serves |-> {}]
    /\ reqs' = {}
    /\ UNCHANGED <<main, coord, events, eventChan, exited, locals>>

\* Faulty variant of RenderExit: the mutex stays locked as well
ExitLocked ==
    /\ render.pc = "draw" /\ "list" \notin render.serves /\ {"quit", "close"} \cap render.serves # {}
    /\ holder' = Taking({"req"}, Nobody)
    /\ render' = [pc |-> "exit", serves |-> {}]
    /\ reqs' = {}
    /\ UNCHANGED <<main, coord, events, eventChan, exited, locals>>

\* exit: the screen stays locked
RenderExit ==
    /\ render.pc = "draw" /\ "list" \notin render.serves /\ {"quit", "close"} \cap render.serves # {}
    /\ holder' = Taking({"mutex", "req"}, Nobody)
    /\ render' = [pc |-> "exit", serves |-> {}]
    /\ reqs' = {}
    /\ UNCHANGED <<main, coord, events, eventChan, exited, locals>>

SetQuit ==
    /\ render.pc = "exit" /\ Free("box")
    /\ events' = events \cup {"quit"}
    /\ render' = [render EXCEPT !.pc = "done"]
    /\ UNCHANGED <<holder, main, coord, reqs, eventChan, exited, locals>>

-----------------------------------------------------------------------------
(* The coordinator: the whole callback with the lock of the event box      *)

CoordWakes ==
    /\ coord.pc = "wait" /\ events # {} /\ Free("box")
    /\ holder' = Taking({"box"}, "coord")
    /\ coord' = [coord EXCEPT !.pc = "serve", !.serves = events]
    /\ events' = {}
    /\ UNCHANGED <<main, render, reqs, eventChan, exited, locals>>

CoordQuit ==
    /\ coord.pc = "serve" /\ "quit" \in coord.serves
    /\ exited' = TRUE
    /\ UNCHANGED <<holder, main, render, coord, reqs, events, eventChan, locals>>

\* Matcher.Reset.  EvtSearchNew puts `reset` into the box of the matcher, the reader's
\* events `retry`; each takes the place of one of its own kind.
Asked(m, kind, final) == [m EXCEPT ![kind] = IF final THEN "final" ELSE "partial", !.lost = FALSE]

CoordSearchNew ==
    /\ coord.pc = "serve" /\ "new" \in coord.serves /\ Free("mutex")
    /\ matcher' = Asked(matcher, "reset", ~matcher.reading)
    /\ coord' = [coord EXCEPT !.serves = @ \ {"new"}]
    /\ UNCHANGED <<holder, main, render, reqs, events, eventChan, exited, keys, server, wait, updates>>

\* UpdateCount has the mutex for an instant (UpdateProgress does the same, and is left
\* out), and asks for the information; then a search of what has been read
CoordRead(e) ==
    /\ coord.pc = "serve" /\ e \in coord.serves /\ Free("mutex")
    /\ LET reading == matcher.reading /\ e = "readnew"
       IN  /\ matcher' = [matcher EXCEPT !.reading = reading]
           /\ updates' = [updates EXCEPT !.load = @ \/ ("load" \in Binds /\ matcher.reading /\ ~reading)]
    /\ coord' = [coord EXCEPT !.pc = "set", !.serves = @ \ {e}, !.out = <<"info">>, !.then = "retry"]
    /\ UNCHANGED <<holder, main, render, reqs, events, eventChan, exited, keys, server, wait>>

CoordRetry ==
    /\ coord.pc = "retry" /\ Free("mutex")
    /\ matcher' = Asked(matcher, "retry", ~matcher.reading)
    /\ coord' = [coord EXCEPT !.pc = "serve"]
    /\ UNCHANGED <<holder, main, render, reqs, events, eventChan, exited, keys, server, wait, updates>>

IfBound(e) == IF e \in Binds THEN <<e>> ELSE <<>>

\* The events of a result, in the order in which UpdateList sends them: load once after
\* the input is read, zero or one for so many matches, result, and result-final when it is read
ListEvents(count) ==
    LET settled(e) == IF matcher.reading THEN <<>> ELSE IfBound(e)
    IN  (IF updates.load THEN <<"load">> ELSE <<>>) \o settled(count)
        \o IfBound("result") \o settled("result-final")

\* UpdateList: a final result ends the wait, and events are sent with the mutex held.
\* When there are any the main loop asks for the list.
CoordList(e) ==
    /\ coord.pc = "serve" /\ e \in coord.serves /\ Free("mutex")
    /\ holder' = Taking({"mutex"}, "coord")
    /\ wait' = IF e = "partial" THEN wait
               ELSE [wait EXCEPT !.searching = FALSE, !.blocked = FALSE,
                                 !.waking = @ \/ (wait.blocked /\ wait.pending # <<>>)]
    /\ \E count \in {"zero", "one", "more"}, focus \in BOOLEAN :
          LET sends == ListEvents(count)
              list == updates.list \/ sends # <<>>
          IN  /\ updates' = [load |-> FALSE, list |-> list, focus |-> focus, listed |-> TRUE]
              /\ coord' = [coord EXCEPT !.pc = "send", !.serves = @ \ {e}, !.sends = sends, !.then = "serve",
                                        !.out = IF list THEN <<"info">> ELSE <<"info", "list">>]
    /\ UNCHANGED <<main, render, reqs, events, eventChan, exited, keys, server, matcher>>

CoordSends ==
    /\ coord.pc = "send" /\ coord.sends # <<>> /\ Len(eventChan) < EventCap
    /\ eventChan' = Append(eventChan, Head(coord.sends))
    /\ coord' = [coord EXCEPT !.sends = Tail(@)]
    /\ UNCHANGED <<holder, main, render, reqs, events, exited, locals>>

CoordUnlock ==
    /\ coord.pc = "send" /\ coord.sends = <<>>
    /\ holder' = Taking({"mutex"}, Nobody)
    /\ coord' = [coord EXCEPT !.pc = "set"]
    /\ UNCHANGED <<main, render, reqs, events, eventChan, exited, locals>>

CoordRequests ==
    /\ coord.pc = "set" /\ Free("req")
    /\ reqs' = reqs \cup {Head(coord.out)}
    /\ coord' = [coord EXCEPT !.out = Tail(@), !.pc = IF Len(coord.out) > 1 THEN "set" ELSE coord.then]
    /\ UNCHANGED <<holder, main, render, events, eventChan, exited, locals>>

CoordDone ==
    /\ coord.pc = "serve" /\ coord.serves = {}
    /\ holder' = Taking({"box"}, Nobody)
    /\ coord' = [coord EXCEPT !.pc = "wait"]
    /\ UNCHANGED <<main, render, reqs, events, eventChan, exited, locals>>

-----------------------------------------------------------------------------
(* The reader, the matcher, and the wake-up after a wait                   *)

SetEvent(e, m) ==
    /\ Free("box")
    /\ events' = events \cup {e}
    /\ matcher' = m
    /\ UNCHANGED <<holder, main, render, coord, reqs, eventChan, exited, keys, server, wait, updates>>

ReaderReads ==
    /\ matcher.partial \in 0..(MaxPartial - 1)
    /\ SetEvent("readnew", [matcher EXCEPT !.partial = @ + 1])

ReaderEnds ==
    /\ matcher.partial >= 0
    /\ SetEvent("readfin", [matcher EXCEPT !.partial = -1])

\* The box is emptied in no given order, and the request that comes last is the search:
\* with two in it one is dropped.  `lost` remembers, until the next request, that it
\* was the search of the whole input.
MatcherTakes ==
    /\ matcher.scan = "none"
    /\ \E kind \in {"retry", "reset"} :
          /\ matcher[kind] # "none"
          /\ matcher' = [matcher EXCEPT !.retry = "none", !.reset = "none", !.scan = matcher[kind],
                           !.lost = matcher[kind] = "partial" /\ "final" \in {matcher.retry, matcher.reset}]
    /\ UNCHANGED <<holder, main, render, coord, reqs, events, eventChan, exited, keys, server, wait, updates>>

\* A later result takes the place of one that is not handled yet
MatcherEnds ==
    /\ matcher.scan # "none" /\ Free("box")
    /\ events' = (events \ {"partial", "final"}) \cup {matcher.scan}
    /\ matcher' = [matcher EXCEPT !.scan = "none"]
    /\ UNCHANGED <<holder, main, render, coord, reqs, eventChan, exited, keys, server, wait, updates>>

\* A `reset` in the box stops a search that goes on: there is no result
MatcherStops ==
    /\ matcher.scan # "none" /\ matcher.reset # "none"
    /\ matcher' = [matcher EXCEPT !.scan = "none"]
    /\ UNCHANGED <<holder, main, render, coord, reqs, events, eventChan, exited, keys, server, wait, updates>>

WakeUp ==
    /\ wait.waking
    /\ server' = server + 1
    /\ wait' = [wait EXCEPT !.waking = FALSE]
    /\ UNCHANGED <<holder, main, render, coord, reqs, events, eventChan, exited, keys, updates, matcher>>

-----------------------------------------------------------------------------
Loop ==
    \/ SelectEvents \/ SelectWakeUp
    \/ MainLock \/ OwnActions \/ Act \/ Wait \/ Execute \/ TakeScreen \/ CommandEnds \/ Relock
    \/ MainUnlock \/ SetSearchNew \/ SetRequests \/ NextIteration

Main == SelectKey \/ Loop

Renderer ==
    \/ RenderWakes \/ RenderLocks("first", 1, "second") \/ RenderLocks("second", 2, "draw")
    \/ RenderList \/ RenderFocus \/ RenderInfo \/ RenderInfoEnds \/ RenderDone \/ RenderExit \/ SetQuit

Coordinator ==
    \/ CoordWakes \/ CoordQuit \/ CoordSearchNew \/ CoordRetry \/ CoordSends \/ CoordUnlock
    \/ CoordRequests \/ CoordDone
    \/ \E e \in {"readnew", "readfin"} : CoordRead(e)
    \/ \E e \in {"partial", "final"} : CoordList(e)

Matcher == MatcherTakes \/ MatcherEnds \/ MatcherStops

Others == ReaderReads \/ ReaderEnds \/ Matcher \/ WakeUp

Next == ~exited /\ (Main \/ Renderer \/ Coordinator \/ Others)

-----------------------------------------------------------------------------
(* Properties                                                              *)

\* Whatever the main loop has received it handles, and comes back to select or
\* ends: no order of the four locks and the sends to eventChan stops everything,
\* as the comments in the render loop and at "Must be unlocked before touching
\* reqBox" are there to ensure.
LoopReturns == main.pc # "select" ~> main.pc \in {"select", "done"} \/ exited

\* A wait ends: a result comes for the search it waits for, and when the result came
\* before, `wait` does not wait ("wait is a no-op").  Excepted is a wait for the search
\* of the whole input that the matcher has dropped.
WaitEnds == wait.blocked ~> ~wait.blocked \/ matcher.lost \/ exited

\* "The wait action blocks the execution of subsequent actions until the current search
\* completes" (src/man/man1/fzf.1).  This does not hold: see WaitEnds.
WaitReleased == wait.blocked ~> ~wait.blocked \/ exited

\* quit and accept end the process, whatever else is going on
QuitQuits == main.pc = "done" ~> exited
=============================================================================
