----------------------------- MODULE EventBox ------------------------------
(***************************************************************************)
(* util/eventbox.go: the box on which one goroutine waits for events that  *)
(* others set.  The waiter modelled here is the coordinator of core.go:    *)
(* with --sync it first ignores EvtReadNew and waits for EvtReadFin, then  *)
(* it watches every event again and handles batches for ever.              *)
(*                                                                         *)
(* Every method runs under cond.L, so each is one action.  Wait is two     *)
(* when the box is empty: cond.Wait gives the lock up (Park), and the      *)
(* callback runs once a Broadcast has been seen and the lock retaken.      *)
(***************************************************************************)
EXTENDS Naturals

CONSTANTS
  EventType,   \* the event types set on this box
  Awaited,     \* the type WaitFor is called with (EvtReadFin)
  Ignored,     \* the types given to Unwatch (EvtReadNew)
  Sync,        \* whether the waiter starts with Unwatch and WaitFor
  MaxValue     \* bound: how often each type is set

ASSUME EventBoxAssumption ==
  /\ Awaited \in EventType
  /\ Ignored \subseteq EventType \ {Awaited}
  /\ Sync \in BOOLEAN
  /\ MaxValue \in Nat

VARIABLES
  events,      \* the keys of the events map
  value,       \* value[e]: the value last set for e (a fresh number each time)
  ignore,      \* the keys of the ignore map
  pc,          \* where the waiting goroutine is
  waiter,      \* "out" of cond.Wait, "parked" in it, or "signalled"
  handled      \* handled[e]: the last value of e the main loop was given

vars == <<events, value, ignore, pc, waiter, handled>>

\* The box as a mailbox: the same values, posted and handed over.
MB == INSTANCE Mailbox WITH EventType <- EventType, MaxValue <- MaxValue,
                            value <- value, handled <- handled

TypeOK ==
  /\ events \subseteq EventType
  /\ value \in [EventType -> Nat]
  /\ ignore \subseteq Ignored
  /\ pc \in {"unwatch", "waitFor", "watch", "loop"}
  /\ waiter \in {"out", "parked", "signalled"}
  /\ handled \in [EventType -> Nat]

Init ==
  /\ events = {}
  /\ value = [e \in EventType |-> 0]
  /\ ignore = {}
  /\ pc = IF Sync THEN "unwatch" ELSE "watch"
  /\ waiter = "out"
  /\ handled = [e \in EventType |-> 0]

-----------------------------------------------------------------------------
\* A producer: store the value and, unless the type is ignored, broadcast.
Set(e) ==
  /\ value[e] < MaxValue
  /\ events' = events \cup {e}
  /\ value' = [value EXCEPT ![e] = @ + 1]
  /\ waiter' = IF waiter = "parked" /\ e \notin ignore THEN "signalled" ELSE waiter
  /\ UNCHANGED <<ignore, pc, handled>>

Unwatch ==
  /\ pc = "unwatch"
  /\ ignore' = ignore \cup Ignored
  /\ pc' = "waitFor"
  /\ UNCHANGED <<events, value, waiter, handled>>

\* Faulty variant of Watch: the ignored types stay ignored.
WatchForgets ==
  /\ pc = "watch"
  /\ pc' = "loop"
  /\ UNCHANGED <<events, value, ignore, waiter, handled>>

Watch ==
  /\ pc = "watch"
  /\ ignore' = ignore \ Ignored
  /\ pc' = "loop"
  /\ UNCHANGED <<events, value, waiter, handled>>

\* Wait on an empty box: the goroutine sleeps in cond.Wait.
Park ==
  /\ pc \in {"waitFor", "loop"}
  /\ waiter = "out"
  /\ events = {}
  /\ waiter' = "parked"
  /\ UNCHANGED <<events, value, ignore, pc, handled>>

\* Wait calls the callback: the box was not empty, or cond.Wait returned.
\* There is one test of the box and no loop around cond.Wait.
Callback ==
  /\ \/ waiter = "out" /\ events # {}
     \/ waiter = "signalled"
  /\ waiter' = "out"

\* The callback of WaitFor only looks for its event; nothing is cleared.
WaitForCallback ==
  /\ pc = "waitFor"
  /\ Callback
  /\ pc' = IF Awaited \in events THEN "watch" ELSE pc
  /\ UNCHANGED <<events, value, ignore, handled>>

\* Faulty variant of LoopCallback: it handles one event and clears them all.
LoopHandlesOne ==
  /\ pc = "loop"
  /\ Callback
  /\ \E e \in events : handled' = [handled EXCEPT ![e] = value[e]]
  /\ events' = {}
  /\ UNCHANGED <<value, ignore, pc>>

\* The callback of the main loop handles every event and clears the box.
LoopCallback ==
  /\ pc = "loop"
  /\ Callback
  /\ handled' = [e \in EventType |-> IF e \in events THEN value[e] ELSE handled[e]]
  /\ events' = {}
  /\ UNCHANGED <<value, ignore, pc>>

Waiter == Unwatch \/ Watch \/ Park \/ WaitForCallback \/ LoopCallback

Next == Waiter \/ \E e \in EventType : Set(e)

Spec == Init /\ [][Next]_vars

\* The waiting goroutine runs whenever it can; nobody has to set an event.
FairSpec == Spec /\ WF_vars(Waiter)

-----------------------------------------------------------------------------
\* No lost wake-up: the goroutine sleeps in cond.Wait only while nothing but
\* ignored events is in the box (Set broadcasts for every other type, and
\* Wait looks at the map before it sleeps, under the same lock).
NoLostWakeup == waiter = "parked" => events \subseteq ignore

\* Wait has no loop around cond.Wait, so its callback relies on the box still
\* holding something when the lock is retaken after a Broadcast.
CallbackSeesEvents == waiter = "signalled" => events # {}

\* The map holds exactly the types whose newest value was not handled yet:
\* neither Unwatch nor WaitFor, which leaves the box as it is, loses a value.
NothingDropped == \A e \in EventType : e \in events <=> handled[e] # value[e]

\* The --sync promise (core.go): the first event is handled after EvtReadFin
\* has been set, whatever was set before it.
SyncBarrier ==
  Sync /\ (\E e \in EventType : handled[e] > 0) => value[Awaited] > 0

\* The box implements the mailbox: a callback delivers the newest value of
\* every outstanding type, and nothing is delivered twice or dropped.
ImplementsMailbox == MB!MailboxSpec

\* Every event set is handled, once the main loop runs or WaitFor returns; and
\* it does when its event has been set, also when others were set before it and
\* keep the box from ever being empty.
EventuallyHandled ==
  \A e \in EventType :
    (e \in events /\ (pc = "loop" \/ Awaited \in events)) ~> handled[e] = value[e]
=============================================================================
