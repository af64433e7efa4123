------------------------------ MODULE Mailbox ------------------------------
(***************************************************************************)
(* What an event box promises to the code that posts to it and to the one  *)
(* goroutine that waits on it: every posted value is either handed to the  *)
(* waiter or replaced by a later value of the same event type, and one     *)
(* hand-over delivers the newest value of every type at once.              *)
(* util/eventbox.go implements it with a map and a condition variable; the *)
(* detailed model is EventBox.tla.                                         *)
(***************************************************************************)
EXTENDS Naturals

CONSTANTS
  EventType,   \* the event types of the box
  MaxValue     \* bound on the number of values posted per type

VARIABLES
  value,       \* value[e]: the newest value posted under type e, 0 if none
  handled      \* handled[e]: the newest value of type e the waiter was given

mailboxVars == <<value, handled>>

MailboxInit ==
  /\ value = [e \in EventType |-> 0]
  /\ handled = [e \in EventType |-> 0]

\* A producer posts a value; an earlier one that was not handed over is lost.
Post(e) ==
  /\ value[e] < MaxValue
  /\ value' = [value EXCEPT ![e] = @ + 1]
  /\ UNCHANGED handled

\* The waiter takes everything that is outstanding.
Deliver ==
  /\ handled # value
  /\ handled' = value
  /\ UNCHANGED value

MailboxNext == Deliver \/ \E e \in EventType : Post(e)

MailboxSpec == MailboxInit /\ [][MailboxNext]_mailboxVars
=============================================================================
