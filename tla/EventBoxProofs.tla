--------------------------- MODULE EventBoxProofs --------------------------
(***************************************************************************)
(* Proofs that the event box of EventBox.tla keeps its invariants and      *)
(* implements the mailbox of Mailbox.tla, for any set of event types.      *)
(***************************************************************************)
EXTENDS EventBox, TLAPS

\* The waiter passes "watch" only through WaitFor, and only "loop" handles.
SyncStages ==
  /\ Sync /\ pc \in {"watch", "loop"} => value[Awaited] > 0
  /\ pc # "loop" => \A e \in EventType : handled[e] = 0

\* While WaitFor runs, the ignored types are the ones Unwatch was given.
WaiterStages ==
  /\ pc \in {"unwatch", "watch"} => waiter = "out"
  /\ pc = "loop" => ignore = {}

\* The inductive invariant: a wake-up cannot be lost because the box is never
\* emptied while the goroutine sleeps, and because ignore does not change then.
IInv ==
  /\ TypeOK
  /\ NoLostWakeup
  /\ CallbackSeesEvents
  /\ NothingDropped
  /\ SyncStages
  /\ WaiterStages

\* A value is only ever replaced by a larger one, so a fresh value differs
\* from the one handled last: the box never handles a value it does not hold.
HandledBelow == \A e \in EventType : handled[e] <= value[e]

-----------------------------------------------------------------------------
\* The box starts empty, with nothing handled: the invariant holds.
LEMMA InitIInv == Init => IInv /\ HandledBelow
  <1> SUFFICES ASSUME Init PROVE IInv /\ HandledBelow
    OBVIOUS
  <1>1. TypeOK
    BY EventBoxAssumption DEF Init, TypeOK
  <1>2. NoLostWakeup /\ CallbackSeesEvents /\ WaiterStages
    BY EventBoxAssumption DEF Init, NoLostWakeup, CallbackSeesEvents, WaiterStages
  <1>3. NothingDropped /\ HandledBelow
    BY DEF Init, NothingDropped, HandledBelow
  <1>4. SyncStages
    BY EventBoxAssumption DEF Init, SyncStages
  <1> QED
    BY <1>1, <1>2, <1>3, <1>4 DEF IInv

\* Set: the only step that adds to the box. It wakes the sleeper up unless the
\* type is ignored, and a value it stores is larger than what was handled.
LEMMA SetIInv ==
  ASSUME IInv, HandledBelow, NEW e \in EventType, Set(e)
  PROVE  IInv' /\ HandledBelow'
  <1> USE DEF IInv, Set
  <1>1. TypeOK'
    BY DEF TypeOK
  <1>2. NoLostWakeup' /\ CallbackSeesEvents'
    BY DEF NoLostWakeup, CallbackSeesEvents
  <1>3. NothingDropped' /\ HandledBelow'
    <2> SUFFICES ASSUME NEW f \in EventType
                 PROVE  /\ f \in events' <=> handled'[f] # value'[f]
                        /\ handled'[f] <= value'[f]
      BY DEF NothingDropped, HandledBelow
    <2>1. value'[f] = IF f = e THEN value[f] + 1 ELSE value[f]
      BY DEF TypeOK
    <2>2. handled[f] <= value[f] /\ handled[f] \in Nat /\ value[f] \in Nat
      BY DEF TypeOK, HandledBelow
    <2> QED
      BY <2>1, <2>2 DEF NothingDropped
  <1>4. SyncStages'
    BY EventBoxAssumption DEF SyncStages, TypeOK
  <1>5. WaiterStages'
    BY DEF WaiterStages
  <1> QED
    BY <1>1, <1>2, <1>3, <1>4, <1>5

\* The steps of the waiting goroutine keep the invariant: the box is emptied
\* only by the callback, which hands over everything that is in it.
LEMMA WaiterIInv ==
  ASSUME IInv, HandledBelow, Waiter
  PROVE  IInv' /\ HandledBelow'
  <1> USE DEF IInv
  <1>1. CASE Unwatch
    <2>1. TypeOK' /\ SyncStages'
      BY <1>1 DEF Unwatch, TypeOK, SyncStages
    <2>2. NoLostWakeup' /\ CallbackSeesEvents' /\ WaiterStages'
      BY <1>1 DEF Unwatch, NoLostWakeup, CallbackSeesEvents, WaiterStages
    <2> QED
      BY <1>1, <2>1, <2>2 DEF Unwatch, NothingDropped, HandledBelow
  <1>2. CASE Watch
    <2>1. TypeOK' /\ SyncStages'
      BY <1>2 DEF Watch, TypeOK, SyncStages
    <2>2. NoLostWakeup' /\ CallbackSeesEvents' /\ WaiterStages'
      BY <1>2 DEF Watch, TypeOK, NoLostWakeup, CallbackSeesEvents, WaiterStages
    <2> QED
      BY <1>2, <2>1, <2>2 DEF Watch, NothingDropped, HandledBelow
  <1>3. CASE Park
    <2>1. TypeOK' /\ SyncStages'
      BY <1>3 DEF Park, TypeOK, SyncStages
    <2>2. NoLostWakeup' /\ CallbackSeesEvents' /\ WaiterStages'
      BY <1>3 DEF Park, NoLostWakeup, CallbackSeesEvents, WaiterStages
    <2> QED
      BY <1>3, <2>1, <2>2 DEF Park, NothingDropped, HandledBelow
  <1>4. CASE WaitForCallback
    <2>1. TypeOK'
      BY <1>4 DEF WaitForCallback, Callback, TypeOK
    <2>2. SyncStages'
      <3>1. Awaited \in events => value[Awaited] > 0
        BY EventBoxAssumption DEF TypeOK, NothingDropped, HandledBelow
      <3> QED
        BY <1>4, <3>1 DEF WaitForCallback, SyncStages
    <2>3. NoLostWakeup' /\ CallbackSeesEvents' /\ WaiterStages'
      BY <1>4 DEF WaitForCallback, Callback, NoLostWakeup, CallbackSeesEvents, WaiterStages
    <2> QED
      BY <1>4, <2>1, <2>2, <2>3 DEF WaitForCallback, NothingDropped, HandledBelow
  <1>5. CASE LoopCallback
    <2>1. TypeOK' /\ SyncStages'
      BY <1>5 DEF LoopCallback, Callback, TypeOK, SyncStages
    <2>2. NoLostWakeup' /\ CallbackSeesEvents' /\ WaiterStages'
      BY <1>5 DEF LoopCallback, Callback, NoLostWakeup, CallbackSeesEvents, WaiterStages
    <2>3. NothingDropped' /\ HandledBelow'
      BY <1>5 DEF LoopCallback, TypeOK, NothingDropped, HandledBelow
    <2> QED
      BY <2>1, <2>2, <2>3
  <1> QED
    BY <1>1, <1>2, <1>3, <1>4, <1>5 DEF Waiter

\* The invariant holds in every reachable state of the box.
LEMMA Inductive == Spec => [](IInv /\ HandledBelow)
  <1>1. IInv /\ HandledBelow /\ [Next]_vars => (IInv /\ HandledBelow)'
    <2> SUFFICES ASSUME IInv, HandledBelow, [Next]_vars
                 PROVE  IInv' /\ HandledBelow'
      OBVIOUS
    <2>1. CASE Next
      BY <2>1, SetIInv, WaiterIInv DEF Next
    <2>2. CASE UNCHANGED vars
      BY <2>2 DEF vars, IInv, TypeOK, NoLostWakeup, CallbackSeesEvents,
                  NothingDropped, SyncStages, WaiterStages, HandledBelow
    <2> QED
      BY <2>1, <2>2
  <1> QED
    BY <1>1, InitIInv, PTL DEF Spec

-----------------------------------------------------------------------------
\* The variables of the box keep their types.
THEOREM Typing == Spec => []TypeOK
  BY Inductive, PTL DEF IInv

\* The goroutine never sleeps while an event it has to see is in the box, for
\* any set of event types and any pattern of Set calls.
THEOREM WakeUp == Spec => []NoLostWakeup
  BY Inductive, PTL DEF IInv

\* Although Wait has no loop around cond.Wait, its callback never runs on an
\* empty box when one goroutine waits.
THEOREM NoEmptyCallback == Spec => []CallbackSeesEvents
  BY Inductive, PTL DEF IInv

\* The box holds exactly the types whose newest value was not handled.
THEOREM Outstanding == Spec => []NothingDropped
  BY Inductive, PTL DEF IInv

\* With --sync no event is handled before EvtReadFin was set.
THEOREM Barrier == Spec => []SyncBarrier
  <1>1. IInv => SyncBarrier
    BY DEF IInv, TypeOK, SyncStages, SyncBarrier
  <1> QED
    BY <1>1, Inductive, PTL

\* The box implements the mailbox: each step is a Post, a Deliver of all that
\* is outstanding, or invisible.
THEOREM Refinement == Spec => ImplementsMailbox
  <1>1. Init => MB!MailboxInit
    BY DEF Init, MB!MailboxInit
  <1>2. IInv /\ [Next]_vars => [MB!MailboxNext]_(MB!mailboxVars)
    <2> SUFFICES ASSUME IInv, [Next]_vars
                 PROVE  [MB!MailboxNext]_(MB!mailboxVars)
      OBVIOUS
    <2>1. CASE \E e \in EventType : Set(e)
      BY <2>1 DEF Set, MB!MailboxNext, MB!Post
    <2>2. CASE LoopCallback
      <3>1. events # {}
        BY <2>2 DEF LoopCallback, Callback, IInv, CallbackSeesEvents
      <3>2. handled # value
        BY <3>1 DEF IInv, TypeOK, NothingDropped
      <3>3. handled' = value
        BY <2>2 DEF LoopCallback, IInv, TypeOK, NothingDropped
      <3> QED
        BY <2>2, <3>2, <3>3 DEF LoopCallback, MB!MailboxNext, MB!Deliver
    <2>3. CASE Unwatch \/ Watch \/ Park \/ WaitForCallback
      BY <2>3 DEF Unwatch, Watch, Park, WaitForCallback, MB!mailboxVars
    <2>4. CASE UNCHANGED vars
      BY <2>4 DEF vars, MB!mailboxVars
    <2> QED
      BY <2>1, <2>2, <2>3, <2>4 DEF Next, Waiter
  <1> QED
    BY <1>1, <1>2, Inductive, PTL DEF Spec, ImplementsMailbox, MB!MailboxSpec
=============================================================================
