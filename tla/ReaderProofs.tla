---------------------------- MODULE ReaderProofs ---------------------------
(***************************************************************************)
(* Proofs about Reader.tla, for any kinds of sources, any number of        *)
(* sessions and of items: sessions do not mix, a final search is final,    *)
(* and a command that was killed to make way for the next one is never     *)
(* reported as failed.                                                     *)
(***************************************************************************)
EXTENDS Reader, FiniteSetTheorems, TLAPS

\* How far fin and the poller of the session have got with each other: the
\* poller leaves once it has seen EvtReadFin, and fin waits for its signal.
Handshake ==
  /\ reader \in {"start", "ready", "feed", "pushed", "fin"} =>
       event # "ReadFin" /\ finChan = 0 /\ poller[session] # "gone"
  /\ reader = "recv" =>
       /\ event = "ReadFin"
       /\ finChan = IF poller[session] = "gone" THEN 1 ELSE 0
  /\ reader \in {"ret", "set", "done"} =>
       event = "ReadFin" /\ finChan = 0 /\ poller[session] = "gone"

\* The pollers of earlier sessions have left, those of later ones are to come.
Pollers ==
  /\ poller[session] # "none"
  /\ \A s \in Session : (s < session => poller[s] = "gone") /\ (s > session => poller[s] = "none")

\* The coordinator goes on only when a new session has signalled readyChan.
Readiness ==
  /\ coord \in {"boot", "ready"} => reader = IF readyChan THEN "ready" ELSE "start"
  /\ coord \in {"wait", "batch"} => ~readyChan /\ reader # "start"

\* EvtReadFin is on its way from the end of fin until the coordinator handles
\* it, and that is how long the coordinator believes that the reader reads.
FinOnItsWay ==
  /\ reader # "done" => reading
  /\ "ReadFin" \in batch => coord = "batch" /\ "ReadNew" \notin batch
  /\ "ReadFin" \in batch \/ (coord \in {"boot", "wait"} /\ "ReadFin" \in box) =>
       reader = "done" /\ reading
  /\ reader = "done" /\ reading =>
       "ReadFin" \in batch \/ (coord = "wait" /\ "ReadFin" \in box)
  /\ coord \in {"boot", "wait"} => batch = {}

\* What EvtReadFin reports is its own session, and a session that was told to
\* terminate is followed by the next command before its failure is shown.
Reports ==
  /\ nextCommand => reading
  /\ \A s \in stopped : s <= session
  /\ reading /\ session \in stopped => nextCommand
  /\ reader = "set" => ret \in {0, session}
  /\ reader = "done" => finValue \in {0, session}
  /\ shown <= session
  /\ reading => shown # session

\* Only the newest session has items in the list.
NewestListed == \A s \in Session : list[s] > 0 => s = session

\* A command killed for a reload is not shown as failed: EvtReadFin reports
\* the command even if it is killed after fin has looked at r.killed, but then
\* the coordinator starts the next command instead of showing the failure.
KilledNotShown == shown \notin stopped

IInv ==
  /\ TypeOK
  /\ Handshake
  /\ Pollers
  /\ Readiness
  /\ FinOnItsWay
  /\ FinalIsComplete
  /\ NewestListed
  /\ Reports
  /\ KilledNotShown
-----------------------------------------------------------------------------
\* One session and one poller at first, nothing read, nothing to report.
LEMMA InitIInv == Init => IInv
  <1> SUFFICES ASSUME Init PROVE IInv
    OBVIOUS
  <1>1. ReaderTypes
    BY ReaderAssumption DEF Init, Session, ReaderTypes
  <1>2. PollTypes
    <2>1. poller \in [Session -> {"none", "poll", "set", "gone"}]
      BY DEF Init
    <2>2. event \in {"Ready", "ReadNew", "ReadFin"} /\ finChan \in 0 .. 1
      BY DEF Init
    <2>3. killed \in BOOLEAN /\ readyChan \in BOOLEAN /\ termFunc \in {"none", "stdin", "command"}
      BY DEF Init
    <2> QED
      BY <2>1, <2>2, <2>3 DEF PollTypes
  <1>3. BoxTypes
    BY ReaderAssumption DEF Init, Nothing, BoxTypes
  <1>4. CoordTypes
    <2>1. seen \in [Session -> 0 .. MaxItems] /\ shown \in 0 .. MaxSessions
      BY ReaderAssumption DEF Init, Nothing
    <2> QED
      BY <2>1 DEF Init, CoordTypes
  <1>5. Handshake /\ Pollers /\ Readiness /\ FinOnItsWay
    BY ReaderAssumption DEF Init, Session, Handshake, Pollers, Readiness, FinOnItsWay
  <1>6. FinalIsComplete /\ NewestListed /\ Reports /\ KilledNotShown
    BY ReaderAssumption
    DEF Init, Nothing, FinalIsComplete, NewestListed, Reports, KilledNotShown
  <1> QED
    BY <1>1, <1>2, <1>3, <1>4, <1>5, <1>6 DEF IInv, TypeOK

-----------------------------------------------------------------------------
\* Every step keeps the types.
LEMMA TypeStep ==
  ASSUME TypeOK, [Next]_vars
  PROVE  TypeOK'
  <1> USE ReaderAssumption
      DEF TypeOK, Session, readerVars, pollVars, termVars, coordVars, BoxTypes
  <1>1. CASE ReaderRuns \/ PushItem \/ EndOfSource
    <2>1. CASE Start \/ Feed
      <3>1. ReaderTypes'
        BY <2>1 DEF Start, Feed, ReaderTypes
      <3>2. PollTypes' /\ BoxTypes'
        BY <2>1 DEF Start, Feed, PollTypes
      <3>3. CoordTypes'
        BY <2>1 DEF Start, Feed, CoordTypes
      <3> QED
        BY <3>1, <3>2, <3>3 DEF TypeOK
    <2>2. CASE PushItem \/ NotePushed
      <3>1. ReaderTypes'
        BY <2>2 DEF PushItem, NotePushed, ReaderTypes
      <3>2. PollTypes'
        BY <2>2 DEF PushItem, NotePushed, PollTypes
      <3>3. BoxTypes'
        <4>1. CASE PushItem
          <5>1. list[session] + 1 \in 0 .. MaxItems
            BY <4>1 DEF PushItem, ReaderTypes
          <5> QED
            BY <4>1, <5>1 DEF PushItem, ReaderTypes
        <4> QED
          BY <2>2, <4>1 DEF NotePushed
      <3>4. CoordTypes'
        BY <2>2 DEF PushItem, NotePushed, CoordTypes
      <3> QED
        BY <3>1, <3>2, <3>3, <3>4 DEF TypeOK
    <2>3. CASE EndOfSource \/ EndKilled
      <3>1. ReaderTypes'
        BY <2>3 DEF EndOfSource, EndKilled, ReaderTypes
      <3>2. PollTypes' /\ BoxTypes'
        BY <2>3 DEF EndOfSource, EndKilled, PollTypes
      <3>3. CoordTypes'
        BY <2>3 DEF EndOfSource, EndKilled, CoordTypes
      <3> QED
        BY <3>1, <3>2, <3>3 DEF TypeOK
    <2>4. CASE FinStore \/ FinReceive \/ FinReturn \/ FinSet
      <3>1. ReaderTypes'
        BY <2>4 DEF FinStore, FinReceive, FinReturn, FinSet, ReaderTypes
      <3>2. PollTypes'
        BY <2>4 DEF FinStore, FinReceive, FinReturn, FinSet, PollTypes
      <3>3. BoxTypes'
        BY <2>4 DEF FinStore, FinReceive, FinReturn, FinSet, ReaderTypes
      <3>4. CoordTypes'
        BY <2>4 DEF FinStore, FinReceive, FinReturn, FinSet, CoordTypes
      <3> QED
        BY <3>1, <3>2, <3>3, <3>4 DEF TypeOK
    <2> QED
      BY <1>1, <2>1, <2>2, <2>3, <2>4 DEF ReaderRuns
  <1>2. ASSUME NEW s \in Session, Poll(s) PROVE TypeOK'
    <2>1. PollTypes'
      BY <1>2 DEF Poll, PollSwap, PollSet, PollFin, PollTypes
    <2>2. ReaderTypes'
      BY <1>2 DEF Poll, PollSwap, PollSet, PollFin, ReaderTypes
    <2>3. BoxTypes' /\ CoordTypes'
      BY <1>2 DEF Poll, PollSwap, PollSet, PollFin, CoordTypes
    <2> QED
      BY <2>1, <2>2, <2>3 DEF TypeOK
  <1>3. CASE RequestReload \/ Boot \/ Take \/ Release \/ Ready
    <2>1. ReaderTypes'
      BY <1>3 DEF RequestReload, Boot, Take, Release, Ready, ReaderTypes
    <2>2. PollTypes'
      BY <1>3 DEF RequestReload, Boot, Take, Release, Ready, PollTypes
    <2>3. BoxTypes' /\ CoordTypes'
      BY <1>3 DEF RequestReload, Boot, Take, Release, Ready, CoordTypes
    <2> QED
      BY <2>1, <2>2, <2>3 DEF TypeOK
  <1>4. ASSUME Restart, batch' \subseteq batch, nextCommand' \in BOOLEAN, UNCHANGED shown
        PROVE  TypeOK'
    <2>1. ReaderTypes'
      BY <1>4 DEF Restart, ReaderTypes
    <2>2. PollTypes'
      BY <1>4 DEF Restart, PollTypes
    <2>3. BoxTypes' /\ CoordTypes'
      BY <1>4 DEF Restart, Nothing, CoordTypes
    <2> QED
      BY <2>1, <2>2, <2>3 DEF TypeOK
  <1>5. ASSUME NEW e \in {"ReadNew", "ReadFin"}, HandleRead(e) PROVE TypeOK'
    <2>1. ReaderTypes' /\ PollTypes' /\ BoxTypes'
      BY <1>5 DEF HandleRead, ReaderTypes, PollTypes
    <2>2. CoordTypes'
      BY <1>5 DEF HandleRead, CoordTypes
    <2> QED
      BY <2>1, <2>2 DEF TypeOK
  <1>6. CASE HandleKilledFin
    BY <1>4, <1>6 DEF HandleKilledFin
  <1>7. CASE HandleReload
    <2>1. CASE reading
      <3>1. ReaderTypes' /\ BoxTypes'
        BY <1>7, <2>1 DEF HandleReload, Terminate, ReaderTypes
      <3>2. PollTypes'
        BY <1>7, <2>1 DEF HandleReload, Terminate, PollTypes
      <3>3. CoordTypes'
        BY <1>7, <2>1 DEF HandleReload, Terminate, ReaderTypes, CoordTypes
      <3> QED
        BY <3>1, <3>2, <3>3 DEF TypeOK
    <2>2. CASE ~reading
      BY <1>4, <1>7, <2>2 DEF HandleReload, CoordTypes
    <2> QED
      BY <2>1, <2>2
  <1>8. CASE UNCHANGED vars
    BY <1>8 DEF vars, ReaderTypes, PollTypes, CoordTypes
  <1> QED
    BY <1>1, <1>2, <1>3, <1>5, <1>6, <1>7, <1>8 DEF Next, Coordinator

-----------------------------------------------------------------------------
\* The reader goroutine: until fin has waited for the poller nothing but the
\* list and r.event changes, and then it reports its own session.
LEMMA ReaderStep ==
  ASSUME IInv, ReaderRuns \/ PushItem \/ EndOfSource
  PROVE  IInv'
  <1>0. TypeOK'
    BY TypeStep DEF IInv, Next
  <1> USE DEF IInv, TypeOK, ReaderTypes, PollTypes, BoxTypes, CoordTypes, Session,
              readerVars, pollVars, termVars, coordVars,
              Handshake, Pollers, Readiness, FinOnItsWay, FinalIsComplete,
              NewestListed, Reports, KilledNotShown
  <1>1. CASE Start \/ Feed
    BY <1>0, <1>1 DEF Start, Feed
  <1>2. CASE PushItem \/ NotePushed
    BY <1>0, <1>2 DEF PushItem, NotePushed
  <1>3. CASE EndOfSource \/ EndKilled
    BY <1>0, <1>3 DEF EndOfSource, EndKilled
  <1>4. CASE FinStore
    BY <1>0, <1>4 DEF FinStore
  <1>5. CASE FinReceive
    BY <1>0, <1>5 DEF FinReceive
  <1>6. CASE FinReturn
    BY <1>0, <1>6 DEF FinReturn
  <1>7. CASE FinSet
    BY <1>0, <1>7 DEF FinSet, BoxUnlocked
  <1> QED
    BY <1>1, <1>2, <1>3, <1>4, <1>5, <1>6, <1>7 DEF ReaderRuns

\* The poller: it leaves only when fin waits for it, with finChan empty.
LEMMA PollStep ==
  ASSUME IInv, NEW s \in Session, Poll(s)
  PROVE  IInv'
  <1>0. TypeOK'
    BY TypeStep DEF IInv, Next
  <1> USE DEF IInv, TypeOK, ReaderTypes, PollTypes, BoxTypes, CoordTypes, Session,
              readerVars, termVars, coordVars, BoxUnlocked
  <1>1. s = session
    BY DEF Poll, PollSwap, PollSet, PollFin, Pollers
  <1>2. Handshake' /\ Pollers'
    BY <1>0, <1>1 DEF Poll, PollSwap, PollSet, PollFin, Handshake, Pollers
  <1>3. Readiness' /\ FinOnItsWay' /\ FinalIsComplete'
    BY <1>0, <1>1 DEF Poll, PollSwap, PollSet, PollFin, Handshake,
                      Readiness, FinOnItsWay, FinalIsComplete
  <1>4. NewestListed' /\ Reports' /\ KilledNotShown'
    BY <1>0, <1>1 DEF Poll, PollSwap, PollSet, PollFin, NewestListed, Reports, KilledNotShown
  <1> QED
    BY <1>0, <1>2, <1>3, <1>4

-----------------------------------------------------------------------------
\* A session is started only when the one before is done with everything, the
\* poller included, and its EvtReadFin is out of the way.
LEMMA RestartStep ==
  ASSUME IInv, TypeOK', Restart, coord = "batch", reader = "done", UNCHANGED shown,
         batch' \subseteq batch, "ReadFin" \notin batch', nextCommand' = FALSE
  PROVE  IInv'
  <1> USE ReaderAssumption
      DEF IInv, TypeOK, ReaderTypes, PollTypes, BoxTypes, CoordTypes, Session, Restart, termVars
  <1>1. session + 1 \in Session /\ session' = session + 1
    OBVIOUS
  <1>2. /\ poller'[session + 1] = "poll"
        /\ \A s \in Session : s # session + 1 => poller'[s] = poller[s]
    BY <1>1
  <1>3. \A s \in Session : list'[s] = 0
    BY DEF Nothing
  <1>4. finChan = 0 /\ poller[session] = "gone"
    BY DEF Handshake
  <1>5. Handshake'
    BY <1>1, <1>2, <1>4 DEF Handshake
  <1>6. Pollers'
    BY <1>1, <1>2, <1>4 DEF Pollers
  <1>7. Readiness'
    BY DEF Readiness
  <1>8. FinOnItsWay' /\ FinalIsComplete'
    BY DEF FinOnItsWay, FinalIsComplete
  <1>9. NewestListed' /\ KilledNotShown'
    BY <1>3 DEF NewestListed, KilledNotShown
  <1>10. Reports'
    BY <1>1 DEF Reports
  <1> QED
    BY <1>5, <1>6, <1>7, <1>8, <1>9, <1>10

\* A plain or a final search: the latter only in the batch of EvtReadFin, when
\* there is nobody left who could push an item or set EvtReadNew.
LEMMA ReadHandled ==
  ASSUME IInv, TypeOK', NEW e \in {"ReadNew", "ReadFin"}, HandleRead(e)
  PROVE  IInv'
  <1> USE DEF IInv, TypeOK, ReaderTypes, PollTypes, BoxTypes, CoordTypes, Session,
              readerVars, pollVars, termVars, HandleRead
  <1>1. Handshake' /\ Pollers' /\ Readiness' /\ NewestListed'
    BY DEF Handshake, Pollers, Readiness, NewestListed
  <1>2. FinOnItsWay' /\ FinalIsComplete'
    BY DEF FinOnItsWay, FinalIsComplete, Handshake
  <1>3. Reports' /\ KilledNotShown'
    BY DEF Reports, KilledNotShown, FinOnItsWay
  <1> QED
    BY <1>1, <1>2, <1>3

\* A reload kills the command that runs, or starts the next one.
LEMMA ReloadHandled ==
  ASSUME IInv, TypeOK', HandleReload
  PROVE  IInv'
  <1>1. CASE reading
    <2> USE <1>1 DEF IInv, TypeOK, ReaderTypes, PollTypes, BoxTypes, CoordTypes, Session,
                     pollVars, HandleReload, Terminate
    <2>1. Handshake' /\ Pollers' /\ Readiness' /\ NewestListed'
      BY DEF Handshake, Pollers, Readiness, NewestListed
    <2>2. FinOnItsWay' /\ FinalIsComplete'
      BY DEF FinOnItsWay, FinalIsComplete
    <2>3. Reports' /\ KilledNotShown'
      BY DEF Reports, KilledNotShown
    <2> QED
      BY <2>1, <2>2, <2>3
  <1>2. CASE ~reading
    <2>1. Restart /\ UNCHANGED <<nextCommand, shown>> /\ coord = "batch" /\ batch' \subseteq batch
      BY <1>2 DEF HandleReload
    <2>2. reader = "done" /\ "ReadFin" \notin batch
      BY <1>2 DEF IInv, FinOnItsWay
    <2>3. nextCommand = FALSE
      BY <1>2 DEF IInv, TypeOK, CoordTypes, Reports
    <2> QED
      BY <2>1, <2>2, <2>3, RestartStep
  <1> QED
    BY <1>1, <1>2

LEMMA CoordinatorStep ==
  ASSUME IInv, RequestReload \/ Coordinator
  PROVE  IInv'
  <1>0. TypeOK'
    BY TypeStep DEF IInv, Next
  <1>1. CASE RequestReload \/ Boot \/ Take \/ Release \/ Ready
    <2> USE <1>0, <1>1
        DEF IInv, TypeOK, ReaderTypes, PollTypes, BoxTypes, CoordTypes, Session,
            readerVars, pollVars, termVars, coordVars, BoxUnlocked,
            RequestReload, Boot, Take, Release, Ready
    <2>1. Handshake' /\ Pollers' /\ Readiness' /\ NewestListed'
      BY DEF Handshake, Pollers, Readiness, NewestListed
    <2>2. FinOnItsWay' /\ FinalIsComplete'
      BY DEF FinOnItsWay, FinalIsComplete, Readiness
    <2>3. Reports' /\ KilledNotShown'
      BY DEF Reports, KilledNotShown
    <2> QED
      BY <2>1, <2>2, <2>3
  <1>2. CASE \E e \in {"ReadNew", "ReadFin"} : HandleRead(e)
    BY <1>0, <1>2, ReadHandled
  <1>3. CASE HandleKilledFin
    <2>1. reader = "done" /\ coord = "batch" /\ "ReadFin" \notin batch' /\ batch' \subseteq batch
      BY <1>3 DEF HandleKilledFin, IInv, FinOnItsWay
    <2> QED
      BY <1>0, <1>3, <2>1, RestartStep DEF HandleKilledFin
  <1>4. CASE HandleReload
    BY <1>0, <1>4, ReloadHandled
  <1> QED
    BY <1>1, <1>2, <1>3, <1>4 DEF Coordinator

\* The invariant holds in every reachable state.
LEMMA Inductive == Spec => []IInv
  <1>1. IInv /\ [Next]_vars => IInv'
    <2> SUFFICES ASSUME IInv, [Next]_vars
                 PROVE  IInv'
      OBVIOUS
    <2>1. CASE UNCHANGED vars
      <3>1. TypeOK'
        BY TypeStep DEF IInv
      <3>2. Handshake' /\ Pollers' /\ Readiness' /\ FinOnItsWay'
        BY <2>1 DEF vars, readerVars, pollVars, termVars, coordVars, IInv,
                    Handshake, Pollers, Readiness, FinOnItsWay
      <3>3. FinalIsComplete' /\ NewestListed' /\ Reports' /\ KilledNotShown'
        BY <2>1 DEF vars, readerVars, pollVars, termVars, coordVars, IInv,
                    FinalIsComplete, NewestListed, Reports, KilledNotShown
      <3> QED
        BY <3>1, <3>2, <3>3 DEF IInv
    <2> QED
      BY <2>1, ReaderStep, PollStep, CoordinatorStep DEF Next
  <1> QED
    BY <1>1, InitIInv, PTL DEF Spec

-----------------------------------------------------------------------------
\* The variables of the reader and of the coordinator keep their types.
THEOREM Typing == Spec => []TypeOK
  BY Inductive, PTL DEF IInv

\* However reloads and ends of input interleave, the list holds items of the
\* newest session only, and one poller at most is about.
THEOREM OnlyOneSession == Spec => []OneSession
  <1>1. IInv => OneSession
    <2> SUFFICES ASSUME IInv PROVE OneSession
      OBVIOUS
    <2> DEFINE About == {s \in Session : poller[s] \in {"poll", "set"}}
    <2>1. About \in SUBSET {session}
      BY DEF IInv, TypeOK, ReaderTypes, Session, Pollers
    <2>2. IsFiniteSet({session}) /\ Cardinality({session}) = 1
      BY FS_Singleton
    <2> HIDE DEF About
    <2>3. IsFiniteSet(About) /\ Cardinality(About) <= Cardinality({session})
      BY <2>1, <2>2, FS_Subset
    <2>4. Cardinality(About) <= 1
      BY <2>2, <2>3
    <2> QED
      BY <2>4 DEF About, IInv, NewestListed, OneSession
  <1> QED
    BY <1>1, Inductive, PTL

\* A final search shows every item: none is pushed, and no EvtReadNew is set,
\* after the coordinator has stopped reading.
THEOREM FinalSearch == Spec => []FinalIsComplete
  BY Inductive, PTL DEF IInv

\* A command that was killed for a reload is never shown as failed, at
\* whatever moment of fin it is killed.
THEOREM KilledQuietly == Spec => []KilledNotShown
  BY Inductive, PTL DEF IInv
=============================================================================
