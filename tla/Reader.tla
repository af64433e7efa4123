------------------------------- MODULE Reader ------------------------------
(***************************************************************************)
(* reader.go with the part of core.go that drives it: the goroutine that   *)
(* feeds items to the chunk list, the poller that turns "an item arrived"  *)
(* into EvtReadNew, and the coordinator that handles EvtReadNew and        *)
(* EvtReadFin, kills a command and starts the next one (reload).           *)
(*                                                                         *)
(* A session is one source of items: ReadSource for the first, restart for *)
(* the others.  The coordinator handles a batch with the lock of the event *)
(* box held, so nobody sets an event meanwhile (EventBox.tla).  Filter     *)
(* mode (wait = false), which never restarts the reader, is left out.      *)
(***************************************************************************)
EXTENDS Integers, FiniteSets

CONSTANTS
  Sources,      \* what ReadSource may read: "command", "walker" or "stdin"
  MaxSessions,  \* bound: sessions ever started
  MaxItems      \* bound: items pushed per session

ASSUME ReaderAssumption ==
  /\ Sources \subseteq {"command", "walker", "stdin"}
  /\ MaxSessions \in Nat \ {0}
  /\ MaxItems \in Nat

Session == 1 .. MaxSessions

VARIABLES
  session,      \* the session of the reader goroutine
  source,       \* its source
  reader,       \* where the goroutine is
  success,      \* how the source ended
  proc,         \* the process of a command: "none", "running" or "killed"
  ret,          \* the command EvtReadFin will report as failed, 0 if none
  event,        \* r.event
  poller,       \* where the poller of each session is
  finChan,      \* how many values are in r.finChan
  killed,       \* r.killed
  termFunc,     \* r.termFunc: "none", "stdin" (close it) or "command" (kill it)
  readyChan,    \* the reader signalled that it is ready
  list,         \* list[s]: items of session s in the chunk list
  box,          \* the events set: "ReadNew", "ReadFin", "Reload"
  finValue,     \* the value set with EvtReadFin
  coord,        \* where the coordinator is
  batch,        \* the events of the batch it has not handled yet
  reading,      \* the coordinator believes a session is going on
  nextCommand,  \* a command waits for the killed one to end
  seen,         \* the items of the last snapshot taken
  stopped,      \* the sessions the coordinator called terminate in
  shown         \* the session whose command is shown as failed, 0 if none

readerVars == <<session, source, reader, success, proc, ret>>
pollVars == <<event, poller, finChan>>
termVars == <<killed, termFunc>>
coordVars == <<coord, batch, reading, nextCommand, seen, stopped, shown>>
vars == <<readerVars, pollVars, termVars, readyChan, list, box, finValue, coordVars>>

ReaderTypes ==
  /\ session \in Session
  /\ source \in {"command", "walker", "stdin"}
  /\ reader \in {"start", "ready", "feed", "pushed", "fin", "recv", "ret", "set", "done"}
  /\ success \in BOOLEAN
  /\ proc \in {"none", "running", "killed"}
  /\ ret \in 0 .. MaxSessions

PollTypes ==
  /\ event \in {"Ready", "ReadNew", "ReadFin"}
  /\ poller \in [Session -> {"none", "poll", "set", "gone"}]
  /\ finChan \in 0 .. 1
  /\ killed \in BOOLEAN
  /\ termFunc \in {"none", "stdin", "command"}
  /\ readyChan \in BOOLEAN

BoxTypes ==
  /\ list \in [Session -> 0 .. MaxItems]
  /\ box \subseteq {"ReadNew", "ReadFin", "Reload"}
  /\ finValue \in 0 .. MaxSessions

CoordTypes ==
  /\ coord \in {"boot", "wait", "batch", "ready"}
  /\ batch \subseteq {"ReadNew", "ReadFin", "Reload"}
  /\ reading \in BOOLEAN
  /\ nextCommand \in BOOLEAN
  /\ seen \in [Session -> 0 .. MaxItems]
  /\ stopped \subseteq Session
  /\ shown \in 0 .. MaxSessions

TypeOK == ReaderTypes /\ PollTypes /\ BoxTypes /\ CoordTypes

Nothing == [s \in Session |-> 0]

Init ==
  /\ session = 1
  /\ source \in Sources
  /\ reader = "start"
  /\ success = TRUE
  /\ proc = "none"
  /\ ret = 0
  /\ event = "Ready"
  /\ poller = [s \in Session |-> IF s = 1 THEN "poll" ELSE "none"]
  /\ finChan = 0
  /\ killed = FALSE
  /\ termFunc = "stdin"
  /\ readyChan = FALSE
  /\ list = Nothing
  /\ box = {}
  /\ finValue = 0
  /\ coord = "boot"
  /\ batch = {}
  /\ reading = TRUE
  /\ nextCommand = FALSE
  /\ seen = Nothing
  /\ stopped = {}
  /\ shown = 0

\* EventBox.Set needs the lock, which the coordinator holds during a batch.
BoxUnlocked == coord \in {"boot", "wait"}

-----------------------------------------------------------------------------
\* readFromCommand up to signalReady, with r.mutex held; the process may fail
\* to start.  The other sources signal at once.
Start ==
  /\ reader = "start"
  /\ \/ /\ source = "command"
        /\ killed' = FALSE
        /\ \/ termFunc' = "command" /\ proc' = "running"
           \/ termFunc' = "none" /\ proc' = "none"
     \/ source # "command" /\ UNCHANGED <<termVars, proc>>
  /\ reader' = "ready"
  /\ readyChan' = TRUE
  /\ UNCHANGED <<session, source, success, ret, pollVars, list, box, finValue, coordVars>>

\* The signal was received: feed the items, or give up if nothing was started.
Feed ==
  /\ reader = "ready"
  /\ ~readyChan
  /\ IF source = "command" /\ proc = "none"
     THEN reader' = "fin" /\ success' = FALSE
     ELSE reader' = "feed" /\ UNCHANGED success
  /\ UNCHANGED <<session, source, proc, ret, pollVars, termVars, readyChan,
                 list, box, finValue, coordVars>>

\* feed and the callback of readFiles push an item ...
PushItem ==
  /\ reader = "feed"
  /\ list[session] < MaxItems
  /\ list' = [list EXCEPT ![session] = @ + 1]
  /\ reader' = "pushed"
  /\ UNCHANGED <<session, source, success, proc, ret, pollVars, termVars, readyChan,
                 box, finValue, coordVars>>

\* ... and then set r.event.
NotePushed ==
  /\ reader = "pushed"
  /\ event' = "ReadNew"
  /\ reader' = "feed"
  /\ UNCHANGED <<session, source, success, proc, ret, poller, finChan, termVars,
                 readyChan, list, box, finValue, coordVars>>

\* The source ends by itself: end of file, exit of the process, end of the walk.
EndOfSource ==
  /\ reader = "feed"
  /\ reader' = "fin"
  /\ success' \in IF source = "command" THEN BOOLEAN ELSE {TRUE}
  /\ UNCHANGED <<session, source, proc, ret, pollVars, termVars, readyChan, list, box,
                 finValue, coordVars>>

\* The source ends because terminate was called: the pipe of a command is
\* closed and its process killed; the walker looks at r.killed.  Closing
\* standard input need not end a read that is blocked.
EndKilled ==
  /\ reader = "feed"
  /\ (source = "command" /\ proc = "killed") \/ (source = "walker" /\ killed)
  /\ reader' = "fin"
  /\ success' = FALSE
  /\ UNCHANGED <<session, source, proc, ret, pollVars, termVars, readyChan, list, box,
                 finValue, coordVars>>

\* fin: tell the poller, wait for it, decide what to report, set EvtReadFin.
FinStore ==
  /\ reader = "fin"
  /\ event' = "ReadFin"
  /\ reader' = "recv"
  /\ UNCHANGED <<session, source, success, proc, ret, poller, finChan, termVars,
                 readyChan, list, box, finValue, coordVars>>

\* Faulty variant of FinReceive: fin does not wait for the poller.
FinSkipsPoller ==
  /\ reader = "recv"
  /\ reader' = "ret"
  /\ UNCHANGED <<session, source, success, proc, ret, pollVars, termVars,
                 readyChan, list, box, finValue, coordVars>>

FinReceive ==
  /\ reader = "recv"
  /\ finChan > 0
  /\ finChan' = finChan - 1
  /\ reader' = "ret"
  /\ UNCHANGED <<session, source, success, proc, ret, event, poller, termVars,
                 readyChan, list, box, finValue, coordVars>>

FinReturn ==
  /\ reader = "ret"
  /\ ret' = IF success \/ killed \/ source # "command" THEN 0 ELSE session
  /\ reader' = "set"
  /\ UNCHANGED <<session, source, success, proc, pollVars, termVars, readyChan, list,
                 box, finValue, coordVars>>

FinSet ==
  /\ reader = "set"
  /\ BoxUnlocked
  /\ box' = box \cup {"ReadFin"}
  /\ finValue' = ret
  /\ reader' = "done"
  /\ UNCHANGED <<session, source, success, proc, ret, pollVars, termVars, readyChan,
                 list, coordVars>>

-----------------------------------------------------------------------------
\* The poller of session s: one round of its loop that finds something to do.
PollSwap(s) ==
  /\ poller[s] = "poll"
  /\ event = "ReadNew"
  /\ event' = "Ready"
  /\ poller' = [poller EXCEPT ![s] = "set"]
  /\ UNCHANGED <<readerVars, finChan, termVars, readyChan, list, box, finValue, coordVars>>

PollSet(s) ==
  /\ poller[s] = "set"
  /\ BoxUnlocked
  /\ box' = box \cup {"ReadNew"}
  /\ poller' = [poller EXCEPT ![s] = "poll"]
  /\ UNCHANGED <<readerVars, event, finChan, termVars, readyChan, list, finValue, coordVars>>

PollFin(s) ==
  /\ poller[s] = "poll"
  /\ event = "ReadFin"
  /\ finChan < 1
  /\ finChan' = finChan + 1
  /\ poller' = [poller EXCEPT ![s] = "gone"]
  /\ UNCHANGED <<readerVars, event, termVars, readyChan, list, box, finValue, coordVars>>

-----------------------------------------------------------------------------
\* The terminal asks for a reload; a second request replaces a pending one.
RequestReload ==
  /\ BoxUnlocked
  /\ session + (IF nextCommand THEN 1 ELSE 0) < MaxSessions
  /\ box' = box \cup {"Reload"}
  /\ UNCHANGED <<readerVars, pollVars, termVars, readyChan, list, finValue, coordVars>>

\* core.go waits for the reader to be ready, at first and in restart.
Boot ==
  /\ coord = "boot"
  /\ readyChan
  /\ readyChan' = FALSE
  /\ coord' = "wait"
  /\ UNCHANGED <<readerVars, pollVars, termVars, list, box, finValue, batch, reading,
                 nextCommand, seen, stopped, shown>>

\* eventBox.Wait: EvtReadFin makes EvtReadNew of the same batch superfluous.
Take ==
  /\ coord = "wait"
  /\ box # {}
  /\ batch' = IF "ReadFin" \in box THEN box \ {"ReadNew"} ELSE box
  /\ coord' = "batch"
  /\ UNCHANGED <<readerVars, pollVars, termVars, readyChan, list, box, finValue,
                 reading, nextCommand, seen, stopped, shown>>

\* The end of a batch: events.Clear().
Release ==
  /\ coord = "batch"
  /\ batch = {}
  /\ box' = {}
  /\ coord' = "wait"
  /\ UNCHANGED <<readerVars, pollVars, termVars, readyChan, list, finValue, batch,
                 reading, nextCommand, seen, stopped, shown>>

\* restart of core.go with the head of Reader.restart: the list is emptied and
\* a goroutine and a poller are started; the coordinator waits for readyChan.
Restart ==
  /\ session < MaxSessions
  /\ session' = session + 1
  /\ source' = "command"
  /\ reader' = "start"
  /\ proc' = "none"
  /\ event' = "Ready"
  /\ poller' = [poller EXCEPT ![session + 1] = "poll"]
  /\ list' = Nothing
  /\ reading' = TRUE
  /\ coord' = "ready"
  /\ UNCHANGED <<success, ret, finChan, termVars, readyChan, box, finValue, seen, stopped>>

Ready ==
  /\ coord = "ready"
  /\ readyChan
  /\ readyChan' = FALSE
  /\ coord' = "batch"
  /\ UNCHANGED <<readerVars, pollVars, termVars, list, box, finValue, batch, reading,
                 nextCommand, seen, stopped, shown>>

\* EvtReadNew or EvtReadFin with no command waiting: take a snapshot.
HandleRead(e) ==
  /\ coord = "batch"
  /\ e \in batch /\ e # "Reload"
  /\ e = "ReadFin" => ~nextCommand
  /\ batch' = batch \ {e}
  /\ reading' = (reading /\ e = "ReadNew")
  /\ seen' = list
  /\ shown' = IF e = "ReadFin" THEN finValue ELSE 0
  /\ UNCHANGED <<readerVars, pollVars, termVars, readyChan, list, box, finValue, coord,
                 nextCommand, stopped>>

\* EvtReadFin of the command that had to make way for the next one.
HandleKilledFin ==
  /\ coord = "batch"
  /\ "ReadFin" \in batch
  /\ nextCommand
  /\ batch' = batch \ {"ReadFin"}
  /\ nextCommand' = FALSE
  /\ Restart
  /\ UNCHANGED shown

\* Faulty variant of Terminate: the process is not killed.
TerminateFlagOnly ==
  /\ killed' = TRUE
  /\ termFunc' = "none"
  /\ proc' = proc
  /\ stopped' = stopped \cup {session}

\* Reader.terminate, under r.mutex.
Terminate ==
  /\ killed' = TRUE
  /\ termFunc' = "none"
  /\ proc' = IF termFunc = "command" THEN "killed" ELSE proc
  /\ stopped' = stopped \cup {session}

\* Faulty variant of HandleReload: the next command is started at once.
ReloadAtOnce ==
  /\ coord = "batch"
  /\ "Reload" \in batch
  /\ batch' = batch \ {"Reload"}
  /\ Restart
  /\ UNCHANGED <<nextCommand, shown>>

\* EvtSearchNew with a command.
HandleReload ==
  /\ coord = "batch"
  /\ "Reload" \in batch
  /\ batch' = batch \ {"Reload"}
  /\ IF reading
     THEN /\ Terminate
          /\ nextCommand' = TRUE
          /\ UNCHANGED <<session, source, reader, success, ret, pollVars, readyChan, list,
                         box, finValue, coord, reading, seen, shown>>
     ELSE Restart /\ UNCHANGED <<nextCommand, shown>>

Coordinator ==
  \/ Boot \/ Take \/ Release \/ Ready
  \/ \E e \in {"ReadNew", "ReadFin"} : HandleRead(e)
  \/ HandleKilledFin \/ HandleReload

\* The steps of the reader goroutine that wait for nobody outside fzf.
ReaderRuns ==
  \/ Start \/ Feed \/ NotePushed \/ EndKilled
  \/ FinStore \/ FinReceive \/ FinReturn \/ FinSet

Poll(s) == PollSwap(s) \/ PollSet(s) \/ PollFin(s)

Next ==
  \/ Coordinator \/ ReaderRuns \/ PushItem \/ EndOfSource \/ RequestReload
  \/ \E s \in Session : Poll(s)

Spec == Init /\ [][Next]_vars

\* Goroutines run when they can, and whoever waits for the lock of the event
\* box gets it (a sync.Mutex is handed over to a goroutine that starves).  That
\* a source delivers or ends is assumed of nothing but a command that was
\* killed and a walk that was told to stop.
FairSpec ==
  /\ Spec
  /\ WF_vars(Coordinator)
  /\ WF_vars(ReaderRuns) /\ SF_vars(FinSet)
  /\ \A s \in Session : WF_vars(Poll(s)) /\ SF_vars(PollSet(s))

-----------------------------------------------------------------------------
\* The list and the sessions do not mix: however reloads and ends of input
\* interleave, the list only holds items of the newest session, and there is
\* one poller at most, so r.event and finChan are never shared by two sessions.
OneSession ==
  /\ \A s \in Session : list[s] > 0 => s = session
  /\ Cardinality({s \in Session : poller[s] \in {"poll", "set"}}) <= 1

\* A final search is final: once the coordinator has stopped reading, the
\* snapshot it took shows every item, none will be pushed and no EvtReadNew of
\* the session is or will be set (fin waits for the poller).
FinalIsComplete ==
  ~reading => /\ reader = "done"
              /\ seen = list
              /\ poller[session] = "gone"
              /\ "ReadNew" \notin batch
              /\ coord = "wait" => "ReadNew" \notin box

\* A reload that interrupts a command is carried out: the command is killed,
\* its EvtReadFin arrives and the next one is started.
ReloadStarts == (nextCommand /\ source # "stdin") ~> ~nextCommand
=============================================================================
