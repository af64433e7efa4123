----------------------------- MODULE Background -----------------------------
(***************************************************************************)
(* Background commands (bg-transform and the like): the main loop queues   *)
(* and dispatches them, each runs in a goroutine of its own, limited by a  *)
(* semaphore per action and one for all, and its output comes back to the  *)
(* main loop in callbackChan (src/src/terminal.go: captureAsync,           *)
(* dispatchAsync, actAsync, actBgCancel).                                  *)
(*                                                                         *)
(* A job is [action, id]; ids count the invocations.  Temporary files, and *)
(* what the callback does with the output, are left out.                   *)
(***************************************************************************)
EXTENDS Integers, Sequences, FiniteSets

CONSTANTS
    BgActions,    \* the background actions that are bound
    PerAction,    \* maxBgProcessesPerAction
    AtOnce,       \* maxBgProcesses, of all actions
    MaxJobs       \* bound: invocations

VARIABLES
    jobs,         \* the invocations: id -> action, and bgVersion then
    bgQueue,      \* action -> the jobs not dispatched
    waiting,      \* goroutines that have the local semaphore
    running,      \* and the global one: the command runs
    sending,      \* the command has ended, the callback is to be sent
    sent,         \* sent, the semaphores are still held
    callbacks,    \* callbackChan
    bgVersion,    \* counts bg-cancel
    called        \* the ids of the jobs whose callback was called

bvars == <<jobs, bgQueue, waiting, running, sending, sent, callbacks, bgVersion, called>>

BInit ==
    /\ jobs = <<>>
    /\ bgQueue = [a \in BgActions |-> <<>>]
    /\ waiting = {} /\ running = {} /\ sending = {} /\ sent = {}
    /\ callbacks = <<>>
    /\ bgVersion = 0
    /\ called = {}

Holding == waiting \cup running \cup sending \cup sent
LocalFree(a) == PerAction - Cardinality({j \in Holding : j.action = a})

-----------------------------------------------------------------------------
(* An iteration of the main loop: callbacks, invocations, dispatchAsync    *)

\* Faulty variant of Kept: the first one of the queue is kept
KeptFirst(queue) == SubSeq(queue, 1, 1)

\* Failed to acquire the local semaphore: "putting only the last one back to the queue"
Kept(queue) == SubSeq(queue, Len(queue), Len(queue))

JobsOf(queue) == {queue[i] : i \in DOMAIN queue}

\* The jobs of one action that start: as many as the local semaphore admits
Starting(queue, free) == SubSeq(queue, 1, IF Len(queue) <= free THEN Len(queue) ELSE free)

Dispatch(queues) ==
    /\ waiting' = waiting \cup UNION {JobsOf(Starting(queues[a], LocalFree(a))) : a \in BgActions}
    /\ bgQueue' = [a \in BgActions |-> IF Len(queues[a]) <= LocalFree(a) THEN <<>> ELSE Kept(queues[a])]

\* captureAsync: the action is invoked n times in one iteration
Invoke(a, n) ==
    /\ Len(jobs) + n <= MaxJobs
    /\ Dispatch([bgQueue EXCEPT ![a] = @ \o [i \in 1..n |-> [action |-> a, id |-> Len(jobs) + i]]])
    /\ jobs' = jobs \o [i \in 1..n |-> [action |-> a, version |-> bgVersion]]
    /\ UNCHANGED <<running, sending, sent, callbacks, bgVersion, called>>

\* All the callbacks in the channel, those of the current version, are called
Callbacks ==
    /\ callbacks # <<>>
    /\ called' = called \cup {j.id : j \in {k \in JobsOf(callbacks) : jobs[k.id].version = bgVersion}}
    /\ callbacks' = <<>>
    /\ Dispatch(bgQueue)
    /\ UNCHANGED <<jobs, running, sending, sent, bgVersion>>

\* bg-cancel: for each job the callback is not called
BgCancel ==
    /\ bgVersion < Len(jobs)
    /\ bgVersion' = bgVersion + 1
    /\ Dispatch(bgQueue)
    /\ UNCHANGED <<jobs, running, sending, sent, callbacks, called>>

\* Any other iteration
Iterate ==
    /\ Dispatch(bgQueue)
    /\ UNCHANGED <<jobs, running, sending, sent, callbacks, bgVersion, called>>

-----------------------------------------------------------------------------
(* The goroutine of a job                                                  *)

StartJob(j) ==
    /\ j \in waiting
    /\ Cardinality(running \cup sending \cup sent) < AtOnce
    /\ waiting' = waiting \ {j}
    /\ running' = running \cup {j}
    /\ UNCHANGED <<jobs, bgQueue, sending, sent, callbacks, bgVersion, called>>

JobEnds(j) ==
    /\ j \in running
    /\ running' = running \ {j}
    /\ sending' = sending \cup {j}
    /\ UNCHANGED <<jobs, bgQueue, waiting, sent, callbacks, bgVersion, called>>

\* A send to a full channel waits
SendCallback(j) ==
    /\ j \in sending /\ Len(callbacks) < AtOnce
    /\ callbacks' = Append(callbacks, j)
    /\ sending' = sending \ {j}
    /\ sent' = sent \cup {j}
    /\ UNCHANGED <<jobs, bgQueue, waiting, running, bgVersion, called>>

ReleaseJob(j) ==
    /\ j \in sent
    /\ sent' = sent \ {j}
    /\ UNCHANGED <<jobs, bgQueue, waiting, running, sending, callbacks, bgVersion, called>>

Job == \E j \in Holding : StartJob(j) \/ JobEnds(j) \/ SendCallback(j) \/ ReleaseJob(j)

BNext ==
    \/ \E a \in BgActions, n \in 1..2 : Invoke(a, n)
    \/ Callbacks \/ BgCancel \/ Iterate \/ Job

-----------------------------------------------------------------------------
(* Properties                                                              *)

\* The job of the last invocation of an action, when no bg-cancel came after it
LastOf(a) ==
    LET mine == {id \in DOMAIN jobs : jobs[id].action = a}
    IN  {id \in mine : (\A other \in mine : other <= id) /\ jobs[id].version = bgVersion}

\* The job waits in the queue, every semaphore is free, and the main loop has nothing
\* to come round for
Stalled(a, id) ==
    /\ Holding = {} /\ callbacks = <<>>
    /\ id \in {j.id : j \in JobsOf(bgQueue[a])}

\* The callback of the last invocation of an action is called, however fast the
\* action is invoked while its commands run, unless bg-cancel came after it: a job
\* that finds no room is dropped only for a later one ("putting only the last one
\* back to the queue").  Nobody presses a key for it: excepted is a job that is still
\* in the queue when the last callback has been called (see QueuedStarts).  Earlier
\* jobs may be called back after it.
LastIsCalled ==
    \A a \in BgActions : <>[](\A id \in LastOf(a) : id \in called \/ Stalled(a, id))

\* A job put back to the queue is started when there is room again, without a key:
\* the action is one "that runs in the background" (src/man/man1/fzf.1).  Its room is
\* given up only after the callback is sent, and dispatchAsync may come between: it does
\* not hold.
QueuedStarts == \A a \in BgActions : bgQueue[a] # <<>> ~> bgQueue[a] = <<>>
=============================================================================
