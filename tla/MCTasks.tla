------------------------------ MODULE MCTasks -------------------------------
(* The goroutines of the terminal: those that share its locks, those of    *)
(* the preview command and those of the background commands.  The three    *)
(* groups meet only in the main loop, and each behaviour follows one.      *)
EXTENDS Tasks, Preview, Background

CONSTANT Groups
VARIABLE group

all == <<group, vars, pvars, bvars>>

\* The groups that stand still have one initial state
MCInit ==
    /\ group \in Groups
    /\ Init /\ PInit /\ BInit
    /\ group \notin {"locks", "prompt"} => keys = CHOOSE u \in Users : TRUE
    /\ group # "preview" => outputs = CHOOSE c \in Commands : TRUE

Locks(A) == group \in {"locks", "prompt"} /\ ~exited /\ A /\ UNCHANGED <<group, pvars, bvars>>
Previews(A) == group = "preview" /\ A /\ UNCHANGED <<group, vars, bvars>>
Backgrounds(A) == group = "background" /\ A /\ UNCHANGED <<group, vars, pvars>>

\* In the group "prompt" the render goroutine goes first whenever it can, and then the
\* main loop: keys are pressed and commands end at any time, nothing else takes time
AtRest == main.pc = "run" \/ (main.pc = "select" /\ eventChan = <<>> /\ server = 0)
Promptly ==
    group = "prompt" => \/ Renderer
                        \/ ~ENABLED Renderer /\ (Main \/ AtRest \/ ~ENABLED Main)

MCNext == (Locks(Next) /\ Promptly) \/ Previews(PNext) \/ Backgrounds(BNext)

\* Every goroutine goes on when it can, the main loop when there is something for it to
\* receive; the input and the commands end.  Nothing is assumed of the user.  (A WF for
\* actions of different groups is one for each of them: only one group moves.)
MCFairness ==
    /\ WF_all(Locks(Loop) \/ Previews(Runner) \/ Backgrounds(Callbacks))
    /\ WF_all(Locks(Renderer) \/ Previews(Render))
    /\ WF_all(Locks(Coordinator) \/ Backgrounds(Job))
    /\ WF_all(Locks(Matcher))
    /\ WF_all(Locks(ReaderEnds))
    /\ WF_all(Locks(WakeUp))

MCSpec == MCInit /\ [][MCNext]_all /\ MCFairness

SomeUsers == { << <<"search", "wait">> >>,
               << <<"wait", "list">>, <<"abort">> >>,
               << <<"execute", "list", "accept">> >> }
Executing == { << <<"search", "list">>, <<"execute">> >> }

Plain == <<FALSE, FALSE>>
SomeCommands ==
    { [i \in {"item1", "item2"} |-> IF i = "item1" THEN <<FALSE, FALSE, FALSE>> ELSE Plain],
      [i \in {"item1", "item2"} |-> Plain],
      [i \in {"item1", "item2"} |-> IF i = "item1" THEN Plain ELSE <<FALSE, FALSE, TRUE, FALSE>>] }
=============================================================================
