---------------------------- MODULE ProcessShutdown ----------------------------
(***************************************************************************)
(* process-shutdown.ts: a process is asked to quit by a signal, by an      *)
(* error that nobody handled, or by its own program, whose work ends when  *)
(* it likes.                                                               *)
(***************************************************************************)
EXTENDS Integers

CONSTANT MaxSignals            \* bound on the signals

VARIABLES
    requested,
    shutdownToken,
    signalCounter,
    waiting,                   \* the timer of 20 seconds, which keeps no process alive
    exits,                     \* the calls of exit() whose timer of 1 ms is running
    working,                   \* the program has work left
    end                        \* how the process ended, or "none"

vars == <<requested, shutdownToken, signalCounter, waiting, exits, working, end>>

Init ==
    /\ requested = FALSE /\ shutdownToken = FALSE /\ signalCounter = 0
    /\ waiting = FALSE /\ exits = {} /\ working = TRUE /\ end = "none"

Alive == end = "none"

requestShutdown ==
    /\ requested' = TRUE
    /\ shutdownToken' = TRUE
    /\ waiting' = IF requested THEN waiting ELSE TRUE

\* By the program, or by an event such as uncaughtException.
Request ==
    /\ Alive
    /\ requestShutdown
    /\ UNCHANGED <<signalCounter, exits, working, end>>

\* The second signal, and each after it, forces the process to quit.
Signal ==
    /\ Alive /\ signalCounter < MaxSignals
    /\ requestShutdown
    /\ signalCounter' = signalCounter + 1
    /\ exits' = IF signalCounter' > 1 THEN exits \cup {"forced"} ELSE exits
    /\ UNCHANGED <<working, end>>

\* The 20 seconds are over.
Quit ==
    /\ Alive /\ waiting
    /\ waiting' = FALSE
    /\ exits' = exits \cup {"late"}
    /\ UNCHANGED <<requested, shutdownToken, signalCounter, working, end>>

Exit(e) ==
    /\ Alive /\ e \in exits
    /\ end' = e
    /\ UNCHANGED <<requested, shutdownToken, signalCounter, waiting, exits, working>>

WorkEnds ==
    /\ Alive /\ working
    /\ working' = FALSE
    /\ UNCHANGED <<requested, shutdownToken, signalCounter, waiting, exits, end>>

\* Nothing keeps the process alive: it ends by itself.
NothingLeft ==
    /\ Alive /\ ~working /\ exits = {}
    /\ end' = "done"
    /\ UNCHANGED <<requested, shutdownToken, signalCounter, waiting, exits, working>>

Timers == Quit \/ NothingLeft \/ Exit("late") \/ Exit("forced")

Next == Request \/ Signal \/ WorkEnds \/ Timers

\* Timers fire.  The program may never end its work.
Fairness == WF_vars(Timers)

Spec == Init /\ [][Next]_vars /\ Fairness

-----------------------------------------------------------------------------
\* A process quits by force only if it was asked to twice, or had its time; it
\* is never left without the token or the timer once it was asked to quit.
ShutdownIsKept ==
    /\ end = "forced" => signalCounter > 1
    /\ end = "late" => ~waiting /\ requested
    /\ requested => shutdownToken /\ (waiting \/ "late" \in exits)
    /\ end = "done" => ~working

\* Once asked to quit the process does, also if the program does not end.
ShutdownEnds == requested ~> end # "none"
-----------------------------------------------------------------------------
(* The inductive invariant, proved in LifecycleProofs.                      *)


\* The type invariant.
TypeOK ==
    /\ requested \in BOOLEAN /\ shutdownToken \in BOOLEAN
    /\ waiting \in BOOLEAN /\ working \in BOOLEAN
    /\ signalCounter \in Nat
    /\ exits \subseteq {"forced", "late"}
    /\ end \in {"none", "done", "forced", "late"}

\* Who forces the process, and when its time is over.
ExitInv ==
    /\ "forced" \in exits => signalCounter > 1
    /\ "late" \in exits => ~waiting /\ requested
    /\ waiting => requested
    /\ requested => shutdownToken /\ (waiting \/ "late" \in exits)

EndInv ==
    /\ end \in {"forced", "late"} => end \in exits
    /\ end = "done" => ~working

IInv == TypeOK /\ ExitInv /\ EndInv
=============================================================================
