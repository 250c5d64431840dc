----------------------------- MODULE MCLifecycle -----------------------------
(* Instances of what is run, stopped and disposed, for TLC: a behaviour is of *)
(* the disposer, of the modules, of a client that an instance provider        *)
(* connects, of a periodic loop, or of a process that is to quit.             *)
EXTENDS AsyncDisposer, TLC

CONSTANTS
    Module, WebServer, Socket,
    ModuleRuns, ConnectTries, LoopRuns, LoopCount, Signals    \* bounds, see the modules

ASSUME WebServerAssumption == WebServer \in Module
ASSUME BoundAssumption ==
    /\ ModuleRuns \in Nat /\ LoopRuns \in Nat /\ LoopCount \in Nat /\ Signals \in Nat
    /\ ConnectTries \in Nat \ {0}

VARIABLES
    subject,
    state, token, run, runs, asked, listening, handlers, sockets, tracked, late, tracks,
    moduleCalls,
    instance, connecting, triesLeft, connection, closing, getCalls, tries, skipped, crossed,
    kind, looping, stopRequested, latest, loops, counter, loopCalls, counted, reported,
    inner, quiet, noisy, overlap,
    requested, shutdownToken, signalCounter, waiting, exits, working, end

-----------------------------------------------------------------------------
Mod == INSTANCE Modules WITH MaxRuns <- ModuleRuns, calls <- moduleCalls

Get == INSTANCE InstanceProvider WITH
    MaxTries <- ConnectTries, disposing <- closing, calls <- getCalls

Per == INSTANCE Periodic WITH
    MaxRuns <- LoopRuns, MaxCount <- LoopCount, running <- looping, calls <- loopCalls

Quit == INSTANCE ProcessShutdown WITH MaxSignals <- Signals

-----------------------------------------------------------------------------
moduleVars ==
    <<state, token, run, runs, asked, listening, handlers, sockets, tracked, late, tracks,
      moduleCalls>>
getVars ==
    <<instance, connecting, triesLeft, connection, closing, getCalls, tries, skipped, crossed>>
periodicVars ==
    <<kind, looping, stopRequested, latest, loops, counter, loopCalls, counted, reported,
      inner, quiet, noisy, overlap>>
shutdownVars == <<requested, shutdownToken, signalCounter, waiting, exits, working, end>>
allVars == <<subject, vars, moduleVars, getVars, periodicVars, shutdownVars>>

MCInit ==
    /\ subject \in {"disposer", "modules", "provider", "periodic", "shutdown"}
    /\ Init /\ Mod!Init /\ Get!Init /\ Per!Init /\ Quit!Init
    /\ subject # "modules" => ~tracks
    /\ subject # "periodic" => kind = "reporter"

MCNext ==
    /\ UNCHANGED subject
    /\ \/ /\ subject = "disposer" /\ Next
          /\ UNCHANGED <<moduleVars, getVars, periodicVars, shutdownVars>>
       \/ /\ subject = "modules" /\ Mod!Next
          /\ UNCHANGED <<vars, getVars, periodicVars, shutdownVars>>
       \/ /\ subject = "provider" /\ Get!Next
          /\ UNCHANGED <<vars, moduleVars, periodicVars, shutdownVars>>
       \/ /\ subject = "periodic" /\ Per!Next
          /\ UNCHANGED <<vars, moduleVars, getVars, shutdownVars>>
       \/ /\ subject = "shutdown" /\ Quit!Next
          /\ UNCHANGED <<vars, moduleVars, getVars, periodicVars>>

\* What is not the subject stays as it is, where nothing of it is enabled that
\* is fair.
MCSpec ==
    /\ MCInit /\ [][MCNext]_allVars
    /\ Fairness /\ Mod!Fairness /\ Get!Fairness /\ Per!Fairness /\ Quit!Fairness

-----------------------------------------------------------------------------
\* What stop() and disposal promise holds when they return, and afterwards:
\* Modules, InstanceProvider, Periodic and ProcessShutdown say what that is.
StopIsKept ==
    Mod!StopIsKept /\ Get!ClientIsKept /\ Per!StopIsKept /\ Quit!ShutdownIsKept

\* Disposal, every stop(), every call that asks for a client, and a process that
\* was asked to quit come to an end.
EverythingEnds ==
    DisposalEnds /\ Mod!StopsEnd /\ Get!CallsEnd /\ Per!StopsEnd /\ Quit!ShutdownEnds
=============================================================================
