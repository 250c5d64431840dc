-------------------------------- MODULE Modules --------------------------------
(***************************************************************************)
(* ModuleBase, runModules() and stopModules(), with WebServerModule over   *)
(* HttpServer as one of the modules.  Callers run and stop modules,        *)
(* together or not; a module's own work may end or fail by itself.         *)
(*                                                                         *)
(* run() and stop() await the promise of _run().  run() awaits it first,   *)
(* so it has put the state back when the others go on (Settle).            *)
(***************************************************************************)
EXTENDS Integers, FiniteSets

CONSTANTS
    Module, WebServer,         \* the modules; WebServer is one of them
    Caller,
    Socket,                    \* connections of clients
    MaxRuns                    \* bound on the runs of a module

VARIABLES
    state, token,              \* of a module: its state, its cancellation token
    run,                       \* where its _run() is
    runs, asked,               \* history: its runs; the last was to be stopped
    listening, handlers,       \* the server and its request listeners
    sockets, tracked, late,    \* connections; those it knows of; the time is up
    tracks,                    \* the server was started by HttpServer.listen()
    calls                      \* what a caller of stop() waits for

moduleVars == <<state, token, run, runs, asked>>
serverVars == <<listening, handlers, sockets, tracked, late, tracks>>
vars == <<moduleVars, serverVars, calls>>

Over == {"ended", "failed"}
NoCall == [of |-> <<>>, pending |-> {}, threw |-> FALSE]

Init ==
    /\ state = [m \in Module |-> "stopped"] /\ token = [m \in Module |-> FALSE]
    /\ run = [m \in Module |-> "none"]
    /\ runs = [m \in Module |-> 0] /\ asked = [m \in Module |-> FALSE]
    /\ listening = FALSE /\ handlers = 0
    /\ sockets = {} /\ tracked = {} /\ late = FALSE
    /\ tracks \in BOOLEAN
    /\ calls = [c \in Caller |-> NoCall]

Put(f, S, v) == [m \in Module |-> IF m \in S THEN v ELSE f[m]]

-----------------------------------------------------------------------------
(* ModuleBase                                                               *)

\* Mutant: run() leaves the token as it is.
ResetNothing(S) == UNCHANGED token

Reset(S) == token' = Put(token, S, FALSE)

\* run() of each module of S, of one or by runModules(); it throws unless the
\* module is stopped.  The server adds another request listener, and listens
\* unless its port is taken.
Run(S) ==
    LET can == {m \in S : state[m] = "stopped"} IN
    /\ \A m \in can : runs[m] < MaxRuns
    /\ Reset(can)
    /\ state' = Put(state, can, "running")
    /\ run' = Put(run, can, "running")
    /\ runs' = [m \in Module |-> runs[m] + (IF m \in can THEN 1 ELSE 0)]
    /\ asked' = Put(asked, can, FALSE)
    /\ IF WebServer \in can THEN listening' \in BOOLEAN /\ handlers' = handlers + 1
       ELSE UNCHANGED <<listening, handlers>>
    /\ UNCHANGED <<sockets, tracked, late, tracks, calls>>

\* stop() of each module of S, of one or by stopModules(); it throws unless the
\* module is running.  The others are stopped all the same.
Stop(c, S) ==
    LET can == {m \in S : state[m] = "running"} IN
    /\ calls[c] = NoCall
    /\ token' = Put(token, can, TRUE)
    /\ asked' = Put(asked, can, TRUE)
    /\ calls' = [calls EXCEPT ![c] = [of |-> [m \in can |-> runs[m]], pending |-> can,
                                      threw |-> S # can]]
    /\ UNCHANGED <<state, run, runs, serverVars>>

\* The promise of _run() is settled: run() sets the state, then the promises of
\* those that wait for it are settled.
Settle(m) ==
    /\ run[m] \in Over
    /\ state' = [state EXCEPT ![m] = IF run[m] = "ended" THEN "stopped" ELSE "erroneous"]
    /\ run' = [run EXCEPT ![m] = "none"]
    /\ calls' = [c \in Caller |->
                   IF m \in calls[c].pending
                   THEN [calls[c] EXCEPT !.pending = @ \ {m}, !.threw = @ \/ run[m] = "failed"]
                   ELSE calls[c]]
    /\ UNCHANGED <<token, runs, asked, serverVars>>

\* Promise.all() waits for all, but rejects with the first.
Return(c) ==
    /\ calls[c] # NoCall
    /\ calls[c].pending = {} \/ calls[c].threw
    /\ calls' = [calls EXCEPT ![c] = NoCall]
    /\ UNCHANGED <<moduleVars, serverVars>>

\* _run() of another module, which ends when it is told to, by itself or not well.
Work(m) ==
    /\ m # WebServer
    /\ run[m] = "running"
    /\ run' = [run EXCEPT ![m] = "ended"]
    /\ UNCHANGED <<state, token, runs, asked, serverVars, calls>>

Fail(m) ==
    /\ m # WebServer
    /\ run[m] = "running"
    /\ run' = [run EXCEPT ![m] = "failed"]
    /\ UNCHANGED <<state, token, runs, asked, serverVars, calls>>

-----------------------------------------------------------------------------
(* WebServerModule and HttpServer.close()                                   *)

Goto(next) ==
    /\ run' = [run EXCEPT ![WebServer] = next]
    /\ UNCHANGED <<state, token, runs, asked, handlers, tracks, calls>>

\* The token is set: the server no longer listens.
Close ==
    /\ run[WebServer] = "running" /\ token[WebServer]
    /\ listening' = FALSE /\ late' = FALSE
    /\ Goto("counts")
    /\ UNCHANGED <<sockets, tracked>>

\* getConnectionsCount(), and what is done about it.
NoneLeft ==
    /\ run[WebServer] = "counts" /\ sockets = {}
    /\ tracked' = {}
    /\ Goto("ended")
    /\ UNCHANGED <<listening, sockets, late>>

Force ==
    /\ run[WebServer] = "counts" /\ sockets # {} /\ late
    /\ sockets' = sockets \ tracked
    /\ tracked' = {}
    /\ Goto("ended")
    /\ UNCHANGED <<listening, late>>

Wait ==
    /\ run[WebServer] = "counts" /\ sockets # {} /\ ~late
    /\ Goto("waits")
    /\ UNCHANGED <<listening, sockets, tracked, late>>

\* cancelableTimeout()
WaitIsOver ==
    /\ run[WebServer] = "waits"
    /\ Goto("counts")
    /\ UNCHANGED <<listening, sockets, tracked, late>>

\* The timer has reached the timeout.
TimeIsUp ==
    /\ run[WebServer] \in {"counts", "waits"} /\ ~late
    /\ late' = TRUE
    /\ UNCHANGED <<moduleVars, listening, handlers, sockets, tracked, tracks, calls>>

\* Only HttpServer.listen() tracks the connections.
Connect(s) ==
    /\ listening /\ s \notin sockets
    /\ sockets' = sockets \cup {s}
    /\ tracked' = IF tracks THEN tracked \cup {s} ELSE tracked
    /\ UNCHANGED <<moduleVars, listening, handlers, late, tracks, calls>>

Disconnect(s) ==
    /\ s \in sockets
    /\ sockets' = sockets \ {s} /\ tracked' = tracked \ {s}
    /\ UNCHANGED <<moduleVars, listening, handlers, late, tracks, calls>>

Serve == Close \/ NoneLeft \/ Force \/ Wait \/ WaitIsOver

Next ==
    \/ \E S \in SUBSET Module \ {{}} : Run(S) \/ \E c \in Caller : Stop(c, S)
    \/ \E c \in Caller : Return(c)
    \/ \E m \in Module : Settle(m) \/ Work(m) \/ Fail(m)
    \/ Serve \/ TimeIsUp
    \/ \E s \in Socket : Connect(s) \/ Disconnect(s)

\* Promises that are settled wake who awaits them, timers fire, and a module
\* whose token is set comes to an end.  Clients need not go.
Fairness ==
    /\ \A c \in Caller : WF_vars(Return(c))
    /\ \A m \in Module : WF_vars(Settle(m)) /\ WF_vars(token[m] /\ Work(m))
    /\ WF_vars(Serve) /\ WF_vars(TimeIsUp)

Spec == Init /\ [][Next]_vars /\ Fairness

-----------------------------------------------------------------------------
(* Properties.                                                              *)

Resolved(c) == calls[c].pending = {} /\ ~calls[c].threw

\* When stop() or stopModules() resolves, the runs it was called for are over:
\* the modules are stopped, and can be run, unless somebody did so already.
\* A run ends because of its own stop(), never of an earlier one, and a stop()
\* stays in force until its run ended, whatever others call meanwhile.  No
\* connection that was tracked outlives close().
StopIsKept ==
    /\ \A c \in Caller : Resolved(c) =>
          \A m \in DOMAIN calls[c].of :
              runs[m] > calls[c].of[m] \/
                  (state[m] = "stopped" /\ (m = WebServer => ~listening))
    /\ \A m \in Module : run[m] # "none" => token[m] = asked[m]
    /\ run[WebServer] \in {"counts", "waits"} => asked[WebServer]
    /\ ~listening /\ run[WebServer] \in {"none", "ended"} /\ tracks => sockets = {}

\* Every stop() comes to an end, also while clients keep their connections.
StopsEnd == \A c \in Caller : calls[c] # NoCall ~> calls[c] = NoCall
-----------------------------------------------------------------------------
(* The inductive invariant, proved in LifecycleProofs.                      *)


\* The type invariant.
ModuleType ==
    /\ state \in [Module -> {"stopped", "running", "erroneous"}]
    /\ token \in [Module -> BOOLEAN] /\ asked \in [Module -> BOOLEAN]
    /\ run \in [Module -> {"none", "running", "counts", "waits"} \cup Over]
    /\ runs \in [Module -> Nat]

ServerType ==
    /\ listening \in BOOLEAN /\ late \in BOOLEAN /\ tracks \in BOOLEAN
    /\ handlers \in Nat
    /\ sockets \subseteq Socket /\ tracked \subseteq Socket

CallType ==
    calls \in [Caller -> [of : UNION {[S -> Nat] : S \in SUBSET Module},
                          pending : SUBSET Module, threw : BOOLEAN]]

TypeOK == ModuleType /\ ServerType /\ CallType

\* A module is running as long as its _run() is, and the token says whether it
\* was asked to stop.
RunInv ==
    \A m \in Module :
        /\ state[m] = "running" <=> run[m] # "none"
        /\ run[m] # "none" => token[m] = asked[m]

\* The server closes because it was asked to, and knows its connections.
ServerInv ==
    /\ run[WebServer] \in {"counts", "waits"} => asked[WebServer]
    /\ run[WebServer] # "failed"
    /\ listening => run[WebServer] = "running"
    /\ tracks => sockets \subseteq tracked
    /\ run[WebServer] \in {"none", "ended"} /\ tracks => sockets = {}

\* A stop() waits for the run it was called for; a run it no longer waits for
\* is over, well unless it throws.
CallInv ==
    \A c \in Caller :
        /\ calls[c].pending \subseteq DOMAIN calls[c].of
        /\ \A m \in DOMAIN calls[c].of :
              /\ calls[c].of[m] <= runs[m]
              /\ m \in calls[c].pending =>
                    calls[c].of[m] = runs[m] /\ state[m] = "running"
              /\ m \notin calls[c].pending /\ ~calls[c].threw =>
                    runs[m] > calls[c].of[m] \/ state[m] = "stopped"

IInv == TypeOK /\ RunInv /\ ServerInv /\ CallInv
=============================================================================
