--------------------------- MODULE InstanceProvider ---------------------------
(***************************************************************************)
(* singleton(), connect() and disposeInstances(), as getMongoClient() and  *)
(* getElasticClient() use them: a client is built once, connected in       *)
(* several tries, and closed by a task of the disposer.  Callers ask for   *)
(* it while the process starts, and while it is shut down.                 *)
(***************************************************************************)
EXTENDS Integers

CONSTANTS Caller, MaxTries

VARIABLES
    instance,                  \* what the singleton has: nothing, a promise, the client
    connecting,                \* where connect() is
    triesLeft,
    connection,                \* of the client
    disposing,                 \* where the disposal is
    calls,                     \* what a caller waits for or got
    tries, skipped, crossed    \* history: attempts; connect() gave up for the
                               \* disposal; an attempt was under way at the close

vars == <<instance, connecting, triesLeft, connection, disposing, calls, tries, skipped, crossed>>

Init ==
    /\ instance = "none" /\ connecting = "none" /\ triesLeft = MaxTries
    /\ connection = "none" /\ disposing = "no"
    /\ calls = [c \in Caller |-> "none"]
    /\ tries = 0 /\ skipped = FALSE /\ crossed = FALSE

-----------------------------------------------------------------------------
\* The first caller builds the client, and adds its task to the disposer; all
\* callers wait for the same promise.
Get(c) ==
    /\ calls[c] = "none"
    /\ \/ /\ instance = "none"
          /\ instance' = "promise" /\ connecting' = "loops"
          /\ calls' = [calls EXCEPT ![c] = "waits"]
       \/ /\ instance # "none"
          /\ calls' = [calls EXCEPT ![c] = IF instance = "client" THEN "client" ELSE "waits"]
          /\ UNCHANGED <<instance, connecting>>
    /\ UNCHANGED <<triesLeft, connection, disposing, tries, skipped, crossed>>

Attempt ==
    /\ connecting = "loops"
    /\ disposing = "no" /\ triesLeft > 0
    /\ triesLeft' = triesLeft - 1
    /\ tries' = tries + 1
    /\ connecting' = "connects"
    /\ UNCHANGED <<instance, connection, disposing, calls, skipped, crossed>>

\* The loop is left while the disposer is disposing, without an error.
GiveUp ==
    /\ connecting = "loops"
    /\ ~(disposing = "no" /\ triesLeft > 0)
    /\ connecting' = "connected"
    /\ skipped' = (disposing # "no")
    /\ UNCHANGED <<instance, triesLeft, connection, disposing, calls, tries, crossed>>

Succeed ==
    /\ connecting = "connects"
    /\ connecting' = "connected"
    /\ connection' = "open"
    /\ UNCHANGED <<instance, triesLeft, disposing, calls, tries, skipped, crossed>>

\* After the last one it throws.
FailAttempt ==
    /\ connecting = "connects"
    /\ connecting' = IF triesLeft = 0 THEN "failed" ELSE "pauses"
    /\ UNCHANGED <<instance, triesLeft, connection, disposing, calls, tries, skipped, crossed>>

\* timeout(2000)
PauseIsOver ==
    /\ connecting = "pauses"
    /\ connecting' = "loops"
    /\ UNCHANGED <<instance, triesLeft, connection, disposing, calls, tries, skipped, crossed>>

\* The builder's promise is settled: asyncSingleton() stores the client; a promise
\* that is rejected stays.
Built ==
    /\ connecting = "connected"
    /\ connecting' = "done"
    /\ instance' = "client"
    /\ UNCHANGED <<triesLeft, connection, disposing, calls, tries, skipped, crossed>>

Receive(c) ==
    /\ calls[c] = "waits"
    /\ connecting \in {"done", "failed"}
    /\ calls' = [calls EXCEPT ![c] = IF connecting = "done" THEN "client" ELSE "error"]
    /\ UNCHANGED <<instance, connecting, triesLeft, connection, disposing, tries, skipped, crossed>>

\* A caller may come again.
Forget(c) ==
    /\ calls[c] \in {"client", "error"}
    /\ calls' = [calls EXCEPT ![c] = "none"]
    /\ UNCHANGED <<instance, connecting, triesLeft, connection, disposing, tries, skipped, crossed>>

-----------------------------------------------------------------------------
\* disposeInstances()
Dispose ==
    /\ disposing = "no"
    /\ disposing' = "disposing"
    /\ UNCHANGED <<instance, connecting, triesLeft, connection, calls, tries, skipped, crossed>>

\* The task of the client, if there is one by then.
CloseClient ==
    /\ disposing = "disposing" /\ instance # "none"
    /\ disposing' = "disposed"
    /\ connection' = "closed"
    /\ crossed' = (connecting = "connects")
    /\ UNCHANGED <<instance, connecting, triesLeft, calls, tries, skipped>>

NothingToClose ==
    /\ disposing = "disposing" /\ instance = "none"
    /\ disposing' = "disposed"
    /\ UNCHANGED <<instance, connecting, triesLeft, connection, calls, tries, skipped, crossed>>

Loop == Attempt \/ GiveUp \/ PauseIsOver \/ Built

Next ==
    \/ \E c \in Caller : Get(c) \/ Receive(c) \/ Forget(c)
    \/ Loop \/ Succeed \/ FailAttempt
    \/ Dispose \/ CloseClient \/ NothingToClose

\* An attempt succeeds or fails some time, timers fire, promises wake callers.
Fairness ==
    /\ WF_vars(Loop) /\ WF_vars(Succeed \/ FailAttempt)
    /\ \A c \in Caller : WF_vars(Receive(c))

Spec == Init /\ [][Next]_vars /\ Fairness

-----------------------------------------------------------------------------
(* Properties.                                                              *)

\* Who gets a client gets one that was connected, unless the disposal had begun;
\* who gets an error does after MaxTries failed attempts, and then nobody gets
\* the client.  No client is open once it was closed, except one whose attempt
\* was under way at the close.
ClientIsKept ==
    /\ tries <= MaxTries
    /\ \A c \in Caller :
          /\ calls[c] = "client" => connection # "none" \/ skipped
          /\ calls[c] = "error" => tries = MaxTries /\ instance = "promise"
    /\ skipped => disposing # "no"
    /\ disposing = "disposed" /\ connection = "open" => crossed

\* Every caller gets the client or an error.
CallsEnd == \A c \in Caller : calls[c] = "waits" ~> calls[c] # "waits"
-----------------------------------------------------------------------------
(* The inductive invariant, proved in LifecycleProofs.                      *)


\* The type invariant.
TypeOK ==
    /\ instance \in {"none", "promise", "client"}
    /\ connecting \in {"none", "loops", "connects", "pauses", "connected", "failed", "done"}
    /\ triesLeft \in Nat /\ tries \in Nat
    /\ connection \in {"none", "open", "closed"}
    /\ disposing \in {"no", "disposing", "disposed"}
    /\ calls \in [Caller -> {"none", "waits", "client", "error"}]
    /\ skipped \in BOOLEAN /\ crossed \in BOOLEAN

\* The singleton has a promise as long as connect() is under way, or failed.
InstanceInv ==
    /\ instance = "none" <=> connecting = "none"
    /\ instance = "client" <=> connecting = "done"

\* Tries are counted, and left while the loop goes on.
TriesInv ==
    /\ tries + triesLeft = MaxTries
    /\ connecting = "none" => tries = 0
    /\ connecting \in {"loops", "pauses"} => triesLeft > 0
    /\ connecting = "failed" => triesLeft = 0

ConnectionInv ==
    /\ connecting \in {"connected", "done"} => connection # "none" \/ skipped
    /\ connection = "open" => connecting \in {"connected", "done"}
    /\ skipped => disposing # "no"
    /\ disposing = "disposed" /\ (connecting = "connects" \/ connection = "open") => crossed

CallInv ==
    \A c \in Caller :
        /\ calls[c] = "client" => connecting = "done"
        /\ calls[c] = "error" => connecting = "failed"

IInv == TypeOK /\ InstanceInv /\ TriesInv /\ ConnectionInv /\ CallInv
=============================================================================
