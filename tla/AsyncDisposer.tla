---------------------------- MODULE AsyncDisposer ----------------------------
(***************************************************************************)
(* base/source/disposable/async-disposer.ts.  Disposal awaits everybody who *)
(* holds a deferrer, then runs the tasks by parallelForEach.  Both loops go *)
(* over live sets: what is added while they iterate is visited too.  The    *)
(* program may take deferrers, yield them and add tasks at any time, also   *)
(* while disposal awaits.                                                   *)
(*                                                                          *)
(* The loops visit in the order of insertion; as they visit everything, the *)
(* order is left open here.                                                 *)
(***************************************************************************)
EXTENDS Integers, FiniteSets

CONSTANTS
    Deferrer,                  \* what getDeferrer() will return
    Task,                      \* what add() will be given
    Caller,                    \* the calls of disposeAsync()
    Concurrency                \* 10, of parallelForEach

ASSUME ConcurrencyAssumption == Concurrency \in Nat \ {0}

VARIABLES
    outstanding,               \* deferrers
    tasks,
    disposing,                 \* disposingToken
    disposed,                  \* disposedToken
    pc,                        \* where a call is
    awaited,                   \* the deferrer it awaits
    visited,                   \* the tasks its iterator has returned
    running,                   \* its tasks under way
    errors,                    \* its tasks that failed
    taken,                     \* the deferrers that were taken
    early,                     \* those of them taken before a wait was over
    due,                       \* the tasks added before an iteration was over
    starts,                    \* how often a task was started
    failed                     \* the tasks that rejected

programVars == <<outstanding, tasks>>
tokenVars == <<disposing, disposed>>
callVars == <<pc, awaited, visited, running, errors>>
history == <<taken, early, due, starts, failed>>
vars == <<programVars, tokenVars, callVars, history>>

Nobody == "nobody"

Init ==
    /\ outstanding = {}
    /\ tasks = {}
    /\ disposing = FALSE
    /\ disposed = FALSE
    /\ pc = [c \in Caller |-> "idle"]
    /\ awaited = [c \in Caller |-> Nobody]
    /\ visited = [c \in Caller |-> {}]
    /\ running = [c \in Caller |-> {}]
    /\ errors = [c \in Caller |-> {}]
    /\ taken = {}
    /\ early = {}
    /\ due = {}
    /\ starts = [t \in Task |-> 0]
    /\ failed = {}

Iterating == {"pulling", "full"}
WaitIsOver == \E c \in Caller : pc[c] \notin {"idle", "deferring", "returned"}
IterationIsOver == \E c \in Caller : pc[c] \in {"draining", "ok", "threw"}

-----------------------------------------------------------------------------
(* The program.                                                             *)

GetDeferrer(d) ==
    /\ d \notin taken
    /\ taken' = taken \cup {d}
    /\ outstanding' = outstanding \cup {d}
    /\ early' = IF WaitIsOver THEN early ELSE early \cup {d}
    /\ UNCHANGED <<tasks, tokenVars, callVars, due, starts, failed>>

\* A second yield() throws in DeferredPromise.resolve() and changes nothing.
Yield(d) ==
    /\ d \in outstanding
    /\ outstanding' = outstanding \ {d}
    /\ UNCHANGED <<tasks, tokenVars, callVars, history>>

Add(t) ==
    /\ t \notin tasks
    /\ tasks' = tasks \cup {t}
    /\ due' = IF IterationIsOver THEN due ELSE due \cup {t}
    /\ UNCHANGED <<outstanding, tokenVars, callVars, taken, early, starts, failed>>

-----------------------------------------------------------------------------
(* disposeAsync()                                                           *)

\* The loop visits one more deferrer, or is over.
AwaitNext(c) ==
    \/ /\ outstanding = {}
       /\ pc' = [pc EXCEPT ![c] = "pulling"]
       /\ UNCHANGED awaited
    \/ \E d \in outstanding :
          /\ awaited' = [awaited EXCEPT ![c] = d]
          /\ pc' = [pc EXCEPT ![c] = "deferring"]

Dispose(c) ==
    /\ pc[c] = "idle"
    /\ ~disposing
    /\ disposing' = TRUE
    /\ AwaitNext(c)
    /\ UNCHANGED <<programVars, disposed, visited, running, errors, history>>

\* A call after the first one awaits the token that is set already.
DisposeReturns(c) ==
    /\ pc[c] = "idle"
    /\ disposing
    /\ pc' = [pc EXCEPT ![c] = "returned"]
    /\ UNCHANGED <<programVars, tokenVars, awaited, visited, running, errors, history>>

DeferrerYielded(c) ==
    /\ pc[c] = "deferring"
    /\ awaited[c] \notin outstanding
    /\ AwaitNext(c)
    /\ UNCHANGED <<programVars, tokenVars, visited, running, errors, history>>

-----------------------------------------------------------------------------
(* parallelForEach(tasks, 10, task => ...), whose function never rejects.    *)

Start(c, t) ==
    /\ pc[c] = "pulling"
    /\ t \in tasks \ visited[c]
    /\ visited' = [visited EXCEPT ![c] = @ \cup {t}]
    /\ running' = [running EXCEPT ![c] = @ \cup {t}]
    /\ starts' = [starts EXCEPT ![t] = @ + 1]
    /\ pc' = [pc EXCEPT ![c] = IF Cardinality(running'[c]) >= Concurrency
                               THEN "full" ELSE "pulling"]
    /\ UNCHANGED <<programVars, tokenVars, awaited, errors, taken, early, due, failed>>

\* running.$length
SlotIsFree(c) ==
    /\ pc[c] = "full"
    /\ Cardinality(running[c]) < Concurrency
    /\ pc' = [pc EXCEPT ![c] = "pulling"]
    /\ UNCHANGED <<programVars, tokenVars, awaited, visited, running, errors, history>>

IterationEnds(c) ==
    /\ pc[c] = "pulling"
    /\ tasks \subseteq visited[c]
    /\ pc' = [pc EXCEPT ![c] = "draining"]
    /\ UNCHANGED <<programVars, tokenVars, awaited, visited, running, errors, history>>

\* Mutant: the error is caught but not kept.
TaskFailsUnseen(c, t) ==
    /\ t \in running[c]
    /\ running' = [running EXCEPT ![c] = @ \ {t}]
    /\ failed' = failed \cup {t}
    /\ UNCHANGED <<programVars, tokenVars, pc, awaited, visited, errors,
                   taken, early, due, starts>>

TaskFails(c, t) ==
    /\ t \in running[c]
    /\ running' = [running EXCEPT ![c] = @ \ {t}]
    /\ failed' = failed \cup {t}
    /\ errors' = [errors EXCEPT ![c] = @ \cup {t}]
    /\ UNCHANGED <<programVars, tokenVars, pc, awaited, visited,
                   taken, early, due, starts>>

TaskEnds(c, t) ==
    /\ t \in running[c]
    /\ running' = [running EXCEPT ![c] = @ \ {t}]
    /\ UNCHANGED <<programVars, tokenVars, pc, awaited, visited, errors, history>>

\* Mutant: the token is set after the errors are thrown.
DisposedUnlessFailed(c) ==
    /\ pc[c] = "draining"
    /\ running[c] = {}
    /\ disposed' = (errors[c] = {})
    /\ pc' = [pc EXCEPT ![c] = IF errors[c] = {} THEN "ok" ELSE "threw"]
    /\ UNCHANGED <<programVars, disposing, awaited, visited, running, errors, history>>

\* running.$empty, and the rest of disposeAsync().
Disposed(c) ==
    /\ pc[c] = "draining"
    /\ running[c] = {}
    /\ disposed' = TRUE
    /\ pc' = [pc EXCEPT ![c] = IF errors[c] = {} THEN "ok" ELSE "threw"]
    /\ UNCHANGED <<programVars, disposing, awaited, visited, running, errors, history>>

-----------------------------------------------------------------------------
Next ==
    \/ \E d \in Deferrer : GetDeferrer(d) \/ Yield(d)
    \/ \E t \in Task : Add(t)
    \/ \E c \in Caller :
          \/ Dispose(c) \/ DisposeReturns(c) \/ DeferrerYielded(c)
          \/ \E t \in Task : Start(c, t) \/ TaskFails(c, t) \/ TaskEnds(c, t)
          \/ SlotIsFree(c) \/ IterationEnds(c) \/ Disposed(c)

Spec == Init /\ [][Next]_vars

\* Whoever holds a deferrer yields it, tasks settle, and promises that are
\* resolved wake who awaits them.  Nobody has to call anything.
Fairness ==
    /\ \A d \in Deferrer : WF_vars(Yield(d))
    /\ \A c \in Caller :
          /\ WF_vars(DeferrerYielded(c))
          /\ WF_vars(\E t \in Task : Start(c, t))
          /\ \A t \in Task : WF_vars(TaskFails(c, t) \/ TaskEnds(c, t))
          /\ WF_vars(SlotIsFree(c))
          /\ WF_vars(IterationEnds(c))
          /\ WF_vars(Disposed(c))

FairSpec == Spec /\ Fairness

-----------------------------------------------------------------------------
\* The type invariant.
TypeOK ==
    /\ outstanding \subseteq Deferrer
    /\ tasks \subseteq Task
    /\ disposing \in BOOLEAN
    /\ disposed \in BOOLEAN
    /\ pc \in [Caller -> {"idle", "deferring", "pulling", "full", "draining",
                          "ok", "threw", "returned"}]
    /\ awaited \in [Caller -> Deferrer \cup {Nobody}]
    /\ visited \in [Caller -> SUBSET Task]
    /\ running \in [Caller -> SUBSET Task]
    /\ errors \in [Caller -> SUBSET Task]
    /\ taken \subseteq Deferrer
    /\ early \subseteq Deferrer
    /\ due \subseteq Task
    /\ starts \in [Task -> Nat]
    /\ failed \subseteq Task
    /\ \A c \in Caller :
          /\ running[c] \cup errors[c] \subseteq visited[c]
          /\ running[c] \cap errors[c] = {}

\* No task is started while somebody holds a deferrer that was taken before
\* the wait for deferrers was over, also if it was taken during the wait.
TasksAfterDeferrers ==
    (\E t \in Task : starts[t] > 0) => early \cap outstanding = {}

\* However often disposal is asked for, no task is started twice.
StartedOnce == \A t \in Task : starts[t] <= 1

\* Never more than Concurrency tasks are under way, over all calls.
Bounded == Cardinality(UNION {running[c] : c \in Caller}) <= Concurrency

\* When the disposer is disposed, every task that was added before the last one
\* was started has been started and settled, although others failed.
DisposedIsComplete ==
    disposed => /\ \A t \in due : starts[t] > 0
                /\ \A c \in Caller : running[c] = {}

\* The call that ran the tasks returns without an error only if none failed.
FailureIsThrown == \A c \in Caller : pc[c] = "ok" => failed = {}

\* Disposal is in order: the deferrers first, then all tasks, and no failure of
\* a task is hidden.
DisposalIsOrderly == TasksAfterDeferrers /\ DisposedIsComplete /\ FailureIsThrown

-----------------------------------------------------------------------------
(* The inductive invariant behind the safety properties.                     *)

Active(c) == pc[c] \notin {"idle", "returned"}

\* One call at most disposes; what the others keep is as it was.
OneCall ==
    /\ \A c \in Caller : Active(c) => disposing
    /\ \A c, d \in Caller : Active(c) /\ Active(d) => c = d
    /\ \A c \in Caller : ~Active(c) \/ pc[c] = "deferring" =>
          visited[c] = {} /\ running[c] = {} /\ errors[c] = {}

DeferrerInv ==
    /\ early \cup outstanding \subseteq taken
    /\ WaitIsOver => early \cap outstanding = {}

\* A task was started if an iterator returned it, which it does once.
StartInv ==
    \A t \in Task :
        /\ starts[t] <= 1
        /\ starts[t] = 1 <=> \E c \in Caller : t \in visited[c]

SlotInv ==
    \A c \in Caller :
        /\ IsFiniteSet(running[c])
        /\ Cardinality(running[c]) <= Concurrency
        /\ pc[c] = "pulling" => Cardinality(running[c]) < Concurrency

EndInv ==
    /\ due \subseteq tasks
    /\ IterationIsOver => \A t \in due : starts[t] = 1
    /\ disposed => \E c \in Caller : pc[c] \in {"ok", "threw"}
    /\ \A c \in Caller : pc[c] \in {"ok", "threw"} => running[c] = {}
    /\ \A c \in Caller : pc[c] = "ok" => errors[c] = {}
    /\ \A t \in failed : \E c \in Caller : t \in errors[c]

IInv == TypeOK /\ OneCall /\ DeferrerInv /\ StartInv /\ SlotInv /\ EndInv

\* Disposal comes to its end.
DisposalEnds == disposing ~> disposed
=============================================================================
