-------------------------- MODULE LifecycleProofs --------------------------
(***************************************************************************)
(* Proofs about what is run, stopped and disposed, for any callers, tasks, *)
(* modules and connections, and for any bounds: AsyncDisposer, Modules,    *)
(* InstanceProvider, Periodic and ProcessShutdown, each as one of the      *)
(* behaviours of MCLifecycle.                                              *)
(***************************************************************************)
EXTENDS MCLifecycle, FiniteSetTheorems, TLAPS

-----------------------------------------------------------------------------
(* AsyncDisposer.                                                          *)

USE ConcurrencyAssumption

\* The steps of a call, and of the program.
CallStep(c) ==
    \/ Dispose(c) \/ DisposeReturns(c) \/ DeferrerYielded(c)
    \/ \E t \in Task : Start(c, t) \/ TaskFails(c, t) \/ TaskEnds(c, t)
    \/ SlotIsFree(c) \/ IterationEnds(c) \/ Disposed(c)

ProgramStep ==
    \/ \E d \in Deferrer : GetDeferrer(d) \/ Yield(d)
    \/ \E t \in Task : Add(t)

\* Every step is one of the program or of a call, or changes nothing.
LEMMA Steps ==
    [Next]_vars => \/ UNCHANGED vars \/ ProgramStep
                   \/ \E c \in Caller : CallStep(c)
  BY Zenon DEF Next, CallStep, ProgramStep

\* The initial state satisfies the inductive invariant.
LEMMA InitInv == Init => IInv
<1> SUFFICES ASSUME Init PROVE IInv
  OBVIOUS
<1> USE DEF Init
<1>1. TypeOK
  BY DEF TypeOK
<1>2. OneCall /\ DeferrerInv /\ StartInv
  BY DEF OneCall, DeferrerInv, StartInv, Active, WaitIsOver
<1>3. SlotInv
  <2>1. IsFiniteSet({}) /\ Cardinality({}) = 0
    BY FS_EmptySet
  <2> QED
    BY <2>1 DEF SlotInv
<1>4. EndInv
  BY DEF EndInv, IterationIsOver
<1> QED
  BY <1>1, <1>2, <1>3, <1>4 DEF IInv

\* Every step keeps the types of the variables.
LEMMA TypeStep == TypeOK /\ [Next]_vars => TypeOK'
<1> SUFFICES ASSUME TypeOK, [Next]_vars PROVE TypeOK'
  OBVIOUS
<1> USE DEF TypeOK, programVars, tokenVars, callVars, history
<1>1. CASE UNCHANGED vars
  BY <1>1 DEF vars
<1>2. CASE ProgramStep
  BY <1>2 DEF ProgramStep, GetDeferrer, Yield, Add
<1>3. ASSUME NEW c \in Caller, CallStep(c) PROVE TypeOK'
  <2>1. CASE Dispose(c)
    BY <2>1 DEF Dispose, AwaitNext
  <2>2. CASE DisposeReturns(c)
    BY <2>2 DEF DisposeReturns
  <2>3. CASE DeferrerYielded(c)
    BY <2>3 DEF DeferrerYielded, AwaitNext
  <2>4. ASSUME NEW t \in Task, Start(c, t) PROVE TypeOK'
    BY <2>4 DEF Start
  <2>5. ASSUME NEW t \in Task, TaskFails(c, t) PROVE TypeOK'
    BY <2>5 DEF TaskFails
  <2>6. ASSUME NEW t \in Task, TaskEnds(c, t) PROVE TypeOK'
    BY <2>6 DEF TaskEnds
  <2>7. CASE SlotIsFree(c) \/ IterationEnds(c)
    BY <2>7 DEF SlotIsFree, IterationEnds
  <2>8. CASE Disposed(c)
    BY <2>8 DEF Disposed
  <2> QED
    BY <1>3, <2>1, <2>2, <2>3, <2>4, <2>5, <2>6, <2>7, <2>8 DEF CallStep
<1> QED
  BY <1>1, <1>2, <1>3, Steps

\* At most one call disposes, and only it has state of its own.
LEMMA OneCallStep == TypeOK /\ OneCall /\ [Next]_vars => OneCall'
<1> SUFFICES ASSUME TypeOK, OneCall, [Next]_vars PROVE OneCall'
  OBVIOUS
<1> USE DEF TypeOK, OneCall, Active, programVars, tokenVars, callVars, history
<1>1. CASE UNCHANGED vars
  BY <1>1 DEF vars
<1>2. CASE ProgramStep
  BY <1>2 DEF ProgramStep, GetDeferrer, Yield, Add
<1>3. ASSUME NEW c \in Caller, CallStep(c) PROVE OneCall'
  <2>1. CASE Dispose(c)
    BY <2>1 DEF Dispose, AwaitNext
  <2>2. CASE DisposeReturns(c)
    BY <2>2 DEF DisposeReturns
  <2>3. CASE DeferrerYielded(c)
    BY <2>3 DEF DeferrerYielded, AwaitNext
  <2>4. ASSUME NEW t \in Task, Start(c, t) PROVE OneCall'
    BY <2>4 DEF Start
  <2>5. ASSUME NEW t \in Task, TaskFails(c, t) PROVE OneCall'
    BY <2>5 DEF TaskFails
  <2>6. ASSUME NEW t \in Task, TaskEnds(c, t) PROVE OneCall'
    BY <2>6 DEF TaskEnds
  <2>7. CASE SlotIsFree(c) \/ IterationEnds(c)
    BY <2>7 DEF SlotIsFree, IterationEnds
  <2>8. CASE Disposed(c)
    BY <2>8 DEF Disposed
  <2> QED
    BY <1>3, <2>1, <2>2, <2>3, <2>4, <2>5, <2>6, <2>7, <2>8 DEF CallStep
<1> QED
  BY <1>1, <1>2, <1>3, Steps

\* When the wait is over, the early deferrers have been yielded, and no later
\* one is early.
LEMMA DeferrerStep == TypeOK /\ DeferrerInv /\ [Next]_vars => DeferrerInv'
<1> SUFFICES ASSUME TypeOK, DeferrerInv, [Next]_vars PROVE DeferrerInv'
  OBVIOUS
<1> USE DEF TypeOK, DeferrerInv, WaitIsOver, programVars, tokenVars, callVars, history
<1>1. CASE UNCHANGED vars
  BY <1>1 DEF vars
<1>2. CASE ProgramStep
  BY <1>2 DEF ProgramStep, GetDeferrer, Yield, Add
<1>3. ASSUME NEW c \in Caller, CallStep(c) PROVE DeferrerInv'
  <2>1. CASE Dispose(c)
    BY <2>1 DEF Dispose, AwaitNext
  <2>2. CASE DisposeReturns(c)
    BY <2>2 DEF DisposeReturns
  <2>3. CASE DeferrerYielded(c)
    BY <2>3 DEF DeferrerYielded, AwaitNext
  <2>4. ASSUME NEW t \in Task, Start(c, t) PROVE DeferrerInv'
    BY <2>4 DEF Start
  <2>5. ASSUME NEW t \in Task, TaskFails(c, t) PROVE DeferrerInv'
    BY <2>5 DEF TaskFails
  <2>6. ASSUME NEW t \in Task, TaskEnds(c, t) PROVE DeferrerInv'
    BY <2>6 DEF TaskEnds
  <2>7. CASE SlotIsFree(c) \/ IterationEnds(c)
    BY <2>7 DEF SlotIsFree, IterationEnds
  <2>8. CASE Disposed(c)
    BY <2>8 DEF Disposed
  <2> QED
    BY <1>3, <2>1, <2>2, <2>3, <2>4, <2>5, <2>6, <2>7, <2>8 DEF CallStep
<1> QED
  BY <1>1, <1>2, <1>3, Steps

\* A task is started by the step that puts it into visited, which only the one
\* call that disposes does.
LEMMA StartStep == TypeOK /\ OneCall /\ StartInv /\ [Next]_vars => StartInv'
<1> SUFFICES ASSUME TypeOK, OneCall, StartInv, [Next]_vars PROVE StartInv'
  OBVIOUS
<1>1. CASE UNCHANGED <<visited, starts>>
  BY <1>1 DEF StartInv
<1>2. ASSUME NEW c \in Caller, NEW t \in Task, Start(c, t) PROVE StartInv'
  <2>1. \A d \in Caller : t \notin visited[d]
    BY <1>2 DEF Start, OneCall, Active, TypeOK
  <2>2. starts[t] = 0
    BY <2>1 DEF StartInv, TypeOK
  <2>3. starts' = [starts EXCEPT ![t] = 1]
    BY <1>2, <2>2 DEF Start
  <2>4. visited' = [visited EXCEPT ![c] = visited[c] \cup {t}]
    BY <1>2 DEF Start
  <2> QED
    BY <2>3, <2>4 DEF StartInv, TypeOK
<1>3. ASSUME NEW c \in Caller, CallStep(c) PROVE StartInv'
  <2>1. CASE \E t \in Task : Start(c, t)
    BY <1>2, <2>1
  <2>2. CASE ~\E t \in Task : Start(c, t)
    BY <1>1, <1>3, <2>2 DEF CallStep, Dispose, DisposeReturns, DeferrerYielded,
        TaskFails, TaskEnds, SlotIsFree, IterationEnds, Disposed, history
  <2> QED
    BY <2>1, <2>2
<1>4. CASE ProgramStep
  BY <1>1, <1>4 DEF ProgramStep, GetDeferrer, Yield, Add, callVars, history
<1>5. CASE UNCHANGED vars
  BY <1>1, <1>5 DEF vars, callVars, history
<1> QED
  BY <1>3, <1>4, <1>5, Steps

\* A call pulls a task only while a slot is free.
LEMMA SlotStep == TypeOK /\ OneCall /\ SlotInv /\ [Next]_vars => SlotInv'
<1> SUFFICES ASSUME TypeOK, OneCall, SlotInv, [Next]_vars PROVE SlotInv'
  OBVIOUS
<1>1. CASE UNCHANGED <<running, pc>>
  BY <1>1 DEF SlotInv
<1>2. ASSUME NEW c \in Caller, NEW t \in Task, Start(c, t) PROVE SlotInv'
  <2> DEFINE S == running[c]
  <2>0. IsFiniteSet(S) /\ Cardinality(S) \in Nat
    BY FS_CardinalityType DEF SlotInv
  <2>4. /\ IsFiniteSet(S \cup {t})
        /\ Cardinality(S \cup {t}) \in {Cardinality(S), Cardinality(S) + 1}
    <3> HIDE DEF S
    <3> QED
      BY <2>0, FS_AddElement
  <2>1. /\ IsFiniteSet(running[c] \cup {t})
        /\ Cardinality(running[c] \cup {t}) <= Cardinality(running[c]) + 1
    BY <2>0, <2>4
  <2>2. /\ running' = [running EXCEPT ![c] = running[c] \cup {t}]
        /\ pc' = [pc EXCEPT ![c] = IF Cardinality(running[c] \cup {t}) >= Concurrency
                                   THEN "full" ELSE "pulling"]
    BY <1>2 DEF Start, TypeOK
  <2>3. /\ Cardinality(running[c]) \in Nat
        /\ Cardinality(running[c] \cup {t}) \in Nat
        /\ Cardinality(running[c]) < Concurrency
    BY <1>2, <2>1, FS_CardinalityType DEF Start, SlotInv
  <2> QED
    BY <2>1, <2>2, <2>3 DEF SlotInv, TypeOK
<1>3. ASSUME NEW c \in Caller, NEW t \in Task, TaskFails(c, t) \/ TaskEnds(c, t)
      PROVE  SlotInv'
  <2>1. /\ IsFiniteSet(running[c] \ {t})
        /\ Cardinality(running[c] \ {t}) <= Cardinality(running[c])
    BY FS_Subset DEF SlotInv
  <2>2. /\ running' = [running EXCEPT ![c] = running[c] \ {t}]
        /\ UNCHANGED pc
    BY <1>3 DEF TaskFails, TaskEnds
  <2>3. Cardinality(running[c]) \in Nat /\ Cardinality(running[c] \ {t}) \in Nat
    BY <2>1, FS_CardinalityType DEF SlotInv
  <2> QED
    BY <2>1, <2>2, <2>3 DEF SlotInv, TypeOK
<1>4. ASSUME NEW c \in Caller, Dispose(c) \/ DeferrerYielded(c) PROVE SlotInv'
  <2>1. running[c] = {} /\ UNCHANGED running
    BY <1>4 DEF Dispose, DeferrerYielded, OneCall, Active, history
  <2>2. \A d \in Caller : d # c => pc'[d] = pc[d]
    BY <1>4 DEF Dispose, DeferrerYielded, AwaitNext, TypeOK
  <2>3. Cardinality(running[c]) = 0
    BY <2>1, FS_EmptySet
  <2> QED
    BY <2>1, <2>2, <2>3 DEF SlotInv
<1>5. ASSUME NEW c \in Caller, DisposeReturns(c) \/ SlotIsFree(c) \/ IterationEnds(c)
                                 \/ Disposed(c)
      PROVE  SlotInv'
  BY <1>5 DEF DisposeReturns, SlotIsFree, IterationEnds, Disposed, SlotInv, TypeOK,
      callVars, history
<1>6. CASE ProgramStep
  BY <1>1, <1>6 DEF ProgramStep, GetDeferrer, Yield, Add, callVars
<1>7. CASE UNCHANGED vars
  BY <1>1, <1>7 DEF vars, callVars
<1> QED
  BY <1>2, <1>3, <1>4, <1>5, <1>6, <1>7, Steps DEF CallStep

\* What is due when the iteration ends has been started.
LEMMA EndStep ==
    TypeOK /\ OneCall /\ StartInv /\ EndInv /\ [Next]_vars => EndInv'
<1> SUFFICES ASSUME TypeOK, OneCall, StartInv, EndInv, [Next]_vars PROVE EndInv'
  OBVIOUS
<1> USE DEF TypeOK, EndInv, IterationIsOver, programVars, tokenVars, callVars, history
<1>1. CASE UNCHANGED vars
  BY <1>1 DEF vars
<1>2. CASE ProgramStep
  BY <1>2 DEF ProgramStep, GetDeferrer, Yield, Add
<1>3. ASSUME NEW c \in Caller, CallStep(c) PROVE EndInv'
  <2>1. CASE Dispose(c)
    BY <2>1 DEF Dispose, AwaitNext
  <2>2. CASE DisposeReturns(c)
    BY <2>2 DEF DisposeReturns
  <2>3. CASE DeferrerYielded(c)
    BY <2>3 DEF DeferrerYielded, AwaitNext
  <2>4. ASSUME NEW t \in Task, Start(c, t) PROVE EndInv'
    BY <2>4 DEF Start, OneCall, Active
  <2>5. ASSUME NEW t \in Task, TaskFails(c, t) PROVE EndInv'
    BY <2>5 DEF TaskFails
  <2>6. ASSUME NEW t \in Task, TaskEnds(c, t) PROVE EndInv'
    BY <2>6 DEF TaskEnds
  <2>7. CASE SlotIsFree(c)
    BY <2>7 DEF SlotIsFree
  <2>8. CASE IterationEnds(c)
    BY <2>8 DEF IterationEnds, StartInv
  <2>9. CASE Disposed(c)
    BY <2>9 DEF Disposed
  <2> QED
    BY <1>3, <2>1, <2>2, <2>3, <2>4, <2>5, <2>6, <2>7, <2>8, <2>9 DEF CallStep
<1> QED
  BY <1>1, <1>2, <1>3, Steps

\* Every step preserves the inductive invariant.
LEMMA InvStep == IInv /\ [Next]_vars => IInv'
  BY Zenon, TypeStep, OneCallStep, DeferrerStep, StartStep, SlotStep, EndStep DEF IInv

\* The inductive invariant.
THEOREM Invariance == Spec => []IInv
  BY InvStep, InitInv, PTL DEF Spec

\* Type correctness of the disposer.
THEOREM TypeCorrect == Spec => []TypeOK
<1>1. IInv => TypeOK
  BY DEF IInv
<1> QED
  BY <1>1, Invariance, PTL

\* No task is started while a deferrer taken before the wait was over is held.
THEOREM DeferrersFirst == Spec => []TasksAfterDeferrers
<1>1. IInv => TasksAfterDeferrers
  <2> SUFFICES ASSUME IInv, NEW t \in Task, starts[t] > 0
               PROVE  early \cap outstanding = {}
    BY DEF TasksAfterDeferrers
  <2>1. starts[t] = 1
    BY DEF IInv, StartInv, TypeOK
  <2>2. PICK c \in Caller : t \in visited[c]
    BY <2>1 DEF IInv, StartInv
  <2>3. WaitIsOver
    BY <2>2 DEF IInv, OneCall, Active, WaitIsOver
  <2> QED
    BY <2>3 DEF IInv, DeferrerInv
<1> QED
  BY <1>1, Invariance, PTL

\* However many calls of disposeAsync() there are, a task is started once.
THEOREM TasksOnce == Spec => []StartedOnce
<1>1. IInv => StartedOnce
  BY DEF IInv, StartInv, StartedOnce
<1> QED
  BY <1>1, Invariance, PTL

\* The tasks under way are never more than the concurrency.
THEOREM BoundedConcurrency == Spec => []Bounded
<1>1. IInv => Bounded
  <2> SUFFICES ASSUME IInv PROVE Bounded
    OBVIOUS
  <2>1. CASE \A c \in Caller : running[c] = {}
    <3>1. UNION {running[c] : c \in Caller} = {}
      BY <2>1
    <3> QED
      BY <3>1, FS_EmptySet DEF Bounded
  <2>2. ASSUME NEW c \in Caller, running[c] # {} PROVE Bounded
    <3>1. \A d \in Caller : d # c => running[d] = {}
      BY <2>2 DEF IInv, OneCall
    <3>2. UNION {running[d] : d \in Caller} = running[c]
      BY <3>1
    <3> QED
      BY <3>2 DEF IInv, SlotInv, Bounded
  <2> QED
    BY <2>1, <2>2
<1> QED
  BY <1>1, Invariance, PTL

\* A disposed disposer has run every task that was due.
THEOREM Complete == Spec => []DisposedIsComplete
<1>1. IInv => DisposedIsComplete
  <2> SUFFICES ASSUME IInv, disposed
               PROVE  /\ \A t \in due : starts[t] > 0
                      /\ \A c \in Caller : running[c] = {}
    BY DEF DisposedIsComplete
  <2>1. PICK c \in Caller : pc[c] \in {"ok", "threw"}
    BY DEF IInv, EndInv
  <2>2. \A t \in due : starts[t] = 1
    BY <2>1 DEF IInv, EndInv, IterationIsOver
  <2>3. \A d \in Caller : running[d] = {}
    BY <2>1 DEF IInv, EndInv, OneCall, Active
  <2> QED
    BY <2>2, <2>3
<1> QED
  BY <1>1, Invariance, PTL

\* The call that ran the tasks throws if one of them failed.
THEOREM FailuresReported == Spec => []FailureIsThrown
<1>1. IInv => FailureIsThrown
  <2> SUFFICES ASSUME IInv, NEW c \in Caller, pc[c] = "ok" PROVE failed = {}
    BY DEF FailureIsThrown
  <2>1. \A d \in Caller : errors[d] = {}
    BY DEF IInv, EndInv, OneCall, Active
  <2> QED
    BY <2>1 DEF IInv, EndInv
<1> QED
  BY <1>1, Invariance, PTL

\* Disposal waits for the deferrers, runs every task and reports a failure.
THEOREM Orderly == Spec => []DisposalIsOrderly
BY DeferrersFirst, Complete, FailuresReported, PTL DEF DisposalIsOrderly

HIDE ConcurrencyAssumption

-----------------------------------------------------------------------------
(* ProcessShutdown.                                                        *)

\* The initial state satisfies the inductive invariant.
LEMMA QuitInit == Quit!Init => Quit!IInv
<1> SUFFICES ASSUME Quit!Init PROVE Quit!IInv
  OBVIOUS
<1>1. Quit!TypeOK
  BY DEF Quit!Init, Quit!TypeOK
<1>2. Quit!ExitInv /\ Quit!EndInv
  BY Zenon DEF Quit!Init, Quit!ExitInv, Quit!EndInv
<1> QED
  BY <1>1, <1>2 DEF Quit!IInv

\* The process is asked to quit: what it has asked for is not forgotten.
LEMMA QuitRequest ==
    ASSUME Quit!IInv, Quit!requestShutdown,
           UNCHANGED <<working, end>>,
           signalCounter' \in Nat, signalCounter' >= signalCounter,
           exits \subseteq exits', exits' \subseteq exits \cup {"forced"},
           exits' # exits => signalCounter' > 1
    PROVE  Quit!IInv'
<1> USE DEF Quit!IInv, Quit!TypeOK, Quit!requestShutdown
<1>1. Quit!TypeOK'
  <2>1. /\ requested' \in BOOLEAN /\ shutdownToken' \in BOOLEAN
        /\ working' \in BOOLEAN /\ waiting' \in BOOLEAN
    OBVIOUS
  <2>2. /\ signalCounter' \in Nat /\ exits' \subseteq {"forced", "late"}
        /\ end' \in {"none", "done", "forced", "late"}
    OBVIOUS
  <2> QED
    BY <2>1, <2>2
<1>2. Quit!ExitInv'
  BY DEF Quit!ExitInv
<1>3. Quit!EndInv'
  BY DEF Quit!EndInv
<1> QED
  BY <1>1, <1>2, <1>3

\* Every step preserves the inductive invariant.
LEMMA QuitStep == Quit!IInv /\ [Quit!Next]_shutdownVars => Quit!IInv'
<1> SUFFICES ASSUME Quit!IInv, [Quit!Next]_shutdownVars PROVE Quit!IInv'
  OBVIOUS
<1>1. CASE Quit!Request
  BY <1>1, QuitRequest DEF Quit!Request, Quit!IInv, Quit!TypeOK
<1>2. CASE Quit!Signal
  <2>1. /\ Quit!requestShutdown /\ UNCHANGED <<working, end>>
        /\ signalCounter' = signalCounter + 1 /\ signalCounter \in Nat
        /\ exits' = IF signalCounter' > 1 THEN exits \cup {"forced"} ELSE exits
    BY <1>2 DEF Quit!Signal, Quit!IInv, Quit!TypeOK
  <2> QED
    BY <2>1, QuitRequest
<1> USE DEF Quit!IInv, Quit!TypeOK, Quit!ExitInv, Quit!EndInv, Quit!Alive
<1>3. CASE Quit!WorkEnds
  BY <1>3 DEF Quit!WorkEnds
<1>4. CASE Quit!Quit
  BY <1>4 DEF Quit!Quit
<1>5. CASE Quit!NothingLeft
  BY <1>5 DEF Quit!NothingLeft
<1>6. ASSUME NEW e \in {"late", "forced"}, Quit!Exit(e) PROVE Quit!IInv'
  BY <1>6 DEF Quit!Exit
<1>7. CASE UNCHANGED shutdownVars
  BY <1>7 DEF shutdownVars
<1> QED
  BY <1>1, <1>2, <1>3, <1>4, <1>5, <1>6, <1>7 DEF Quit!Next, Quit!Timers

\* What is promised of a process that was asked to quit.
LEMMA QuitIsKept == Quit!IInv => Quit!ShutdownIsKept
  BY DEF Quit!IInv, Quit!TypeOK, Quit!ExitInv, Quit!EndInv, Quit!ShutdownIsKept

-----------------------------------------------------------------------------
(* InstanceProvider.                                                       *)

\* The initial state satisfies the inductive invariant.
LEMMA GetInit == Get!Init => Get!IInv
<1> SUFFICES ASSUME Get!Init PROVE Get!IInv
  OBVIOUS
<1>1. Get!TypeOK
  BY BoundAssumption DEF Get!Init, Get!TypeOK
<1>2. Get!InstanceInv /\ Get!TriesInv /\ Get!CallInv
  BY BoundAssumption DEF Get!Init, Get!InstanceInv, Get!TriesInv, Get!CallInv
<1>3. Get!ConnectionInv
  BY DEF Get!Init, Get!ConnectionInv
<1> QED
  BY <1>1, <1>2, <1>3 DEF Get!IInv

\* Every step preserves the inductive invariant.
LEMMA GetStep == Get!IInv /\ [Get!Next]_getVars => Get!IInv'
<1> SUFFICES ASSUME Get!IInv, [Get!Next]_getVars PROVE Get!IInv'
  OBVIOUS
<1> USE DEF Get!IInv, Get!TypeOK, Get!InstanceInv, Get!TriesInv, Get!ConnectionInv,
            Get!CallInv
<1>1. ASSUME NEW c \in Caller, Get!Get(c) PROVE Get!IInv'
  <2>1. CASE instance = "none"
    BY <1>1, <2>1, BoundAssumption DEF Get!Get
  <2>2. CASE instance # "none"
    BY <1>1, <2>2 DEF Get!Get
  <2> QED
    BY <2>1, <2>2
<1>2. ASSUME NEW c \in Caller, Get!Receive(c) PROVE Get!IInv'
  BY <1>2 DEF Get!Receive
<1>3. ASSUME NEW c \in Caller, Get!Forget(c) PROVE Get!IInv'
  BY <1>3 DEF Get!Forget
<1>4. CASE Get!Attempt
  BY <1>4, BoundAssumption DEF Get!Attempt
<1>5. CASE Get!GiveUp
  BY <1>5 DEF Get!GiveUp
<1>6. CASE Get!PauseIsOver
  BY <1>6 DEF Get!PauseIsOver
<1>7. CASE Get!Built
  BY <1>7 DEF Get!Built
<1>8. CASE Get!Succeed
  BY <1>8 DEF Get!Succeed
<1>9. CASE Get!FailAttempt
  BY <1>9 DEF Get!FailAttempt
<1>10. CASE Get!Dispose
  BY <1>10 DEF Get!Dispose
<1>11. CASE Get!CloseClient
  BY <1>11 DEF Get!CloseClient
<1>12. CASE Get!NothingToClose
  BY <1>12 DEF Get!NothingToClose
<1>13. CASE UNCHANGED getVars
  BY <1>13 DEF getVars
<1> QED
  BY <1>1, <1>2, <1>3, <1>4, <1>5, <1>6, <1>7, <1>8, <1>9, <1>10, <1>11, <1>12, <1>13
  DEF Get!Next, Get!Loop

\* What is promised of a client.
LEMMA ClientIsKept == Get!IInv => Get!ClientIsKept
  BY BoundAssumption
  DEF Get!IInv, Get!TypeOK, Get!InstanceInv, Get!TriesInv, Get!ConnectionInv,
      Get!CallInv, Get!ClientIsKept

-----------------------------------------------------------------------------
(* Periodic.                                                               *)

\* The initial state satisfies the inductive invariant.
LEMMA PerInit == Per!Init => Per!IInv
<1> SUFFICES ASSUME Per!Init PROVE Per!IInv
  OBVIOUS
<1>1. Per!TypeOK
  <2> USE BoundAssumption DEF Per!Init
  <2>1. kind \in {"reporter", "sampler"} /\ looping \in BOOLEAN /\ stopRequested \in BOOLEAN
    OBVIOUS
  <2>2. quiet \in BOOLEAN /\ noisy \in BOOLEAN /\ overlap \in BOOLEAN
    OBVIOUS
  <2>3. /\ latest \in Nat /\ latest <= LoopRuns /\ loopCalls \in [Caller -> Nat]
        /\ \A c \in Caller : loopCalls[c] <= latest
    OBVIOUS
  <2>4. counter \in Nat /\ counted \in Nat /\ reported \in Nat /\ inner \in Nat
    OBVIOUS
  <2>5. /\ loops \in [Per!Loop -> {"none", "waits", "woken", "resets", "tests", "samples"}]
        /\ \A i \in Per!Loop : loops[i] = "none"
    OBVIOUS
  <2> QED
    BY <2>1, <2>2, <2>3, <2>4, <2>5 DEF Per!TypeOK, Per!FlagType, Per!LoopType, Per!CountType
<1>2. Per!LoopInv /\ Per!QuietInv
  BY DEF Per!Init, Per!LoopInv, Per!QuietInv, Per!Live
<1>3. Per!CountInv
  BY DEF Per!Init, Per!CountInv
<1> QED
  BY <1>1, <1>2, <1>3 DEF Per!IInv

\* The steps of a loop that neither emit nor end it.
Passes(i) ==
    \/ Per!Elapse(i) \/ Per!ResetCounter(i) \/ Per!NoReport(i) \/ Per!ReportOn(i)
    \/ Per!SampleOn(i)

\* What the module counts with is the Cardinality of the library.
LEMMA PerCardinality == \A S : Per!Cardinality(S) = Cardinality(S)
  BY DEF Per!Cardinality, Cardinality

\* How many loops are about to reset the counter while it counts.
LEMMA Resetting ==
    ASSUME Per!TypeOK, Per!LoopInv, kind = "reporter"
    PROVE  Cardinality({i \in Per!Loop : loops[i] = "resets"}) =
               IF \E i \in Per!Loop : loops[i] = "resets" THEN 1 ELSE 0
<1>1. CASE \E i \in Per!Loop : loops[i] = "resets"
  <2>1. {i \in Per!Loop : loops[i] = "resets"} = {latest}
    BY <1>1 DEF Per!LoopInv
  <2> QED
    BY <1>1, <2>1, FS_Singleton
<1>2. CASE ~\E i \in Per!Loop : loops[i] = "resets"
  <2>1. {i \in Per!Loop : loops[i] = "resets"} = {}
    BY <1>2
  <2> QED
    BY <1>2, <2>1, FS_EmptySet
<1> QED
  BY <1>1, <1>2

\* What Increase() counts, and where.
Counts ==
    /\ kind = "reporter"
    /\ counter' = counter + 1 /\ counted' = counted + 1
    /\ inner' = inner + IF \E i \in Per!Loop : loops[i] = "resets" THEN 1 ELSE 0
    /\ UNCHANGED <<loops, latest, reported>>

LEMMA IncreaseCounts ==
    ASSUME Per!TypeOK, Per!LoopInv, Per!Increase PROVE Counts
<1>1. kind = "reporter"
  BY DEF Per!Increase
<1>2. inner' = inner + Cardinality({i \in Per!Loop : loops[i] = "resets"})
  BY PerCardinality DEF Per!Increase
<1>3. /\ counter' = counter + 1 /\ counted' = counted + 1
      /\ UNCHANGED <<loops, latest, reported>>
  BY DEF Per!Increase, Per!flagVars
<1> QED
  BY <1>1, <1>2, <1>3, Resetting DEF Counts

\* Every step keeps the types of the flags, of the loops, and of what is counted.
LEMMA FlagTypeStep == Per!TypeOK /\ Per!LoopInv /\ [Per!Next]_periodicVars => Per!FlagType'
<1> SUFFICES ASSUME Per!TypeOK, Per!LoopInv, [Per!Next]_periodicVars PROVE Per!FlagType'
  OBVIOUS
<1> USE BoundAssumption
        DEF Per!FlagType, Per!TypeOK, Per!Goto, Per!Emits, Per!Loop, Per!flagVars, Per!quietVars
<1>1. CASE Per!Run
  BY <1>1 DEF Per!Run, Per!Begin
<1>2. CASE Per!Start
  BY <1>2 DEF Per!Start, Per!Begin
<1>3. CASE Per!Increase
  BY <1>3 DEF Per!Increase
<1>4. ASSUME NEW c \in Caller, Per!StopReporter(c) \/ Per!StopSampler(c) \/ Per!Stopped(c)
      PROVE  Per!FlagType'
  BY <1>4 DEF Per!StopReporter, Per!StopSampler, Per!Stopped
<1>5. ASSUME NEW i \in Per!Loop, Passes(i) PROVE Per!FlagType'
  BY <1>5 DEF Passes, Per!Elapse, Per!ResetCounter, Per!NoReport, Per!ReportOn,
              Per!SampleOn
<1>6. ASSUME NEW i \in Per!Loop, Per!Report(i) \/ Per!Sample(i) PROVE Per!FlagType'
  BY <1>6 DEF Per!Report, Per!Sample
<1>7. ASSUME NEW i \in Per!Loop, Per!EndReports(i) \/ Per!SampleFails(i) \/ Per!EndSamples(i)
      PROVE  Per!FlagType'
  BY <1>7 DEF Per!EndReports, Per!SampleFails, Per!EndSamples
<1>8. CASE UNCHANGED periodicVars
  BY <1>8 DEF periodicVars
<1> QED
  BY <1>1, <1>2, <1>3, <1>4, <1>5, <1>6, <1>7, <1>8 DEF Per!Next, Per!Step, Passes

LEMMA LoopTypeStep == Per!TypeOK /\ Per!LoopInv /\ [Per!Next]_periodicVars => Per!LoopType'
<1> SUFFICES ASSUME Per!TypeOK, Per!LoopInv, [Per!Next]_periodicVars PROVE Per!LoopType'
  OBVIOUS
<1> USE BoundAssumption
        DEF Per!LoopType, Per!TypeOK, Per!Goto, Per!Emits, Per!Loop, Per!flagVars, Per!quietVars
<1>1. CASE Per!Run
  BY <1>1 DEF Per!Run, Per!Begin
<1>2. CASE Per!Start
  BY <1>2 DEF Per!Start, Per!Begin
<1>3. CASE Per!Increase
  BY <1>3 DEF Per!Increase
<1>4. ASSUME NEW c \in Caller, Per!StopReporter(c) \/ Per!StopSampler(c) \/ Per!Stopped(c)
      PROVE  Per!LoopType'
  BY <1>4 DEF Per!StopReporter, Per!StopSampler, Per!Stopped
<1>5. ASSUME NEW i \in Per!Loop, Passes(i) PROVE Per!LoopType'
  BY <1>5 DEF Passes, Per!Elapse, Per!ResetCounter, Per!NoReport, Per!ReportOn,
              Per!SampleOn
<1>6. ASSUME NEW i \in Per!Loop, Per!Report(i) \/ Per!Sample(i) PROVE Per!LoopType'
  BY <1>6 DEF Per!Report, Per!Sample
<1>7. ASSUME NEW i \in Per!Loop, Per!EndReports(i) \/ Per!SampleFails(i) \/ Per!EndSamples(i)
      PROVE  Per!LoopType'
  BY <1>7 DEF Per!EndReports, Per!SampleFails, Per!EndSamples
<1>8. CASE UNCHANGED periodicVars
  BY <1>8 DEF periodicVars
<1> QED
  BY <1>1, <1>2, <1>3, <1>4, <1>5, <1>6, <1>7, <1>8 DEF Per!Next, Per!Step, Passes

LEMMA CountTypeStep == Per!TypeOK /\ Per!LoopInv /\ [Per!Next]_periodicVars => Per!CountType'
<1> SUFFICES ASSUME Per!TypeOK, Per!LoopInv, [Per!Next]_periodicVars PROVE Per!CountType'
  OBVIOUS
<1> USE BoundAssumption
        DEF Per!CountType, Per!TypeOK, Per!Goto, Per!Emits, Per!Loop, Per!flagVars, Per!quietVars
<1>1. CASE Per!Run
  BY <1>1 DEF Per!Run, Per!Begin
<1>2. CASE Per!Start
  BY <1>2 DEF Per!Start, Per!Begin
<1>3. CASE Per!Increase
  BY <1>3, IncreaseCounts DEF Counts
<1>4. ASSUME NEW c \in Caller, Per!StopReporter(c) \/ Per!StopSampler(c) \/ Per!Stopped(c)
      PROVE  Per!CountType'
  BY <1>4 DEF Per!StopReporter, Per!StopSampler, Per!Stopped
<1>5. ASSUME NEW i \in Per!Loop, Passes(i) PROVE Per!CountType'
  BY <1>5 DEF Passes, Per!Elapse, Per!ResetCounter, Per!NoReport, Per!ReportOn,
              Per!SampleOn
<1>6. ASSUME NEW i \in Per!Loop, Per!Report(i) \/ Per!Sample(i) PROVE Per!CountType'
  BY <1>6 DEF Per!Report, Per!Sample
<1>7. ASSUME NEW i \in Per!Loop, Per!EndReports(i) \/ Per!SampleFails(i) \/ Per!EndSamples(i)
      PROVE  Per!CountType'
  BY <1>7 DEF Per!EndReports, Per!SampleFails, Per!EndSamples
<1>8. CASE UNCHANGED periodicVars
  BY <1>8 DEF periodicVars
<1> QED
  BY <1>1, <1>2, <1>3, <1>4, <1>5, <1>6, <1>7, <1>8 DEF Per!Next, Per!Step, Passes

LEMMA PerTypeStep == Per!TypeOK /\ Per!LoopInv /\ [Per!Next]_periodicVars => Per!TypeOK'
  BY FlagTypeStep, LoopTypeStep, CountTypeStep DEF Per!TypeOK

\* Every step preserves each part of the inductive invariant.
LEMMA LoopStep == Per!IInv /\ Per!TypeOK' /\ [Per!Next]_periodicVars => Per!LoopInv'
<1> SUFFICES ASSUME Per!IInv, Per!TypeOK', [Per!Next]_periodicVars PROVE Per!LoopInv'
  OBVIOUS
<1> USE BoundAssumption
        DEF Per!IInv, Per!TypeOK, Per!FlagType, Per!LoopType, Per!LoopInv, Per!Live,
            Per!Goto, Per!Emits, Per!Loop, Per!flagVars, Per!quietVars
<1>1. CASE Per!Run
  BY <1>1 DEF Per!Run, Per!Begin
<1>2. CASE Per!Start
  <2>1. kind = "sampler" /\ latest' = latest + 1 /\ UNCHANGED kind
    BY <1>2 DEF Per!Start, Per!Begin
  <2>2. ASSUME NEW i \in Per!Loop, loops'[i] # "none", i # latest'
        PROVE  overlap' /\ i < latest'
    <3>1. loops[i] # "none" /\ i \in Per!Live
      BY <1>2, <2>1, <2>2 DEF Per!Start, Per!Begin
    <3>2. i <= latest
      BY <3>1
    <3>3. overlap'
      BY <1>2, <3>1 DEF Per!Start, Per!Begin
    <3> QED
      BY <3>2, <3>3, <2>1
  <2> QED
    BY <2>1, <2>2
<1>3. CASE Per!Increase
  BY <1>3 DEF Per!Increase
<1>4. ASSUME NEW c \in Caller, Per!StopReporter(c) PROVE Per!LoopInv'
  BY <1>4 DEF Per!StopReporter
<1>5. ASSUME NEW c \in Caller, Per!StopSampler(c) PROVE Per!LoopInv'
  BY <1>5 DEF Per!StopSampler
<1>6. ASSUME NEW c \in Caller, Per!Stopped(c) PROVE Per!LoopInv'
  BY <1>6 DEF Per!Stopped
<1>7. ASSUME NEW i \in Per!Loop, Passes(i) PROVE Per!LoopInv'
  <2>1. CASE Per!ResetCounter(i)
    BY <2>1 DEF Per!ResetCounter
  <2>2. CASE Per!Elapse(i) \/ Per!NoReport(i)
    BY <2>2 DEF Per!Elapse, Per!NoReport
  <2>3. CASE Per!ReportOn(i) \/ Per!SampleOn(i)
    BY <2>3 DEF Per!ReportOn, Per!SampleOn
  <2> QED
    BY <1>7, <2>1, <2>2, <2>3 DEF Passes
<1>8. ASSUME NEW i \in Per!Loop, Per!Report(i) PROVE Per!LoopInv'
  BY <1>8 DEF Per!Report, Per!Reports
<1>9. ASSUME NEW i \in Per!Loop, Per!Sample(i) PROVE Per!LoopInv'
  BY <1>9 DEF Per!Sample
<1>10. ASSUME NEW i \in Per!Loop, Per!EndReports(i) PROVE Per!LoopInv'
  BY <1>10 DEF Per!EndReports
<1>11. ASSUME NEW i \in Per!Loop, Per!SampleFails(i) \/ Per!EndSamples(i) PROVE Per!LoopInv'
  BY <1>11 DEF Per!SampleFails, Per!EndSamples
<1>12. CASE UNCHANGED periodicVars
  BY <1>12 DEF periodicVars
<1> QED
  BY <1>1, <1>2, <1>3, <1>4, <1>5, <1>6, <1>7, <1>8, <1>9, <1>10, <1>11, <1>12
  DEF Per!Next, Per!Step, Passes

LEMMA QuietStep == Per!IInv /\ Per!TypeOK' /\ [Per!Next]_periodicVars => Per!QuietInv'
<1> SUFFICES ASSUME Per!IInv, Per!TypeOK', [Per!Next]_periodicVars PROVE Per!QuietInv'
  OBVIOUS
<1> USE BoundAssumption
        DEF Per!IInv, Per!TypeOK, Per!FlagType, Per!LoopType, Per!LoopInv, Per!QuietInv, Per!Live,
            Per!Goto, Per!Emits, Per!Loop, Per!flagVars, Per!quietVars
<1>1. CASE Per!Run
  BY <1>1 DEF Per!Run, Per!Begin
<1>2. CASE Per!Start
  BY <1>2 DEF Per!Start, Per!Begin
<1>3. CASE Per!Increase
  BY <1>3 DEF Per!Increase
<1>4. ASSUME NEW c \in Caller, Per!StopReporter(c) PROVE Per!QuietInv'
  BY <1>4 DEF Per!StopReporter
<1>5. ASSUME NEW c \in Caller, Per!StopSampler(c) PROVE Per!QuietInv'
  BY <1>5 DEF Per!StopSampler
<1>6. ASSUME NEW c \in Caller, Per!Stopped(c) PROVE Per!QuietInv'
  BY <1>6 DEF Per!Stopped
<1>7. ASSUME NEW i \in Per!Loop, Passes(i) PROVE Per!QuietInv'
  <2>1. CASE Per!ResetCounter(i)
    BY <2>1 DEF Per!ResetCounter
  <2>2. CASE Per!Elapse(i) \/ Per!NoReport(i)
    BY <2>2 DEF Per!Elapse, Per!NoReport
  <2>3. CASE Per!ReportOn(i) \/ Per!SampleOn(i)
    BY <2>3 DEF Per!ReportOn, Per!SampleOn
  <2> QED
    BY <1>7, <2>1, <2>2, <2>3 DEF Passes
<1>8. ASSUME NEW i \in Per!Loop, Per!Report(i) PROVE Per!QuietInv'
  BY <1>8 DEF Per!Report, Per!Reports
<1>9. ASSUME NEW i \in Per!Loop, Per!Sample(i) PROVE Per!QuietInv'
  BY <1>9 DEF Per!Sample
<1>10. ASSUME NEW i \in Per!Loop, Per!EndReports(i) PROVE Per!QuietInv'
  BY <1>10 DEF Per!EndReports
<1>11. ASSUME NEW i \in Per!Loop, Per!SampleFails(i) \/ Per!EndSamples(i) PROVE Per!QuietInv'
  BY <1>11 DEF Per!SampleFails, Per!EndSamples
<1>12. CASE UNCHANGED periodicVars
  BY <1>12 DEF periodicVars
<1> QED
  BY <1>1, <1>2, <1>3, <1>4, <1>5, <1>6, <1>7, <1>8, <1>9, <1>10, <1>11, <1>12
  DEF Per!Next, Per!Step, Passes

LEMMA CountStep == Per!IInv /\ Per!TypeOK' /\ [Per!Next]_periodicVars => Per!CountInv'
<1> SUFFICES ASSUME Per!IInv, Per!TypeOK', [Per!Next]_periodicVars PROVE Per!CountInv'
  OBVIOUS
<1> USE BoundAssumption
        DEF Per!IInv, Per!TypeOK, Per!LoopType, Per!CountType, Per!LoopInv, Per!CountInv,
            Per!Goto, Per!Emits, Per!flagVars, Per!quietVars
<1>1. CASE Per!Run
  BY <1>1 DEF Per!Run, Per!Begin
<1>2. CASE Per!Start
  <2>1. kind = "sampler" /\ UNCHANGED <<counter, counted, reported, inner>>
    BY <1>2 DEF Per!Start
  <2>2. \A i \in Per!Loop : loops[i] # "resets"
    BY <2>1
  <2>3. \A i \in Per!Loop : loops'[i] \in {loops[i], "samples"}
    BY <1>2 DEF Per!Start, Per!Begin
  <2> QED
    BY <2>1, <2>2, <2>3
<1>3. CASE Per!Increase
  <2>1. Counts
    BY <1>3, IncreaseCounts
  <2>2. CASE \E i \in Per!Loop : loops[i] = "resets"
    BY <2>1, <2>2 DEF Counts
  <2>3. CASE ~\E i \in Per!Loop : loops[i] = "resets"
    BY <2>1, <2>3 DEF Counts
  <2> QED
    BY <2>2, <2>3
<1>4. ASSUME NEW c \in Caller, Per!StopReporter(c) PROVE Per!CountInv'
  BY <1>4 DEF Per!StopReporter
<1>5. ASSUME NEW c \in Caller, Per!StopSampler(c) PROVE Per!CountInv'
  BY <1>5 DEF Per!StopSampler
<1>6. ASSUME NEW c \in Caller, Per!Stopped(c) PROVE Per!CountInv'
  BY <1>6 DEF Per!Stopped
<1>7. ASSUME NEW i \in Per!Loop, Passes(i) PROVE Per!CountInv'
  <2>1. CASE Per!ResetCounter(i)
    BY <2>1 DEF Per!ResetCounter
  <2>2. CASE Per!Elapse(i) \/ Per!NoReport(i)
    BY <2>2 DEF Per!Elapse, Per!NoReport
  <2>3. CASE Per!ReportOn(i) \/ Per!SampleOn(i)
    BY <2>3 DEF Per!ReportOn, Per!SampleOn
  <2> QED
    BY <1>7, <2>1, <2>2, <2>3 DEF Passes
<1>8. ASSUME NEW i \in Per!Loop, Per!Report(i) PROVE Per!CountInv'
  BY <1>8 DEF Per!Report, Per!Reports
<1>9. ASSUME NEW i \in Per!Loop, Per!Sample(i) PROVE Per!CountInv'
  BY <1>9 DEF Per!Sample
<1>10. ASSUME NEW i \in Per!Loop, Per!EndReports(i) PROVE Per!CountInv'
  BY <1>10 DEF Per!EndReports
<1>11. ASSUME NEW i \in Per!Loop, Per!SampleFails(i) \/ Per!EndSamples(i) PROVE Per!CountInv'
  BY <1>11 DEF Per!SampleFails, Per!EndSamples
<1>12. CASE UNCHANGED periodicVars
  BY <1>12 DEF periodicVars
<1> QED
  BY <1>1, <1>2, <1>3, <1>4, <1>5, <1>6, <1>7, <1>8, <1>9, <1>10, <1>11, <1>12
  DEF Per!Next, Per!Step, Passes

LEMMA PerStep == Per!IInv /\ [Per!Next]_periodicVars => Per!IInv'
  BY Zenon, PerTypeStep, LoopStep, QuietStep, CountStep DEF Per!IInv

\* What is promised of a reporter and of a sampler that was stopped.
LEMMA PeriodicStopIsKept == Per!IInv => Per!StopIsKept
<1> SUFFICES ASSUME Per!IInv PROVE Per!StopIsKept
  OBVIOUS
<1>1. noisy => overlap
  BY DEF Per!IInv, Per!QuietInv
<1>2. kind = "reporter" => Cardinality(Per!Live) <= 1
  <2> SUFFICES ASSUME kind = "reporter" PROVE Cardinality(Per!Live) <= 1
    OBVIOUS
  <2>1. Per!Live = {} \/ Per!Live = {latest}
    BY DEF Per!IInv, Per!LoopInv, Per!Live
  <2>2. CASE Per!Live = {}
    BY <2>2, FS_EmptySet
  <2>3. CASE Per!Live = {latest}
    <3>1. Cardinality({latest}) = 1
      BY FS_Singleton
    <3> QED
      BY <2>3, <3>1
  <2> QED
    BY <2>1, <2>2, <2>3
<1>3. kind = "reporter" => ~overlap
  BY DEF Per!IInv, Per!LoopInv
<1>4. (\A i \in Per!Loop : loops[i] # "resets") => counter + reported + inner = counted
  BY DEF Per!IInv, Per!CountInv
<1> QED
  BY <1>1, <1>2, <1>3, <1>4, PerCardinality DEF Per!StopIsKept

-----------------------------------------------------------------------------
(* Modules.                                                                *)

\* The initial state satisfies the inductive invariant.
LEMMA ModInit == Mod!Init => Mod!IInv
<1> SUFFICES ASSUME Mod!Init PROVE Mod!IInv
  OBVIOUS
<1>1. Mod!TypeOK
  <2> USE DEF Mod!Init
  <2>1. /\ state \in [Module -> {"stopped", "running", "erroneous"}]
        /\ token \in [Module -> BOOLEAN] /\ asked \in [Module -> BOOLEAN]
        /\ runs \in [Module -> Nat]
    OBVIOUS
  <2>2. run \in [Module -> {"none", "running", "counts", "waits"} \cup Mod!Over]
    OBVIOUS
  <2>3. /\ listening \in BOOLEAN /\ late \in BOOLEAN /\ tracks \in BOOLEAN
        /\ handlers \in Nat /\ sockets \subseteq Socket /\ tracked \subseteq Socket
    OBVIOUS
  <2>4. moduleCalls \in [Caller -> [of : UNION {[S -> Nat] : S \in SUBSET Module},
                                    pending : SUBSET Module, threw : BOOLEAN]]
    <3>1. <<>> \in [{} -> Nat]
      OBVIOUS
    <3> QED
      BY <3>1 DEF Mod!NoCall
  <2> QED
    BY <2>1, <2>2, <2>3, <2>4 DEF Mod!TypeOK, Mod!ModuleType, Mod!ServerType, Mod!CallType
<1>2. Mod!RunInv /\ Mod!ServerInv
  BY WebServerAssumption DEF Mod!Init, Mod!RunInv, Mod!ServerInv
<1>3. Mod!CallInv
  BY DEF Mod!Init, Mod!CallInv, Mod!NoCall
<1> QED
  BY <1>1, <1>2, <1>3 DEF Mod!IInv

\* The steps that leave the modules and the calls as they are, but for _run().
RunMoves ==
    \/ \E m \in Module : Mod!Work(m) \/ Mod!Fail(m)
    \/ Mod!Serve

\* The steps of the clients, and of the timer of the server.
ClientStep ==
    Mod!TimeIsUp \/ \E s \in Socket : Mod!Connect(s) \/ Mod!Disconnect(s)

\* Every step is one of run(), of a call, of _run() or of a client.
LEMMA ModSteps ==
    ASSUME [Mod!Next]_moduleVars
    PROVE  \/ \E S \in SUBSET Module : Mod!Run(S) \/ \E c \in Caller : Mod!Stop(c, S)
           \/ \E c \in Caller : Mod!Return(c)
           \/ \E m \in Module : Mod!Settle(m)
           \/ RunMoves \/ ClientStep \/ UNCHANGED moduleVars
  BY Zenon DEF Mod!Next, RunMoves, ClientStep

\* Every step keeps the types of the modules.
LEMMA ModuleTypeStep == Mod!TypeOK /\ [Mod!Next]_moduleVars => Mod!ModuleType'
<1> SUFFICES ASSUME Mod!TypeOK, [Mod!Next]_moduleVars PROVE Mod!ModuleType'
  OBVIOUS
<1> USE DEF Mod!TypeOK, Mod!ModuleType, Mod!Put, Mod!Over
<1>1. ASSUME NEW S \in SUBSET Module, Mod!Run(S) PROVE Mod!ModuleType'
  <2> DEFINE can == {m \in S : state[m] = "stopped"}
  <2>1. /\ token' = [m \in Module |-> IF m \in can THEN FALSE ELSE token[m]]
        /\ asked' = [m \in Module |-> IF m \in can THEN FALSE ELSE asked[m]]
        /\ state' = [m \in Module |-> IF m \in can THEN "running" ELSE state[m]]
        /\ run' = [m \in Module |-> IF m \in can THEN "running" ELSE run[m]]
        /\ runs' = [m \in Module |-> runs[m] + (IF m \in can THEN 1 ELSE 0)]
    BY <1>1 DEF Mod!Run, Mod!Reset
  <2> HIDE DEF can
  <2>2. token' \in [Module -> BOOLEAN]
    BY <2>1
  <2>5. asked' \in [Module -> BOOLEAN]
    BY <2>1
  <2>6. runs' \in [Module -> Nat]
    BY <2>1
  <2>3. state' \in [Module -> {"stopped", "running", "erroneous"}]
    BY <2>1
  <2>4. run' \in [Module -> {"none", "running", "counts", "waits"} \cup Mod!Over]
    BY <2>1
  <2> QED
    BY <2>2, <2>3, <2>4, <2>5, <2>6
<1>2. ASSUME NEW S \in SUBSET Module, NEW c \in Caller, Mod!Stop(c, S)
      PROVE  Mod!ModuleType'
  BY <1>2 DEF Mod!Stop
<1>3. ASSUME NEW c \in Caller, Mod!Return(c) PROVE Mod!ModuleType'
  BY <1>3 DEF Mod!Return, Mod!moduleVars
<1>4. ASSUME NEW m \in Module, Mod!Settle(m) PROVE Mod!ModuleType'
  BY <1>4 DEF Mod!Settle
<1>5. CASE RunMoves
  <2>1. ASSUME NEW m \in Module, Mod!Work(m) \/ Mod!Fail(m) PROVE Mod!ModuleType'
    BY <2>1 DEF Mod!Work, Mod!Fail
  <2>2. CASE Mod!Serve
    BY <2>2 DEF Mod!Serve, Mod!Close, Mod!NoneLeft, Mod!Force, Mod!Wait,
        Mod!WaitIsOver, Mod!Goto
  <2> QED
    BY <1>5, <2>1, <2>2 DEF RunMoves
<1>6. CASE ClientStep
  BY <1>6 DEF ClientStep, Mod!TimeIsUp, Mod!Connect, Mod!Disconnect, Mod!moduleVars
<1>7. CASE UNCHANGED moduleVars
  BY <1>7 DEF moduleVars
<1> QED
  BY <1>1, <1>2, <1>3, <1>4, <1>5, <1>6, <1>7, ModSteps

\* Every step keeps the types of the server.
LEMMA ServerTypeStep == Mod!TypeOK /\ [Mod!Next]_moduleVars => Mod!ServerType'
<1> SUFFICES ASSUME Mod!TypeOK, [Mod!Next]_moduleVars PROVE Mod!ServerType'
  OBVIOUS
<1> USE DEF Mod!TypeOK, Mod!ServerType, Mod!serverVars
<1>1. ASSUME NEW S \in SUBSET Module, Mod!Run(S) PROVE Mod!ServerType'
  BY <1>1 DEF Mod!Run
<1>2. ASSUME NEW S \in SUBSET Module, NEW c \in Caller, Mod!Stop(c, S)
      PROVE  Mod!ServerType'
  BY <1>2 DEF Mod!Stop
<1>3. ASSUME NEW c \in Caller, Mod!Return(c) PROVE Mod!ServerType'
  BY <1>3 DEF Mod!Return
<1>4. ASSUME NEW m \in Module, Mod!Settle(m) PROVE Mod!ServerType'
  BY <1>4 DEF Mod!Settle
<1>5. CASE RunMoves
  <2>1. ASSUME NEW m \in Module, Mod!Work(m) \/ Mod!Fail(m) PROVE Mod!ServerType'
    BY <2>1 DEF Mod!Work, Mod!Fail
  <2>2. CASE Mod!Serve
    BY <2>2 DEF Mod!Serve, Mod!Close, Mod!NoneLeft, Mod!Force, Mod!Wait,
        Mod!WaitIsOver, Mod!Goto
  <2> QED
    BY <1>5, <2>1, <2>2 DEF RunMoves
<1>6. CASE ClientStep
  BY <1>6 DEF ClientStep, Mod!TimeIsUp, Mod!Connect, Mod!Disconnect
<1>7. CASE UNCHANGED moduleVars
  BY <1>7 DEF moduleVars
<1> QED
  BY <1>1, <1>2, <1>3, <1>4, <1>5, <1>6, <1>7, ModSteps

\* The record of a call that has just begun, and its parts.
LEMMA NewCall ==
    ASSUME Mod!ModuleType, NEW can \in SUBSET Module, NEW threw_ \in BOOLEAN
    PROVE  [of |-> [m \in can |-> runs[m]], pending |-> can, threw |-> threw_]
             \in [of : UNION {[S -> Nat] : S \in SUBSET Module},
                  pending : SUBSET Module, threw : BOOLEAN]
<1>1. [m \in can |-> runs[m]] \in [can -> Nat]
  BY DEF Mod!ModuleType
<1> QED
  BY <1>1

\* Every step keeps the types of the calls.
LEMMA CallTypeStep == Mod!TypeOK /\ [Mod!Next]_moduleVars => Mod!CallType'
<1> SUFFICES ASSUME Mod!TypeOK, [Mod!Next]_moduleVars PROVE Mod!CallType'
  OBVIOUS
<1> USE DEF Mod!TypeOK
<1>1. ASSUME UNCHANGED moduleCalls PROVE Mod!CallType'
  BY <1>1 DEF Mod!CallType
<1>2. ASSUME NEW S \in SUBSET Module, NEW c \in Caller, Mod!Stop(c, S)
      PROVE  Mod!CallType'
  <2> DEFINE can == {m \in S : state[m] = "running"}
  <2>1. moduleCalls' = [moduleCalls EXCEPT ![c] =
            [of |-> [m \in can |-> runs[m]], pending |-> can, threw |-> S # can]]
    BY <1>2 DEF Mod!Stop
  <2>2. can \in SUBSET Module /\ (S # can) \in BOOLEAN
    OBVIOUS
  <2> HIDE DEF can
  <2> QED
    BY <2>1, <2>2, NewCall DEF Mod!CallType
<1>3. ASSUME NEW c \in Caller, Mod!Return(c) PROVE Mod!CallType'
  <2>1. Mod!NoCall \in [of : UNION {[S -> Nat] : S \in SUBSET Module},
                        pending : SUBSET Module, threw : BOOLEAN]
    <3>1. <<>> \in [{} -> Nat]
      OBVIOUS
    <3> QED
      BY <3>1 DEF Mod!NoCall
  <2> QED
    BY <1>3, <2>1 DEF Mod!Return, Mod!CallType
<1>4. ASSUME NEW m \in Module, Mod!Settle(m) PROVE Mod!CallType'
  BY <1>4 DEF Mod!Settle, Mod!CallType
<1>5. CASE RunMoves \/ ClientStep
  <2>1. UNCHANGED moduleCalls
    BY <1>5 DEF RunMoves, Mod!Work, Mod!Fail, Mod!Serve, Mod!Close, Mod!NoneLeft,
        Mod!Force, Mod!Wait, Mod!WaitIsOver, Mod!Goto, ClientStep, Mod!TimeIsUp,
        Mod!Connect, Mod!Disconnect
  <2> QED
    BY <1>1, <2>1
<1>6. ASSUME NEW S \in SUBSET Module, Mod!Run(S) PROVE Mod!CallType'
  BY <1>1, <1>6 DEF Mod!Run
<1>7. CASE UNCHANGED moduleVars
  BY <1>1, <1>7 DEF moduleVars
<1> QED
  BY <1>2, <1>3, <1>4, <1>5, <1>6, <1>7, ModSteps

\* The token of a module that runs is the one its last stop() has set, or nobody.
LEMMA RunInvStep == Mod!IInv /\ [Mod!Next]_moduleVars => Mod!RunInv'
<1> SUFFICES ASSUME Mod!IInv, [Mod!Next]_moduleVars PROVE Mod!RunInv'
  OBVIOUS
<1> USE DEF Mod!IInv, Mod!TypeOK, Mod!ModuleType, Mod!RunInv, Mod!Put, Mod!Over
<1>1. ASSUME NEW S \in SUBSET Module, Mod!Run(S) PROVE Mod!RunInv'
  BY <1>1 DEF Mod!Run, Mod!Reset
<1>2. ASSUME NEW S \in SUBSET Module, NEW c \in Caller, Mod!Stop(c, S)
      PROVE  Mod!RunInv'
  BY <1>2 DEF Mod!Stop
<1>3. ASSUME NEW c \in Caller, Mod!Return(c) PROVE Mod!RunInv'
  BY <1>3 DEF Mod!Return, Mod!moduleVars
<1>4. ASSUME NEW m \in Module, Mod!Settle(m) PROVE Mod!RunInv'
  BY <1>4 DEF Mod!Settle
<1>5. CASE RunMoves
  <2>1. ASSUME NEW m \in Module, Mod!Work(m) \/ Mod!Fail(m) PROVE Mod!RunInv'
    BY <2>1 DEF Mod!Work, Mod!Fail
  <2>2. CASE Mod!Serve
    BY <2>2, WebServerAssumption DEF Mod!Serve, Mod!Close, Mod!NoneLeft, Mod!Force,
        Mod!Wait, Mod!WaitIsOver, Mod!Goto
  <2> QED
    BY <1>5, <2>1, <2>2 DEF RunMoves
<1>6. CASE ClientStep
  BY <1>6 DEF ClientStep, Mod!TimeIsUp, Mod!Connect, Mod!Disconnect, Mod!moduleVars
<1>7. CASE UNCHANGED moduleVars
  BY <1>7 DEF moduleVars
<1> QED
  BY <1>1, <1>2, <1>3, <1>4, <1>5, <1>6, <1>7, ModSteps

\* The server closes as it was asked to, and leaves no connection that it tracked.
LEMMA ServerInvStep == Mod!IInv /\ [Mod!Next]_moduleVars => Mod!ServerInv'
<1> SUFFICES ASSUME Mod!IInv, [Mod!Next]_moduleVars PROVE Mod!ServerInv'
  OBVIOUS
<1> USE WebServerAssumption
        DEF Mod!IInv, Mod!TypeOK, Mod!ModuleType, Mod!ServerType, Mod!RunInv,
            Mod!ServerInv, Mod!Put, Mod!Over, Mod!serverVars
<1>1. ASSUME NEW S \in SUBSET Module, Mod!Run(S) PROVE Mod!ServerInv'
  BY <1>1 DEF Mod!Run, Mod!Reset
<1>2. ASSUME NEW S \in SUBSET Module, NEW c \in Caller, Mod!Stop(c, S)
      PROVE  Mod!ServerInv'
  BY <1>2 DEF Mod!Stop
<1>3. ASSUME NEW c \in Caller, Mod!Return(c) PROVE Mod!ServerInv'
  BY <1>3 DEF Mod!Return, Mod!moduleVars
<1>4. ASSUME NEW m \in Module, Mod!Settle(m) PROVE Mod!ServerInv'
  BY <1>4 DEF Mod!Settle
<1>5. ASSUME NEW m \in Module, Mod!Work(m) \/ Mod!Fail(m) PROVE Mod!ServerInv'
  BY <1>5 DEF Mod!Work, Mod!Fail
<1>6. CASE Mod!Close
  BY <1>6 DEF Mod!Close, Mod!Goto
<1>7. CASE Mod!NoneLeft
  BY <1>7 DEF Mod!NoneLeft, Mod!Goto
<1>8. CASE Mod!Force
  BY <1>8 DEF Mod!Force, Mod!Goto
<1>9. CASE Mod!Wait \/ Mod!WaitIsOver
  BY <1>9 DEF Mod!Wait, Mod!WaitIsOver, Mod!Goto
<1>10. CASE ClientStep
  BY <1>10 DEF ClientStep, Mod!TimeIsUp, Mod!Connect, Mod!Disconnect, Mod!moduleVars
<1>11. CASE UNCHANGED moduleVars
  BY <1>11 DEF moduleVars
<1> QED
  BY <1>1, <1>2, <1>3, <1>4, <1>5, <1>6, <1>7, <1>8, <1>9, <1>10, <1>11, ModSteps
  DEF RunMoves, Mod!Serve

\* A call waits for the run it was called for, until that is over.
LEMMA CallInvStep == Mod!IInv /\ [Mod!Next]_moduleVars => Mod!CallInv'
<1> SUFFICES ASSUME Mod!IInv, [Mod!Next]_moduleVars PROVE Mod!CallInv'
  OBVIOUS
<1> USE DEF Mod!IInv, Mod!TypeOK, Mod!ModuleType, Mod!CallType, Mod!RunInv, Mod!CallInv
<1>1. CASE UNCHANGED <<moduleCalls, runs, state>>
  BY <1>1
<1>2. ASSUME NEW S \in SUBSET Module, Mod!Run(S) PROVE Mod!CallInv'
  <2>1. /\ UNCHANGED moduleCalls
        /\ \A m \in Module : \/ runs'[m] = runs[m] /\ state'[m] = state[m]
                             \/ runs'[m] = runs[m] + 1 /\ state[m] = "stopped"
    BY <1>2 DEF Mod!Run, Mod!Put
  <2> QED
    BY <2>1
<1>3. ASSUME NEW S \in SUBSET Module, NEW c \in Caller, Mod!Stop(c, S)
      PROVE  Mod!CallInv'
  <2> DEFINE can == {m \in S : state[m] = "running"}
  <2>1. moduleCalls' = [moduleCalls EXCEPT ![c] =
            [of |-> [m \in can |-> runs[m]], pending |-> can, threw |-> S # can]]
    BY <1>3 DEF Mod!Stop
  <2>2. UNCHANGED <<runs, state>>
    BY <1>3 DEF Mod!Stop
  <2>3. can \subseteq Module /\ \A m \in can : state[m] = "running"
    OBVIOUS
  <2> HIDE DEF can
  <2> QED
    BY <2>1, <2>2, <2>3
<1>4. ASSUME NEW c \in Caller, Mod!Return(c) PROVE Mod!CallInv'
  <2>1. Mod!NoCall.pending = {} /\ DOMAIN Mod!NoCall.of = {}
    BY DEF Mod!NoCall
  <2>2. UNCHANGED <<runs, state>> /\ moduleCalls' = [moduleCalls EXCEPT ![c] = Mod!NoCall]
    BY <1>4 DEF Mod!Return, Mod!moduleVars
  <2> QED
    BY <2>1, <2>2
<1>5. ASSUME NEW m \in Module, Mod!Settle(m) PROVE Mod!CallInv'
  <2>1. \A c \in Caller :
           /\ moduleCalls'[c].of = moduleCalls[c].of
           /\ moduleCalls'[c].pending = moduleCalls[c].pending \ {m}
           /\ ~moduleCalls'[c].threw => ~moduleCalls[c].threw
           /\ ~moduleCalls'[c].threw /\ m \in moduleCalls[c].pending => run[m] # "failed"
    <3> SUFFICES ASSUME NEW c \in Caller
                 PROVE  /\ moduleCalls'[c].of = moduleCalls[c].of
                        /\ moduleCalls'[c].pending = moduleCalls[c].pending \ {m}
                        /\ ~moduleCalls'[c].threw => ~moduleCalls[c].threw
                        /\ ~moduleCalls'[c].threw /\ m \in moduleCalls[c].pending
                              => run[m] # "failed"
      OBVIOUS
    <3>1. CASE m \in moduleCalls[c].pending
      <4>1. moduleCalls'[c] = [moduleCalls[c] EXCEPT !.pending = @ \ {m},
                                                     !.threw = @ \/ run[m] = "failed"]
        BY <1>5, <3>1 DEF Mod!Settle
      <4> DEFINE old == moduleCalls[c]
                 new == moduleCalls'[c]
      <4>2. old \in [of : UNION {[S -> Nat] : S \in SUBSET Module},
                     pending : SUBSET Module, threw : BOOLEAN]
        OBVIOUS
      <4>3. new.of = old.of /\ new.pending = old.pending \ {m}
        BY <4>1, <4>2
      <4>4. new.threw = (old.threw \/ run[m] = "failed")
        BY <4>1, <4>2
      <4> QED
        BY <4>3, <4>4
    <3>2. CASE m \notin moduleCalls[c].pending
      <4>1. moduleCalls'[c] = moduleCalls[c]
        BY <1>5, <3>2 DEF Mod!Settle
      <4> QED
        BY <3>2, <4>1
    <3> QED
      BY <3>1, <3>2
  <2>2. /\ UNCHANGED runs /\ run[m] \in Mod!Over
        /\ state' = [state EXCEPT ![m] = IF run[m] = "ended" THEN "stopped" ELSE "erroneous"]
    BY <1>5 DEF Mod!Settle
  <2>3. state[m] = "running"
    BY <2>2 DEF Mod!Over
  <2> QED
    BY <2>1, <2>2, <2>3 DEF Mod!Over
<1>6. CASE RunMoves \/ ClientStep
  <2>1. UNCHANGED <<moduleCalls, runs, state>>
    BY <1>6 DEF RunMoves, Mod!Work, Mod!Fail, Mod!Serve, Mod!Close, Mod!NoneLeft,
        Mod!Force, Mod!Wait, Mod!WaitIsOver, Mod!Goto, ClientStep, Mod!TimeIsUp,
        Mod!Connect, Mod!Disconnect, Mod!moduleVars
  <2> QED
    BY <1>1, <2>1
<1>7. CASE UNCHANGED moduleVars
  BY <1>1, <1>7 DEF moduleVars
<1> QED
  BY <1>2, <1>3, <1>4, <1>5, <1>6, <1>7, ModSteps

\* Every step preserves the inductive invariant.
LEMMA ModStep == Mod!IInv /\ [Mod!Next]_moduleVars => Mod!IInv'
<1> SUFFICES ASSUME Mod!IInv, [Mod!Next]_moduleVars PROVE Mod!IInv'
  OBVIOUS
<1>1. Mod!TypeOK'
  BY ModuleTypeStep, ServerTypeStep, CallTypeStep DEF Mod!IInv, Mod!TypeOK
<1> QED
  BY <1>1, RunInvStep, ServerInvStep, CallInvStep DEF Mod!IInv

\* What is promised of stop() and stopModules().
LEMMA ModuleStopIsKept == Mod!IInv => Mod!StopIsKept
<1> SUFFICES ASSUME Mod!IInv PROVE Mod!StopIsKept
  OBVIOUS
<1> USE DEF Mod!IInv, Mod!TypeOK, Mod!ModuleType, Mod!ServerType, Mod!RunInv,
            Mod!ServerInv, Mod!CallInv
<1>1. ASSUME NEW c \in Caller, Mod!Resolved(c), NEW m \in DOMAIN moduleCalls[c].of
      PROVE  \/ runs[m] > moduleCalls[c].of[m]
             \/ state[m] = "stopped" /\ (m = WebServer => ~listening)
  <2>1. runs[m] > moduleCalls[c].of[m] \/ state[m] = "stopped"
    BY <1>1 DEF Mod!Resolved
  <2>2. state[WebServer] = "stopped" => ~listening
    BY WebServerAssumption
  <2> QED
    BY <2>1, <2>2
<1> QED
  BY <1>1 DEF Mod!StopIsKept

-----------------------------------------------------------------------------
(* All of them.                                                            *)

\* The inductive invariants hold in all behaviours of MCSpec.
LifecycleInv == IInv /\ Mod!IInv /\ Get!IInv /\ Per!IInv /\ Quit!IInv

\* A behaviour of the one is none of the others.
LEMMA LifecycleStep == LifecycleInv /\ [MCNext]_allVars => LifecycleInv'
<1> SUFFICES ASSUME LifecycleInv, [MCNext]_allVars PROVE LifecycleInv'
  OBVIOUS
<1>1. /\ [Next]_vars /\ [Mod!Next]_moduleVars /\ [Get!Next]_getVars
      /\ [Per!Next]_periodicVars /\ [Quit!Next]_shutdownVars
  BY Zenon DEF MCNext, allVars
<1>2. IInv'
  BY <1>1, InvStep DEF LifecycleInv
<1> QED
  BY <1>1, <1>2, ModStep, GetStep, PerStep, QuitStep DEF LifecycleInv

\* Each inductive invariant holds throughout every behaviour.
THEOREM LifecycleInvariance == MCSpec => []LifecycleInv
<1>1. MCInit => LifecycleInv
  BY InitInv, ModInit, GetInit, PerInit, QuitInit DEF MCInit, LifecycleInv
<1> QED
  BY <1>1, LifecycleStep, PTL DEF MCSpec

\* What stop() and disposal promise holds whenever they have returned, and from
\* then on: for modules, for a client, for a periodic loop and for the process.
THEOREM StopsAreKept == MCSpec => []StopIsKept
<1>1. LifecycleInv => StopIsKept
  BY ModuleStopIsKept, ClientIsKept, PeriodicStopIsKept, QuitIsKept
  DEF LifecycleInv, StopIsKept
<1> QED
  BY <1>1, LifecycleInvariance, PTL
=============================================================================
