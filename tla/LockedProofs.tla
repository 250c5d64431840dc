---------------------------- MODULE LockedProofs ----------------------------
(***************************************************************************)
(* Proofs about what nodes do one after the other under a lock.            *)
(*                                                                         *)
(* Migrator, for any nodes, versions and migrations: while no lease is     *)
(* lost under a migration, the stored revision follows the migrations that *)
(* were run, and stays at least what migrate() promised.                   *)
(*                                                                         *)
(* DistributedLoop, for every set of nodes, interval and accuracy: turns   *)
(* that nothing disturbs are spaced.                                       *)
(***************************************************************************)
EXTENDS MCLocked, TLAPS

-----------------------------------------------------------------------------
(* Migrator.                                                               *)

LEMMA InitInv == Init => IInv
<1> SUFFICES ASSUME Init PROVE IInv
  OBVIOUS
<1>1. TypeOK
  BY DEF Init, TypeOK
<1>2. \A n \in Node : pc[n] = "idle"
  BY DEF Init
<1> QED
  BY <1>1, <1>2 DEF IInv, HolderInv, CurrentInv, ChosenInv, CompletedInv, ReturnInv,
                    Inside, Loaded

\* A command that stores a revision moves it forward, along the migration that was
\* chosen.
LEMMA StoresLemma ==
    ASSUME IInv, NEW n \in Node, Stores(n)
    PROVE  /\ stored' \in Nat /\ completed' = {}
           /\ ~leaseLost => /\ chosen[n] \in completed
                            /\ stored \in From[chosen[n]]
                            /\ stored' = To[chosen[n]]
                            /\ stored < stored'
<1>1. chosen[n] \in Migration /\ current[n] \in From[chosen[n]]
  BY DeployedAssumption DEF IInv, ChosenInv, Stores
<1>2. stored' = To[chosen[n]] /\ stored' \in Nat /\ completed' = {}
  BY <1>1, MigrationAssumption DEF Stores
<1>3. ~leaseLost => stored = current[n] /\ chosen[n] \in completed
  BY DEF IInv, CurrentInv, CompletedInv, Stores, Loaded
<1>4. current[n] < To[chosen[n]]
  BY <1>1, MigrationAssumption
<1> QED
  BY <1>1, <1>2, <1>3, <1>4

\* What a step of one node may do to the shared state, so that the invariant of the
\* other nodes survives it: nothing, or store a revision while it holds the lock.
LEMMA StoringStep ==
    ASSUME IInv, NEW n \in Node, NEW place \in {"top", "throwing", "crashed"},
           Goto(n, place), Stores(n) \/ UNCHANGED <<stored, completed>>,
           pc[n] \in Inside \/ place = "crashed",
           UNCHANGED <<holder, current, chosen, restart, restarts, leaseLost>>
    PROVE  IInv'
<1>1. TypeOK
  BY DEF IInv
<1>2. /\ stored' \in Nat \cup {Fresh} /\ completed' \subseteq Migration
      /\ ~leaseLost => stored' >= stored
  <2>1. CASE Stores(n)
    BY <2>1, <1>1, StoresLemma, MigrationAssumption DEF TypeOK, Fresh
  <2>2. CASE UNCHANGED <<stored, completed>>
    BY <2>2, <1>1 DEF TypeOK, Fresh
  <2> QED
    BY <2>1, <2>2
<1>3. \A k \in Node : pc'[k] = IF k = n THEN place ELSE pc[k]
  BY <1>1 DEF Goto, TypeOK
<1>4. TypeOK'
  BY <1>1, <1>2 DEF TypeOK, Goto, Inside
<1>5. Stores(n) => pc[n] = "saving"
  BY DEF Stores
<1>6. ~leaseLost /\ Stores(n) => \A k \in Node \ {n} : pc[k] \notin Inside
  BY <1>5, <1>1, NoNodeAssumption DEF IInv, HolderInv, Inside
<1>7. HolderInv'
  BY <1>3 DEF IInv, HolderInv, Inside
<1>8. CurrentInv' /\ CompletedInv'
  BY <1>3, <1>6 DEF IInv, CurrentInv, CompletedInv, Loaded, Inside
<1>9. ChosenInv'
  BY <1>3 DEF IInv, ChosenInv
<1>10. ReturnInv'
  <2> SUFFICES ASSUME ~leaseLost, NEW k \in Node, pc'[k] \in {"returning", "done"}
               PROVE  Latest(k) \in Int /\ stored' >= Latest(k)
    BY DEF ReturnInv, Latest
  <2>1. Latest(k) \in Int /\ stored >= Latest(k)
    BY <1>3 DEF IInv, ReturnInv
  <2> QED
    BY <2>1, <1>1, <1>2 DEF TypeOK, Fresh
<1> QED
  BY <1>4, <1>7, <1>8, <1>9, <1>10 DEF IInv

\* A step that goes on with what was loaded before.
LEMMA LocalStep ==
    ASSUME IInv, NEW n \in Node, NEW place \in {"locking", "failed", "done", "loaded", "returning",
                                                "throwing", "migrating", "saving", "top"},
           Goto(n, place), UNCHANGED <<stored, leaseLost>>, TypeOK',
           \A k \in Node \ {n} : current'[k] = current[k] /\ chosen'[k] = chosen[k],
           completed \subseteq completed',
           place \in Inside => pc[n] \in Inside /\ holder' = holder,
           \A k \in Node \ {n} : holder = k => holder' = k,
           place \in Loaded => current'[n] = stored \/ (pc[n] \in Loaded /\ current'[n] = current[n]),
           place \in {"migrating", "saving"} =>
               chosen'[n] \in Deployed[n] /\ current'[n] \in From[chosen'[n]],
           place = "saving" => chosen'[n] \in completed',
           place \in {"returning", "done"} /\ ~leaseLost => Latest(n) \in Int /\ stored >= Latest(n)
    PROVE  IInv'
<1>1. \A k \in Node : pc'[k] = IF k = n THEN place ELSE pc[k]
  BY DEF Goto, IInv, TypeOK
<1>2. HolderInv'
  BY <1>1 DEF IInv, HolderInv
<1>3. CurrentInv'
  BY <1>1 DEF IInv, CurrentInv
<1>4. ChosenInv'
  BY <1>1 DEF IInv, ChosenInv
<1>5. CompletedInv'
  BY <1>1 DEF IInv, CompletedInv
<1>6. ReturnInv'
  <2> SUFFICES ASSUME ~leaseLost, NEW k \in Node, pc'[k] \in {"returning", "done"}
               PROVE  Latest(k) \in Int /\ stored >= Latest(k)
    BY DEF ReturnInv, Latest
  <2> QED
    BY <1>1 DEF IInv, ReturnInv
<1> QED
  BY <1>2, <1>3, <1>4, <1>5, <1>6 DEF IInv
-----------------------------------------------------------------------------
\* IInv is inductive.
LEMMA Step == IInv /\ [Next]_vars => IInv'
<1> SUFFICES ASSUME IInv, [Next]_vars PROVE IInv'
  OBVIOUS
<1>1. TypeOK
  BY DEF IInv
<1>2. ASSUME NEW n \in Node, Start(n) PROVE IInv'
  <2>1. TypeOK'
    BY <1>1, <1>2 DEF Start, Goto, TypeOK
  <2> QED
    BY <1>2, <2>1, LocalStep DEF Start, Inside, Loaded
<1>3. ASSUME NEW n \in Node, Acquired(n) PROVE IInv'
  <2>1. TypeOK'
    BY <1>1, <1>3 DEF Acquired, Goto, TypeOK, Inside
  <2>2. \A k \in Node : pc'[k] = IF k = n THEN "top" ELSE pc[k]
    BY <1>1, <1>3 DEF Acquired, Goto, TypeOK
  <2>3. /\ holder' = n /\ holder = NoNode
        /\ UNCHANGED <<stored, current, chosen, completed, leaseLost>>
    BY <1>3 DEF Acquired
  <2>4. HolderInv' /\ CurrentInv' /\ ChosenInv' /\ CompletedInv'
    BY <2>2, <2>3, NoNodeAssumption
       DEF IInv, HolderInv, CurrentInv, ChosenInv, CompletedInv, Loaded
  <2>5. ReturnInv'
    <3> SUFFICES ASSUME ~leaseLost, NEW k \in Node, pc'[k] \in {"returning", "done"}
                 PROVE  Latest(k) \in Int /\ stored >= Latest(k)
      BY <2>3 DEF ReturnInv, Latest
    <3> QED
      BY <2>2 DEF IInv, ReturnInv
  <2> QED
    BY <2>1, <2>4, <2>5 DEF IInv
<1>4. ASSUME NEW n \in Node, NotAcquired(n) PROVE IInv'
  <2>1. TypeOK'
    BY <1>1, <1>4 DEF NotAcquired, Goto, TypeOK
  <2> QED
    BY <1>4, <2>1, LocalStep DEF NotAcquired, Inside, Loaded
<1>5. ASSUME NEW n \in Node, Release(n) PROVE IInv'
  <2>1. TypeOK'
    BY <1>1, <1>5 DEF Release, Outcome, Goto, TypeOK
  <2>2. pc[n] = "returning" /\ ~leaseLost => Latest(n) \in Int /\ stored >= Latest(n)
    BY DEF IInv, ReturnInv
  <2>3. CASE pc[n] = "returning"
    BY <1>5, <2>1, <2>2, <2>3, LocalStep DEF Release, Outcome, Inside, Loaded
  <2>4. CASE pc[n] = "throwing"
    BY <1>5, <2>1, <2>4, LocalStep DEF Release, Outcome, Inside, Loaded
  <2> QED
    BY <1>5, <2>3, <2>4 DEF Release
<1>6. ASSUME NEW n \in Node, ReleaseFails(n) PROVE IInv'
  <2>1. TypeOK'
    BY <1>1, <1>6 DEF ReleaseFails, Goto, TypeOK
  <2> QED
    BY <1>6, <2>1, LocalStep DEF ReleaseFails, Inside, Loaded
<1>7. ASSUME NEW n \in Node, Load(n) PROVE IInv'
  <2>1. TypeOK'
    BY <1>1, <1>7 DEF Load, Goto, TypeOK, Inside
  <2>2. current'[n] = stored /\ \A k \in Node \ {n} : current'[k] = current[k]
    BY <1>1, <1>7 DEF Load, TypeOK
  <2> QED
    BY <1>7, <2>1, <2>2, LocalStep DEF Load, Inside, Loaded
<1>8. ASSUME NEW n \in Node, UpToDate(n) PROVE IInv'
  <2>1. TypeOK'
    BY <1>1, <1>8 DEF UpToDate, Goto, TypeOK, Inside
  <2>2. ~leaseLost => current[n] = stored /\ stored = Latest(n)
    BY <1>8 DEF IInv, CurrentInv, UpToDate, Loaded
  <2>3. ~leaseLost => Latest(n) \in Int /\ stored >= Latest(n)
    BY <1>1, <2>2 DEF TypeOK, Fresh
  <2> QED
    BY <1>8, <2>1, <2>3, LocalStep DEF UpToDate, Inside, Loaded
<1>9. ASSUME NEW n \in Node, NoPath(n) PROVE IInv'
  <2>1. TypeOK'
    BY <1>1, <1>9 DEF NoPath, Goto, TypeOK, Inside
  <2> QED
    BY <1>9, <2>1, LocalStep DEF NoPath, Inside, Loaded
<1>10. ASSUME NEW n \in Node, Choose(n) PROVE IInv'
  <2>1. PICK m \in Suitable(n) : chosen' = [chosen EXCEPT ![n] = m]
    BY <1>10 DEF Choose
  <2>2. m \in Deployed[n] /\ m \in Migration /\ current[n] \in From[m]
    BY DeployedAssumption DEF Suitable
  <2>3. chosen'[n] = m /\ \A k \in Node \ {n} : chosen'[k] = chosen[k]
    BY <1>1, <2>1 DEF TypeOK
  <2>4. TypeOK'
    BY <1>1, <1>10, <2>1, <2>2 DEF Choose, Goto, TypeOK, Inside
  <2> QED
    BY <1>10, <2>2, <2>3, <2>4, LocalStep DEF Choose, Inside, Loaded
<1>11. ASSUME NEW n \in Node, RequestRestart(n) PROVE IInv'
  <2>1. TypeOK'
    BY <1>1, <1>11 DEF RequestRestart, TypeOK
  <2>2. UNCHANGED <<holder, stored, pc, current, chosen, completed, leaseLost>>
    BY <1>11 DEF RequestRestart
  <2>3. HolderInv' /\ CurrentInv' /\ ChosenInv' /\ CompletedInv'
    BY <2>2 DEF IInv, HolderInv, CurrentInv, ChosenInv, CompletedInv
  <2>4. ReturnInv'
    BY <2>2 DEF IInv, ReturnInv, Latest
  <2> QED
    BY <2>1, <2>3, <2>4 DEF IInv
<1>12. ASSUME NEW n \in Node, MigratorEnds(n) PROVE IInv'
  <2>1. chosen[n] \in Deployed[n] /\ chosen[n] \in Migration /\ current[n] \in From[chosen[n]]
    BY <1>12, DeployedAssumption DEF IInv, ChosenInv, MigratorEnds
  <2>2. CASE restart[n]
    <3>1. TypeOK'
      BY <1>1, <1>12, <2>2 DEF MigratorEnds, Goto, TypeOK, Inside
    <3> QED
      BY <1>12, <2>2, <3>1, LocalStep DEF MigratorEnds, Inside, Loaded
  <2>3. CASE ~restart[n]
    <3>1. TypeOK'
      BY <1>1, <1>12, <2>1, <2>3 DEF MigratorEnds, Goto, TypeOK, Inside
    <3> QED
      BY <1>12, <2>1, <2>3, <3>1, LocalStep DEF MigratorEnds, Inside, Loaded
  <2> QED
    BY <2>2, <2>3
<1>13. ASSUME NEW n \in Node, Save(n) PROVE IInv'
  BY <1>13, StoringStep DEF Save, Stores, Inside
<1>14. ASSUME NEW n \in Node, Fails(n) PROVE IInv'
  BY <1>14, StoringStep DEF Fails, Inside
<1>15. ASSUME NEW n \in Node, Crash(n) PROVE IInv'
  BY <1>15, StoringStep DEF Crash
<1>16. CASE LeaseRunsOut
  <2>1. TypeOK'
    BY <1>1, <1>16 DEF LeaseRunsOut, TypeOK, nodeVars
  <2>2. UNCHANGED <<stored, pc, current, chosen, completed>>
    BY <1>16 DEF LeaseRunsOut, nodeVars
  <2>3. ~leaseLost' => ~leaseLost /\ pc[holder] \notin Inside
    BY <1>16 DEF LeaseRunsOut
  <2>4. HolderInv' /\ CurrentInv' /\ ChosenInv' /\ CompletedInv'
    BY <2>2, <2>3 DEF IInv, HolderInv, CurrentInv, ChosenInv, CompletedInv
  <2>5. ReturnInv'
    BY <2>2, <2>3 DEF IInv, ReturnInv, Latest
  <2> QED
    BY <2>1, <2>4, <2>5 DEF IInv
<1>17. CASE UNCHANGED vars
  <2>1. UNCHANGED <<holder, stored, pc, current, chosen, restart, restarts, completed, leaseLost>>
    BY <1>17 DEF vars, nodeVars
  <2>2. TypeOK' /\ HolderInv' /\ CurrentInv' /\ ChosenInv' /\ CompletedInv'
    BY <2>1 DEF IInv, TypeOK, HolderInv, CurrentInv, ChosenInv, CompletedInv
  <2>3. ReturnInv'
    BY <2>1 DEF IInv, ReturnInv, Latest
  <2> QED
    BY <2>2, <2>3 DEF IInv
<1> QED
  BY <1>2, <1>3, <1>4, <1>5, <1>6, <1>7, <1>8, <1>9, <1>10, <1>11, <1>12, <1>13, <1>14, <1>15,
     <1>16, <1>17 DEF Next

\* The invariant in every behaviour.
THEOREM Invariant == Spec => []IInv
<1> QED
  BY InitInv, Step, PTL DEF Spec

\* What migrate() returned for stays true, for any versions deployed side by side.
THEOREM NeverRegresses == Spec => []NoRegression
<1>1. IInv => NoRegression
  BY DEF IInv, ReturnInv, NoRegression
<1> QED
  BY <1>1, Invariant, PTL

\* No migration is skipped, and none is taken for done that has not run to its end.
THEOREM StoredWasRun == Spec => SavedWasRun
<1> DEFINE Along == ~leaseLost /\ stored' # stored =>
                        \E m \in completed : stored \in From[m] /\ stored' = To[m]
<1>1. IInv /\ [Next]_vars => [Along]_vars
  <2> SUFFICES ASSUME IInv, Next, ~leaseLost, stored' # stored
               PROVE  \E m \in completed : stored \in From[m] /\ stored' = To[m]
    OBVIOUS
  <2>1. PICK n \in Node : Stores(n)
    BY DEF Next, Start, Acquired, NotAcquired, Release, ReleaseFails, Load, UpToDate, NoPath,
           Choose, RequestRestart, MigratorEnds, Save, Fails, Crash, LeaseRunsOut
  <2> QED
    BY <2>1, StoresLemma
<1> QED
  BY <1>1, Invariant, PTL DEF Spec, SavedWasRun
-----------------------------------------------------------------------------
(* DistributedLoop.                                                        *)

USE NoNodeAssumption, TurnAssumption

\* Half of the accuracy is an integer, and at most the accuracy.
LEMMA HoldIsInt == Turns!Hold \in Int /\ Turns!Hold <= Interval
<1>1. Accuracy \div 2 \in Int /\ 0 <= Accuracy \div 2
  BY SMTT(20)
<1> QED
  BY <1>1 DEF Turns!Hold

\* The initial state satisfies the inductive invariant.
LEMMA TurnsInitInv == Turns!Init => Turns!IInv
<1>1. Turns!Init => Turns!TypeOK
  <2> SUFFICES ASSUME Turns!Init PROVE Turns!TypeOK
    OBVIOUS
  <2>1. /\ turnHolder \in Node \cup {NoNode} /\ lastRun \in Node \cup {NoNode}
        /\ since \in [Node -> Nat] /\ left \in [Node -> Nat] /\ sinceRun \in Nat
    BY DEF Turns!Init
  <2>2. /\ threw \in [Node -> BOOLEAN] /\ stop \in [Node -> BOOLEAN]
        /\ intact \in BOOLEAN
    BY DEF Turns!Init
  <2>3. at \in [Node -> Turns!Dead \cup Turns!Inside \cup {"loop", "acquiring", "pause"}]
    BY DEF Turns!Init
  <2> QED
    BY <2>1, <2>2, <2>3 DEF Turns!TypeOK
<1>2. Turns!Init => Turns!SpacingInv /\ Turns!StopInv
  BY Zenon DEF Turns!Init, Turns!SpacingInv, Turns!StopInv
<1> QED
  BY <1>1, <1>2 DEF Turns!IInv

\* Every step keeps the types of the variables.
LEMMA TurnsTypeStep == Turns!TypeOK /\ [Turns!Next]_turnVars => Turns!TypeOK'
<1> SUFFICES ASSUME Turns!TypeOK, [Turns!Next]_turnVars PROVE Turns!TypeOK'
  OBVIOUS
<1> USE DEF Turns!TypeOK, Turns!Dead, Turns!Inside, Turns!Goto, Turns!Sleep, Turns!Disturb
<1>1. CASE UNCHANGED turnVars
  BY <1>1 DEF turnVars
<1>2. CASE Turns!Tick
  BY <1>2 DEF Turns!Tick, Turns!CountUp, Turns!CountDown
<1>3. ASSUME NEW n \in Node, Turns!Step(n) PROVE Turns!TypeOK'
  <2>1. CASE Turns!LoopTurn(n)
    BY <2>1 DEF Turns!LoopTurn
  <2>5. CASE Turns!Granted(n)
    BY <2>5 DEF Turns!Granted
  <2>2. CASE Turns!NotGranted(n)
    BY <2>2 DEF Turns!NotGranted
  <2>3. CASE Turns!GapEnds(n) \/ Turns!PauseEnds(n)
    BY <2>3 DEF Turns!GapEnds, Turns!PauseEnds
  <2>4. CASE Turns!Released(n)
    BY <2>4 DEF Turns!Released
  <2> QED
    BY <1>3, <2>1, <2>2, <2>3, <2>4, <2>5 DEF Turns!Step
<1>4. ASSUME NEW n \in Node, Turns!FuncReturns(n) PROVE Turns!TypeOK'
  BY <1>4, HoldIsInt DEF Turns!FuncReturns
<1>5. ASSUME NEW n \in Node, Turns!FuncThrows(n) \/ Turns!FuncStopsItself(n) \/ Turns!Stop(n)
      PROVE  Turns!TypeOK'
  <2>1. CASE Turns!FuncThrows(n)
    BY <2>1 DEF Turns!FuncThrows
  <2>2. CASE Turns!FuncStopsItself(n)
    BY <2>2 DEF Turns!FuncStopsItself
  <2>3. CASE Turns!Stop(n)
    BY <2>3 DEF Turns!Stop
  <2> QED
    BY <1>5, <2>1, <2>2, <2>3
<1>6. ASSUME NEW n \in Node, Turns!LockThrows(n) \/ Turns!Crash(n) \/ Turns!LeaseRunsOut(n)
      PROVE  Turns!TypeOK'
  <2>1. CASE Turns!LockThrows(n)
    BY <2>1 DEF Turns!LockThrows
  <2>2. CASE Turns!Crash(n)
    BY <2>2 DEF Turns!Crash
  <2>3. CASE Turns!LeaseRunsOut(n)
    BY <2>3 DEF Turns!LeaseRunsOut
  <2> QED
    BY <1>6, <2>1, <2>2, <2>3
<1> QED
  BY <1>1, <1>2, <1>3, <1>4, <1>5, <1>6 DEF Turns!Next

\* Every step preserves the inductive invariant.
LEMMA TurnsInvStep == Turns!IInv /\ [Turns!Next]_turnVars => Turns!IInv'
<1> SUFFICES ASSUME Turns!IInv, [Turns!Next]_turnVars PROVE Turns!IInv'
  OBVIOUS
<1>0. Turns!TypeOK' /\ Turns!Hold \in Int /\ Turns!Hold <= Interval
  BY TurnsTypeStep, HoldIsInt DEF Turns!IInv
<1> USE <1>0 DEF Turns!IInv, Turns!TypeOK, Turns!SpacingInv, Turns!StopInv, Turns!Goto, Turns!Sleep, Turns!Disturb
<1>1. CASE UNCHANGED turnVars
  BY <1>1 DEF turnVars
<1>2. CASE Turns!Tick
  BY <1>2 DEF Turns!Tick, Turns!CountUp, Turns!CountDown
<1>3. ASSUME NEW n \in Node, Turns!LoopTurn(n) PROVE Turns!IInv'
  BY <1>3 DEF Turns!LoopTurn
<1>4. ASSUME NEW n \in Node, Turns!Granted(n) PROVE Turns!IInv'
  BY <1>4 DEF Turns!Granted
<1>5. ASSUME NEW n \in Node, Turns!NotGranted(n) PROVE Turns!IInv'
  BY <1>5 DEF Turns!NotGranted
<1>6. ASSUME NEW n \in Node, Turns!FuncReturns(n) PROVE Turns!IInv'
  BY <1>6 DEF Turns!FuncReturns
<1>7. ASSUME NEW n \in Node, Turns!FuncThrows(n) PROVE Turns!IInv'
  BY <1>7 DEF Turns!FuncThrows
<1>8. ASSUME NEW n \in Node, Turns!FuncStopsItself(n) PROVE Turns!IInv'
  BY <1>8 DEF Turns!FuncStopsItself
<1>9. ASSUME NEW n \in Node, Turns!GapEnds(n) PROVE Turns!IInv'
  BY <1>9 DEF Turns!GapEnds
<1>10. ASSUME NEW n \in Node, Turns!Released(n) PROVE Turns!IInv'
  BY <1>10 DEF Turns!Released
<1>11. ASSUME NEW n \in Node, Turns!PauseEnds(n) PROVE Turns!IInv'
  BY <1>11 DEF Turns!PauseEnds
<1>12. ASSUME NEW n \in Node, Turns!Stop(n) PROVE Turns!IInv'
  BY <1>12 DEF Turns!Stop
<1>13. ASSUME NEW n \in Node, Turns!LockThrows(n) PROVE Turns!IInv'
  BY <1>13 DEF Turns!LockThrows
<1>14. ASSUME NEW n \in Node, Turns!Crash(n) PROVE Turns!IInv'
  BY <1>14 DEF Turns!Crash
<1>15. ASSUME NEW n \in Node, Turns!LeaseRunsOut(n) PROVE Turns!IInv'
  BY <1>15 DEF Turns!LeaseRunsOut
<1> QED
  BY <1>1, <1>2, <1>3, <1>4, <1>5, <1>6, <1>7, <1>8, <1>9, <1>10, <1>11, <1>12,
     <1>13, <1>14, <1>15 DEF Turns!Next, Turns!Step

\* A step of the run is one of the loop, and none of its variables moves otherwise.
LEMMA TurnsStep == [Turns!Next /\ UNCHANGED vars]_lockedVars => [Turns!Next]_turnVars
  BY DEF lockedVars, turnVars

\* The inductive invariant holds throughout every run.
THEOREM TurnsInvariance == TurnsSpec => []Turns!IInv
<1>1. Turns!IInv /\ [Turns!Next /\ UNCHANGED vars]_lockedVars => Turns!IInv'
  BY TurnsStep, TurnsInvStep
<1> QED
  BY TurnsInitInv, <1>1, PTL DEF TurnsSpec, MCInit

\* Every variable keeps its type.
THEOREM TurnsTypeCorrect == TurnsSpec => []Turns!TypeOK
<1>1. Turns!IInv => Turns!TypeOK
  BY DEF Turns!IInv
<1> QED
  BY TurnsInvariance, <1>1, PTL

\* Undisturbed runs of func are spaced: when func starts on a node the lock was
\* free, so that the last turn, if intact, is long enough ago.
THEOREM RunsAreSpaced == TurnsSpec => Spacing
<1>1. ASSUME Turns!IInv, [Turns!Next]_turnVars, NEW n \in Node,
             at[n] = "acquiring", at'[n] = "func", intact
      PROVE  sinceRun >= Turns!Hold
  <2>1. turnHolder = NoNode
    <3> USE <1>1 DEF Turns!IInv, Turns!TypeOK, Turns!Goto
    <3>1. ASSUME NEW m \in Node, Turns!Step(m) PROVE turnHolder = NoNode
      BY <3>1 DEF Turns!Step, Turns!LoopTurn, Turns!Granted, Turns!NotGranted,
                  Turns!GapEnds, Turns!Released, Turns!PauseEnds
    <3>2. ASSUME NEW m \in Node,
                 \/ Turns!FuncReturns(m) \/ Turns!FuncThrows(m)
                 \/ Turns!FuncStopsItself(m) \/ Turns!Stop(m) \/ Turns!LockThrows(m)
                 \/ Turns!Crash(m) \/ Turns!LeaseRunsOut(m)
          PROVE  FALSE
      BY <3>2 DEF Turns!FuncReturns, Turns!FuncThrows, Turns!FuncStopsItself,
                  Turns!Stop, Turns!LockThrows, Turns!Crash, Turns!LeaseRunsOut
    <3>3. CASE Turns!Tick \/ UNCHANGED turnVars
      BY <3>3 DEF Turns!Tick, turnVars
    <3> QED
      BY <3>1, <3>2, <3>3 DEF Turns!Next
  <2> QED
    BY <1>1, <2>1 DEF Turns!IInv, Turns!SpacingInv
<1>2. Turns!IInv /\ [Turns!Next /\ UNCHANGED vars]_lockedVars
        => [\A n \in Node : at[n] = "acquiring" /\ at'[n] = "func" /\ intact
                            => sinceRun >= Turns!Hold]_(Turns!vars)
  BY <1>1, TurnsStep DEF Turns!vars
<1> QED
  BY TurnsInvariance, <1>2, PTL DEF TurnsSpec, Spacing, Turns!Spacing
=============================================================================
