-------------------------- MODULE DistributedLoop --------------------------
(***************************************************************************)
(* base/source/distributed-loop/distributed-loop.ts: every node runs the   *)
(* same loop, and a lock decides which of them runs func.  The node that   *)
(* gets the lock keeps it until half of `accuracy` before the interval is  *)
(* over; every node then sleeps `accuracy` and tries again, once.          *)
(*                                                                         *)
(* The lock is what LeaseLock promises: one holder, unless the holder      *)
(* stalls so long that its lease runs out.  Timers count down, so time     *)
(* needs no bound; timers may fire late, never early.                      *)
(***************************************************************************)
EXTENDS Integers

CONSTANTS
    Node,                      \* the processes that run the loop
    NoNode,                    \* nobody
    Interval,                  \* interval, in ticks
    Accuracy,                  \* accuracy, in ticks
    SelfStopping               \* nodes whose func may await controller.stop()

VARIABLES
    holder,                    \* who holds the lock
    pc,                        \* where the node's loop is
    since,                     \* ticks since timer.restart(), up to Interval
    left,                      \* ticks left of the current cancelableTimeout
    failed,                    \* func threw in this turn
    stop,                      \* stopToken.isSet
    lastRun,                   \* the node that ran func last
    sinceRun,                  \* ticks since that turn's timer.restart()
    intact                     \* that turn went undisturbed until now

vars == <<holder, pc, since, left, failed, stop, lastRun, sinceRun, intact>>
history == <<lastRun, sinceRun, intact>>

Dead == {"stopped", "crashed"}
\* The part of using() in which the node believes it holds the lock.
Inside == {"func", "selfStop", "gap", "releasing"}

\* timeoutDuration: until half the accuracy before the interval is over.
Hold == Interval - (Accuracy \div 2)

Init ==
    /\ holder = NoNode
    /\ pc = [n \in Node |-> "loop"]
    /\ since = [n \in Node |-> 0]
    /\ left = [n \in Node |-> 0]
    /\ failed = [n \in Node |-> FALSE]
    /\ stop = [n \in Node |-> FALSE]
    /\ lastRun = NoNode
    /\ sinceRun = 0
    /\ intact = FALSE

Disturb(n) == intact' = (intact /\ lastRun # n)

Goto(n, place) == pc' = [pc EXCEPT ![n] = place]
Sleep(n, ticks) == left' = [left EXCEPT ![n] = ticks]

-----------------------------------------------------------------------------
(* The loop.                                                                *)

\* The condition of the loop, and timer.restart().
LoopTurn(n) ==
    /\ pc[n] = "loop"
    /\ IF stop[n]
       THEN Goto(n, "stopped") /\ UNCHANGED since
       ELSE Goto(n, "acquiring") /\ since' = [since EXCEPT ![n] = 0]
    /\ UNCHANGED <<holder, left, failed, stop, lastRun, sinceRun, intact>>

\* using(0, false, ...) gets the lock at its only attempt and calls func.
Granted(n) ==
    /\ pc[n] = "acquiring"
    /\ holder = NoNode
    /\ holder' = n
    /\ Goto(n, "func")
    /\ lastRun' = n
    /\ sinceRun' = since[n]
    /\ intact' = ~stop[n]
    /\ UNCHANGED <<since, left, failed, stop>>

NotGranted(n) ==
    /\ pc[n] = "acquiring"
    /\ holder # NoNode
    /\ Goto(n, "pause")
    /\ Sleep(n, Accuracy)
    /\ since' = [since EXCEPT ![n] = 0]
    /\ UNCHANGED <<holder, failed, stop, lastRun, sinceRun, intact>>

\* Mutant: a node whose func is done releases the lock at once.
FuncReturnsAtOnce(n) ==
    /\ pc[n] = "func"
    /\ Goto(n, "releasing")
    /\ UNCHANGED <<holder, since, left, failed, stop, lastRun, sinceRun, intact>>

\* func is done; the node keeps the lock for the rest of the interval.
FuncReturns(n) ==
    /\ pc[n] = "func"
    /\ Goto(n, "gap")
    /\ Sleep(n, IF since[n] < Hold THEN Hold - since[n] ELSE 0)
    /\ since' = [since EXCEPT ![n] = 0]
    /\ UNCHANGED <<holder, failed, stop, lastRun, sinceRun, intact>>

\* func throws: using() still releases, then the rejection ends the loop.
FuncThrows(n) ==
    /\ pc[n] = "func"
    /\ Goto(n, "releasing")
    /\ failed' = [failed EXCEPT ![n] = TRUE]
    /\ since' = [since EXCEPT ![n] = 0]
    /\ Disturb(n)
    /\ UNCHANGED <<holder, left, stop, lastRun, sinceRun>>

\* func awaits controller.stop(), which awaits the end of the loop, which
\* awaits func.
FuncStopsItself(n) ==
    /\ n \in SelfStopping
    /\ pc[n] = "func"
    /\ Goto(n, "selfStop")
    /\ stop' = [stop EXCEPT ![n] = TRUE]
    /\ Disturb(n)
    /\ UNCHANGED <<holder, since, left, failed, lastRun, sinceRun>>

GapEnds(n) ==
    /\ pc[n] = "gap"
    /\ left[n] = 0 \/ stop[n]
    /\ Goto(n, "releasing")
    /\ Sleep(n, 0)
    /\ UNCHANGED <<holder, since, failed, stop, lastRun, sinceRun, intact>>

\* The lock is released; a turn that failed ends the loop.
Released(n) ==
    /\ pc[n] = "releasing"
    /\ holder' = IF holder = n THEN NoNode ELSE holder
    /\ IF failed[n]
       THEN Goto(n, "stopped") /\ UNCHANGED left
       ELSE Goto(n, "pause") /\ Sleep(n, Accuracy)
    /\ UNCHANGED <<since, failed, stop, lastRun, sinceRun, intact>>

\* Mutant: only the token ends the pause.
PauseEndsOnStop(n) ==
    /\ pc[n] = "pause"
    /\ stop[n]
    /\ Goto(n, "loop")
    /\ Sleep(n, 0)
    /\ UNCHANGED <<holder, since, failed, stop, lastRun, sinceRun, intact>>

PauseEnds(n) ==
    /\ pc[n] = "pause"
    /\ left[n] = 0 \/ stop[n]
    /\ Goto(n, "loop")
    /\ Sleep(n, 0)
    /\ UNCHANGED <<holder, since, failed, stop, lastRun, sinceRun, intact>>

-----------------------------------------------------------------------------
(* controller.stop(), failures and time.                                    *)

Stop(n) ==
    /\ ~stop[n] /\ pc[n] \notin Dead
    /\ stop' = [stop EXCEPT ![n] = TRUE]
    /\ Disturb(n)
    /\ UNCHANGED <<holder, pc, since, left, failed, lastRun, sinceRun>>

\* The lock rejects, when it is acquired or when it is released: the loop ends,
\* and a lock that was not released is left to run out.
LockThrows(n) ==
    /\ pc[n] \in {"acquiring", "releasing"}
    /\ Goto(n, "stopped")
    /\ \/ UNCHANGED holder
       \/ pc[n] = "releasing" /\ holder = n /\ holder' = NoNode
       \/ pc[n] = "acquiring" /\ holder = NoNode /\ holder' = n
    /\ UNCHANGED <<since, left, failed, stop, lastRun, sinceRun, intact>>

Crash(n) ==
    /\ pc[n] \notin Dead
    /\ Goto(n, "crashed")
    /\ Sleep(n, 0)
    /\ since' = [since EXCEPT ![n] = 0]
    /\ Disturb(n)
    /\ UNCHANGED <<holder, failed, stop, lastRun, sinceRun>>

\* The lease of a holder that does not refresh it runs out: that of a dead
\* node for certain, that of a live one if it stalls.
LeaseRunsOut(n) ==
    /\ holder = n
    /\ holder' = NoNode
    /\ Disturb(n)
    /\ UNCHANGED <<pc, since, left, failed, stop, lastRun, sinceRun>>

CountUp(ticks) == IF ticks < Interval THEN ticks + 1 ELSE ticks
CountDown(ticks) == IF ticks > 0 THEN ticks - 1 ELSE 0

Tick ==
    /\ since' = [n \in Node |-> IF pc[n] \in {"acquiring", "func"}
                                THEN CountUp(since[n]) ELSE since[n]]
    /\ left' = [n \in Node |-> CountDown(left[n])]
    /\ sinceRun' = CountUp(sinceRun)
    /\ UNCHANGED <<holder, pc, failed, stop, lastRun, intact>>

-----------------------------------------------------------------------------
Step(n) ==
    LoopTurn(n) \/ Granted(n) \/ NotGranted(n) \/ GapEnds(n) \/ Released(n)
        \/ PauseEnds(n)

Next ==
    \/ \E n \in Node :
          \/ Step(n) \/ FuncReturns(n) \/ FuncThrows(n) \/ FuncStopsItself(n)
          \/ Stop(n) \/ LockThrows(n) \/ Crash(n) \/ LeaseRunsOut(n)
    \/ Tick

Spec == Init /\ [][Next]_vars

DeadLease(n) == pc[n] \in Dead /\ LeaseRunsOut(n)

\* Time passes, timers fire, the lock answers, func returns, and the lease of
\* a dead node runs out.
Fairness ==
    /\ WF_vars(Tick)
    /\ \A n \in Node :
          WF_vars(Step(n)) /\ WF_vars(FuncReturns(n)) /\ WF_vars(DeadLease(n))

FairSpec == Spec /\ Fairness

-----------------------------------------------------------------------------
(* Properties.                                                              *)

TypeOK ==
    /\ holder \in Node \cup {NoNode}
    /\ pc \in [Node -> Dead \cup Inside \cup {"loop", "acquiring", "pause"}]
    /\ since \in [Node -> Nat]
    /\ left \in [Node -> Nat]
    /\ failed \in [Node -> BOOLEAN]
    /\ stop \in [Node -> BOOLEAN]
    /\ lastRun \in Node \cup {NoNode}
    /\ sinceRun \in Nat
    /\ intact \in BOOLEAN

\* Whichever nodes run func, two runs are apart by the interval less half the
\* accuracy, counted from the start of the first turn, unless the node of the
\* first one was stopped, failed, died or lost its lease in between.
Spacing ==
    [][\A n \in Node : pc[n] = "acquiring" /\ pc'[n] = "func" /\ intact
                       => sinceRun >= Hold]_vars

\* stop() comes to its end, wherever the loop is, unless func itself awaits it.
StopCompletes ==
    \A n \in Node \ SelfStopping : stop[n] ~> pc[n] \in Dead

\* As long as a node is left, func is run again and again by one of them,
\* whatever nodes throw, stop, stall or die while they hold the lock; unless a
\* node that waits for its own stop inside func keeps the lock for good.
SomebodyRuns ==
    \/ <>[](\A n \in Node : pc[n] \in Dead)
    \/ <>[](\E n \in SelfStopping : pc[n] = "selfStop")
    \/ []<>(\E n \in Node : pc[n] = "func")

\* The loop of a node goes on while the others do what they may, and ends when
\* it is told to.
LoopsProgress == StopCompletes /\ SomebodyRuns

-----------------------------------------------------------------------------
(* The inductive invariant of Spacing, proved in LockedProofs.              *)

\* The last turn, if nothing disturbed it, is as long ago as it has to be, or
\* its node still holds the lock and will hold it for what is missing.
SpacingInv ==
    intact => \/ sinceRun >= Hold
              \/ /\ lastRun \in Node /\ holder = lastRun
                 /\ \/ pc[lastRun] = "func" /\ since[lastRun] = sinceRun
                    \/ /\ pc[lastRun] = "gap" /\ ~stop[lastRun]
                       /\ sinceRun + left[lastRun] >= Hold

\* A node whose last turn was not disturbed has not been stopped.
StopInv == intact => lastRun \in Node /\ ~stop[lastRun]

IInv == TypeOK /\ SpacingInv /\ StopInv
=============================================================================
