-------------------------- MODULE RedisLockProofs --------------------------
(***************************************************************************)
(* Proofs about RedisLock for every set of calls, every duration, every    *)
(* clock skew and every bound on time.                                     *)
(***************************************************************************)
EXTENDS RedisLock, TLAPS

USE NoIdAssumption, DurationAssumption, SkewAssumption

\* Every state the lock starts in satisfies the inductive invariant.
LEMMA InitInv == Init => IInv
  BY DEF Init, IInv, TypeOK, SlotInv, TermInv, AttemptInv, ReplyInv,
         LeaseBacked, FreedInv, QuietInv, Held, LoopEnded, Commands, Replied, NewExpire,
         Clock

\* Every step keeps the types of the variables.
LEMMA TypeStep == TypeOK /\ [Next]_vars => TypeOK'
<1> SUFFICES ASSUME TypeOK, [Next]_vars PROVE TypeOK'
  OBVIOUS
<1> USE DEF TypeOK
<1>1. CASE UNCHANGED vars
  BY <1>1 DEF vars
<1>2. CASE Tick
  BY <1>2 DEF Tick, DeleteKey, redisVars
<1>3. ASSUME NEW i \in Id, Exec(i) PROVE TypeOK'
  BY <1>3 DEF Exec, ExecAcquire, ExecRefresh, ExecRelease, Answer, PExpireAt,
              DeleteKey, redisVars
<1>4. ASSUME NEW i \in Id, Reply(i) PROVE TypeOK'
  <2>1. CASE Acquired(i)
    BY <2>1 DEF Acquired, LoopTurn, FreeSlot, NewExpire, Clock, Held, LoopEnded,
                Commands
  <2>2. CASE NotAcquired(i)
    BY <2>2 DEF NotAcquired, FreeSlot
  <2>3. CASE RefreshReply(i)
    BY <2>3 DEF RefreshReply, LoopSleep, FreeSlot, Clock, Held
  <2>4. CASE ReleaseReply(i)
    BY <2>4 DEF ReleaseReply, LoopEnded
  <2> QED
    BY <1>4, <2>1, <2>2, <2>3, <2>4 DEF Reply
<1>5. ASSUME NEW i \in Id, Continue(i) PROVE TypeOK'
  BY <1>5 DEF Continue, Retry, LoopWake, SendRelease, ReleaseAgainReturns,
              SendAcquire, LoopTurn, FreeSlot, NewExpire, Clock, Held,
              LoopEnded, Commands
<1>6. ASSUME NEW i \in Id, Call(i) PROVE TypeOK'
  <2>1. CASE Acquire(i)
    BY <2>1 DEF Acquire, SendAcquire, NewExpire, Clock, Commands
  <2>2. CASE Release(i) \/ ReleaseAgain(i)
    BY <2>2 DEF Release, ReleaseAgain
  <2> QED
    BY <1>6, <2>1, <2>2 DEF Call
<1>7. ASSUME NEW i \in Id, Fault(i) PROVE TypeOK'
  <2>1. CASE CommandFails(i)
    BY <2>1 DEF CommandFails, LoopSleep, FreeSlot, Clock, Held, LoopEnded
  <2>2. CASE Resend(i)
    BY <2>2 DEF Resend, Commands
  <2>3. CASE Crash(i)
    BY <2>3 DEF Crash
  <2> QED
    BY <1>7, <2>1, <2>2, <2>3 DEF Fault
<1> QED
  BY <1>1, <1>2, <1>3, <1>4, <1>5, <1>6, <1>7 DEF Next

\* Every step preserves the inductive invariant.
LEMMA InvStep == IInv /\ [Next]_vars => IInv'
<1> SUFFICES ASSUME IInv, [Next]_vars PROVE IInv'
  OBVIOUS
<1>0. TypeOK'
  BY TypeStep DEF IInv
<1> DEFINE Rest == SlotInv /\ TermInv /\ AttemptInv /\ ReplyInv /\ LeaseBacked /\ FreedInv /\ QuietInv
<1> USE <1>0 DEF IInv, TypeOK, SlotInv, TermInv, AttemptInv, ReplyInv, LeaseBacked, FreedInv, QuietInv, NewExpire, Clock, Held, LoopEnded, Replied
<1>1. CASE UNCHANGED vars
  BY <1>1 DEF vars
<1>2. CASE Tick
  BY <1>2 DEF Tick, DeleteKey, redisVars
<1>3. ASSUME NEW i \in Id, ExecAcquire(i) PROVE Rest'
  BY <1>3 DEF ExecAcquire, Answer, PExpireAt, DeleteKey, redisVars
<1>4. ASSUME NEW i \in Id, ExecRefresh(i) PROVE Rest'
  BY <1>4 DEF ExecRefresh, Answer, PExpireAt, DeleteKey, redisVars
<1>5. ASSUME NEW i \in Id, ExecRelease(i) PROVE Rest'
  BY <1>5 DEF ExecRelease, Answer, DeleteKey, redisVars
<1>6. ASSUME NEW i \in Id, Acquired(i) PROVE Rest'
  <2> USE <1>6 DEF Acquired, LoopTurn, FreeSlot
  <2>1. SlotInv' /\ AttemptInv' /\ ReplyInv'
    OBVIOUS
  <2>2. TermInv' /\ LeaseBacked'
    OBVIOUS
  <2>3. FreedInv' /\ QuietInv'
    OBVIOUS
  <2> QED
    BY <2>1, <2>2, <2>3
<1>7. ASSUME NEW i \in Id, NotAcquired(i) PROVE Rest'
  BY <1>7 DEF NotAcquired, FreeSlot
<1>8. ASSUME NEW i \in Id, RefreshReply(i) PROVE Rest'
  <2> USE <1>8 DEF RefreshReply, LoopSleep, FreeSlot
  <2>1. SlotInv' /\ AttemptInv' /\ ReplyInv'
    OBVIOUS
  <2>2. TermInv' /\ LeaseBacked'
    OBVIOUS
  <2>3. FreedInv' /\ QuietInv'
    OBVIOUS
  <2> QED
    BY <2>1, <2>2, <2>3
<1>9. ASSUME NEW i \in Id, ReleaseReply(i) PROVE Rest'
  BY <1>9 DEF ReleaseReply, Replied
<1>10. ASSUME NEW i \in Id, Retry(i) PROVE Rest'
  BY <1>10 DEF Retry, SendAcquire
<1>11. ASSUME NEW i \in Id, LoopWake(i) PROVE Rest'
  BY <1>11 DEF LoopWake, LoopTurn, FreeSlot
<1>12. ASSUME NEW i \in Id, SendRelease(i) PROVE Rest'
  BY <1>12 DEF SendRelease
<1>13. ASSUME NEW i \in Id, ReleaseAgainReturns(i) PROVE Rest'
  BY <1>13 DEF ReleaseAgainReturns
<1>14. ASSUME NEW i \in Id, Acquire(i) PROVE Rest'
  BY <1>14 DEF Acquire, SendAcquire
<1>15. ASSUME NEW i \in Id, Release(i) PROVE Rest'
  BY <1>15 DEF Release
<1>16. ASSUME NEW i \in Id, ReleaseAgain(i) PROVE Rest'
  BY <1>16 DEF ReleaseAgain
<1>17. ASSUME NEW i \in Id, CommandFails(i) PROVE Rest'
  BY <1>17 DEF CommandFails, LoopSleep, FreeSlot
<1>18. ASSUME NEW i \in Id, Resend(i) PROVE Rest'
  BY <1>18 DEF Resend, Replied
<1>19. ASSUME NEW i \in Id, Crash(i) PROVE Rest'
  BY <1>19 DEF Crash
<1> QED
  BY <1>0, <1>1, <1>2, <1>3, <1>4, <1>5, <1>6, <1>7, <1>8, <1>9, <1>10, <1>11, <1>12, <1>13, <1>14, <1>15, <1>16, <1>17, <1>18, <1>19 DEF Next, Exec, Reply, Continue, Call, Fault

\* The inductive invariant holds throughout every run.
THEOREM Invariance == Spec => []IInv
<1>1. Init => IInv
  BY InitInv
<1>2. IInv /\ [Next]_vars => IInv'
  BY InvStep
<1> QED
  BY <1>1, <1>2, PTL DEF Spec

\* Every variable keeps its type.
THEOREM TypeCorrect == Spec => []TypeOK
<1>1. IInv => TypeOK
  BY DEF IInv
<1> QED
  BY Invariance, <1>1, PTL

\* What a controller believes of its lease is backed by Redis.
THEOREM Backing == Spec => []LeaseBacked
<1>1. IInv => LeaseBacked
  BY DEF IInv
<1> QED
  BY Invariance, <1>1, PTL

\* Of the controllers of one lock at most one is valid at a time: both would
\* be backed by the one key.
LEMMA BackedExclusion == IInv => MutualExclusion
<1> SUFFICES ASSUME IInv,
                    NEW i \in Id, NEW j \in Id, Valid(i), Valid(j)
             PROVE  i = j
  BY DEF MutualExclusion
<1>1. ASSUME NEW k \in Id, Valid(k) PROVE owner = k
  BY <1>1 DEF IInv, TypeOK, LeaseBacked, Valid, Clock
<1> QED
  BY <1>1

\* Mutual exclusion of the valid controllers.
THEOREM Exclusion == Spec => []MutualExclusion
  BY Invariance, BackedExclusion, PTL

\* A released call does not own the key.
THEOREM ReleaseFrees == Spec => []ReleasedIsFree
<1>1. IInv => ReleasedIsFree
  BY DEF IInv, FreedInv, ReleasedIsFree
<1> QED
  BY Invariance, <1>1, PTL

\* A key is taken from its owner by expiry or by the owner's commands only.
THEOREM TheftFree == Spec => NoTheft
<1>1. ASSUME TypeOK, [Next]_vars, NEW i \in Id, owner = i, owner' # i
      PROVE  net[i] \in Commands \/ keyExpire < now'
  <2>1. CASE Tick
    BY <1>1, <2>1 DEF Tick, redisVars
  <2>2. ASSUME NEW j \in Id, Exec(j) PROVE net[i] \in Commands
    BY <1>1, <2>2 DEF Exec, ExecAcquire, ExecRefresh, ExecRelease, PExpireAt,
                      DeleteKey, redisVars, Commands
  <2>3. ASSUME NEW j \in Id,
               Reply(j) \/ Continue(j) \/ Call(j) \/ Fault(j)
        PROVE  FALSE
    BY <1>1, <2>3 DEF Reply, Acquired, NotAcquired, RefreshReply, ReleaseReply,
         Continue, Retry, LoopWake, SendRelease, ReleaseAgainReturns, Call,
         Acquire, Release, ReleaseAgain, Fault, CommandFails, Resend, Crash
  <2> QED
    BY <1>1, <2>1, <2>2, <2>3 DEF Next, vars
<1>2. TypeOK /\ [Next]_vars
        => [\A i \in Id : owner = i /\ owner' # i
                            => net[i] \in Commands \/ keyExpire < now']_vars
  BY <1>1
<1> QED
  BY TypeCorrect, <1>2, PTL DEF Spec, NoTheft

\* After a release() has returned the lease is not extended any more.
THEOREM NoExtension == Spec => NoExtensionAfterRelease
<1>1. ASSUME IInv, [Next]_vars, NEW i \in Id,
             second[i] = "returned" \/ pc[i] = "released",
             owner = i, owner' = i
      PROVE  keyExpire' <= keyExpire
  <2>1. net[i] # "refresh"
    BY <1>1 DEF IInv, SlotInv, QuietInv
  <2>2. CASE Tick
    BY <1>1, <2>2 DEF Tick, redisVars, DeleteKey, IInv, TypeOK
  <2>3. ASSUME NEW j \in Id, Exec(j) PROVE keyExpire' <= keyExpire
    BY <1>1, <2>1, <2>3 DEF Exec, ExecAcquire, ExecRefresh, ExecRelease,
         PExpireAt, DeleteKey, redisVars, IInv, TypeOK
  <2>4. ASSUME NEW j \in Id,
               Reply(j) \/ Continue(j) \/ Call(j) \/ Fault(j)
        PROVE  keyExpire' = keyExpire
    BY <2>4 DEF Reply, Acquired, NotAcquired, RefreshReply, ReleaseReply,
         Continue, Retry, LoopWake, SendRelease, ReleaseAgainReturns, Call,
         Acquire, Release, ReleaseAgain, Fault, CommandFails, Resend, Crash
  <2> QED
    BY <1>1, <2>2, <2>3, <2>4 DEF Next, vars, IInv, TypeOK
<1>2. IInv /\ [Next]_vars
        => [\A i \in Id : /\ second[i] = "returned" \/ pc[i] = "released"
                          /\ owner = i /\ owner' = i
                          => keyExpire' <= keyExpire]_vars
  BY <1>1
<1> QED
  BY Invariance, <1>2, PTL DEF Spec, NoExtensionAfterRelease

-----------------------------------------------------------------------------
(* RedisLock implements LeaseLock.                                          *)

Holders == {i \in Id : Valid(i)}
Gone == {i \in Id : stop[i] \/ pc[i] = "crashed"}

\* The initial state of the lock is one of the abstract lease lock.
LEMMA LeaseInitial == Init => Lease!LeaseInit
  BY DEF Init, Lease!LeaseInit, Valid, Held

\* A step that only touches the validity of a call that is still there is a
\* grant, a loss or nothing, because there is one valid controller at most
\* before and after it.
LEMMA LocalStep ==
  ASSUME NEW i \in Id, i \notin Gone, MutualExclusion, MutualExclusion',
         \A j \in Id \ {i} : Valid(j)' <=> Valid(j),
         Gone' = Gone
  PROVE  Lease!Grant(i) \/ Lease!Lose(i) \/ Holders' = Holders
<1>1. CASE Valid(i) <=> Valid(i)'
  BY <1>1 DEF Holders
<1>2. CASE ~Valid(i) /\ Valid(i)'
  <2>1. Holders = {} /\ Holders' = {i}
    BY <1>2 DEF Holders, MutualExclusion
  <2> QED
    BY <2>1 DEF Lease!Grant, Holders, Gone
<1>3. CASE Valid(i) /\ ~Valid(i)'
  <2>1. i \in Holders /\ Holders' = Holders \ {i}
    BY <1>3 DEF Holders
  <2> QED
    BY <2>1 DEF Lease!Lose, Holders, Gone
<1> QED
  BY <1>1, <1>2, <1>3

\* Every step of the lock is a step of the abstract lease lock or a stutter.
LEMMA LeaseStep ==
    IInv /\ IInv' /\ [Next]_vars => [Lease!LeaseNext]_(Lease!leaseVars)
<1> SUFFICES ASSUME IInv, IInv', [Next]_vars
             PROVE  Lease!LeaseNext \/ (Holders' = Holders /\ Gone' = Gone)
  BY DEF Lease!leaseVars, Holders, Gone
<1>0. TypeOK /\ MutualExclusion /\ MutualExclusion'
  <2>1. MutualExclusion'
    BY BackedExclusion, PTL
  <2> QED
    BY <2>1, BackedExclusion DEF IInv
<1>1. CASE UNCHANGED vars
  BY <1>1 DEF vars, Holders, Gone, Valid, Clock
<1>2. CASE Tick
  <2>1. Gone' = Gone /\ \A j \in Id : Valid(j)' => Valid(j)
    BY <1>0, <1>2 DEF Tick, Gone, Valid, Clock, TypeOK
  <2>2. CASE \A j \in Id : Valid(j) => Valid(j)'
    BY <2>1, <2>2 DEF Holders
  <2>3. CASE \E j \in Id : Valid(j) /\ ~Valid(j)'
    <3>1. PICK j \in Id : Valid(j) /\ ~Valid(j)'
      BY <2>3
    <3>2. j \in Holders /\ Holders' = Holders \ {j}
      BY <1>0, <2>1, <3>1 DEF Holders, MutualExclusion
    <3>3. Lease!Lose(j)
      BY <2>1, <3>2 DEF Lease!Lose, Holders, Gone
    <3> QED
      BY <3>3 DEF Lease!LeaseNext
  <2> QED
    BY <2>2, <2>3
<1>3. ASSUME NEW i \in Id, Release(i) \/ Crash(i) PROVE Lease!Leave(i)
  <2>1. Gone' = Gone \cup {i}
    BY <1>0, <1>3 DEF Release, Crash, Gone, TypeOK
  <2>2. Holders' = Holders \ {i}
    BY <1>0, <1>3 DEF Release, Crash, Holders, Valid, Held, Clock, TypeOK
  <2> QED
    BY <2>1, <2>2 DEF Lease!Leave, Holders, Gone
<1>4. ASSUME NEW i \in Id, Acquired(i) \/ RefreshReply(i)
      PROVE  Lease!LeaseNext \/ (Holders' = Holders /\ Gone' = Gone)
  <2>1. Gone' = Gone /\ \A j \in Id \ {i} : Valid(j)' <=> Valid(j)
    BY <1>0, <1>4 DEF Acquired, RefreshReply, LoopTurn, LoopSleep, Gone, Valid,
                      Held, Clock, TypeOK
  <2>2. CASE i \notin Gone
    BY <1>0, <2>1, <2>2, LocalStep DEF Lease!LeaseNext
  <2>3. CASE i \in Gone
    BY <1>0, <1>4, <2>1, <2>3 DEF Acquired, RefreshReply, Gone, Holders, Valid
  <2> QED
    BY <2>2, <2>3
<1>5. ASSUME NEW i \in Id,
             \/ Exec(i) \/ NotAcquired(i) \/ ReleaseReply(i)
             \/ Continue(i) \/ Acquire(i) \/ ReleaseAgain(i)
             \/ CommandFails(i) \/ Resend(i)
      PROVE  Holders' = Holders /\ Gone' = Gone
  <2>1. CASE Exec(i)
    BY <2>1 DEF Exec, ExecAcquire, ExecRefresh, ExecRelease, Holders, Gone,
                Valid, Clock
  <2>2. CASE NotAcquired(i) \/ ReleaseReply(i) \/ Acquire(i) \/ CommandFails(i)
    BY <1>0, <2>2 DEF NotAcquired, ReleaseReply, Acquire, CommandFails,
         SendAcquire, LoopSleep, Holders, Gone, Valid, Held, Clock, TypeOK
  <2>3. CASE Continue(i)
    BY <1>0, <2>3 DEF Continue, Retry, LoopWake, SendRelease,
         ReleaseAgainReturns, SendAcquire, LoopTurn, Holders, Gone, Valid,
         Held, Clock, TypeOK
  <2>4. CASE ReleaseAgain(i) \/ Resend(i)
    BY <2>4 DEF ReleaseAgain, Resend, Holders, Gone, Valid, Clock
  <2> QED
    BY <1>5, <2>1, <2>2, <2>3, <2>4
<1> QED
  BY <1>1, <1>2, <1>3, <1>4, <1>5 DEF Next, Reply, Call, Fault, Lease!LeaseNext

\* The lock implements the abstract lease lock: its controllers are granted one
\* at a time, and none is valid after its owner is done with it.
THEOREM Implementation == Spec => ImplementsLease
<1>1. IInv /\ IInv' /\ [Next]_vars => [Lease!LeaseNext]_(Lease!leaseVars)
  BY LeaseStep
<1> QED
  BY LeaseInitial, Invariance, <1>1, PTL
     DEF Spec, ImplementsLease, Lease!LeaseSpec

\* Whoever holds a valid controller holds it alone and is backed by the key.
THEOREM BackedHolders == Spec => []HoldersAreBacked
BY Exclusion, Backing, PTL DEF HoldersAreBacked
=============================================================================
