-------------------------- MODULE MongoLockProofs --------------------------
(***************************************************************************)
(* Proofs about MongoLock for every set of calls, every timeout, every     *)
(* duration and every bound on time.                                       *)
(***************************************************************************)
EXTENDS MongoLock, TLAPS

USE NoKeyAssumption, DurationAssumption, TimeoutAssumption

\* Every state the lock starts in satisfies the inductive invariant.
LEMMA InitInv == Init => IInv
  BY DEF Init, IInv, TypeOK, SlotInv, TermInv, TraceInv, GrantInv, Granted,
         InsertedBacked, ReleasedIsGone, ValidInserted, Valid, Held

\* Every step keeps the types of the variables.
LEMMA TypeStep == TypeOK /\ [Next]_vars => TypeOK'
<1> SUFFICES ASSUME TypeOK, [Next]_vars PROVE TypeOK'
  OBVIOUS
<1> USE DEF TypeOK, Held
<1>1. CASE UNCHANGED vars
  BY <1>1 DEF vars
<1>2. CASE Tick
  BY <1>2 DEF Tick
<1>3. ASSUME NEW i \in Id, ExecAcquire(i) PROVE TypeOK'
  BY <1>3 DEF ExecAcquire, Answer, Matches, docVars
<1>4. ASSUME NEW i \in Id, ExecRefresh(i) PROVE TypeOK'
  BY <1>4 DEF ExecRefresh, Answer
<1>5. ASSUME NEW i \in Id, ExecRelease(i) PROVE TypeOK'
  BY <1>5 DEF ExecRelease, DeleteDoc
<1>6. ASSUME NEW i \in Id, Acquired(i) PROVE TypeOK'
  BY <1>6 DEF Acquired, FreeSlot
<1>7. ASSUME NEW i \in Id, NotAcquired(i) PROVE TypeOK'
  BY <1>7 DEF NotAcquired, FreeSlot
<1>8. ASSUME NEW i \in Id, RefreshReply(i) PROVE TypeOK'
  BY <1>8 DEF RefreshReply, LoopSleep, FreeSlot
<1>9. ASSUME NEW i \in Id, Poll(i) PROVE TypeOK'
  BY <1>9 DEF Poll, Send
<1>10. ASSUME NEW i \in Id, LoopWake(i) PROVE TypeOK'
  BY <1>10 DEF LoopWake, Send
<1>11. ASSUME NEW i \in Id, Acquire(i) PROVE TypeOK'
  BY <1>11 DEF Acquire, Send
<1>12. ASSUME NEW i \in Id, Release(i) PROVE TypeOK'
  BY <1>12 DEF Release
<1>13. ASSUME NEW i \in Id, CommandFails(i) PROVE TypeOK'
  BY <1>13 DEF CommandFails, LoopSleep, FreeSlot
<1>14. ASSUME NEW i \in Id, Crash(i) PROVE TypeOK'
  BY <1>14 DEF Crash
<1>15. CASE ExpireDoc
  BY <1>15 DEF ExpireDoc, DeleteDoc
<1> QED
  BY <1>1, <1>2, <1>3, <1>4, <1>5, <1>6, <1>7, <1>8, <1>9, <1>10, <1>11, <1>12, <1>13, <1>14, <1>15
     DEF Next, Exec, Reply, Continue, Call, Fault

\* Every step preserves the inductive invariant.
LEMMA InvStep == IInv /\ [Next]_vars => IInv'
<1> SUFFICES ASSUME IInv, [Next]_vars PROVE IInv'
  OBVIOUS
<1>0. TypeOK'
  BY TypeStep DEF IInv
<1> DEFINE Rest == /\ SlotInv /\ TermInv /\ TraceInv /\ GrantInv
                   /\ InsertedBacked /\ ReleasedIsGone
<1> USE <1>0 DEF IInv, TypeOK, SlotInv, TermInv, TraceInv, GrantInv, Granted,
        InsertedBacked, ReleasedIsGone, ValidInserted, Valid, Held, Lost, Replied
<1>1. CASE UNCHANGED vars
  BY <1>1 DEF vars
<1>2. CASE Tick
  BY <1>2 DEF Tick
<1>3. ASSUME NEW i \in Id, ExecAcquire(i) PROVE Rest'
  BY <1>3 DEF ExecAcquire, Answer, Matches, docVars
<1>4. ASSUME NEW i \in Id, ExecRefresh(i) PROVE Rest'
  BY <1>4 DEF ExecRefresh, Answer
<1>5. ASSUME NEW i \in Id, ExecRelease(i) PROVE Rest'
  BY <1>5 DEF ExecRelease, DeleteDoc
<1>6. ASSUME NEW i \in Id, Acquired(i) PROVE Rest'
  BY <1>6 DEF Acquired, FreeSlot
<1>7. ASSUME NEW i \in Id, NotAcquired(i) PROVE Rest'
  BY <1>7 DEF NotAcquired, FreeSlot
<1>8. ASSUME NEW i \in Id, RefreshReply(i) PROVE Rest'
  BY <1>8 DEF RefreshReply, LoopSleep, FreeSlot
<1>9. ASSUME NEW i \in Id, Poll(i) PROVE Rest'
  BY <1>9 DEF Poll, Send
<1>10. ASSUME NEW i \in Id, LoopWake(i) PROVE Rest'
  BY <1>10 DEF LoopWake, Send
<1>11. ASSUME NEW i \in Id, Acquire(i) PROVE Rest'
  BY <1>11 DEF Acquire, Send
<1>12. ASSUME NEW i \in Id, Release(i) PROVE Rest'
  BY <1>12 DEF Release
<1>13. ASSUME NEW i \in Id, CommandFails(i) PROVE Rest'
  BY <1>13 DEF CommandFails, LoopSleep, FreeSlot
<1>14. ASSUME NEW i \in Id, Crash(i) PROVE Rest'
  BY <1>14 DEF Crash
<1>15. CASE ExpireDoc
  BY <1>15 DEF ExpireDoc, DeleteDoc
<1> QED
  BY <1>0, <1>1, <1>2, <1>3, <1>4, <1>5, <1>6, <1>7, <1>8, <1>9, <1>10, <1>11, <1>12, <1>13, <1>14, <1>15
     DEF Next, Exec, Reply, Continue, Call, Fault

\* The inductive invariant holds throughout every run.
THEOREM Invariance == Spec => []IInv
<1>1. Init => IInv
  BY InitInv
<1>2. IInv /\ [Next]_vars => IInv'
  BY InvStep
<1> QED
  BY <1>1, <1>2, PTL DEF Spec

\* Every variable keeps its type.
THEOREM TypeCorrect == Spec => []TypeOK
<1>1. IInv => TypeOK
  BY DEF IInv
<1> QED
  BY Invariance, <1>1, PTL

\* Two calls that inserted the document would both find their key in it.
LEMMA BackedExclusion == IInv => InsertedExclusion
<1> SUFFICES ASSUME IInv, NEW i \in Id, NEW j \in Id,
                    ValidInserted(i), ValidInserted(j)
             PROVE  i = j
  BY DEF InsertedExclusion
<1>1. docKey = i /\ docKey = j
  BY DEF IInv, InsertedBacked
<1> QED
  BY <1>1

\* Mutual exclusion of the calls that inserted the document.
THEOREM Exclusion == Spec => []InsertedExclusion
  BY Invariance, BackedExclusion, PTL

\* What such a controller believes of its lease is backed by the document.
THEOREM Backing == Spec => []InsertedBacked
<1>1. IInv => InsertedBacked
  BY DEF IInv
<1> QED
  BY Invariance, <1>1, PTL

\* A released call's document never comes back.
THEOREM ReleaseDeletes == Spec => []ReleasedIsGone
<1>1. IInv => ReleasedIsGone
  BY DEF IInv
<1> QED
  BY Invariance, <1>1, PTL

\* A taker's lease only ever gets shorter.
THEOREM TakersEnd == Spec => TakerNeverExtends
<1>1. ASSUME IInv, [Next]_vars, NEW i \in takers, pc[i] \in Held
      PROVE  expiration'[i] <= expiration[i]
  <2> USE <1>1 DEF IInv, TypeOK, Held
  <2>1. ASSUME NEW j \in Id, RefreshReply(j) PROVE expiration'[i] <= expiration[i]
    <3>1. CASE j = i
      <4>1. net[i] # "ok"
        BY <2>1, <3>1 DEF RefreshReply, TraceInv
      <4> QED
        BY <2>1, <3>1, <4>1 DEF RefreshReply
    <3> QED
      BY <2>1, <3>1 DEF RefreshReply
  <2>2. ASSUME NEW j \in Id, Acquired(j) \/ Crash(j)
        PROVE  expiration'[i] <= expiration[i]
    BY <2>2 DEF Acquired, Crash
  <2>3. ASSUME NEW j \in Id,
               \/ Exec(j) \/ NotAcquired(j) \/ Continue(j) \/ Call(j)
               \/ CommandFails(j)
        PROVE  expiration' = expiration
    BY <2>3 DEF Exec, ExecAcquire, ExecRefresh, ExecRelease, NotAcquired,
         Continue, Poll, LoopWake, Call, Acquire, Release, CommandFails
  <2>4. CASE ExpireDoc \/ Tick \/ UNCHANGED vars
    BY <2>4 DEF ExpireDoc, Tick, vars
  <2> QED
    BY <1>1, <2>1, <2>2, <2>3, <2>4 DEF Next, Reply, Fault
<1>2. IInv /\ [Next]_vars
        => [\A i \in takers : pc[i] \in Held
                               => expiration'[i] <= expiration[i]]_vars
  BY <1>1
<1> QED
  BY Invariance, <1>2, PTL DEF Spec, TakerNeverExtends

\* Nobody deletes the document but the call whose key is in it and the index.
THEOREM DeletionByKey == Spec => DeletedByItsKey
<1>1. ASSUME TypeOK, [Next]_vars, docKey # NoKey, docKey' = NoKey
      PROVE  rel[docKey] = "sent" \/ docExp + TTLDelay <= now
  <2>1. CASE ExpireDoc
    BY <2>1 DEF ExpireDoc
  <2>2. ASSUME NEW j \in Id, Exec(j) PROVE rel[docKey] = "sent"
    BY <1>1, <2>2 DEF Exec, ExecAcquire, ExecRefresh, ExecRelease, docVars
  <2>3. ASSUME NEW j \in Id,
               Reply(j) \/ Continue(j) \/ Call(j) \/ Fault(j)
        PROVE  FALSE
    BY <1>1, <2>3 DEF Reply, Acquired, NotAcquired, RefreshReply, Continue,
         Poll, LoopWake, Call, Acquire, Release, Fault, CommandFails, Crash
  <2>4. CASE Tick \/ UNCHANGED vars
    BY <1>1, <2>4 DEF Tick, vars
  <2> QED
    BY <1>1, <2>1, <2>2, <2>3, <2>4 DEF Next
<1>2. TypeOK /\ [Next]_vars
        => [docKey # NoKey /\ docKey' = NoKey
              => rel[docKey] = "sent" \/ docExp + TTLDelay <= now]_vars
  BY <1>1
<1> QED
  BY TypeCorrect, <1>2, PTL DEF Spec, DeletedByItsKey

-----------------------------------------------------------------------------
(* The calls that inserted the document implement LeaseLock.                *)

Holders == {i \in Id : ValidInserted(i)}
Gone == {i \in Id : stop[i] \/ pc[i] = "crashed"}

\* The initial state of the lock is one of the abstract lease lock.
LEMMA LeaseInitial == Init => Lease!LeaseInit
  BY DEF Init, Lease!LeaseInit, ValidInserted, Valid, Held

\* A step that only touches the validity of a call that is still there is a
\* grant, a loss or nothing, because there is one valid controller at most
\* before and after it.
LEMMA LocalStep ==
  ASSUME NEW i \in Id, i \notin Gone, InsertedExclusion, InsertedExclusion',
         \A j \in Id \ {i} : ValidInserted(j)' <=> ValidInserted(j),
         Gone' = Gone
  PROVE  Lease!Grant(i) \/ Lease!Lose(i) \/ Holders' = Holders
<1>1. CASE ValidInserted(i) <=> ValidInserted(i)'
  BY <1>1 DEF Holders
<1>2. CASE ~ValidInserted(i) /\ ValidInserted(i)'
  <2>1. Holders = {} /\ Holders' = {i}
    BY <1>2 DEF Holders, InsertedExclusion
  <2> QED
    BY <2>1 DEF Lease!Grant, Holders, Gone
<1>3. CASE ValidInserted(i) /\ ~ValidInserted(i)'
  <2>1. i \in Holders /\ Holders' = Holders \ {i}
    BY <1>3 DEF Holders
  <2> QED
    BY <2>1 DEF Lease!Lose, Holders, Gone
<1> QED
  BY <1>1, <1>2, <1>3

\* Every step of the lock is a step of the abstract lease lock or a stutter.
LEMMA LeaseStep ==
    IInv /\ IInv' /\ [Next]_vars => [Lease!LeaseNext]_(Lease!leaseVars)
<1> SUFFICES ASSUME IInv, IInv', [Next]_vars
             PROVE  Lease!LeaseNext \/ (Holders' = Holders /\ Gone' = Gone)
  BY DEF Lease!leaseVars, Holders, Gone
<1>0. TypeOK /\ InsertedExclusion /\ InsertedExclusion'
  <2>1. InsertedExclusion'
    BY BackedExclusion, PTL
  <2> QED
    BY <2>1, BackedExclusion DEF IInv
<1> USE <1>0 DEF TypeOK, Gone, ValidInserted, Valid, Held, Lost
<1>1. CASE UNCHANGED vars
  BY <1>1 DEF vars, Holders
<1>2. CASE Tick
  <2>1. Gone' = Gone /\ \A j \in Id : ValidInserted(j)' => ValidInserted(j)
    BY <1>2 DEF Tick
  <2>2. CASE \A j \in Id : ValidInserted(j) => ValidInserted(j)'
    <3>1. \A j \in Id : ValidInserted(j)' <=> ValidInserted(j)
      BY <2>1, <2>2
    <3>2. Holders' = Holders
      BY ONLY <3>1 DEF Holders
    <3> QED
      BY <2>1, <3>2
  <2>3. CASE \E j \in Id : ValidInserted(j) /\ ~ValidInserted(j)'
    <3>1. PICK j \in Id : ValidInserted(j) /\ ~ValidInserted(j)'
      BY <2>3
    <3>2. j \in Holders /\ Holders' = Holders \ {j}
      BY <2>1, <3>1 DEF Holders, InsertedExclusion
    <3>3. Lease!Lose(j)
      BY <2>1, <3>2 DEF Lease!Lose, Holders
    <3> QED
      BY <3>3 DEF Lease!LeaseNext
  <2> QED
    BY <2>2, <2>3
<1>3. ASSUME NEW i \in Id, Release(i) \/ Crash(i) PROVE Lease!Leave(i)
  <2>1. Gone' = Gone \cup {i}
    BY <1>3 DEF Release, Crash
  <2>2. Holders' = Holders \ {i}
    BY <1>3 DEF Release, Crash, Holders
  <2> QED
    BY <2>1, <2>2 DEF Lease!Leave, Holders
<1>4. ASSUME NEW i \in Id, Acquired(i) \/ RefreshReply(i)
      PROVE  Lease!LeaseNext \/ (Holders' = Holders /\ Gone' = Gone)
  <2>1. /\ Gone' = Gone
        /\ \A j \in Id \ {i} : ValidInserted(j)' <=> ValidInserted(j)
    BY <1>4 DEF Acquired, RefreshReply, LoopSleep
  <2>2. CASE i \notin Gone
    BY <2>1, <2>2, LocalStep DEF Lease!LeaseNext
  <2>3. CASE i \in Gone
    BY <1>4, <2>1, <2>3 DEF Acquired, RefreshReply, Holders
  <2> QED
    BY <2>2, <2>3
<1>5. ASSUME NEW i \in Id, ExecAcquire(i) PROVE Holders' = Holders /\ Gone' = Gone
  <2>1. net[i] = "acquire" /\ ~Valid(i)
    BY <1>5 DEF ExecAcquire, IInv, SlotInv
  <2>2. Gone' = Gone /\ \A j \in Id : ValidInserted(j)' <=> ValidInserted(j)
    BY <1>5, <2>1 DEF ExecAcquire, docVars
  <2> QED
    BY <2>2 DEF Holders
<1>6. ASSUME NEW i \in Id,
             \/ ExecRefresh(i) \/ ExecRelease(i) \/ NotAcquired(i)
             \/ Continue(i) \/ Acquire(i) \/ CommandFails(i)
      PROVE  Holders' = Holders /\ Gone' = Gone
  <2>1. Gone' = Gone /\ \A j \in Id : ValidInserted(j)' <=> ValidInserted(j)
    BY <1>6 DEF ExecRefresh, ExecRelease, NotAcquired, Continue, Poll, LoopWake,
                Acquire, CommandFails, LoopSleep
  <2> QED
    BY <2>1 DEF Holders
<1>7. CASE ExpireDoc
  BY <1>7 DEF ExpireDoc, Holders
<1> QED
  BY <1>1, <1>2, <1>3, <1>4, <1>5, <1>6, <1>7
     DEF Next, Exec, Reply, Call, Fault, Lease!LeaseNext

\* Among the calls that inserted the document, the lock implements LeaseLock.
THEOREM Implementation == Spec => ImplementsLease
<1>1. IInv /\ IInv' /\ [Next]_vars => [Lease!LeaseNext]_(Lease!leaseVars)
  BY LeaseStep
<1> QED
  BY LeaseInitial, Invariance, <1>1, PTL
     DEF Spec, ImplementsLease, Lease!LeaseSpec

\* The document outlives what an inserter relies on and is gone after its release().
THEOREM DocumentsFollow == Spec => []DocumentFollowsCall
BY Backing, ReleaseDeletes, PTL DEF DocumentFollowsCall
=============================================================================
