----------------------------- MODULE MongoLock -----------------------------
(***************************************************************************)
(* base/source/lock/mongo/lock.ts and mongo-lock-repository.ts: the lock   *)
(* document of one resource and the acquire() calls made on it.  A call    *)
(* draws a random key, so the calls are named by their keys.  It polls     *)
(* until it inserts the document, or takes over one that has expired; the  *)
(* controller it returns refreshes the document in a background loop.      *)
(* Unlike RedisLock's, release() does not wait for the loop: it sets the   *)
(* token and deletes the document at once, so a refresh and a delete of    *)
(* one call may be under way together.                                     *)
(*                                                                         *)
(* A takeover changes the expiration of the document and leaves the key of *)
(* its former owner in it.  The variable takers remembers who got the lock *)
(* that way, for the properties that tell the two kinds of owners apart.   *)
(***************************************************************************)
EXTENDS Integers

CONSTANTS
    Id,                        \* the acquire() calls, and their keys
    NoKey,                     \* there is no document
    Expiration,                \* EXPIRATION_TIME, in ticks
    RefreshInterval,           \* the 5000 ms between two refreshes, in ticks
    PollDelay,                 \* timeoutDuration, in ticks
    Timeout,                   \* the timeout each call passes to acquire()
    TTLDelay,                  \* expireAfterSeconds of the index, in ticks
    MaxTime                    \* bound on the clock

ASSUME NoKeyAssumption == NoKey \notin Id
ASSUME DurationAssumption ==
    /\ Expiration \in Nat
    /\ RefreshInterval \in Nat
    /\ PollDelay \in Nat
    /\ TTLDelay \in Nat
    /\ MaxTime \in Nat
ASSUME TimeoutAssumption == Timeout \in [Id -> Nat]

VARIABLES
    now,                       \* the clock the processes share
    docKey, docExp,            \* the lock document; NoKey if there is none
    takers,                    \* the calls that were granted an expired document
    pc,                        \* where the call, then its refresh loop, is
    net,                       \* its acquire or refresh in flight, or the reply
    sent,                      \* when that command was built
    expiration,                \* the controller's expiration
    timer,                     \* when the call began
    wake,                      \* when its current sleep ends
    stop,                      \* releaseToken.isSet
    rel                        \* its delete: none, sent, done or failed

vars == <<now, docKey, docExp, takers, pc, net, sent, expiration, timer, wake,
          stop, rel>>
docVars == <<docKey, docExp, takers>>

\* The controller exists.
Held == {"refreshing", "sleeping", "ended"}

Lost(i) == now >= expiration[i]
Replied(i) == net[i] \in {"ok", "no"}

Init ==
    /\ now = 0
    /\ docKey = NoKey
    /\ docExp = 0
    /\ takers = {}
    /\ pc = [i \in Id |-> "idle"]
    /\ net = [i \in Id |-> "none"]
    /\ sent = [i \in Id |-> 0]
    /\ expiration = [i \in Id |-> 0]
    /\ timer = [i \in Id |-> 0]
    /\ wake = [i \in Id |-> 0]
    /\ stop = [i \in Id |-> FALSE]
    /\ rel = [i \in Id |-> "none"]

-----------------------------------------------------------------------------
(* The commands, each one atomic in the database.                           *)

Answer(i, success) == net' = [net EXCEPT ![i] = IF success THEN "ok" ELSE "no"]
DeleteDoc == docKey' = NoKey /\ docExp' = 0

\* What the filter of tryInsertOrRefresh matches: the call's own document, or
\* one that had expired when the filter was built.
Matches(i) == docKey = i \/ (docKey # NoKey /\ docExp <= sent[i])

\* updateOne with upsert: a match gets the new expiration and keeps its key,
\* no document at all is inserted with the call's key, and the insert that
\* the unique index refuses is the answer false.
ExecAcquire(i) ==
    /\ net[i] = "acquire"
    /\ \/ /\ docKey = NoKey
          /\ docKey' = i /\ docExp' = sent[i] + Expiration
          /\ Answer(i, TRUE)
          /\ UNCHANGED takers
       \/ /\ Matches(i)
          /\ docExp' = sent[i] + Expiration
          /\ takers' = IF docKey = i THEN takers ELSE takers \cup {i}
          /\ Answer(i, TRUE)
          /\ UNCHANGED docKey
       \/ /\ docKey # NoKey /\ ~Matches(i)
          /\ Answer(i, FALSE)
          /\ UNCHANGED docVars
    /\ UNCHANGED <<now, pc, sent, expiration, timer, wake, stop, rel>>

\* Mutant: the refresh is an upsert.
ExecRefreshUpserts(i) ==
    /\ net[i] = "refresh"
    /\ docKey \in {i, NoKey}
    /\ docKey' = i /\ docExp' = sent[i] + Expiration
    /\ Answer(i, TRUE)
    /\ UNCHANGED <<now, takers, pc, sent, expiration, timer, wake, stop, rel>>

\* tryUpdateExpiration: no upsert; whether the document has expired is not
\* asked.
ExecRefresh(i) ==
    /\ net[i] = "refresh"
    /\ Answer(i, docKey = i)
    /\ docExp' = IF docKey = i THEN sent[i] + Expiration ELSE docExp
    /\ UNCHANGED <<now, docKey, takers, pc, sent, expiration, timer, wake, stop,
                   rel>>

\* deleteByResource, and its reply, which may be lost.
ExecRelease(i) ==
    /\ rel[i] = "sent"
    /\ \E outcome \in {"done", "failed"} : rel' = [rel EXCEPT ![i] = outcome]
    /\ IF docKey = i THEN DeleteDoc ELSE UNCHANGED <<docKey, docExp>>
    /\ UNCHANGED <<now, takers, pc, net, sent, expiration, timer, wake, stop>>

\* The TTL index removes a document some time after its expiration.
ExpireDoc ==
    /\ docKey # NoKey /\ docExp + TTLDelay <= now
    /\ DeleteDoc
    /\ UNCHANGED <<now, takers, pc, net, sent, expiration, timer, wake, stop,
                   rel>>

-----------------------------------------------------------------------------
(* acquire().                                                               *)

Send(i, command) ==
    /\ net' = [net EXCEPT ![i] = command]
    /\ sent' = [sent EXCEPT ![i] = now]

FreeSlot(i) ==
    /\ net' = [net EXCEPT ![i] = "none"]
    /\ sent' = [sent EXCEPT ![i] = 0]

Acquire(i) ==
    /\ pc[i] = "idle"
    /\ pc' = [pc EXCEPT ![i] = "acquiring"]
    /\ Send(i, "acquire")
    /\ timer' = [timer EXCEPT ![i] = now]
    /\ UNCHANGED <<now, docKey, docExp, takers, expiration, wake, stop, rel>>

\* The controller is created; its loop sleeps before the first refresh.
Acquired(i) ==
    /\ pc[i] = "acquiring" /\ net[i] = "ok"
    /\ pc' = [pc EXCEPT ![i] = "sleeping"]
    /\ expiration' = [expiration EXCEPT ![i] = sent[i] + Expiration]
    /\ timer' = [timer EXCEPT ![i] = 0]
    /\ wake' = [wake EXCEPT ![i] = now + RefreshInterval]
    /\ FreeSlot(i)
    /\ UNCHANGED <<now, docKey, docExp, takers, stop, rel>>

\* A call with timeout 0 gives up after one attempt; any other sleeps.
NotAcquired(i) ==
    /\ pc[i] = "acquiring" /\ net[i] = "no"
    /\ FreeSlot(i)
    /\ IF Timeout[i] = 0
       THEN /\ pc' = [pc EXCEPT ![i] = "refused"]
            /\ timer' = [timer EXCEPT ![i] = 0]
            /\ UNCHANGED wake
       ELSE /\ pc' = [pc EXCEPT ![i] = "waiting"]
            /\ wake' = [wake EXCEPT ![i] = now + PollDelay]
            /\ UNCHANGED timer
    /\ UNCHANGED <<now, docKey, docExp, takers, expiration, stop, rel>>

InTime(i) == now - timer[i] < Timeout[i]

Poll(i) ==
    /\ pc[i] = "waiting" /\ now >= wake[i]
    /\ wake' = [wake EXCEPT ![i] = 0]
    /\ IF InTime(i)
       THEN /\ pc' = [pc EXCEPT ![i] = "acquiring"]
            /\ Send(i, "acquire")
            /\ UNCHANGED timer
       ELSE /\ pc' = [pc EXCEPT ![i] = "refused"]
            /\ timer' = [timer EXCEPT ![i] = 0]
            /\ UNCHANGED <<net, sent>>
    /\ UNCHANGED <<now, docKey, docExp, takers, expiration, stop, rel>>

-----------------------------------------------------------------------------
(* The refresh loop.                                                        *)

\* Mutant: the loop does not look at the token.
LoopWakeUnstopped(i) ==
    /\ pc[i] = "sleeping"
    /\ now >= wake[i] \/ stop[i]
    /\ wake' = [wake EXCEPT ![i] = 0]
    /\ IF ~Lost(i)
       THEN pc' = [pc EXCEPT ![i] = "refreshing"] /\ Send(i, "refresh")
       ELSE pc' = [pc EXCEPT ![i] = "ended"] /\ UNCHANGED <<net, sent>>
    /\ UNCHANGED <<now, docKey, docExp, takers, expiration, timer, stop, rel>>

\* The sleep is over, or the token cancels it; the loop's condition is next.
LoopWake(i) ==
    /\ pc[i] = "sleeping"
    /\ now >= wake[i] \/ stop[i]
    /\ wake' = [wake EXCEPT ![i] = 0]
    /\ IF ~stop[i] /\ ~Lost(i)
       THEN pc' = [pc EXCEPT ![i] = "refreshing"] /\ Send(i, "refresh")
       ELSE pc' = [pc EXCEPT ![i] = "ended"] /\ UNCHANGED <<net, sent>>
    /\ UNCHANGED <<now, docKey, docExp, takers, expiration, timer, stop, rel>>

LoopSleep(i) ==
    /\ pc' = [pc EXCEPT ![i] = "sleeping"]
    /\ wake' = [wake EXCEPT ![i] = now + RefreshInterval]
    /\ FreeSlot(i)

\* Mutant: the result of the refresh is not looked at.
RefreshReplyUnchecked(i) ==
    /\ pc[i] = "refreshing" /\ Replied(i)
    /\ expiration' = [expiration EXCEPT ![i] = sent[i] + Expiration]
    /\ LoopSleep(i)
    /\ UNCHANGED <<now, docKey, docExp, takers, timer, stop, rel>>

\* A refresh that matched nothing sets the expiration to new Date(0).
RefreshReply(i) ==
    /\ pc[i] = "refreshing" /\ Replied(i)
    /\ expiration' = [expiration EXCEPT
                        ![i] = IF net[i] = "ok" THEN sent[i] + Expiration ELSE 0]
    /\ LoopSleep(i)
    /\ UNCHANGED <<now, docKey, docExp, takers, timer, stop, rel>>

-----------------------------------------------------------------------------
(* controller.release(), by the owner or by using() when its function is    *)
(* done; every call of it sends a delete.                                   *)

\* Mutant: the release deletes without setting the token.
ReleaseUntold(i) ==
    /\ pc[i] \in Held /\ rel[i] # "sent"
    /\ rel' = [rel EXCEPT ![i] = "sent"]
    /\ UNCHANGED <<now, docKey, docExp, takers, pc, net, sent, expiration,
                   timer, wake, stop>>

Release(i) ==
    /\ pc[i] \in Held /\ rel[i] # "sent"
    /\ stop' = [stop EXCEPT ![i] = TRUE]
    /\ rel' = [rel EXCEPT ![i] = "sent"]
    /\ UNCHANGED <<now, docKey, docExp, takers, pc, net, sent, expiration,
                   timer, wake>>

-----------------------------------------------------------------------------
(* Failures.                                                                *)

\* A command rejects: it was lost before it ran, or its reply was.  acquire()
\* and release() throw, the loop goes on with the expiration it has.
CommandFails(i) ==
    /\ \/ /\ pc[i] = "acquiring"
          /\ pc' = [pc EXCEPT ![i] = "thrown"]
          /\ timer' = [timer EXCEPT ![i] = 0]
          /\ FreeSlot(i)
          /\ UNCHANGED <<rel, wake>>
       \/ pc[i] = "refreshing" /\ LoopSleep(i) /\ UNCHANGED <<rel, timer>>
       \/ /\ rel[i] = "sent"
          /\ rel' = [rel EXCEPT ![i] = "failed"]
          /\ UNCHANGED <<pc, net, sent, timer, wake>>
    /\ UNCHANGED <<now, docKey, docExp, takers, expiration, stop>>

\* The process dies; what it has sent still reaches the database.
Crash(i) ==
    /\ pc[i] \in Held \cup {"acquiring", "waiting"}
    /\ pc' = [pc EXCEPT ![i] = "crashed"]
    /\ expiration' = [expiration EXCEPT ![i] = 0]
    /\ timer' = [timer EXCEPT ![i] = 0]
    /\ wake' = [wake EXCEPT ![i] = 0]
    /\ UNCHANGED <<now, docKey, docExp, takers, net, sent, stop, rel>>

Tick ==
    /\ now < MaxTime
    /\ now' = now + 1
    /\ UNCHANGED <<docKey, docExp, takers, pc, net, sent, expiration, timer,
                   wake, stop, rel>>

-----------------------------------------------------------------------------
Exec(i) == ExecAcquire(i) \/ ExecRefresh(i) \/ ExecRelease(i)
Reply(i) == Acquired(i) \/ NotAcquired(i) \/ RefreshReply(i)
Continue(i) == Poll(i) \/ LoopWake(i)
Call(i) == Acquire(i) \/ Release(i)
Fault(i) == CommandFails(i) \/ Crash(i)

Next ==
    \/ \E i \in Id : Exec(i) \/ Reply(i) \/ Continue(i) \/ Call(i) \/ Fault(i)
    \/ ExpireDoc
    \/ Tick

Spec == Init /\ [][Next]_vars

\* The database answers, timers and promises fire, time passes.
Fairness ==
    /\ WF_vars(Tick)
    /\ \A i \in Id :
          /\ WF_vars(ExecAcquire(i) \/ ExecRefresh(i))
          /\ WF_vars(ExecRelease(i))
          /\ WF_vars(Reply(i))
          /\ WF_vars(Continue(i))

FairSpec == Spec /\ Fairness

-----------------------------------------------------------------------------
(* Properties.                                                              *)

TypeOK ==
    /\ now \in Nat
    /\ docKey \in Id \cup {NoKey}
    /\ docExp \in Nat
    /\ takers \subseteq Id
    /\ pc \in [Id -> Held \cup {"idle", "acquiring", "waiting", "refused",
                               "thrown", "crashed"}]
    /\ net \in [Id -> {"none", "acquire", "refresh", "ok", "no"}]
    /\ sent \in [Id -> Nat]
    /\ expiration \in [Id -> Nat]
    /\ timer \in [Id -> Nat]
    /\ wake \in [Id -> Nat]
    /\ stop \in [Id -> BOOLEAN]
    /\ rel \in [Id -> {"none", "sent", "done", "failed"}]

\* The owner may rely on its controller: not released and not lost.
Valid(i) == pc[i] \in Held /\ ~stop[i] /\ ~Lost(i)
\* ... and it inserted the document itself.
ValidInserted(i) == Valid(i) /\ i \notin takers

\* Two controllers are valid together only if one of them is a taker: calls
\* that inserted the document exclude each other, whatever takers, stalled
\* refreshes and late deletes do to the document.
InsertedExclusion ==
    \A i, j \in Id : ValidInserted(i) /\ ValidInserted(j) => i = j

\* The document backs the controller of a call that inserted it.
InsertedBacked ==
    \A i \in Id : ValidInserted(i) => docKey = i /\ docExp >= expiration[i]

\* A call that took the lock over never extends it, so that it relies on a
\* document that others may delete until its first refresh only.
TakerNeverExtends ==
    [][\A i \in takers : pc[i] \in Held => expiration'[i] <= expiration[i]]_vars

\* After a release() has deleted, no refresh still under way brings the
\* document of this call back.
ReleasedIsGone == \A i \in Id : rel[i] = "done" => docKey # i

\* The document is there as long as a call that inserted it relies on it, and
\* is not once that call's release() is through.
DocumentFollowsCall == InsertedBacked /\ ReleasedIsGone

\* A lock document goes by a release() of the call whose key is in it, or by
\* the TTL index when it has expired: no other call deletes it.
DeletedByItsKey ==
    [][docKey # NoKey /\ docKey' = NoKey
         => rel[docKey] = "sent" \/ docExp + TTLDelay <= now]_vars

\* Once release() was called the refresh loop ends, although nobody awaits it.
LoopEnds == \A i \in Id : stop[i] ~> pc[i] \in {"ended", "crashed"}

\* acquire() gives up: a call that finds its time over when it wakes makes no
\* further attempt.
AcquireGivesUp ==
    \A i \in Id :
        /\ pc[i] = "waiting" /\ wake[i] <= MaxTime
        /\ now - timer[i] >= Timeout[i]
        ~> pc[i] \in {"refused", "crashed"}

\* So every task of a call comes to its end.
TasksEnd == LoopEnds /\ AcquireGivesUp

-----------------------------------------------------------------------------
(* The inductive invariant, proved in MongoLockProofs.                      *)

\* What may be in the command slot of a call, and what of its release.
SlotInv ==
    \A i \in Id :
        /\ pc[i] = "acquiring" => net[i] \in {"acquire", "ok", "no"}
        /\ pc[i] = "refreshing" => net[i] \in {"refresh", "ok", "no"}
        /\ pc[i] \notin {"acquiring", "refreshing", "crashed"} => net[i] = "none"
        /\ pc[i] \notin Held \cup {"crashed"} => ~stop[i]
        /\ rel[i] # "none" => stop[i] /\ net[i] # "acquire"

\* A command is built before it runs, and a refresh never shortens the lease.
TermInv ==
    \A i \in Id :
        /\ sent[i] <= now
        /\ pc[i] \in Held => expiration[i] <= now + Expiration
        /\ pc[i] = "refreshing" => expiration[i] <= sent[i] + Expiration

\* A call that has not been granted the lock left no trace; a taker's key is
\* never in the document, so that its refreshes fail.
TraceInv ==
    \A i \in Id :
        /\ \/ pc[i] \in {"idle", "waiting"} \/ net[i] = "acquire"
           \/ pc[i] = "acquiring" /\ net[i] = "no"
           => docKey # i /\ i \notin takers
        /\ i \in takers => docKey # i
        /\ i \in takers /\ pc[i] = "refreshing" => net[i] # "ok"

\* The term that a positive reply under way is about to grant.
Granted(i) ==
    /\ pc[i] \in {"acquiring", "refreshing"} /\ net[i] = "ok"
    /\ ~stop[i] /\ i \notin takers /\ now < sent[i] + Expiration

\* It is backed by the document unless the call is a taker.
GrantInv ==
    \A i \in Id :
        Granted(i) => docKey = i /\ docExp >= sent[i] + Expiration

IInv ==
    /\ TypeOK
    /\ SlotInv
    /\ TermInv
    /\ TraceInv
    /\ GrantInv
    /\ InsertedBacked
    /\ ReleasedIsGone

-----------------------------------------------------------------------------
(* The calls that inserted their document implement LeaseLock.              *)

Lease == INSTANCE LeaseLock WITH
    holders <- {i \in Id : ValidInserted(i)},
    gone <- {i \in Id : stop[i] \/ pc[i] = "crashed"}

\* Among the calls that inserted it, the lock is granted to one at a time and
\* never to one that is done with it.
ImplementsLease == Lease!LeaseSpec
=============================================================================
