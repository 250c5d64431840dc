----------------------------- MODULE RedisLock -----------------------------
(***************************************************************************)
(* redis/src/lock/lock.ts and the four lua scripts of redis/src/lua: one   *)
(* lock key of one Redis server and the acquire() calls made on it.  Every *)
(* call draws its own random id (lock.ts:34), so the calls are named by    *)
(* their ids.  A call retries until it is granted the key or times out;    *)
(* the controller it returns refreshes its lease in a background loop      *)
(* until release() stops the loop and then deletes the key.                *)
(*                                                                         *)
(* A call awaits one command at a time, so the connection is one slot per  *)
(* call: the request in flight, or the reply under way.  A command may be  *)
(* lost before or after it ran, and the client library may send it again.  *)
(***************************************************************************)
EXTENDS Integers

CONSTANTS
    Id,                        \* the acquire() calls
    NoId,                      \* the value of an absent key
    LockDuration,              \* LOCK_DURATION, in ticks
    RetryDelay,                \* RETRY_DELAY, in ticks
    AcquireTimeout,            \* the argument of acquire()
    Skew,                      \* how far a client's clock is ahead of Redis'
    MaxTime                    \* bound on the Redis clock

ASSUME NoIdAssumption == NoId \notin Id
ASSUME DurationAssumption ==
    /\ LockDuration \in Nat
    /\ RetryDelay \in Nat
    /\ AcquireTimeout \in Nat
    /\ MaxTime \in Nat
\* Leases are computed by the client and expired by Redis: no client's clock
\* may be behind the clock of Redis.
ASSUME SkewAssumption == Skew \in [Id -> Nat]

VARIABLES
    now,                       \* the clock of Redis
    owner,                     \* the value of the key, NoId if it is absent
    keyExpire,                 \* its expiration, 0 if it is absent
    pc,                        \* where the call, then its refresh loop, is
    net,                       \* its command in flight, or the reply
    exp,                       \* newExpireTimestamp of the last command
    expire,                    \* expireTimestamp of the controller
    timer,                     \* when the call began
    wake,                      \* when its current sleep ends
    stop,                      \* stopToken.isSet
    second                     \* a release() made after the first one

vars == <<now, owner, keyExpire, pc, net, exp, expire, timer, wake, stop,
          second>>
redisVars == <<owner, keyExpire>>

Commands == {"acquire", "refresh", "release"}
\* The controller exists and its DEL has not been sent.
Held == {"refreshing", "sleeping", "stopped"}
\* stoppedPromise is resolved.
LoopEnded == {"stopped", "releasing", "released", "releaseFailed"}

Clock(i) == now + Skew[i]
NewExpire(i) == Clock(i) + LockDuration
Lost(i) == expire[i] < Clock(i)

Init ==
    /\ now = 0
    /\ owner = NoId
    /\ keyExpire = 0
    /\ pc = [i \in Id |-> "idle"]
    /\ net = [i \in Id |-> "none"]
    /\ exp = [i \in Id |-> 0]
    /\ expire = [i \in Id |-> -1]
    /\ timer = [i \in Id |-> 0]
    /\ wake = [i \in Id |-> 0]
    /\ stop = [i \in Id |-> FALSE]
    /\ second = [i \in Id |-> "none"]

-----------------------------------------------------------------------------
(* The lua scripts, each one atomic.                                        *)

DeleteKey == owner' = NoId /\ keyExpire' = 0

\* PEXPIREAT with a time that is not in the future deletes the key; the
\* command reports success all the same.
PExpireAt(i, when) ==
    IF when <= now
    THEN DeleteKey
    ELSE owner' = i /\ keyExpire' = when

Answer(i, success) == net' = [net EXCEPT ![i] = IF success THEN "ok" ELSE "no"]

\* Mutant: SET without NX.
ExecAcquireOverwrites(i) ==
    /\ net[i] = "acquire"
    /\ Answer(i, TRUE)
    /\ PExpireAt(i, exp[i])
    /\ UNCHANGED <<now, pc, exp, expire, timer, wake, stop, second>>

ExecAcquire(i) ==
    /\ net[i] = "acquire"
    /\ Answer(i, owner \in {i, NoId})
    /\ IF owner = NoId THEN PExpireAt(i, exp[i]) ELSE UNCHANGED redisVars
    /\ UNCHANGED <<now, pc, exp, expire, timer, wake, stop, second>>

ExecRefresh(i) ==
    /\ net[i] = "refresh"
    /\ Answer(i, owner = i)
    /\ IF owner = i THEN PExpireAt(i, exp[i]) ELSE UNCHANGED redisVars
    /\ UNCHANGED <<now, pc, exp, expire, timer, wake, stop, second>>

ExecRelease(i) ==
    /\ net[i] = "release"
    /\ Answer(i, owner = i)
    /\ IF owner = i THEN DeleteKey ELSE UNCHANGED redisVars
    /\ UNCHANGED <<now, pc, exp, expire, timer, wake, stop, second>>

Replied(i) == net[i] \in {"ok", "no"}

\* The slot of the call when no command is awaited.
FreeSlot(i) ==
    /\ net' = [net EXCEPT ![i] = "none"]
    /\ exp' = [exp EXCEPT ![i] = 0]

-----------------------------------------------------------------------------
(* acquire(): the attempts of _acquire().                                   *)

SendAcquire(i) ==
    /\ pc' = [pc EXCEPT ![i] = "acquiring"]
    /\ net' = [net EXCEPT ![i] = "acquire"]
    /\ exp' = [exp EXCEPT ![i] = NewExpire(i)]

TimedOut(i) == now - timer[i] >= AcquireTimeout

Acquire(i) ==
    /\ pc[i] = "idle"
    /\ SendAcquire(i)
    /\ timer' = [timer EXCEPT ![i] = now]
    /\ UNCHANGED <<now, owner, keyExpire, expire, wake, stop, second>>

\* One turn of the refresh loop: e is expireTimestamp at its condition.
LoopTurn(i, e) ==
    IF ~stop[i] /\ ~(e < Clock(i))
    THEN /\ pc' = [pc EXCEPT ![i] = "refreshing"]
         /\ net' = [net EXCEPT ![i] = "refresh"]
         /\ exp' = [exp EXCEPT ![i] = NewExpire(i)]
    ELSE pc' = [pc EXCEPT ![i] = "stopped"] /\ FreeSlot(i)

\* The controller is created and its refresh loop runs its first turn.
Acquired(i) ==
    /\ pc[i] = "acquiring" /\ net[i] = "ok"
    /\ expire' = [expire EXCEPT ![i] = exp[i]]
    /\ LoopTurn(i, exp[i])
    /\ timer' = [timer EXCEPT ![i] = 0]
    /\ UNCHANGED <<now, owner, keyExpire, wake, stop, second>>

\* Not granted: sleep if there is time left, else return false.
NotAcquired(i) ==
    /\ pc[i] = "acquiring" /\ net[i] = "no"
    /\ FreeSlot(i)
    /\ IF TimedOut(i)
       THEN /\ pc' = [pc EXCEPT ![i] = "refused"]
            /\ timer' = [timer EXCEPT ![i] = 0]
            /\ UNCHANGED wake
       ELSE /\ pc' = [pc EXCEPT ![i] = "retrying"]
            /\ wake' = [wake EXCEPT ![i] = now + RetryDelay]
            /\ UNCHANGED timer
    /\ UNCHANGED <<now, owner, keyExpire, expire, stop, second>>

\* After the sleep the timeout is looked at again.
Retry(i) ==
    /\ pc[i] = "retrying" /\ now >= wake[i]
    /\ wake' = [wake EXCEPT ![i] = 0]
    /\ IF TimedOut(i)
       THEN /\ pc' = [pc EXCEPT ![i] = "refused"]
            /\ timer' = [timer EXCEPT ![i] = 0]
            /\ UNCHANGED <<net, exp>>
       ELSE SendAcquire(i) /\ UNCHANGED timer
    /\ UNCHANGED <<now, owner, keyExpire, expire, stop, second>>

-----------------------------------------------------------------------------
(* The refresh loop.                                                        *)

\* Sleep half of the time left, but at least RetryDelay.
LoopSleep(i, e) ==
    LET half == (e - Clock(i)) \div 2 IN
    /\ pc' = [pc EXCEPT ![i] = "sleeping"]
    /\ FreeSlot(i)
    /\ wake' = [wake EXCEPT
                  ![i] = now + IF half > RetryDelay THEN half ELSE RetryDelay]

\* Mutant: the new expiration is computed after the refresh instead of before.
RefreshReplyLate(i) ==
    /\ pc[i] = "refreshing" /\ Replied(i)
    /\ LET e == IF net[i] = "ok" THEN NewExpire(i) ELSE expire[i]
       IN expire' = [expire EXCEPT ![i] = e] /\ LoopSleep(i, e)
    /\ UNCHANGED <<now, owner, keyExpire, timer, stop, second>>

RefreshReply(i) ==
    /\ pc[i] = "refreshing" /\ Replied(i)
    /\ LET e == IF net[i] = "ok" THEN exp[i] ELSE expire[i]
       IN expire' = [expire EXCEPT ![i] = e] /\ LoopSleep(i, e)
    /\ UNCHANGED <<now, owner, keyExpire, timer, stop, second>>

\* The sleep is over, or the stop token cancels it.
LoopWake(i) ==
    /\ pc[i] = "sleeping"
    /\ now >= wake[i] \/ stop[i]
    /\ LoopTurn(i, expire[i])
    /\ wake' = [wake EXCEPT ![i] = 0]
    /\ UNCHANGED <<now, owner, keyExpire, expire, timer, stop, second>>

-----------------------------------------------------------------------------
(* controller.release(), called by the owner or when its function is done.  *)

Release(i) ==
    /\ pc[i] \in Held /\ ~stop[i]
    /\ stop' = [stop EXCEPT ![i] = TRUE]
    /\ UNCHANGED <<now, owner, keyExpire, pc, net, exp, expire, timer, wake,
                   second>>

\* The release awaited the end of the loop.
SendRelease(i) ==
    /\ pc[i] = "stopped" /\ stop[i]
    /\ pc' = [pc EXCEPT ![i] = "releasing"]
    /\ net' = [net EXCEPT ![i] = "release"]
    /\ UNCHANGED <<now, owner, keyExpire, exp, expire, timer, wake, stop,
                   second>>

ReleaseReply(i) ==
    /\ pc[i] = "releasing" /\ Replied(i)
    /\ pc' = [pc EXCEPT ![i] = "released"]
    /\ net' = [net EXCEPT ![i] = "none"]
    /\ expire' = [expire EXCEPT ![i] = -1]
    /\ UNCHANGED <<now, owner, keyExpire, exp, timer, wake, stop, second>>

\* A release() that finds the token set only awaits the end of the loop.
ReleaseAgain(i) ==
    /\ stop[i] /\ second[i] = "none" /\ pc[i] # "crashed"
    /\ second' = [second EXCEPT ![i] = "waiting"]
    /\ UNCHANGED <<now, owner, keyExpire, pc, net, exp, expire, timer, wake,
                   stop>>

\* Mutant: the second release() does not wait for the loop.
ReleaseAgainReturnsAtOnce(i) ==
    /\ second[i] = "waiting" /\ pc[i] # "crashed"
    /\ second' = [second EXCEPT ![i] = "returned"]
    /\ UNCHANGED <<now, owner, keyExpire, pc, net, exp, expire, timer, wake,
                   stop>>

ReleaseAgainReturns(i) ==
    /\ second[i] = "waiting" /\ pc[i] \in LoopEnded
    /\ second' = [second EXCEPT ![i] = "returned"]
    /\ UNCHANGED <<now, owner, keyExpire, pc, net, exp, expire, timer, wake,
                   stop>>

-----------------------------------------------------------------------------
(* Failures.                                                                *)

\* Mutant: a refresh that rejects is not caught and ends the loop for good.
CommandFailsUncaught(i) ==
    /\ net[i] # "none" /\ pc[i] = "refreshing"
    /\ FreeSlot(i)
    /\ UNCHANGED <<now, owner, keyExpire, pc, expire, timer, wake, stop, second>>

\* The awaited command rejects: it was lost before it ran, or its reply was.
CommandFails(i) ==
    /\ net[i] # "none"
    /\ \/ /\ pc[i] = "acquiring"
          /\ pc' = [pc EXCEPT ![i] = "thrown"]
          /\ timer' = [timer EXCEPT ![i] = 0]
          /\ FreeSlot(i) /\ UNCHANGED wake
       \/ pc[i] = "refreshing" /\ LoopSleep(i, expire[i]) /\ UNCHANGED timer
       \/ /\ pc[i] = "releasing"
          /\ pc' = [pc EXCEPT ![i] = "releaseFailed"]
          /\ FreeSlot(i) /\ UNCHANGED <<timer, wake>>
    /\ UNCHANGED <<now, owner, keyExpire, expire, stop, second>>

\* The reply is lost and the client library sends the command again.
Resend(i) ==
    /\ Replied(i)
    /\ \/ pc[i] = "acquiring" /\ net' = [net EXCEPT ![i] = "acquire"]
       \/ pc[i] = "refreshing" /\ net' = [net EXCEPT ![i] = "refresh"]
       \/ pc[i] = "releasing" /\ net' = [net EXCEPT ![i] = "release"]
    /\ UNCHANGED <<now, owner, keyExpire, pc, exp, expire, timer, wake, stop,
                   second>>

\* The process dies; a request it has sent still reaches Redis.
Crash(i) ==
    /\ pc[i] \in Held \cup {"acquiring", "retrying", "releasing"}
    /\ pc' = [pc EXCEPT ![i] = "crashed"]
    /\ expire' = [expire EXCEPT ![i] = -1]
    /\ timer' = [timer EXCEPT ![i] = 0]
    /\ wake' = [wake EXCEPT ![i] = 0]
    /\ UNCHANGED <<now, owner, keyExpire, net, exp, stop, second>>

\* A key lives until the clock of Redis has passed its expiration.
Tick ==
    /\ now < MaxTime
    /\ now' = now + 1
    /\ IF owner # NoId /\ keyExpire < now + 1
       THEN DeleteKey
       ELSE UNCHANGED redisVars
    /\ UNCHANGED <<pc, net, exp, expire, timer, wake, stop, second>>

-----------------------------------------------------------------------------
Exec(i) == ExecAcquire(i) \/ ExecRefresh(i) \/ ExecRelease(i)
Reply(i) == Acquired(i) \/ NotAcquired(i) \/ RefreshReply(i) \/ ReleaseReply(i)
Continue(i) ==
    Retry(i) \/ LoopWake(i) \/ SendRelease(i) \/ ReleaseAgainReturns(i)
Call(i) == Acquire(i) \/ Release(i) \/ ReleaseAgain(i)
Fault(i) == CommandFails(i) \/ Resend(i) \/ Crash(i)

Next ==
    \/ \E i \in Id : Exec(i) \/ Reply(i) \/ Continue(i) \/ Call(i) \/ Fault(i)
    \/ Tick

Spec == Init /\ [][Next]_vars

\* Redis runs what reaches it, timers and promises fire, time passes, and a
\* command is not resent for ever.
Fairness ==
    /\ WF_vars(Tick)
    /\ \A i \in Id : WF_vars(Exec(i)) /\ SF_vars(Reply(i)) /\ WF_vars(Continue(i))

FairSpec == Spec /\ Fairness

-----------------------------------------------------------------------------
(* Properties.                                                              *)

TypeOK ==
    /\ now \in Nat
    /\ owner \in Id \cup {NoId}
    /\ keyExpire \in Nat
    /\ pc \in [Id -> Held \cup LoopEnded \cup {"idle", "acquiring", "retrying",
                                              "refused", "thrown", "crashed"}]
    /\ net \in [Id -> Commands \cup {"none", "ok", "no"}]
    /\ exp \in [Id -> Nat]
    /\ expire \in [Id -> Int]
    /\ timer \in [Id -> Nat]
    /\ wake \in [Id -> Int]
    /\ stop \in [Id -> BOOLEAN]
    /\ second \in [Id -> {"none", "waiting", "returned"}]

\* The owner may rely on its controller: not released, not lost, and not in
\* the last tick of its lease (PEXPIREAT refuses that tick, `lost` does not).
Valid(i) == pc[i] \in Held /\ ~stop[i] /\ Clock(i) < expire[i]

\* Two acquire() calls never both hold a valid controller, whatever commands
\* are lost, repeated or late and however the clients' clocks run ahead.
MutualExclusion == \A i, j \in Id : Valid(i) /\ Valid(j) => i = j

\* Until its DEL is sent, what a controller believes is backed by the key:
\* Redis keeps the key for its id at least as long as expireTimestamp says.
LeaseBacked ==
    \A i \in Id : pc[i] \in Held /\ now < expire[i]
                     => owner = i /\ keyExpire >= expire[i]

\* A call that holds a valid controller holds it alone, and the key backs it.
HoldersAreBacked == MutualExclusion /\ LeaseBacked

\* A key only leaves its owner when it expires or by a command of that owner,
\* never by another call's acquire, refresh or release script.
NoTheft ==
    [][\A i \in Id : owner = i /\ owner' # i
                     => net[i] \in Commands \/ keyExpire < now']_vars

\* When the first release() is done the key is not this call's any more, and
\* no command still under way makes it so again.
ReleasedIsFree == \A i \in Id : pc[i] = "released" => owner # i

\* Once any release() of a controller has returned, the refresh loop never
\* extends the lease again, although the second release() returns before the
\* key is deleted.
NoExtensionAfterRelease ==
    [][\A i \in Id : /\ second[i] = "returned" \/ pc[i] = "released"
                     /\ owner = i /\ owner' = i
                     => keyExpire' <= keyExpire]_vars

\* lock.ts:29, "False if acquiring the lock has failed, or a LockController
\* otherwise": a call that goes on to return a controller was given the key.
GrantedIsOwned ==
    [][\A i \in Id : net[i] = "acquire" /\ net'[i] = "ok" => owner' = i]_vars

\* The first release() comes to its end, in the middle of a refresh or of the
\* loop's sleep, unless the process dies.
ReleaseCompletes ==
    \A i \in Id : stop[i] ~> pc[i] \in {"released", "releaseFailed", "crashed"}

\* A later release() returns too.
LaterReleaseReturns ==
    \A i \in Id : second[i] = "waiting"
                     ~> second[i] = "returned" \/ pc[i] = "crashed"

\* acquire() does not retry for ever: it ends if its last attempt fits in the
\* time the model looks at.
AcquireReturns ==
    \A i \in Id :
        /\ pc[i] = "acquiring"
        /\ timer[i] + AcquireTimeout + RetryDelay <= MaxTime
        ~> pc[i] \notin {"acquiring", "retrying"}

\* So every call returns.
CallsReturn == ReleaseCompletes /\ LaterReleaseReturns /\ AcquireReturns

-----------------------------------------------------------------------------
(* The inductive invariant, proved in RedisLockProofs.                      *)

\* What may be in the command slot of a call.  A crashed call's last command
\* may still be anywhere.
SlotInv ==
    \A i \in Id :
        /\ pc[i] = "acquiring" => net[i] \in {"acquire", "ok", "no"}
        /\ pc[i] = "refreshing" => net[i] \in {"refresh", "ok", "no"}
        /\ pc[i] = "releasing" => net[i] \in {"release", "ok", "no"}
        /\ pc[i] \notin {"acquiring", "refreshing", "releasing", "crashed"}
              => net[i] = "none"

\* Leases are never longer than LockDuration, and a refresh never shortens one.
TermInv ==
    \A i \in Id :
        /\ exp[i] <= NewExpire(i)
        /\ pc[i] \in Held => expire[i] <= NewExpire(i)
        /\ pc[i] = "refreshing" => expire[i] <= exp[i]

\* Before its controller exists, a call owns the key only through the attempt
\* under way, and with the expiration this attempt asked for.
AttemptInv ==
    \A i \in Id :
        /\ pc[i] \in {"idle", "retrying"} => owner # i
        /\ pc[i] = "acquiring" /\ net[i] = "no" => owner # i
        /\ pc[i] = "acquiring" /\ owner = i => keyExpire = exp[i]

\* A positive reply under way is backed by the key.
ReplyInv ==
    \A i \in Id :
        pc[i] \in {"acquiring", "refreshing"} /\ net[i] = "ok" /\ now < exp[i]
            => owner = i /\ keyExpire >= exp[i]

\* Once the DEL has run, the key is not this call's.
FreedInv ==
    \A i \in Id :
        pc[i] = "released" \/ (pc[i] = "releasing" /\ Replied(i)) => owner # i

\* When a later release() has returned, the loop sends nothing any more.
QuietInv ==
    \A i \in Id :
        second[i] = "returned"
            => /\ pc[i] \in LoopEnded \cup {"crashed"}
               /\ net[i] \notin {"acquire", "refresh"}

\* The inductive invariant behind the properties above.
IInv ==
    /\ TypeOK
    /\ SlotInv
    /\ TermInv
    /\ AttemptInv
    /\ ReplyInv
    /\ LeaseBacked
    /\ FreedInv
    /\ QuietInv

-----------------------------------------------------------------------------
(* The controllers implement the promise of LeaseLock.                      *)

Lease == INSTANCE LeaseLock WITH
    holders <- {i \in Id : Valid(i)},
    gone <- {i \in Id : stop[i] \/ pc[i] = "crashed"}

\* Every run of the lock is a run of the abstract lease lock.
ImplementsLease == Lease!LeaseSpec
=============================================================================
