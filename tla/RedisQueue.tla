----------------------------- MODULE RedisQueue -----------------------------
(***************************************************************************)
(* redis/src/queue/queue.ts with dequeue.lua and retry.lua.  The ids of    *)
(* the waiting jobs are in a list, those of the jobs under way in a sorted *)
(* set with the time they were dequeued at, the jobs themselves in a hash. *)
(* The retry loop moves the ids that are under way for too long back to    *)
(* the list.  Scripts and transactions are atomic.                         *)
(*                                                                         *)
(* Times are ages: the ticks since the time stamp was taken, counted up to *)
(* Old, beyond which no comparison changes; so that the clock needs no     *)
(* bound.                                                                  *)
(***************************************************************************)
EXTENDS Integers, Sequences, FiniteSets

CONSTANTS
    JobId,                     \* the ids enqueue() will draw
    Consumer,                  \* the processes that dequeue
    Retrier,                   \* the nodes whose retry loop is on its turn
    RetryAfter,                \* retryAfterMilliseconds, in ticks
    RetryBatch,                \* RETRY_BATCH_COUNT
    BatchSize,                 \* the size of a batch consumer
    EnqueueSize,               \* bound on the jobs of one enqueueMany()
    MaxLatency                 \* bound on the time a command is under way

ASSUME NumberAssumption ==
    /\ RetryAfter \in Nat \ {0}
    /\ RetryBatch \in Nat \ {0}
    /\ BatchSize \in Nat \ {0}
    /\ EnqueueSize \in Nat
    /\ MaxLatency \in Nat

ASSUME JobsAssumption == IsFiniteSet(JobId)

VARIABLES
    list,                      \* listKey: the waiting ids
    score,                     \* dequeueTimestampSortedSetKey: the age of an id
                               \* under way, Absent for the others
    data,                      \* dataHashKey: the jobs that are stored
    pc, age, count,            \* consumer: where it is, the age of the command
                               \* under way, and the count in it
    got,                       \* the jobs it was given and has not acknowledged
    rpc, rage,                 \* retry loop: where it is, the age of its command
    drawn,                     \* the ids that were enqueued
    requeued,                  \* the ids that were requeued while stored
    sinceTaken                 \* ticks since an id was taken out of the list

redisVars == <<list, score, data>>
consumerVars == <<pc, age, count, got>>
retryVars == <<rpc, rage>>
history == <<drawn, requeued, sinceTaken>>
vars == <<redisVars, consumerVars, retryVars, history>>

Old == RetryAfter + MaxLatency
Absent == 0 - 1

Elements(s) == {s[i] : i \in DOMAIN s}
UnderWay == {j \in JobId : score[j] # Absent}

Init ==
    /\ list = <<>>
    /\ score = [j \in JobId |-> Absent]
    /\ data = {}
    /\ pc = [c \in Consumer |-> "idle"]
    /\ age = [c \in Consumer |-> 0]
    /\ count = [c \in Consumer |-> 1]
    /\ got = [c \in Consumer |-> {}]
    /\ rpc = [r \in Retrier |-> "idle"]
    /\ rage = [r \in Retrier |-> 0]
    /\ drawn = {}
    /\ requeued = {}
    /\ sinceTaken = [j \in JobId |-> 0]

-----------------------------------------------------------------------------
(* enqueue(), enqueueMany(): one transaction.                               *)

\* No entry occurs twice.
Distinct(s) == \A m, n \in DOMAIN s : s[m] = s[n] => m = n

\* Every order a set of ids can have.
Orders(S) == {s \in [1..Cardinality(S) -> S] : Elements(s) = S /\ Distinct(s)}

Enqueue(s) ==
    /\ list' = list \o s
    /\ data' = data \cup Elements(s)
    /\ drawn' = drawn \cup Elements(s)
    /\ UNCHANGED <<score, consumerVars, retryVars, requeued, sinceTaken>>

-----------------------------------------------------------------------------
(* dequeue.lua                                                              *)

Count(c) == IF count[c] < Len(list) THEN count[c] ELSE Len(list)
Popped(c) == {list[i] : i \in 1..Count(c)}

Take(c) ==
    /\ list' = SubSeq(list, Count(c) + 1, Len(list))
    /\ score' = [j \in JobId |-> IF j \in Popped(c) THEN age[c] ELSE score[j]]
    /\ sinceTaken' = [j \in JobId |-> IF j \in Popped(c) THEN 0 ELSE sinceTaken[j]]

\* hmget answers null for an id whose job was deleted.
Jobs(c) == Popped(c) \cap data

-----------------------------------------------------------------------------
(* The consumers.                                                           *)

Dequeue(c, n) ==
    /\ pc[c] = "idle"
    /\ pc' = [pc EXCEPT ![c] = "dequeuing"]
    /\ age' = [age EXCEPT ![c] = 0]
    /\ count' = [count EXCEPT ![c] = n]
    /\ UNCHANGED <<redisVars, got, retryVars, history>>

Settle(c, place, jobs) ==
    /\ pc' = [pc EXCEPT ![c] = place]
    /\ age' = [age EXCEPT ![c] = 0]
    /\ count' = [count EXCEPT ![c] = 1]
    /\ got' = [got EXCEPT ![c] = jobs]

\* The reply has a job in it, which the consumer yields.
Dequeued(c) ==
    /\ pc[c] = "dequeuing"
    /\ Jobs(c) # {}
    /\ Take(c)
    /\ Settle(c, "processing", Jobs(c))
    /\ UNCHANGED <<data, retryVars, drawn, requeued>>

\* No id, or only ids without a job.  dequeue() takes null for no job; a batch
\* consumer yields the nulls, for which nothing can be acknowledged.
NothingDequeued(c) ==
    /\ pc[c] = "dequeuing"
    /\ Jobs(c) = {}
    /\ Take(c)
    /\ Settle(c, "waiting", {})
    /\ UNCHANGED <<data, retryVars, drawn, requeued>>

\* The timeout before the next attempt.
PollAgain(c) ==
    /\ pc[c] = "waiting"
    /\ pc' = [pc EXCEPT ![c] = "idle"]
    /\ UNCHANGED <<redisVars, age, count, got, retryVars, history>>

\* Mutant: the id stays in the sorted set.
AcknowledgeLeavesScore(c, jobs) ==
    /\ pc[c] = "processing"
    /\ jobs # {} /\ jobs \subseteq got[c]
    /\ data' = data \ jobs
    /\ got' = [got EXCEPT ![c] = got[c] \ jobs]
    /\ pc' = [pc EXCEPT ![c] = IF got[c] = jobs THEN "idle" ELSE "processing"]
    /\ UNCHANGED <<list, score, age, count, retryVars, history>>

\* acknowledge(): one transaction, which does not look at the list.
Acknowledge(c, jobs) ==
    /\ pc[c] = "processing"
    /\ jobs # {} /\ jobs \subseteq got[c]
    /\ data' = data \ jobs
    /\ score' = [j \in JobId |-> IF j \in jobs THEN Absent ELSE score[j]]
    /\ got' = [got EXCEPT ![c] = got[c] \ jobs]
    /\ pc' = [pc EXCEPT ![c] = IF got[c] = jobs THEN "idle" ELSE "processing"]
    /\ UNCHANGED <<list, age, count, retryVars, history>>

\* The cancellation token is set or the queue is disposed.
Stop(c) ==
    /\ pc[c] \in {"idle", "waiting"}
    /\ pc' = [pc EXCEPT ![c] = "ended"]
    /\ UNCHANGED <<redisVars, age, count, got, retryVars, history>>

\* The consumer throws or dies, or the reply of the script is lost.
Fail(c) ==
    /\ pc[c] \in {"dequeuing", "processing"}
    /\ Settle(c, "idle", {})
    /\ \/ UNCHANGED <<list, score, sinceTaken>>
       \/ pc[c] = "dequeuing" /\ Take(c)
    /\ UNCHANGED <<data, retryVars, drawn, requeued>>

-----------------------------------------------------------------------------
(* retryAll(), called by the distributed loop, and retry.lua.               *)

Retry(r) ==
    /\ rpc[r] = "idle"
    /\ rpc' = [rpc EXCEPT ![r] = "retrying"]
    /\ rage' = [rage EXCEPT ![r] = 0]
    /\ UNCHANGED <<redisVars, consumerVars, history>>

\* Mutant: the time of the command itself is the limit.
DueAtOnce(r) == {j \in UnderWay : score[j] >= rage[r]}

\* zrangebyscore: the ids dequeued RetryAfter before the time of the command.
Due(r) == {j \in UnderWay : score[j] >= rage[r] + RetryAfter}

\* LIMIT 0 count: the oldest of them.
Requeued(r, ids) ==
    /\ ids \subseteq Due(r)
    /\ \/ ids = Due(r) /\ Cardinality(ids) <= RetryBatch
       \/ Cardinality(ids) = RetryBatch
    /\ \A i \in ids, j \in Due(r) \ ids : score[i] >= score[j]

OldestFirst(s) == \A m, n \in DOMAIN s : m < n => score[s[m]] >= score[s[n]]

MoveBack(s) ==
    /\ list' = list \o s
    /\ score' = [j \in JobId |-> IF j \in Elements(s) THEN Absent ELSE score[j]]
    /\ requeued' = requeued \cup (Elements(s) \cap data)

\* Mutant: the loop goes on until a batch is empty, but waits for full ones.
RetryRunsFull(r) ==
    /\ rpc[r] = "retrying"
    /\ \E ids \in SUBSET JobId :
          /\ Requeued(r, ids) /\ Cardinality(ids) = RetryBatch
          /\ \E s \in Orders(ids) : OldestFirst(s) /\ MoveBack(s)
    /\ rage' = [rage EXCEPT ![r] = 0]
    /\ UNCHANGED <<data, consumerVars, rpc, drawn, sinceTaken>>

\* retryAll() goes on while the batches are full; each batch has a new time.
RetryRuns(r) ==
    /\ rpc[r] = "retrying"
    /\ \E ids \in SUBSET JobId :
          /\ Requeued(r, ids)
          /\ \E s \in Orders(ids) : OldestFirst(s) /\ MoveBack(s)
          /\ rpc' = [rpc EXCEPT ![r] = IF Cardinality(ids) = RetryBatch
                                       THEN "retrying" ELSE "idle"]
    /\ rage' = [rage EXCEPT ![r] = 0]
    /\ UNCHANGED <<data, consumerVars, drawn, sinceTaken>>

\* The command rejects, executed or not: func throws, and the retry loop of the
\* node has ended for good.
RetryFails(r) ==
    /\ rpc[r] = "retrying"
    /\ rpc' = [rpc EXCEPT ![r] = "ended"]
    /\ rage' = [rage EXCEPT ![r] = 0]
    /\ \/ UNCHANGED <<list, score, requeued>>
       \/ \E ids \in SUBSET JobId :
             /\ Requeued(r, ids)
             /\ \E s \in Orders(ids) : OldestFirst(s) /\ MoveBack(s)
    /\ UNCHANGED <<data, consumerVars, drawn, sinceTaken>>

-----------------------------------------------------------------------------
Older(ticks) == IF ticks < Old THEN ticks + 1 ELSE ticks

Tick ==
    /\ \A c \in Consumer : pc[c] = "dequeuing" => age[c] < MaxLatency
    /\ \A r \in Retrier : rpc[r] = "retrying" => rage[r] < MaxLatency
    /\ age' = [c \in Consumer |-> IF pc[c] = "dequeuing" THEN age[c] + 1 ELSE age[c]]
    /\ rage' = [r \in Retrier |-> IF rpc[r] = "retrying" THEN rage[r] + 1 ELSE rage[r]]
    /\ score' = [j \in JobId |-> IF score[j] = Absent THEN Absent ELSE Older(score[j])]
    /\ sinceTaken' = [j \in JobId |-> IF score[j] = Absent THEN sinceTaken[j]
                                      ELSE Older(sinceTaken[j])]
    /\ UNCHANGED <<list, data, pc, count, got, rpc, drawn, requeued>>

NextBatch == {S \in SUBSET (JobId \ drawn) : S # {} /\ Cardinality(S) <= EnqueueSize}

Next ==
    \/ \E S \in NextBatch : \E s \in Orders(S) : Enqueue(s)
    \/ \E c \in Consumer :
          \/ \E n \in {1, BatchSize} : Dequeue(c, n)
          \/ Dequeued(c) \/ NothingDequeued(c) \/ PollAgain(c)
          \/ \E jobs \in SUBSET got[c] : Acknowledge(c, jobs)
          \/ Stop(c) \/ Fail(c)
    \/ \E r \in Retrier : Retry(r) \/ RetryRuns(r) \/ RetryFails(r)
    \/ Tick

Spec == Init /\ [][Next]_vars

DeliverTo(c, j) == j \in Jobs(c) /\ Dequeued(c)

\* Time passes, Redis answers, backoffs end, a consumer gets through with what
\* it was given, the loop turns; no reply is lost for ever, for no job.
Fairness ==
    /\ SF_vars(Tick)
    /\ \A c \in Consumer :
          /\ WF_vars(\E n \in {1, BatchSize} : Dequeue(c, n))
          /\ \A j \in JobId : SF_vars(DeliverTo(c, j))
          /\ SF_vars(NothingDequeued(c))
          /\ WF_vars(PollAgain(c))
          /\ WF_vars(\E jobs \in SUBSET got[c] : Acknowledge(c, jobs))
    /\ \A r \in Retrier : WF_vars(Retry(r)) /\ WF_vars(RetryRuns(r))

FairSpec == Spec /\ Fairness

-----------------------------------------------------------------------------
\* The type invariant.
TypeOK ==
    /\ list \in Seq(JobId)
    /\ score \in [JobId -> {Absent} \cup 0..Old]
    /\ data \subseteq JobId
    /\ pc \in [Consumer -> {"idle", "dequeuing", "waiting", "processing", "ended"}]
    /\ age \in [Consumer -> 0..MaxLatency]
    /\ count \in [Consumer -> {1, BatchSize}]
    /\ got \in [Consumer -> SUBSET JobId]
    /\ rpc \in [Retrier -> {"idle", "retrying", "ended"}]
    /\ rage \in [Retrier -> 0..MaxLatency]
    /\ drawn \subseteq JobId
    /\ requeued \subseteq JobId
    /\ sinceTaken \in [JobId -> 0..Old]

\* No id is in the list twice, or in the list and the sorted set: no step of
\* dequeue.lua and retry.lua, in any order, makes one job into two.
OnePlace ==
    /\ Distinct(list)
    /\ Elements(list) \cap UnderWay = {}

\* A stored job waits in the list or is known to be under way, so that the
\* retry loop finds it, whoever failed with it and whatever reply was lost.
NoLoss == data \subseteq Elements(list) \cup UnderWay

\* An id without a job is left behind only by an acknowledgement that came
\* after the job was requeued: one in time removes every trace of it.
GhostsWereRequeued ==
    \A j \in Elements(list) \cup UnderWay : j \notin data => j \in requeued

\* The list, the sorted set and the hash of jobs agree on every job.
KeysAgree == OnePlace /\ NoLoss /\ GhostsWereRequeued

\* A job goes back to the list RetryAfter after it was taken, less the time a
\* command is under way.
RequeueSpacing ==
    [][\A j \in UnderWay : j \in Elements(list') =>
           sinceTaken[j] >= RetryAfter - MaxLatency]_vars

-----------------------------------------------------------------------------
(* The inductive invariant, proved in QueueProofs.                          *)

\* Only ids that were drawn occur; in particular those of a new job do not.
DrawnInv ==
    /\ Elements(list) \cup UnderWay \cup data \subseteq drawn
    /\ \A c \in Consumer : got[c] \subseteq drawn

\* A job that somebody was given is back in the list only by a requeue.
GotInv == \A c \in Consumer : got[c] \cap Elements(list) \subseteq requeued

\* The score is at most MaxLatency older than the taking.
AgeInv == \A j \in UnderWay : score[j] <= sinceTaken[j] + MaxLatency

IInv ==
    /\ TypeOK /\ OnePlace /\ NoLoss /\ GhostsWereRequeued
    /\ DrawnInv /\ GotInv /\ AgeInv

\* Every stored job is handed to a consumer again and again until it is
\* acknowledged, while there is a consumer and a retry loop.
EveryJobDelivered ==
    \A j \in JobId :
        j \in data ~> \/ j \notin data
                      \/ \E c \in Consumer : j \in got[c]
                      \/ \A c \in Consumer : pc[c] = "ended"
                      \/ \A r \in Retrier : rpc[r] = "ended"
=============================================================================
