----------------------------- MODULE MongoQueue -----------------------------
(***************************************************************************)
(* base/source/database/mongo/queue/queue.ts: a collection of jobs shared  *)
(* by consumers.  A job is not taken out of the collection by dequeue():   *)
(* it is marked (tries, lastDequeueTimestamp, batch) and stays hidden for  *)
(* ProcessTimeout; acknowledge() deletes it by its jobId.  A job that is   *)
(* not acknowledged is delivered again, MaxTries times in all.             *)
(*                                                                         *)
(* Documents are named by their jobId.  TakeNew gives the document of its  *)
(* tag a new jobId and fresh fields, which is the deletion of the one job  *)
(* and the insertion of the other.  The unique tag strategies update with- *)
(* out upsert: with no job of the tag KeepOld and TakeNew insert nothing,  *)
(* and with one KeepOld changes nothing, so neither needs an action.       *)
(***************************************************************************)
EXTENDS Integers, FiniteSets

CONSTANTS
    JobId,                     \* the jobIds enqueue() will draw
    Consumer,                  \* the processes that dequeue
    Batch,                     \* the batch ids dequeueMany() will draw
    NoBatch,                   \* batch: null
    Tag,                       \* the tag of each job
    Priority,                  \* the priority of each job, least first
    ProcessTimeout,            \* processTimeout, in ticks
    MaxTries,                  \* maxTries
    BatchSize,                 \* the argument of dequeueMany()
    MaxLatency,                \* bound on the time a dequeue is under way
    MaxTime                    \* bound on the clock

VARIABLES
    now,                       \* the clock the processes share
    stored,                    \* the jobs in the collection
    tries, last, batch,        \* tries, lastDequeueTimestamp, batch of a job
    enqueued,                  \* enqueueTimestamp of a job, Never before that
    pc,                        \* where the consumer is
    asked,                     \* `now` in the filter of its dequeue
    token, rest,               \* its batch id, the updates its bulk has left
    got,                       \* the jobs it was given and has not acknowledged
    used,                      \* the batch ids drawn
    markedAt, marker,          \* when, and by which consumer (none: {}), a job
                               \* was marked last
    delivered,                 \* how often a job was returned to a consumer
    dropped                    \* the jobs cancelled or superseded

jobVars == <<stored, tries, last, batch, enqueued>>
consumerVars == <<pc, asked, token, rest, got>>
history == <<used, markedAt, marker, delivered, dropped>>
vars == <<now, jobVars, consumerVars, history>>

\* lastDequeueTimestamp: 0 is long before any time the queue is used at.
Never == 0 - ProcessTimeout

Init ==
    /\ now = 0
    /\ stored = {}
    /\ tries = [j \in JobId |-> 0]
    /\ last = [j \in JobId |-> Never]
    /\ batch = [j \in JobId |-> NoBatch]
    /\ enqueued = [j \in JobId |-> Never]
    /\ pc = [c \in Consumer |-> "idle"]
    /\ asked = [c \in Consumer |-> 0]
    /\ token = [c \in Consumer |-> NoBatch]
    /\ rest = [c \in Consumer |-> 0]
    /\ got = [c \in Consumer |-> {}]
    /\ markedAt = [j \in JobId |-> Never]
    /\ used = {}
    /\ marker = [j \in JobId |-> {}]
    /\ delivered = [j \in JobId |-> 0]
    /\ dropped = {}

-----------------------------------------------------------------------------
(* enqueue(), cancel() and cancelByTag().                                   *)

Drawn(j) == enqueued[j] # Never

Enqueue(j) ==
    /\ ~Drawn(j)
    /\ stored' = stored \cup {j}
    /\ enqueued' = [enqueued EXCEPT ![j] = now]
    /\ UNCHANGED <<now, tries, last, batch, consumerVars, history>>

\* Mutant: the replaced document keeps its tries.
TakeNewKeepsTries(old, new) ==
    /\ old \in stored /\ ~Drawn(new) /\ Tag[old] = Tag[new]
    /\ stored' = (stored \ {old}) \cup {new}
    /\ enqueued' = [enqueued EXCEPT ![new] = now]
    /\ tries' = [tries EXCEPT ![new] = tries[old]]
    /\ dropped' = dropped \cup {old}
    /\ UNCHANGED <<now, last, batch, consumerVars, used, markedAt, marker,
                   delivered>>

\* UniqueTagStrategy.TakeNew replaces a job of the tag, which may be under
\* way: the new job has no tries and is visible at once.
TakeNew(old, new) ==
    /\ old \in stored /\ ~Drawn(new) /\ Tag[old] = Tag[new]
    /\ stored' = (stored \ {old}) \cup {new}
    /\ enqueued' = [enqueued EXCEPT ![new] = now]
    /\ dropped' = dropped \cup {old}
    /\ UNCHANGED <<now, tries, last, batch, consumerVars, used, markedAt,
                   marker, delivered>>

Drop(jobs) ==
    /\ jobs # {}
    /\ stored' = stored \ jobs
    /\ dropped' = dropped \cup jobs
    /\ UNCHANGED <<now, tries, last, batch, enqueued, consumerVars, used,
                   markedAt, marker, delivered>>

Cancel(j) == Drop(stored \cap {j})
CancelByTag(tag) == Drop({j \in stored : Tag[j] = tag})

-----------------------------------------------------------------------------
(* getDequeueFindParameters.                                                *)


Visible(c) == {j \in stored : /\ tries[j] < MaxTries
                              /\ last[j] <= asked[c] - ProcessTimeout}

\* Mutant: the job is not hidden.
MarkUnhidden(c, j, b) ==
    /\ tries' = [tries EXCEPT ![j] = tries[j] + 1]
    /\ batch' = [batch EXCEPT ![j] = b]
    /\ markedAt' = [markedAt EXCEPT ![j] = now]
    /\ marker' = [marker EXCEPT ![j] = {c}]
    /\ UNCHANGED last

\* Mutant: dequeue() does not reset the batch.
MarkKeepsBatch(c, j, b) ==
    /\ tries' = [tries EXCEPT ![j] = tries[j] + 1]
    /\ last' = [last EXCEPT ![j] = asked[c]]
    /\ batch' = [batch EXCEPT ![j] = IF b = NoBatch THEN batch[j] ELSE b]
    /\ markedAt' = [markedAt EXCEPT ![j] = now]
    /\ marker' = [marker EXCEPT ![j] = {c}]

\* The update, for consumer c and the batch id b.
Mark(c, j, b) ==
    /\ tries' = [tries EXCEPT ![j] = tries[j] + 1]
    /\ last' = [last EXCEPT ![j] = asked[c]]
    /\ batch' = [batch EXCEPT ![j] = b]
    /\ markedAt' = [markedAt EXCEPT ![j] = now]
    /\ marker' = [marker EXCEPT ![j] = {c}]

\* The sort of dequeue(): every key ascending.
SortedBefore(i, j) ==
    \/ Priority[i] < Priority[j]
    \/ /\ Priority[i] = Priority[j]
       /\ \/ enqueued[i] < enqueued[j]
          \/ /\ enqueued[i] = enqueued[j]
             /\ \/ last[i] < last[j]
                \/ last[i] = last[j] /\ tries[i] < tries[j]

First(jobs) == {j \in jobs : \A i \in jobs : ~SortedBefore(i, j)}

Give(c, jobs) ==
    /\ got' = [got EXCEPT ![c] = jobs]
    /\ delivered' = [j \in JobId |-> delivered[j] + IF j \in jobs THEN 1 ELSE 0]

-----------------------------------------------------------------------------
(* dequeue(), and the consumer made of it.                                  *)

Dequeue(c) ==
    /\ pc[c] = "idle"
    /\ pc' = [pc EXCEPT ![c] = "dequeuing"]
    /\ asked' = [asked EXCEPT ![c] = now]
    /\ UNCHANGED <<now, jobVars, token, rest, got, history>>

\* findOneAndUpdate, and the job it returns.
Found(c) ==
    /\ pc[c] = "dequeuing"
    /\ \E j \in First(Visible(c)) : Mark(c, j, NoBatch) /\ Give(c, {j})
    /\ pc' = [pc EXCEPT ![c] = "processing"]
    /\ asked' = [asked EXCEPT ![c] = 0]
    /\ UNCHANGED <<now, stored, enqueued, token, rest, used, dropped>>

NotFound(c) ==
    /\ pc[c] = "dequeuing"
    /\ Visible(c) = {}
    /\ pc' = [pc EXCEPT ![c] = "backoff"]
    /\ asked' = [asked EXCEPT ![c] = 0]
    /\ UNCHANGED <<now, jobVars, token, rest, got, history>>

-----------------------------------------------------------------------------
(* dequeueMany(): a bulk of BatchSize single updates with one filter, then  *)
(* the jobs that still have the batch id.                                   *)

DequeueMany(c, b) ==
    /\ pc[c] = "idle"
    /\ b \notin used
    /\ pc' = [pc EXCEPT ![c] = "marking"]
    /\ asked' = [asked EXCEPT ![c] = now]
    /\ token' = [token EXCEPT ![c] = b]
    /\ rest' = [rest EXCEPT ![c] = BatchSize]
    /\ used' = used \cup {b}
    /\ UNCHANGED <<now, jobVars, got, markedAt, marker, delivered, dropped>>

\* One update of the bulk: of any visible job, or of none if there is none.
MarkOne(c) ==
    /\ pc[c] = "marking" /\ rest[c] > 0
    /\ rest' = [rest EXCEPT ![c] = rest[c] - 1]
    /\ \/ \E j \in Visible(c) : Mark(c, j, token[c])
       \/ Visible(c) = {} /\ UNCHANGED <<tries, last, batch, markedAt, marker>>
    /\ UNCHANGED <<now, stored, enqueued, pc, asked, token, got, used,
                   delivered, dropped>>

LoadBatch(c) ==
    /\ pc[c] = "marking" /\ rest[c] = 0
    /\ LET jobs == {j \in stored : batch[j] = token[c]} IN
          /\ Give(c, jobs)
          /\ pc' = [pc EXCEPT ![c] = IF jobs = {} THEN "backoff" ELSE "processing"]
    /\ asked' = [asked EXCEPT ![c] = 0]
    /\ token' = [token EXCEPT ![c] = NoBatch]
    /\ UNCHANGED <<now, jobVars, rest, used, markedAt, marker, dropped>>

-----------------------------------------------------------------------------
(* acknowledge(), acknowledgeMany(), and the consumers' loop.               *)

\* Mutant: the delete matches by tag.
AcknowledgeByTag(c, jobs) ==
    /\ pc[c] = "processing"
    /\ jobs # {} /\ jobs \subseteq got[c]
    /\ stored' = {j \in stored : \A k \in jobs : Tag[j] # Tag[k]}
    /\ got' = [got EXCEPT ![c] = got[c] \ jobs]
    /\ pc' = [pc EXCEPT ![c] = IF got[c] = jobs THEN "idle" ELSE "processing"]
    /\ UNCHANGED <<now, tries, last, batch, enqueued, asked, token, rest, history>>

\* The delete matches by jobId, however late it comes.
Acknowledge(c, jobs) ==
    /\ pc[c] = "processing"
    /\ jobs # {} /\ jobs \subseteq got[c]
    /\ stored' = stored \ jobs
    /\ got' = [got EXCEPT ![c] = got[c] \ jobs]
    /\ pc' = [pc EXCEPT ![c] = IF got[c] = jobs THEN "idle" ELSE "processing"]
    /\ UNCHANGED <<now, tries, last, batch, enqueued, asked, token, rest, history>>

\* The backoff is over.
PollAgain(c) ==
    /\ pc[c] = "backoff"
    /\ pc' = [pc EXCEPT ![c] = "idle"]
    /\ UNCHANGED <<now, jobVars, asked, token, rest, got, history>>

\* The cancellation token ends the generator.
Stop(c) ==
    /\ pc[c] \in {"idle", "backoff"}
    /\ pc' = [pc EXCEPT ![c] = "ended"]
    /\ UNCHANGED <<now, jobVars, asked, token, rest, got, history>>

\* The consumer throws or its process dies and starts again: whatever it had
\* marked or was processing is left to the timeout.
Fail(c) ==
    /\ pc[c] \in {"dequeuing", "marking", "processing"}
    /\ pc' = [pc EXCEPT ![c] = "idle"]
    /\ asked' = [asked EXCEPT ![c] = 0]
    /\ token' = [token EXCEPT ![c] = NoBatch]
    /\ rest' = [rest EXCEPT ![c] = 0]
    /\ got' = [got EXCEPT ![c] = {}]
    /\ \/ UNCHANGED <<tries, last, batch, markedAt, marker>>
       \/ /\ pc[c] = "dequeuing"     \* the reply was lost, the update was not
          /\ \E j \in First(Visible(c)) : Mark(c, j, NoBatch)
    /\ UNCHANGED <<now, stored, enqueued, used, delivered, dropped>>

UnderWay(c) == pc[c] = "dequeuing" \/ (pc[c] = "marking" /\ rest[c] > 0)

Tick ==
    /\ now < MaxTime
    /\ \A c \in Consumer : UnderWay(c) => now < asked[c] + MaxLatency
    /\ now' = now + 1
    /\ UNCHANGED <<jobVars, consumerVars, history>>

-----------------------------------------------------------------------------
Consume(c) ==
    \/ Dequeue(c) \/ Found(c) \/ NotFound(c) \/ PollAgain(c)
    \/ MarkOne(c) \/ LoadBatch(c)

Next ==
    \/ \E j \in JobId : Enqueue(j) \/ Cancel(j) \/ CancelByTag(Tag[j])
    \/ \E old, new \in JobId : TakeNew(old, new)
    \/ \E c \in Consumer :
          \/ Consume(c) \/ Stop(c) \/ Fail(c)
          \/ \E b \in Batch : DequeueMany(c, b)
          \/ \E jobs \in SUBSET got[c] : Acknowledge(c, jobs)
    \/ Tick

Spec == Init /\ [][Next]_vars

\* The database answers now and then, the backoff ends, a consumer polls again
\* and gets through with the jobs it was given.
Fairness ==
    \A c \in Consumer :
        /\ WF_vars(Consume(c))
        /\ SF_vars(Found(c) \/ NotFound(c))
        /\ SF_vars(MarkOne(c))
        /\ WF_vars(\E jobs \in SUBSET got[c] : Acknowledge(c, jobs))

FairSpec == Spec /\ Fairness

-----------------------------------------------------------------------------
\* The type invariant.
TypeOK ==
    /\ now \in 0..MaxTime
    /\ stored \subseteq JobId
    /\ tries \in [JobId -> 0..MaxTries]
    /\ last \in [JobId -> Never..MaxTime]
    /\ batch \in [JobId -> Batch \cup {NoBatch}]
    /\ enqueued \in [JobId -> {Never} \cup 0..MaxTime]
    /\ pc \in [Consumer -> {"idle", "dequeuing", "marking", "processing",
                            "backoff", "ended"}]
    /\ asked \in [Consumer -> 0..MaxTime]
    /\ token \in [Consumer -> Batch \cup {NoBatch}]
    /\ rest \in [Consumer -> 0..BatchSize]
    /\ got \in [Consumer -> SUBSET JobId]
    /\ used \subseteq Batch
    /\ markedAt \in [JobId -> {Never} \cup 0..MaxTime]
    /\ marker \in [JobId -> SUBSET Consumer]
    /\ delivered \in [JobId -> Nat]
    /\ dropped \subseteq JobId

\* However marks, loads, failures and late acknowledgements interleave, a job
\* is returned to consumers MaxTries times at most, and never more often than
\* it was marked: no mark is handed out twice (maxTries of queue.ts).
DeliveriesBounded ==
    \A j \in JobId : delivered[j] <= tries[j] /\ tries[j] <= MaxTries

\* At least once: a job that was enqueued is in the collection until it has
\* been returned to some consumer, unless it was cancelled or superseded; a
\* late acknowledgement of one job never deletes another.
NoLoss ==
    \A j \in JobId : Drawn(j) => \/ j \in stored
                                 \/ delivered[j] > 0
                                 \/ j \in dropped

\* Two marks of one job are ProcessTimeout apart, less the time a dequeue is
\* under way: its `now` is read before the database updates the job, so a slow
\* dequeue shortens the time the job is hidden.
RedeliverySpacing ==
    [][\A j \in JobId : tries'[j] > tries[j] /\ markedAt[j] # Never =>
           markedAt'[j] >= markedAt[j] + ProcessTimeout - MaxLatency]_vars

\* A job is returned only to the consumer that marked it last: a batch that is
\* loaded late is not given what another consumer has taken since.
RecipientMarkedLast ==
    [][\A c \in Consumer : \A j \in got'[c] \ got[c] : marker'[j] = {c}]_vars

\* What the proofs need beside the properties: while a batch is being marked
\* its id is this consumer's alone, and a job that bears it was marked by this
\* consumer last and has a mark that was not handed out yet.
BatchInv ==
    /\ \A c \in Consumer : pc[c] = "marking" => token[c] \in used
    /\ \A c, d \in Consumer :
           pc[c] = "marking" /\ pc[d] = "marking" /\ token[c] = token[d] => c = d
    /\ \A j \in JobId : batch[j] \in used \cup {NoBatch}
    /\ \A c \in Consumer, j \in JobId :
           pc[c] = "marking" /\ batch[j] = token[c]
               => delivered[j] < tries[j] /\ marker[j] = {c}

\* A dequeue is under way MaxLatency at most, so that a job's mark was made
\* MaxLatency after the time it bears at the latest.
LatencyInv ==
    /\ \A c \in Consumer : asked[c] <= now
    /\ \A c \in Consumer : UnderWay(c) => now <= asked[c] + MaxLatency
    /\ \A j \in JobId : markedAt[j] # Never => markedAt[j] <= last[j] + MaxLatency

ReceivedInv == \A c \in Consumer : \A j \in got[c] : delivered[j] > 0

\* The inductive invariant.
IInv ==
    TypeOK /\ BatchInv /\ LatencyInv /\ ReceivedInv /\ DeliveriesBounded /\ NoLoss

\* A job nobody has dequeued is dequeued, or cancelled or superseded, unless
\* all consumers are stopped; also the job that superseded one out of tries.
EveryJobTried ==
    \A j \in JobId :
        (j \in stored /\ markedAt[j] = Never) ~>
            \/ j \notin stored \/ markedAt[j] # Never
            \/ \A c \in Consumer : pc[c] = "ended"
=============================================================================
