# Verification of tstdl (common-ts)

TLA+ models of the parts of this monorepo (`base/`, `redis/`, `angular/`,
`client/`) whose correctness depends on the order in which several actors act:
locks, queues, loops, migrations, streams of values, repositories, the Redis
client, message buses, disposal, modules and shutdown; and of sequential code with
much to get wrong, the collections, their binary search and the enumerables. The models are translated
from the TypeScript and Lua sources; TLC checks them on small instances, TLAPS
proves the most important properties for every value of the constants.

Run, in this directory: `tlc -workers 2 -config MCRedisLock.cfg MCRedisLock`
(each `.cfg` is used with the MC module whose name it begins with, or with the
module of the component itself where there is no such: `Pipeline`; `MCMigration.cfg` and
`MCTurns.cfg` with `MCLocked`, `MCRedisQueue.cfg`, `MCMongoQueue.cfg` and
`MCMongoQueueLive.cfg` with `MCQueues`),
`tlapm RedisLockProofs.tla`. `PROJECT.json` lists the components, the runs, a
mutant of the code for every property (a change a programmer could make by
mistake, which the property must catch), the source lines of every definition,
the hazards, and the theorems.

## 1. Inventory

The library is a toolbox: almost everything is a class the application builds
and calls. Processes interact only through MongoDB and Redis; inside a process
everything is interleaved at `await`s of one thread.

| component | state | operations | what is hard | what makes it correct |
|---|---|---|---|---|
| redis lock (`redis/src/lock`, `redis/src/lua/lock-*.lua`) | key with owner and expiration; per call: expiration, stop token | acquire (with retries), refresh loop, release | leases run out, replies late or lost, commands repeated, crashes, clock skew | one valid holder; a holder is backed by Redis; nothing extends a released lock |
| mongo lock (`base/source/lock/mongo`) | document (resource, key, expiration); per call: expiration, token | acquire (polling upsert), refresh loop, release, using | takeover of an expired document, TTL index, refresh after release | one valid holder among those that inserted the document; release removes it |
| distributed loop (`base/source/distributed-loop`) | stop token, timer, the lock | run, stop | nodes racing for the lock, func that throws, stops itself | turns spaced; somebody runs; stop returns |
| mongo queue (`base/source/database/mongo/queue`) | jobs: tries, lastDequeueTimestamp, batch | enqueue(Many) with unique tags, dequeue(Many), acknowledge, cancel, consumers | timeouts and redelivery, batches marked and loaded in two commands, late acknowledgements | at least once; at most maxTries; hidden while processed |
| redis queue (`redis/src/queue`, `dequeue.lua`, `retry.lua`) | list of ids, sorted set of processing ids, hash of jobs | enqueue, dequeue, acknowledge, requeue of timed out jobs | requeue racing an acknowledgement | no job lost, ids and data agree |
| async disposer (`base/source/disposable`) | tasks, deferrers, tokens | add, defer, dispose | deferrers that overlap disposal, a second dispose, failing tasks | no task runs before the deferrers are done; all run; errors aggregated |
| promises (`base/source/promise`) | state of the promise | resolve, reject, reset, cancel | settling twice, reset while awaited | settled once per reset |
| cancellation token, timing, timer, backoff (`base/source/utils`) | flag, subject, timers | set, unset, reset, child tokens; timeouts that can be cancelled | cancel racing the timeout | woken exactly once |
| async iteration (`base/source/utils/async-iterable-helpers`, `*feedable-async-iterable.ts`, `parallel`) | buffers, flags, promises read and empty | feed, end, throw, iterate; forEach with a bounded concurrency | producer and consumer at different speed, errors, early exit | order, no loss, bounded concurrency, termination |
| collections (`base/source/collections`, `binary-search.ts`) | arrays, maps | sorted list and map, keyed set, awaitable and observable collections | boundaries of searches and ranges | sortedness, agreement with the reference |
| migrator (`base/source/migration`) | applied migrations | migrate | two processes at once, a crash in the middle | once, in order |
| modules with the web server, process shutdown (`base/source/module`, `http/server.ts`, `process-shutdown.ts`, `instance-provider.ts`) | state, tokens, connections | run, stop, connect, shutdown | start racing stop, failures while starting | stop ends what was started |
| mongo repositories (`base/source/database/mongo`) | collections | insert, load, update, replace, delete, bulk | several documents, one failing | number of documents, NotFound |
| redis streams (`redis/src/stream`) | stream, groups, pending entries | add, read, claim, ack | redelivery | no entry lost |
| message bus (`redis/src/message-bus`, `base/source/message-bus`) | subscriptions | publish, subscribe, dispose | unsubscribe racing a message | no message after unsubscribe |
| typed redis, pipeline wrapper (`redis/src`) | pending commands | commands, transactions | batching | replies go to their commands |
| moving metric, periodic reporter and sampler, provider function, factory map, singleton (`base/source/utils`) | samples, timers, caches | add, start, stop, get | stop racing a sample, failures cached | every item once |
| search index, object storage, key value store, elastic and mongo providers | external stores | CRUD | failures of the store | - |
| enumerables (`base/source/enumerable`, `base/source/utils/*iterable-helpers`) | generators suspended in a chain | a method per helper, sync and async | early exit, errors, closing the source | what the chain is defined to yield; source released |
| api, http client, serializer, object traversal, openid connect | routing tables, caches | pure conversions mostly | input handling | - |
| angular library | view state | pipes, services | - | - |

## 2. Plan

Order: what is shared by processes first (a wrong step there loses data for
others), then what is shared by tasks in a process, then sequential code.

1. `RedisLock`, `MongoLock`, with the abstract `LeaseLock` both implement. *(done)*
2. `DistributedLoop` over an abstract lock. *(done)*
3. `MongoQueue`, `RedisQueue`: jobs, batches, requeue. *(done)*
4. `AsyncDisposer`, and `FeedableAsyncIterable`, `Multiplex`, `ParallelFeed`,
   `BufferAsync`, composed by `Pipeline`. *(done)*
5. `Migrator`. *(done)*
6. `BinarySearch` and the sorted collections on top of it. *(done)*
7. Lifecycle of a process: `Modules`, `InstanceProvider`, `Periodic`,
   `ProcessShutdown`, beside `AsyncDisposer`. *(done)*
8. `TypedRedis` with the pipeline wrapper, `RedisStream`, `MessageBus`,
   `BroadcastBus`. *(done)*
9. Mongo repositories: `MongoDocument`, `MongoCollection`, `MongoBaseRepository`,
   `MongoEntityRepository`, against the abstract `EntityStore`. *(done)*
10. `ObservableCollections` (also the awaitable ones); `IterableHelpers` and
   `Enumerable`. *(done)*
11. Moving metric, api and http, serializer: as far as their state is worth a
   model; see section 6.

`MCLocked` and `MCQueues` hold two modules each and name a specification for either.
Three runs have several subjects: a behaviour of `MCDatabases`,
`MCCollections` or `MCLifecycle` picks one of the modules it instantiates in its
first state and is a behaviour of that module, while the variables of the others
stay as they are. A property of
such a run says of each subject what the module of the subject states.

Theorems: for each of 1-10, but for the chains of enumerables, there is an inductive invariant and
the safety properties from it, and for the locks the refinement of `LeaseLock`.
Next, in this order: an abstract "at least once" queue that both queues implement; `Backing` of
a lock composed with `DistributedLoop` and `Migrator`, instead of the abstract lock in them.

## 3. The models

Conventions. A call of an asynchronous function is a process whose `pc` names
the `await` it is at; the steps between two `await`s are one action, because
one thread runs them. A command to a server has three steps: sent, executed
(atomic in the server), answered; anything may happen between them. Clocks are
counted in ticks up to `MaxTime`. Fields that are not read any more are set back
to their initial value so that TLC sees fewer states; the comment says where.
Operators named as mutants are not part of the specifications.

### LeaseLock (abstract)

The set `holders` of calls that may believe to hold the lock and the set `gone`
of those that are through. A call is granted the lease when nobody holds it,
once; it may lose it, it may leave. Both locks implement this with
`holders <- {i : Valid(i)}`.

### RedisLock: `redis/src/lock/lock.ts`, `redis/src/lua/lock-*.lua`

State: the key (`owner`, `keyExpire`), the clock `now` of Redis, and per call
`pc`, the command in flight `net`, the expiration it carries `exp`, the
controller's `expire`, `timer`, `wake`, `stop`, and `second` for another
`release()` made while the first is under way. Actions: one per lua script
(`ExecAcquire`, `ExecRefresh`, `ExecRelease`), one per continuation of the
client (`Acquire`, `Acquired`, `NotAcquired`, `Retry`, `RefreshReply`,
`LoopWake`, `Release`, `SendRelease`, `ReleaseReply`, `ReleaseAgain`,
`ReleaseAgainReturns`), and the faults: `CommandFails` (before or after it was
executed), `Resend` by the client library, `Crash` (a request already sent is
still executed). The key is expired by `Tick`. `exists()`,
`getExpireTimestamp()` change nothing; `force` of `lock-release.lua` is
compared with a number but passed as a string and so never true; it is left out.

Checked: `HoldersAreBacked`, which is `MutualExclusion` (two valid controllers) and
`LeaseBacked` (a valid controller's key lives in Redis at least as long as it claims),
`NoExtensionAfterRelease`, `ImplementsLease`; under fairness `CallsReturn`, the
conjunction of `ReleaseCompletes`, `LaterReleaseReturns` and `AcquireReturns`.
`ReleasedIsFree` and `NoTheft` (no step takes a live key from its owner but its own
release) are proved only. "Valid" means the
clock of the client is before `expire`: with the code's own `lost` (`expire <
clock`) the exclusion fails in the very tick of the expiration, since
`PEXPIREAT` frees the key in it. Assumption: no client clock is behind that of
Redis (`SkewAssumption`); a client whose clock is ahead is safe, only impatient;
one that is behind believes longer in its lease than Redis does, and the
exclusion fails by as much.

Bounds (`redis_lock`, safety and liveness in one run): two calls, one with a
clock one tick ahead, duration 2, retry 1, acquire timeout 1, clock up to 3: a
lease runs out and is acquired and extended by the other while commands of the
first are in flight. `redis_lock_granted`, a violation, has duration 3, acquire
timeout 2 and a clock up to 5.
Fairness: Redis executes what reaches it, timers fire, the clock advances
(`WF`); a command is not resent for ever (`SF` of the replies). Nothing is
assumed of `Resend`, `CommandFails`, `Crash` or of calls.

### MongoLock: `base/source/lock/mongo`

State: the document (`docKey`, `docExp`), the clock, per call `pc`, `net`, the
time a command was built `sent`, `expiration`, `timer`, `stop`, the release
command `rel`, and the calls that took a document over, `takers`. The upsert
(`ExecAcquire`) inserts the document, extends it, takes it over, or is refused by
the unique index; `ExpireDoc` is the TTL index.

The takeover updates the expiration only (`mongo-lock-repository.ts:34`, `key`
is set `$setOnInsert`), so that the document keeps the key of the call that lost
it. Hence the code does *not* exclude two valid controllers: a taker is not
backed by its key, cannot refresh, and cannot delete the document; the old owner's
key still matches. What holds, and is checked: backing of the calls that
inserted the document (`InsertedBacked`), release deletes the document for good
even if a refresh is on its way (`ReleasedIsGone`; the two are `DocumentFollowsCall`),
a taker never extends its lease beyond the first (`TakerNeverExtends`),
`ImplementsLease`, and `TasksEnd` (`LoopEnds` after the
token is set, `AcquireGivesUp`). Proved only: exclusion among the calls that
inserted the document (`InsertedExclusion`), and that a document is deleted only
by its key (`DeletedByItsKey`).

Bounds: two calls, one that polls and one that tries once, expiration 2, refresh
1, clock up to 4, TTL one tick late. Fairness: the database executes and answers,
timers fire, the clock advances.

### DistributedLoop: `base/source/distributed-loop/distributed-loop.ts`

Nodes run the loop over one lock, which is a `holder` here that may be lost at
any time (`LeaseRunsOut`, what `MongoLock` and `RedisLock` allow). `Spacing`: if
the last turn was undisturbed (no throw, stop, crash, lost lease), the next run
of func starts at least `Interval - Accuracy / 2` after it. `IInv` is the
inductive invariant. `StopCompletes`: `stop()` returns, except for a node whose
func awaits `stop()` of its own loop: that waits for itself and keeps the lock.
`SomebodyRuns`: func is run again and again while a node is left, unless a node
is stuck in stopping itself. The two are the property `LoopsProgress`. Run: `MCTurns.cfg` of `MCLocked`.
Bounds: two nodes of which one may stop itself from func, interval 3, accuracy 2; the counters saturate at the interval, so the
clock needs no bound. Fairness: time,
timers, the lock's answer, func's return, and the lease of a dead node runs out.

### MongoQueue: `base/source/database/mongo/queue`

State: the jobs `stored` and their `tries`, `last` (lastDequeueTimestamp),
`batch`, `enqueued`; per consumer `pc`, the `now` of its filter `asked`, its
batch id `token`, the updates `rest` left of its bulk, and what it was given,
`got`. History: `markedAt`, `marker`, `delivered`, `dropped`, `used`. The bulk
of `dequeueMany` is one action per update, the load of the batch another;
`Fail` is a consumer that throws, dies, or loses the reply. `TakeNew` on an
existing job is the end of one job and the start of another, as the jobId is
replaced. `acknowledge` may come at any time, also after the job was delivered
to another consumer.

Checked, by `MCQueues`: `JobsAreKept` (`NoLoss`: at least once), `RedeliverySpacing`
(processTimeout less the latency of a dequeue), `RecipientMarkedLast` (a batch
loaded late is not given what another consumer took), `EveryJobTried`. Proved only:
`DeliveriesBounded` (at most maxTries times).
Bounds: two jobs of one tag, two consumers, processTimeout 2, latency 1, two
tries, batches of two, clock up to 2, one batch id: a job is marked late, is
marked again, and its first batch is loaded after that. The runs may stop: all
consumers ended and the clock at its bound. Fairness: the database answers now
and then (`SF`, as a consumer may fail again and again), backoffs end, a
consumer gets through with what it was given.

### RedisQueue: `redis/src/queue/queue.ts`, `dequeue.lua`, `retry.lua`

`list`, `score` and `data` are the three keys. A consumer's command takes its
time stamp when it is sent and is executed up to `MaxLatency` later; so does the
retry. Times are ages that stop counting at `Old`, so that no run needs a bound on
the clock. `Requeued` is the `zrangebyscore ... LIMIT`: the oldest of the due
ids, in some order among equals. Two retry loops may be on their turn at once, as
the lock of the loop may be lost. Checked, by `MCQueues`: `RequeueSpacing`, `EveryJobDelivered`, and
`KeysAgree`, the conjunction of `OnePlace` (no id twice in list and set), `NoLoss` and
`GhostsWereRequeued`: an acknowledgement after the requeue leaves an id without
a job, which is the only way to get one; batch consumers may get such ids as
`null`s. Two jobs, one consumer, one loop, batches of two, a requeue after 2
ticks, latency 1 (two consumers and two loops, 1.8 million states, are safe as
well). Fairness: `SF` for the replies, as any may be lost, for the jobs one by
one.

### AsyncDisposer: `base/source/disposable/async-disposer.ts`

One action per method and per `await` of `disposeAsync()`; deferrers and tasks come
and go at any time, as the loops go over live sets. `early` and `due` say which of
them disposal must heed: those that came before its loop was over.
Checked in the run `lifecycle`: `DisposalIsOrderly`, and `DisposalEnds` as a part of
`EverythingEnds`. The latter assumes that deferrers are yielded and tasks settle. What is not
promised: a second call returns before the disposal is done, and a deferrer taken
while the tasks run is not waited for. Two deferrers, three tasks, two calls,
two slots: a task may wait for a slot, and be added while the last one starts.
`StartedOnce` and `Bounded` are proved only.
`IInv` says that one call is active and owns all running tasks.

### The stream helpers and Pipeline

```
            +-> reader 1 --> bufferAsync --> consumer 1
input --> multiplex
            +-> reader 2 --> parallelMap/Filter/forEach --> consumer 2
```

Each helper is a module of its own; `Pipeline` instantiates them and joins what
one awaits from the other: the buffer's `for await` over reader 1 is the turn of
reader 1 in `Multiplex` (`BufferReads`), and so for the other (`ParallelReads`).
Each consumer may stop at any time. Only the composition is checked, since the
hazard is in it: whether helpers that wait for each other's events can all wait.

- `FeedableAsyncIterable` (`utils/feedable-async-iterable.ts`): the `buffer`,
  `closed`, and where the iterator's generator is suspended: `new`, `holding` an
  item it yielded, `waiting` for `closedToken.set$` or `buffer.add$`, `woken`, or
  ended. One action is a run of the generator from where it is resumed to where
  it is suspended. The hazard is the await of an event that is not replayed.
- `Multiplex` (`async-iterable-helpers/multiplex.ts`): one producer, `position`
  is the output whose buffer it drains. `SignalRead` is `$read`, emitted when the
  consumer asks *again*.
- `ParallelFeed` (`async-iterable-helpers/parallel/*.ts`,
  `ordered-feedable-async-iterable.ts`): `loop` is where `parallelForEach` is,
  `running` the items under way, `failing` those between `finally()` and
  `catch()`; `inBuffer` and `currentIndex` are of the ordered feedable.
- `BufferAsync` (`async-iterable-helpers/buffer.ts`): two generators that wait for
  events of one buffer, `end` set by the consumer's finally block.

Checked: `ConsumersAreServed`, which is `InOrder` (no item out of order, twice, or
skipped, on either way), `EndIsComplete` (a consumer told of the end, not of an
error, has seen all) and `NoMutualWait` (nobody awaits an event that has happened,
so that all wait); `BackPressure` (how far the input is read ahead of the slower
consumer); `ErrorReaches` for errors thrown by the input or pushed while the loop
goes on; and, under fairness, `AllEnd`. The last exempts a consumer whose neighbour
stopped early: nothing reads the neighbour's buffer then, and all others wait.
Three items, multiplex buffers of 1, a buffer of 1, two items at a time. With these sizes every buffer is full,
empty and in between, an item waits at each stage while another passes, and an
error comes before, between and after items. Fairness, for each thread by itself
(multiplexer, both sides of the buffer, loop, each run of it, the asking of the
parallel way): the input delivers or ends, who is woken runs, consumers ask or stop. Deadlock is not checked: an iteration
ends.

### Migrator: `base/source/migration/migrator.ts`

Nodes of different versions call `migrate()` at any time, also again. The lock is
abstract, one holder unless a lease runs out (`leaseLost`), which is what
`MongoLock` gives its callers; an update that was sent is executed before the
lease of its node runs out or not at all. One action per `await`: `Load`,
`Choose` (the suitable migration that leads farthest), `MigratorEnds`, `Save`,
with `UpToDate` and `NoPath` as ways out, `Fails` and `Crash` at every command,
executed or not; `RequestRestart` is `control.restart()`. A node that died between
the migrator and the command that stores the revision leaves the migration to be
run again, so that migrators must be repeatable; `completed` remembers what has
run since the revision changed.

Checked: `NoRegression` (what `migrate()` returned for on one node is never undone
by nodes of other versions), `SavedWasRun` (the revision moves only along
migrations that ran to their end without a restart) and, under fairness,
`MigrateEnds`. The first two exempt runs where a lease ran out under a migration:
the code ignores the controller that `using()` hands to it. Assumptions:
migrations go forward (`MigrationAssumption`), every node knows one.
Run: `MCMigration.cfg` of `MCLocked`. Bounds: an old node with the migrations init to 1 and 1 to 2, a new one that also
knows the short cut from init to 2 and a step from 1 or 2 to 3, so that both find
revisions the other left, and take different ways; two restarts; crashes and
failures without a bound. Fairness: commands are answered, migrators end,
`acquire()` gives up or succeeds. A node may stop for good: deadlock is not
checked.

### BinarySearch and SortedList: `base/source/utils/binary-search.ts`, `base/source/collections`

`BinarySearch` is the loop of `_binarySearchRawIndex()`, one action per pass
(`Iterate`, `LoopEnds`), for any, the first or the last entry that compares as
equal, and what the six exported searches make of where it ended. `SortedList`
uses it for `SortedArrayList`, `ObservableSortedArrayList` and `SortedMap`: a call
is a search or two and the splice that follows (`SearchEntry`, `Insert`;
`RemoveRangeByComparison`, `SearchRight`, `RemoveFoundRange`; ...), for each of
the values of `addMany()` and `removeMany()`. Entries that compare as equal are
told apart by `copy`. Calls that throw change nothing and are left out; `from()`
is as good as adding each of the values. Reading calls use the same searches.

Checked, in the run `collections`: `SearchesFind` (every search returns what its name says),
`RemovesExactly` (one identical entry, or all that compare as within the range,
and nothing else), `ReplicasAgree` (a subscriber that replays the events at their
indexes has the same list, the map and the list of a `SortedMap` have the same
entries; a part of `SubscribersAgree`) and `PassesShrink` (each pass of a search
leaves less to look at: so for the last entry only because the middle is rounded
up; rounded down it looks at two equal entries for ever). What the properties exempt is in section 5: `remove()` of the observable
list among equal entries, `removeRange()` of several entries and its events,
`set()` of a key that exists.

Bounds: three keys, two copies, four entries, calls with up to two values: a
target below, between, equal to and above the entries, equal entries at either
end and in the middle, ranges that are empty, inverted, or reach the ends. There is no
`await` in a call; that it ends is `PassesShrink`, so no fairness is needed. The run
checks no deadlock, as chains of enumerables end.

### Observable and awaitable collections: `base/source/collections/observable`, `.../awaitable`

`ObservableCollections` has all six as kinds of one collection, since they differ in
what a call tells and in which order. `frames` is the stack of calls that are
telling their observers: an observer may call the collection again (`nested`), and
those after it hear of the inner change first. Of the others, one keeps the last of
`length$` and one replays the changes into `copy`; an awaitable collection has a
waiter that reads and then awaits the next addition, for a set or map in two steps,
as the promise of those is asked for through another await.

Checked: `ObserversAgree` (the other part of `SubscribersAgree`): when the outermost
call has returned, the length that was told last is the length, however the calls
nested, and who replays has the collection if nobody called it meanwhile.
`WaiterHasReadAll`: who waits for an addition has missed none. Two values, at most
three of them, two at once, calls one within another.

### IterableHelpers and Enumerable: `base/source/utils/*iterable-helpers`, `base/source/enumerable`

`IterableHelpers` says of each helper what its loop does with one item (local
variables, what it yields, whether it leaves or throws). `Enumerable` is the machine
that runs a chain of them: generators that are asked, ask the one before them, hold
what they have yet to yield, are closed from behind when somebody leaves a loop
(`Close`), or fail (`Throw`). The asynchronous chains differ from the synchronous
ones where the code does (`AsyncItem`, `SyncItem`; `AsyncOnly`). `AsyncEnumerable.sort`
is the quick sort of `sort.ts` at its end.

Checked: `ChainsAreSound`, that is `ChainAgrees` (what came out so far is a prefix of
what the chain is defined to yield, by a reference that works on whole sequences, and
all of it at the end) and `SourceReleased` (an iterator that was read is exhausted,
failed or closed, whoever stopped it). Every method alone and every generator followed
by one of seventeen methods, sources of up to three items out of four: two that the
predicate accepts, one it refuses, which has the key of an accepted one (so that
predicates change their mind within a stream, and different items meet in one group), and
one that makes every function of the caller throw; counts from 0 to 2, a consumer that may
leave at any item. What must throw (`first()` without a match, `assert()` of a refused
item) is in the reference as a value that is never yielded, so that it must not end. `skip()` of an `AsyncEnumerable` (section 5) and
chains ended by `retry()` are exempt.

### Repositories of MongoDB: `base/source/database`

Four modules, from below: `MongoDocument` (entities to documents, queries to filters,
sort), `MongoCollection` (external: what a command does to documents and indexes),
`MongoBaseRepository` (one operator per method: the set of outcomes, documents and
reply), `MongoEntityRepository` (the transformers of the application, the start of a
process, the calls, and the bulks as they are built and executed). `EntityStore` is
abstract: a set of entities, and what each method of `EntityRepository` does to it.

- The start (`FindCollection`, `CreateCollection`, `ReadIndexes`, `DropIndex`,
  `CreateIndexes`) is one action per command, of two processes at once, over what an
  earlier version left: no index, the right one, another under its name, one under
  another name. `ReadyIsUnique`.
- A call with one command is one action. `CallsAsPromised` compares, in every state
  in which both have started and no bulk is on its way, what every method would answer for every query, option, patch and
  entity with what `EntityStore` says; the reading methods are only there. It also says
  which queries throw.
- `insertMany`, `insertManyIfNotExists`, `replaceMany` and `MongoBulk` are executed one
  operation at a time while the other client goes on. `BulkAccounted`: what is answered
  is what was done by this very call.

- `ReadyIsUnique` compares documents by the value of the unique field (a document
  without it counts as one with none, as in the index). Its inductive invariant needs
  `IndexAssumption`: no two indexes of one version, or left by one, share a name. A
  filter is converted to the depth the queries have (`ConvertQuery` applies
  `ConvertProperties` to itself twice, instead of recursion).

Bounds: two clients, identifiers 1 to 3, two entities that share no key, two patches of
which one runs into the unique index, one bulk of up to two operations at a time, begun
only when both have started (one may start while the other makes calls of one command). With
them an entity exists or not, is of the same process or the other, and breaks the
unique index or not, at each step of a bulk.

### TypedRedis and RedisPipelineWrapper: `redis/src/typed-redis.ts`, `redis/src/pipeline-wrapper.ts`

One key, of any type or missing, calls made at once (`last`) or collected in a pipeline
or transaction (`batch`, `promises`) and executed later, and another client whose calls
come between any two commands of a pipeline, and before those of a transaction; a string
expires at any time (`Expires`).

- A method is a command (`StringsAndHashes`, `SortedSetsAndLists`; another one with `reverse`
  and `asFloat`), its arguments and options as they are spelled (`Spelled`), and what is
  made of the reply (`Result`). Redis is external: `Server`, by the type of the command.
- `CallsAreKept` says of every method what it leaves under the key (`Leaves`) and what it
  gives (`Returns`), in terms of the fields, members, scores and ranks before and after,
  not of the commands. A sorted set is ordered by the number of members `Before` one;
  lists of members are compared rank by rank (`Lists`), so that `reverse`, `limit`, the
  ends of a range and equal scores count. Also: `throwIfNotFound` throws exactly if a field
  is missing; another type under the key, and a call that is not sent (`Sends`), throw
  and change nothing.
- Left out of it: what is given by the methods that are `Broken` (section 5; what they
  leave is compared all the same: a pop takes the right members, a reading method
  none), and what the methods of names (`ZRANGEBYLEX` and its like) answer and take
  when the members have different scores, which Redis does not define (`Open`).
- `RepliesFindPromises`: a collected command gets its own reply, and its result is that
  of the same call made at once. It has two parts besides: `AllSettled` (which promises
  are settled after `execute()`) and `Undisturbed` (nobody comes between the commands
  of a transaction).
- `CallsAssumption`: what is collected are methods of the class, and `reverse` and `asFloat`
  are options of methods that have them. `ArgumentsAssumption`: the calls at once have the
  arguments that the signatures ask for. The order of a sorted set (`Ranked`) is the
  sequence that its relation `Lower` determines, whatever Redis computes it with.

Bounds: batches of up to three of six commands; every method at once, with each of its
options, and with arguments that find, miss, and end at a boundary; two names, numbers 0
to 3 (two members of one score and of different scores, none, one or all in a range).

### RedisStream: `redis/src/stream/stream.ts`

A stream, one consumer group, two clients that add, read, acknowledge, delete, trim,
look for pending entries and claim them; `GrowLate` lets an entry be pending for
`minimumIdleTime`; `Crash` forgets what a client held. `Accounted`: every item is in the
stream, done with, or was refused, and every entry is unread, pending, or
acknowledged. `HeldByOne`: two clients work on one entry only after it was late, however
their lookups and claims cross. Two items, two ids (so that an id is refused, and one
entry is claimed while the other is read).

### MessageBus and BroadcastBus: `redis/src/message-bus`, `base/source/message-bus`

`MessageBus` has the commands and the replies of one connection as two queues, and per
channel the observable that is shared by its observers (`link` says which SUBSCRIBE it
waits for). Observers come and go at any time, also before the reply. `BroadcastBus` has
several buses, each with a stack of `publish()` calls, as observers that are told may
publish, leave, or dispose the bus. Both say, in `MessagesArrive`: nobody misses, doubles
or reorders messages while he observes; Redis is subscribed in the end to what is
observed and to nothing else; what is published is posted or rejected. Messages of `BroadcastBus` are compared by
their order in `posted` (`Before`, `InOrder`). `ChannelAssumption`: an observer observes one channel.
Bounds: two channels, three observers of which two share one, two messages each, two
SUBSCRIBEs; two broadcast buses with three messages (three buses with two are safe too).

The run `databases` has only safety: its calls are single commands. Deadlock is not
checked, since the bounded messages, ids and starts end.

### Modules: `base/source/module`, `base/source/http/server.ts`

`ModuleBase` per module: `state`, `token`, and `run`, where its `_run()` is; `Settle` is
the continuation of `run()` that puts the state back, `Return` that of a caller of
`stop()`. `runModules()` and `stopModules()` are the same with a set of modules. A
module's work may end or fail by itself. One module is `WebServerModule` with
`HttpServer.close()`: it closes, counts connections, waits, and destroys what is left
when the time is up. `tracks` is whether the server was started by `HttpServer.listen()`,
which alone notes the sockets; `WebServerModule` does not use it (section 5).
`StopIsKept`: when `stop()` resolves, the run it was called for is over; a later `run()`
does not take a `stop()` back, nor is it ended by an earlier one; no tracked connection
outlives `close()`. `StopsEnd`. Two modules, two callers, one connection, two runs each:
a module is run again while an earlier `stop()` has yet to return.
Fairness: promises wake who awaits them, timers fire, a module whose token is set
ends; nothing of clients, who may keep their connections.

### InstanceProvider: `base/source/instance-provider.ts`

The singleton's promise, the attempts of `connect()`, and the task that closes the
client, with callers before, during and after the disposal. `ClientIsKept`: who gets a
client gets a connected one, unless disposal had begun; an error comes after three
failed attempts and then for ever; a closed client is not open again, unless an attempt
was under way. `CallsEnd`. Three attempts, two callers. Fairness: an attempt ends, timers fire.

### Periodic: `base/source/utils/periodic-reporter.ts`, `.../periodic-sampler.ts`

Up to three loops of one reporter or sampler, as it is run, stopped and run again while
the last loop still waits. The reporter ignores zero and resets after a report.
`StopIsKept`: nothing is emitted after stop, unless a sampler was started before
its last loop had ended (two loops then); no count is lost, unless an observer
of the report counts. `StopsEnd`, unless the sampler is started again. Counts up to 2.
Fairness: each loop goes on, callers are woken.

### ProcessShutdown: `base/source/process-shutdown.ts`

Signals, requests, the timers of 20 s and 1 ms, and the work that may not end.
`ShutdownIsKept`, `ShutdownEnds`. Three signals: one that asks, one that forces, one more.
Fairness: timers fire.

The run `lifecycle` has these, and `AsyncDisposer`, as subjects: `StopIsKept` is what each
promises of a stop, `EverythingEnds` that each stop, disposal, request for a client and
shutdown comes to its end. Deadlock is not checked: all of them stop for good.

## 4. Proofs

Each `*Proofs` module proves `IInv` inductive: `Init => IInv`,
`IInv /\ [Next]_vars => IInv'`, one step per action, types first (`TypeStep`).
The safety properties follow from `IInv`, the action properties from `IInv` and
one step. The constants are arbitrary sets and numbers under the named
assumptions.

- `RedisLockProofs`. The properties alone are not inductive: a reply on its way
  must already be known to be good (`ReplyInv`: an "ok" in flight means the key
  is the call's until `exp`, or that this time has passed), an attempt that may
  still be executed must not carry more than the controller may later claim
  (`AttemptInv`), a release that is under way sees no refresh (`QuietInv`,
  `FreedInv`), and slots and phases agree (`SlotInv`, `TermInv`).
  Assumptions: `SkewAssumption`, positive duration.
- `MongoLockProofs`. `GrantInv`: a granted command in flight matches the
  document; `TraceInv`: which calls may have their key in it.
- `LockedProofs`, of the two things nodes do under a lock. `DistributedLoop`:
  `SpacingInv` relates the phase of the last runner to the ticks since its turn began;
  `Hold <= Interval` needs a lemma on `\div`. `Migrator`: `HolderInv`: who is inside
  holds the lock; `CurrentInv`: what was loaded is what is stored; `ChosenInv`: the
  migration that runs leads from it; `CompletedInv`: what is about to be stored has
  run; `ReturnInv`: who returned did so at the latest revision or beyond.
- `LifecycleProofs`, of everything that is stopped. `AsyncDisposer`: one call is active
  at a time and owns what runs (`IInv`); from it that deferrers come before tasks, tasks
  run once and no more than allowed at a time, that all due tasks have run when the active
  call returns, and failures are reported. `StopIsKept`, for any number of modules,
  sockets, runs, attempts, loops and signals, needs: of `Modules`, that a run which is
  over has put its state back and a `stop()` that returned was called for one of those
  (`RunInv`, `CallInv`), and that `HttpServer` is closed as far as its phase says
  (`ServerInv`); of `InstanceProvider`, how the attempts left, the connection and its
  promise agree (`TriesInv`, `ConnectionInv`); of `Periodic`, that what was counted is
  in the counter or reported (`CountInv`) and that one loop at most is not told to stop,
  unless two overlap (`LoopInv`, `QuietInv`); of `ProcessShutdown`, which request leads
  to which exit (`ExitInv`, `EndInv`).
- `QueueProofs`. `RedisQueue`: `DrawnInv`: every id anywhere was enqueued; `GotInv`: a
  job that somebody was given is back in the list only by a requeue; `AgeInv`: a score
  is at most `MaxLatency` older than the taking. Lemmas say what `RPUSH` of a
  batch and `LPOP` with a count do to a list without repetition. Assumption:
  finitely many ids (`JobsAssumption`). `MongoQueue`, an instance in `MCQueues`:
  `BatchInv`: while a batch is being marked its id belongs to one consumer, and a job
  that bears it has a mark not handed out yet; `LatencyInv`: a mark was made at most
  `MaxLatency` after the time it bears. Assumption: `MongoParameters`, those
  of `MongoQueue`.
- `PipelineProofs`, for any limits, sizes, concurrency, length of the input, and with and without
  `keepOrder`. The three properties speak of readers at the far ends; the invariant has to
  say what each helper keeps and what one knows of the next:
  - `FeedableAsyncIterable` (`StreamInv`): what a reader was given, then what is in the
    buffer, is what was fed (`IsFifo`); an error is the last thing fed; a reader awaits
    an event only with an empty, open buffer. Proved once of one output by lemmas on
    `IsStream`, and used for the multiplexer's outputs and for that of `parallelFeed`.
  - `Multiplex` (`FedInv`, `DrainInv`): every output was fed what was pulled but
    for the item being held; the output whose room is awaited has an item in its buffer
    and a reader that will look at it.
  - `BufferAsync` (`AheadInv`, `RoomInv`, `WakeInv`, `LateInv`): the buffer holds what was
    pulled and not yet given out; a producer waits only at a buffer that is not empty, a consumer only at
    an empty one, so not both; one item at most is read after the consumer's end.
  - `ParallelFeed` (`PlaceInv`, `OrderInv`, `LoopInv`): each item that was started is in
    exactly one place: running, dropped, failed, held for its turn, or fed, once; with
    `keepOrder` the items before `currentIndex` were fed in order. `Cardinality` of `running` is
    bounded with facts on finite sets; that the run of indexes `dispatch()` sends out has an
    end is a least counterexample.
  - `CouplingInv`: what the buffer and the parallel loop have pulled is what their readers
    were given, and they are through only when their readers are.
- `CollectionsProofs`, of the run `collections` but what a chain yields, for lists of any length
  over any integer keys, any values, calls within calls of any depth, and chains of any length.
  The inductive invariants are at the head of the module or of the part they belong to.
  - Searches. `LoopInv` of the search loop: what was cut off is smaller or larger than
    the target (`SmallerCutOff`, `LargerCutOff`), except that the search for the
    first or the last entry may keep an equal one as its bound, and if nothing is left, the last
    pass ended next to the cut (`NothingLeft`). `FoundLemma` derives what the searches return,
    `InsertLemma` and `TakenRange` that splices keep the order; `CallInv`: a
    search belongs to a call.
  - Removals and subscribers of the sorted collections (`SortedInv`). `RangeInv`: when the right
    end of a range is looked for, the left one is where the entries of the range begin, so
    that what is spliced out is the range (`RemovesExactly`). `EventsInv`: the events not read yet
    lead from the subscriber's list to the list, each at its index when its turn comes.
    `MapInv`: between the step that changes the map and the one that changes the
    list they differ by the entry of the call.
  - Observable and awaitable collections (`CollectionInv`). An observer may call the collection
    that is just telling it, so what it knows is compared with what the collection was when the call
    it is told of had ended: `LengthInv`, `OuterInv` and `CopyInv` say this of the calls that
    have not returned, each with what remains to be told; `WaiterInv`: what a waiter has
    read is all that was there unless the promise it awaits is resolved or missed.
    Assumption: `SizeAssumption`.
  - Chains (`ReleaseInv`), for `SourceReleased`. Whoever leaves a loop closes the stages before it
    as far as each is in its own loop, so the source is reached only if all of them
    are: `ReadInv` says so while a source that was read is open, for the stages up to the running
    one. The next stage has it from `WaitInv`: it waits in its loop for the one that
    yields. `ResultInv`: a function gives its result behind its loop, never from within
    it (`FunctionsYieldLast`, one case per function). `SourcesAreReleased` starts from
    `AnyChain`, any methods in any number, not from the chains of the run.
  - A behaviour of `MCCollections` is one of `SortedList`, of `ObservableCollections` or of
    `Enumerable`; `SortedAlone` carries the theorems of the first over.

- `DatabasesProofs`, of everything in the run `databases` but what the calls on a repository
  answer, for any number of processes, indexes, items, channels, observers, buses and
  messages and for batches and bulks of any length.
  - Repositories (`RepositoryInv`). That all are ready says nothing of who dropped what
    before; so: an index that is not wanted will be dropped by every process that has
    not finished its start (`UnwantedInv`), and a wanted one that is missing will be
    created by one of them (`MissingInv`), namely by the process that drops it in
    error, since it will also create what it drops by name (`PlanInv`). `Sound`: the
    documents differ as long as the unique index is there; each command of
    `MongoCollection` keeps it. `BulkAccounted` needs which operations of a bulk were
    tried (`TriedInv`: of an ordered bulk the first ones, of which only the last
    may have failed) and what a method of several entities has put into it
    (`MethodInv`). Assumption: `IndexAssumption`.
  - `TypedRedis` (`IInv`): each reply is the server's to the command in its place
    and to what it found (`BatchInv`), and a promise is settled only by the reply in its
    place (`PromisesInv`). A lemma by a least counterexample says that the recursive
    function `Answers` exists. `Wrapped` of a command answers as the command does, except `get`.
    Assumption: `CallsAssumption`.
  - The calls of `TypedRedis` (`KeptInv`): what is under the key between two calls is nothing or
    one type with numbers in it (`KeyOK`), and the last call did what `Direct` says of
    what it found. One lemma per method, or for a few alike, then compares the command it
    sends and what it makes of the reply with the promise (`Kept`, `EveryCallKept`): what
    reads leaves the key (`ReadersLeave`), what takes members away gives their number
    (`TakingKeeps`). That the commands of ranks and ranges
    agree with the number of members before one is `RankedMeans`: no two members have as
    many before them, so the sorted sequence exists and has every member, once
    (an injection between finite sets of one size); `OrderMeans` says it of either order, and
    `NamesMean` of names with one score. Assumption: `ArgumentsAssumption`,
    the arguments that the signatures ask for.
  - `RedisStream` (`IInv`): a client works on what is pending for itself, or it is known to
    be slow (`PendingInv`, `LateInv`); from it `HeldInv`, which is `HeldByOne`.
    `Accounted` is inductive with the types, once `GroupInv` says that no group has read nothing.
  - `MessageBus` (`IInv`): the SUBSCRIBE an observable waits for is the last command
    for its channel (`CommandInv`), a reply to it means that the channel is
    subscribed and nothing is under way that ends this (`ConnectedInv`), from that
    reply on messages come without a gap (`OrderInv`), and the next one for an
    observer is on its way or not published (`HeardInv`). `NumberInv` tells SUBSCRIBEs
    of one channel apart. Assumption: `ChannelAssumption`.
  - `BroadcastBus` (`IInv`): a message is in one place (`PlaceInv`), a publication that
    was interrupted has told its own observers (`ToldInv`), and what is on its way to a bus comes after what
    it has heard, in the order of the posts (`ArrivalInv`).

Only model-checked: liveness, which is out of this prover's reach; the finding of
`redis_lock_granted`. `ChainAgrees`, the other part of `ChainsAreSound`, says what
recursive definitions compute (helpers one over another, a sort), which is induction over
data, also out of reach. `CallsAsPromised` is bounded and could be proved, but has no proof: it
depends on which mappings, queries and entities fit together, which the constants of
the run say by their values and no assumption states, and compares sets of answers
that both sides count (`Find` by the orders of a sort, `MayBeAt` by cardinalities).

## 5. Observed defects

- `lock-acquire.lua` answers "acquired" for an expiration in the past
  (run `redis_lock_granted`).
- `mongo-lock-repository.ts:34`: a takeover keeps the old key (see MongoLock).
- `mongo-job.repository.ts:24,27,40`: with a unique tag and no job of the tag,
  nothing is inserted: `$setOnInsert` without `upsert`. `enqueue` throws
  NotFound, `enqueueMany` returns as if the jobs were enqueued.
- `database/mongo/queue/queue.ts:107,115`: `has` and `get` look up `_id`,
  while jobs are known by `jobId`.
- `distributed-loop.ts`: `await controller.stop()` inside func never returns.
- `redis/` was written for an older `base/`: its lock provider implements
  `acquire(timeout, func)`.
- `async-disposer.ts:83`: a second `disposeAsync()` returns before the disposal
  is done.
- `parallel/for-each.ts:18`: `finally()` deletes a run before `catch()` pushes its
  error, so that the error of the last run may come after the loop has ended.
- `ordered-feedable-async-iterable.ts:53`: with `parallelFilter` and `keepOrder`,
  what follows a dropped item never comes out.
- `multiplex.ts:35`: a reader that stops early stops all others.
- `buffer.ts:21,66`: `clear()` emits no `$remove`: when the consumer stops while the
  producer awaits room, the input is never closed.
- `migrator.ts:50`: the lock's controller is ignored, so that a node whose lease
  ran out goes on, and may turn the revision back.
- `sorted-map.ts:42`: `set()` of a key that exists leaves the old entry in the
  list; `removeAt()` of that entry then deletes the new one from the map.
- `sorted-map.ts:78`: `removeRange()` refuses every range that reaches the last
  entry.
- `observable-sorted-array-list.ts:120`: `remove()`, `removeMany()` look only at the one
  entry the binary search meets; among equal entries they may not find the value
  (`has()`, line 109, answers for any equal one).
- `observable-sorted-array-list.ts:79`: the events of `removeRange()` bear the
  indexes before the call, those of `addMany()` and `removeMany()` hold one after
  the other: a subscriber cannot tell which.
- `binary-search.ts:35`: the first index equal or larger of an empty list is 0, not
  undefined.

Iterables and collections:

- `async-iterable-helpers/skip.ts:5`: leaves the loop at the first item it should skip,
  so that any count above 0 yields nothing.
- `async-iterable-helpers/reduce.ts`: an accumulator that becomes undefined counts as missing.
- `AsyncEnumerable.multiplex()`: its default buffer size 0 is refused by `multiplexAsync`.
- observable collections: an observer that calls the collection makes those after it
  hear the inner change first; `ObservableSet.add()` tells values that were there already.
- awaitable sets and maps: the promise is registered one microtask late, so that an
  addition can be missed.
- `moving-metric.ts`: samples are kept if all of them are too old (`findIndex` gives
  -1); the maximum starts at the smallest positive number; the interpolation of
  quantiles is never reached.

Repositories:

- `query-converter.ts`: `$and`, `$or`, `$nor` always throw, so do `$in` and `$nin` on a
  mapped property; the transform of a mapped property is given the object with the
  comparison; `$neq` is no operator of MongoDB; sorting by `id` is not converted.
- `replaceByFilterOrInsert` is always rejected; `hasAll` is false if an id is given
  twice; an empty bulk's `execute()` throws and leaves it executed; `replaceMany` throws
  NotFound after it wrote the others; `drop()` loses the indexes.
- `mongo-base.repository.ts`, `initialize()`: two processes that start at once may drop,
  by its name, the index the other has just created, or fail because it is gone; of two
  that create the collection one fails, and its singleton keeps the rejection.

Redis client:

- `pipeline-wrapper.ts`: `execute()` stops at the first promise its command's callback
  has rejected, the rest never settle; `get` is wrapped as `set`.
- `typed-redis.ts`: the entries of sorted sets are parsed with a step of one, the
  scores taken for members; block pops swap member and score; cursors yield flat pairs
  and the option is not `PATTERN`; `zRangeByScore` always throws, without a limit before it
  sends anything; unions and intersections throw without weights and aggregate, and count
  one key too few with them; `discard()` is queued and never sent.
- `typed-redis.ts:333`: `zRangeByLex` with `reverse` sends `ZREVRANGEBYLEX` with the smaller name
  first, which is an empty range unless both are the same.
- `typed-redis.ts:145`: `set` without an expiration throws: both arguments of `conditional` are
  evaluated, and `undefined` has no `toString`.
- `typed-redis.ts:139`: `get` hands on a second argument, `undefined`, which the client library
  sends as an empty string and Redis refuses.
- `typed-redis.ts:190`: `hIncrease` with `asFloat` gives the string of `HINCRBYFLOAT`, not a number.
- `stream.ts`: `noAck: false` sends `NOACK`; a `read` without data throws; a claim
  that meets a deleted entry throws after claiming; `addMany` and
  `acknowledgeDeleteAdd` return undefined for an entry that was refused.
- `RedisMessageBus`: messages that come together with the reply to SUBSCRIBE are lost;
  the class lacks members of its base (`allMessage$`, `disposeAsync`).
- `message-bus.ts`: an observer that disposes the bus makes `publish()` reject although
  observers were told; a message published by an observer is posted before the outer.

Lifecycle:

- `web-server.module.ts`: each `run()` adds another request listener, so that after a
  second run requests are handled twice; it uses `server.listen` itself, so that
  connections are never tracked and outlive `close()`; an error of `listen` is unhandled.
- `module-base.ts`: a module that failed can neither be stopped nor run again;
  `stopModules()` rejects while other modules still stop.
- `periodic-reporter.ts`: a second `stop()` throws; what an observer counts during a
  report is lost. `periodic-sampler.ts`: started before its last loop has ended it
  has two loops, and `stop()` waits for the later one; a failing sample function leaves
  it marked as running.
- `instance-provider.ts`: `connect()` returns without a connection and without an error
  if the disposal has begun; an attempt under way at the close leaves the client open;
  a rejected promise stays in the singleton.

## 6. Not modelled

- The server side of MongoDB, Redis, S3 and Elasticsearch beyond what the callers see of
  their commands; the search index and the object storage only send requests.
- Api, http client and openid connect: a request is one pass from validation to
  response; what lives between requests is in a repository.
- Serializer, helpers, cryptography: pure conversions, which a test reaches better.
- Promises, tokens and timers: they are part of every model that awaits them; alone they
  are one guard each. `MovingMetric`: numbers over a window of time; read, see section 5.
- `KeyedSet`, `FactoryMap`, `ProviderFunctionIterable`: a Map, or a loop, without anything
  that interleaves.
- The angular library and the client: view code.

Statuses and reasons are in `PROJECT.json` as well.

