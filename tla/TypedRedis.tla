------------------------------ MODULE TypedRedis ------------------------------
(***************************************************************************)
(* TypedRedis and RedisPipelineWrapper of redis: calls on a key of Redis,  *)
(* made at once or collected in a pipeline or a transaction that is        *)
(* executed later, while another client uses the same key.                 *)
(*                                                                         *)
(* Names of fields and members, and numbers, are integers of two disjoint  *)
(* ranges; a reply is a sequence of them.  A call has its name, its        *)
(* positional arguments (those of a limit last) and the options that are   *)
(* set.                                                                    *)
(***************************************************************************)
EXTENDS Integers, Sequences, FiniteSets, SequencesExt, Functions

CONSTANTS
    Name, Amount,               \* two sets of integers
    Calls,                      \* the calls that are made at once
    BatchCalls,                 \* and those that are collected
    MaxBatch                    \* bound on the number of these

VARIABLES
    db,                         \* what is under the key
    mode, batch,                \* the pipeline or transaction and its commands
    promises,                   \* of the commands
    replies,                    \* of the commands that have run
    found,                      \* history: what each of them found under the key
    phase,                      \* where execute() is
    last                        \* history: the last call at once before the batch

batchVars == <<mode, batch, promises, replies, found, phase>>
vars == <<db, batchVars, last>>

Nil == 0 - 1
OK == 0 - 2
NaN == 0 - 3
Undefined == 0 - 4
Fragment == 0 - 5              \* a character or two of a string

\* The number v as Redis answers it to HINCRBYFLOAT, which nobody parses.
Text(v) == 0 - 10 - v

parseFloat(v) == IF v \in Amount THEN v ELSE NaN

Nothing == [type |-> "none", map |-> <<>>]
Stored(type, f) == IF DOMAIN f = {} THEN Nothing ELSE [type |-> type, map |-> f]

-----------------------------------------------------------------------------
(* Redis.                                                                   *)

Answer(d, r) == [after |-> d, reply |-> r, ok |-> TRUE]
Fails(d) == [after |-> d, reply |-> <<>>, ok |-> FALSE]

Put(f, n, v) == [m \in DOMAIN f \cup {n} |-> IF m = n THEN v ELSE f[m]]
Without(f, S) == [m \in DOMAIN f \ S |-> f[m]]
ValueOf(f, n) == IF n \in DOMAIN f THEN f[n] ELSE Nil
Bit(b) == IF b THEN 1 ELSE 0

\* The members by score, those of one score by name.
Lower(f, m, n) == f[m] < f[n] \/ (f[m] = f[n] /\ m < n)
Ranked(f) ==
    CHOOSE s \in [1..Cardinality(DOMAIN f) -> DOMAIN f] :
        \A i, j \in DOMAIN s : i < j => Lower(f, s[i], s[j])
InOrder(cmd, f) ==
    IF cmd \in {"zrevrange", "zrevrank", "zpopmax", "bzpopmax", "zrevrangebylex"}
    THEN Reverse(Ranked(f)) ELSE Ranked(f)
\* To be ranked by their names.
Names(S) == [m \in S |-> 0]
Part(s, i, j) == SubSeq(s, i + 1, IF j + 1 < Len(s) THEN j + 1 ELSE Len(s))
Flat(f, s) ==
    [i \in 1..(2 * Len(s)) |-> IF i % 2 = 1 THEN s[(i + 1) \div 2] ELSE f[s[i \div 2]]]

TypeOf(cmd) ==
    CASE cmd \in {"get"} -> "string"
      [] cmd \in {"hexists", "hget", "hset", "hdel", "hgetall", "hincrby", "hincrbyfloat",
                  "hkeys", "hvals", "hlen", "hmget", "hmset", "hscan"} -> "hash"
      [] cmd \in {"rpush", "lpush"} -> "list"
      [] OTHER -> "zset"

Deletes(d, S) == Answer(Stored(d.type, Without(d.map, S)), <<Cardinality(S \cap DOMAIN d.map)>>)

HashCommand(d, c) ==
    LET f == d.map
        a == c.args
        Sets(g) == Stored("hash", g)
        sum == a[2] + (IF a[1] \in DOMAIN f THEN f[a[1]] ELSE 0)
        fields == Ranked(Names(DOMAIN f))
    IN  CASE c.cmd = "hexists" -> Answer(d, <<Bit(a[1] \in DOMAIN f)>>)
          [] c.cmd = "hget"    -> Answer(d, <<ValueOf(f, a[1])>>)
          [] c.cmd = "hset"    -> Answer(Sets(Put(f, a[1], a[2])), <<Bit(a[1] \notin DOMAIN f)>>)
          [] c.cmd = "hmset"   -> Answer(Sets(Put(Put(f, a[1], a[2]), a[3], a[4])), <<OK>>)
          [] c.cmd = "hincrby" -> Answer(Sets(Put(f, a[1], sum)), <<sum>>)
          [] c.cmd = "hincrbyfloat" -> Answer(Sets(Put(f, a[1], sum)), <<Text(sum)>>)
          [] c.cmd = "hdel"    -> Deletes(d, Range(a))
          [] c.cmd = "hkeys"   -> Answer(d, fields)
          [] c.cmd = "hvals"   -> Answer(d, [i \in DOMAIN fields |-> f[fields[i]]])
          [] c.cmd = "hlen"    -> Answer(d, <<Cardinality(DOMAIN f)>>)
          [] c.cmd = "hmget"   -> Answer(d, [i \in DOMAIN a |-> ValueOf(f, a[i])])
          [] c.cmd = "hscan" /\ "PATTERN" \in c.opts -> Fails(d)
          [] c.cmd = "hgetall" \/ (c.cmd = "hscan" /\ "PATTERN" \notin c.opts) ->
                Answer(d, Flat(f, fields))

AddScore(d, c) ==
    LET member == c.args[2]
        there == member \in DOMAIN d.map
        blocked == ("XX" \in c.opts /\ ~there) \/ ("NX" \in c.opts /\ there)
        score == IF "INCR" \in c.opts /\ there THEN d.map[member] + c.args[1] ELSE c.args[1]
        changed == ~there \/ d.map[member] # score
    IN  IF blocked THEN Answer(d, <<IF "INCR" \in c.opts THEN Nil ELSE 0>>)
        ELSE Answer(Stored("zset", Put(d.map, member, score)),
                    <<IF "INCR" \in c.opts THEN score
                      ELSE Bit(IF "CH" \in c.opts THEN changed ELSE ~there)>>)

SortedSetCommand(d, c) ==
    LET f == d.map
        a == c.args
        ranked == InOrder(c.cmd, f)
        slice == Part(ranked, a[1], a[2])
        popped == Part(ranked, 0, a[1] - 1)
        between == IF c.cmd = "zrevrangebylex" THEN a[2]..a[1] ELSE a[1]..a[2]
        scored == {m \in DOMAIN f : f[m] \in between}
        named == {m \in DOMAIN f : m \in between}
        listed == InOrder(c.cmd, Names(named))
    IN  CASE c.cmd = "zadd"    -> AddScore(d, c)
          [] c.cmd = "zincrby" -> AddScore(d, [c EXCEPT !.opts = {"INCR"}])
          [] c.cmd = "zcard"   -> Answer(d, <<Cardinality(DOMAIN f)>>)
          [] c.cmd = "zcount"  -> Answer(d, <<Cardinality(scored)>>)
          [] c.cmd = "zlexcount" -> Answer(d, <<Cardinality(named)>>)
          [] c.cmd \in {"zpopmin", "zpopmax"} ->
                Answer(Stored("zset", Without(f, Range(popped))), Flat(f, popped))
          [] c.cmd \in {"bzpopmin", "bzpopmax"} ->
                IF ranked = <<>> THEN Answer(d, <<Nil>>)
                ELSE Answer(Stored("zset", Without(f, {ranked[1]})),
                            <<Fragment, ranked[1], f[ranked[1]]>>)
          [] c.cmd \in {"zrange", "zrevrange"} ->
                Answer(d, IF "WITHSCORES" \in c.opts THEN Flat(f, slice) ELSE slice)
          [] c.cmd \in {"zrangebylex", "zrevrangebylex"} ->
                Answer(d, IF "LIMIT" \in c.opts THEN Part(listed, a[3], a[3] + a[4] - 1) ELSE listed)
          \* Of its reply nothing is used.
          [] c.cmd \in {"zrangebyscore", "zrevrangebyscore"} -> Answer(d, <<>>)
          [] c.cmd \in {"zrank", "zrevrank"} ->
                Answer(d, <<IF a[1] \in DOMAIN f
                            THEN (CHOOSE i \in DOMAIN ranked : ranked[i] = a[1]) - 1 ELSE Nil>>)
          [] c.cmd = "zrem"    -> Deletes(d, Range(a))
          [] c.cmd = "zremrangebylex"   -> Deletes(d, named)
          [] c.cmd = "zremrangebyrank"  -> Deletes(d, Range(slice))
          [] c.cmd = "zremrangebyscore" -> Deletes(d, scored)
          [] c.cmd = "zscore"  -> Answer(d, <<ValueOf(f, a[1])>>)
          [] c.cmd = "zscan"   -> IF "PATTERN" \in c.opts THEN Fails(d) ELSE Answer(d, Flat(f, ranked))
          \* Of the keys only the first is counted, the rest is no option.
          [] c.cmd \in {"zunionstore", "zinterstore"} -> Fails(d)

ListCommand(d, c) ==
    LET new == IF c.cmd = "rpush" THEN d.map \o c.args ELSE Reverse(c.args) \o d.map
    IN  Answer(Stored("list", new), <<Len(new)>>)

SetCommand(d, c) ==
    IF ("nx" \in c.opts /\ d # Nothing) \/ ("xx" \in c.opts /\ d = Nothing)
    THEN Answer(d, <<Nil>>)
    ELSE Answer([type |-> "string", map |-> <<c.args[1]>>], <<OK>>)

TypedCommand(d, c) ==
    \* GET takes no argument but the key.
    CASE TypeOf(c.cmd) = "string" ->
            IF c.args = <<>> THEN Answer(d, <<ValueOf(d.map, 1)>>) ELSE Fails(d)
      [] TypeOf(c.cmd) = "hash"   -> HashCommand(d, c)
      [] TypeOf(c.cmd) = "zset"   -> SortedSetCommand(d, c)
      [] TypeOf(c.cmd) = "list"   -> ListCommand(d, c)

Server(d, c) ==
    CASE c.cmd = "exists" -> Answer(d, <<Bit(d # Nothing)>>)
      [] c.cmd = "set"    -> SetCommand(d, c)
      [] c.cmd \notin {"exists", "set"} ->
            IF d.type \in {"none", TypeOf(c.cmd)} THEN TypedCommand(d, c) ELSE Fails(d)

-----------------------------------------------------------------------------
(* TypedRedis.  A method is a command and what is made of its reply; with   *)
(* the pipeline's wrapper some commands are others.                         *)

StringsAndHashes ==
    [exists |-> "exists", get |-> "get", set |-> "set", hExists |-> "hexists", hGet |-> "hget",
     hSet |-> "hset", hDelete |-> "hdel", hGetAll |-> "hgetall", hIncrease |-> "hincrby",
     hFields |-> "hkeys", hValues |-> "hvals", hLength |-> "hlen", hGetMany |-> "hmget",
     hSetMany |-> "hmset", hScan |-> "hscan"]
SortedSetsAndLists ==
    [zAdd |-> "zadd", zBlockPopMax |-> "bzpopmax",
     zBlockPopMin |-> "bzpopmin", zCard |-> "zcard", zCount |-> "zcount",
     zIncrement |-> "zincrby", zIntersect |-> "zinterstore", zLexicalCount |-> "zlexcount",
     zPopMin |-> "zpopmin", zPopMax |-> "zpopmax", zRange |-> "zrange",
     zRangeByLex |-> "zrangebylex", zRangeByScore |-> "zrangebyscore", zRank |-> "zrank",
     zRemove |-> "zrem", zRemoveRangeByLex |-> "zremrangebylex",
     zRemoveRangeByRank |-> "zremrangebyrank", zRemoveRangeByScore |-> "zremrangebyscore",
     zScan |-> "zscan", zScore |-> "zscore", zUnion |-> "zunionstore", rPush |-> "rpush",
     lPush |-> "lpush"]

Methods == DOMAIN StringsAndHashes \union DOMAIN SortedSetsAndLists
Simple(op) ==
    IF op \in DOMAIN StringsAndHashes THEN StringsAndHashes[op] ELSE SortedSetsAndLists[op]

Reversed ==
    [zRange |-> "zrevrange", zRangeByLex |-> "zrevrangebylex",
     zRangeByScore |-> "zrevrangebyscore", zRank |-> "zrevrank"]

\* The options of a call that reach the command, as they are spelled there.
Spelled ==
    [updateOnly |-> "XX", addOnly |-> "NX", returnChanged |-> "CH", increment |-> "INCR",
     expire |-> "ex", nx |-> "nx", xx |-> "xx", withScores |-> "WITHSCORES",
     limit |-> "LIMIT", pattern |-> "PATTERN"]

\* get() hands on undefined, too, which is sent as an empty string.
Command(c) ==
    [cmd  |-> IF "reverse" \in c.opts THEN Reversed[c.op]
              ELSE IF "asFloat" \in c.opts THEN "hincrbyfloat" ELSE Simple(c.op),
     args |-> IF c.op = "get" THEN <<Undefined>> ELSE c.args,
     opts |-> {Spelled[o] : o \in c.opts \cap DOMAIN Spelled}]

\* Mutant: the wrapper's zrevrank is a zrank, too.
WrappedTwice(cmd) ==
    CASE cmd.cmd = "get" -> [cmd EXCEPT !.cmd = "set"]
      [] cmd.cmd = "zrevrank" -> [cmd EXCEPT !.cmd = "zrank"]
      [] OTHER -> cmd

\* The wrapper's `get` sends a SET.
Wrapped(cmd) == IF cmd.cmd = "get" THEN [cmd EXCEPT !.cmd = "set"] ELSE cmd

Gives(v) == [ok |-> TRUE, value |-> v]
Throws == [ok |-> FALSE, value |-> <<>>]

Entry(score, member) == <<parseFloat(score), member>>

\* The loop goes on by one, not by two; after the last comes undefined.
zParseEntriesReply(r, scoresFirst) ==
    LET next(i) == IF i < Len(r) THEN r[i + 1] ELSE Undefined
    IN  [i \in DOMAIN r |-> IF scoresFirst THEN Entry(r[i], next(i)) ELSE Entry(next(i), r[i])]

\* BZPOPMIN and BZPOPMAX answer with the key, the member and the score.
zBlockPop(r) == IF r = <<Nil>> THEN <<Undefined>> ELSE <<Entry(r[2], r[3])>>

\* Every string of the reply is taken for a pair of strings.
getCursor(r) == [i \in DOMAIN r |-> <<Fragment, Fragment>>]

\* Mutant: fields that are not there are in the result unless it throws.
hGetManyOfAll(c, r) ==
    IF "throwIfNotFound" \in c.opts /\ Nil \in Range(r) THEN Throws
    ELSE Gives({<<c.args[i], r[i]>> : i \in DOMAIN r})

hGetMany(c, r) ==
    IF "throwIfNotFound" \in c.opts /\ Nil \in Range(r) THEN Throws
    ELSE Gives({<<c.args[i], r[i]>> : i \in {j \in DOMAIN r : r[j] # Nil}})

Result(c, r) ==
    CASE c.op = "set" -> Gives(r # <<Nil>>)
      [] c.op = "hExists" -> Gives(r = <<1>>)
      [] c.op = "hGet" /\ r = <<Nil>> ->
            IF "throwIfNotFound" \in c.opts THEN Throws ELSE Gives(<<Undefined>>)
      [] c.op \in {"get", "zRank"} -> Gives(IF r = <<Nil>> THEN <<Undefined>> ELSE r)
      [] c.op = "hGetMany" -> hGetMany(c, r)
      [] c.op = "hGetAll" -> Gives({<<r[2 * i - 1], r[2 * i]>> : i \in 1..(Len(r) \div 2)})
      [] c.op \in {"hScan", "zScan"} -> Gives(getCursor(r))
      [] c.op \in {"zScore", "zIncrement"} -> Gives(<<parseFloat(r[1])>>)
      [] c.op \in {"zPopMin", "zPopMax"} -> Gives(zParseEntriesReply(r, TRUE))
      [] c.op = "zRange" /\ "withScores" \in c.opts -> Gives(zParseEntriesReply(r, FALSE))
      [] c.op = "zRangeByScore" -> Throws
      [] c.op \in {"zBlockPopMin", "zBlockPopMax"} -> Gives(zBlockPop(r))
      [] c.op = "hSetMany" -> Gives(<<>>)
      [] OTHER -> Gives(r)

\* zRangeByScore() reads limit.offset although there is no limit, set() the digits
\* of an expireValue, and zCombine() the weights and the aggregate.
Sends(c) ==
    /\ c.op = "zRangeByScore" => "limit" \in c.opts
    /\ c.op = "set" => "expire" \in c.opts
    /\ c.op \in {"zUnion", "zIntersect"} => {"weights", "aggregate"} \subseteq c.opts

\* What the caller gets of a call that found d, and what is there after it.
Outcome(c, answer) == IF answer.ok THEN Result(c, answer.reply) ELSE Throws
Direct(d, c) == IF Sends(c) THEN Server(d, Command(c)) ELSE Fails(d)

-----------------------------------------------------------------------------
NoCall == [call |-> <<>>, found |-> Nothing, after |-> Nothing, result |-> Throws]

Init ==
    /\ db = Nothing
    /\ mode = "none" /\ phase = "none"
    /\ batch = <<>> /\ promises = <<>> /\ replies = <<>> /\ found = <<>>
    /\ last = NoCall

InRange(d) == d.type \in {"hash", "zset"} => Range(d.map) \subseteq Amount
Short(d) == Cardinality(DOMAIN d.map) <= Cardinality(Name)

\* A call of TypedRedis on the connection itself.
Call(c) ==
    LET answer == Direct(db, c) IN
    /\ InRange(answer.after) /\ Short(answer.after)
    /\ db' = answer.after
    /\ last' = IF mode = "none"
               THEN [call |-> <<c>>, found |-> db, after |-> db', result |-> Outcome(c, answer)]
               ELSE NoCall
    /\ UNCHANGED batchVars

\* The time of a string is up: all have one but what the wrapper's `get` sets.
Expires ==
    /\ db.type = "string" /\ db.map # <<Undefined>>
    /\ db' = Nothing
    /\ last' = NoCall
    /\ UNCHANGED batchVars

Begin ==
    /\ mode = "none"
    /\ mode' \in {"pipeline", "transaction"}
    /\ phase' = "collecting"
    /\ last' = NoCall
    /\ UNCHANGED <<db, batch, promises, replies, found>>

\* RedisPipelineWrapper.wrap() and register()
Register(c) ==
    /\ phase = "collecting"
    /\ Len(batch) < MaxBatch
    /\ Sends(c)
    /\ batch' = Append(batch, c)
    /\ promises' = Append(promises, "pending")
    /\ UNCHANGED <<db, mode, replies, found, phase, last>>

Execute ==
    /\ phase = "collecting"
    /\ batch # <<>>
    /\ phase' = "running"
    /\ UNCHANGED <<db, mode, batch, promises, replies, found, last>>

\* What the server answers to each of the next n commands of the batch.
Answers(n) ==
    LET answers[i \in 0..n] ==
            IF i = 0 THEN Answer(db, <<>>)
            ELSE Server(answers[i - 1].after, Wrapped(Command(batch[Len(replies) + i])))
    IN  answers

\* Redis runs the next n commands of the batch.
Run(n) ==
    LET answers == Answers(n) IN
    /\ \A i \in 1..n : InRange(answers[i].after) /\ Short(answers[i].after)
    /\ db' = answers[n].after
    /\ replies' = replies \o [i \in 1..n |-> answers[i]]
    /\ found' = found \o [i \in 1..n |-> answers[i - 1].after]

\* The commands of a pipeline may have others between them, and the callback of
\* one that fails rejects its promise.
RunPipeline ==
    /\ phase = "running" /\ mode = "pipeline"
    /\ Len(replies) < Len(batch)
    /\ Run(1)
    /\ promises' = [promises EXCEPT ![Len(replies')] =
                       IF replies'[Len(replies')].ok THEN "pending" ELSE "rejected"]
    /\ UNCHANGED <<mode, batch, phase, last>>

\* Those of a transaction have not; their callbacks hear of the queueing only.
RunTransaction ==
    /\ phase = "running" /\ mode = "transaction"
    /\ Len(replies) < Len(batch)
    /\ Run(Len(batch))
    /\ UNCHANGED <<mode, batch, promises, phase, last>>

\* EXEC rejects, before or after the commands were run.
ExecFails ==
    /\ phase = "running" /\ mode = "transaction"
    /\ phase' = "threw"
    /\ UNCHANGED <<db, mode, batch, promises, replies, found, last>>

\* The first promise that was rejected already makes execute() throw: those that
\* follow are left as they are.
Settled(p, r) ==
    LET stops == {i \in DOMAIN p : p[i] = "rejected"}
        first == IF stops = {} THEN Len(p) + 1 ELSE CHOOSE i \in stops : \A j \in stops : i <= j
    IN  [i \in DOMAIN p |->
           IF i >= first THEN p[i] ELSE IF r[i].ok THEN "resolved" ELSE "rejected"]

Settle ==
    /\ phase = "running"
    /\ Len(replies) = Len(batch)
    /\ promises' = Settled(promises, replies)
    /\ phase' = IF \A i \in DOMAIN replies : replies[i].ok THEN "done" ELSE "threw"
    /\ UNCHANGED <<db, mode, batch, replies, found, last>>

Next ==
    \/ mode = "none" /\ \E c \in Calls : Call(c)
    \/ phase = "running" /\ \E c \in BatchCalls : Call(c)
    \/ Expires
    \/ Begin
    \/ \E c \in BatchCalls : Register(c)
    \/ Execute \/ RunPipeline \/ RunTransaction \/ ExecFails \/ Settle

Spec == Init /\ [][Next]_vars

-----------------------------------------------------------------------------
(* Properties.                                                              *)

\* After execute() each promise is settled, or those before the first failure are.
AllSettled ==
    /\ phase = "done" => \A i \in DOMAIN promises : promises[i] = "resolved"
    /\ phase = "threw" /\ replies # <<>> /\ mode = "pipeline" =>
          \E k \in DOMAIN promises :
              /\ promises[k] = "rejected"
              /\ \A i \in 1..(k - 1) : promises[i] = "resolved"
\* The commands of a transaction follow each other without another client's.
Undisturbed ==
    mode = "transaction" =>
        \A i \in DOMAIN replies : i > 1 => found[i] = replies[i - 1].after

\* A command that was collected did, when it ran, what the call does at once,
\* and its promise is settled by its own reply: after execute() a promise is
\* pending only if EXEC rejected or, in a pipeline, an earlier command failed.
\* No other client's command is run between two of a transaction.  (Not `get`:
\* collected, it overwrites the value.)
RepliesFindPromises ==
    /\ \A i \in DOMAIN replies :
          LET direct == Direct(found[i], batch[i]) IN
          batch[i].op # "get" =>
              /\ replies[i].after = direct.after
              /\ promises[i] = "resolved" =>
                    Outcome(batch[i], direct) = Result(batch[i], replies[i].reply)
              /\ promises[i] = "rejected" => ~direct.ok
    /\ AllSettled /\ Undisturbed

\* Why: what each command found and what became of its promise so far.
BatchInv ==
    /\ mode \in {"none", "pipeline", "transaction"}
    /\ phase \in {"none", "collecting", "running", "done", "threw"}
    /\ mode = "none" => phase = "none"
    /\ batch \in Seq(BatchCalls) /\ \A i \in DOMAIN batch : Sends(batch[i])
    /\ promises \in [1..Len(batch) -> {"pending", "resolved", "rejected"}]
    /\ replies \in Seq(ToSet(replies)) /\ found \in Seq(ToSet(found))
    /\ Len(found) = Len(replies) /\ Len(replies) <= Len(batch)
    /\ \A i \in DOMAIN replies :
          replies[i] = Server(found[i], Wrapped(Command(batch[i])))
    /\ mode = "transaction" => replies = <<>> \/ Len(replies) = Len(batch)
PromisesInv ==
    /\ phase \in {"none", "collecting"} => replies = <<>>
    /\ phase \in {"none", "collecting"} \/ (phase = "running" /\ mode = "transaction")
       => \A i \in DOMAIN promises : promises[i] = "pending"
    /\ phase = "running" /\ mode = "pipeline" => \A i \in DOMAIN promises :
          promises[i] = IF i \in DOMAIN replies /\ ~replies[i].ok THEN "rejected" ELSE "pending"
    /\ \A i \in DOMAIN promises :
          /\ promises[i] = "resolved" => i \in DOMAIN replies /\ replies[i].ok
          /\ promises[i] = "rejected" => i \in DOMAIN replies /\ ~replies[i].ok

IInv == BatchInv /\ PromisesInv /\ AllSettled /\ Undisturbed

\* How many members come before m, and in the order that is asked for.
Before(f, m) == Cardinality({n \in DOMAIN f : Lower(f, n, m)})
Rank(c, f, m) ==
    IF "reverse" \in c.opts THEN Cardinality(DOMAIN f) - 1 - Before(f, m) ELSE Before(f, m)

MaySet(c, d) ==
    /\ "nx" \in c.opts => d = Nothing
    /\ "xx" \in c.opts => d # Nothing
MayAdd(c, f) ==
    /\ "addOnly" \in c.opts => c.args[2] \notin DOMAIN f
    /\ "updateOnly" \in c.opts => c.args[2] \in DOMAIN f
NewScore(c, f) ==
    LET increases == c.op = "zIncrement" \/ "increment" \in c.opts
    IN  c.args[1] + (IF increases /\ c.args[2] \in DOMAIN f THEN f[c.args[2]] ELSE 0)

Takers ==
    {"hDelete", "zRemove", "zRemoveRangeByLex", "zRemoveRangeByScore", "zRemoveRangeByRank",
     "zPopMin", "zPopMax", "zBlockPopMin", "zBlockPopMax"}

\* The fields or members that a method takes away.
Taken(c, f) ==
    LET a == c.args
        After(m) == Cardinality(DOMAIN f) - 1 - Before(f, m)
    IN  CASE c.op \in {"hDelete", "zRemove"} -> Range(a)
          [] c.op = "zRemoveRangeByLex"   -> a[1]..a[2]
          [] c.op = "zRemoveRangeByScore" -> {m \in DOMAIN f : f[m] \in a[1]..a[2]}
          [] c.op = "zRemoveRangeByRank"  -> {m \in DOMAIN f : Before(f, m) \in a[1]..a[2]}
          [] c.op = "zPopMin"      -> {m \in DOMAIN f : Before(f, m) < a[1]}
          [] c.op = "zPopMax"      -> {m \in DOMAIN f : After(m) < a[1]}
          [] c.op = "zBlockPopMin" -> {m \in DOMAIN f : Before(f, m) = 0}
          [] c.op = "zBlockPopMax" -> {m \in DOMAIN f : After(m) = 0}

\* What a method that finds d is to leave there.
Leaves(c, d) ==
    LET f == d.map
        a == c.args
        Kept(g) == Stored(TypeOf(Simple(c.op)), g)
    IN  CASE c.op = "set" /\ MaySet(c, d) -> [type |-> "string", map |-> <<a[1]>>]
          [] c.op = "hSet" -> Kept(Put(f, a[1], a[2]))
          [] c.op = "hSetMany" ->
                Kept([n \in DOMAIN f \union {a[1], a[3]} |->
                        IF n = a[3] THEN a[4] ELSE IF n = a[1] THEN a[2] ELSE f[n]])
          [] c.op = "hIncrease" ->
                Kept(Put(f, a[1], a[2] + (IF a[1] \in DOMAIN f THEN f[a[1]] ELSE 0)))
          [] c.op \in {"zAdd", "zIncrement"} /\ MayAdd(c, f) -> Kept(Put(f, a[2], NewScore(c, f)))
          [] c.op = "rPush" -> Kept(f \o a)
          [] c.op = "lPush" -> Kept(Reverse(a) \o f)
          [] c.op \in Takers -> Kept(Without(f, Taken(c, f)))
          [] OTHER -> d

Orders(S) == {s \in [1..Cardinality(S) -> S] : Range(s) = S}

\* v lists the members of ranks from..to.
Lists(c, f, from, to, v) ==
    /\ Range(v) = {m \in DOMAIN f : Rank(c, f, m) \in from..to}
    /\ \A i \in DOMAIN v : Rank(c, f, v[i]) = from + i - 1

\* v is what a method of a hash that finds f and leaves g is to give,
HashGives(c, f, g, v) ==
    LET field == c.args[1] IN
    CASE c.op = "hExists" -> v <=> field \in DOMAIN f
      [] c.op = "hGet" -> v = <<IF field \in DOMAIN f THEN f[field] ELSE Undefined>>
      [] c.op = "hGetMany" -> v = {<<n, f[n]>> : n \in Range(c.args) \cap DOMAIN f}
      [] c.op = "hGetAll"  -> v = {<<n, f[n]>> : n \in DOMAIN f}
      [] c.op = "hFields"  -> v \in Orders(DOMAIN f)
      [] c.op = "hValues"  -> \E s \in Orders(DOMAIN f) : v = [i \in DOMAIN s |-> f[s[i]]]
      [] c.op = "hLength"  -> v = <<Cardinality(DOMAIN f)>>
      [] c.op = "hSet"     -> v = <<Bit(field \notin DOMAIN f)>>
      [] c.op = "hSetMany" -> v = <<>>
      [] c.op = "hIncrease" -> v = <<g[field]>>
      [] c.op = "hDelete"  -> v = <<Cardinality(DOMAIN f) - Cardinality(DOMAIN g)>>

\* and one of a sorted set.
SortedSetGives(c, f, g, v) ==
    LET a == c.args
        member == a[1]
        between == DOMAIN f \cap a[1]..a[2]
        New(m) == m \notin DOMAIN f \/ ("returnChanged" \in c.opts /\ g[m] # f[m])
    IN  CASE c.op = "zCard"  -> v = <<Cardinality(DOMAIN f)>>
          [] c.op = "zCount" -> v = <<Cardinality({m \in DOMAIN f : f[m] \in a[1]..a[2]})>>
          [] c.op = "zLexicalCount" -> v = <<Cardinality(between)>>
          [] c.op = "zRank"  ->
                v = <<IF member \in DOMAIN f THEN Rank(c, f, member) ELSE Undefined>>
          [] c.op = "zScore" -> v = <<IF member \in DOMAIN f THEN f[member] ELSE NaN>>
          [] c.op = "zRange" -> Lists(c, f, a[1], a[2], v)
          [] c.op = "zRangeByLex" ->
                IF "limit" \in c.opts
                THEN Lists(c, Names(between), a[3], a[3] + a[4] - 1, v)
                ELSE Lists(c, Names(between), 0, Cardinality(between) - 1, v)
          [] c.op = "zIncrement" \/ (c.op = "zAdd" /\ "increment" \in c.opts) ->
                v = <<IF MayAdd(c, f) THEN g[a[2]] ELSE Nil>>
          [] c.op = "zAdd" /\ "increment" \notin c.opts ->
                v = <<Cardinality({m \in DOMAIN g : New(m)})>>
          [] c.op \in Takers -> v = <<Cardinality(DOMAIN f) - Cardinality(DOMAIN g)>>

\* v is what a method that finds d and leaves e is to give.
Returns(c, d, e, v) ==
    CASE c.op = "exists" -> v = <<Bit(d # Nothing)>>
      [] c.op = "set" -> v <=> MaySet(c, d)
      [] c.op \in {"rPush", "lPush"} -> v = <<Len(e.map)>>
      [] c.op \in DOMAIN StringsAndHashes \ {"exists", "set"} -> HashGives(c, d.map, e.map, v)
      [] OTHER -> SortedSetGives(c, d.map, e.map, v)

\* The methods whose result is not what they say, see the README.
Broken(c) ==
    \/ c.op \in {"get", "zPopMin", "zPopMax", "zBlockPopMin", "zBlockPopMax", "hScan", "zScan",
                 "zRangeByScore", "zUnion", "zIntersect"}
    \/ c.op = "hIncrease" /\ "asFloat" \in c.opts
    \/ c.op = "zRange" /\ "withScores" \in c.opts
    \/ c.op = "zRangeByLex" /\ "reverse" \in c.opts /\ c.args[1] # c.args[2]

\* Of members with different scores Redis does not say which are between two names.
Open(c, f) ==
    /\ c.op \in {"zLexicalCount", "zRangeByLex", "zRemoveRangeByLex"}
    /\ \E m, n \in DOMAIN f : f[m] # f[n]

\* Whether it is to throw.
Misses(c, f) ==
    /\ c.op \in {"hGet", "hGetMany"}
    /\ "throwIfNotFound" \in c.opts
    /\ Range(c.args) \ DOMAIN f # {}

OfAnotherType(c, d) ==
    c.op \notin {"exists", "set"} /\ d.type \notin {"none", TypeOf(Simple(c.op))}

\* What a method of TypedRedis leaves under the key, and what it gives, is what
\* its name and its options say, also when there is nothing: the data for each
\* of them, the result for all that are not Broken.  What is not sent, and a
\* method on a key of another type, throws and changes nothing.
Keeps(c, d, e, result) ==
    IF ~Sends(c) \/ OfAnotherType(c, d) THEN ~result.ok /\ e = d
    ELSE Open(c, d.map) \/
           /\ e = Leaves(c, d)
           /\ ~Broken(c) => /\ result.ok <=> ~Misses(c, d.map)
                            /\ result.ok => Returns(c, d, e, result.value)
CallsAreKept ==
    last.call # <<>> => Keeps(last.call[1], last.found, last.after, last.result)
=============================================================================
