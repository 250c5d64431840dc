----------------------------- MODULE MCDatabases -----------------------------
(* Instances of what uses a database, for TLC: a behaviour is of the          *)
(* repositories of a collection of MongoDB, of calls on a key of Redis, of    *)
(* the clients of a stream of Redis, of the message buses over a connection   *)
(* to Redis, or of those over a broadcast channel, which need no database.    *)
EXTENDS MongoEntityRepository

CONSTANTS
    Name, Amount, Calls, BatchCalls, MaxBatch,          \* see TypedRedis
    Item, MaxId,                                        \* see RedisStream
    Channel, Observer, ChannelOf, MaxMessages, MaxCommands,  \* see MessageBus
    MaxPosts,                                           \* see BroadcastBus
    channel1, channel2, observer1, observer2, observer3

ASSUME ChannelAssumption == ChannelOf \in [Observer -> Channel]

VARIABLES
    subject,
    db, mode, batch, promises, replies, found, batchPhase, lastCall,
    streamExists, log, lastId, grouped, read, pending, late, got, known, pc,
    added, finished, lost, removed, unowned, slow,
    observers, link, commands, channelReplies, subscribed, sent, published, heard,
    disposed, channel, observed, publishing, arriving, senders, told, heardBy, posted,
    rejected, due

MCSymmetry ==
    Permutations(Client) \union Permutations(Item)
        \union Permutations({observer1, observer2})

-----------------------------------------------------------------------------
(* The repositories: entities with a key k and a value v. The transformer of *)
(* the application stores k, as it is, under key, and v, encoded (plus 10),   *)
(* under w.                                                                   *)

MCMapping == ("k" :> [key |-> "key", plus |-> 0]) @@ ("v" :> [key |-> "w", plus |-> 10])

Index(name, unique, direction) == [name |-> name, unique |-> unique, direction |-> direction]
MCWanted == {Index("key", TRUE, 1)}

\* An earlier version left nothing, the index itself, another index under its
\* name, or one under another name.
MCExisting ==
    {{}, {Versioned(Index("key", TRUE, 1))}, {Versioned(Index("key", FALSE, -1))},
     {Versioned(Index("old", FALSE, 1))}}

Entity(id, k, v) == ("id" :> id) @@ ("k" :> k) @@ ("v" :> v)
MCEntities == {Entity(1, 1, 1), Entity(2, 2, 2)}

MCPatches == {"v" :> 2, "k" :> 1}

Op(operator, value) == Object(operator :> value)

MCQueries ==
    {"v" :> Primitive(2), "k" :> Op("$gt", Primitive(1)),
     ("k" :> Primitive(1)) @@ ("v" :> Primitive(1)), "id" :> Op("$in", Array(<<1, 3>>))}

MCStepQueries == {"k" :> Op("$gt", Primitive(0))}

\* The logical operators, and a list of values for a mapped property.
MCBadQueries ==
    {"$and" :> Array(<<>>), "k" :> Op("$in", Array(<<1, 2>>))}

Sorted(field, order, skip, limit) ==
    [skip |-> skip, limit |-> limit, sort |-> [field |-> field, order |-> order]]
MCOptions ==
    {Options0, Sorted("v", "desc", 0, 2), Sorted("v", "asc", 1, 0)}

-----------------------------------------------------------------------------
(* Calls on a key of Redis: two names of fields or members, P and Q, and      *)
(* numbers from 0 to 3.                                                       *)

P == 11
Q == 12
MCNames == {P, Q}

Request(op, args, opts) == [op |-> op, args |-> args, opts |-> opts]
MCCalls ==
    {Request("exists", <<>>, {}), Request("get", <<>>, {}), Request("hExists", <<P>>, {}),
     Request("hGet", <<P>>, {}), Request("hGet", <<P>>, {"throwIfNotFound"}),
     Request("hDelete", <<P, Q>>, {}), Request("hDelete", <<Q>>, {}),
     Request("hGetAll", <<>>, {}), Request("hIncrease", <<P, 1>>, {}),
     Request("hIncrease", <<P, 1>>, {"asFloat"}), Request("hFields", <<>>, {}),
     Request("hValues", <<>>, {}), Request("hLength", <<>>, {}),
     Request("hGetMany", <<P, Q>>, {}), Request("hGetMany", <<P, Q>>, {"throwIfNotFound"}),
     Request("hSetMany", <<P, 1, Q, 2>>, {}), Request("hScan", <<>>, {}),
     Request("hScan", <<>>, {"pattern"}), Request("zBlockPopMax", <<>>, {}),
     Request("zBlockPopMin", <<>>, {}), Request("zCard", <<>>, {}),
     Request("zCount", <<1, 2>>, {}), Request("zIncrement", <<1, P>>, {}),
     Request("zIntersect", <<>>, {"weights", "aggregate"}), Request("zLexicalCount", <<P, Q>>, {}),
     Request("zPopMin", <<1>>, {}), Request("zPopMax", <<1>>, {}),
     Request("zRangeByScore", <<1, 2>>, {}), Request("zRangeByScore", <<1, 2, 0, 1>>, {"limit"}),
     Request("zRangeByScore", <<1, 2, 0, 1>>, {"limit", "reverse", "withScores"}),
     Request("zRemove", <<P>>, {}), Request("zRemove", <<P, Q>>, {}),
     Request("zRemoveRangeByLex", <<Q, Q>>, {}), Request("zRemoveRangeByRank", <<0, 0>>, {}),
     Request("zRemoveRangeByScore", <<2, 3>>, {}), Request("zScan", <<>>, {}),
     Request("zScore", <<P>>, {}), Request("zUnion", <<>>, {}),
     Request("zUnion", <<>>, {"weights", "aggregate"}), Request("rPush", <<P, Q>>, {}),
     Request("lPush", <<P, Q>>, {}), Request("rPush", <<P>>, {}), Request("lPush", <<Q>>, {})}
    \union {Request("set", <<P>>, o) :
               o \in {{}, {"expire"}, {"expire", "nx"}, {"expire", "xx"}}}
    \union {Request("hSet", <<n, v>>, {}) : n \in MCNames, v \in {1, 2}}
    \union {Request("zAdd", <<v, n>>, o) : n \in MCNames, v \in {1, 2},
               o \in {{}, {"updateOnly"}, {"addOnly"}, {"returnChanged"},
                      {"increment", "updateOnly", "returnChanged"}}}
    \union {Request("zRange", <<i, j>>, o) : i \in {0, 1}, j \in {0, 1},
               o \in {{}, {"reverse"}, {"withScores"}}}
    \union {Request("zRangeByLex", <<P, n>>, o) : n \in MCNames, o \in {{}, {"reverse"}}}
    \union {Request("zRangeByLex", <<P, Q, i, j>>, {"limit"}) : i \in {0, 1}, j \in {0, 1}}
    \union {Request("zRank", <<n>>, o) : n \in MCNames, o \in {{}, {"reverse"}}}

MCBatchCalls ==
    {Request("set", <<Q>>, {"expire", "nx"}), Request("get", <<>>, {}),
     Request("hSet", <<P, 2>>, {}), Request("zAdd", <<1, Q>>, {}),
     Request("hGetMany", <<P>>, {"throwIfNotFound"}), Request("zRank", <<Q>>, {"reverse"})}

R == INSTANCE TypedRedis WITH phase <- batchPhase, last <- lastCall

\* The calls that are collected are of methods of TypedRedis, and the options
\* that make another command of a method are options of that method.
Offered(c) ==
    /\ c.op \in R!Methods
    /\ "reverse" \in c.opts => c.op \in DOMAIN R!Reversed
    /\ "asFloat" \in c.opts => c.op = "hIncrease"
ASSUME CallsAssumption == \A c \in BatchCalls : Offered(c)

\* The calls that are made have the arguments that the signatures of the methods
\* ask for: hSetMany() here those of two fields, zRange() and its like places
\* from the start.  (Numbers are not negative, as those stand for null, undefined
\* and NaN.)
ASSUME ArgumentsAssumption ==
    /\ Name \subseteq Int /\ Amount \subseteq Nat
    /\ \A c \in Calls :
          /\ Offered(c)
          /\ c.op \in {"hExists", "hGet", "zScore", "zRank", "set"} =>
                c.args \in {<<n>> : n \in Name}
          /\ c.op \in {"hSet", "hIncrease"} => c.args \in {<<n, v>> : n \in Name, v \in Amount}
          /\ c.op = "hSetMany" =>
                c.args \in {<<n, v, m, w>> : n \in Name, v \in Amount, m \in Name, w \in Amount}
          /\ c.op \in {"hGetMany", "hDelete", "zRemove", "rPush", "lPush"} =>
                c.args \in Seq(Name) \ {<<>>}
          /\ c.op \in {"zAdd", "zIncrement"} => c.args \in {<<v, n>> : v \in Amount, n \in Name}
          /\ c.op = "zIncrement" => c.opts = {}
          /\ c.op \in {"zRange", "zRemoveRangeByRank"} =>
                c.args[1] \in Nat /\ c.args[2] \in Nat
          /\ c.op \in {"zPopMin", "zPopMax"} => c.args[1] \in Nat
          /\ c.op \in {"zLexicalCount", "zRangeByLex", "zRemoveRangeByLex"} =>
                c.args[1] \in Name /\ c.args[2] \in Name
          /\ c.op = "zRangeByLex" /\ "limit" \in c.opts => c.args[3] \in Nat /\ c.args[4] \in Nat

S == INSTANCE RedisStream WITH Consumer <- Client, exists <- streamExists, last <- lastId

MCChannelOf ==
    (observer1 :> channel1) @@ (observer2 :> channel1) @@ (observer3 :> channel2)

M == INSTANCE MessageBus WITH replies <- channelReplies

B == INSTANCE BroadcastBus WITH
        Bus <- Client, MaxMessages <- MaxPosts, published <- senders, heard <- heardBy

callVars == <<db, mode, batch, promises, replies, found, batchPhase, lastCall>>
streamVars == <<streamExists, log, lastId, grouped, read, pending, late, got, known, pc,
                added, finished, lost, removed, unowned, slow>>
busVars ==
    <<observers, link, commands, channelReplies, subscribed, sent, published, heard,
      disposed, channel, observed, publishing, arriving, senders, told, heardBy, posted,
      rejected, due>>

-----------------------------------------------------------------------------
IdleRepository ==
    /\ docs = <<>> /\ indexes = {} /\ exists = FALSE
    /\ phase = [c \in Client |-> "collection"] /\ plan = [c \in Client |-> NoPlan]
    /\ bulk = NoBulk

MCInit ==
    /\ subject \in {"repository", "calls", "stream", "bus", "broadcast"}
    /\ IF subject = "repository" THEN Init ELSE IdleRepository
    /\ R!Init
    /\ S!Init
    /\ M!Init /\ B!Init

MCNext ==
    /\ UNCHANGED subject
    /\ \/ subject = "repository" /\ Next /\ UNCHANGED <<callVars, streamVars, busVars>>
       \/ subject = "calls" /\ R!Next /\ UNCHANGED <<vars, streamVars, busVars>>
       \/ subject = "stream" /\ S!Next /\ UNCHANGED <<vars, callVars, busVars>>
       \/ /\ subject = "bus" /\ M!Next
          /\ UNCHANGED <<vars, callVars, streamVars, disposed, channel, observed, publishing>>
          /\ UNCHANGED <<arriving, senders, told, heardBy, posted, rejected, due>>
       \/ /\ subject = "broadcast" /\ B!Next
          /\ UNCHANGED <<vars, callVars, streamVars, observers, link, commands>>
          /\ UNCHANGED <<channelReplies, subscribed, sent, published, heard>>

MCSpec == MCInit /\ [][MCNext]_<<subject, vars, callVars, streamVars, busVars>>

\* See TypedRedis.
RepliesFindPromises == subject = "calls" => R!RepliesFindPromises
CallsAreKept == subject = "calls" => R!CallsAreKept
\* See RedisStream.
StreamIsKept == subject = "stream" => S!StreamIsKept
\* See MessageBus and BroadcastBus.
MessagesArrive ==
    /\ subject = "bus" => M!MessagesArrive
    /\ subject = "broadcast" => B!BroadcastArrives
=============================================================================
