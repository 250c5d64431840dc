------------------------------ MODULE MCQueues ------------------------------
(* Instances of the two queues for TLC.  A behaviour is one of RedisQueue or *)
(* one of MongoQueue, while the variables of the other stay as they are.     *)
EXTENDS RedisQueue, TLC

CONSTANTS
    j1, j2, tag1,
    Batch, NoBatch, Tag, Priority, ProcessTimeout, MaxTries, MaxTime  \* see MongoQueue

\* What MongoQueue takes of its constants.
ASSUME MongoParameters ==
    /\ NoBatch \notin Batch
    /\ ProcessTimeout \in Nat \ {0} /\ MaxTries \in Nat /\ MaxTime \in Nat
    /\ Priority \in [JobId -> Int]

\* One tag for both jobs, so that the one can supersede the other, and the
\* second job sorted before the first whenever both are there.
MCTag == (j1 :> tag1) @@ (j2 :> tag1)
MCPriority == (j1 :> 1) @@ (j2 :> 0)

MCSymmetry == Permutations(Consumer) \cup Permutations(Batch)

VARIABLES
    now, stored, tries, last, batch, enqueued, at, asked, token, rest, given,
    used, markedAt, marker, delivered, dropped

Mongo == INSTANCE MongoQueue WITH pc <- at, got <- given

mongoVars == <<now, stored, tries, last, batch, enqueued, at, asked, token, rest, given,
               used, markedAt, marker, delivered, dropped>>
queueVars == <<vars, mongoVars>>

MCInit == Init /\ Mongo!Init

\* Jobs are in Redis.
RedisSpec == MCInit /\ [][Next /\ UNCHANGED mongoVars]_queueVars /\ Fairness

\* Jobs are in MongoDB.
MongoSpec == MCInit /\ [][Mongo!Next /\ UNCHANGED vars]_queueVars
FairMongoSpec == MongoSpec /\ Mongo!Fairness

\* See MongoQueue: jobs stay until they are delivered or taken back, marks of a
\* job are apart, its recipient has marked it last, and all are tried.
JobsAreKept == Mongo!NoLoss
RedeliverySpacing == Mongo!RedeliverySpacing
RecipientMarkedLast == Mongo!RecipientMarkedLast
EveryJobTried == Mongo!EveryJobTried
=============================================================================
