--------------------------- MODULE MCCollections ---------------------------
(* Instances of the collections and of what iterates over them, for TLC: a *)
(* behaviour is of a sorted collection, of an observable or awaitable one, *)
(* or of a chain of an Enumerable.                                         *)
EXTENDS SortedList, TLC

CONSTANTS
    Value, MaxSize, MaxDepth, MaxAtOnce,     \* see ObservableCollections
    i1, i2, i3, i4, Default, Undefined_      \* of the chains

ASSUME SizeAssumption == MaxSize \in Nat /\ MaxDepth \in Nat /\ MaxAtOnce \in Nat

VARIABLES
    subject,
    kind, items, frames, lengthSeen, copy, nested, waiter, snapshot, missed,
    async, howMany, chain, source, read, stage, level, built, out, status

C == INSTANCE ObservableCollections

Generators ==
    {"assert", "batch", "concat", "defaultIfEmpty", "distinct", "filter", "tap", "interruptEvery",
     "interruptPerSecond", "throttle", "map", "mapMany", "materialize", "metadata", "pairwise",
     "retry", "takeWhile", "skip", "take", "while", "group", "groupSingle", "sort"}
MCFunctions ==
    {"all", "any", "first", "firstOrDefault", "last", "lastOrDefault", "single",
     "singleOrDefault", "forEach", "drain", "reduce", "toArray", "groupToMap", "groupToSingleMap"}

\* One method, or a generator and one of the second methods.
Seconds ==
    {"batch", "defaultIfEmpty", "distinct", "filter", "mapMany", "materialize", "metadata",
     "pairwise", "takeWhile", "skip", "take", "group", "all", "first", "single", "reduce", "toArray"}
MCChains ==
    {<<h>> : h \in Generators \union MCFunctions} \union {<<g, h>> : g \in Generators, h \in Seconds}

\* i1 and i2 are accepted by the predicates, i4, of the same key as i1, is not, and
\* on i3 the functions of the caller throw.
E == INSTANCE Enumerable WITH
        Item <- {i1, i2, i3, i4}, Good <- {i1, i2},
        KeyOf <- (i1 :> 1) @@ (i2 :> 2) @@ (i3 :> 1) @@ (i4 :> 1),
        RankOf <- (i1 :> 2) @@ (i2 :> 1) @@ (i3 :> 3) @@ (i4 :> 0),
        Other <- <<i1>>, Undefined <- Undefined_,
        Chains <- MCChains, Bad <- i3, MaxItems <- 3, MaxCount <- 2,
        n <- howMany

collectionVars == <<kind, frames, lengthSeen, copy, nested, waiter, snapshot, missed>>
chainVars == <<async, howMany, chain, source, read, stage, level, built, out, status>>

IdleCollection ==
    /\ kind = "array" /\ frames = <<>> /\ lengthSeen = 0 /\ copy = <<>> /\ nested = FALSE
    /\ waiter = "reads" /\ snapshot = <<>> /\ missed = FALSE
IdleChain ==
    /\ async = TRUE /\ howMany = 0 /\ chain = <<"drain">> /\ source = "open" /\ read = 0
    /\ stage = <<>> /\ level = 0 /\ built = 0 /\ out = <<>> /\ status = "open"

MCInit ==
    /\ subject \in {"sorted", "collection", "chain"}
    /\ IF subject = "sorted" THEN Init ELSE Init /\ variant = "plain"
    /\ IF subject = "collection" THEN C!Init ELSE IdleCollection
    /\ IF subject = "chain" THEN E!Init ELSE IdleChain
    /\ subject = "sorted" => items = <<>>

MCNext ==
    /\ UNCHANGED subject
    /\ \/ subject = "sorted" /\ Next /\ UNCHANGED <<items, collectionVars, chainVars>>
       \/ subject = "collection" /\ C!Next /\ UNCHANGED <<vars, chainVars>>
       \/ subject = "chain" /\ E!Next /\ UNCHANGED <<vars, collectionVars>>

MCSpec == MCInit /\ [][MCNext]_<<subject, vars, items, collectionVars, chainVars>>

\* See ObservableCollections.
ObserversAgree == subject = "collection" => C!ObserversAgree
WaiterHasReadAll == subject = "collection" => C!WaiterHasReadAll
\* See Enumerable.
ChainAgrees == subject = "chain" => E!ChainAgrees
SourceReleased == subject = "chain" => E!SourceReleased

\* Whoever follows a collection by its events, a replica or any other observer,
\* knows what is in it.
SubscribersAgree == ReplicasAgree /\ ObserversAgree

\* A chain yields what its definition says, and lets go of its source.
ChainsAreSound == ChainAgrees /\ SourceReleased
=============================================================================
