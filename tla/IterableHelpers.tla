-------------------------- MODULE IterableHelpers --------------------------
(***************************************************************************)
(* The loops of base/source/utils/iterable-helpers and of                  *)
(* utils/async-iterable-helpers over one iterable.  A helper is described  *)
(* by what its loop does with an item: the local variables afterwards,     *)
(* what it yields, and whether it then leaves the loop or throws.  Items   *)
(* that are yielded are handed out one by one: what follows a yield takes  *)
(* place when the consumer asks again.  What stands behind the loop, a     *)
(* helper's last items or its result, is in its End operator.              *)
(* A predicate holds for the Good items, a selector returns KeyOf[item].   *)
(***************************************************************************)
LOCAL INSTANCE Integers
LOCAL INSTANCE Sequences

CONSTANTS
    Good,                      \* the items the predicate accepts
    KeyOf,                     \* the selector, a function of the items
    Other,                     \* the second iterable of concat()
    Default,                   \* the default value
    Undefined

Pred(x) == x \in Good
KeyFor(x) == IF x \in DOMAIN KeyOf THEN KeyOf[x] ELSE x

Go(s, yields) == [local |-> s, yields |-> yields, leaves |-> FALSE, throws |-> FALSE]
Leave(s, yields) == [Go(s, yields) EXCEPT !.leaves = TRUE]
Throw(s, yields) == [Go(s, yields) EXCEPT !.throws = TRUE]
Matched(s, x) == IF Pred(x) THEN Go(<<x>>, <<>>) ELSE Go(s, <<>>)

\* Behind the loop.
Gives(values) == [yields |-> values, throws |-> FALSE]
Fails == [yields |-> <<>>, throws |-> TRUE]

-----------------------------------------------------------------------------
(* Generators: an item in, some items out.                                  *)

assertAsync(s, x) == IF Pred(x) THEN Go(s, <<x>>) ELSE Throw(s, <<>>)

batchAsync(n, s, x) ==
    IF Len(s) + 1 >= n THEN Go(<<>>, <<Append(s, x)>>) ELSE Go(Append(s, x), <<>>)

batchEndAsync(s) == Gives(IF s = <<>> THEN <<>> ELSE <<s>>)

concatEndAsync(s) == Gives(Other)

defaultIfEmptyAsync(s, x) == Go(FALSE, <<x>>)

defaultIfEmptyEndAsync(empty) == Gives(IF empty THEN <<Default>> ELSE <<>>)

distinctAsync(s, x) ==
    IF KeyFor(x) \in s THEN Go(s, <<>>) ELSE Go(s \union {KeyFor(x)}, <<x>>)

\* Mutant: the loop ends at the first item that does not match.
filterToMismatch(s, x) == IF Pred(x) THEN Go(s, <<x>>) ELSE Leave(s, <<>>)

filterAsync(s, x) == IF Pred(x) THEN Go(s, <<x>>) ELSE Go(s, <<>>)

tapAsync(s, x) == Go(s, <<x>>)

interruptEveryAsync(s, x) == Go(s, <<x>>)
interruptPerSecondAsync(s, x) == Go(s, <<x>>)
throttle(s, x) == Go(s, <<x>>)

mapAsync(index, x) == Go(index + 1, <<<<x, index>>>>)

\* The mapper returns n items.
mapManyAsync(n, s, x) == Go(s, [k \in 1..n |-> <<x, k>>])

materializeAsync(s, x) == Go(Append(s, x), <<>>)

Meta(s, isLast) ==
    [index |-> s.index, isFirst |-> s.index = 0, isLast |-> isLast, value |-> s.previous[1]]

metadataAsync(s, x) ==
    IF s.previous = <<>> THEN Go([s EXCEPT !.previous = <<x>>], <<>>)
    ELSE Go([index |-> s.index + 1, previous |-> <<x>>], <<Meta(s, FALSE)>>)

metadataEndAsync(s) == Gives(IF s.previous = <<>> THEN <<>> ELSE <<Meta(s, TRUE)>>)

pairwiseAsync(s, x) == Go(<<x>>, IF s = <<>> THEN <<>> ELSE <<<<s[1], x>>>>)

\* The consumer may throw the item back, see Enumerable.ThrowBack.
retryAsync(s, x) == Go(<<x>>, <<x>>)

takeWhileAsync(yieldLastOnFalse, s, x) ==
    IF Pred(x) THEN Go(s, <<x>>)
    ELSE Leave(s, IF yieldLastOnFalse THEN <<x>> ELSE <<>>)

\* takeWhileAsync() with index >= n, which the first item fails if n > 0.
skipAsync(n, index, x) ==
    IF index >= n THEN Go(index + 1, <<x>>) ELSE Leave(index + 1, <<>>)

takeAsync(n, counter, x) ==
    IF counter + 1 >= n THEN Leave(counter + 1, <<x>>) ELSE Go(counter + 1, <<x>>)

whileAsync(s, x) == IF Pred(x) THEN Go(s, <<x>>) ELSE Leave(s, <<x>>)

-----------------------------------------------------------------------------
(* Maps by key: a Map is the sequence of its entries, in order of insertion. *)

HasKey(map, key) == \E i \in DOMAIN map : map[i][1] = key

groupToMapAsync(map, x) ==
    Go(IF HasKey(map, KeyFor(x))
       THEN [i \in DOMAIN map |-> IF map[i][1] = KeyFor(x)
                                  THEN <<map[i][1], Append(map[i][2], x)>> ELSE map[i]]
       ELSE Append(map, <<KeyFor(x), <<x>>>>),
       <<>>)

groupToSingleMapAsync(map, x) ==
    IF HasKey(map, KeyFor(x)) THEN Throw(map, <<>>)
    ELSE Go(Append(map, <<KeyFor(x), x>>), <<>>)

groupAsync(map) == Gives(map)
groupSingleAsync(map) == Gives(map)

-----------------------------------------------------------------------------
(* Functions: a result behind the loop.                                     *)

allAsync(s, x) == IF Pred(x) THEN Go(TRUE, <<>>) ELSE Leave(FALSE, <<>>)
anyAsync(s, x) == IF Pred(x) THEN Leave(TRUE, <<>>) ELSE Go(FALSE, <<>>)

firstAsync(s, x) == IF Pred(x) THEN Leave(<<x>>, <<>>) ELSE Go(s, <<>>)
firstOrDefaultAsync(s, x) == firstAsync(s, x)
lastAsync(s, x) == Matched(s, x)
lastOrDefaultAsync(s, x) == Matched(s, x)

singleAsync(s, x) == IF Pred(x) /\ s # <<>> THEN Throw(s, <<>>) ELSE Matched(s, x)
singleOrDefaultAsync(s, x) == singleAsync(s, x)

OneOrThrow(s) == IF s = <<>> THEN Fails ELSE Gives(s)
OneOrDefault(s) == Gives(IF s = <<>> THEN <<Default>> ELSE s)

forEachAsync(s, x) == Go(s, <<>>)
drainAsync(s, x) == Go(s, <<>>)

\* The reducer pairs; s is empty as long as the accumulator is undefined.
reduceAsync(s, x) == Go(IF s = <<>> THEN <<x>> ELSE <<<<s[1], x>>>>, <<>>)

reduceEndAsync(s) == Gives(IF s = <<>> THEN <<Undefined>> ELSE s)

toArrayAsync(s, x) == Go(Append(s, x), <<>>)

-----------------------------------------------------------------------------
(* The same loops without awaits, in utils/iterable-helpers.                *)

assert(s, x) == assertAsync(s, x)
batch(n, s, x) == batchAsync(n, s, x)
batchEnd(s) == batchEndAsync(s)
concatEnd(s) == concatEndAsync(s)
defaultIfEmpty(s, x) == defaultIfEmptyAsync(s, x)
defaultIfEmptyEnd(s) == defaultIfEmptyEndAsync(s)
distinct(s, x) == distinctAsync(s, x)
filter(s, x) == filterAsync(s, x)
tap(s, x) == tapAsync(s, x)
map(s, x) == mapAsync(s, x)
mapMany(n, s, x) == mapManyAsync(n, s, x)
materialize(s, x) == materializeAsync(s, x)
metadata(s, x) == metadataAsync(s, x)
metadataEnd(s) == metadataEndAsync(s)
pairwise(s, x) == pairwiseAsync(s, x)
takeWhile(yieldLastOnFalse, s, x) == takeWhileAsync(yieldLastOnFalse, s, x)
skip(n, index, x) == Go(index + 1, IF index >= n THEN <<x>> ELSE <<>>)
take(n, s, x) == takeAsync(n, s, x)
whileSync(s, x) == whileAsync(s, x)
groupToMap(s, x) == groupToMapAsync(s, x)
groupToSingleMap(s, x) == groupToSingleMapAsync(s, x)
group(s) == groupAsync(s)
groupSingle(s) == groupSingleAsync(s)
all(s, x) == allAsync(s, x)
any(s, x) == anyAsync(s, x)
first(s, x) == firstAsync(s, x)
firstOrDefault(s, x) == firstOrDefaultAsync(s, x)
last(s, x) == lastAsync(s, x)
lastOrDefault(s, x) == lastOrDefaultAsync(s, x)
single(s, x) == singleAsync(s, x)
singleOrDefault(s, x) == singleOrDefaultAsync(s, x)
forEach(s, x) == forEachAsync(s, x)
drain(s, x) == drainAsync(s, x)
reduce(s, x) == reduceAsync(s, x)
reduceEnd(s) == reduceEndAsync(s)
=============================================================================
