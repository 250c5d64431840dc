----------------------------- MODULE Enumerable -----------------------------
(***************************************************************************)
(* Enumerable and AsyncEnumerable (base/source/enumerable): a chain of     *)
(* helpers over one iterable, that a consumer pulls at the end.  Each      *)
(* method wraps the source into a helper's generator, or runs a helper's   *)
(* function.  A stage of the chain is asked by the next one, asks the one  *)
(* before it, and holds what it has yet to yield.  Nobody but the next     *)
(* stage asks a stage, so that exactly one of them runs.  A loop that is   *)
(* left closes the iterator it reads; a generator that has not started, or *)
(* is through, closes nothing.                                             *)
(***************************************************************************)
EXTENDS Integers, Sequences, SequencesExt

CONSTANTS
    Item,                      \* what the source yields
    Good, KeyOf, Other, Default, Undefined,
    RankOf,                    \* what the comparator of sort() compares
    Chains,                    \* the chains of methods to look at
    Bad,                       \* an item on which the caller's functions throw
    MaxItems,                  \* bound on the length of the source
    MaxCount                   \* bound on the count given to a helper

VARIABLES
    async,                     \* AsyncEnumerable, or Enumerable
    n,                         \* the count or size the methods are called with
    chain,                     \* the methods called, in order
    items, read,               \* what the source yields, how many it has yielded
    source,                    \* open, exhausted, closed, failed
    stage,                     \* the generator or function of each method
    level,                     \* the stage that runs, 0 for the source
    built,                     \* how many stages have been constructed
    out,                       \* what the consumer has received
    status                     \* open, ended, threw, returned

chainVars == <<async, n, chain, items>>
vars == <<chainVars, read, source, stage, level, built, out, status>>

ItemRank(x) == IF x \in DOMAIN RankOf THEN RankOf[x] ELSE 0
H == INSTANCE IterableHelpers

-----------------------------------------------------------------------------
(* sort.ts: sorting by swapping the entries of an array.  The comparator is  *)
(* the difference of two ranks.  The asynchronous version is the same loops  *)
(* with an await where the comparator returns a promise; nobody else has the *)
(* array, so that the awaits do not show.                                    *)

Swapped(array, i, j) == [array EXCEPT ![i] = array[j], ![j] = array[i]]

\* The array and where the pivot will go, after the pass over left..i-1.
PartitionFrom(array, left, right) ==
    LET pass[i \in left..right] ==
            IF i = left THEN [array |-> array, index |-> left]
            ELSE LET done == pass[i - 1] IN
                 IF ItemRank(done.array[i - 1]) < ItemRank(done.array[right])
                 THEN [array |-> Swapped(done.array, i - 1, done.index), index |-> done.index + 1]
                 ELSE done
    IN  pass[right]

Partition(array, left, right) ==
    LET done == PartitionFrom(array, left, right)
    IN  [done EXCEPT !.array = Swapped(done.array, right, done.index)]
PartitionAsync(array, left, right) == Partition(array, left, right)

\* What becomes of an array of the same items when left..right is sorted.
SortBetween(array) ==
    LET sort[a \in [DOMAIN array -> ToSet(array)], left \in Nat, right \in Nat] ==
            IF left >= right THEN a
            ELSE LET part == Partition(a, left, right)
                 IN  sort[sort[part.array, left, part.index - 1], part.index + 1, right]
    IN  sort

SortBetweenAsync(array) ==
    LET sort[a \in [DOMAIN array -> ToSet(array)], left \in Nat, right \in Nat] ==
            IF left >= right THEN a
            ELSE LET part == PartitionAsync(a, left, right)
                 IN  sort[sort[part.array, left, part.index - 1], part.index + 1, right]
    IN  sort

quickSort(array) == SortBetween(array)[array, 1, Len(array)]
quickSortAsync(array) == SortBetweenAsync(array)[array, 1, Len(array)]

-----------------------------------------------------------------------------
(* The methods.                                                              *)

Functions ==
    {"all", "any", "first", "firstOrDefault", "last", "lastOrDefault", "single",
     "singleOrDefault", "forEach", "drain", "reduce", "toArray", "groupToMap", "groupToSingleMap"}

AsyncOnly == {"retry", "throttle", "interruptEvery", "interruptPerSecond"}

\* These call the caller's function for every item.
CallsBack ==
    {"assert", "distinct", "filter", "tap", "map", "mapMany", "takeWhile", "while", "group",
     "groupSingle", "groupToMap", "groupToSingleMap", "all", "any", "first", "firstOrDefault",
     "last", "lastOrDefault", "single", "singleOrDefault", "forEach", "reduce"}

\* The local variables a helper starts with.
Locals(h) ==
    CASE h \in {"map", "skip", "take"} -> 0
      [] h \in {"defaultIfEmpty", "all"} -> TRUE
      [] h = "any" -> FALSE
      [] h = "distinct" -> {}
      [] h = "metadata" -> [index |-> 0, previous |-> <<>>]
      [] OTHER -> <<>>

\* The methods of AsyncEnumerable from reduce() on; what is no item of a loop of
\* theirs passes, as it does for concat.
AsyncRest(h, s, x) ==
    CASE h = "reduce" -> H!reduceAsync(s, x)
      [] h = "retry" -> H!retryAsync(s, x)
      [] h = "single" -> H!singleAsync(s, x)
      [] h = "singleOrDefault" -> H!singleOrDefaultAsync(s, x)
      [] h = "skip" -> H!skipAsync(n, s, x)
      [] h \in {"sort", "toArray"} -> H!toArrayAsync(s, x)
      [] h = "take" -> H!takeAsync(n, s, x)
      [] h = "takeWhile" -> H!takeWhileAsync(n > 0, s, x)
      [] h = "throttle" -> H!throttle(s, x)
      [] h = "while" -> H!whileAsync(s, x)
      [] OTHER -> H!Go(s, <<x>>)

\* Those from assert() to pairwise().
AsyncItem(h, s, x) ==
    CASE h = "all" -> H!allAsync(s, x)
      [] h = "any" -> H!anyAsync(s, x)
      [] h = "assert" -> H!assertAsync(s, x)
      [] h = "batch" -> H!batchAsync(n, s, x)
      [] h = "defaultIfEmpty" -> H!defaultIfEmptyAsync(s, x)
      [] h = "distinct" -> H!distinctAsync(s, x)
      [] h = "drain" -> H!drainAsync(s, x)
      [] h = "filter" -> H!filterAsync(s, x)
      [] h = "first" -> H!firstAsync(s, x)
      [] h = "firstOrDefault" -> H!firstOrDefaultAsync(s, x)
      [] h = "forEach" -> H!forEachAsync(s, x)
      [] h \in {"group", "groupToMap"} -> H!groupToMapAsync(s, x)
      [] h \in {"groupSingle", "groupToSingleMap"} -> H!groupToSingleMapAsync(s, x)
      [] h = "tap" -> H!tapAsync(s, x)
      [] h = "interruptEvery" -> H!interruptEveryAsync(s, x)
      [] h = "interruptPerSecond" -> H!interruptPerSecondAsync(s, x)
      [] h = "last" -> H!lastAsync(s, x)
      [] h = "lastOrDefault" -> H!lastOrDefaultAsync(s, x)
      [] h = "map" -> H!mapAsync(s, x)
      [] h = "mapMany" -> H!mapManyAsync(n, s, x)
      [] h = "materialize" -> H!materializeAsync(s, x)
      [] h = "metadata" -> H!metadataAsync(s, x)
      [] h = "pairwise" -> H!pairwiseAsync(s, x)
      [] OTHER -> AsyncRest(h, s, x)

SyncRest(h, s, x) ==
    CASE h = "reduce" -> H!reduce(s, x)
      [] h = "single" -> H!single(s, x)
      [] h = "singleOrDefault" -> H!singleOrDefault(s, x)
      [] h = "skip" -> H!skip(n, s, x)
      [] h \in {"sort", "toArray"} -> H!Go(Append(s, x), <<>>)
      [] h = "take" -> H!take(n, s, x)
      [] h = "takeWhile" -> H!takeWhile(n > 0, s, x)
      [] h = "while" -> H!whileSync(s, x)
      [] OTHER -> H!Go(s, <<x>>)

\* The same methods of Enumerable.
SyncItem(h, s, x) ==
    CASE h = "all" -> H!all(s, x)
      [] h = "any" -> H!any(s, x)
      [] h = "assert" -> H!assert(s, x)
      [] h = "batch" -> H!batch(n, s, x)
      [] h = "defaultIfEmpty" -> H!defaultIfEmpty(s, x)
      [] h = "distinct" -> H!distinct(s, x)
      [] h = "drain" -> H!drain(s, x)
      [] h = "filter" -> H!filter(s, x)
      [] h = "first" -> H!first(s, x)
      [] h = "firstOrDefault" -> H!firstOrDefault(s, x)
      [] h = "forEach" -> H!forEach(s, x)
      [] h \in {"group", "groupToMap"} -> H!groupToMap(s, x)
      [] h \in {"groupSingle", "groupToSingleMap"} -> H!groupToSingleMap(s, x)
      [] h = "tap" -> H!tap(s, x)
      [] h = "last" -> H!last(s, x)
      [] h = "lastOrDefault" -> H!lastOrDefault(s, x)
      [] h = "map" -> H!map(s, x)
      [] h = "mapMany" -> H!mapMany(n, s, x)
      [] h = "materialize" -> H!materialize(s, x)
      [] h = "metadata" -> H!metadata(s, x)
      [] h = "pairwise" -> H!pairwise(s, x)
      [] OTHER -> SyncRest(h, s, x)

\* Behind the loop.
AsyncEnd(h, s) ==
    CASE h = "batch" -> H!batchEndAsync(s)
      [] h = "concat" -> H!concatEndAsync(s)
      [] h = "defaultIfEmpty" -> H!defaultIfEmptyEndAsync(s)
      [] h = "metadata" -> H!metadataEndAsync(s)
      [] h = "materialize" -> H!Gives(s)
      [] h = "sort" -> H!Gives(quickSortAsync(s))
      [] h = "group" -> H!groupAsync(s)
      [] h = "groupSingle" -> H!groupSingleAsync(s)
      [] h = "reduce" -> H!reduceEndAsync(s)
      [] OTHER -> H!Gives(<<>>)

SyncEnd(h, s) ==
    CASE h = "batch" -> H!batchEnd(s)
      [] h = "concat" -> H!concatEnd(s)
      [] h = "defaultIfEmpty" -> H!defaultIfEmptyEnd(s)
      [] h = "metadata" -> H!metadataEnd(s)
      [] h = "materialize" -> H!Gives(s)
      [] h = "sort" -> H!Gives(SortSeq(s, LAMBDA x, y : ItemRank(x) < ItemRank(y)))
      [] h = "group" -> H!group(s)
      [] h = "groupSingle" -> H!groupSingle(s)
      [] h = "reduce" -> H!reduceEnd(s)
      [] OTHER -> H!Gives(<<>>)

End(h, s) ==
    CASE h \in {"first", "last", "single"} -> H!OneOrThrow(s)
      [] h \in {"firstOrDefault", "lastOrDefault", "singleOrDefault"} -> H!OneOrDefault(s)
      [] h \in {"all", "any", "toArray", "groupToMap", "groupToSingleMap"} -> H!Gives(<<s>>)
      [] OTHER -> IF async THEN AsyncEnd(h, s) ELSE SyncEnd(h, s)

\* A callback that throws leaves the loop; that of while() is called after the yield.
Body(h, s, x) ==
    IF h \in CallsBack /\ x = Bad THEN H!Throw(s, IF h = "while" THEN <<x>> ELSE <<>>)
    ELSE IF async THEN AsyncItem(h, s, x) ELSE SyncItem(h, s, x)

\* These read everything when they are called, not when they are pulled.
Eager(h) ==
    \/ h = "materialize"
    \/ ~async /\ h \in {"group", "groupSingle"}

-----------------------------------------------------------------------------
N == Len(chain)
Consumer == N + 1
Stages == 1..N
IsFunction == chain[N] \in Functions

\* entered: asked before.  reads: its loop has asked the stage before it.
\* take(0) and below returns before its loop.
NewStage(h) ==
    [local |-> Locals(h), pending |-> <<>>, reads |-> FALSE, ended |-> FALSE,
     leaves |-> (h = "take" /\ n = 0), throws |-> FALSE]

NextToBuild(k) ==
    LET eager == {i \in Stages : i > k /\ Eager(chain[i])}
    IN  IF eager = {} THEN Consumer ELSE CHOOSE i \in eager : \A j \in eager : i <= j

Init ==
    /\ async \in BOOLEAN
    /\ n \in 0..MaxCount
    /\ chain \in Chains
    /\ ~async => \A i \in Stages : chain[i] \notin AsyncOnly
    /\ items \in BoundedSeq(Item, MaxItems)
    /\ read = 0 /\ source = "open"
    /\ stage = [i \in Stages |-> NewStage(chain[i])]
    /\ built = NextToBuild(0)
    /\ level = built
    /\ out = <<>> /\ status = "open"

\* The stages before i that are being read are closed: return() of a generator
\* that waits at a yield leaves its loop, and so on down to the source.
Closed(i) == {j \in 1..i - 1 : \A k \in j + 1..i : stage[k].reads /\ ~stage[k].ended}

\* Mutant: return() is not handed on to the source.
CloseStagesOnly(i, s) ==
    /\ stage' = [j \in Stages |->
                   IF j \in Closed(i) THEN [stage[j] EXCEPT !.ended = TRUE, !.pending = <<>>]
                   ELSE IF j = i THEN s ELSE stage[j]]
    /\ UNCHANGED source

Close(i, s) ==
    /\ stage' = [j \in Stages |->
                   IF j \in Closed(i) THEN [stage[j] EXCEPT !.ended = TRUE, !.pending = <<>>]
                   ELSE IF j = i THEN s ELSE stage[j]]
    /\ source' = IF source = "open" /\ (\A k \in 1..i : stage[k].reads /\ ~stage[k].ended)
                 THEN "closed" ELSE source

\* Where stage i has come to the end, in place of a further item.
AtEnd(i) ==
    LET e == End(chain[i], stage[i].local)
    IN  [stage[i] EXCEPT !.pending = e.yields, !.throws = e.throws, !.leaves = FALSE, !.ended = TRUE]

\* What an item makes of stage i.
WithItem(i, x) ==
    LET b == Body(chain[i], stage[i].local, x)
    IN  [stage[i] EXCEPT !.local = b.local, !.pending = b.yields, !.leaves = b.leaves,
                         !.throws = b.throws]

\* next() of the last stage.
Pull ==
    /\ level = Consumer /\ status = "open"
    /\ level' = N
    /\ UNCHANGED <<chainVars, read, source, stage, built, out, status>>

\* A stage that has something to yield gives it to the one that asks.
Yield(i) ==
    /\ level = i /\ stage[i].pending # <<>> /\ built # i
    /\ LET rest == [stage[i] EXCEPT !.pending = Tail(stage[i].pending)]
           x == Head(stage[i].pending)
       IN  IF i = N
           THEN /\ stage' = [stage EXCEPT ![i] = rest]
                /\ out' = Append(out, x)
                /\ status' = IF IsFunction THEN "ended" ELSE status
           ELSE /\ stage' = [stage EXCEPT ![i] = rest, ![i + 1] = WithItem(i + 1, x)]
                /\ UNCHANGED <<out, status>>
    /\ level' = i + 1
    /\ UNCHANGED <<chainVars, read, source, built>>

\* A stage in its loop asks the one before it.
Ask(i) ==
    /\ level = i /\ stage[i].pending = <<>>
    /\ ~stage[i].ended /\ ~stage[i].leaves /\ ~stage[i].throws
    /\ stage' = [stage EXCEPT ![i].reads = TRUE]
    /\ level' = i - 1
    /\ UNCHANGED <<chainVars, read, source, built, out, status>>

\* break and return: the loop closes what it reads, before what stands behind it.
LeaveLoop(i) ==
    /\ level = i /\ stage[i].pending = <<>> /\ stage[i].leaves
    /\ Close(i, AtEnd(i))
    /\ UNCHANGED <<chainVars, read, level, built, out, status>>

\* A stage that has ended tells the one that asks, which then ends its loop.
Done(i) ==
    /\ level = i /\ stage[i].pending = <<>> /\ stage[i].ended /\ ~stage[i].throws /\ built # i
    /\ IF i = N
       THEN status' = "ended" /\ UNCHANGED stage
       ELSE stage' = [stage EXCEPT ![i + 1] = AtEnd(i + 1)] /\ UNCHANGED status
    /\ level' = i + 1
    /\ UNCHANGED <<chainVars, read, source, built, out>>

\* materialize() has all the items: the next method is called.
Construct(i) ==
    /\ level = i /\ built = i /\ stage[i].ended /\ ~stage[i].throws
    /\ built' = NextToBuild(i) /\ level' = built'
    /\ UNCHANGED <<chainVars, read, source, stage, out, status>>

\* What a stage throws passes through all those behind it to the consumer.
ThrowThrough(i) ==
    /\ level = i /\ stage[i].pending = <<>> /\ stage[i].throws
    /\ Close(i, stage[i])
    /\ status' = "threw" /\ level' = Consumer
    /\ UNCHANGED <<chainVars, read, built, out>>

SourceYields ==
    /\ level = 0 /\ read < Len(items)
    /\ read' = read + 1
    /\ stage' = [stage EXCEPT ![1] = WithItem(1, items[read + 1])]
    /\ level' = 1
    /\ UNCHANGED <<chainVars, source, built, out, status>>

SourceEnds ==
    /\ level = 0 /\ read = Len(items)
    /\ source' = "exhausted"
    /\ stage' = [stage EXCEPT ![1] = AtEnd(1)]
    /\ level' = 1
    /\ UNCHANGED <<chainVars, read, built, out, status>>

SourceThrows ==
    /\ level = 0
    /\ source' = "failed" /\ status' = "threw" /\ level' = Consumer
    /\ UNCHANGED <<chainVars, read, stage, built, out>>

\* The consumer breaks out of its loop: return() of the last generator.
Return ==
    /\ level = Consumer /\ status = "open" /\ ~IsFunction
    /\ Close(N, [stage[N] EXCEPT !.ended = TRUE, !.pending = <<>>])
    /\ status' = "returned"
    /\ UNCHANGED <<chainVars, read, level, built, out>>

\* throw() of retry's generator: the predicate has the item yielded once more,
\* or lets go of it, or the error is thrown (throwOnRetryFalse).
ThrowBack ==
    /\ level = Consumer /\ status = "open" /\ chain[N] = "retry" /\ out # <<>>
    /\ Len(out) < MaxItems
    /\ \E result \in {"again", "next", "throw"} :
           stage' = [stage EXCEPT ![N].pending = IF result = "again" THEN stage[N].local ELSE <<>>,
                                  ![N].throws = (result = "throw")]
    /\ level' = N
    /\ UNCHANGED <<chainVars, read, source, built, out, status>>

Next ==
    \/ Pull \/ Return \/ ThrowBack
    \/ SourceYields \/ SourceEnds \/ SourceThrows
    \/ \E i \in Stages : Yield(i) \/ Ask(i) \/ LeaveLoop(i) \/ Done(i) \/ Construct(i) \/ ThrowThrough(i)

Spec == Init /\ [][Next]_vars

-----------------------------------------------------------------------------
(* What the helpers promise.                                                *)

Matches(s) == SelectSeq(s, H!Pred)
Passing(s) == {i \in 0..Len(s) : \A j \in 1..i : H!Pred(s[j])}
Longest(S) == CHOOSE i \in S : \A j \in S : j <= i
Smaller(a, b) == IF a < b THEN a ELSE b
FirstOf(s) == SubSeq(s, 1, Smaller(1, Len(s)))
LastOf(s) == IF s = <<>> THEN <<>> ELSE <<s[Len(s)]>>
KeysOf(s) == [i \in DOMAIN s |-> H!KeyFor(s[i])]
NewKeyAt(s) == {i \in DOMAIN s : \A j \in 1..i - 1 : H!KeyFor(s[j]) # H!KeyFor(s[i])}
PickedOf(s, I) == LET pick[i \in 0..Len(s)] ==
                          IF i = 0 THEN <<>> ELSE pick[i - 1] \o (IF i \in I THEN <<s[i]>> ELSE <<>>)
                  IN  pick[Len(s)]
OrDefault(s, d) == IF s = <<>> THEN <<d>> ELSE s
GroupsOf(s) == [k \in 1..Len(PickedOf(s, NewKeyAt(s))) |->
                   LET key == H!KeyFor(PickedOf(s, NewKeyAt(s))[k])
                   IN  <<key, SelectSeq(s, LAMBDA x : H!KeyFor(x) = key)>>]
SinglesOf(s) == [k \in DOMAIN GroupsOf(s) |->
                    IF Len(GroupsOf(s)[k][2]) = 1 THEN <<GroupsOf(s)[k][1], GroupsOf(s)[k][2][1]>>
                    ELSE Undefined]

Reference(h, s) ==
    CASE h = "assert" ->
            SubSeq(s, 1, Longest(Passing(s)))
                \o (IF Longest(Passing(s)) = Len(s) THEN <<>> ELSE <<Undefined>>)
      [] h = "batch" ->
            LET size == IF n = 0 THEN 1 ELSE n
            IN  [k \in 1..((Len(s) + size - 1) \div size) |->
                    SubSeq(s, (k - 1) * size + 1, Smaller(k * size, Len(s)))]
      [] h = "concat" -> s \o Other
      [] h = "defaultIfEmpty" -> OrDefault(s, Default)
      [] h = "distinct" -> PickedOf(s, NewKeyAt(s))
      [] h = "filter" -> Matches(s)
      [] h = "map" -> [i \in DOMAIN s |-> <<s[i], i - 1>>]
      [] h = "mapMany" -> FlattenSeq([i \in DOMAIN s |-> [k \in 1..n |-> <<s[i], k>>]])
      [] h = "metadata" ->
            [i \in DOMAIN s |-> [index |-> i - 1, isFirst |-> i = 1, isLast |-> i = Len(s), value |-> s[i]]]
      [] h = "pairwise" -> IF s = <<>> THEN <<>> ELSE [i \in 1..Len(s) - 1 |-> <<s[i], s[i + 1]>>]
      [] h = "takeWhile" -> SubSeq(s, 1, Smaller(Longest(Passing(s)) + Smaller(n, 1), Len(s)))
      [] h = "while" -> SubSeq(s, 1, Smaller(Longest(Passing(s)) + 1, Len(s)))
      [] h = "skip" -> SubSeq(s, n + 1, Len(s))
      [] h = "take" -> SubSeq(s, 1, Smaller(n, Len(s)))
      [] h = "group" -> GroupsOf(s)
      [] h = "groupToMap" -> <<GroupsOf(s)>>
      [] h = "groupSingle" -> SinglesOf(s)
      [] h = "groupToSingleMap" -> <<SinglesOf(s)>>
      [] h = "sort" -> SortSeq(s, LAMBDA x, y : ItemRank(x) < ItemRank(y))
      [] h = "all" -> <<\A i \in DOMAIN s : H!Pred(s[i])>>
      [] h = "any" -> <<\E i \in DOMAIN s : H!Pred(s[i])>>
      [] h = "first" -> OrDefault(FirstOf(Matches(s)), Undefined)
      [] h = "firstOrDefault" -> OrDefault(FirstOf(Matches(s)), Default)
      [] h = "last" -> OrDefault(LastOf(Matches(s)), Undefined)
      [] h = "lastOrDefault" -> OrDefault(LastOf(Matches(s)), Default)
      [] h = "single" -> OrDefault(Matches(s), Undefined)
      [] h = "singleOrDefault" -> OrDefault(Matches(s), Default)
      [] h \in {"forEach", "drain"} -> <<>>
      [] h = "reduce" -> IF s = <<>> THEN <<Undefined>> ELSE
                         LET acc[i \in 1..Len(s)] == IF i = 1 THEN s[1] ELSE <<acc[i - 1], s[i]>>
                         IN  <<acc[Len(s)]>>
      [] h = "toArray" -> <<s>>
      [] OTHER -> s

Expected == LET after[i \in 0..N] == IF i = 0 THEN items ELSE Reference(chain[i], after[i - 1])
            IN  after[N]

\* AsyncEnumerable.skip() leaves its loop at the first item it should skip.
SkipIsBroken == async /\ n > 0 /\ \E i \in Stages : chain[i] = "skip"

\* A chain yields what its methods promise, one by one and in order, and all of
\* it if it comes to its end; where a function must throw it does not end.
ChainAgrees ==
    chain[N] # "retry" /\ ~SkipIsBroken =>
        /\ IsPrefix(out, Expected)
        /\ status = "ended" => out = Expected

\* A source that was read is left exhausted, failed or closed, whoever of the
\* consumer, a helper that knows enough and a function that throws stopped it.
SourceReleased == status # "open" /\ source = "open" => read = 0

TypeOK ==
    /\ async \in BOOLEAN /\ n \in 0..MaxCount /\ read \in 0..Len(items)
    /\ source \in {"open", "exhausted", "closed", "failed"}
    /\ level \in 0..Consumer /\ built \in 1..Consumer
    /\ status \in {"open", "ended", "threw", "returned"}
=============================================================================
