----------------------------- MODULE ParallelFeed -----------------------------
(***************************************************************************)
(* parallelFeed() of base/source/utils/async-iterable-helpers/parallel, by *)
(* which parallelMap, parallelTap and parallelFilter are made:             *)
(* parallelForEach runs a function on every item of an input, Concurrency  *)
(* at a time, which feeds what it has to an OrderedFeedableAsyncIterable   *)
(* or a FeedableAsyncIterable; a consumer iterates that.                   *)
(*                                                                         *)
(* An item is known by its index in the input.                             *)
(***************************************************************************)
EXTENDS Integers, Sequences, FiniteSets

CONSTANTS
    Concurrency,
    MaxItems                   \* bound on the length of the input


VARIABLES
    buffer, closed, reader, received, fed, taken,       \* of the output
    keepOrder,                 \* the argument of parallelFeed()
    inBuffer, currentIndex,    \* of the ordered feedable
    index,                     \* the number of items started
    loop,                      \* where parallelForEach() is
    running,                   \* the items under way
    failing,                   \* items that failed, whose error is not pushed yet
    errors,                    \* items whose error is
    dropped,                   \* items for which nothing was fed
    failed,                    \* items whose run rejected
    told                       \* the errors that were there when the loop was over

outVars == <<buffer, closed, reader, received, fed, taken>>
orderVars == <<inBuffer, currentIndex>>
loopVars == <<index, loop, running, failing, errors>>
history == <<dropped, failed, told>>
vars == <<outVars, keepOrder, orderVars, loopVars, history>>

Items == 0..(MaxItems - 1)
InputError == 0 - 1
out == "out"

Out == INSTANCE FeedableAsyncIterable
         WITH Feedable <- {out}, Reader <- {out}, Of <- [o \in {out} |-> o],
              Item <- Items, Error <- InputError, MaxFed <- MaxItems + 1

Init ==
    /\ Out!Init
    /\ keepOrder \in BOOLEAN
    /\ inBuffer = {}
    /\ currentIndex = 0
    /\ index = 0
    /\ loop = "pulling"
    /\ running = {}
    /\ failing = {}
    /\ errors = {}
    /\ dropped = {}
    /\ failed = {}
    /\ told = {}

-----------------------------------------------------------------------------
(* OrderedFeedableAsyncIterable.feed() and dispatch()                       *)

\* The index after the items of S that follow one another from index n on.
EndOfRun(S, n) == CHOOSE m \in n..MaxItems : m \notin S /\ \A i \in n..(m - 1) : i \in S

Indexes(n, m) == [i \in 1..(m - n) |-> n + i - 1]

FeedOrdered(i) ==
    LET end == EndOfRun(inBuffer \cup {i}, currentIndex) IN
    /\ inBuffer' = (inBuffer \cup {i}) \ (currentIndex..(end - 1))
    /\ currentIndex' = end
    /\ Out!Feed(out, Indexes(currentIndex, end))

\* The feed function of parallelFeed().
Feed(i) ==
    \/ keepOrder /\ FeedOrdered(i)
    \/ ~keepOrder /\ Out!Feed(out, <<i>>) /\ UNCHANGED orderVars

-----------------------------------------------------------------------------
(* parallelForEach()                                                        *)

\* The input has an item, and its function is called.
Pull ==
    /\ loop = "pulling"
    /\ index < MaxItems
    /\ errors = {}
    /\ running' = running \cup {index}
    /\ index' = index + 1
    /\ loop' = IF Cardinality(running') >= Concurrency THEN "full" ELSE "pulling"
    /\ UNCHANGED <<outVars, keepOrder, orderVars, failing, errors, history>>

\* The input has an item, but there was an error: the loop breaks.
PullAfterError ==
    /\ loop = "pulling"
    /\ index < MaxItems
    /\ errors # {}
    /\ loop' = "draining"
    /\ UNCHANGED <<outVars, keepOrder, orderVars, index, running, failing, errors, history>>

InputEnds ==
    /\ loop = "pulling"
    /\ loop' = "draining"
    /\ UNCHANGED <<outVars, keepOrder, orderVars, index, running, failing, errors, history>>

\* The loop rejects at once, the runs go on; catch() throws into the output.
InputThrows ==
    /\ loop = "pulling"
    /\ loop' = "over"
    /\ Out!Throw({out})
    /\ UNCHANGED <<keepOrder, orderVars, index, running, failing, errors, history>>

\* running.$length
SlotIsFree ==
    /\ loop = "full"
    /\ Cardinality(running) < Concurrency
    /\ loop' = "pulling"
    /\ UNCHANGED <<outVars, keepOrder, orderVars, index, running, failing, errors, history>>

\* Mutant: the loop does not wait for what is under way.
DrainedEarly ==
    /\ loop = "draining"
    /\ loop' = "over"
    /\ IF errors = {} THEN Out!End({out}) ELSE Out!Throw({out})
    /\ told' = errors
    /\ UNCHANGED <<keepOrder, orderVars, index, running, failing, errors, dropped, failed>>

\* Mutant: catch() before then(), so that the output is ended either way.
DrainedEnds ==
    /\ loop = "draining"
    /\ running = {}
    /\ loop' = "over"
    /\ Out!End({out})
    /\ told' = errors
    /\ UNCHANGED <<keepOrder, orderVars, index, running, failing, errors, dropped, failed>>

\* Nothing is under way: then() ends the output, or catch() throws into it.
Drained ==
    /\ loop = "draining"
    /\ running = {}
    /\ loop' = "over"
    /\ IF errors = {} THEN Out!End({out}) ELSE Out!Throw({out})
    /\ told' = errors
    /\ UNCHANGED <<keepOrder, orderVars, index, running, failing, errors, dropped, failed>>

-----------------------------------------------------------------------------
(* The function on one item.                                                *)

RunFeeds(i) ==
    /\ i \in running
    /\ running' = running \ {i}
    /\ Feed(i)
    /\ UNCHANGED <<keepOrder, index, loop, failing, errors, history>>

\* The predicate of parallelFilter() says no.
RunDrops(i) ==
    /\ i \in running
    /\ running' = running \ {i}
    /\ dropped' = dropped \cup {i}
    /\ UNCHANGED <<outVars, keepOrder, orderVars, index, loop, failing, errors, failed, told>>

\* The function rejects, or feeds after the input threw ('closed').  finally()
\* deletes the run before catch() pushes its error.
RunFails(i) ==
    /\ i \in running
    /\ running' = running \ {i}
    /\ failing' = failing \cup {i}
    /\ failed' = failed \cup {i}
    /\ UNCHANGED <<outVars, keepOrder, orderVars, index, loop, errors, dropped, told>>

ErrorPushed(i) ==
    /\ i \in failing
    /\ failing' = failing \ {i}
    /\ errors' = errors \cup {i}
    /\ UNCHANGED <<outVars, keepOrder, orderVars, index, loop, running, history>>

-----------------------------------------------------------------------------
Consume ==
    /\ Out!Ask(out) \/ Out!Resume(out) \/ Out!Return(out)
    /\ UNCHANGED <<keepOrder, orderVars, loopVars, history>>

Step(i) == RunFeeds(i) \/ RunDrops(i) \/ RunFails(i) \/ ErrorPushed(i)

Next ==
    \/ Pull \/ PullAfterError \/ InputEnds \/ InputThrows \/ SlotIsFree \/ Drained
    \/ \E i \in Items : Step(i)
    \/ Consume

Spec == Init /\ [][Next]_vars

-----------------------------------------------------------------------------
\* The type invariant.
TypeOK ==
    /\ Out!TypeOK
    /\ keepOrder \in BOOLEAN
    /\ inBuffer \subseteq Items
    /\ currentIndex \in 0..MaxItems
    /\ index \in 0..MaxItems
    /\ loop \in {"pulling", "full", "draining", "over"}
    /\ running \cup failing \cup errors \cup dropped \cup failed \subseteq 0..(index - 1)
    /\ failing \cup errors = failed
    /\ told \subseteq errors
    /\ closed[out] = (loop = "over")

\* The items that are to come out: what was not dropped.  With keepOrder what
\* follows a dropped item waits in inBuffer for ever.
Expected(i) ==
    /\ i \notin dropped
    /\ keepOrder => \A j \in 0..i : j \notin dropped

Fed == {i \in Items : \E n \in DOMAIN fed[out] : fed[out][n] = i}
Thrown == \E n \in DOMAIN fed[out] : fed[out][n] = InputError

\* Each item that was started is under way, dropped, failed or fed, once.
PlaceInv ==
    /\ 0..(index - 1) = running \cup dropped \cup failed \cup Fed \cup inBuffer
    /\ running \cap dropped = {} /\ running \cap failed = {} /\ dropped \cap failed = {}
    /\ (running \cup dropped \cup failed) \cap (Fed \cup inBuffer) = {}
    /\ \A m, n \in DOMAIN fed[out] : fed[out][m] = fed[out][n] => m = n

\* With keepOrder the items before currentIndex were fed, in order.
OrderInv ==
    IF keepOrder
    THEN /\ \A n \in 1..currentIndex : fed[out][n] = n - 1
         /\ \A i \in inBuffer : i > currentIndex
         /\ Len(fed[out]) = currentIndex + (IF Thrown THEN 1 ELSE 0)
    ELSE inBuffer = {} /\ currentIndex = 0

LoopInv ==
    /\ Cardinality(running) <= Concurrency
    /\ loop = "pulling" => Cardinality(running) < Concurrency
    /\ loop = "over" => Thrown \/ (running = {} /\ told = {})

\* The inductive invariant.
IInv == TypeOK /\ Out!StreamInv /\ PlaceInv /\ OrderInv /\ LoopInv
=============================================================================
