----------------------- MODULE ObservableCollections -----------------------
(***************************************************************************)
(* The collections of base/source/collections/observable and awaitable:    *)
(*   "array"  ObservableArray   "set"  ObservableSet   "map" ObservableMap *)
(*   "list"   AwaitableList     "awaitableSet", "awaitableMap"             *)
(* Observers are told of a change one after the other before the call that *)
(* made it returns, and may call the collection themselves: the calls nest *)
(* and those told later hear of the inner change first.  One such meddler  *)
(* has subscribed before the others: one who has the last of length$, and  *)
(* one who replays the changes.  An awaitable collection has a waiter      *)
(* instead, who reads it and awaits the next addition, again and again.    *)
(* Of a map there are the keys, of a set the values in order of insertion. *)
(***************************************************************************)
EXTENDS Integers, Sequences, SequencesExt

CONSTANTS
    Value,
    MaxSize,                   \* bound on what a collection holds
    MaxDepth,                  \* bound on the calls within calls
    MaxAtOnce                  \* bound on the values of one call

VARIABLES
    kind,
    items,                     \* backingArray, backingSet, the keys of backingMap
    frames,                    \* what is still to be told, of the innermost call first
    lengthSeen,                \* the last of length$
    copy,                      \* what is made of the changes that were told
    nested,                    \* a method was called by an observer
    waiter,                    \* reads, asks (the promise), waits
    snapshot,                  \* what the waiter has read
    missed                     \* something was added while the waiter asked

observerVars == <<frames, lengthSeen, copy, nested>>
waiterVars == <<waiter, snapshot, missed>>
vars == <<kind, items, observerVars, waiterVars>>

Observable == {"array", "set", "map"}
IsList == kind \in {"array", "list"}
Has(x) == x \in ToSet(items)

Init ==
    /\ kind \in Observable \union {"list", "awaitableSet", "awaitableMap"}
    /\ items = <<>>
    /\ frames = <<>> /\ lengthSeen = 0 /\ copy = <<>> /\ nested = FALSE
    /\ waiter = "reads" /\ snapshot = <<>> /\ missed = FALSE

-----------------------------------------------------------------------------
(* What is told of a change.                                                *)

Told(what, at, values) == [what |-> what, at |-> at, values |-> values, heard |-> FALSE]

\* A list tells the values on add$, then their places on addAt$.
onAddAt(at, values) == <<Told("add", at, values), Told("addAt", at, values)>>
onRemoveAt(at, values) == <<Told("remove", at, values), Told("removeAt", at, values)>>

onAdd(at, values) ==
    CASE kind = "array" -> onAddAt(at, values)
      [] kind = "set" -> <<Told("add", at, values)>>
      [] kind = "map" -> <<Told("change", at, values)>>
      [] OTHER -> <<>>

onRemove(at, values) ==
    CASE kind = "array" -> onRemoveAt(at, values)
      [] kind = "set" -> <<Told("remove", at, values)>>
      [] kind = "map" -> <<Told("change", at, values)>>
      [] OTHER -> <<>>

onClear == CASE kind = "map" -> <<Told("change", 0, <<>>)>>
             [] kind \in {"array", "set"} -> <<Told("clear", 0, <<>>)>>
             [] OTHER -> <<>>

\* A call from outside, or by the one who is told first of what is told now.
MayCall ==
    \/ frames = <<>>
    \/ frames # <<>> /\ Len(frames) <= MaxDepth /\ ~frames[1][1].heard

\* Observers: the call's own tellings stand before those of the outer call.
\* The waiter: firstValueFrom() has subscribed when it is called; the then() of a
\* DeferredPromise is called by a later microtask, and what it missed is reset.
Changed(new, tells, adds) ==
    /\ items' = new
    /\ frames' = (IF tells = <<>> THEN <<>> ELSE <<tells>>) \o
                 (IF frames = <<>> THEN <<>> ELSE <<[frames[1] EXCEPT ![1].heard = TRUE]>> \o Tail(frames))
    /\ nested' = (nested \/ frames # <<>>)
    /\ waiter' = IF adds /\ waiter = "waits" THEN "reads" ELSE waiter
    /\ missed' = (missed \/ (adds /\ waiter = "asks"))
    /\ copy' = IF nested' THEN <<>> ELSE copy
    /\ UNCHANGED <<kind, lengthSeen, snapshot>>

-----------------------------------------------------------------------------
(* The methods.                                                             *)

\* filter(): what of a sequence is in a set, in its order.
Kept(s, S) ==
    LET kept[i \in 0..Len(s)] ==
            IF i = 0 THEN <<>>
            ELSE IF s[i] \in S THEN Append(kept[i - 1], s[i]) ELSE kept[i - 1]
    IN  kept[Len(s)]

Inserted(at, values) == SubSeq(items, 1, at) \o values \o SubSeq(items, at + 1, Len(items))
Without(at, count) == SubSeq(items, 1, at) \o SubSeq(items, at + count + 1, Len(items))
NewOf(values) == Kept(values, Value \ ToSet(items))
Fits(values) == Len(items) + Len(values) <= MaxSize

\* Mutant: what is put at the begin wakes nobody.
AddToListUntold(at, values) ==
    /\ IsList /\ MayCall /\ Fits(values)
    /\ at \in {0, Len(items)} \union (IF items = <<>> THEN {} ELSE 0..Len(items) - 1)
    /\ Changed(Inserted(at, values), onAdd(at, values), at > 0)

\* add(), addMany(), append(), and prepend() and addAt() at other places.
AddToList(at, values) ==
    /\ IsList /\ MayCall /\ Fits(values)
    /\ at \in {0, Len(items)} \union (IF items = <<>> THEN {} ELSE 0..Len(items) - 1)
    /\ Changed(Inserted(at, values), onAdd(at, values), TRUE)

\* Mutant: the addition is told before the removal.
SetAddsFirst(at, x) ==
    /\ kind = "array" /\ MayCall /\ at + 1 \in DOMAIN items
    /\ Changed([items EXCEPT ![at + 1] = x],
               onAddAt(at, <<x>>) \o onRemoveAt(at, <<items[at + 1]>>), TRUE)

\* set(): the new value has replaced the old one when that is told.
Set(at, x) ==
    /\ kind = "array" /\ MayCall /\ at + 1 \in DOMAIN items
    /\ Changed([items EXCEPT ![at + 1] = x],
               onRemoveAt(at, <<items[at + 1]>>) \o onAddAt(at, <<x>>), TRUE)

\* removeAt(), removeRange(), remove(), pop(), shift()
RemoveFromList(at, count) ==
    /\ IsList /\ MayCall /\ count > 0 /\ at + count <= Len(items)
    /\ Changed(Without(at, count), onRemove(at, SubSeq(items, at + 1, at + count)), FALSE)

\* add() of a set and set() of a map tell of a value they had, too.
AddToSet(x) ==
    /\ ~IsList /\ MayCall /\ Fits(<<x>>)
    /\ Changed(items \o NewOf(<<x>>), onAdd(0, <<x>>), TRUE)

AddManyToSet(values) ==
    /\ kind = "set" /\ MayCall /\ Fits(values) /\ Len(values) = 2
    /\ Changed(items \o NewOf(IF values[1] = values[2] THEN <<values[1]>> ELSE values),
               onAdd(0, NewOf(values)), TRUE)

\* remove(), removeMany(), delete(): what was not there is not told.
RemoveFromSet(values) ==
    /\ ~IsList /\ MayCall
    /\ kind = "set" \/ (Len(values) = 1 /\ Has(values[1]))
    /\ LET gone == Kept(values, ToSet(items))
       IN  /\ gone # <<>>
           /\ Changed(Kept(items, Value \ ToSet(values)), onRemove(0, gone), FALSE)

Clear ==
    /\ MayCall
    /\ Changed(<<>>, onClear, FALSE)

\* What is made of a change by who replays what is told.
Made(c, told) ==
    CASE told.what = "clear" -> <<>>
      [] told.what = "change" -> items
      [] told.what = "addAt" ->
           SubSeq(c, 1, told.at) \o told.values \o SubSeq(c, told.at + 1, Len(c))
      [] told.what = "removeAt" ->
           SubSeq(c, 1, told.at) \o SubSeq(c, told.at + Len(told.values) + 1, Len(c))
      [] told.what = "add" /\ kind = "set" -> c \o Kept(told.values, Value \ ToSet(c))
      [] told.what = "remove" /\ kind = "set" -> Kept(c, Value \ ToSet(told.values))
      [] OTHER -> c

\* The others are told.  Places hold one after the other where values were added,
\* and as of before the call where they were taken out.
Tell ==
    /\ frames # <<>>
    /\ LET told == frames[1][1]
       IN  /\ lengthSeen' = IF told.what \in {"add", "remove", "clear", "change"}
                            THEN Len(items) ELSE lengthSeen
           /\ copy' = IF nested THEN copy ELSE Made(copy, told)
    /\ frames' = IF Len(frames[1]) = 1 THEN Tail(frames) ELSE <<Tail(frames[1])>> \o Tail(frames)
    /\ UNCHANGED <<kind, items, nested, waiterVars>>

-----------------------------------------------------------------------------
(* The waiter: for (;;) { read; await collection.$added }.                  *)

Awaitable == kind \notin Observable

ReadAndAwait ==
    /\ Awaitable /\ waiter = "reads"
    /\ snapshot' = items
    /\ waiter' = IF kind = "list" THEN "waits" ELSE "asks"
    /\ UNCHANGED <<kind, items, observerVars, missed>>

Then ==
    /\ waiter = "asks"
    /\ waiter' = "waits"
    /\ UNCHANGED <<kind, items, observerVars, snapshot, missed>>

Next ==
    \/ \E values \in SeqOf(Value, MaxAtOnce) \ {<<>>} :
           \/ AddManyToSet(values) \/ RemoveFromSet(values)
           \/ \E at \in 0..MaxSize : AddToList(at, values)
    \/ \E x \in Value : AddToSet(x) \/ \E at \in 0..MaxSize : Set(at, x)
    \/ \E at \in 0..MaxSize, count \in 1..MaxAtOnce : RemoveFromList(at, count)
    \/ Clear \/ Tell
    \/ ReadAndAwait \/ Then

Spec == Init /\ [][Next]_vars

-----------------------------------------------------------------------------
\* When a call has returned to its caller the last of length$ is the length,
\* whatever observers have called in between: the length is read when it is told.
\* Who replays the changes has the collection, if no observer has called it.
ObserversAgree ==
    frames = <<>> /\ ~Awaitable =>
        /\ lengthSeen = Len(items)
        /\ ~nested => IF IsList THEN copy = items ELSE ToSet(copy) = ToSet(items)

\* Who waits for an addition has read all there is.  The promise of an AwaitableSet
\* or AwaitableMap does not promise it: an addition is missed while it is asked.
WaiterHasReadAll ==
    Awaitable /\ waiter = "waits" /\ ~missed =>
        /\ ToSet(items) \subseteq ToSet(snapshot)
        /\ kind # "list" \/ Len(items) <= Len(snapshot)

TypeOK ==
    /\ items \in BoundedSeq(Value, MaxSize) /\ snapshot \in BoundedSeq(Value, MaxSize)
    /\ lengthSeen \in 0..MaxSize /\ waiter \in {"reads", "asks", "waits"}
=============================================================================
