----------------------------- MODULE SortedList -----------------------------
(***************************************************************************)
(* The sorted collections of base/source/collections:                      *)
(*   "plain"       sorted-array-list.ts                                    *)
(*   "observable"  observable/observable-sorted-array-list.ts, with a      *)
(*                 subscriber that replays its events                      *)
(*   "map"         sorted-map.ts: a Map, and a SortedArrayList of entries  *)
(* A call is a search or two, pass by pass, and what is done with their    *)
(* results.  Entries are identical if they have the same key and copy; the *)
(* entries of a map are [key, value] pairs, each made by one set().  Calls *)
(* that throw change nothing and are left out.                             *)
(***************************************************************************)
EXTENDS BinarySearch

CONSTANTS
    NoEntry,                   \* undefined
    MaxLength,                 \* bound on the length of a list
    MaxMany                    \* bound on the values of addMany(), removeMany()

ASSUME KeysAssumption == Key # {}
ASSUME NoEntryAssumption == NoEntry \notin Entry
ASSUME BoundAssumption == MaxLength \in Nat /\ MaxMany \in Nat \ {0}

VARIABLES
    variant,                   \* which of the collections it is
    call,                      \* the method that runs, or "none"
    rest,                      \* the values it has still to treat
    from, to, left,            \* a range, and its left index
    events,                    \* emitted when the call is through
    map,                       \* backingMap
    replica,                   \* what the subscriber has made of the events
    ranged,                    \* the events are of a removeRange() of several entries
    overwritten                \* set() found the key in the map

rangeVars == <<from, to, left>>
observerVars == <<events, replica, ranged>>
mapVars == <<map, overwritten>>
vars == <<list, searchVars, variant, call, rest, rangeVars, observerVars, mapVars>>

SomeKey == CHOOSE k \in Key : TRUE
Entries == {At(i) : i \in Indexes}

\* array.splice(i, removed, ...inserted)
Spliced(s, i, removed, inserted) ==
    SubSeq(s, 1, i) \o inserted \o SubSeq(s, i + removed + 1, Len(s))

Init ==
    /\ list = <<>>
    /\ target = SomeKey /\ position = "any"
    /\ min = 0 /\ max = 0 /\ middle = 0 /\ comparison = 1 /\ phase = "idle"
    /\ variant \in {"plain", "observable", "map"}
    /\ call = "none" /\ rest = <<>>
    /\ from = SomeKey /\ to = SomeKey /\ left = 0
    /\ events = <<>> /\ replica = <<>> /\ ranged = FALSE
    /\ map = [k \in Key |-> NoEntry] /\ overwritten = FALSE

\* The local variables of a search are gone.
SearchIsOver ==
    /\ target' = SomeKey /\ position' = "any"
    /\ min' = 0 /\ max' = 0 /\ middle' = 0 /\ comparison' = 1 /\ phase' = "idle"

\* Nobody observes the plain list and that of the map.
Emits(new) ==
    events' = IF variant = "observable" THEN events \o new ELSE events

Added(i, e) == [kind |-> "add", index |-> i, entry |-> e]
Removed(i, e) == [kind |-> "remove", index |-> i, entry |-> e]

-----------------------------------------------------------------------------
(* add(), addMany(), remove(), removeMany(): one value after the other.     *)

Call(method, values) ==
    /\ call = "none" /\ variant # "map"
    /\ call' = method /\ rest' = values
    /\ UNCHANGED <<list, searchVars, variant, rangeVars, observerVars, mapVars>>

\* The map's set(): a new entry, whether or not there is one of the key.
Set(e) ==
    /\ call = "none" /\ variant = "map"
    /\ e \notin Entries
    /\ map' = [map EXCEPT ![e.key] = e]
    /\ overwritten' = (overwritten \/ map[e.key] # NoEntry)
    /\ call' = "add" /\ rest' = <<e>>
    /\ UNCHANGED <<list, searchVars, variant, rangeVars, observerVars>>

Delete(k) ==
    /\ call = "none" /\ variant = "map"
    /\ map[k] # NoEntry
    /\ map' = [map EXCEPT ![k] = NoEntry]
    /\ call' = "remove" /\ rest' = <<map[k]>>
    /\ UNCHANGED <<list, searchVars, variant, rangeVars, observerVars, overwritten>>

\* add() and the observable remove() look for any entry that compares as equal;
\* indexOf() looks for the first and the last one.
SearchEntry ==
    /\ call \in {"add", "remove"} /\ phase = "idle" /\ rest # <<>>
    /\ Begin(Head(rest).key, IF call = "add" \/ variant = "observable" THEN "any" ELSE "first")
    /\ from' = Head(rest).key /\ to' = Head(rest).key
    /\ UNCHANGED <<list, variant, call, rest, left, observerVars, mapVars>>

Insert ==
    /\ call = "add" /\ phase = "found"
    /\ list' = Spliced(list, InsertionIndex, 0, <<Head(rest)>>)
    /\ Emits(<<Added(InsertionIndex, Head(rest))>>)
    /\ rest' = Tail(rest)
    /\ SearchIsOver
    /\ UNCHANGED <<variant, call, rangeVars, replica, ranged, mapVars>>

-----------------------------------------------------------------------------
(* Ranges: the first index from the left, the last one to the right.        *)

SearchRight ==
    /\ call \in {"remove", "removeRangeByComparison"}
    /\ phase = "found" /\ position = "first"
    /\ left' = FirstIndexEqualOrLarger
    /\ Begin(to, "last")
    /\ UNCHANGED <<list, variant, call, rest, from, to, observerVars, mapVars>>

right == LastIndexEqualOrSmaller
RangeFound == phase = "found" /\ position = "last"

\* indexOf(), or the one index that the observable list looks at.
Hits ==
    IF variant = "observable"
    THEN {i \in {Index} \ {Undefined} : At(i) = Head(rest)}
    ELSE {i \in left..right : left # Undefined /\ right # Undefined /\ At(i) = Head(rest)}

RemoveSearched ==
    /\ call = "remove"
    /\ IF variant = "observable" THEN phase = "found" ELSE RangeFound

Remove ==
    /\ RemoveSearched
    /\ \E i \in Hits :
          /\ \A j \in Hits : i <= j
          /\ list' = Spliced(list, i, 1, <<>>)
          /\ Emits(<<Removed(i, At(i))>>)
    /\ rest' = Tail(rest)
    /\ SearchIsOver
    /\ UNCHANGED <<variant, call, rangeVars, replica, ranged, mapVars>>

RemoveNothing ==
    /\ RemoveSearched
    /\ Hits = {}
    /\ rest' = Tail(rest)
    /\ SearchIsOver
    /\ UNCHANGED <<list, variant, call, rangeVars, observerVars, mapVars>>

RemoveRangeByComparison(f, t) ==
    /\ call = "none"
    /\ call' = "removeRangeByComparison"
    /\ Begin(f, "first")
    /\ from' = f /\ to' = t
    /\ UNCHANGED <<list, variant, rest, left, observerVars, mapVars>>

\* Mutant: right - left entries.
TakeOutOneLess(i, count) ==
    /\ list' = Spliced(list, i, IF count < 1 THEN 0 ELSE count - 1, <<>>)
    /\ Emits([j \in 1..count |-> Removed(i + j - 1, At(i + j - 1))])
    /\ ranged' = (ranged \/ (variant = "observable" /\ count > 1))
    /\ map' = [k \in Key |-> IF variant = "map" /\ \E j \in i..(i + count - 1) : At(j).key = k
                             THEN NoEntry ELSE map[k]]

\* splice(i, count), which takes out nothing if count is not positive; the map's
\* keys are deleted, whatever entry they have.
TakeOut(i, count) ==
    /\ list' = Spliced(list, i, IF count < 0 THEN 0 ELSE count, <<>>)
    /\ Emits([j \in 1..count |-> Removed(i + j - 1, At(i + j - 1))])
    /\ ranged' = (ranged \/ (variant = "observable" /\ count > 1))
    /\ map' = [k \in Key |-> IF variant = "map" /\ \E j \in i..(i + count - 1) : At(j).key = k
                             THEN NoEntry ELSE map[k]]

InBounds(i, count) == i \in Indexes /\ i + count - 1 \in Indexes

RemoveFoundRange ==
    /\ call = "removeRangeByComparison" /\ RangeFound
    /\ left # Undefined /\ right # Undefined
    /\ InBounds(left, right - left + 1)
    /\ TakeOut(left, right - left + 1)
    /\ call' = "emit"
    /\ SearchIsOver
    /\ UNCHANGED <<variant, rest, rangeVars, replica, overwritten>>

RemoveNoRange ==
    /\ call = "removeRangeByComparison" /\ RangeFound
    /\ left = Undefined \/ right = Undefined
    /\ call' = "emit"
    /\ SearchIsOver
    /\ UNCHANGED <<list, variant, rest, rangeVars, observerVars, mapVars>>

-----------------------------------------------------------------------------
(* Calls without a search.                                                  *)

RemoveAt(i) ==
    /\ call = "none" /\ i \in Indexes
    /\ TakeOut(i, 1)
    /\ call' = "emit"
    /\ UNCHANGED <<searchVars, variant, rest, rangeVars, replica, overwritten>>

\* The map refuses ranges that reach the last entry.
RemoveRange(i, count) ==
    /\ call = "none" /\ InBounds(i, count)
    /\ variant = "map" => i + count <= Length - 1
    /\ TakeOut(i, count)
    /\ call' = "emit"
    /\ UNCHANGED <<searchVars, variant, rest, rangeVars, replica, overwritten>>

\* The subscriber clears its replica, too.
Clear ==
    /\ call = "none"
    /\ list' = <<>> /\ replica' = <<>> /\ ranged' = FALSE
    /\ map' = [k \in Key |-> NoEntry] /\ overwritten' = FALSE
    /\ UNCHANGED <<searchVars, variant, call, rest, rangeVars, events>>

-----------------------------------------------------------------------------
(* Events.                                                                  *)

ValuesDone ==
    /\ call \in {"add", "remove"} /\ rest = <<>>
    /\ call' = "emit"
    /\ UNCHANGED <<list, searchVars, variant, rest, rangeVars, observerVars, mapVars>>

\* What a subscriber makes of an event.
Applied(s, e) ==
    IF e.kind = "add" THEN Spliced(s, e.index, 0, <<e.entry>>)
                      ELSE Spliced(s, e.index, 1, <<>>)

\* The subscriber treats one event of addAt$ or removeAt$ after the other.
Replay ==
    /\ call = "emit" /\ events # <<>> /\ ~ranged
    /\ replica' = Applied(replica, Head(events))
    /\ events' = Tail(events)
    /\ UNCHANGED <<list, searchVars, variant, call, rest, rangeVars, ranged, mapVars>>

\* The events of a removeRange() of several entries all bear the index from before
\* it, unlike those of removeMany(): the subscriber copies the list instead.
Copies ==
    /\ call = "emit" /\ ranged
    /\ replica' = list /\ events' = <<>> /\ ranged' = FALSE
    /\ UNCHANGED <<list, searchVars, variant, call, rest, rangeVars, mapVars>>

Return ==
    /\ call = "emit" /\ events = <<>>
    /\ call' = "none"
    /\ from' = SomeKey /\ to' = SomeKey /\ left' = 0
    /\ UNCHANGED <<list, searchVars, variant, rest, observerVars, mapVars>>

Search ==
    /\ Iterate \/ LoopEnds
    /\ UNCHANGED <<list, variant, call, rest, rangeVars, observerVars, mapVars>>

Many(n) == [1..n -> Entry]

Next ==
    \/ \E n \in 1..MaxMany : \E values \in Many(n) :
          \/ Length + n <= MaxLength /\ Call("add", values)
          \/ Call("remove", values)
    \/ \E e \in Entry : Length < MaxLength /\ Set(e)
    \/ \E k \in Key : Delete(k)
    \/ SearchEntry \/ Search \/ Insert \/ SearchRight \/ Remove \/ RemoveNothing
    \/ \E f, t \in Key : RemoveRangeByComparison(f, t)
    \/ RemoveFoundRange \/ RemoveNoRange
    \/ \E i \in Indexes : RemoveAt(i) \/ \E count \in 0..Length : RemoveRange(i, count)
    \/ Clear \/ ValuesDone \/ Replay \/ Copies \/ Return

Spec == Init /\ [][Next]_vars

-----------------------------------------------------------------------------
\* The type invariant.
TypeOK ==
    /\ list \in Seq(Entry)
    /\ target \in Key /\ position \in {"any", "first", "last"}
    /\ min \in Int /\ max \in Int /\ middle \in Int /\ comparison \in Int
    /\ phase \in {"idle", "searching", "found"}
    /\ variant \in {"plain", "observable", "map"}
    /\ call \in {"none", "add", "remove", "removeRangeByComparison", "emit"}
    /\ rest \in Seq(Entry)
    /\ from \in Key /\ to \in Key /\ left \in Int
    /\ map \in [Key -> Entry \cup {NoEntry}]

\* Removing takes out exactly what it is asked for, one identical entry or all that
\* compare as between two keys, and nothing else, whatever equal entries there are;
\* but the observable list finds an entry for sure only if no other one compares as
\* equal.
RemovesExactly ==
    [][/\ call = "remove" /\ rest' # rest /\ rest # <<>> =>
              IF Head(rest) \in Entries /\ (variant = "observable" => list' # list \/ \E i \in Indexes : Equal = {i})
              THEN \E i \in Indexes : At(i) = Head(rest) /\ list' = Spliced(list, i, 1, <<>>)
              ELSE list' = list
       /\ call = "removeRangeByComparison" /\ call' = "emit" =>
              \E i, count \in 0..Length :
                 /\ list' = Spliced(list, i, count, <<>>)
                 /\ \A j \in Indexes :
                       j \in i..(i + count - 1) <=> from <= At(j).key /\ At(j).key <= to]_vars

\* A subscriber that replays the events one after the other at their indexes has the
\* same list when the call has returned, also if it was one with several values.
ReplicaAgrees ==
    variant = "observable" /\ call = "none" => replica = list

\* The two structures of a SortedMap have the same entries, one of each key, if no
\* key was set a second time before it was deleted.
MapAgrees ==
    variant = "map" /\ call = "none" /\ ~overwritten =>
        /\ Entries = {map[k] : k \in Key} \ {NoEntry}
        /\ \A i, j \in Indexes : At(i).key = At(j).key => i = j

\* What there is of a list beside it agrees with it.
ReplicasAgree == ReplicaAgrees /\ MapAgrees

\* Every search comes to its end: each pass leaves less to search, whatever position
\* it is for.
PassesShrink ==
    [][phase = "searching" /\ phase' = "searching" => max' - min' < max - min]_vars
=============================================================================
