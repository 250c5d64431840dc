---------------------------- MODULE BinarySearch ----------------------------
(***************************************************************************)
(* base/source/utils/binary-search.ts.  _binarySearchRawIndex() is a loop  *)
(* that finds any, the first, or the last entry that compares as equal,    *)
(* and ends next to the place of a value that is not there; the searches   *)
(* are made of where it ended and of the last comparison.                  *)
(*                                                                         *)
(* Entries are compared by their key.  Indexes count from 0, as in the     *)
(* source: entry i is At(i).                                               *)
(***************************************************************************)
EXTENDS Integers, Sequences

CONSTANTS
    Key,                       \* what is compared
    Copy                       \* tells apart entries that compare as equal

ASSUME KeyAssumption == Key \subseteq Int

VARIABLES
    list,                      \* values
    target, position,          \* searchValue, position
    min, max, middle,          \* of the loop
    comparison,
    phase                      \* "idle", "searching", or "found": the loop ended

searchVars == <<target, position, min, max, middle, comparison, phase>>

Entry == [key : Key, copy : Copy]
Undefined == 0 - 1

Length == Len(list)
At(i) == list[i + 1]
Indexes == 0..(Length - 1)
Compare(e, k) == IF e.key < k THEN 0 - 1 ELSE IF e.key > k THEN 1 ELSE 0

\* The arguments of a search, and the variables before its loop.
Begin(k, p) ==
    /\ target' = k /\ position' = p
    /\ min' = 0 /\ max' = Length - 1 /\ middle' = 0
    /\ comparison' = 1
    /\ phase' = IF Length = 0 THEN "found" ELSE "searching"

\* Mutant: Math.floor for every position.
IntegerDown(sum) == sum \div 2

Integer(sum) == IF position = "last" THEN (sum + 1) \div 2 ELSE sum \div 2

\* One pass of the loop.
Iterate ==
    /\ phase = "searching" /\ min <= max
    /\ middle' = Integer(min + max)
    /\ comparison' = Compare(At(middle'), target)
    /\ \/ comparison' < 0 /\ min' = middle' + 1 /\ UNCHANGED <<max, phase>>
       \/ comparison' > 0 /\ max' = middle' - 1 /\ UNCHANGED <<min, phase>>
       \/ /\ comparison' = 0
          /\ \/ position = "first" /\ min # middle' /\ max' = middle' /\ UNCHANGED <<min, phase>>
             \/ position = "last" /\ max # middle' /\ min' = middle' /\ UNCHANGED <<max, phase>>
             \/ /\ position = "first" => min = middle'
                /\ position = "last" => max = middle'
                /\ phase' = "found" /\ UNCHANGED <<min, max>>
    /\ UNCHANGED <<target, position>>

LoopEnds ==
    /\ phase = "searching" /\ min > max
    /\ phase' = "found"
    /\ UNCHANGED <<target, position, min, max, middle, comparison>>

-----------------------------------------------------------------------------
(* What the searches return.                                                *)

\* binarySearch(), binarySearchFirst(), binarySearchLast()
Index == IF comparison = 0 THEN middle ELSE Undefined

\* Mutant: the entry after the one where the loop ended is not looked at.
FirstIndexEqualOrLargerHere == IF comparison < 0 THEN Undefined ELSE middle

FirstIndexEqualOrLarger ==
    IF middle = Length - 1 /\ comparison < 0 THEN Undefined
    ELSE IF comparison < 0 THEN middle + 1 ELSE middle

LastIndexEqualOrSmaller ==
    IF middle = 0 /\ comparison > 0 THEN Undefined
    ELSE IF comparison > 0 THEN middle - 1 ELSE middle

InsertionIndex == IF comparison <= 0 THEN middle + 1 ELSE middle

-----------------------------------------------------------------------------
(* What they should return.                                                 *)

Equal == {i \in Indexes : At(i).key = target}
EqualOrLarger == {i \in Indexes : At(i).key >= target}
EqualOrSmaller == {i \in Indexes : At(i).key <= target}

IsFirstOf(i, S) == IF S = {} THEN i = Undefined ELSE i \in S /\ \A j \in S : i <= j
IsLastOf(i, S) == IF S = {} THEN i = Undefined ELSE i \in S /\ \A j \in S : i >= j

Sorted == \A i, j \in Indexes : i < j => At(i).key <= At(j).key

\* When the loop has ended, the searches have found what their names say: an entry
\* that compares as equal if there is one, the first or the last of them if asked
\* for, the nearest one on the side asked for otherwise, and a place that keeps the
\* list sorted.  (In an empty list, the first index equal or larger is 0.)
SearchesFind ==
    phase = "found" =>
        /\ position = "any" => IF Equal = {} THEN Index = Undefined ELSE Index \in Equal
        /\ position = "any" => /\ InsertionIndex \in 0..Length
                               /\ 0..(InsertionIndex - 1) \subseteq EqualOrSmaller
                               /\ InsertionIndex..(Length - 1) \subseteq EqualOrLarger
        /\ position = "first" => IsFirstOf(Index, Equal)
        /\ position = "first" => \/ IsFirstOf(FirstIndexEqualOrLarger, EqualOrLarger)
                                 \/ Length = 0 /\ FirstIndexEqualOrLarger = 0
        /\ position = "last" => IsLastOf(Index, Equal)
        /\ position = "last" => IsLastOf(LastIndexEqualOrSmaller, EqualOrSmaller)
=============================================================================
