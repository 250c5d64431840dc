------------------------- MODULE CollectionsProofs -------------------------
(***************************************************************************)
(* Proofs about the sorted collections, for lists of any length over any   *)
(* integer keys, about the observable and awaitable ones, for any values,  *)
(* sizes and depth of calls within calls, and about chains of any length.  *)
(***************************************************************************)
EXTENDS MCCollections, SequenceTheorems, WellFoundedInduction, TLAPS

-----------------------------------------------------------------------------
(* The inductive invariants of the searches and of the sorted collections.  *)

\* What has been cut off is smaller and larger than the target; but the last pass
\* for the first or the last entry that compares as equal kept one as its bound.
SmallerCutOff ==
    \/ \A i \in Indexes : i < min => At(i).key < target
    \/ position = "last" /\ min <= max /\ min \in Indexes /\ At(min).key = target
LargerCutOff ==
    \/ \A i \in Indexes : i > max => At(i).key > target
    \/ position = "first" /\ min <= max /\ max \in Indexes /\ At(max).key = target

\* If nothing is left, the last pass cut off from the middle on.
NothingLeft ==
    min > max => \/ comparison < 0 /\ min = middle + 1
                 \/ comparison > 0 /\ max = middle - 1

Hit ==
    /\ comparison = 0 /\ middle \in Indexes /\ At(middle).key = target
    /\ position = "first" => \A i \in Indexes : i < middle => At(i).key < target
    /\ position = "last" => \A i \in Indexes : i > middle => At(i).key > target

LoopInv ==
    phase # "idle" =>
        /\ min \in 0..Length /\ max \in Undefined..(Length - 1)
        /\ middle \in Indexes \/ (Length = 0 /\ middle = 0 /\ comparison = 1)
        /\ SmallerCutOff /\ LargerCutOff /\ NothingLeft
        /\ phase = "searching" => Length > 0
        /\ phase = "found" => min > max \/ Hit

\* A search belongs to a call, and that of add() is for the place of its value.
CallInv ==
    phase # "idle" =>
        /\ call \in {"add", "remove", "removeRangeByComparison"}
        /\ call \in {"add", "remove"} => rest # <<>>
        /\ call = "add" => position = "any" /\ target = Head(rest).key

\* What is removed is looked for with the keys of the call, first from the left, where
\* the search has found the first entry of the range, then from the right.
FoundLeft ==
    \/ IsFirstOf(left, {i \in Indexes : At(i).key >= from})
    \/ Length = 0 /\ left = 0
RangeInv ==
    phase # "idle" /\ call # "add" =>
        /\ call = "remove" => from = Head(rest).key /\ to = from
        /\ IF call = "remove" /\ variant = "observable"
           THEN position = "any" /\ target = from
           ELSE \/ position = "first" /\ target = from
                \/ position = "last" /\ target = to /\ FoundLeft

\* In a map that has overwritten nothing, the value of a call is in one of the two
\* structures: that of set() not yet in the list, that of delete() no longer in the
\* map.
Stored == {map[k] : k \in Key} \ {NoEntry}
MapInv ==
    variant = "map" /\ ~overwritten =>
        /\ \A k \in Key : map[k] # NoEntry => map[k].key = k
        /\ \A i, j \in Indexes : At(i).key = At(j).key => i = j
        /\ CASE call = "add" /\ rest # <<>> ->
                   Len(rest) = 1 /\ rest[1] \in Stored /\ Entries = Stored \ {rest[1]}
             [] call = "remove" /\ rest # <<>> ->
                   /\ Len(rest) = 1 /\ map[rest[1].key] = NoEntry
                   /\ Entries = Stored \cup {rest[1]}
             [] OTHER -> Entries = Stored

\* The inductive invariant of Sorted and SearchesFind.
IInv == TypeOK /\ Sorted /\ LoopInv /\ CallInv /\ left >= Undefined

-----------------------------------------------------------------------------
(* Sorted sequences.                                                        *)

\* s is sorted: Sorted of a sequence, with the indexes of TLA+.
SortedSeq(s) == \A i, j \in 1..Len(s) : i < j => s[i].key <= s[j].key

LEMMA SortedMeans ==
    ASSUME list \in Seq(Entry)
    PROVE  Sorted <=> SortedSeq(list)
<1>1. Len(list) \in Nat
  OBVIOUS
<1>2. ASSUME Sorted PROVE SortedSeq(list)
  <2> SUFFICES ASSUME NEW i \in 1..Len(list), NEW j \in 1..Len(list), i < j
               PROVE  list[i].key <= list[j].key
    BY DEF SortedSeq
  <2>1. i - 1 \in Indexes /\ j - 1 \in Indexes /\ i - 1 < j - 1
    BY <1>1 DEF Indexes, Length
  <2>2. (i - 1) + 1 = i /\ (j - 1) + 1 = j
    BY <1>1
  <2> QED
    BY <1>2, <2>1, <2>2 DEF Sorted, At
<1>3. ASSUME SortedSeq(list) PROVE Sorted
  <2> SUFFICES ASSUME NEW i \in Indexes, NEW j \in Indexes, i < j
               PROVE  At(i).key <= At(j).key
    BY DEF Sorted
  <2>1. i + 1 \in 1..Len(list) /\ j + 1 \in 1..Len(list) /\ i + 1 < j + 1
    BY <1>1 DEF Indexes, Length
  <2> QED
    BY <1>3, <2>1 DEF SortedSeq, At
<1> QED
  BY <1>2, <1>3

\* What is left by splice(), place by place.
LEMMA LeftOver ==
    ASSUME NEW T, NEW s \in Seq(T), NEW i \in Nat, NEW n \in Nat, i + n <= Len(s)
    PROVE  /\ Spliced(s, i, n, <<>>) \in Seq(T)
           /\ Len(Spliced(s, i, n, <<>>)) = Len(s) - n
           /\ \A k \in 1..(Len(s) - n) :
                 Spliced(s, i, n, <<>>)[k] = IF k <= i THEN s[k] ELSE s[k + n]
<1> DEFINE a == SubSeq(s, 1, i)
           b == SubSeq(s, i + n + 1, Len(s))
           r == a \o b
<1>1. Len(s) \in Nat
  OBVIOUS
<1>2. a \in Seq(T) /\ Len(a) = i /\ \A k \in 1..i : a[k] = s[k]
  BY <1>1
<1>3. b \in Seq(T) /\ Len(b) = Len(s) - i - n /\ \A k \in 1..Len(b) : b[k] = s[i + n + k]
  BY <1>1
<1>4. Spliced(s, i, n, <<>>) = r
  BY <1>2, <1>3 DEF Spliced
<1>5. /\ r \in Seq(T) /\ Len(r) = Len(a) + Len(b)
      /\ \A k \in 1..(Len(a) + Len(b)) : r[k] = IF k <= Len(a) THEN a[k] ELSE b[k - Len(a)]
  <2> HIDE DEF a, b
  <2> QED
    BY ConcatProperties, <1>2, <1>3
<1> HIDE DEF a, b, r
<1>6. r \in Seq(T) /\ Len(r) = Len(s) - n
  BY <1>1, <1>2, <1>3, <1>5
<1>7. ASSUME NEW k \in 1..(Len(s) - n)
      PROVE  r[k] = IF k <= i THEN s[k] ELSE s[k + n]
  <2>1. r[k] = IF k <= i THEN a[k] ELSE b[k - i]
    <3>1. k \in 1..(Len(a) + Len(b))
      BY <1>1, <1>2, <1>3
    <3> QED
      BY <1>2, <1>5, <3>1
  <2>2. CASE k <= i
    BY <1>2, <2>1, <2>2
  <2>3. CASE k > i
    <3>1. k - i \in 1..Len(b) /\ i + n + (k - i) = k + n
      BY <1>1, <1>3, <2>3
    <3>2. b[k - i] = s[i + n + (k - i)]
      BY <1>3, <3>1
    <3> QED
      BY <2>1, <2>3, <3>1, <3>2
  <2> QED
    BY <2>2, <2>3
<1> QED
  BY <1>4, <1>6, <1>7

\* What there is after splice() has put in one entry, place by place.
LEMMA WithOneMore ==
    ASSUME NEW T, NEW s \in Seq(T), NEW e \in T, NEW i \in Nat, i <= Len(s)
    PROVE  /\ Spliced(s, i, 0, <<e>>) \in Seq(T)
           /\ Len(Spliced(s, i, 0, <<e>>)) = Len(s) + 1
           /\ \A k \in 1..(Len(s) + 1) :
                 Spliced(s, i, 0, <<e>>)[k] = IF k <= i THEN s[k] ELSE IF k = i + 1 THEN e ELSE s[k - 1]
<1> DEFINE a == SubSeq(s, 1, i)
           b == SubSeq(s, i + 0 + 1, Len(s))
           c == a \o <<e>>
           r == c \o b
<1>1. Len(s) \in Nat
  OBVIOUS
<1>2. a \in Seq(T) /\ Len(a) = i /\ \A k \in 1..i : a[k] = s[k]
  BY <1>1
<1>3. b \in Seq(T) /\ Len(b) = Len(s) - i /\ \A k \in 1..Len(b) : b[k] = s[i + k]
  BY <1>1
<1>4. /\ c \in Seq(T) /\ Len(c) = Len(a) + 1
      /\ \A k \in 1..(Len(a) + 1) : c[k] = IF k <= Len(a) THEN a[k] ELSE <<e>>[k - Len(a)]
  <2> HIDE DEF a
  <2>1. <<e>> \in Seq(T) /\ Len(<<e>>) = 1
    OBVIOUS
  <2> QED
    BY ConcatProperties, <1>2, <2>1
<1>5. /\ r \in Seq(T) /\ Len(r) = Len(c) + Len(b)
      /\ \A k \in 1..(Len(c) + Len(b)) : r[k] = IF k <= Len(c) THEN c[k] ELSE b[k - Len(c)]
  <2> HIDE DEF b, c
  <2> QED
    BY ConcatProperties, <1>3, <1>4
<1>6. Spliced(s, i, 0, <<e>>) = r
  BY <1>2, <1>3 DEF Spliced
<1> HIDE DEF a, b, c, r
<1>7. Len(c) = i + 1 /\ (\A k \in 1..i : c[k] = s[k]) /\ c[i + 1] = e
  <2>1. <<e>>[(i + 1) - i] = e
    OBVIOUS
  <2>2. (i + 1) \in 1..(i + 1) /\ ~(i + 1 <= i) /\ \A k \in 1..i : k \in 1..(i + 1) /\ k <= i
    OBVIOUS
  <2> QED
    BY <1>2, <1>4, <2>1, <2>2
<1>8. r \in Seq(T) /\ Len(r) = Len(s) + 1
  BY <1>1, <1>3, <1>5, <1>7
<1>9. ASSUME NEW k \in 1..(Len(s) + 1)
      PROVE  r[k] = IF k <= i THEN s[k] ELSE IF k = i + 1 THEN e ELSE s[k - 1]
  <2>1. r[k] = IF k <= i + 1 THEN c[k] ELSE b[k - (i + 1)]
    BY <1>1, <1>3, <1>5, <1>7
  <2>2. CASE k <= i
    BY <1>7, <2>1, <2>2
  <2>3. CASE k = i + 1
    BY <1>7, <2>1, <2>3
  <2>4. CASE k > i + 1
    <3>1. k - (i + 1) \in 1..Len(b) /\ i + (k - (i + 1)) = k - 1
      BY <1>1, <1>3, <2>4
    <3>2. b[k - (i + 1)] = s[i + (k - (i + 1))]
      BY <1>3, <3>1
    <3> QED
      BY <2>1, <2>4, <3>1, <3>2
  <2> QED
    BY <2>2, <2>3, <2>4
<1> QED
  BY <1>6, <1>8, <1>9

\* What splice() takes out leaves the rest of the list sorted.
LEMMA TakenOut ==
    ASSUME NEW s \in Seq(Entry), SortedSeq(s),
           NEW i \in Nat, NEW n \in Nat, i + n <= Len(s)
    PROVE  Spliced(s, i, n, <<>>) \in Seq(Entry) /\ SortedSeq(Spliced(s, i, n, <<>>))
<1> DEFINE r == Spliced(s, i, n, <<>>)
<1>1. Len(s) \in Nat /\ r \in Seq(Entry) /\ Len(r) = Len(s) - n
  BY LeftOver
<1>2. \A k \in 1..(Len(s) - n) : r[k] = IF k <= i THEN s[k] ELSE s[k + n]
  BY LeftOver
<1> HIDE DEF r
<1>3. SortedSeq(r)
  <2> SUFFICES ASSUME NEW k \in 1..Len(r), NEW l \in 1..Len(r), k < l
               PROVE  r[k].key <= r[l].key
    BY DEF SortedSeq
  <2> DEFINE K == IF k <= i THEN k ELSE k + n
             L == IF l <= i THEN l ELSE l + n
  <2>1. K \in 1..Len(s) /\ L \in 1..Len(s) /\ K < L
    BY <1>1
  <2>2. r[k] = s[K] /\ r[l] = s[L]
    BY <1>1, <1>2
  <2> QED
    BY <2>1, <2>2 DEF SortedSeq
<1> QED
  BY <1>1, <1>3 DEF r

\* An entry that is spliced in between the smaller and the larger ones.
LEMMA PutIn ==
    ASSUME NEW s \in Seq(Entry), SortedSeq(s), NEW e \in Entry,
           NEW i \in Nat, i <= Len(s),
           \A k \in 1..i : s[k].key <= e.key,
           \A k \in (i + 1)..Len(s) : s[k].key >= e.key
    PROVE  Spliced(s, i, 0, <<e>>) \in Seq(Entry) /\ SortedSeq(Spliced(s, i, 0, <<e>>))
<1> DEFINE r == Spliced(s, i, 0, <<e>>)
<1>1. Len(s) \in Nat
  OBVIOUS
<1>2. r \in Seq(Entry) /\ Len(r) = Len(s) + 1
  BY WithOneMore
<1>3. \A k \in 1..(Len(s) + 1) : r[k] = IF k <= i THEN s[k] ELSE IF k = i + 1 THEN e ELSE s[k - 1]
  BY WithOneMore
<1> HIDE DEF r
<1>4. SortedSeq(r)
  <2> SUFFICES ASSUME NEW k \in 1..Len(r), NEW l \in 1..Len(r), k < l
               PROVE  r[k].key <= r[l].key
    BY DEF SortedSeq
  <2>1. CASE k = i + 1
    <3>1. r[k] = e /\ r[l] = s[l - 1] /\ l - 1 \in (i + 1)..Len(s)
      BY <1>1, <1>2, <1>3, <2>1
    <3>2. s[l - 1].key >= e.key
      BY <3>1
    <3>3. s[l - 1] \in Entry
      BY <3>1, <1>1
    <3>4. \A x \in Entry : x.key \in Int
      BY KeyAssumption DEF Entry
    <3> QED
      BY <3>1, <3>2, <3>3, <3>4
  <2>2. CASE l = i + 1
    <3>1. k \in 1..i /\ k <= i /\ ~(l <= i)
      BY <1>1, <1>2, <2>2
    <3>2. r[l] = e /\ r[k] = s[k]
      BY <1>3, <2>2, <3>1
    <3> QED
      BY <3>1, <3>2
  <2>3. CASE k # i + 1 /\ l # i + 1
    <3> DEFINE K == IF k <= i THEN k ELSE k - 1
               L == IF l <= i THEN l ELSE l - 1
    <3>1. K \in 1..Len(s) /\ L \in 1..Len(s) /\ K < L
      BY <1>1, <1>2, <2>3
    <3>2. r[k] = s[K] /\ r[l] = s[L]
      BY <1>1, <1>2, <1>3, <2>3
    <3> QED
      BY <3>1, <3>2 DEF SortedSeq
  <2> QED
    BY <2>1, <2>2, <2>3
<1> QED
  BY <1>2, <1>4 DEF r

-----------------------------------------------------------------------------
(* The search.                                                              *)

LEMMA Keys ==
    ASSUME TypeOK
    PROVE  /\ Length \in Nat
           /\ \A i \in Indexes : i \in Nat /\ At(i) \in Entry /\ At(i).key \in Int
           /\ target \in Int
<1>1. list \in Seq(Entry) /\ Length \in Nat
  BY DEF TypeOK, Length
<1>2. \A x \in Entry : x.key \in Int
  BY KeyAssumption DEF Entry
<1>3. ASSUME NEW i \in Indexes PROVE i \in Nat /\ At(i) \in Entry
  <2>1. i \in Nat /\ i + 1 \in 1..Len(list)
    BY <1>1 DEF Indexes, Length
  <2> QED
    BY <1>1, <2>1 DEF At
<1>4. target \in Int
  BY KeyAssumption DEF TypeOK
<1> QED
  BY <1>1, <1>2, <1>3, <1>4

\* The middle lies between the bounds.
LEMMA MiddleLemma ==
    ASSUME NEW a \in Int, NEW b \in Int, a <= b
    PROVE  Integer(a + b) \in Int /\ a <= Integer(a + b) /\ Integer(a + b) <= b
<1>1. (a + b) \div 2 \in Int /\ a <= (a + b) \div 2 /\ (a + b) \div 2 <= b
  OBVIOUS
<1>2. ((a + b) + 1) \div 2 \in Int /\ a <= ((a + b) + 1) \div 2 /\ ((a + b) + 1) \div 2 <= b
  OBVIOUS
<1> QED
  BY <1>1, <1>2 DEF Integer

\* When the loop has ended, what it has cut off and where it ended are the answer.
LEMMA FoundLemma ==
    ASSUME TypeOK, Sorted, LoopInv
    PROVE  SearchesFind
<1> SUFFICES ASSUME phase = "found" PROVE SearchesFind
  BY DEF SearchesFind
<1>k. Length \in Nat /\ target \in Int /\ \A i \in Indexes : i \in Nat /\ At(i).key \in Int
  BY Keys
<1>t. min \in Int /\ max \in Int /\ middle \in Int /\ comparison \in Int
  BY DEF TypeOK
<1>e. /\ \A i \in Indexes : i \in Equal <=> At(i).key = target
      /\ \A i \in Indexes : i \in EqualOrLarger <=> At(i).key >= target
      /\ \A i \in Indexes : i \in EqualOrSmaller <=> At(i).key <= target
  BY DEF Equal, EqualOrLarger, EqualOrSmaller
<1>s. Equal \subseteq Indexes /\ EqualOrLarger \subseteq Indexes /\ EqualOrSmaller \subseteq Indexes
  BY DEF Equal, EqualOrLarger, EqualOrSmaller
<1>i. \A i : i \in Indexes <=> i \in 0..(Length - 1)
  BY DEF Indexes
<1>1. CASE Length = 0
  <2>1. Indexes = {} /\ Equal = {} /\ EqualOrLarger = {} /\ EqualOrSmaller = {}
    BY <1>1, <1>s, <1>i
  <2>2. middle = 0 /\ comparison = 1
    BY <2>1 DEF LoopInv
  <2>3. /\ Index = Undefined /\ InsertionIndex = 0
        /\ FirstIndexEqualOrLarger = 0 /\ LastIndexEqualOrSmaller = Undefined
    BY <1>1, <2>2 DEF Index, InsertionIndex, FirstIndexEqualOrLarger, LastIndexEqualOrSmaller, Undefined
  <2> QED
    BY <1>1, <2>1, <2>3 DEF SearchesFind, IsFirstOf, IsLastOf
<1>2. CASE Length > 0 /\ Hit
  <2>1. middle \in Indexes /\ At(middle).key = target /\ comparison = 0
    BY <1>2 DEF Hit
  <2>2. /\ Index = middle /\ InsertionIndex = middle + 1
        /\ FirstIndexEqualOrLarger = middle /\ LastIndexEqualOrSmaller = middle
    BY <2>1 DEF Index, InsertionIndex, FirstIndexEqualOrLarger, LastIndexEqualOrSmaller
  <2>3. middle \in Equal /\ middle \in EqualOrLarger /\ middle \in EqualOrSmaller
    BY <2>1, <1>e, <1>k
  <2>4. ASSUME position = "any"
        PROVE  /\ 0..middle \subseteq EqualOrSmaller
               /\ (middle + 1)..(Length - 1) \subseteq EqualOrLarger
    BY <2>1, <1>e, <1>i, <1>k DEF Sorted
  <2>5. ASSUME position = "first"
        PROVE  (\A i \in Equal : middle <= i) /\ (\A i \in EqualOrLarger : middle <= i)
    <3>1. \A i \in Indexes : i < middle => At(i).key < target
      BY <2>5, <1>2 DEF Hit
    <3>2. \A i \in Indexes : i < middle => i \notin Equal /\ i \notin EqualOrLarger
      BY <3>1, <1>e, <1>k
    <3>3. \A i \in Indexes : i < middle \/ middle <= i
      BY <1>k, <1>t
    <3> QED
      BY <3>2, <3>3, <1>s
  <2>6. ASSUME position = "last"
        PROVE  (\A i \in Equal : middle >= i) /\ (\A i \in EqualOrSmaller : middle >= i)
    <3>1. \A i \in Indexes : i > middle => At(i).key > target
      BY <2>6, <1>2 DEF Hit
    <3>2. \A i \in Indexes : i > middle => i \notin Equal /\ i \notin EqualOrSmaller
      BY <3>1, <1>e, <1>k
    <3>3. \A i \in Indexes : i > middle \/ middle >= i
      BY <1>k, <1>t
    <3> QED
      BY <3>2, <3>3, <1>s
  <2>7. InsertionIndex \in 0..Length /\ 0..(InsertionIndex - 1) = 0..middle
    BY <2>1, <2>2, <1>i, <1>k
  <2>8. ASSUME position = "any"
        PROVE  /\ Index \in Equal /\ InsertionIndex \in 0..Length
               /\ 0..(InsertionIndex - 1) \subseteq EqualOrSmaller
               /\ InsertionIndex..(Length - 1) \subseteq EqualOrLarger
    <3>1. InsertionIndex..(Length - 1) = (middle + 1)..(Length - 1)
      BY <2>2
    <3> QED
      BY <2>2, <2>3, <2>4, <2>7, <2>8, <3>1
  <2>9. ASSUME position = "first"
        PROVE  IsFirstOf(Index, Equal) /\ IsFirstOf(FirstIndexEqualOrLarger, EqualOrLarger)
    BY <2>2, <2>3, <2>5, <2>9 DEF IsFirstOf
  <2>10. ASSUME position = "last"
         PROVE  IsLastOf(Index, Equal) /\ IsLastOf(LastIndexEqualOrSmaller, EqualOrSmaller)
    BY <2>2, <2>3, <2>6, <2>10 DEF IsLastOf
  <2> QED
    BY <2>3, <2>8, <2>9, <2>10 DEF SearchesFind
<1>3. CASE Length > 0 /\ ~Hit
  <2>1. min > max /\ middle \in Indexes
    BY <1>3 DEF LoopInv
  <2>2. /\ \A i \in Indexes : i < min => At(i).key < target
        /\ \A i \in Indexes : i > max => At(i).key > target
    BY <2>1, <1>t DEF LoopInv, SmallerCutOff, LargerCutOff
  <2>3. Equal = {}
    <3>1. \A i \in Indexes : i < min \/ i > max
      BY <2>1, <1>k, <1>t
    <3>2. \A i \in Indexes : At(i).key # target
      BY <3>1, <2>2, <1>k
    <3> QED
      BY <3>2, <1>e, <1>s
  <2>4. \/ comparison < 0 /\ min = middle + 1
        \/ comparison > 0 /\ max = middle - 1
    BY <2>1 DEF LoopInv, NothingLeft
  <2>5. CASE comparison < 0 /\ min = middle + 1
    <3>1. /\ Index = Undefined /\ InsertionIndex = middle + 1
          /\ FirstIndexEqualOrLarger = IF middle = Length - 1 THEN Undefined ELSE middle + 1
          /\ LastIndexEqualOrSmaller = middle
      BY <2>5, <1>t DEF Index, InsertionIndex, FirstIndexEqualOrLarger, LastIndexEqualOrSmaller
    <3>2. \A i \in Indexes : (i <= middle => i \in EqualOrSmaller) /\ (i > middle => i \in EqualOrLarger)
      BY <2>1, <2>2, <2>5, <1>e, <1>k, <1>t
    <3>3. /\ \A i \in EqualOrSmaller : i \in Indexes /\ i <= middle
          /\ \A i \in EqualOrLarger : i \in Indexes /\ i > middle
      <4>1. \A i \in Indexes : (i <= middle => i \notin EqualOrLarger) /\ (i > middle => i \notin EqualOrSmaller)
        BY <2>1, <2>2, <2>5, <1>e, <1>k, <1>t
      <4>2. \A i \in Indexes : i <= middle \/ i > middle
        BY <1>k, <1>t
      <4> QED
        BY <4>1, <4>2, <1>s
    <3>5. IsLastOf(middle, EqualOrSmaller)
      BY <2>1, <3>2, <3>3, <1>t, <1>k DEF IsLastOf
    <3>6. IsFirstOf(FirstIndexEqualOrLarger, EqualOrLarger)
      <4>1. CASE middle = Length - 1
        <5>1. EqualOrLarger = {}
          BY <4>1, <3>3, <1>i, <1>k
        <5> QED
          BY <5>1, <4>1, <3>1 DEF IsFirstOf
      <4>2. CASE middle # Length - 1
        <5>1. middle + 1 \in EqualOrLarger
          BY <4>2, <2>1, <3>2, <1>i, <1>k
        <5>2. \A i \in EqualOrLarger : middle + 1 <= i
          BY <3>3, <1>k, <1>t
        <5> QED
          BY <5>1, <5>2, <4>2, <3>1 DEF IsFirstOf
      <4> QED
        BY <4>1, <4>2
    <3>7. IsFirstOf(Index, Equal) /\ IsLastOf(Index, Equal)
      BY <2>3, <3>1 DEF IsFirstOf, IsLastOf
    <3>8. IsLastOf(LastIndexEqualOrSmaller, EqualOrSmaller) /\ Index = Undefined
      <4>1. LastIndexEqualOrSmaller = middle /\ Index = Undefined
        BY <3>1
      <4> QED
        BY <4>1, <3>5
    <3>9. /\ InsertionIndex \in 0..Length
          /\ 0..(InsertionIndex - 1) \subseteq EqualOrSmaller
          /\ InsertionIndex..(Length - 1) \subseteq EqualOrLarger
      <4>1. InsertionIndex = middle + 1
        BY <3>1
      <4> QED
        BY <4>1, <2>1, <3>2, <1>i, <1>k
    <3> QED
      BY <2>3, <3>6, <3>7, <3>8, <3>9 DEF SearchesFind
  <2>6. CASE comparison > 0 /\ max = middle - 1
    <3>1. /\ Index = Undefined /\ InsertionIndex = middle
          /\ FirstIndexEqualOrLarger = middle
          /\ LastIndexEqualOrSmaller = IF middle = 0 THEN Undefined ELSE middle - 1
      BY <2>6, <1>t DEF Index, InsertionIndex, FirstIndexEqualOrLarger, LastIndexEqualOrSmaller
    <3>2. \A i \in Indexes : (i < middle => i \in EqualOrSmaller) /\ (i >= middle => i \in EqualOrLarger)
      BY <2>1, <2>2, <2>6, <1>e, <1>k, <1>t
    <3>3. /\ \A i \in EqualOrSmaller : i \in Indexes /\ i < middle
          /\ \A i \in EqualOrLarger : i \in Indexes /\ i >= middle
      <4>1. \A i \in Indexes : (i < middle => i \notin EqualOrLarger) /\ (i >= middle => i \notin EqualOrSmaller)
        BY <2>1, <2>2, <2>6, <1>e, <1>k, <1>t
      <4>2. \A i \in Indexes : i < middle \/ i >= middle
        BY <1>k, <1>t
      <4> QED
        BY <4>1, <4>2, <1>s
    <3>4. /\ middle \in 0..Length
          /\ 0..(middle - 1) \subseteq EqualOrSmaller
          /\ middle..(Length - 1) \subseteq EqualOrLarger
      BY <2>1, <3>2, <1>i, <1>k
    <3>5. IsFirstOf(middle, EqualOrLarger)
      BY <2>1, <3>2, <3>3, <1>t, <1>k DEF IsFirstOf
    <3>6. IsLastOf(LastIndexEqualOrSmaller, EqualOrSmaller)
      <4>1. CASE middle = 0
        <5>1. EqualOrSmaller = {}
          BY <4>1, <3>3, <1>i, <1>k
        <5> QED
          BY <5>1, <4>1, <3>1 DEF IsLastOf
      <4>2. CASE middle # 0
        <5>1. middle - 1 \in EqualOrSmaller
          BY <4>2, <2>1, <3>2, <1>i, <1>k
        <5>2. \A i \in EqualOrSmaller : middle - 1 >= i
          BY <3>3, <1>k, <1>t
        <5> QED
          BY <5>1, <5>2, <4>2, <3>1 DEF IsLastOf
      <4> QED
        BY <4>1, <4>2
    <3>7. IsFirstOf(Index, Equal) /\ IsLastOf(Index, Equal)
      BY <2>3, <3>1 DEF IsFirstOf, IsLastOf
    <3>8. IsFirstOf(FirstIndexEqualOrLarger, EqualOrLarger) /\ Index = Undefined
      <4>1. FirstIndexEqualOrLarger = middle /\ Index = Undefined
        BY <3>1
      <4> QED
        BY <4>1, <3>5
    <3>9. /\ InsertionIndex \in 0..Length
          /\ 0..(InsertionIndex - 1) \subseteq EqualOrSmaller
          /\ InsertionIndex..(Length - 1) \subseteq EqualOrLarger
      BY <3>1, <3>4
    <3> QED
      BY <2>3, <3>6, <3>7, <3>8, <3>9 DEF SearchesFind
  <2> QED
    BY <2>4, <2>5, <2>6
<1> QED
  BY <1>1, <1>2, <1>3, <1>k

\* A search begins with nothing cut off.
LEMMA BeginLemma ==
    ASSUME TypeOK, NEW k \in Key, NEW p, Begin(k, p), UNCHANGED list
    PROVE  LoopInv'
<1>1. Length \in Nat /\ Length' = Length /\ Indexes' = Indexes
  BY Keys DEF Length, Indexes
<1>2. /\ min' = 0 /\ max' = Length - 1 /\ middle' = 0 /\ comparison' = 1
      /\ phase' = IF Length = 0 THEN "found" ELSE "searching"
  BY DEF Begin
<1>3. 0 \in Indexes' \/ Length' = 0
  BY <1>1 DEF Indexes
<1>4. SmallerCutOff' /\ LargerCutOff'
  <2>1. \A i \in Indexes' : ~(i < min') /\ ~(i > max')
    BY <1>1, <1>2 DEF Indexes
  <2> QED
    BY <2>1 DEF SmallerCutOff, LargerCutOff
<1>5. NothingLeft'
  BY <1>1, <1>2 DEF NothingLeft
<1>6. min' \in 0..Length' /\ max' \in Undefined..(Length' - 1)
  BY <1>1, <1>2 DEF Undefined
<1>7. phase' = "found" => min' > max'
  BY <1>1, <1>2
<1>8. phase' = "searching" => Length' > 0
  BY <1>1, <1>2
<1> QED
  BY <1>1, <1>2, <1>3, <1>4, <1>5, <1>6, <1>7, <1>8 DEF LoopInv

\* One pass cuts off only what is on the wrong side of the target.
LEMMA IterateLemma ==
    ASSUME TypeOK, Sorted, LoopInv, Iterate, UNCHANGED list
    PROVE  LoopInv'
<1>k. Length \in Nat /\ target \in Int /\ \A i \in Indexes : i \in Nat /\ At(i).key \in Int
  BY Keys
<1>u. /\ Length' = Length /\ Indexes' = Indexes /\ (\A i : At(i)' = At(i))
      /\ target' = target /\ position' = position
  BY DEF Length, Indexes, At, Iterate
<1>t. min \in 0..Length /\ max \in Undefined..(Length - 1) /\ min \in Int /\ max \in Int /\ min <= max
  BY <1>k DEF LoopInv, Iterate, Undefined
<1>m. /\ middle' = Integer(min + max) /\ middle' \in Int /\ min <= middle' /\ middle' <= max
      /\ middle' \in Indexes
  <2>1. middle' = Integer(min + max)
    BY DEF Iterate
  <2>2. middle' \in Int /\ min <= middle' /\ middle' <= max
    BY <2>1, <1>t, MiddleLemma
  <2> QED
    BY <2>1, <2>2, <1>k, <1>t DEF Indexes, Undefined
<1>s. SmallerCutOff /\ LargerCutOff /\ phase = "searching" /\ Length > 0
  BY DEF LoopInv, Iterate
<1>c. comparison' = Compare(At(middle'), target)
  BY DEF Iterate
<1>d. At(middle').key \in Int
  BY <1>k, <1>m
<1>1. CASE comparison' < 0 /\ min' = middle' + 1 /\ UNCHANGED <<max, phase>>
  <2>1. At(middle').key < target
    BY <1>1, <1>c, <1>d, <1>k DEF Compare
  <2>2. \A i \in Indexes : i < min' => At(i).key < target
    <3> SUFFICES ASSUME NEW i \in Indexes, i < min' PROVE At(i).key < target
      OBVIOUS
    <3>1. i = middle' \/ i < middle'
      BY <1>1, <1>k, <1>m
    <3>2. At(i).key <= At(middle').key
      BY <3>1, <1>m, <1>k DEF Sorted
    <3> QED
      BY <3>2, <2>1, <1>k, <1>d
  <2>3. SmallerCutOff'
    BY <2>2, <1>u DEF SmallerCutOff
  <2>4. LargerCutOff'
    <3>1. CASE \A i \in Indexes : i > max => At(i).key > target
      BY <3>1, <1>1, <1>u DEF LargerCutOff
    <3>2. CASE position = "first" /\ min <= max /\ max \in Indexes /\ At(max).key = target
      <4>1. max # middle'
        BY <3>2, <2>1, <1>k
      <4>2. min' <= max'
        BY <4>1, <1>1, <1>m, <1>t
      <4> QED
        BY <3>2, <4>2, <1>1, <1>u DEF LargerCutOff
    <3> QED
      BY <3>1, <3>2, <1>s DEF LargerCutOff
  <2>5. NothingLeft' /\ min' \in 0..Length' /\ max' \in Undefined..(Length' - 1)
    BY <1>1, <1>m, <1>t, <1>u, <1>k DEF NothingLeft
  <2> QED
    BY <2>3, <2>4, <2>5, <1>1, <1>m, <1>s, <1>u DEF LoopInv
<1>2. CASE comparison' > 0 /\ max' = middle' - 1 /\ UNCHANGED <<min, phase>>
  <2>1. At(middle').key > target
    BY <1>2, <1>c, <1>d, <1>k DEF Compare
  <2>2. \A i \in Indexes : i > max' => At(i).key > target
    <3> SUFFICES ASSUME NEW i \in Indexes, i > max' PROVE At(i).key > target
      OBVIOUS
    <3>1. i = middle' \/ i > middle'
      BY <1>2, <1>k, <1>m
    <3>2. At(i).key >= At(middle').key
      BY <3>1, <1>m, <1>k DEF Sorted
    <3> QED
      BY <3>2, <2>1, <1>k, <1>d
  <2>3. LargerCutOff'
    BY <2>2, <1>u DEF LargerCutOff
  <2>4. SmallerCutOff'
    <3>1. CASE \A i \in Indexes : i < min => At(i).key < target
      BY <3>1, <1>2, <1>u DEF SmallerCutOff
    <3>2. CASE position = "last" /\ min <= max /\ min \in Indexes /\ At(min).key = target
      <4>1. min # middle'
        BY <3>2, <2>1, <1>k
      <4>2. min' <= max'
        BY <4>1, <1>2, <1>m, <1>t
      <4> QED
        BY <3>2, <4>2, <1>2, <1>u DEF SmallerCutOff
    <3> QED
      BY <3>1, <3>2, <1>s DEF SmallerCutOff
  <2>5. NothingLeft' /\ min' \in 0..Length' /\ max' \in Undefined..(Length' - 1)
    BY <1>2, <1>m, <1>t, <1>u, <1>k DEF NothingLeft, Undefined
  <2> QED
    BY <2>3, <2>4, <2>5, <1>2, <1>m, <1>s, <1>u DEF LoopInv
<1>3. CASE comparison' = 0 /\ position = "first" /\ min # middle' /\ max' = middle' /\ UNCHANGED <<min, phase>>
  <2>1. At(middle').key = target
    BY <1>3, <1>c, <1>d, <1>k DEF Compare
  <2>2. LargerCutOff'
    BY <2>1, <1>3, <1>m, <1>u DEF LargerCutOff
  <2>3. SmallerCutOff'
    BY <1>3, <1>s, <1>u DEF SmallerCutOff
  <2>4. NothingLeft' /\ min' \in 0..Length' /\ max' \in Undefined..(Length' - 1)
    BY <1>3, <1>m, <1>t, <1>u, <1>k DEF NothingLeft, Undefined, Indexes
  <2> QED
    BY <2>2, <2>3, <2>4, <1>3, <1>m, <1>s, <1>u DEF LoopInv
<1>4. CASE comparison' = 0 /\ position = "last" /\ max # middle' /\ min' = middle' /\ UNCHANGED <<max, phase>>
  <2>1. At(middle').key = target
    BY <1>4, <1>c, <1>d, <1>k DEF Compare
  <2>2. SmallerCutOff'
    BY <2>1, <1>4, <1>m, <1>u DEF SmallerCutOff
  <2>3. LargerCutOff'
    BY <1>4, <1>s, <1>u DEF LargerCutOff
  <2>4. NothingLeft' /\ min' \in 0..Length' /\ max' \in Undefined..(Length' - 1)
    BY <1>4, <1>m, <1>t, <1>u, <1>k DEF NothingLeft, Undefined, Indexes
  <2> QED
    BY <2>2, <2>3, <2>4, <1>4, <1>m, <1>s, <1>u DEF LoopInv
<1>5. CASE /\ comparison' = 0
           /\ position = "first" => min = middle'
           /\ position = "last" => max = middle'
           /\ phase' = "found" /\ UNCHANGED <<min, max>>
  <2>1. At(middle').key = target
    BY <1>5, <1>c, <1>d, <1>k DEF Compare
  <2>2. SmallerCutOff' /\ LargerCutOff'
    BY <1>5, <1>s, <1>u DEF SmallerCutOff, LargerCutOff
  <2>3. NothingLeft' /\ min' \in 0..Length' /\ max' \in Undefined..(Length' - 1)
    BY <1>5, <1>t, <1>u DEF NothingLeft
  <2>4. Hit'
    <3>1. position = "first" => \A i \in Indexes : i < middle' => At(i).key < target
      BY <1>5, <1>s DEF SmallerCutOff
    <3>2. position = "last" => \A i \in Indexes : i > middle' => At(i).key > target
      BY <1>5, <1>s DEF LargerCutOff
    <3>3. At(middle)' = At(middle')
      BY <1>u DEF At
    <3> QED
      BY <2>1, <3>1, <3>2, <3>3, <1>5, <1>m, <1>u DEF Hit
  <2> QED
    BY <2>2, <2>3, <2>4, <1>5, <1>m, <1>u DEF LoopInv
<1> QED
  BY <1>1, <1>2, <1>3, <1>4, <1>5 DEF Iterate

-----------------------------------------------------------------------------
(* The calls.                                                               *)

\* Where the searches for a range end lies in the list.
LEMMA RangeLemma ==
    ASSUME TypeOK, LoopInv, phase = "found"
    PROVE  /\ Index \in Indexes \cup {Undefined}
           /\ FirstIndexEqualOrLarger \in Int /\ FirstIndexEqualOrLarger >= Undefined
           /\ LastIndexEqualOrSmaller \in Int /\ LastIndexEqualOrSmaller < Length
<1>1. Length \in Nat
  BY Keys
<1>2. middle \in Indexes \/ (Length = 0 /\ middle = 0 /\ comparison = 1)
  BY DEF LoopInv
<1>3. middle \in Nat /\ comparison \in Int /\ \A i \in Indexes : i \in Nat /\ i < Length
  BY <1>1, <1>2 DEF Indexes, TypeOK
<1>4. Index \in Indexes \cup {Undefined}
  BY <1>2 DEF Index
<1>5. FirstIndexEqualOrLarger \in Int /\ FirstIndexEqualOrLarger >= Undefined
  BY <1>1, <1>3 DEF FirstIndexEqualOrLarger, Undefined
<1>6. LastIndexEqualOrSmaller \in Int /\ LastIndexEqualOrSmaller < Length
  BY <1>1, <1>2, <1>3 DEF LastIndexEqualOrSmaller, Undefined
<1> QED
  BY <1>4, <1>5, <1>6

\* What is taken out of the list leaves it sorted.
LEMMA TakeOutLemma ==
    ASSUME TypeOK, Sorted, NEW i \in Indexes, NEW n \in Nat, i + n <= Length,
           list' = Spliced(list, i, n, <<>>)
    PROVE  list' \in Seq(Entry) /\ Sorted'
<1>1. list \in Seq(Entry) /\ SortedSeq(list) /\ i \in Nat
  BY SortedMeans, Keys DEF TypeOK
<1>2. list' \in Seq(Entry) /\ SortedSeq(list')
  BY <1>1, TakenOut DEF Length
<1>3. (list \in Seq(Entry) => (Sorted <=> SortedSeq(list)))'
  BY SortedMeans, PTL
<1> QED
  BY <1>2, <1>3 DEF SortedSeq

\* The value of add() goes where the search for its place has ended.
LEMMA InsertLemma ==
    ASSUME TypeOK, Sorted, LoopInv, CallInv, Insert
    PROVE  list' \in Seq(Entry) /\ Sorted'
<1> DEFINE e == Head(rest)
           i == InsertionIndex
<1>1. list \in Seq(Entry) /\ SortedSeq(list) /\ Length \in Nat /\ Length = Len(list)
  BY SortedMeans, Keys DEF TypeOK, Length
<1>2. phase = "found" /\ position = "any" /\ target = e.key /\ rest # <<>>
  BY DEF Insert, CallInv
<1>3. e \in Entry
  BY <1>2 DEF TypeOK
<1>4. /\ i \in 0..Length
      /\ 0..(i - 1) \subseteq EqualOrSmaller
      /\ i..(Length - 1) \subseteq EqualOrLarger
  BY <1>2, FoundLemma DEF SearchesFind
<1>5. list' = Spliced(list, i, 0, <<e>>)
  BY DEF Insert
<1> HIDE DEF i, e
<1>6. ASSUME NEW k \in 1..i PROVE list[k].key <= e.key
  <2>1. k - 1 \in EqualOrSmaller /\ (k - 1) + 1 = k
    BY <1>1, <1>4
  <2> QED
    BY <2>1, <1>2 DEF EqualOrSmaller, At
<1>7. ASSUME NEW k \in (i + 1)..Len(list) PROVE list[k].key >= e.key
  <2>1. k - 1 \in EqualOrLarger /\ (k - 1) + 1 = k
    BY <1>1, <1>4
  <2> QED
    BY <2>1, <1>2 DEF EqualOrLarger, At
<1>8. list' \in Seq(Entry) /\ SortedSeq(list')
  <2>1. i \in Nat /\ i <= Len(list)
    BY <1>1, <1>4
  <2> QED
    BY <2>1, <1>1, <1>3, <1>5, <1>6, <1>7, PutIn
<1>9. (list \in Seq(Entry) => (Sorted <=> SortedSeq(list)))'
  BY SortedMeans, PTL
<1> QED
  BY <1>8, <1>9 DEF SortedSeq

\* No entry, and one after the other, are taken out sorted, too.
LEMMA RemoveLemma ==
    ASSUME TypeOK, Sorted, LoopInv, left >= Undefined, Remove
    PROVE  list' \in Seq(Entry) /\ Sorted'
<1>1. Length \in Nat /\ phase = "found" /\ left \in Int
  BY Keys DEF Remove, RemoveSearched, RangeFound, TypeOK
<1>2. PICK i \in Hits : list' = Spliced(list, i, 1, <<>>)
  BY DEF Remove
<1>3. i \in Indexes
  <2>1. CASE variant = "observable"
    BY <2>1, <1>1, <1>2, RangeLemma DEF Hits
  <2>2. CASE variant # "observable"
    <3>1. i \in left..right /\ left # Undefined
      BY <2>2, <1>2 DEF Hits
    <3>2. right \in Int /\ right < Length
      BY <1>1, RangeLemma DEF right
    <3>3. left >= 0
      BY <3>1, <1>1 DEF Undefined
    <3> QED
      BY <3>1, <3>2, <3>3, <1>1 DEF Indexes
  <2> QED
    BY <2>1, <2>2
<1>4. i + 1 <= Length
  BY <1>1, <1>3 DEF Indexes
<1> QED
  BY <1>2, <1>3, <1>4, TakeOutLemma

LEMMA TakenRange ==
    ASSUME TypeOK, Sorted, NEW i \in Int, NEW n \in Int, InBounds(i, n), TakeOut(i, n)
    PROVE  list' \in Seq(Entry) /\ Sorted' /\ map' \in [Key -> Entry \cup {NoEntry}]
<1>1. Length \in Nat /\ i \in Indexes
  BY Keys DEF InBounds
<1> DEFINE m == IF n < 0 THEN 0 ELSE n
<1>2. m \in Nat /\ i + m <= Length /\ list' = Spliced(list, i, m, <<>>)
  BY <1>1 DEF InBounds, Indexes, TakeOut
<1>3. list' \in Seq(Entry) /\ Sorted'
  <2> HIDE DEF m
  <2> QED
    BY <1>1, <1>2, TakeOutLemma
<1>4. map' \in [Key -> Entry \cup {NoEntry}]
  BY DEF TypeOK, TakeOut
<1> QED
  BY <1>3, <1>4

-----------------------------------------------------------------------------
(* The inductive invariant.                                                 *)

LEMMA Initially ==
    Init => IInv
<1> SUFFICES ASSUME Init PROVE IInv
  OBVIOUS
<1>1. SomeKey \in Key
  BY KeysAssumption DEF SomeKey
<1>2. TypeOK
  BY <1>1 DEF Init, TypeOK
<1>3. Sorted
  BY DEF Init, Sorted, Indexes, Length
<1> QED
  BY <1>2, <1>3 DEF Init, IInv, LoopInv, CallInv, Undefined

\* A step without a search before and after it.
LEMMA IdleLemma ==
    ASSUME phase' = "idle"
    PROVE  LoopInv' /\ CallInv'
BY DEF LoopInv, CallInv

LEMMA SameList ==
    ASSUME Sorted, UNCHANGED list
    PROVE  Sorted'
BY DEF Sorted, Indexes, Length, At

LEMMA Inductive ==
    IInv /\ [Next]_vars => IInv'
<1> SUFFICES ASSUME IInv, [Next]_vars PROVE IInv'
  OBVIOUS
<1> USE DEF IInv
<1>k. SomeKey \in Key
  BY KeysAssumption DEF SomeKey
<1>e. \A x \in Entry : x.key \in Key
  BY DEF Entry
<1>n. Length \in Nat /\ \A i \in Indexes : i \in Nat
  BY Keys
<1>r. rest # <<>> => Head(rest) \in Entry /\ Tail(rest) \in Seq(Entry)
  BY DEF TypeOK
<1>o. SearchIsOver =>
        /\ target' \in Key /\ position' \in {"any", "first", "last"} /\ phase' = "idle"
        /\ min' \in Int /\ max' \in Int /\ middle' \in Int /\ comparison' \in Int
  BY <1>k DEF SearchIsOver
<1>b. ASSUME NEW x \in Key, NEW p \in {"any", "first", "last"}, Begin(x, p), UNCHANGED list
      PROVE  /\ target' = x /\ position' = p /\ LoopInv'
             /\ min' \in Int /\ max' \in Int /\ middle' \in Int /\ comparison' \in Int
             /\ phase' \in {"searching", "found"}
  BY <1>b, <1>n, BeginLemma DEF Begin
<1>1. ASSUME NEW method \in {"add", "remove"}, NEW values \in Seq(Entry), Call(method, values)
      PROVE  IInv'
  <2>1. phase' = "idle"
    BY <1>1 DEF Call, CallInv, TypeOK, searchVars
  <2>2. TypeOK'
    BY <1>1 DEF Call, TypeOK, searchVars, rangeVars, observerVars, mapVars
  <2> QED
    BY <1>1, <2>1, <2>2, IdleLemma, SameList DEF Call, rangeVars
<1>2. ASSUME NEW e \in Entry, Set(e)
      PROVE  IInv'
  <2>1. phase' = "idle"
    BY <1>2 DEF Set, CallInv, TypeOK, searchVars
  <2>2. map' \in [Key -> Entry \cup {NoEntry}] /\ rest' \in Seq(Entry)
    BY <1>2, <1>e DEF Set, TypeOK
  <2>3. TypeOK'
    BY <1>2, <2>2 DEF Set, TypeOK, searchVars, rangeVars, observerVars
  <2> QED
    BY <1>2, <2>1, <2>3, IdleLemma, SameList DEF Set, rangeVars
<1>3. ASSUME NEW k \in Key, Delete(k)
      PROVE  IInv'
  <2>1. phase' = "idle"
    BY <1>3 DEF Delete, CallInv, TypeOK, searchVars
  <2>2. map[k] \in Entry /\ map' \in [Key -> Entry \cup {NoEntry}]
    BY <1>3 DEF Delete, TypeOK
  <2>3. TypeOK'
    BY <1>3, <2>2 DEF Delete, TypeOK, searchVars, rangeVars, observerVars
  <2> QED
    BY <1>3, <2>1, <2>3, IdleLemma, SameList DEF Delete, rangeVars
<1>4. CASE SearchEntry
  <2> DEFINE x == Head(rest).key
             p == IF call = "add" \/ variant = "observable" THEN "any" ELSE "first"
  <2>1. x \in Key /\ p \in {"any", "first", "last"} /\ Begin(x, p) /\ UNCHANGED list
    BY <1>4, <1>r, <1>e DEF SearchEntry
  <2>2. call = "add" => p = "any"
    OBVIOUS
  <2>3. /\ target' = x /\ position' = p /\ LoopInv'
        /\ min' \in Int /\ max' \in Int /\ middle' \in Int /\ comparison' \in Int
        /\ phase' \in {"searching", "found"}
    <3> HIDE DEF x, p
    <3> QED
      BY <2>1, <1>b
  <2>4. /\ call \in {"add", "remove"} /\ rest # <<>> /\ from' = x /\ to' = x
        /\ UNCHANGED <<list, variant, call, rest, left, map>>
    BY <1>4 DEF SearchEntry, observerVars, mapVars
  <2>5. CallInv'
    BY <2>2, <2>3, <2>4 DEF CallInv
  <2>6. TypeOK'
    <3> HIDE DEF x, p
    <3> QED
      BY <2>1, <2>3, <2>4 DEF TypeOK
  <2> QED
    BY <2>3, <2>4, <2>5, <2>6, SameList
<1>5. CASE Search
  <2>1. /\ UNCHANGED <<list, variant, call, rest, from, to, left, map, target, position>>
        /\ phase = "searching"
    BY <1>5 DEF Search, Iterate, LoopEnds, rangeVars, observerVars, mapVars
  <2>2. LoopInv' /\ min' \in Int /\ max' \in Int /\ middle' \in Int /\ comparison' \in Int
        /\ phase' \in {"searching", "found"}
    <3>1. CASE Iterate
      <4>1. LoopInv'
        BY <3>1, <2>1, IterateLemma
      <4>2. phase' \in {"searching", "found"} /\ comparison' \in Int
        BY <3>1 DEF Iterate, Compare, TypeOK
      <4>3. min' \in Int /\ max' \in Int /\ middle' \in Int
        <5>1. min \in Int /\ max \in Int /\ min <= max /\ middle' = Integer(min + max)
          BY <3>1 DEF Iterate, TypeOK
        <5>2. middle' \in Int
          BY <5>1, MiddleLemma
        <5> QED
          BY <5>1, <5>2, <3>1 DEF Iterate
      <4> QED
        BY <4>1, <4>2, <4>3
    <3>2. CASE LoopEnds
      <4>1. /\ UNCHANGED <<list, target, position, min, max, middle, comparison>>
            /\ phase = "searching" /\ phase' = "found" /\ min > max
        BY <3>2, <2>1 DEF LoopEnds
      <4>2. SmallerCutOff' /\ LargerCutOff' /\ NothingLeft'
        BY <4>1 DEF LoopInv, SmallerCutOff, LargerCutOff, NothingLeft, Indexes, Length, At
      <4>3. Indexes' = Indexes /\ Length' = Length
        BY <4>1 DEF Indexes, Length
      <4>4. LoopInv'
        BY <4>1, <4>2, <4>3 DEF LoopInv
      <4> QED
        BY <4>1, <4>4 DEF TypeOK
    <3> QED
      BY <1>5, <3>1, <3>2 DEF Search
  <2>3. CallInv'
    BY <2>1, <2>2 DEF CallInv
  <2>4. TypeOK'
    BY <2>1, <2>2 DEF TypeOK
  <2> QED
    BY <2>1, <2>2, <2>3, <2>4, SameList
<1>6. CASE Insert
  <2>1. list' \in Seq(Entry) /\ Sorted'
    BY <1>6, InsertLemma
  <2>2. rest # <<>> /\ UNCHANGED <<variant, call, from, to, left, map>> /\ rest' = Tail(rest) /\ SearchIsOver
    BY <1>6 DEF Insert, CallInv, rangeVars, mapVars
  <2>3. TypeOK'
    BY <2>1, <2>2, <1>o, <1>r DEF TypeOK
  <2> QED
    BY <2>1, <2>2, <2>3, <1>o, IdleLemma
<1>7. CASE SearchRight
  <2>1. Begin(to, "last") /\ to \in Key /\ phase = "found"
    BY <1>7 DEF SearchRight, TypeOK
  <2>2. /\ left' = FirstIndexEqualOrLarger /\ call \in {"remove", "removeRangeByComparison"}
        /\ UNCHANGED <<list, variant, call, rest, from, to, map>>
    BY <1>7 DEF SearchRight, observerVars, mapVars
  <2>3. /\ target' = to /\ position' = "last" /\ LoopInv'
        /\ min' \in Int /\ max' \in Int /\ middle' \in Int /\ comparison' \in Int
        /\ phase' \in {"searching", "found"}
    BY <2>1, <2>2, <1>b
  <2>4. left' \in Int /\ left' >= Undefined
    BY <2>1, <2>2, RangeLemma
  <2>5. CallInv'
    BY <2>1, <2>2, <2>3 DEF CallInv
  <2>6. TypeOK'
    BY <2>1, <2>2, <2>3, <2>4 DEF TypeOK
  <2>7. (left >= Undefined)'
    BY <2>4 DEF Undefined
  <2> QED
    BY <2>2, <2>3, <2>5, <2>6, <2>7, SameList
<1>8. CASE Remove
  <2>1. list' \in Seq(Entry) /\ Sorted'
    BY <1>8, RemoveLemma
  <2>2. /\ rest # <<>> /\ UNCHANGED <<variant, call, from, to, left, map>>
        /\ rest' = Tail(rest) /\ SearchIsOver
    BY <1>8 DEF Remove, RemoveSearched, RangeFound, CallInv, rangeVars, mapVars
  <2>3. TypeOK'
    BY <2>1, <2>2, <1>o, <1>r DEF TypeOK
  <2> QED
    BY <2>1, <2>2, <2>3, <1>o, IdleLemma
<1>9. CASE RemoveNothing
  <2>1. /\ rest # <<>> /\ UNCHANGED <<list, variant, call, from, to, left, map>>
        /\ rest' = Tail(rest) /\ SearchIsOver
    BY <1>9 DEF RemoveNothing, RemoveSearched, RangeFound, CallInv, rangeVars, observerVars, mapVars
  <2>2. TypeOK'
    BY <2>1, <1>o, <1>r DEF TypeOK
  <2> QED
    BY <2>1, <2>2, <1>o, IdleLemma, SameList
<1>10. ASSUME NEW f \in Key, NEW t \in Key, RemoveRangeByComparison(f, t)
       PROVE  IInv'
  <2>1. /\ Begin(f, "first") /\ from' = f /\ to' = t /\ call' = "removeRangeByComparison"
        /\ UNCHANGED <<list, variant, rest, left, map>>
    BY <1>10 DEF RemoveRangeByComparison, observerVars, mapVars
  <2>2. /\ target' = f /\ position' = "first" /\ LoopInv'
        /\ min' \in Int /\ max' \in Int /\ middle' \in Int /\ comparison' \in Int
        /\ phase' \in {"searching", "found"}
    BY <2>1, <1>b
  <2>3. CallInv'
    BY <2>1 DEF CallInv
  <2>4. TypeOK'
    BY <2>1, <2>2 DEF TypeOK
  <2> QED
    BY <2>1, <2>2, <2>3, <2>4, SameList
<1>11. CASE RemoveFoundRange
  <2>1. left \in Int /\ right \in Int /\ InBounds(left, right - left + 1) /\ TakeOut(left, right - left + 1)
    BY <1>11, RangeLemma DEF RemoveFoundRange, RangeFound, right, TypeOK
  <2>2. right - left + 1 \in Int
    BY <2>1
  <2>3. list' \in Seq(Entry) /\ Sorted' /\ map' \in [Key -> Entry \cup {NoEntry}]
    BY <2>1, <2>2, TakenRange
  <2>4. call' = "emit" /\ SearchIsOver /\ UNCHANGED <<variant, rest, from, to, left>>
    BY <1>11 DEF RemoveFoundRange, rangeVars
  <2>5. TypeOK'
    BY <2>3, <2>4, <1>o DEF TypeOK
  <2> QED
    BY <2>3, <2>4, <2>5, <1>o, IdleLemma
<1>12. CASE RemoveNoRange
  <2>1. call' = "emit" /\ SearchIsOver /\ UNCHANGED <<list, variant, rest, from, to, left, map>>
    BY <1>12 DEF RemoveNoRange, rangeVars, observerVars, mapVars
  <2>2. TypeOK'
    BY <2>1, <1>o DEF TypeOK
  <2> QED
    BY <2>1, <2>2, <1>o, IdleLemma, SameList
<1>13. ASSUME NEW i \in Indexes, NEW n \in Int, InBounds(i, n), TakeOut(i, n),
              call = "none", call' = "emit",
              UNCHANGED <<searchVars, variant, rest, rangeVars>>
       PROVE  IInv'
  <2>1. list' \in Seq(Entry) /\ Sorted' /\ map' \in [Key -> Entry \cup {NoEntry}]
    BY <1>13, <1>n, TakenRange
  <2>2. phase' = "idle"
    BY <1>13 DEF CallInv, TypeOK, searchVars
  <2>3. TypeOK'
    BY <1>13, <2>1 DEF TypeOK, searchVars, rangeVars
  <2> QED
    BY <1>13, <2>1, <2>2, <2>3, IdleLemma DEF rangeVars
<1>14. ASSUME NEW i \in Indexes, RemoveAt(i)
       PROVE  IInv'
  <2>1. InBounds(i, 1)
    BY <1>14, <1>n DEF InBounds, Indexes
  <2> QED
    BY <1>13, <1>14, <2>1 DEF RemoveAt
<1>15. ASSUME NEW i \in Indexes, NEW count \in 0..Length, RemoveRange(i, count)
       PROVE  IInv'
  <2>1. count \in Int
    BY <1>n
  <2> QED
    BY <1>13, <1>15, <2>1 DEF RemoveRange
<1>16. CASE Clear
  <2>1. /\ call = "none" /\ list' = <<>> /\ map' = [k \in Key |-> NoEntry]
        /\ UNCHANGED <<target, position, min, max, middle, comparison, phase, variant, call, rest, from, to, left>>
    BY <1>16 DEF Clear, searchVars, rangeVars
  <2>2. phase' = "idle"
    BY <2>1 DEF CallInv, TypeOK
  <2>3. TypeOK'
    <3>1. list' \in Seq(Entry) /\ map' \in [Key -> Entry \cup {NoEntry}]
      BY <2>1
    <3> QED
      BY <2>1, <3>1 DEF TypeOK
  <2>4. Sorted'
    BY <2>1 DEF Sorted, Indexes, Length
  <2> QED
    BY <2>1, <2>2, <2>3, <2>4, IdleLemma
<1>17. CASE ValuesDone \/ Replay \/ Copies
  <2>1. /\ \/ call = "emit" /\ call' = call
           \/ call \in {"add", "remove"} /\ rest = <<>> /\ call' = "emit"
        /\ UNCHANGED <<list, target, position, min, max, middle, comparison, phase, variant, rest, from, to, left, map>>
    BY <1>17 DEF ValuesDone, Replay, Copies, searchVars, rangeVars, observerVars, mapVars
  <2>2. phase' = "idle"
    BY <2>1 DEF CallInv, TypeOK
  <2>3. TypeOK'
    BY <2>1 DEF TypeOK
  <2> QED
    BY <2>1, <2>2, <2>3, IdleLemma, SameList
<1>18. CASE Return
  <2>1. /\ call = "emit" /\ call' = "none" /\ from' = SomeKey /\ to' = SomeKey /\ left' = 0
        /\ UNCHANGED <<list, target, position, min, max, middle, comparison, phase, variant, rest, map>>
    BY <1>18 DEF Return, searchVars, observerVars, mapVars
  <2>2. phase' = "idle"
    BY <2>1 DEF CallInv, TypeOK
  <2>3. TypeOK'
    BY <2>1, <1>k DEF TypeOK
  <2>4. (left >= Undefined)'
    BY <2>1 DEF Undefined
  <2> QED
    BY <2>1, <2>2, <2>3, <2>4, IdleLemma, SameList
<1>19. CASE UNCHANGED vars
  <2>1. /\ UNCHANGED <<list, target, position, min, max, middle, comparison, phase>>
        /\ UNCHANGED <<variant, call, rest, from, to, left, map>>
    BY <1>19 DEF vars, searchVars, rangeVars, mapVars
  <2>2. LoopInv'
    BY <2>1 DEF LoopInv, SmallerCutOff, LargerCutOff, NothingLeft, Hit, Indexes, Length, At
  <2> QED
    BY <2>1, <2>2, SameList DEF TypeOK, CallInv
<1>20. \A n \in 1..MaxMany : Many(n) \subseteq Seq(Entry)
  BY BoundAssumption DEF Many
<1>21. CASE Next
  BY <1>21, <1>1, <1>2, <1>3, <1>4, <1>5, <1>6, <1>7, <1>8, <1>9, <1>10, <1>11, <1>12,
     <1>14, <1>15, <1>16, <1>17, <1>18, <1>20 DEF Next
<1> QED
  BY <1>19, <1>21

\* The inductive invariant holds: the loop's bounds enclose whatever the search may
\* still find, and the list is sorted, between any calls.
THEOREM Invariant ==
    Spec => []IInv
BY Initially, Inductive, PTL DEF Spec

\* Every insertion goes to a place that keeps the list sorted, and no removal, of an
\* entry or of a range, disturbs the order: for lists of any length.
THEOREM StaysSorted ==
    Spec => []Sorted
<1>1. IInv => Sorted
  BY DEF IInv
<1> QED
  BY <1>1, Invariant, PTL

\* _binarySearchRawIndex() finds any, the first or the last entry that compares as
\* equal, and the place of one that is not there, in sorted lists of any length.
THEOREM FindsWhatIsAsked ==
    Spec => []SearchesFind
<1>1. IInv => SearchesFind
  BY FoundLemma DEF IInv
<1> QED
  BY <1>1, Invariant, PTL

\* Only a pass of the loop goes on searching.
LEMMA OnlyPasses ==
    ASSUME IInv, Next, phase = "searching", phase' = "searching"
    PROVE  Iterate
<1>1. call \in {"add", "remove", "removeRangeByComparison"} /\ (call \in {"add", "remove"} => rest # <<>>)
  BY DEF IInv, CallInv
<1>2. ~Insert /\ ~SearchRight /\ ~Remove /\ ~RemoveNothing /\ ~RemoveFoundRange /\ ~RemoveNoRange
  BY DEF Insert, SearchRight, Remove, RemoveNothing, RemoveSearched, RangeFound, RemoveFoundRange, RemoveNoRange
<1>3. ~Clear /\ ~ValuesDone /\ ~Replay /\ ~Copies /\ ~Return
  BY <1>1 DEF Clear, ValuesDone, Replay, Copies, Return
<1>4. \A m, values : ~Call(m, values)
  BY <1>1 DEF Call
<1>5. \A e : ~Set(e) /\ ~Delete(e)
  BY <1>1 DEF Set, Delete
<1>6. \A i, j : ~RemoveAt(i) /\ ~RemoveRange(i, j) /\ ~RemoveRangeByComparison(i, j)
  BY <1>1 DEF RemoveAt, RemoveRange, RemoveRangeByComparison
<1>7. ~SearchEntry /\ ~LoopEnds
  BY DEF SearchEntry, LoopEnds
<1>8. Search
  BY <1>2, <1>3, <1>4, <1>5, <1>6, <1>7 DEF Next
<1> QED
  BY <1>7, <1>8 DEF Search

\* A pass that does not find its entry leaves fewer indexes between the bounds: the
\* middle is rounded away from the bound that is kept.
LEMMA Shrinks ==
    ASSUME IInv, Iterate, phase' = "searching"
    PROVE  max' - min' < max - min
<1>1. min \in Int /\ max \in Int /\ min <= max /\ middle' = Integer(min + max)
  BY DEF IInv, TypeOK, Iterate
<1>2. middle' \in Int /\ min <= middle' /\ middle' <= max
  BY <1>1, MiddleLemma
<1>3. position = "first" /\ min # middle' => middle' < max
  BY <1>1, <1>2 DEF Integer
<1>4. position = "last" /\ max # middle' => min < middle'
  BY <1>1, <1>2 DEF Integer
<1>5. \/ min' = middle' + 1 /\ max' = max
      \/ max' = middle' - 1 /\ min' = min
      \/ position = "first" /\ min # middle' /\ max' = middle' /\ min' = min
      \/ position = "last" /\ max # middle' /\ min' = middle' /\ max' = max
  BY DEF Iterate
<1> QED
  BY <1>1, <1>2, <1>3, <1>4, <1>5

\* The binary search ends in lists of any length: every pass leaves less to search.
THEOREM SearchesEnd ==
    Spec => PassesShrink
<1>1. IInv /\ [Next]_vars => [phase = "searching" /\ phase' = "searching" => max' - min' < max - min]_vars
  BY OnlyPasses, Shrinks
<1> QED
  BY <1>1, Invariant, PTL DEF Spec, PassesShrink

-----------------------------------------------------------------------------
(* What is removed.                                                         *)

\* splice() that takes out and puts in nothing leaves the list as it is.
LEMMA SplicedNone ==
    ASSUME NEW T, NEW s \in Seq(T), NEW i \in 0..Len(s)
    PROVE  Spliced(s, i, 0, <<>>) = s
<1> DEFINE a == SubSeq(s, 1, i)
           b == SubSeq(s, i + 1, Len(s))
<1>1. a \in Seq(T) /\ Len(a) = i /\ \A k \in 1..i : a[k] = s[k]
  OBVIOUS
<1>2. b \in Seq(T) /\ Len(b) = Len(s) - i /\ \A k \in 1..Len(b) : b[k] = s[i + k]
  OBVIOUS
<1>3. Spliced(s, i, 0, <<>>) = a \o b
  <2>1. i + 0 + 1 = i + 1
    OBVIOUS
  <2>2. a \o <<>> = a
    BY <1>1
  <2> HIDE DEF a
  <2> QED
    BY <2>1, <2>2, Zenon DEF Spliced, a
<1> HIDE DEF a, b
<1>4. /\ a \o b \in Seq(T) /\ Len(a \o b) = Len(a) + Len(b)
      /\ \A k \in 1..(Len(a) + Len(b)) : (a \o b)[k] = IF k <= Len(a) THEN a[k] ELSE b[k - Len(a)]
  BY <1>1, <1>2, ConcatProperties
<1> DEFINE c == a \o b
<1> HIDE DEF c
<1>5. c \in Seq(T) /\ Len(c) = Len(s)
  BY <1>1, <1>2, <1>4 DEF c
<1>6. ASSUME NEW k \in 1..Len(s) PROVE c[k] = s[k]
  <2>1. k \in 1..(Len(a) + Len(b)) /\ Len(a) = i /\ i \in Nat
    BY <1>1, <1>2
  <2>2. CASE k <= i
    BY <2>1, <2>2, <1>1, <1>4 DEF c
  <2>3. CASE k > i
    <3>1. k - i \in 1..Len(b) /\ i + (k - i) = k
      BY <2>1, <2>3, <1>2
    <3> QED
      BY <2>1, <2>3, <3>1, <1>2, <1>4 DEF c
  <2> QED
    BY <2>1, <2>2, <2>3
<1>7. c = s
  BY <1>5, <1>6
<1> QED
  BY <1>3, <1>7 DEF c

\* The searches of a call are for the keys of the call.
LEMMA RangeStep ==
    ASSUME IInv, RangeInv, [Next]_vars
    PROVE  RangeInv'
<1>1. ASSUME phase' = "idle" PROVE RangeInv'
  BY <1>1 DEF RangeInv
<1>i. call \in {"none", "emit"} \/ (call \in {"add", "remove"} /\ rest = <<>>) => phase = "idle"
  BY DEF IInv, CallInv
<1>2. CASE SearchEntry
  <2>1. /\ from' = Head(rest').key /\ to' = from' /\ target' = from'
        /\ position' = IF call' = "add" \/ variant' = "observable" THEN "any" ELSE "first"
        /\ call' \in {"add", "remove"}
    BY <1>2 DEF SearchEntry, Begin
  <2> QED
    BY <2>1 DEF RangeInv
<1>3. CASE Search
  <2>1. /\ UNCHANGED <<list, target, position, variant, call, rest, from, to, left>>
        /\ phase = "searching"
    BY <1>3 DEF Search, Iterate, LoopEnds, rangeVars
  <2>2. FoundLeft => FoundLeft'
    BY <2>1 DEF FoundLeft, IsFirstOf, Indexes, Length, At
  <2> QED
    BY <2>1, <2>2 DEF RangeInv
<1>4. CASE SearchRight
  <2>1. /\ phase = "found" /\ position = "first" /\ left' = FirstIndexEqualOrLarger
        /\ position' = "last" /\ target' = to' /\ call \in {"remove", "removeRangeByComparison"}
        /\ UNCHANGED <<list, variant, call, rest, from, to>>
    BY <1>4 DEF SearchRight, Begin
  <2>2. target = from /\ ~(call = "remove" /\ variant = "observable")
    BY <2>1 DEF RangeInv
  <2>3. \/ IsFirstOf(FirstIndexEqualOrLarger, EqualOrLarger)
        \/ Length = 0 /\ FirstIndexEqualOrLarger = 0
    BY <2>1, FoundLemma DEF IInv, SearchesFind
  <2>4. {i \in Indexes : At(i).key >= from}' = EqualOrLarger /\ Length' = Length
    BY <2>1, <2>2 DEF EqualOrLarger, Indexes, Length, At
  <2>5. FoundLeft'
    BY <2>1, <2>3, <2>4 DEF FoundLeft, IsFirstOf
  <2> QED
    BY <2>1, <2>2, <2>5 DEF RangeInv
<1>5. ASSUME NEW f \in Key, NEW t \in Key, RemoveRangeByComparison(f, t)
      PROVE  RangeInv'
  BY <1>5 DEF RemoveRangeByComparison, Begin, RangeInv
<1>6. CASE Insert \/ Remove \/ RemoveNothing \/ RemoveFoundRange \/ RemoveNoRange
  <2>1. phase' = "idle"
    BY <1>6 DEF Insert, Remove, RemoveNothing, RemoveFoundRange, RemoveNoRange, SearchIsOver
  <2> QED
    BY <1>1, <2>1
<1>7. CASE \/ \E m, values : Call(m, values)
           \/ \E e : Set(e)
           \/ \E k : Delete(k)
           \/ \E i : RemoveAt(i)
           \/ \E i, count : RemoveRange(i, count)
           \/ Clear \/ ValuesDone \/ Replay \/ Copies \/ Return
  <2>1. phase' = phase /\ (call \in {"none", "emit"} \/ (call \in {"add", "remove"} /\ rest = <<>>))
    BY <1>7 DEF Call, Set, Delete, RemoveAt, RemoveRange, Clear, ValuesDone, Replay, Copies,
                Return, searchVars
  <2> QED
    BY <1>1, <1>i, <2>1
<1>8. CASE UNCHANGED vars
  <2>1. UNCHANGED <<list, target, position, phase, variant, call, rest, from, to, left>>
    BY <1>8 DEF vars, searchVars, rangeVars
  <2>2. FoundLeft => FoundLeft'
    BY <2>1 DEF FoundLeft, IsFirstOf, Indexes, Length, At
  <2> QED
    BY <2>1, <2>2 DEF RangeInv
<1> QED
  BY <1>2, <1>3, <1>4, <1>5, <1>6, <1>7, <1>8 DEF Next

\* Where the searches of a removal have ended, they have found the entry if there is one;
\* the one search of the observable list has found an entry that compares as equal.
LEMMA HitsLemma ==
    ASSUME IInv, RangeInv, RemoveSearched
    PROVE  /\ Hits \subseteq {i \in Indexes : At(i) = Head(rest)}
           /\ variant # "observable" => Hits = {i \in Indexes : At(i) = Head(rest)}
           /\ variant = "observable" => (Equal # {} => Index \in Equal)
           /\ variant = "observable" => target = Head(rest).key
<1>1. /\ TypeOK /\ LoopInv /\ phase = "found" /\ call = "remove"
      /\ from = Head(rest).key /\ to = from
  BY DEF IInv, RemoveSearched, RangeFound, RangeInv
<1>2. Length \in Nat /\ target \in Int /\ \A i \in Indexes : i \in Nat /\ At(i).key \in Int
  BY <1>1, Keys
<1>3. SearchesFind
  BY FoundLemma DEF IInv
<1>4. CASE variant = "observable"
  <2>1. position = "any" /\ target = Head(rest).key
    BY <1>1, <1>4 DEF RangeInv
  <2>2. Index \in Indexes \cup {Undefined} /\ (Equal # {} => Index \in Equal)
    BY <1>1, <1>3, <2>1, RangeLemma DEF SearchesFind
  <2>3. Hits = {i \in {Index} \ {Undefined} : At(i) = Head(rest)}
    BY <1>4 DEF Hits
  <2> QED
    BY <1>4, <2>1, <2>2, <2>3
<1>5. CASE variant # "observable"
  <2>1. position = "last" /\ target = from /\ FoundLeft
    BY <1>1, <1>5 DEF RangeInv, RemoveSearched, RangeFound
  <2>2. IsLastOf(right, EqualOrSmaller)
    BY <1>1, <1>3, <2>1 DEF SearchesFind, right
  <2>3. Hits = {i \in left..right : left # Undefined /\ right # Undefined /\ At(i) = Head(rest)}
    BY <1>5 DEF Hits
  <2>4. left \in Int /\ right \in Int /\ left >= Undefined /\ right < Length
    BY <1>1, RangeLemma DEF right, TypeOK, IInv
  <2>5. ASSUME NEW i \in Hits PROVE i \in Indexes /\ At(i) = Head(rest)
    <3>1. i \in left..right /\ left # Undefined /\ At(i) = Head(rest)
      BY <2>3, <2>5
    <3>2. left >= 0
      BY <2>4, <3>1 DEF Undefined
    <3> QED
      BY <3>1, <3>2, <2>4, <1>2 DEF Indexes
  <2>6. ASSUME NEW i \in Indexes, At(i) = Head(rest) PROVE i \in Hits
    <3>1. At(i).key = target /\ At(i).key \in Int /\ i \in Nat
      BY <2>1, <2>6, <1>1, <1>2
    <3>2. i \in EqualOrSmaller
      BY <3>1 DEF EqualOrSmaller
    <3>3. right # Undefined /\ i <= right
      BY <2>2, <3>2 DEF IsLastOf, EqualOrSmaller, Indexes, Undefined
    <3>4. i \in {j \in Indexes : At(j).key >= from} /\ Length # 0
      BY <2>1, <3>1, <1>2 DEF Indexes
    <3>5. left \in Indexes /\ left <= i
      BY <2>1, <3>4 DEF FoundLeft, IsFirstOf
    <3>6. left # Undefined
      BY <3>5, <1>2 DEF Undefined
    <3> QED
      BY <2>3, <2>4, <2>6, <3>1, <3>3, <3>5, <3>6
  <2> QED
    BY <1>5, <2>5, <2>6
<1> QED
  BY <1>4, <1>5

\* A call that removes a value takes out one identical entry, or none if it finds none.
LEMMA RemovesValue ==
    ASSUME IInv, RangeInv, Remove \/ RemoveNothing
    PROVE  IF Head(rest) \in Entries /\ (variant = "observable" => list' # list \/ \E i \in Indexes : Equal = {i})
           THEN \E i \in Indexes : At(i) = Head(rest) /\ list' = Spliced(list, i, 1, <<>>)
           ELSE list' = list
<1>1. RemoveSearched
  BY DEF Remove, RemoveNothing
<1> DEFINE S == {i \in Indexes : At(i) = Head(rest)}
<1>2. /\ Hits \subseteq S /\ (variant # "observable" => Hits = S)
      /\ variant = "observable" => (Equal # {} => Index \in Equal) /\ target = Head(rest).key
  BY <1>1, HitsLemma
<1>3. Head(rest) \in Entries <=> S # {}
  BY DEF Entries
<1>4. CASE Remove
  <2>1. PICK i \in Hits : list' = Spliced(list, i, 1, <<>>)
    BY <1>4 DEF Remove
  <2>2. i \in S
    BY <1>2, <2>1
  <2> QED
    BY <1>2, <1>3, <2>1, <2>2
<1>5. CASE RemoveNothing
  <2>1. Hits = {} /\ list' = list
    BY <1>5 DEF RemoveNothing
  <2>2. ASSUME Head(rest) \in Entries, variant = "observable", NEW i \in Indexes, Equal = {i}
        PROVE  FALSE
    <3>1. PICK j \in Indexes : At(j) = Head(rest)
      BY <2>2 DEF Entries
    <3>2. j \in Equal /\ Index \in Equal
      BY <1>2, <2>2, <3>1 DEF Equal
    <3>3. Index = j /\ j \in Nat
      BY <2>2, <3>2, Keys DEF IInv
    <3>4. Index # Undefined
      BY <3>3 DEF Undefined
    <3> QED
      BY <2>1, <2>2, <3>1, <3>3, <3>4 DEF Hits
  <2> QED
    BY <1>2, <1>3, <2>1, <2>2
<1> QED
  BY <1>4, <1>5

\* A range between two keys is taken out as the searches from both ends have found it.
LEMMA RemovesRange ==
    ASSUME IInv, RangeInv, RemoveFoundRange \/ RemoveNoRange
    PROVE  \E i, count \in 0..Length :
              /\ list' = Spliced(list, i, count, <<>>)
              /\ \A j \in Indexes :
                    j \in i..(i + count - 1) <=> from <= At(j).key /\ At(j).key <= to
<1>1. /\ TypeOK /\ LoopInv /\ phase = "found" /\ position = "last"
      /\ call = "removeRangeByComparison" /\ target = to /\ FoundLeft
  BY DEF IInv, RemoveFoundRange, RemoveNoRange, RangeFound, RangeInv
<1>2. /\ Length \in Nat /\ target \in Int /\ from \in Int /\ list \in Seq(Entry)
      /\ \A i \in Indexes : i \in Nat /\ At(i).key \in Int
  BY <1>1, Keys, KeyAssumption DEF TypeOK
<1>3. IsLastOf(right, EqualOrSmaller)
  BY <1>1, FoundLemma DEF IInv, SearchesFind, right
<1>4. left \in Int /\ right \in Int /\ left >= Undefined /\ right < Length
  BY <1>1, RangeLemma DEF right, TypeOK, IInv
<1>5. ASSUME NEW j \in Indexes, from <= At(j).key
      PROVE  left \in Indexes /\ left <= j
  BY <1>1, <1>2, <1>5 DEF FoundLeft, IsFirstOf, Indexes
<1>6. ASSUME NEW j \in Indexes, At(j).key <= to
      PROVE  right \in Indexes /\ j <= right
  BY <1>1, <1>2, <1>3, <1>6 DEF IsLastOf, EqualOrSmaller
<1>7. CASE RemoveNoRange
  <2>1. list' = list /\ (left = Undefined \/ right = Undefined)
    BY <1>7 DEF RemoveNoRange
  <2>2. ASSUME NEW j \in Indexes PROVE ~(from <= At(j).key /\ At(j).key <= to)
    BY <2>1, <1>2, <1>5, <1>6 DEF Undefined
  <2>3. list' = Spliced(list, 0, 0, <<>>)
    BY <2>1, <1>2, SplicedNone DEF Length
  <2>4. \A j \in Indexes : j \in 0..(0 + 0 - 1) <=> from <= At(j).key /\ At(j).key <= to
    BY <2>2
  <2>5. 0 \in 0..Length
    BY <1>2
  <2> QED
    BY <2>3, <2>4, <2>5
<1>8. CASE RemoveFoundRange
  <2> DEFINE n == right - left + 1
             count == IF n < 0 THEN 0 ELSE n
  <2>1. /\ left # Undefined /\ right # Undefined /\ left \in Indexes
        /\ list' = Spliced(list, left, count, <<>>)
    BY <1>8 DEF RemoveFoundRange, InBounds, TakeOut
  <2>2. left \in Nat /\ left < Length /\ left \in 0..Length /\ count \in 0..Length
    BY <2>1, <1>2, <1>4 DEF Indexes
  <2>3. ASSUME NEW j \in Indexes, j \in left..(left + count - 1)
        PROVE  from <= At(j).key /\ At(j).key <= to
    <3>1. left <= j /\ j <= right /\ j \in Nat
      BY <2>2, <2>3, <1>2, <1>4
    <3>2. right \in Indexes /\ At(right).key <= to
      BY <2>1, <1>1, <1>3 DEF IsLastOf, EqualOrSmaller
    <3>3. from <= At(left).key
      BY <2>1, <1>1, <1>2 DEF FoundLeft, IsFirstOf, Indexes
    <3>4. At(left).key <= At(j).key /\ At(j).key <= At(right).key
      <4>1. \A x, y \in Indexes : x < y => At(x).key <= At(y).key
        BY DEF IInv, Sorted
      <4> QED
        BY <4>1, <3>1, <3>2, <2>1, <2>3, <1>2
    <3>5. to \in Int
      BY <1>1, <1>2
    <3> QED
      BY <3>2, <3>3, <3>4, <3>5, <2>1, <1>2
  <2>4. ASSUME NEW j \in Indexes, from <= At(j).key, At(j).key <= to
        PROVE  j \in left..(left + count - 1)
    <3>1. left <= j /\ j <= right /\ j \in Nat
      BY <2>4, <1>2, <1>5, <1>6
    <3> QED
      BY <3>1, <1>4
  <2> HIDE DEF count
  <2> QED
    BY <2>1, <2>2, <2>3, <2>4
<1> QED
  BY <1>7, <1>8

-----------------------------------------------------------------------------
(* What a subscriber makes of the events.                                   *)

Event == [kind : {"add", "remove"}, index : Int, entry : Entry]

\* Who has r has l when the events are applied, one after the other.
Leads(r, told, l) ==
    \E h : /\ h[1] = r /\ h[Len(told) + 1] = l
           /\ \A k \in 1..Len(told) : h[k + 1] = Applied(h[k], told[k])

\* The subscriber has the list, or what is emitted leads to it; except that it copies the
\* list after a removeRange() of several entries.
EventsInv ==
    variant = "observable" =>
        /\ events \in Seq(Event)
        /\ ranged => call = "emit" /\ events # <<>>
        /\ call \in {"none", "removeRangeByComparison"} => events = <<>> /\ ~ranged
        /\ ~ranged => Leads(replica, events, list)

\* No event leaves things as they are.
LEMMA LeadsNone ==
    ASSUME NEW r, NEW l
    PROVE  Leads(r, <<>>, l) <=> r = l
<1>1. ASSUME r = l PROVE Leads(r, <<>>, l)
  <2> DEFINE h == [k \in {1} |-> r]
  <2>1. h[1] = r /\ h[Len(<<>>) + 1] = l
    BY <1>1
  <2>2. \A k \in 1..Len(<<>>) : h[k + 1] = Applied(h[k], (<<>>)[k])
    OBVIOUS
  <2> HIDE DEF h
  <2> QED
    BY <2>1, <2>2 DEF Leads
<1>2. ASSUME Leads(r, <<>>, l) PROVE r = l
  BY <1>2 DEF Leads
<1> QED
  BY <1>1, <1>2

\* An event that is emitted last is applied last.
LEMMA LeadsAppend ==
    ASSUME NEW T, NEW r, NEW told \in Seq(T), NEW l, NEW e \in T, Leads(r, told, l)
    PROVE  Leads(r, Append(told, e), Applied(l, e))
<1>1. PICK h : /\ h[1] = r /\ h[Len(told) + 1] = l
               /\ \A k \in 1..Len(told) : h[k + 1] = Applied(h[k], told[k])
  BY DEF Leads
<1> DEFINE n == Len(told)
           longer == Append(told, e)
           g == [k \in 1..(n + 2) |-> IF k <= n + 1 THEN h[k] ELSE Applied(l, e)]
<1>2. n \in Nat /\ Len(longer) = n + 1 /\ longer[n + 1] = e /\ \A k \in 1..n : longer[k] = told[k]
  OBVIOUS
<1> HIDE DEF longer
<1>3. g[1] = r /\ g[Len(longer) + 1] = Applied(l, e)
  BY <1>1, <1>2
<1>4. ASSUME NEW k \in 1..Len(longer) PROVE g[k + 1] = Applied(g[k], longer[k])
  <2>1. CASE k <= n
    <3>1. g[k + 1] = h[k + 1] /\ g[k] = h[k] /\ longer[k] = told[k] /\ k \in 1..n
      BY <1>2, <2>1
    <3> QED
      BY <1>1, <3>1
  <2>2. CASE k = n + 1
    <3>1. g[k + 1] = Applied(l, e) /\ g[k] = h[n + 1]
      BY <1>2, <2>2
    <3> QED
      BY <1>1, <1>2, <2>2, <3>1
  <2> QED
    BY <1>2, <2>1, <2>2
<1> HIDE DEF g
<1> QED
  BY <1>3, <1>4 DEF Leads, longer

\* Who has applied the first event is led on by the others.
LEMMA LeadsHead ==
    ASSUME NEW T, NEW r, NEW told \in Seq(T), NEW l, told # <<>>, Leads(r, told, l)
    PROVE  Leads(Applied(r, Head(told)), Tail(told), l)
<1>1. PICK h : /\ h[1] = r /\ h[Len(told) + 1] = l
               /\ \A k \in 1..Len(told) : h[k + 1] = Applied(h[k], told[k])
  BY DEF Leads
<1> DEFINE n == Len(told)
           others == Tail(told)
           g == [k \in 1..n |-> h[k + 1]]
<1>2. /\ n \in Nat /\ n >= 1 /\ Head(told) = told[1]
      /\ Len(others) = n - 1 /\ \A k \in 1..(n - 1) : others[k] = told[k + 1]
  OBVIOUS
<1> HIDE DEF others
<1>3. g[1] = Applied(r, Head(told)) /\ g[Len(others) + 1] = l
  <2>1. 1 \in 1..n /\ n \in 1..n
    BY <1>2
  <2>2. g[1] = h[1 + 1] /\ g[n] = h[n + 1]
    BY <2>1
  <2>3. h[1 + 1] = Applied(h[1], told[1])
    BY <1>1, <2>1
  <2> QED
    BY <1>1, <1>2, <2>2, <2>3
<1>4. ASSUME NEW k \in 1..Len(others) PROVE g[k + 1] = Applied(g[k], others[k])
  <2>1. k \in 1..n /\ k + 1 \in 1..n /\ others[k] = told[k + 1]
    BY <1>2
  <2>2. g[k + 1] = h[(k + 1) + 1] /\ g[k] = h[k + 1]
    BY <2>1
  <2> QED
    BY <1>1, <2>1, <2>2
<1> HIDE DEF g
<1> QED
  BY <1>3, <1>4 DEF Leads, others

\* A splice that is emitted as an event is what the subscriber makes of it.
LEMMA EmitsOne ==
    ASSUME EventsInv, variant = "observable", ~ranged, UNCHANGED <<variant, replica, ranged>>,
           NEW e \in Event, events' = events \o <<e>>, list' = Applied(list, e),
           call' \notin {"none", "removeRangeByComparison"}
    PROVE  EventsInv'
<1>1. events \in Seq(Event) /\ Leads(replica, events, list)
  BY DEF EventsInv
<1>2. events \o <<e>> = Append(events, e) /\ Append(events, e) \in Seq(Event)
  BY <1>1
<1>3. Leads(replica, Append(events, e), Applied(list, e))
  BY <1>1, LeadsAppend
<1>4. Leads(replica', events', list')
  BY <1>2, <1>3
<1> QED
  BY <1>2, <1>4 DEF EventsInv

\* Entries that are taken out by their place are emitted one by one; it takes several to
\* make the subscriber copy the list.
LEMMA EmitsRange ==
    ASSUME IInv, EventsInv, NEW i \in Indexes, NEW count \in Int, InBounds(i, count), TakeOut(i, count),
           call \in {"none", "removeRangeByComparison"}, call' = "emit",
           UNCHANGED <<variant, replica>>
    PROVE  EventsInv'
<1> SUFFICES ASSUME variant = "observable" PROVE EventsInv'
  BY DEF EventsInv
<1>1. events = <<>> /\ ~ranged /\ Leads(replica, <<>>, list)
  BY DEF EventsInv
<1>2. Length \in Nat /\ i \in Nat /\ i < Length /\ list \in Seq(Entry) /\ i + count <= Length
  BY Keys DEF IInv, TypeOK, InBounds, Indexes
<1> DEFINE new == [j \in 1..count |-> Removed(i + j - 1, At(i + j - 1))]
<1>3. ASSUME NEW j \in 1..count PROVE new[j] \in Event
  <2>1. i + j - 1 \in Indexes /\ i + j - 1 \in Int
    BY <1>2 DEF Indexes
  <2>2. At(i + j - 1) \in Entry
    BY <1>2, <2>1 DEF At, Indexes, Length
  <2> QED
    BY <2>1, <2>2 DEF Removed, Event
<1>4. events' = new /\ (ranged' <=> count > 1)
  <2>1. events' = <<>> \o new /\ (ranged' <=> count > 1)
    BY <1>1 DEF TakeOut, Emits
  <2>2. <<>> \o new = new
    <3>1. CASE count >= 0
      <4>1. new \in Seq(Event)
        <5> HIDE DEF new
        <5>1. new = [j \in 1..count |-> new[j]]
          BY DEF new
        <5> QED
          BY <1>3, <3>1, <5>1
      <4> HIDE DEF new
      <4> QED
        BY <4>1
    <3>2. CASE count < 0
      <4>1. 1..count = {}
        BY <3>2
      <4>2. new = <<>>
        BY <4>1
      <4> QED
        BY <4>2
    <3> QED
      BY <3>1, <3>2
  <2> QED
    BY <2>1, <2>2
<1>5. CASE count > 1
  <2>1. new \in Seq(Event) /\ new # <<>>
    <3>1. new \in Seq(Event) /\ Len(new) = count
      <4> HIDE DEF new
      <4>1. new = [j \in 1..count |-> new[j]]
        BY DEF new
      <4> QED
        BY <1>3, <1>5, <4>1
    <3> HIDE DEF new
    <3> QED
      BY <3>1, <1>5
  <2> HIDE DEF new
  <2> QED
    BY <2>1, <1>4, <1>5 DEF EventsInv
<1>6. CASE count = 1
  <2> DEFINE e == Removed(i, At(i))
  <2>1. e \in Event
    <3>1. At(i) \in Entry
      BY <1>2 DEF At, Length
    <3> QED
      BY <3>1, <1>2 DEF Removed, Event
  <2>2. new = <<e>>
    <3>1. 1..count = {1} /\ i + 1 - 1 = i
      BY <1>2, <1>6
    <3> QED
      BY <3>1
  <2>3. list' = Applied(list, e)
    BY <1>6 DEF TakeOut, Applied, Removed
  <2>4. Leads(replica', events', list')
    <3> HIDE DEF e, new
    <3>1. Leads(replica, Append(<<>>, e), Applied(list, e))
      <4>1. <<>> \in Seq(Event)
        OBVIOUS
      <4> QED
        BY <1>1, <2>1, <4>1, LeadsAppend
    <3>2. Append(<<>>, e) = <<e>>
      OBVIOUS
    <3> QED
      BY <1>4, <2>2, <2>3, <3>1, <3>2
  <2>5. events' \in Seq(Event) /\ ~ranged'
    <3> HIDE DEF e, new
    <3> QED
      BY <1>4, <1>6, <2>1, <2>2
  <2> QED
    BY <2>4, <2>5 DEF EventsInv
<1>7. CASE count < 1
  <2>1. new = <<>>
    <3>1. 1..count = {}
      BY <1>7
    <3> QED
      BY <3>1
  <2>2. list' = Spliced(list, i, 0, <<>>)
    BY <1>7 DEF TakeOut
  <2>3. list' = list
    BY <1>2, <2>2, SplicedNone DEF Length
  <2> HIDE DEF new
  <2> QED
    BY <1>1, <1>4, <1>7, <2>1, <2>3 DEF EventsInv
<1> QED
  BY <1>5, <1>6, <1>7

\* Every step keeps what is emitted in accordance with the list.
LEMMA EventsStep ==
    ASSUME IInv, RangeInv, EventsInv, [Next]_vars
    PROVE  EventsInv'
<1> SUFFICES ASSUME variant = "observable", variant' = "observable" PROVE EventsInv'
  <2>1. variant' = variant
    BY DEF Next, Call, Set, Delete, SearchEntry, Search, Insert, SearchRight, Remove, RemoveNothing,
           RemoveRangeByComparison, RemoveFoundRange, RemoveNoRange, RemoveAt, RemoveRange, Clear,
           ValuesDone, Replay, Copies, Return, vars
  <2> QED
    BY <2>1 DEF EventsInv
<1>1. ASSUME UNCHANGED <<events, replica, ranged, list>>,
             call # "emit",
             call' \in {"none", "removeRangeByComparison"}
                 => call \in {"none", "removeRangeByComparison"}
      PROVE  EventsInv'
  BY <1>1 DEF EventsInv
<1>2. CASE \/ \E m, values : Call(m, values)
           \/ SearchEntry \/ SearchRight \/ RemoveNothing \/ RemoveNoRange \/ ValuesDone
           \/ \E f, t : RemoveRangeByComparison(f, t)
  <2>1. UNCHANGED <<events, replica, ranged, list>>
    BY <1>2 DEF Call, SearchEntry, SearchRight, RemoveNothing, RemoveNoRange, ValuesDone,
                RemoveRangeByComparison, observerVars
  <2>2. /\ call # "emit"
        /\ call' \in {"none", "removeRangeByComparison"}
               => call \in {"none", "removeRangeByComparison"}
    BY <1>2 DEF Call, SearchEntry, SearchRight, RemoveNothing, RemoveSearched, RemoveNoRange,
                ValuesDone, RemoveRangeByComparison
  <2> QED
    BY <1>1, <2>1, <2>2
<1>3. CASE Search
  <2>1. UNCHANGED <<events, replica, ranged, list, call>> /\ phase # "idle"
    BY <1>3 DEF Search, Iterate, LoopEnds, observerVars
  <2>2. call # "emit"
    BY <2>1 DEF IInv, CallInv
  <2> QED
    BY <1>1, <2>1, <2>2
<1>4. ASSUME NEW e, Set(e) \/ Delete(e) PROVE FALSE
  BY <1>4 DEF Set, Delete
<1>5. CASE Insert
  <2> DEFINE e == Added(InsertionIndex, Head(rest))
  <2>1. /\ call = "add" /\ call' = call /\ rest # <<>> /\ Head(rest) \in Entry
        /\ UNCHANGED <<variant, replica, ranged>>
    BY <1>5 DEF Insert, IInv, CallInv, TypeOK
  <2>2. InsertionIndex \in Int
    BY DEF InsertionIndex, IInv, TypeOK
  <2>3. e \in Event
    BY <2>1, <2>2 DEF Added, Event
  <2>4. events' = events \o <<e>> /\ list' = Applied(list, e)
    BY <1>5 DEF Insert, Emits, Applied, Added
  <2>5. ~ranged
    BY <2>1 DEF EventsInv
  <2> HIDE DEF e
  <2> QED
    BY <2>1, <2>3, <2>4, <2>5, EmitsOne
<1>6. CASE Remove
  <2>1. PICK i \in Hits : list' = Spliced(list, i, 1, <<>>) /\ Emits(<<Removed(i, At(i))>>)
    BY <1>6 DEF Remove
  <2> DEFINE e == Removed(i, At(i))
  <2>2. call = "remove" /\ call' = call /\ UNCHANGED <<variant, replica, ranged>>
    BY <1>6 DEF Remove, RemoveSearched
  <2>3. i \in Indexes
    BY <1>6, HitsLemma DEF Remove
  <2>4. e \in Event
    <3>1. i \in Nat /\ list \in Seq(Entry) /\ Length \in Nat
      BY <2>3, Keys DEF IInv, TypeOK
    <3>2. At(i) \in Entry
      BY <2>3, <3>1 DEF At, Indexes, Length
    <3> QED
      BY <3>1, <3>2 DEF Removed, Event
  <2>5. events' = events \o <<e>> /\ list' = Applied(list, e)
    BY <2>1 DEF Emits, Applied, Removed
  <2>6. ~ranged
    BY <2>2 DEF EventsInv
  <2> HIDE DEF e
  <2> QED
    BY <2>2, <2>4, <2>5, <2>6, EmitsOne
<1>7. CASE RemoveFoundRange
  <2>1. left \in Int /\ right \in Int
    BY <1>7, RangeLemma DEF RemoveFoundRange, RangeFound, right, TypeOK, IInv
  <2>2. /\ left \in Indexes /\ InBounds(left, right - left + 1) /\ TakeOut(left, right - left + 1)
        /\ call = "removeRangeByComparison" /\ call' = "emit" /\ UNCHANGED <<variant, replica>>
    BY <1>7 DEF RemoveFoundRange, InBounds
  <2>3. right - left + 1 \in Int
    BY <2>1
  <2> QED
    BY <2>2, <2>3, EmitsRange
<1>8. ASSUME NEW i \in Indexes, RemoveAt(i) PROVE EventsInv'
  <2>1. Length \in Nat /\ i \in Nat
    BY Keys DEF IInv
  <2>2. InBounds(i, 1)
    BY <2>1 DEF InBounds, Indexes
  <2>3. TakeOut(i, 1) /\ call = "none" /\ call' = "emit" /\ UNCHANGED <<variant, replica>>
    BY <1>8 DEF RemoveAt
  <2> QED
    BY <2>2, <2>3, EmitsRange
<1>9. ASSUME NEW i \in Indexes, NEW count \in 0..Length, RemoveRange(i, count) PROVE EventsInv'
  <2>1. count \in Int
    BY Keys DEF IInv
  <2>2. /\ InBounds(i, count) /\ TakeOut(i, count)
        /\ call = "none" /\ call' = "emit" /\ UNCHANGED <<variant, replica>>
    BY <1>9 DEF RemoveRange
  <2> QED
    BY <2>1, <2>2, EmitsRange
<1>10. CASE Clear
  <2>1. call = "none" /\ call' = call /\ list' = <<>> /\ replica' = <<>> /\ ~ranged' /\ events' = events
    BY <1>10 DEF Clear
  <2>2. events = <<>>
    BY <2>1 DEF EventsInv
  <2>3. Leads(<<>>, <<>>, <<>>)
    BY LeadsNone
  <2> QED
    BY <2>1, <2>2, <2>3 DEF EventsInv
<1>11. CASE Replay
  <2>1. /\ call = "emit" /\ call' = call /\ events # <<>> /\ ~ranged /\ ranged' = ranged
        /\ replica' = Applied(replica, Head(events)) /\ events' = Tail(events) /\ list' = list
    BY <1>11 DEF Replay
  <2>2. events \in Seq(Event) /\ Leads(replica, events, list)
    BY <2>1 DEF EventsInv
  <2>3. Leads(Applied(replica, Head(events)), Tail(events), list)
    BY <2>1, <2>2, LeadsHead
  <2>4. Tail(events) \in Seq(Event)
    BY <2>1, <2>2
  <2> QED
    BY <2>1, <2>3, <2>4 DEF EventsInv
<1>12. CASE Copies
  <2>1. call = "emit" /\ call' = call /\ replica' = list /\ list' = list /\ events' = <<>> /\ ~ranged'
    BY <1>12 DEF Copies
  <2>2. Leads(list, <<>>, list)
    BY LeadsNone
  <2> QED
    BY <2>1, <2>2 DEF EventsInv
<1>13. CASE Return
  <2>1. events = <<>> /\ call' = "none" /\ UNCHANGED <<events, replica, ranged, list>>
    BY <1>13 DEF Return, observerVars
  <2> QED
    BY <2>1 DEF EventsInv
<1>14. CASE UNCHANGED vars
  BY <1>14 DEF vars, observerVars, EventsInv
<1> QED
  BY <1>2, <1>3, <1>4, <1>5, <1>6, <1>7, <1>8, <1>9, <1>10, <1>11, <1>12, <1>13, <1>14 DEF Next

\* When the call has returned, nothing is left to apply.
LEMMA ReplicaFollows ==
    EventsInv => ReplicaAgrees
<1>1. ASSUME EventsInv, variant = "observable", call = "none" PROVE replica = list
  <2>1. Leads(replica, <<>>, list)
    BY <1>1 DEF EventsInv
  <2> QED
    BY <2>1, LeadsNone
<1> QED
  BY <1>1 DEF ReplicaAgrees


-----------------------------------------------------------------------------
(* The two structures of a map.                                             *)

\* Entries of different keys.
OneOfEach == \A i, j \in Indexes : At(i).key = At(j).key => i = j

\* What splice() has taken out is no longer in the list, all else is.
LEMMA EntriesLeft ==
    ASSUME list \in Seq(Entry), NEW i \in Nat, NEW n \in Nat, i + n <= Length,
           list' = Spliced(list, i, n, <<>>)
    PROVE  /\ Entries' = {At(j) : j \in Indexes \ (i..(i + n - 1))}
           /\ OneOfEach => OneOfEach'
<1> DEFINE was(j) == IF j < i THEN j ELSE j + n
<1>1. Length \in Nat /\ Length' = Length - n
  BY LeftOver DEF Length
<1>s. \A k \in 1..(Len(list) - n) : list'[k] = IF k <= i THEN list[k] ELSE list[k + n]
  <2> HIDE DEF was
  <2>1. i + n <= Len(list)
    BY DEF Length
  <2>2. \A k \in 1..(Len(list) - n) :
          Spliced(list, i, n, <<>>)[k] = IF k <= i THEN list[k] ELSE list[k + n]
    BY <2>1, LeftOver, ZenonT(40)
  <2> QED
    BY <2>2
<1>2. ASSUME NEW j \in Indexes' PROVE was(j) \in Indexes \ (i..(i + n - 1)) /\ At(j)' = At(was(j))
  <2>1. j \in Nat /\ j < Length - n
    BY <1>1, <1>2 DEF Indexes
  <2>2. was(j) \in Indexes \ (i..(i + n - 1))
    BY <1>1, <2>1 DEF Indexes
  <2>3. j + 1 \in 1..(Len(list) - n) /\ list'[j + 1] = IF j + 1 <= i THEN list[j + 1] ELSE list[(j + 1) + n]
    <3>1. j + 1 \in 1..(Len(list) - n)
      BY <1>1, <2>1 DEF Length
    <3> HIDE DEF was
    <3> QED
      BY <1>s, <3>1
  <2>4. (j + 1 <= i <=> j < i) /\ (j + 1) + n = (j + n) + 1
    BY <2>1
  <2> QED
    BY <2>2, <2>3, <2>4 DEF At
<1>3. ASSUME NEW j \in Indexes \ (i..(i + n - 1))
      PROVE  \E k \in Indexes' : was(k) = j
  <2>1. j \in Nat /\ j < Length /\ (j < i \/ j > i + n - 1)
    BY <1>1, <1>3 DEF Indexes
  <2>2. CASE j < i
    <3>1. j \in Indexes' /\ was(j) = j
      BY <1>1, <2>1, <2>2 DEF Indexes
    <3> QED
      BY <3>1
  <2>3. CASE j > i + n - 1
    <3>1. j - n \in Indexes' /\ was(j - n) = j
      BY <1>1, <2>1, <2>3 DEF Indexes
    <3> QED
      BY <3>1
  <2> QED
    BY <2>1, <2>2, <2>3
<1>4. \A j, k \in Indexes' : was(j) = was(k) => j = k
  BY <1>1 DEF Indexes
<1> HIDE DEF was
<1>5. Entries' = {At(j) : j \in Indexes \ (i..(i + n - 1))}
  <2>1. Entries' = {At(j)' : j \in Indexes'}
    BY DEF Entries
  <2>2. ASSUME NEW x \in Entries' PROVE x \in {At(j) : j \in Indexes \ (i..(i + n - 1))}
    <3>1. PICK j \in Indexes' : x = At(j)'
      BY <2>1, <2>2
    <3> QED
      BY <1>2, <3>1
  <2>3. ASSUME NEW j \in Indexes \ (i..(i + n - 1)) PROVE At(j) \in Entries'
    <3>1. PICK k \in Indexes' : was(k) = j
      BY <1>3
    <3>2. At(k)' = At(j)
      BY <1>2, <3>1
    <3> QED
      BY <2>1, <3>2
  <2> QED
    BY <2>2, <2>3
<1>6. ASSUME OneOfEach PROVE OneOfEach'
  <2> SUFFICES ASSUME NEW j \in Indexes', NEW k \in Indexes', At(j)'.key = At(k)'.key
               PROVE  j = k
    BY DEF OneOfEach
  <2>1. /\ was(j) \in Indexes /\ was(k) \in Indexes
        /\ At(was(j)).key = At(was(k)).key
    BY <1>2
  <2>2. was(j) = was(k)
    BY <1>6, <2>1 DEF OneOfEach
  <2> QED
    BY <1>4, <2>2
<1> QED
  BY <1>5, <1>6

\* What splice() has put in is in the list beside all else.
LEMMA EntriesMore ==
    ASSUME list \in Seq(Entry), NEW i \in Nat, i <= Length, NEW e \in Entry,
           list' = Spliced(list, i, 0, <<e>>)
    PROVE  /\ Entries' = Entries \cup {e}
           /\ OneOfEach /\ (\A x \in Entries : x.key # e.key) => OneOfEach'
<1> DEFINE is(j) == IF j < i THEN j ELSE j + 1
<1>1. Length \in Nat /\ Length' = Length + 1
  BY WithOneMore DEF Length
<1>2. ASSUME NEW j \in Indexes'
      PROVE  At(j)' = IF j < i THEN At(j) ELSE IF j = i THEN e ELSE At(j - 1)
  <2>1. j \in Nat /\ j < Length + 1 /\ j + 1 \in 1..(Len(list) + 1)
    BY <1>1 DEF Indexes, Length
  <2>2. list'[j + 1] = IF j + 1 <= i THEN list[j + 1]
                       ELSE IF j + 1 = i + 1 THEN e ELSE list[(j + 1) - 1]
    <3>1. \A k \in 1..(Len(list) + 1) :
             list'[k] = IF k <= i THEN list[k] ELSE IF k = i + 1 THEN e ELSE list[k - 1]
      BY WithOneMore DEF Length
    <3> QED
      BY <2>1, <3>1
  <2>3. (j + 1 <= i <=> j < i) /\ (j + 1 = i + 1 <=> j = i) /\ (j + 1) - 1 = (j - 1) + 1
    BY <2>1
  <2> QED
    BY <2>2, <2>3 DEF At
<1>3. \A j \in Indexes : is(j) \in Indexes' /\ At(is(j))' = At(j)
  <2> SUFFICES ASSUME NEW j \in Indexes PROVE is(j) \in Indexes' /\ At(is(j))' = At(j)
    OBVIOUS
  <2>1. j \in Nat /\ j < Length /\ is(j) \in Indexes'
    BY <1>1 DEF Indexes
  <2>2. CASE j < i
    BY <1>2, <2>1, <2>2
  <2>3. CASE ~(j < i)
    <3>1. is(j) = j + 1 /\ ~(j + 1 < i) /\ j + 1 # i /\ (j + 1) - 1 = j
      BY <2>1, <2>3
    <3> QED
      BY <1>2, <2>1, <3>1
  <2> QED
    BY <2>2, <2>3
<1>4. i \in Indexes' /\ At(i)' = e
  <2>1. i \in Indexes'
    BY <1>1 DEF Indexes
  <2> QED
    BY <1>2, <2>1
<1>5. ASSUME NEW j \in Indexes' PROVE j = i \/ \E k \in Indexes : j = is(k)
  <2>1. j \in Nat /\ j < Length + 1
    BY <1>1 DEF Indexes
  <2>2. CASE j < i
    <3>1. j \in Indexes /\ is(j) = j
      BY <1>1, <2>1, <2>2 DEF Indexes
    <3> QED
      BY <3>1
  <2>3. CASE j > i
    <3>1. j - 1 \in Indexes /\ is(j - 1) = j
      BY <1>1, <2>1, <2>3 DEF Indexes
    <3> QED
      BY <3>1
  <2> QED
    BY <2>1, <2>2, <2>3
<1> HIDE DEF is
<1>6. Entries' = Entries \cup {e}
  <2>1. Entries' = {At(j)' : j \in Indexes'}
    BY DEF Entries
  <2>2. ASSUME NEW j \in Indexes' PROVE At(j)' \in Entries \cup {e}
    <3>1. CASE j = i
      BY <1>4, <3>1
    <3>2. CASE j # i
      <4>1. PICK k \in Indexes : j = is(k)
        BY <1>5, <3>2
      <4> QED
        BY <1>3, <4>1 DEF Entries
    <3> QED
      BY <3>1, <3>2
  <2>3. ASSUME NEW x \in Entries \cup {e} PROVE x \in Entries'
    <3>1. CASE x = e
      BY <1>4, <2>1, <3>1
    <3>2. CASE x \in Entries
      <4>1. PICK k \in Indexes : x = At(k)
        BY <3>2 DEF Entries
      <4>2. is(k) \in Indexes' /\ At(is(k))' = x
        BY <1>3, <4>1
      <4> QED
        BY <2>1, <4>2
    <3> QED
      BY <2>3, <3>1, <3>2
  <2> QED
    BY <2>1, <2>2, <2>3
<1>7. ASSUME OneOfEach, \A x \in Entries : x.key # e.key PROVE OneOfEach'
  <2>1. ASSUME NEW j \in Indexes', NEW k \in Indexes', At(j)'.key = At(k)'.key
        PROVE  j = k
    <3>1. \A l \in Indexes : At(l) \in Entries
      BY DEF Entries
    <3>2. CASE j = i /\ k # i
      <4>1. PICK l \in Indexes : k = is(l)
        BY <1>5, <3>2
      <4> QED
        BY <1>3, <1>4, <1>7, <2>1, <3>1, <3>2, <4>1
    <3>3. CASE j # i /\ k = i
      <4>1. PICK l \in Indexes : j = is(l)
        BY <1>5, <3>3
      <4> QED
        BY <1>3, <1>4, <1>7, <2>1, <3>1, <3>3, <4>1
    <3>4. CASE j # i /\ k # i
      <4>1. PICK l \in Indexes : j = is(l)
        BY <1>5, <3>4
      <4>2. PICK m \in Indexes : k = is(m)
        BY <1>5, <3>4
      <4>3. l = m
        BY <1>3, <1>7, <2>1, <4>1, <4>2 DEF OneOfEach
      <4> QED
        BY <4>1, <4>2, <4>3
    <3> QED
      BY <3>2, <3>3, <3>4
  <2> QED
    BY <2>1 DEF OneOfEach
<1> QED
  BY <1>6, <1>7

\* What MapInv says when nothing has been overwritten, by the call that runs.
LEMMA MapParts ==
    ASSUME MapInv, variant = "map", ~overwritten
    PROVE  /\ \A k \in Key : map[k] # NoEntry => map[k].key = k
           /\ OneOfEach
           /\ call = "add" /\ rest # <<>> =>
                  Len(rest) = 1 /\ rest[1] \in Stored /\ Entries = Stored \ {rest[1]}
           /\ call = "remove" /\ rest # <<>> =>
                  Len(rest) = 1 /\ map[rest[1].key] = NoEntry /\ Entries = Stored \cup {rest[1]}
           /\ ~(call \in {"add", "remove"} /\ rest # <<>>) => Entries = Stored
<1>1. /\ \A k \in Key : map[k] # NoEntry => map[k].key = k
      /\ OneOfEach
      /\ CASE call = "add" /\ rest # <<>> ->
                 Len(rest) = 1 /\ rest[1] \in Stored /\ Entries = Stored \ {rest[1]}
           [] call = "remove" /\ rest # <<>> ->
                 /\ Len(rest) = 1 /\ map[rest[1].key] = NoEntry
                 /\ Entries = Stored \cup {rest[1]}
           [] OTHER -> Entries = Stored
  BY DEF MapInv, OneOfEach
<1> HIDE DEF OneOfEach
<1> QED
  BY <1>1

\* What takes out nothing of either structure and begins or ends no value keeps them.
LEMMA MapKept ==
    ASSUME MapInv, UNCHANGED <<list, variant, rest, map, overwritten>>,
           call \in {"add", "remove"} /\ rest # <<>> => call' = call,
           call' \in {"add", "remove"} /\ rest # <<>> => call' = call
    PROVE  MapInv'
<1> SUFFICES ASSUME variant = "map", ~overwritten PROVE MapInv'
  BY DEF MapInv
<1>1. /\ Entries' = Entries /\ Stored' = Stored /\ OneOfEach' = OneOfEach
      /\ (\A i, j \in Indexes : At(i).key = At(j).key => i = j)'
             = \A i, j \in Indexes : At(i).key = At(j).key => i = j
  BY DEF Entries, Stored, OneOfEach, Indexes, Length, At
<1>2. CASE call \in {"add", "remove"} /\ rest # <<>>
  BY <1>1, <1>2 DEF MapInv
<1>3. CASE ~(call \in {"add", "remove"} /\ rest # <<>>)
  <2>1. Entries = Stored
    BY <1>3, MapParts
  <2>2. ~(call' \in {"add", "remove"} /\ rest' # <<>>)
    BY <1>3
  <2> QED
    BY <1>1, <2>1, <2>2 DEF MapInv
<1> QED
  BY <1>2, <1>3

\* With no value half put in or taken out, the structures have the same entries.
LEMMA MapSettled ==
    ASSUME \A k \in Key : map'[k] # NoEntry => map'[k].key = k,
           OneOfEach', Entries' = Stored', ~(call' \in {"add", "remove"} /\ rest' # <<>>)
    PROVE  MapInv'
BY DEF MapInv, OneOfEach

\* Taking out places of the list and their keys of the map leaves the same in both.
LEMMA MapTakesOut ==
    ASSUME IInv, MapInv, NEW i \in Indexes, NEW count \in Int, InBounds(i, count), TakeOut(i, count),
           ~(call \in {"add", "remove"} /\ rest # <<>>), call' = "emit",
           UNCHANGED <<variant, overwritten>>
    PROVE  MapInv'
<1> SUFFICES ASSUME variant = "map", ~overwritten PROVE MapInv'
  BY DEF MapInv
<1> DEFINE n == IF count < 0 THEN 0 ELSE count
           gone == i..(i + count - 1)
<1>1. /\ \A k \in Key : map[k] # NoEntry => map[k].key = k
      /\ OneOfEach /\ Entries = Stored
  BY MapParts
<1>2. list \in Seq(Entry) /\ Length \in Nat /\ i \in Nat /\ i < Length /\ i + count <= Length
  BY Keys DEF IInv, TypeOK, InBounds, Indexes
<1>3. n \in Nat /\ i + n <= Length /\ gone = i..(i + n - 1) /\ gone \subseteq Indexes
  BY <1>2 DEF Indexes
<1>4. list' = Spliced(list, i, n, <<>>)
  BY DEF TakeOut
<1>5. \A k \in Key : map'[k] = IF \E j \in gone : At(j).key = k THEN NoEntry ELSE map[k]
  BY DEF TakeOut
<1> HIDE DEF n, gone
<1>6. Entries' = {At(j) : j \in Indexes \ gone} /\ OneOfEach'
  BY <1>1, <1>2, <1>3, <1>4, EntriesLeft
<1>7. ASSUME NEW x \in Stored' PROVE x \in Entries'
  <2>1. PICK k \in Key : map'[k] = x /\ x # NoEntry
    BY <1>7 DEF Stored
  <2>2. x = map[k] /\ ~\E j \in gone : At(j).key = k
    BY <1>5, <2>1
  <2>3. x \in Entries /\ x.key = k
    BY <1>1, <2>1, <2>2 DEF Stored
  <2>4. PICK j \in Indexes : x = At(j)
    BY <2>3 DEF Entries
  <2> QED
    BY <1>6, <2>2, <2>3, <2>4
<1>8. ASSUME NEW x \in Entries' PROVE x \in Stored'
  <2>1. PICK j \in Indexes \ gone : x = At(j)
    BY <1>6, <1>8
  <2>2. x \in Stored
    BY <1>1, <2>1 DEF Entries
  <2>3. PICK k \in Key : map[k] = x /\ x # NoEntry
    BY <2>2 DEF Stored
  <2>4. ~\E l \in gone : At(l).key = k
    BY <1>1, <1>3, <2>1, <2>3 DEF OneOfEach
  <2>5. map'[k] = x
    BY <1>5, <2>3, <2>4
  <2> QED
    BY <2>3, <2>5 DEF Stored
<1>9. \A k \in Key : map'[k] # NoEntry => map'[k].key = k
  BY <1>1, <1>5
<1> QED
  BY <1>6, <1>7, <1>8, <1>9, MapSettled

\* Every step keeps the two structures of a map in accordance.
LEMMA MapStep ==
    ASSUME IInv, RangeInv, MapInv, [Next]_vars
    PROVE  MapInv'
<1> SUFFICES ASSUME variant = "map", variant' = "map", ~overwritten' PROVE MapInv'
  <2>1. variant' = variant
    BY DEF Next, Call, Set, Delete, SearchEntry, Search, Insert, SearchRight, Remove, RemoveNothing,
           RemoveRangeByComparison, RemoveFoundRange, RemoveNoRange, RemoveAt, RemoveRange, Clear,
           ValuesDone, Replay, Copies, Return, vars
  <2> QED
    BY <2>1 DEF MapInv
<1>t. /\ list \in Seq(Entry) /\ rest \in Seq(Entry) /\ map \in [Key -> Entry \cup {NoEntry}]
      /\ \A x \in Entry : x.key \in Key /\ x # NoEntry
  BY NoEntryAssumption DEF IInv, TypeOK, Entry
<1>1. CASE \/ SearchEntry \/ Search \/ SearchRight \/ RemoveNoRange \/ ValuesDone \/ Replay
           \/ Copies \/ Return \/ UNCHANGED vars
           \/ \E f, t : RemoveRangeByComparison(f, t)
  <2>1. UNCHANGED <<list, variant, rest, map, overwritten>>
    BY <1>1 DEF SearchEntry, Search, Iterate, LoopEnds, SearchRight, RemoveNoRange, ValuesDone,
                Replay, Copies, Return, RemoveRangeByComparison, vars, mapVars
  <2>2. \/ call' = call
        \/ call \in {"add", "remove"} /\ rest = <<>> /\ call' = "emit"
        \/ call \notin {"add", "remove"} /\ call' \notin {"add", "remove"}
    BY <1>1 DEF SearchEntry, Search, SearchRight, RemoveNoRange, ValuesDone, Replay, Copies, Return,
                RemoveRangeByComparison, vars
  <2> QED
    BY <2>1, <2>2, MapKept
<1>2. ASSUME NEW m, NEW values, Call(m, values) PROVE FALSE
  BY <1>2 DEF Call
<1>3. ASSUME NEW e \in Entry, Set(e) PROVE MapInv'
  <2>1. /\ call = "none" /\ e \notin Entries /\ map' = [map EXCEPT ![e.key] = e]
        /\ ~overwritten /\ map[e.key] = NoEntry
        /\ call' = "add" /\ rest' = <<e>> /\ list' = list
    BY <1>3 DEF Set
  <2>2. e.key \in Key /\ e # NoEntry
    BY <1>t
  <2>3. /\ \A k \in Key : map[k] # NoEntry => map[k].key = k
        /\ OneOfEach /\ Entries = Stored
    BY <2>1, MapParts
  <2>4. \A k \in Key : map'[k] = IF k = e.key THEN e ELSE map[k]
    BY <1>t, <2>1
  <2>5. Stored' = Stored \cup {e}
    BY <2>1, <2>2, <2>4 DEF Stored
  <2>6. Entries' = Entries /\ OneOfEach' = OneOfEach
    BY <2>1 DEF Entries, OneOfEach, Indexes, Length, At
  <2>7. rest'[1] = e /\ Len(rest') = 1 /\ rest' # <<>>
    BY <2>1
  <2>8. \A k \in Key : map'[k] # NoEntry => map'[k].key = k
    BY <2>3, <2>4
  <2>9. Entries' = Stored' \ {e} /\ e \in Stored'
    BY <2>1, <2>3, <2>5, <2>6
  <2>10. (\A i, j \in Indexes : At(i).key = At(j).key => i = j)'
    BY <2>3, <2>6 DEF OneOfEach
  <2> QED
    BY <2>1, <2>7, <2>8, <2>9, <2>10 DEF MapInv
<1>4. ASSUME NEW k \in Key, Delete(k) PROVE MapInv'
  <2> DEFINE e == map[k]
  <2>1. /\ call = "none" /\ e # NoEntry /\ map' = [map EXCEPT ![k] = NoEntry] /\ ~overwritten
        /\ call' = "remove" /\ rest' = <<e>> /\ list' = list
    BY <1>4 DEF Delete
  <2>2. /\ \A l \in Key : map[l] # NoEntry => map[l].key = l
        /\ OneOfEach /\ Entries = Stored
    BY <2>1, MapParts
  <2>3. \A l \in Key : map'[l] = IF l = k THEN NoEntry ELSE map[l]
    BY <1>t, <2>1
  <2>4. e \in Stored /\ e.key = k
    BY <2>1, <2>2 DEF Stored
  <2>5. Stored = Stored' \cup {e}
    BY <2>1, <2>3 DEF Stored
  <2>6. Entries' = Entries /\ OneOfEach' = OneOfEach
    BY <2>1 DEF Entries, OneOfEach, Indexes, Length, At
  <2>7. rest'[1] = e /\ Len(rest') = 1 /\ rest' # <<>>
    BY <2>1
  <2>8. \A l \in Key : map'[l] # NoEntry => map'[l].key = l
    BY <2>2, <2>3
  <2>9. Entries' = Stored' \cup {e} /\ map'[e.key] = NoEntry
    BY <2>2, <2>3, <2>4, <2>5, <2>6
  <2>10. (\A i, j \in Indexes : At(i).key = At(j).key => i = j)'
    BY <2>2, <2>6 DEF OneOfEach
  <2> HIDE DEF e
  <2> QED
    BY <2>1, <2>7, <2>8, <2>9, <2>10 DEF MapInv
<1>5. CASE Insert
  <2>1. /\ call = "add" /\ rest # <<>> /\ rest' = Tail(rest) /\ ~overwritten
        /\ UNCHANGED <<map, overwritten, call>>
        /\ list' = Spliced(list, InsertionIndex, 0, <<Head(rest)>>)
    BY <1>5 DEF Insert, mapVars, IInv, CallInv
  <2>2. /\ \A k \in Key : map[k] # NoEntry => map[k].key = k
        /\ OneOfEach /\ Len(rest) = 1 /\ rest[1] \in Stored /\ Entries = Stored \ {rest[1]}
    BY <2>1, MapParts
  <2>3. Head(rest) = rest[1] /\ rest[1] \in Entry /\ rest' = <<>>
    BY <1>t, <2>1, <2>2
  <2>4. InsertionIndex \in Nat /\ InsertionIndex <= Length
    <3>1. SearchesFind /\ phase = "found" /\ position = "any"
      BY <1>5, FoundLemma DEF Insert, IInv, CallInv
    <3>2. InsertionIndex \in 0..Length /\ Length \in Nat
      BY <3>1, Keys DEF SearchesFind, IInv
    <3> QED
      BY <3>2
  <2>5. \A x \in Entries : x.key # rest[1].key
    BY <2>2 DEF Stored
  <2>6. Entries' = Entries \cup {rest[1]} /\ OneOfEach'
    <3>1. list' = Spliced(list, InsertionIndex, 0, <<rest[1]>>)
      BY <2>1, <2>3
    <3> QED
      BY <1>t, <2>2, <2>3, <2>4, <2>5, <3>1, EntriesMore
  <2>7. Stored' = Stored
    BY <2>1 DEF Stored
  <2>8. \A k \in Key : map'[k] # NoEntry => map'[k].key = k
    BY <2>1, <2>2
  <2> QED
    BY <2>2, <2>3, <2>6, <2>7, <2>8, MapSettled
<1>6. ASSUME RemoveSearched
      PROVE  /\ call = "remove" /\ rest # <<>> /\ Hits = {i \in Indexes : At(i) = Head(rest)}
  <2>1. phase = "found" /\ call = "remove"
    BY <1>6 DEF RemoveSearched, RangeFound
  <2>2. rest # <<>>
    BY <2>1 DEF IInv, CallInv
  <2> QED
    BY <1>6, <2>1, <2>2, HitsLemma
<1>7. CASE Remove \/ RemoveNothing
  <2>1. RemoveSearched /\ rest' = Tail(rest) /\ UNCHANGED <<map, overwritten, call>>
    BY <1>7 DEF Remove, RemoveNothing, mapVars
  <2>2. /\ \A k \in Key : map[k] # NoEntry => map[k].key = k
        /\ OneOfEach /\ Len(rest) = 1 /\ map[rest[1].key] = NoEntry /\ Entries = Stored \cup {rest[1]}
    BY <1>6, <2>1, MapParts
  <2>3. Head(rest) = rest[1] /\ rest[1] \in Entry /\ rest' = <<>>
    BY <1>6, <1>t, <2>1, <2>2
  <2>4. PICK i \in Indexes : At(i) = rest[1]
    BY <2>2 DEF Entries
  <2>5. Hits = {i}
    BY <1>6, <2>1, <2>2, <2>3, <2>4 DEF OneOfEach
  <2>6. list' = Spliced(list, i, 1, <<>>)
    BY <1>7, <2>5 DEF Remove, RemoveNothing
  <2>7. Length \in Nat /\ i \in Nat /\ i < Length /\ i..(i + 1 - 1) = {i}
    BY <2>4, Keys DEF IInv, Indexes
  <2>8. Entries' = {At(j) : j \in Indexes \ {i}} /\ OneOfEach'
    <3>1. i + 1 <= Length /\ 1 \in Nat
      BY <2>7
    <3> QED
      BY <1>t, <2>2, <2>6, <2>7, <3>1, EntriesLeft
  <2>9. rest[1] \notin Stored
    BY <1>t, <2>2, <2>3 DEF Stored
  <2>10. Entries' = Entries \ {rest[1]}
    BY <2>2, <2>4, <2>8 DEF Entries, OneOfEach
  <2>11. Stored' = Stored
    BY <2>1 DEF Stored
  <2>12. \A k \in Key : map'[k] # NoEntry => map'[k].key = k
    BY <2>1, <2>2
  <2> QED
    BY <2>2, <2>3, <2>8, <2>9, <2>10, <2>11, <2>12, MapSettled
<1>8. CASE RemoveFoundRange
  <2>1. left \in Int /\ right \in Int
    BY <1>8, RangeLemma DEF RemoveFoundRange, RangeFound, right, TypeOK, IInv
  <2>2. /\ left \in Indexes /\ InBounds(left, right - left + 1) /\ TakeOut(left, right - left + 1)
        /\ call = "removeRangeByComparison" /\ call' = "emit" /\ UNCHANGED <<variant, overwritten>>
    BY <1>8 DEF RemoveFoundRange, InBounds
  <2>3. right - left + 1 \in Int
    BY <2>1
  <2> QED
    BY <2>2, <2>3, MapTakesOut
<1>9. ASSUME NEW i \in Indexes, RemoveAt(i) PROVE MapInv'
  <2>1. Length \in Nat /\ i \in Nat
    BY Keys DEF IInv
  <2>2. InBounds(i, 1)
    BY <2>1 DEF InBounds, Indexes
  <2>3. TakeOut(i, 1) /\ call = "none" /\ call' = "emit" /\ UNCHANGED <<variant, overwritten>>
    BY <1>9 DEF RemoveAt
  <2> QED
    BY <2>2, <2>3, MapTakesOut
<1>10. ASSUME NEW i \in Indexes, NEW count \in 0..Length, RemoveRange(i, count) PROVE MapInv'
  <2>1. count \in Int
    BY Keys DEF IInv
  <2>2. /\ InBounds(i, count) /\ TakeOut(i, count)
        /\ call = "none" /\ call' = "emit" /\ UNCHANGED <<variant, overwritten>>
    BY <1>10 DEF RemoveRange
  <2> QED
    BY <2>1, <2>2, MapTakesOut
<1>11. CASE Clear
  <2>1. call' = "none" /\ list' = <<>> /\ \A k \in Key : map'[k] = NoEntry
    BY <1>11 DEF Clear
  <2>2. Indexes' = {}
    BY <2>1 DEF Indexes, Length
  <2>3. Entries' = {} /\ OneOfEach' /\ Stored' = {}
    BY <2>1, <2>2 DEF Entries, OneOfEach, Stored
  <2> QED
    BY <2>1, <2>3, MapSettled
<1> QED
  BY <1>1, <1>2, <1>3, <1>4, <1>5, <1>7, <1>8, <1>9, <1>10, <1>11 DEF Next

\* When the call has returned, the two structures have the same entries.
LEMMA MapIsOne ==
    MapInv => MapAgrees
<1>1. ASSUME MapInv, variant = "map", call = "none", ~overwritten
      PROVE  Entries = Stored /\ OneOfEach
  BY <1>1, MapParts
<1> QED
  BY <1>1 DEF MapAgrees, Stored, OneOfEach

-----------------------------------------------------------------------------
(* What filter() leaves of a sequence.                                      *)

\* A set of numbers has a least one.
LEMMA LeastOf ==
    ASSUME NEW T, T \subseteq Nat, T # {}
    PROVE  \E m \in T : \A n \in T : m <= n
<1>1. PICK m \in T : \A n \in T : <<n, m>> \notin OpToRel(<, Nat)
  BY NatLessThanWellFounded, WFMin
<1>2. \A n \in T : ~(n < m)
  BY <1>1, Zenon DEF OpToRel
<1> QED
  BY <1>2

Chosen(s, S, m, f) ==
    f = [i \in 0..m |-> IF i = 0 THEN <<>>
                        ELSE IF s[i] \in S THEN Append(f[i - 1], s[i]) ELSE f[i - 1]]

\* The definition of Kept() by recursion has a solution for every length: the least one
\* without would have that of one less, and one value more.
LEMMA KeptExists ==
    ASSUME NEW s, NEW S, NEW n \in Nat
    PROVE  \E f : Chosen(s, S, n, f)
<1> DEFINE T == {m \in Nat : ~ \E f : Chosen(s, S, m, f)}
<1> SUFFICES ASSUME n \in T PROVE FALSE
  OBVIOUS
<1>1. T \subseteq Nat /\ \A m \in T : ~ \E f : Chosen(s, S, m, f)
  OBVIOUS
<1>2. \A m \in Nat \ T : \E f : Chosen(s, S, m, f)
  OBVIOUS
<1> HIDE DEF T
<1>3. PICK m \in T : \A k \in T : m <= k
  BY <1>1, LeastOf
<1>4. m \in Nat
  BY <1>1, <1>3
<1>5. CASE m = 0
  <2>1. Chosen(s, S, 0, [i \in 0..0 |-> <<>>])
    BY DEF Chosen
  <2> QED
    BY <1>1, <1>5, <2>1
<1>6. CASE m # 0
  <2>1. m - 1 \in Nat \ T
    <3>1. m - 1 \in Nat /\ ~(m <= m - 1)
      BY <1>4, <1>6
    <3> QED
      BY <1>3, <3>1
  <2>2. PICK f : Chosen(s, S, m - 1, f)
    BY <1>2, <2>1
  <2> DEFINE F(i) == IF s[i] \in S THEN Append(f[i - 1], s[i]) ELSE f[i - 1]
             g == [i \in 0..m |-> IF i = 0 THEN <<>> ELSE F(i)]
  <2>3. ASSUME NEW i \in 0..m, i # 0 PROVE g[i - 1] = f[i - 1]
    <3>1. i - 1 \in 0..(m - 1) /\ i - 1 \in 0..m
      BY <1>4, <2>3
    <3>2. f[i - 1] = IF i - 1 = 0 THEN <<>> ELSE F(i - 1)
      BY <2>2, <3>1 DEF Chosen
    <3> HIDE DEF F
    <3> QED
      BY <3>1, <3>2
  <2>4. ASSUME NEW i \in 0..m
        PROVE  g[i] = IF i = 0 THEN <<>>
                      ELSE IF s[i] \in S THEN Append(g[i - 1], s[i]) ELSE g[i - 1]
    <3>1. CASE i = 0
      BY <3>1
    <3>2. CASE i # 0
      <4>1. g[i] = F(i) /\ g[i - 1] = f[i - 1]
        BY <2>3, <3>2
      <4> HIDE DEF g
      <4> QED
        BY <3>2, <4>1
    <3> QED
      BY <3>1, <3>2
  <2>5. g = [i \in 0..m |-> g[i]]
    OBVIOUS
  <2> HIDE DEF g
  <2>6. Chosen(s, S, m, g)
    BY <2>4, <2>5 DEF Chosen
  <2> QED
    BY <1>1, <1>3, <2>6
<1> QED
  BY <1>5, <1>6

\* filter() leaves the values that are in the set, whatever the length of the sequence.
LEMMA KeptValues ==
    ASSUME NEW s \in Seq(Value), NEW S
    PROVE  /\ C!Kept(s, S) \in Seq(Value)
           /\ C!ToSet(C!Kept(s, S)) = C!ToSet(s) \cap S
<1> DEFINE f == CHOOSE g : Chosen(s, S, Len(s), g)
           Done(i) == f[i] \in Seq(Value) /\ C!ToSet(f[i]) = {s[j] : j \in 1..i} \cap S
           T == {i \in 0..Len(s) : ~Done(i)}
<1>1. Len(s) \in Nat /\ DOMAIN s = 1..Len(s)
  OBVIOUS
<1>2. Chosen(s, S, Len(s), f)
  <2>1. \E g : Chosen(s, S, Len(s), g)
    BY <1>1, KeptExists
  <2> QED
    BY <2>1
<1>3. C!Kept(s, S) = f[Len(s)]
  BY DEF C!Kept, Chosen
<1> HIDE DEF f
<1>4. f[0] = <<>>
  BY <1>1, <1>2 DEF Chosen
<1>5. ASSUME NEW i \in 1..Len(s)
      PROVE  f[i] = IF s[i] \in S THEN Append(f[i - 1], s[i]) ELSE f[i - 1]
  <2> DEFINE F(j) == IF s[j] \in S THEN Append(f[j - 1], s[j]) ELSE f[j - 1]
  <2>1. i \in 0..Len(s) /\ i # 0
    BY <1>1
  <2>2. f = [j \in 0..Len(s) |-> IF j = 0 THEN <<>> ELSE F(j)]
    BY <1>2 DEF Chosen
  <2> HIDE DEF F
  <2>3. f[i] = F(i)
    BY <2>1, <2>2
  <2> QED
    BY <2>3 DEF F
<1>6. Done(0)
  BY <1>4 DEF C!ToSet
<1>7. ASSUME NEW i \in 1..Len(s), Done(i - 1) PROVE Done(i)
  <2>1. s[i] \in Value /\ f[i - 1] \in Seq(Value) /\ C!ToSet(f[i - 1]) = {s[j] : j \in 1..(i - 1)} \cap S
    BY <1>1, <1>7
  <2>2. {s[j] : j \in 1..i} = {s[j] : j \in 1..(i - 1)} \cup {s[i]}
    BY <1>1
  <2>3. CASE s[i] \in S
    <3>1. f[i] = Append(f[i - 1], s[i])
      BY <1>5, <2>3
    <3> DEFINE a == f[i - 1]
    <3>2. Len(a) \in Nat /\ DOMAIN a = 1..Len(a) /\ Append(a, s[i]) \in Seq(Value)
      BY <2>1
    <3>3. /\ DOMAIN Append(a, s[i]) = 1..(Len(a) + 1) /\ Append(a, s[i])[Len(a) + 1] = s[i]
          /\ \A j \in 1..Len(a) : Append(a, s[i])[j] = a[j]
      BY <2>1
    <3>4. C!ToSet(Append(a, s[i])) = C!ToSet(a) \cup {s[i]}
      <4> HIDE DEF a
      <4> DEFINE b == Append(a, s[i])
      <4>1. /\ DOMAIN b = 1..(Len(a) + 1) /\ b[Len(a) + 1] = s[i] /\ DOMAIN a = 1..Len(a)
            /\ \A j \in 1..Len(a) : b[j] = a[j]
        BY <3>2, <3>3
      <4> HIDE DEF b
      <4>2. ASSUME NEW j \in 1..(Len(a) + 1) PROVE b[j] \in C!ToSet(a) \cup {s[i]}
        BY <3>2, <4>1 DEF C!ToSet
      <4>3. ASSUME NEW j \in 1..Len(a) PROVE a[j] \in C!ToSet(b)
        <5>1. j \in 1..(Len(a) + 1) /\ b[j] = a[j]
          BY <3>2, <4>1
        <5> QED
          BY <4>1, <5>1 DEF C!ToSet
      <4>4. s[i] \in C!ToSet(b)
        <5>1. Len(a) + 1 \in 1..(Len(a) + 1)
          BY <3>2
        <5> QED
          BY <4>1, <5>1 DEF C!ToSet
      <4>5. C!ToSet(b) \subseteq C!ToSet(a) \cup {s[i]}
        BY <4>1, <4>2 DEF C!ToSet
      <4>6. C!ToSet(a) \subseteq C!ToSet(b)
        BY <4>1, <4>3 DEF C!ToSet
      <4> QED
        BY <4>4, <4>5, <4>6 DEF b
    <3> QED
      BY <2>1, <2>2, <2>3, <3>1, <3>2, <3>4
  <2>4. CASE s[i] \notin S
    BY <1>5, <2>1, <2>2, <2>4
  <2> QED
    BY <2>3, <2>4
<1>8. T = {}
  <2> SUFFICES ASSUME T # {} PROVE FALSE
    OBVIOUS
  <2>1. T \subseteq Nat
    BY <1>1
  <2>2. PICK m \in T : \A k \in T : m <= k
    <3> HIDE DEF T
    <3> QED
      BY <2>1, LeastOf
  <2>3. m \in 0..Len(s) /\ ~Done(m)
    OBVIOUS
  <2>4. m # 0
    BY <1>6, <2>3
  <2>5. m \in 1..Len(s) /\ m - 1 \in 0..Len(s) /\ ~(m <= m - 1)
    BY <1>1, <2>3, <2>4
  <2>6. Done(m - 1)
    BY <2>2, <2>5
  <2> HIDE DEF Done
  <2> QED
    BY <1>7, <2>3, <2>5, <2>6
<1>9. Done(Len(s))
  <2>1. Len(s) \in 0..Len(s)
    BY <1>1
  <2>2. ~(Len(s) \in T)
    <3> HIDE DEF T
    <3> QED
      BY <1>8
  <2> HIDE DEF Done
  <2> QED
    BY <2>1, <2>2
<1> QED
  BY <1>1, <1>3, <1>9 DEF C!ToSet

\* What is in either of two sequences.
LEMMA BothValues ==
    ASSUME NEW s \in Seq(Value), NEW t \in Seq(Value)
    PROVE  s \o t \in Seq(Value) /\ C!ToSet(s \o t) = C!ToSet(s) \cup C!ToSet(t)
<1> DEFINE st == s \o t
           m == Len(s)
           n == Len(t)
<1>1. m \in Nat /\ n \in Nat /\ DOMAIN s = 1..m /\ DOMAIN t = 1..n
  OBVIOUS
<1>2. /\ st \in Seq(Value) /\ Len(st) = m + n /\ DOMAIN st = 1..(m + n)
      /\ \A i \in 1..(m + n) : st[i] = IF i <= m THEN s[i] ELSE t[i - m]
  BY ConcatProperties
<1> HIDE DEF st, m, n
<1>3. ASSUME NEW i \in 1..(m + n) PROVE st[i] \in C!ToSet(s) \cup C!ToSet(t)
  <2>1. CASE i <= m
    <3>1. i \in 1..m /\ st[i] = s[i]
      BY <1>1, <1>2, <2>1
    <3> QED
      BY <1>1, <3>1 DEF C!ToSet
  <2>2. CASE i > m
    <3>1. i - m \in 1..n /\ st[i] = t[i - m]
      BY <1>1, <1>2, <2>2
    <3> QED
      BY <1>1, <3>1 DEF C!ToSet
  <2> QED
    BY <1>1, <2>1, <2>2
<1>4. ASSUME NEW i \in 1..m PROVE s[i] \in C!ToSet(st)
  <2>1. i \in 1..(m + n) /\ st[i] = s[i]
    BY <1>1, <1>2
  <2> QED
    BY <1>2, <2>1 DEF C!ToSet
<1>5. ASSUME NEW i \in 1..n PROVE t[i] \in C!ToSet(st)
  <2>1. m + i \in 1..(m + n) /\ ~(m + i <= m) /\ (m + i) - m = i
    BY <1>1
  <2>2. st[m + i] = t[i]
    BY <1>2, <2>1
  <2> QED
    BY <1>2, <2>1, <2>2 DEF C!ToSet
<1>6. C!ToSet(st) = C!ToSet(s) \cup C!ToSet(t)
  <2>1. C!ToSet(st) \subseteq C!ToSet(s) \cup C!ToSet(t)
    BY <1>2, <1>3 DEF C!ToSet
  <2>2. C!ToSet(s) \subseteq C!ToSet(st)
    BY <1>1, <1>4 DEF C!ToSet
  <2>3. C!ToSet(t) \subseteq C!ToSet(st)
    BY <1>1, <1>5 DEF C!ToSet
  <2> QED
    BY <2>1, <2>2, <2>3
<1> QED
  BY <1>2, <1>6 DEF st

-----------------------------------------------------------------------------
(* The inductive invariant of the observable and awaitable collections.     *)

AboutLength == {"add", "remove", "clear", "change"}
Telling == [what : AboutLength \cup {"addAt", "removeAt"}, at : Nat, values : Seq(Value), heard : BOOLEAN]
Frame == Seq(Telling) \ {<<>>}

CollectionTypes ==
    /\ kind \in C!Observable \cup {"list", "awaitableSet", "awaitableMap"}
    /\ items \in Seq(Value) /\ snapshot \in Seq(Value)
    /\ frames \in Seq(Frame)

\* The length is seen, or will be told again.
LengthInv ==
    ~C!Awaitable =>
        \/ lengthSeen = Len(items)
        \/ \E i \in 1..Len(frames) : \E j \in 1..Len(frames[i]) : frames[i][j].what \in AboutLength

\* Nobody is told by an awaitable collection; and calls nest only if an observer calls.
OuterInv ==
    /\ C!Awaitable => frames = <<>>
    /\ ~nested => Len(frames) <= 1

\* Who has made c of the changes has the collection, or will, by what is still told.
Agrees(c) == c \in Seq(Value) /\ IF C!IsList THEN c = items ELSE C!ToSet(c) = C!ToSet(items)
LeadsThere(c, told) ==
    \E h : /\ h[1] = c /\ Agrees(h[Len(told) + 1])
           /\ \A k \in 1..Len(told) : h[k + 1] = C!Made(h[k], told[k])
CopyInv ==
    ~C!Awaitable /\ ~nested => LeadsThere(copy, IF frames = <<>> THEN <<>> ELSE frames[1])

\* Who waits, or has asked and missed nothing, has read all there is; the promise of a
\* list is asked for and awaited at once.
WaiterInv ==
    C!Awaitable =>
        /\ kind = "list" => waiter # "asks"
        /\ ~missed /\ waiter \in {"waits", "asks"} =>
               /\ C!ToSet(items) \subseteq C!ToSet(snapshot)
               /\ kind = "list" => Len(items) <= Len(snapshot)

CollectionInv == CollectionTypes /\ LengthInv /\ OuterInv /\ CopyInv /\ WaiterInv

\* Nothing told leads to the collection if that is what one has.
LEMMA ThereAlready ==
    ASSUME NEW c
    PROVE  LeadsThere(c, <<>>) <=> Agrees(c)
<1>1. ASSUME Agrees(c) PROVE LeadsThere(c, <<>>)
  <2> DEFINE h == [k \in {1} |-> c]
  <2>1. h[1] = c /\ h[Len(<<>>) + 1] = c
    OBVIOUS
  <2>2. \A k \in 1..Len(<<>>) : h[k + 1] = C!Made(h[k], (<<>>)[k])
    OBVIOUS
  <2> HIDE DEF h
  <2> QED
    BY <1>1, <2>1, <2>2 DEF LeadsThere
<1>2. ASSUME LeadsThere(c, <<>>) PROVE Agrees(c)
  BY <1>2 DEF LeadsThere
<1> QED
  BY <1>1, <1>2

\* It leads there as long as the collection stays as it is.
LEMMA LeadsStill ==
    ASSUME UNCHANGED <<kind, items>>, NEW c, NEW tells, LeadsThere(c, tells)
    PROVE  LeadsThere(c, tells)'
<1>1. PICK h : /\ h[1] = c /\ Agrees(h[Len(tells) + 1])
               /\ \A k \in 1..Len(tells) : h[k + 1] = C!Made(h[k], tells[k])
  BY DEF LeadsThere
<1>2. Agrees(h[Len(tells) + 1])'
  BY <1>1 DEF Agrees, C!IsList
<1>3. \A k \in 1..Len(tells) : h[k + 1] = C!Made(h[k], tells[k])'
  BY <1>1 DEF C!Made, C!IsList
<1> QED
  BY <1>1, <1>2, <1>3, Zenon DEF LeadsThere

\* Who has heard the first of what is told is led on by the rest.
LEMMA OneHeard ==
    ASSUME NEW c, NEW told \in Frame, LeadsThere(c, told)
    PROVE  LeadsThere(C!Made(c, told[1]), Tail(told))
<1>1. PICK h : /\ h[1] = c /\ Agrees(h[Len(told) + 1])
               /\ \A k \in 1..Len(told) : h[k + 1] = C!Made(h[k], told[k])
  BY DEF LeadsThere
<1> DEFINE n == Len(told)
           others == Tail(told)
           g == [k \in 1..n |-> h[k + 1]]
<1>2. /\ n \in Nat /\ n >= 1
      /\ Len(others) = n - 1 /\ \A k \in 1..(n - 1) : others[k] = told[k + 1]
  BY DEF Frame
<1> HIDE DEF others
<1>3. g[1] = C!Made(c, told[1]) /\ g[Len(others) + 1] = h[n + 1]
  <2>1. 1 \in 1..n /\ n \in 1..n
    BY <1>2
  <2>2. g[1] = h[1 + 1] /\ g[n] = h[n + 1]
    BY <2>1
  <2>3. h[1 + 1] = C!Made(h[1], told[1])
    BY <1>1, <2>1
  <2> QED
    BY <1>1, <1>2, <2>2, <2>3
<1>4. ASSUME NEW k \in 1..Len(others) PROVE g[k + 1] = C!Made(g[k], others[k])
  <2>1. k \in 1..n /\ k + 1 \in 1..n /\ others[k] = told[k + 1]
    BY <1>2
  <2>2. g[k + 1] = h[(k + 1) + 1] /\ g[k] = h[k + 1]
    BY <2>1
  <2> QED
    BY <1>1, <2>1, <2>2
<1>5. Agrees(g[Len(others) + 1])
  BY <1>1, <1>3
<1> HIDE DEF g
<1> QED
  BY <1>3, <1>4, <1>5 DEF LeadsThere, others

\* A change that is told as it is made keeps the invariant, also within another call.
LEMMA ChangeKept ==
    ASSUME CollectionInv, NEW new \in Seq(Value), NEW tells \in Seq(Telling), NEW adds \in BOOLEAN,
           C!Changed(new, tells, adds),
           C!Awaitable => tells = <<>>,
           ~C!Awaitable => tells # <<>> /\ tells[1].what \in AboutLength,
           ~C!Awaitable => \A c : Agrees(c) => LeadsThere(c, tells)',
           C!Awaitable /\ ~adds =>
               C!ToSet(new) \subseteq C!ToSet(items) /\ (kind = "list" => Len(new) <= Len(items))
    PROVE  CollectionInv'
<1> DEFINE inner == IF tells = <<>> THEN <<>> ELSE <<tells>>
           outer == IF frames = <<>> THEN <<>>
                    ELSE <<[frames[1] EXCEPT ![1].heard = TRUE]>> \o Tail(frames)
<1>1. /\ items' = new /\ frames' = inner \o outer
      /\ nested' = (nested \/ frames # <<>>)
      /\ waiter' = (IF adds /\ waiter = "waits" THEN "reads" ELSE waiter)
      /\ missed' = (missed \/ (adds /\ waiter = "asks"))
      /\ copy' = (IF nested' THEN <<>> ELSE copy)
      /\ UNCHANGED <<kind, lengthSeen, snapshot>>
  BY DEF C!Changed
<1>t. /\ kind \in C!Observable \cup {"list", "awaitableSet", "awaitableMap"}
      /\ items \in Seq(Value) /\ snapshot \in Seq(Value) /\ frames \in Seq(Frame)
  BY DEF CollectionInv, CollectionTypes
<1>2. inner \in Seq(Frame) /\ Len(inner) = (IF tells = <<>> THEN 0 ELSE 1)
      /\ (tells # <<>> => inner[1] = tells)
  <2>1. CASE tells = <<>>
    BY <2>1
  <2>2. CASE tells # <<>>
    <3>1. tells \in Frame /\ inner = <<tells>>
      BY <2>2 DEF Frame
    <3> HIDE DEF inner
    <3> QED
      BY <2>2, <3>1
  <2> QED
    BY <2>1, <2>2
<1>3. outer \in Seq(Frame) /\ (frames = <<>> => outer = <<>>)
  <2>1. CASE frames = <<>>
    BY <2>1
  <2>2. CASE frames # <<>>
    <3> DEFINE first == frames[1]
    <3>1. first \in Seq(Telling) /\ first # <<>> /\ Tail(frames) \in Seq(Frame)
      BY <1>t, <2>2 DEF Frame
    <3>2. Len(first) \in Nat /\ 1 \in 1..Len(first) /\ first[1] \in Telling
      BY <3>1
    <3> DEFINE one == [first[1] EXCEPT !.heard = TRUE]
               again == [first EXCEPT ![1] = one]
    <3>3. one \in Telling
      BY <3>2 DEF Telling
    <3>4. again \in Seq(Telling) /\ again # <<>>
      <4> HIDE DEF one, first
      <4>1. Len(again) = Len(first) /\ again \in Seq(Telling)
        BY <3>1, <3>2, <3>3
      <4> HIDE DEF again
      <4> QED
        BY <3>2, <4>1
    <3>5. outer = <<again>> \o Tail(frames)
      BY <2>2
    <3> HIDE DEF again, one, first
    <3>6. again \in Frame
      BY <3>4 DEF Frame
    <3>7. <<again>> \in Seq(Frame)
      BY <3>6
    <3> HIDE DEF outer
    <3> QED
      BY <2>2, <3>1, <3>5, <3>7
  <2> QED
    BY <2>1, <2>2
<1> HIDE DEF inner, outer
<1>4. /\ frames' \in Seq(Frame) /\ Len(frames') = Len(inner) + Len(outer)
      /\ \A i \in 1..(Len(inner) + Len(outer)) :
            frames'[i] = IF i <= Len(inner) THEN inner[i] ELSE outer[i - Len(inner)]
  BY <1>1, <1>2, <1>3, ConcatProperties
<1>5. C!Awaitable' <=> C!Awaitable
  BY <1>1 DEF C!Awaitable, C!Observable
<1>6. tells # <<>> => frames'[1] = tells /\ Len(frames') >= 1
  <2>1. Len(outer) \in Nat
    BY <1>3
  <2> QED
    BY <1>2, <1>4, <2>1
<1>7. CollectionTypes'
  BY <1>1, <1>4, <1>t DEF CollectionTypes, C!Observable
<1>8. LengthInv'
  <2> SUFFICES ASSUME ~C!Awaitable
               PROVE  \E i \in 1..Len(frames') : \E j \in 1..Len(frames'[i]) : frames'[i][j].what \in AboutLength
    BY <1>5 DEF LengthInv
  <2>1. 1 \in 1..Len(frames') /\ frames'[1] = tells /\ tells[1].what \in AboutLength
    BY <1>4, <1>6
  <2>2. 1 \in 1..Len(tells)
    BY <2>1
  <2> QED
    BY <2>1, <2>2
<1>9. OuterInv'
  <2>1. ASSUME C!Awaitable PROVE frames' = <<>>
    <3>1. inner = <<>> /\ outer = <<>>
      BY <1>3, <2>1 DEF inner, CollectionInv, OuterInv
    <3> QED
      BY <1>1, <3>1
  <2>2. ASSUME ~nested' PROVE Len(frames') <= 1
    <3>1. outer = <<>>
      BY <1>1, <1>3, <2>2
    <3> QED
      BY <1>2, <1>4, <3>1
  <2> QED
    BY <1>5, <2>1, <2>2 DEF OuterInv
<1>10. CopyInv'
  <2> SUFFICES ASSUME ~C!Awaitable, ~nested'
               PROVE  LeadsThere(copy, tells)'
    <3>1. ~C!Awaitable => tells = IF frames' = <<>> THEN <<>> ELSE frames'[1]
      BY <1>4, <1>6
    <3> QED
      BY <1>5, <3>1, Zenon DEF CopyInv
  <2>1. copy' = copy /\ ~nested /\ frames = <<>>
    BY <1>1
  <2>2. Agrees(copy)
    BY <2>1, ThereAlready DEF CollectionInv, CopyInv
  <2>3. \A c : Agrees(c) => LeadsThere(c, tells)'
    OBVIOUS
  <2> QED
    BY <2>1, <2>2, <2>3 DEF LeadsThere
<1>11. WaiterInv'
  <2> SUFFICES ASSUME C!Awaitable
               PROVE  /\ kind = "list" => waiter' # "asks"
                      /\ ~missed' /\ waiter' \in {"waits", "asks"} =>
                             /\ C!ToSet(new) \subseteq C!ToSet(snapshot)
                             /\ kind = "list" => Len(new) <= Len(snapshot)
    BY <1>1, <1>5 DEF WaiterInv, C!ToSet
  <2>1. /\ kind = "list" => waiter # "asks"
        /\ ~missed /\ waiter \in {"waits", "asks"} =>
               /\ C!ToSet(items) \subseteq C!ToSet(snapshot)
               /\ kind = "list" => Len(items) <= Len(snapshot)
    BY DEF CollectionInv, WaiterInv
  <2>2. CASE ~adds
    <3>1. waiter' = waiter /\ (missed' <=> missed)
      BY <1>1, <2>2, Zenon
    <3>2. C!ToSet(new) \subseteq C!ToSet(items) /\ (kind = "list" => Len(new) <= Len(items))
      BY <2>2
    <3>3. Len(new) \in Nat /\ Len(items) \in Nat /\ Len(snapshot) \in Nat
      BY <1>t
    <3> QED
      BY <2>1, <3>1, <3>2, <3>3
  <2>3. CASE adds
    <3>1. waiter' = IF waiter = "waits" THEN "reads" ELSE waiter
      BY <1>1, <2>3
    <3>2. missed' \/ waiter # "asks"
      BY <1>1, <2>3
    <3> QED
      BY <2>1, <3>1, <3>2
  <2> QED
    BY <2>2, <2>3
<1> QED
  BY <1>7, <1>8, <1>9, <1>10, <1>11 DEF CollectionInv

-----------------------------------------------------------------------------
(* What is told of a change leads there.                                    *)

LEMMA LedByOne ==
    ASSUME NEW c, NEW t, Agrees(C!Made(c, t))
    PROVE  LeadsThere(c, <<t>>)
<1> DEFINE told == <<t>>
           d == C!Made(c, t)
           h == [k \in 1..2 |-> IF k = 1 THEN c ELSE d]
<1>1. Len(told) = 1 /\ told[1] = t
  OBVIOUS
<1>2. h[1] = c /\ h[2] = d
  OBVIOUS
<1>3. d = C!Made(c, t) /\ Agrees(d)
  OBVIOUS
<1> HIDE DEF told, h, d
<1>4. \A k \in 1..Len(told) : h[k + 1] = C!Made(h[k], told[k])
  <2>1. \A k \in 1..Len(told) : k = 1
    BY <1>1
  <2>2. h[1 + 1] = C!Made(h[1], told[1])
    BY <1>1, <1>2, <1>3
  <2> QED
    BY <2>1, <2>2
<1>5. Agrees(h[Len(told) + 1])
  BY <1>1, <1>2, <1>3
<1>6. LeadsThere(c, told)
  BY <1>2, <1>4, <1>5 DEF LeadsThere
<1> QED
  BY <1>6 DEF told

LEMMA LedByTwo ==
    ASSUME NEW c, NEW t, NEW u, Agrees(C!Made(C!Made(c, t), u))
    PROVE  LeadsThere(c, <<t, u>>)
<1> DEFINE told == <<t, u>>
           d == C!Made(c, t)
           e == C!Made(d, u)
           h == [k \in 1..3 |-> IF k = 1 THEN c ELSE IF k = 2 THEN d ELSE e]
<1>1. Len(told) = 2 /\ told[1] = t /\ told[2] = u
  OBVIOUS
<1>2. h[1] = c /\ h[2] = d /\ h[3] = e
  OBVIOUS
<1>3. d = C!Made(c, t) /\ e = C!Made(d, u) /\ Agrees(e)
  OBVIOUS
<1> HIDE DEF told, h, d, e
<1>4. \A k \in 1..Len(told) : h[k + 1] = C!Made(h[k], told[k])
  <2>1. \A k \in 1..Len(told) : k = 1 \/ k = 2
    BY <1>1
  <2>2. h[1 + 1] = C!Made(h[1], told[1]) /\ h[2 + 1] = C!Made(h[2], told[2])
    BY <1>1, <1>2, <1>3
  <2> QED
    BY <2>1, <2>2
<1>5. Agrees(h[Len(told) + 1])
  BY <1>1, <1>2, <1>3
<1>6. LeadsThere(c, told)
  BY <1>2, <1>4, <1>5 DEF LeadsThere
<1> QED
  BY <1>6 DEF told

LEMMA LedByFour ==
    ASSUME NEW c, NEW t, NEW u, NEW v, NEW w,
           Agrees(C!Made(C!Made(C!Made(C!Made(c, t), u), v), w))
    PROVE  LeadsThere(c, <<t, u>> \o <<v, w>>)
<1> DEFINE told == <<t, u>> \o <<v, w>>
           d == C!Made(c, t)
           e == C!Made(d, u)
           f == C!Made(e, v)
           g == C!Made(f, w)
           h == [k \in 1..5 |-> IF k = 1 THEN c ELSE IF k = 2 THEN d ELSE IF k = 3 THEN e
                                ELSE IF k = 4 THEN f ELSE g]
<1>1. Len(told) = 4 /\ told[1] = t /\ told[2] = u /\ told[3] = v /\ told[4] = w
  <2> DEFINE one == <<t, u>>
             two == <<v, w>>
             Of4 == {t, u, v, w}
  <2>1. one \in Seq(Of4) /\ Len(one) = 2 /\ one[1] = t /\ one[2] = u
    OBVIOUS
  <2>2. two \in Seq(Of4) /\ Len(two) = 2 /\ two[1] = v /\ two[2] = w
    OBVIOUS
  <2> HIDE DEF one, two, Of4
  <2>3. /\ Len(one \o two) = Len(one) + Len(two)
        /\ \A i \in 1..(Len(one) + Len(two)) :
              (one \o two)[i] = IF i <= Len(one) THEN one[i] ELSE two[i - Len(one)]
    BY <2>1, <2>2, ConcatProperties
  <2>4. told = one \o two
    BY Zenon DEF one, two
  <2> HIDE DEF told
  <2>5. /\ 1 \in 1..4 /\ 2 \in 1..4 /\ 3 \in 1..4 /\ 4 \in 1..4
        /\ 1 <= 2 /\ ~(3 <= 2) /\ ~(4 <= 2) /\ 3 - 2 = 1 /\ 4 - 2 = 2
    OBVIOUS
  <2> QED
    BY <2>1, <2>2, <2>3, <2>4, <2>5
<1>3. d = C!Made(c, t) /\ e = C!Made(d, u) /\ f = C!Made(e, v) /\ g = C!Made(f, w) /\ Agrees(g)
  OBVIOUS
<1> HIDE DEF told, d, e, f, g
<1>2. h[1] = c /\ h[2] = d /\ h[3] = e /\ h[4] = f /\ h[5] = g
  OBVIOUS
<1> HIDE DEF h
<1>4. \A k \in 1..Len(told) : h[k + 1] = C!Made(h[k], told[k])
  <2>1. \A k \in 1..Len(told) : k = 1 \/ k = 2 \/ k = 3 \/ k = 4
    BY <1>1
  <2>2. h[1 + 1] = C!Made(h[1], told[1]) /\ h[2 + 1] = C!Made(h[2], told[2])
    BY <1>1, <1>2, <1>3
  <2>3. h[3 + 1] = C!Made(h[3], told[3]) /\ h[4 + 1] = C!Made(h[4], told[4])
    BY <1>1, <1>2, <1>3
  <2> QED
    BY <2>1, <2>2, <2>3
<1>5. Agrees(h[Len(told) + 1])
  BY <1>1, <1>2, <1>3
<1>6. LeadsThere(c, told)
  BY <1>2, <1>4, <1>5 DEF LeadsThere
<1> QED
  BY <1>6 DEF told

\* What is made of the tellings.
LEMMA MadeOf ==
    ASSUME NEW c, NEW told
    PROVE  /\ told.what = "add" /\ kind = "array" => C!Made(c, told) = c
           /\ told.what = "remove" /\ kind = "array" => C!Made(c, told) = c
           /\ told.what = "add" /\ kind = "set"
                  => C!Made(c, told) = c \o C!Kept(told.values, Value \ C!ToSet(c))
           /\ told.what = "remove" /\ kind = "set"
                  => C!Made(c, told) = C!Kept(c, Value \ C!ToSet(told.values))
           /\ told.what = "addAt"
                  => C!Made(c, told) = SubSeq(c, 1, told.at) \o told.values \o SubSeq(c, told.at + 1, Len(c))
           /\ told.what = "removeAt"
                  => C!Made(c, told) = SubSeq(c, 1, told.at)
                                          \o SubSeq(c, told.at + Len(told.values) + 1, Len(c))
           /\ told.what = "change" => C!Made(c, told) = items
           /\ told.what = "clear" => C!Made(c, told) = <<>>
<1> DEFINE w == told.what
           r1 == SubSeq(c, 1, told.at) \o told.values \o SubSeq(c, told.at + 1, Len(c))
           r2 == SubSeq(c, 1, told.at) \o SubSeq(c, told.at + Len(told.values) + 1, Len(c))
           r3 == c \o C!Kept(told.values, Value \ C!ToSet(c))
           r4 == C!Kept(c, Value \ C!ToSet(told.values))
<1>1. C!Made(c, told) =
          CASE w = "clear" -> <<>>
            [] w = "change" -> items
            [] w = "addAt" -> r1
            [] w = "removeAt" -> r2
            [] w = "add" /\ kind = "set" -> r3
            [] w = "remove" /\ kind = "set" -> r4
            [] OTHER -> c
  BY Zenon DEF C!Made
<1> HIDE DEF r1, r2, r3, r4, w
<1>2. w = "add" /\ kind = "array" => C!Made(c, told) = c
  BY <1>1
<1>3. w = "remove" /\ kind = "array" => C!Made(c, told) = c
  BY <1>1
<1>4. w = "add" /\ kind = "set" => C!Made(c, told) = r3
  BY <1>1
<1>5. w = "remove" /\ kind = "set" => C!Made(c, told) = r4
  BY <1>1
<1>6. w = "addAt" => C!Made(c, told) = r1
  BY <1>1
<1>7. w = "removeAt" => C!Made(c, told) = r2
  BY <1>1
<1>8. (w = "change" => C!Made(c, told) = items) /\ (w = "clear" => C!Made(c, told) = <<>>)
  BY <1>1
<1> QED
  BY <1>2, <1>3, <1>4, <1>5, <1>6, <1>7, <1>8, Zenon DEF r1, r2, r3, r4, w

LEMMA MadeAdd ==
    ASSUME NEW c, NEW at, NEW values
    PROVE  kind = "array" => C!Made(c, C!Told("add", at, values)) = c
<1> DEFINE told == C!Told("add", at, values)
<1>1. told.what = "add" /\ told.at = at /\ told.values = values
  BY DEF C!Told
<1> HIDE DEF told
<1>2. kind = "array" => C!Made(c, told) = c
  BY <1>1, MadeOf
<1> QED
  BY <1>2 DEF told

LEMMA MadeRemove ==
    ASSUME NEW c, NEW at, NEW values
    PROVE  kind = "array" => C!Made(c, C!Told("remove", at, values)) = c
<1> DEFINE told == C!Told("remove", at, values)
<1>1. told.what = "remove" /\ told.at = at /\ told.values = values
  BY DEF C!Told
<1> HIDE DEF told
<1>2. kind = "array" => C!Made(c, told) = c
  BY <1>1, MadeOf
<1> QED
  BY <1>2 DEF told

LEMMA MadeSetAdd ==
    ASSUME NEW c, NEW at, NEW values
    PROVE  kind = "set" => C!Made(c, C!Told("add", at, values)) = c \o C!Kept(values, Value \ C!ToSet(c))
<1> DEFINE told == C!Told("add", at, values)
<1>1. told.what = "add" /\ told.at = at /\ told.values = values
  BY DEF C!Told
<1> HIDE DEF told
<1>2. kind = "set" => C!Made(c, told) = c \o C!Kept(values, Value \ C!ToSet(c))
  BY <1>1, MadeOf
<1> QED
  BY <1>2 DEF told

LEMMA MadeSetRemove ==
    ASSUME NEW c, NEW at, NEW values
    PROVE  kind = "set" => C!Made(c, C!Told("remove", at, values)) = C!Kept(c, Value \ C!ToSet(values))
<1> DEFINE told == C!Told("remove", at, values)
<1>1. told.what = "remove" /\ told.at = at /\ told.values = values
  BY DEF C!Told
<1> HIDE DEF told
<1>2. kind = "set" => C!Made(c, told) = C!Kept(c, Value \ C!ToSet(values))
  BY <1>1, MadeOf
<1> QED
  BY <1>2 DEF told

LEMMA MadeAddAt ==
    ASSUME NEW c, NEW at, NEW values
    PROVE  C!Made(c, C!Told("addAt", at, values)) = SubSeq(c, 1, at) \o values \o SubSeq(c, at + 1, Len(c))
<1> DEFINE told == C!Told("addAt", at, values)
<1>1. told.what = "addAt" /\ told.at = at /\ told.values = values
  BY DEF C!Told
<1> HIDE DEF told
<1>2. C!Made(c, told) = SubSeq(c, 1, at) \o values \o SubSeq(c, at + 1, Len(c))
  BY <1>1, MadeOf
<1> QED
  BY <1>2 DEF told

LEMMA MadeRemoveAt ==
    ASSUME NEW c, NEW at, NEW values
    PROVE  C!Made(c, C!Told("removeAt", at, values)) = SubSeq(c, 1, at) \o SubSeq(c, at + Len(values) + 1, Len(c))
<1> DEFINE told == C!Told("removeAt", at, values)
<1>1. told.what = "removeAt" /\ told.at = at /\ told.values = values
  BY DEF C!Told
<1> HIDE DEF told
<1>2. C!Made(c, told) = SubSeq(c, 1, at) \o SubSeq(c, at + Len(values) + 1, Len(c))
  BY <1>1, MadeOf
<1> QED
  BY <1>2 DEF told

LEMMA MadeChange ==
    ASSUME NEW c, NEW at, NEW values
    PROVE  C!Made(c, C!Told("change", at, values)) = items
<1> DEFINE told == C!Told("change", at, values)
<1>1. told.what = "change" /\ told.at = at /\ told.values = values
  BY DEF C!Told
<1> HIDE DEF told
<1>2. C!Made(c, told) = items
  BY <1>1, MadeOf
<1> QED
  BY <1>2 DEF told

LEMMA MadeClear ==
    ASSUME NEW c, NEW at, NEW values
    PROVE  C!Made(c, C!Told("clear", at, values)) = <<>>
<1> DEFINE told == C!Told("clear", at, values)
<1>1. told.what = "clear" /\ told.at = at /\ told.values = values
  BY DEF C!Told
<1> HIDE DEF told
<1>2. C!Made(c, told) = <<>>
  BY <1>1, MadeOf
<1> QED
  BY <1>2 DEF told

\* What leads to the collection from c, by the change that it has seen.
LeadsFrom(c) ==
    /\ kind = "array" =>
          /\ \A at, values :
                /\ items = SubSeq(c, 1, at) \o values \o SubSeq(c, at + 1, Len(c))
                       => LeadsThere(c, C!onAddAt(at, values))
                /\ items = SubSeq(c, 1, at) \o SubSeq(c, at + Len(values) + 1, Len(c))
                       => LeadsThere(c, C!onRemoveAt(at, values))
          /\ \A at \in Nat : \A x, y :
                LET d == SubSeq(c, 1, at) \o SubSeq(c, at + 1 + 1, Len(c))
                IN  items = SubSeq(d, 1, at) \o <<x>> \o SubSeq(d, at + 1, Len(d))
                        => LeadsThere(c, C!onRemoveAt(at, <<y>>) \o C!onAddAt(at, <<x>>))
    /\ kind = "set" => \A at : \A values \in Seq(Value) :
          /\ C!ToSet(items) = C!ToSet(c) \cup C!ToSet(values)
                 => LeadsThere(c, <<C!Told("add", at, values)>>)
          /\ C!ToSet(items) = C!ToSet(c) \ C!ToSet(values)
                 => LeadsThere(c, <<C!Told("remove", at, values)>>)
    /\ \A at, values :
          /\ kind = "map" => LeadsThere(c, <<C!Told("change", at, values)>>)
          /\ items = <<>> => LeadsThere(c, <<C!Told("clear", at, values)>>)
TellingsLead == \A c \in Seq(Value) : items \in Seq(Value) => LeadsFrom(c)

LEMMA TellingsDo == TellingsLead
<1> SUFFICES ASSUME NEW c \in Seq(Value), items \in Seq(Value) PROVE LeadsFrom(c)
  BY DEF TellingsLead
<1>1. Agrees(items)
  BY DEF Agrees
<1>2. ASSUME kind = "array", NEW at, NEW values,
             items = SubSeq(c, 1, at) \o values \o SubSeq(c, at + 1, Len(c))
      PROVE  LeadsThere(c, C!onAddAt(at, values))
  <2>1. C!Made(c, C!Told("add", at, values)) = c
    BY <1>2, MadeAdd
  <2>2. C!Made(c, C!Told("addAt", at, values)) = items
    BY <1>2, MadeAddAt
  <2> QED
    BY <1>1, <2>1, <2>2, LedByTwo, Zenon DEF C!onAddAt
<1>3. ASSUME kind = "array", NEW at, NEW values,
             items = SubSeq(c, 1, at) \o SubSeq(c, at + Len(values) + 1, Len(c))
      PROVE  LeadsThere(c, C!onRemoveAt(at, values))
  <2>1. C!Made(c, C!Told("remove", at, values)) = c
    BY <1>3, MadeRemove
  <2>2. C!Made(c, C!Told("removeAt", at, values)) = items
    BY <1>3, MadeRemoveAt
  <2> QED
    BY <1>1, <2>1, <2>2, LedByTwo, Zenon DEF C!onRemoveAt
<1>4. ASSUME kind = "array", NEW at \in Nat, NEW x, NEW y,
             LET d == SubSeq(c, 1, at) \o SubSeq(c, at + 1 + 1, Len(c))
             IN  items = SubSeq(d, 1, at) \o <<x>> \o SubSeq(d, at + 1, Len(d))
      PROVE  LeadsThere(c, C!onRemoveAt(at, <<y>>) \o C!onAddAt(at, <<x>>))
  <2> DEFINE d == SubSeq(c, 1, at) \o SubSeq(c, at + 1 + 1, Len(c))
             t == C!Told("remove", at, <<y>>)
             u == C!Told("removeAt", at, <<y>>)
             v == C!Told("add", at, <<x>>)
             w == C!Told("addAt", at, <<x>>)
  <2>1. items = SubSeq(d, 1, at) \o <<x>> \o SubSeq(d, at + 1, Len(d))
    BY <1>4, Zenon
  <2>2. Len(<<y>>) = 1
    OBVIOUS
  <2>3. C!Made(c, t) = c
    BY <1>4, MadeRemove
  <2>4. C!Made(c, u) = d
    <3>1. C!Made(c, u) = SubSeq(c, 1, at) \o SubSeq(c, at + Len(<<y>>) + 1, Len(c))
      BY MadeRemoveAt
    <3> QED
      BY <2>2, <3>1, Zenon
  <2> HIDE DEF d
  <2>5. C!Made(d, v) = d /\ C!Made(d, w) = items
    BY <1>4, <2>1, MadeAdd, MadeAddAt
  <2>6. C!onRemoveAt(at, <<y>>) = <<t, u>> /\ C!onAddAt(at, <<x>>) = <<v, w>>
    BY Zenon DEF C!onRemoveAt, C!onAddAt
  <2> HIDE DEF t, u, v, w
  <2>7. Agrees(C!Made(C!Made(C!Made(C!Made(c, t), u), v), w))
    BY <1>1, <2>3, <2>4, <2>5, Zenon
  <2>8. LeadsThere(c, <<t, u>> \o <<v, w>>)
    BY <2>7, LedByFour, Zenon
  <2> QED
    BY <2>6, <2>8, Zenon
<1>5. ASSUME kind = "set", NEW at, NEW values \in Seq(Value)
      PROVE  /\ C!ToSet(items) = C!ToSet(c) \cup C!ToSet(values)
                     => LeadsThere(c, <<C!Told("add", at, values)>>)
             /\ C!ToSet(items) = C!ToSet(c) \ C!ToSet(values)
                     => LeadsThere(c, <<C!Told("remove", at, values)>>)
  <2> DEFINE k == C!Kept(values, Value \ C!ToSet(c))
             l == C!Kept(c, Value \ C!ToSet(values))
  <2>1. C!Made(c, C!Told("add", at, values)) = c \o k /\ C!Made(c, C!Told("remove", at, values)) = l
    BY <1>5, MadeSetAdd, MadeSetRemove
  <2>2. C!ToSet(c) \subseteq Value /\ C!ToSet(values) \subseteq Value
    BY DEF C!ToSet
  <2>3. /\ k \in Seq(Value) /\ C!ToSet(k) = C!ToSet(values) \cap (Value \ C!ToSet(c))
        /\ l \in Seq(Value) /\ C!ToSet(l) = C!ToSet(c) \cap (Value \ C!ToSet(values))
    BY KeptValues
  <2> HIDE DEF k, l
  <2>4. c \o k \in Seq(Value) /\ C!ToSet(c \o k) = C!ToSet(c) \cup C!ToSet(k)
    BY <2>3, BothValues
  <2>5. C!ToSet(c \o k) = C!ToSet(c) \cup C!ToSet(values)
    BY <2>2, <2>3, <2>4
  <2>6. C!ToSet(l) = C!ToSet(c) \ C!ToSet(values)
    BY <2>2, <2>3
  <2>7. ASSUME C!ToSet(items) = C!ToSet(c) \cup C!ToSet(values)
        PROVE  LeadsThere(c, <<C!Told("add", at, values)>>)
    <3>1. Agrees(C!Made(c, C!Told("add", at, values)))
      BY <1>5, <2>1, <2>4, <2>5, <2>7 DEF Agrees, C!IsList
    <3> QED
      BY <3>1, LedByOne
  <2>8. ASSUME C!ToSet(items) = C!ToSet(c) \ C!ToSet(values)
        PROVE  LeadsThere(c, <<C!Told("remove", at, values)>>)
    <3>1. Agrees(C!Made(c, C!Told("remove", at, values)))
      BY <1>5, <2>1, <2>3, <2>6, <2>8 DEF Agrees, C!IsList
    <3> QED
      BY <3>1, LedByOne
  <2> QED
    BY <2>7, <2>8
<1>6. ASSUME NEW at, NEW values
      PROVE  /\ kind = "map" => LeadsThere(c, <<C!Told("change", at, values)>>)
             /\ items = <<>> => LeadsThere(c, <<C!Told("clear", at, values)>>)
  <2>1. /\ C!Made(c, C!Told("change", at, values)) = items
        /\ C!Made(c, C!Told("clear", at, values)) = <<>>
    BY MadeChange, MadeClear
  <2> QED
    BY <1>1, <2>1, LedByOne
<1> QED
  BY <1>2, <1>3, <1>4, <1>5, <1>6, Zenon DEF LeadsFrom

-----------------------------------------------------------------------------
(* The methods.                                                             *)

\* What is put into, taken out of and replaced in a sequence.
LEMMA InsertedIs ==
    ASSUME NEW s \in Seq(Value), NEW at \in Nat, at <= Len(s), NEW values \in Seq(Value)
    PROVE  SubSeq(s, 1, at) \o values \o SubSeq(s, at + 1, Len(s)) \in Seq(Value)
<1>1. SubSeq(s, 1, at) \in Seq(Value) /\ SubSeq(s, at + 1, Len(s)) \in Seq(Value)
  OBVIOUS
<1> QED
  BY <1>1

LEMMA WithoutIs ==
    ASSUME NEW s \in Seq(Value), NEW at \in Nat, NEW count \in Nat, at + count <= Len(s)
    PROVE  LET r == SubSeq(s, 1, at) \o SubSeq(s, at + count + 1, Len(s))
           IN  /\ r = Spliced(s, at, count, <<>>)
               /\ r \in Seq(Value) /\ Len(r) = Len(s) - count /\ C!ToSet(r) \subseteq C!ToSet(s)
<1> DEFINE a == SubSeq(s, 1, at)
           b == SubSeq(s, at + count + 1, Len(s))
           r == a \o b
<1>1. r = Spliced(s, at, count, <<>>)
  <2>1. a \in Seq(Value)
    OBVIOUS
  <2> HIDE DEF a
  <2>2. a \o <<>> = a
    BY <2>1
  <2> QED
    BY <2>2, Zenon DEF Spliced, a
<1> HIDE DEF r, a, b
<1>2. /\ r \in Seq(Value) /\ Len(r) = Len(s) - count /\ Len(s) \in Nat
      /\ \A k \in 1..(Len(s) - count) : r[k] = IF k <= at THEN s[k] ELSE s[k + count]
  <2>1. /\ Spliced(s, at, count, <<>>) \in Seq(Value)
        /\ Len(Spliced(s, at, count, <<>>)) = Len(s) - count
        /\ \A k \in 1..(Len(s) - count) :
              Spliced(s, at, count, <<>>)[k] = IF k <= at THEN s[k] ELSE s[k + count]
    BY LeftOver
  <2>2. Len(s) \in Nat
    OBVIOUS
  <2> QED
    BY <1>1, <2>1, <2>2
<1>3. ASSUME NEW k \in 1..Len(r) PROVE r[k] \in C!ToSet(s)
  <2>1. k \in 1..Len(s) /\ k + count \in 1..Len(s) /\ DOMAIN s = 1..Len(s)
    BY <1>2
  <2> QED
    BY <1>2, <2>1 DEF C!ToSet
<1>4. C!ToSet(r) \subseteq C!ToSet(s)
  <2>1. DOMAIN r = 1..Len(r)
    BY <1>2
  <2> QED
    BY <1>3, <2>1 DEF C!ToSet
<1> QED
  BY <1>1, <1>2, <1>4 DEF r, a, b

LEMMA ReplacedIs ==
    ASSUME NEW s \in Seq(Value), NEW at \in Nat, at + 1 \in DOMAIN s, NEW x \in Value
    PROVE  LET d == SubSeq(s, 1, at) \o SubSeq(s, at + 1 + 1, Len(s))
           IN  /\ [s EXCEPT ![at + 1] = x] \in Seq(Value)
               /\ [s EXCEPT ![at + 1] = x] = SubSeq(d, 1, at) \o <<x>> \o SubSeq(d, at + 1, Len(d))
<1> DEFINE d == SubSeq(s, 1, at) \o SubSeq(s, at + 1 + 1, Len(s))
           r == SubSeq(d, 1, at) \o <<x>> \o SubSeq(d, at + 1, Len(d))
           t == [s EXCEPT ![at + 1] = x]
<1>1. Len(s) \in Nat /\ at + 1 <= Len(s)
  OBVIOUS
<1>2. d = Spliced(s, at, 1, <<>>) /\ d \in Seq(Value) /\ Len(d) = Len(s) - 1
  BY <1>1, WithoutIs
<1>3. \A k \in 1..(Len(s) - 1) : d[k] = IF k <= at THEN s[k] ELSE s[k + 1]
  <2>1. \A k \in 1..(Len(s) - 1) :
            Spliced(s, at, 1, <<>>)[k] = IF k <= at THEN s[k] ELSE s[k + 1]
    <3> HIDE DEF r, t, d
    <3>1. at + 1 <= Len(s) /\ 1 \in Nat
      BY <1>1
    <3>2. PICK one \in Nat : one = 1
      BY <3>1
    <3>3. \A k \in 1..(Len(s) - one) :
            Spliced(s, at, one, <<>>)[k] = IF k <= at THEN s[k] ELSE s[k + one]
      <4>1. at + one <= Len(s)
        BY <3>1, <3>2
      <4> QED
        BY <4>1, LeftOver
    <3> QED
      BY <3>2, <3>3
  <2> QED
    BY <1>2, <2>1
<1> HIDE DEF d
<1>4. r = Spliced(d, at, 0, <<x>>)
  <2>1. at + 0 + 1 = at + 1
    OBVIOUS
  <2> QED
    BY <2>1 DEF Spliced
<1>5. /\ r \in Seq(Value) /\ Len(r) = Len(s)
      /\ \A k \in 1..Len(s) : r[k] = IF k <= at THEN d[k] ELSE IF k = at + 1 THEN x ELSE d[k - 1]
  <2>1. at <= Len(d) /\ Len(d) + 1 = Len(s)
    BY <1>1, <1>2
  <2> HIDE DEF r, t
  <2>2. /\ Spliced(d, at, 0, <<x>>) \in Seq(Value)
        /\ Len(Spliced(d, at, 0, <<x>>)) = Len(d) + 1
        /\ \A k \in 1..(Len(d) + 1) :
              Spliced(d, at, 0, <<x>>)[k] = IF k <= at THEN d[k] ELSE IF k = at + 1 THEN x ELSE d[k - 1]
    <3>1. d \in Seq(Value) /\ at <= Len(d)
      BY <1>2, <2>1
    <3> QED
      BY <3>1, WithOneMore
  <2> QED
    BY <1>4, <2>1, <2>2
<1> HIDE DEF r
<1>6. t \in Seq(Value) /\ Len(t) = Len(s) /\ \A k \in 1..Len(s) : t[k] = IF k = at + 1 THEN x ELSE s[k]
  OBVIOUS
<1> HIDE DEF t
<1>7. ASSUME NEW k \in 1..Len(s) PROVE r[k] = t[k]
  <2>1. CASE k <= at
    <3>1. k \in 1..(Len(s) - 1) /\ k # at + 1
      BY <1>1, <2>1
    <3> QED
      BY <1>3, <1>5, <1>6, <2>1, <3>1
  <2>2. CASE k = at + 1
    BY <1>5, <1>6, <2>2
  <2>3. CASE k > at + 1
    <3>1. k - 1 \in 1..(Len(s) - 1) /\ ~(k - 1 <= at) /\ (k - 1) + 1 = k /\ ~(k <= at)
      BY <1>1, <2>3
    <3> QED
      BY <1>3, <1>5, <1>6, <2>3, <3>1
  <2> QED
    BY <2>1, <2>2, <2>3
<1>8. r = t
  BY <1>5, <1>6, <1>7
<1> QED
  BY <1>6, <1>8 DEF r, t, d

\* What is told is about the length first.
LEMMA ToldAbout ==
    ASSUME NEW what \in AboutLength, NEW at \in Nat, NEW values \in Seq(Value)
    PROVE  /\ <<C!Told(what, at, values)>> \in Seq(Telling)
           /\ <<C!Told(what, at, values)>> # <<>>
           /\ <<C!Told(what, at, values)>>[1].what \in AboutLength
<1> DEFINE t == C!Told(what, at, values)
<1>1. t \in Telling /\ t.what = what
  BY DEF C!Told, Telling
<1> HIDE DEF t
<1>2. <<t>> \in Seq(Telling) /\ <<t>> # <<>> /\ <<t>>[1] = t
  BY <1>1
<1> QED
  BY <1>1, <1>2 DEF t

LEMMA ListTold ==
    ASSUME NEW at \in Nat, NEW values \in Seq(Value)
    PROVE  /\ C!onAddAt(at, values) \in Seq(Telling) /\ C!onAddAt(at, values) # <<>>
           /\ C!onAddAt(at, values)[1].what \in AboutLength
           /\ C!onRemoveAt(at, values) \in Seq(Telling) /\ C!onRemoveAt(at, values) # <<>>
           /\ C!onRemoveAt(at, values)[1].what \in AboutLength
<1> DEFINE t == C!Told("add", at, values)
           u == C!Told("addAt", at, values)
           v == C!Told("remove", at, values)
           w == C!Told("removeAt", at, values)
<1>1. t \in Telling /\ u \in Telling /\ t.what \in AboutLength
  BY DEF C!Told, Telling, AboutLength
<1>2. v \in Telling /\ w \in Telling /\ v.what \in AboutLength
  BY DEF C!Told, Telling, AboutLength
<1>3. C!onAddAt(at, values) = <<t, u>> /\ C!onRemoveAt(at, values) = <<v, w>>
  BY Zenon DEF C!onAddAt, C!onRemoveAt
<1> HIDE DEF t, u, v, w
<1>4. <<t, u>> \in Seq(Telling) /\ <<t, u>> # <<>> /\ <<t, u>>[1] = t
  BY <1>1
<1>5. <<v, w>> \in Seq(Telling) /\ <<v, w>> # <<>> /\ <<v, w>>[1] = v
  BY <1>2
<1> QED
  BY <1>1, <1>2, <1>3, <1>4, <1>5

LEMMA TellingsDoThen == TellingsLead'
BY TellingsDo, PTL

LEMMA AddToListKept ==
    ASSUME CollectionInv, NEW at \in Nat, NEW values \in Seq(Value), C!AddToList(at, values)
    PROVE  CollectionInv'
<1> DEFINE new == C!Inserted(at, values)
<1>1. /\ kind \in {"array", "list"} /\ kind' = kind /\ items' = new
      /\ C!Changed(new, C!onAdd(at, values), TRUE)
      /\ at \in {0, Len(items)} \cup (IF items = <<>> THEN {} ELSE 0..Len(items) - 1)
  BY DEF C!AddToList, C!IsList, C!Changed
<1>2. items \in Seq(Value) /\ Len(items) \in Nat
  BY DEF CollectionInv, CollectionTypes
<1>3. at <= Len(items)
  BY <1>1, <1>2
<1>4. new = SubSeq(items, 1, at) \o values \o SubSeq(items, at + 1, Len(items)) /\ new \in Seq(Value)
  BY <1>2, <1>3, InsertedIs DEF C!Inserted
<1> HIDE DEF new
<1>5. CASE kind = "list"
  <2>1. C!onAdd(at, values) = <<>> /\ C!Awaitable
    BY <1>5 DEF C!onAdd, C!Awaitable, C!Observable
  <2>2. C!Changed(new, <<>>, TRUE)
    BY <1>1, <2>1, Zenon
  <2>3. <<>> \in Seq(Telling)
    OBVIOUS
  <2> QED
    BY <1>4, <2>1, <2>2, <2>3, ChangeKept
<1>6. CASE kind = "array"
  <2>1. C!onAdd(at, values) = C!onAddAt(at, values) /\ ~C!Awaitable
    BY <1>6 DEF C!onAdd, C!Awaitable, C!Observable
  <2>2. C!Changed(new, C!onAddAt(at, values), TRUE)
    BY <1>1, <2>1, Zenon
  <2>3. ASSUME NEW c, Agrees(c) PROVE LeadsThere(c, C!onAddAt(at, values))'
    <3>1. c = items /\ c \in Seq(Value)
      BY <1>6, <2>3 DEF Agrees, C!IsList
    <3>2. LeadsFrom(c)'
      BY <1>1, <1>4, <3>1, TellingsDoThen DEF TellingsLead
    <3>3. items' = SubSeq(c, 1, at) \o values \o SubSeq(c, at + 1, Len(c)) /\ kind' = "array"
      BY <1>1, <1>4, <1>6, <3>1
    <3> QED
      BY <3>2, <3>3 DEF LeadsFrom
  <2> QED
    BY <1>4, <2>1, <2>2, <2>3, ListTold, ChangeKept
<1> QED
  BY <1>1, <1>5, <1>6

LEMMA SetKept ==
    ASSUME CollectionInv, NEW at \in Nat, NEW x \in Value, C!Set(at, x)
    PROVE  CollectionInv'
<1> DEFINE new == [items EXCEPT ![at + 1] = x]
<1>1. PICK y : y = items[at + 1]
  OBVIOUS
<1> DEFINE tells == C!onRemoveAt(at, <<y>>) \o C!onAddAt(at, <<x>>)
<1>2. /\ kind = "array" /\ kind' = kind /\ items' = new /\ at + 1 \in DOMAIN items
      /\ C!Changed(new, tells, TRUE)
  BY <1>1 DEF C!Set, C!Changed
<1>3. items \in Seq(Value) /\ y \in Value
  BY <1>1, <1>2 DEF CollectionInv, CollectionTypes
<1>4. LET d == SubSeq(items, 1, at) \o SubSeq(items, at + 1 + 1, Len(items))
      IN  new \in Seq(Value) /\ new = SubSeq(d, 1, at) \o <<x>> \o SubSeq(d, at + 1, Len(d))
  BY <1>2, <1>3, ReplacedIs
<1>5. tells \in Seq(Telling) /\ tells # <<>> /\ tells[1].what \in AboutLength
  <2>1. <<x>> \in Seq(Value) /\ <<y>> \in Seq(Value)
    BY <1>3
  <2> DEFINE r == C!onRemoveAt(at, <<y>>)
             a == C!onAddAt(at, <<x>>)
  <2>2. r \in Seq(Telling) /\ a \in Seq(Telling) /\ r # <<>> /\ r[1].what \in AboutLength
    BY <2>1, ListTold
  <2> HIDE DEF r, a
  <2>3. r \o a \in Seq(Telling) /\ r \o a # <<>> /\ (r \o a)[1] = r[1]
    BY <2>2
  <2> QED
    BY <2>2, <2>3 DEF r, a
<1>6. ASSUME NEW c, Agrees(c) PROVE LeadsThere(c, tells)'
  <2>1. c = items /\ c \in Seq(Value)
    BY <1>2, <1>6 DEF Agrees, C!IsList
  <2>2. LeadsFrom(c)'
    BY <1>2, <1>4, <2>1, TellingsDoThen DEF TellingsLead
  <2>3. kind' = "array" /\ LET d == SubSeq(c, 1, at) \o SubSeq(c, at + 1 + 1, Len(c))
                           IN  items' = SubSeq(d, 1, at) \o <<x>> \o SubSeq(d, at + 1, Len(d))
    BY <1>2, <1>4, <2>1, Zenon
  <2> QED
    BY <2>2, <2>3, Zenon DEF LeadsFrom
<1>7. ~C!Awaitable
  BY <1>2 DEF C!Awaitable, C!Observable
<1>8. new \in Seq(Value)
  BY <1>4
<1>9. \A c : Agrees(c) => LeadsThere(c, tells)'
  BY <1>6
<1> HIDE DEF new, tells
<1> QED
  BY <1>2, <1>5, <1>7, <1>8, <1>9, ChangeKept

LEMMA RemoveFromListKept ==
    ASSUME CollectionInv, NEW at \in Nat, NEW count \in Nat, C!RemoveFromList(at, count)
    PROVE  CollectionInv'
<1> DEFINE new == C!Without(at, count)
<1>1. PICK values : values = SubSeq(items, at + 1, at + count)
  OBVIOUS
<1>2. /\ kind \in {"array", "list"} /\ kind' = kind /\ items' = new /\ at + count <= Len(items)
      /\ C!Changed(new, C!onRemove(at, values), FALSE)
  BY <1>1 DEF C!RemoveFromList, C!IsList, C!Changed
<1>3. items \in Seq(Value) /\ Len(items) \in Nat /\ values \in Seq(Value) /\ Len(values) = count
  BY <1>1, <1>2 DEF CollectionInv, CollectionTypes
<1>4. /\ new = SubSeq(items, 1, at) \o SubSeq(items, at + count + 1, Len(items))
      /\ new \in Seq(Value) /\ Len(new) = Len(items) - count /\ C!ToSet(new) \subseteq C!ToSet(items)
  BY <1>2, <1>3, WithoutIs DEF C!Without
<1> HIDE DEF new
<1>5. CASE kind = "list"
  <2>1. C!onRemove(at, values) = <<>> /\ C!Awaitable
    BY <1>5 DEF C!onRemove, C!Awaitable, C!Observable
  <2>2. C!Changed(new, <<>>, FALSE)
    BY <1>2, <2>1, Zenon
  <2>3. <<>> \in Seq(Telling)
    OBVIOUS
  <2>4. Len(new) <= Len(items)
    <3>1. Len(new) = Len(items) - count
      BY <1>4
    <3> QED
      BY <1>3, <3>1
  <2> QED
    BY <1>4, <2>1, <2>2, <2>3, <2>4, ChangeKept
<1>6. CASE kind = "array"
  <2>1. C!onRemove(at, values) = C!onRemoveAt(at, values) /\ ~C!Awaitable
    BY <1>6 DEF C!onRemove, C!Awaitable, C!Observable
  <2>2. C!Changed(new, C!onRemoveAt(at, values), FALSE)
    BY <1>2, <2>1, Zenon
  <2>3. ASSUME NEW c, Agrees(c) PROVE LeadsThere(c, C!onRemoveAt(at, values))'
    <3>1. c = items /\ c \in Seq(Value)
      BY <1>6, <2>3 DEF Agrees, C!IsList
    <3>2. LeadsFrom(c)'
      BY <1>2, <1>4, <3>1, TellingsDoThen DEF TellingsLead
    <3>3. items' = SubSeq(c, 1, at) \o SubSeq(c, at + Len(values) + 1, Len(c)) /\ kind' = "array"
      BY <1>2, <1>3, <1>4, <1>6, <3>1
    <3> QED
      BY <3>2, <3>3 DEF LeadsFrom
  <2> QED
    BY <1>3, <1>4, <2>1, <2>2, <2>3, ListTold, ChangeKept
<1> QED
  BY <1>2, <1>5, <1>6

\* An addition to a set or a map, and a removal from it, as they are told.
LEMMA SetAdds ==
    ASSUME CollectionInv, ~C!IsList, NEW new \in Seq(Value), NEW values \in Seq(Value),
           C!Changed(new, C!onAdd(0, values), TRUE),
           C!ToSet(new) = C!ToSet(items) \cup C!ToSet(values)
    PROVE  CollectionInv'
<1>1. kind \in {"set", "map", "awaitableSet", "awaitableMap"} /\ kind' = kind /\ items' = new
  BY DEF C!IsList, C!Changed, CollectionInv, CollectionTypes, C!Observable
<1>2. ASSUME NEW c, Agrees(c), ~C!Awaitable
      PROVE  c \in Seq(Value) /\ LeadsFrom(c)' /\ C!ToSet(items') = C!ToSet(c) \cup C!ToSet(values)
  <2>1. c \in Seq(Value) /\ C!ToSet(c) = C!ToSet(items)
    BY <1>2 DEF Agrees
  <2>2. LeadsFrom(c)'
    BY <1>1, <2>1, TellingsDoThen DEF TellingsLead
  <2> QED
    BY <1>1, <2>1, <2>2
<1>3. CASE kind \in {"awaitableSet", "awaitableMap"}
  <2>1. C!onAdd(0, values) = <<>> /\ C!Awaitable
    BY <1>3 DEF C!onAdd, C!Awaitable, C!Observable
  <2>2. C!Changed(new, <<>>, TRUE)
    BY <2>1, Zenon
  <2>3. <<>> \in Seq(Telling)
    OBVIOUS
  <2> QED
    BY <2>1, <2>2, <2>3, ChangeKept
<1>4. CASE kind = "set"
  <2> DEFINE tells == <<C!Told("add", 0, values)>>
  <2>1. C!onAdd(0, values) = tells /\ ~C!Awaitable
    BY <1>4 DEF C!onAdd, C!Awaitable, C!Observable
  <2>2. C!Changed(new, tells, TRUE)
    BY <2>1, Zenon
  <2>3. ASSUME NEW c, Agrees(c) PROVE LeadsThere(c, tells)'
    <3>1. c \in Seq(Value) /\ LeadsFrom(c)' /\ C!ToSet(items') = C!ToSet(c) \cup C!ToSet(values)
      BY <1>2, <2>1, <2>3
    <3>2. kind' = "set"
      BY <1>1, <1>4
    <3> QED
      BY <3>1, <3>2, Zenon DEF LeadsFrom, C!ToSet
  <2>4. tells \in Seq(Telling) /\ tells # <<>> /\ tells[1].what \in AboutLength
    <3>1. "add" \in AboutLength
      BY DEF AboutLength
    <3> QED
      BY <3>1, ToldAbout
  <2>5. \A c : Agrees(c) => LeadsThere(c, tells)'
    BY <2>3
  <2> HIDE DEF tells
  <2> QED
    BY <2>1, <2>2, <2>4, <2>5, ChangeKept
<1>5. CASE kind = "map"
  <2> DEFINE tells == <<C!Told("change", 0, values)>>
  <2>1. C!onAdd(0, values) = tells /\ ~C!Awaitable
    BY <1>5 DEF C!onAdd, C!Awaitable, C!Observable
  <2>2. C!Changed(new, tells, TRUE)
    BY <2>1, Zenon
  <2>3. ASSUME NEW c, Agrees(c) PROVE LeadsThere(c, tells)'
    <3>1. c \in Seq(Value) /\ LeadsFrom(c)'
      BY <1>2, <2>1, <2>3
    <3>2. kind' = "map"
      BY <1>1, <1>5
    <3> QED
      BY <3>1, <3>2, Zenon DEF LeadsFrom
  <2>4. tells \in Seq(Telling) /\ tells # <<>> /\ tells[1].what \in AboutLength
    <3>1. "change" \in AboutLength
      BY DEF AboutLength
    <3> QED
      BY <3>1, ToldAbout
  <2>5. \A c : Agrees(c) => LeadsThere(c, tells)'
    BY <2>3
  <2> HIDE DEF tells
  <2> QED
    BY <2>1, <2>2, <2>4, <2>5, ChangeKept
<1> QED
  BY <1>1, <1>3, <1>4, <1>5

LEMMA SetRemoves ==
    ASSUME CollectionInv, ~C!IsList, NEW new \in Seq(Value), NEW values \in Seq(Value),
           C!Changed(new, C!onRemove(0, values), FALSE),
           C!ToSet(new) = C!ToSet(items) \ C!ToSet(values)
    PROVE  CollectionInv'
<1>1. kind \in {"set", "map", "awaitableSet", "awaitableMap"} /\ kind' = kind /\ items' = new
  BY DEF C!IsList, C!Changed, CollectionInv, CollectionTypes, C!Observable
<1>2. ASSUME NEW c, Agrees(c), ~C!Awaitable
      PROVE  c \in Seq(Value) /\ LeadsFrom(c)' /\ C!ToSet(items') = C!ToSet(c) \ C!ToSet(values)
  <2>1. c \in Seq(Value) /\ C!ToSet(c) = C!ToSet(items)
    BY <1>2 DEF Agrees
  <2>2. LeadsFrom(c)'
    BY <1>1, <2>1, TellingsDoThen DEF TellingsLead
  <2> QED
    BY <1>1, <2>1, <2>2
<1>3. CASE kind \in {"awaitableSet", "awaitableMap"}
  <2>1. C!onRemove(0, values) = <<>> /\ C!Awaitable /\ kind # "list"
    BY <1>3 DEF C!onRemove, C!Awaitable, C!Observable
  <2>2. C!Changed(new, <<>>, FALSE)
    BY <2>1, Zenon
  <2>3. <<>> \in Seq(Telling)
    OBVIOUS
  <2>4. C!ToSet(new) \subseteq C!ToSet(items)
    OBVIOUS
  <2> QED
    BY <2>1, <2>2, <2>3, <2>4, ChangeKept
<1>4. CASE kind = "set"
  <2> DEFINE tells == <<C!Told("remove", 0, values)>>
  <2>1. C!onRemove(0, values) = tells /\ ~C!Awaitable
    BY <1>4 DEF C!onRemove, C!Awaitable, C!Observable
  <2>2. C!Changed(new, tells, FALSE)
    BY <2>1, Zenon
  <2>3. ASSUME NEW c, Agrees(c) PROVE LeadsThere(c, tells)'
    <3>1. c \in Seq(Value) /\ LeadsFrom(c)' /\ C!ToSet(items') = C!ToSet(c) \ C!ToSet(values)
      BY <1>2, <2>1, <2>3
    <3>2. kind' = "set"
      BY <1>1, <1>4
    <3> QED
      BY <3>1, <3>2, Zenon DEF LeadsFrom, C!ToSet
  <2>4. tells \in Seq(Telling) /\ tells # <<>> /\ tells[1].what \in AboutLength
    <3>1. "remove" \in AboutLength
      BY DEF AboutLength
    <3> QED
      BY <3>1, ToldAbout
  <2>5. \A c : Agrees(c) => LeadsThere(c, tells)'
    BY <2>3
  <2> HIDE DEF tells
  <2> QED
    BY <2>1, <2>2, <2>4, <2>5, ChangeKept
<1>5. CASE kind = "map"
  <2> DEFINE tells == <<C!Told("change", 0, values)>>
  <2>1. C!onRemove(0, values) = tells /\ ~C!Awaitable
    BY <1>5 DEF C!onRemove, C!Awaitable, C!Observable
  <2>2. C!Changed(new, tells, FALSE)
    BY <2>1, Zenon
  <2>3. ASSUME NEW c, Agrees(c) PROVE LeadsThere(c, tells)'
    <3>1. c \in Seq(Value) /\ LeadsFrom(c)'
      BY <1>2, <2>1, <2>3
    <3>2. kind' = "map"
      BY <1>1, <1>5
    <3> QED
      BY <3>1, <3>2, Zenon DEF LeadsFrom
  <2>4. tells \in Seq(Telling) /\ tells # <<>> /\ tells[1].what \in AboutLength
    <3>1. "change" \in AboutLength
      BY DEF AboutLength
    <3> QED
      BY <3>1, ToldAbout
  <2>5. \A c : Agrees(c) => LeadsThere(c, tells)'
    BY <2>3
  <2> HIDE DEF tells
  <2> QED
    BY <2>1, <2>2, <2>4, <2>5, ChangeKept
<1> QED
  BY <1>1, <1>3, <1>4, <1>5

\* What a set gets of the values is what it has not.
LEMMA NewValues ==
    ASSUME CollectionInv, NEW values \in Seq(Value)
    PROVE  /\ items \in Seq(Value) /\ C!ToSet(items) \subseteq Value /\ C!ToSet(values) \subseteq Value
           /\ C!NewOf(values) \in Seq(Value)
           /\ C!ToSet(C!NewOf(values)) = C!ToSet(values) \ C!ToSet(items)
           /\ items \o C!NewOf(values) \in Seq(Value)
           /\ C!ToSet(items \o C!NewOf(values)) = C!ToSet(items) \cup C!ToSet(values)
<1>1. items \in Seq(Value) /\ C!ToSet(items) \subseteq Value /\ C!ToSet(values) \subseteq Value
  BY DEF CollectionInv, CollectionTypes, C!ToSet
<1> DEFINE k == C!Kept(values, Value \ C!ToSet(items))
<1>2. C!NewOf(values) = k
  BY DEF C!NewOf
<1>3. k \in Seq(Value) /\ C!ToSet(k) = C!ToSet(values) \cap (Value \ C!ToSet(items))
  BY KeptValues
<1> HIDE DEF k
<1>4. C!ToSet(k) = C!ToSet(values) \ C!ToSet(items)
  BY <1>1, <1>3
<1>5. items \o k \in Seq(Value) /\ C!ToSet(items \o k) = C!ToSet(items) \cup C!ToSet(k)
  BY <1>1, <1>3, BothValues
<1>6. C!ToSet(items \o k) = C!ToSet(items) \cup C!ToSet(values)
  BY <1>4, <1>5
<1> QED
  BY <1>1, <1>2, <1>3, <1>4, <1>5, <1>6, Zenon

LEMMA AddToSetKept ==
    ASSUME CollectionInv, NEW x \in Value, C!AddToSet(x)
    PROVE  CollectionInv'
<1>1. ~C!IsList /\ C!Changed(items \o C!NewOf(<<x>>), C!onAdd(0, <<x>>), TRUE)
  BY Zenon DEF C!AddToSet
<1>2. <<x>> \in Seq(Value)
  OBVIOUS
<1>3. /\ items \o C!NewOf(<<x>>) \in Seq(Value)
      /\ C!ToSet(items \o C!NewOf(<<x>>)) = C!ToSet(items) \cup C!ToSet(<<x>>)
  BY <1>2, NewValues
<1> QED
  BY <1>1, <1>2, <1>3, SetAdds

LEMMA AddManyToSetKept ==
    ASSUME CollectionInv, NEW values \in Seq(Value), C!AddManyToSet(values)
    PROVE  CollectionInv'
<1> DEFINE once == IF values[1] = values[2] THEN <<values[1]>> ELSE values
           new == items \o C!NewOf(once)
<1>1. PICK told : told = C!NewOf(values)
  OBVIOUS
<1>2. ~C!IsList /\ Len(values) = 2 /\ C!Changed(new, C!onAdd(0, told), TRUE)
  BY <1>1 DEF C!AddManyToSet, C!IsList
<1>3. once \in Seq(Value) /\ C!ToSet(once) = C!ToSet(values)
  <2>1. values[1] \in Value /\ values[2] \in Value /\ DOMAIN values = {1, 2}
    BY <1>2
  <2>2. ASSUME values[1] = values[2] PROVE C!ToSet(<<values[1]>>) = C!ToSet(values)
    BY <2>1, <2>2 DEF C!ToSet
  <2> QED
    BY <2>1, <2>2
<1> HIDE DEF once
<1>4. new \in Seq(Value) /\ C!ToSet(new) = C!ToSet(items) \cup C!ToSet(once)
  BY <1>3, NewValues
<1>5. told \in Seq(Value) /\ C!ToSet(told) = C!ToSet(values) \ C!ToSet(items)
  BY <1>1, NewValues
<1> HIDE DEF new
<1>6. C!ToSet(new) = C!ToSet(items) \cup C!ToSet(told)
  BY <1>3, <1>4, <1>5
<1> QED
  BY <1>2, <1>4, <1>5, <1>6, SetAdds

LEMMA RemoveFromSetKept ==
    ASSUME CollectionInv, NEW values \in Seq(Value), C!RemoveFromSet(values)
    PROVE  CollectionInv'
<1> DEFINE new == C!Kept(items, Value \ C!ToSet(values))
<1>1. PICK gone : gone = C!Kept(values, C!ToSet(items))
  OBVIOUS
<1>2. ~C!IsList /\ C!Changed(new, C!onRemove(0, gone), FALSE)
  BY <1>1, Zenon DEF C!RemoveFromSet
<1>3. items \in Seq(Value) /\ C!ToSet(items) \subseteq Value
  BY DEF CollectionInv, CollectionTypes, C!ToSet
<1>4. new \in Seq(Value) /\ C!ToSet(new) = C!ToSet(items) \cap (Value \ C!ToSet(values))
  BY <1>3, KeptValues
<1>5. gone \in Seq(Value) /\ C!ToSet(gone) = C!ToSet(values) \cap C!ToSet(items)
  BY <1>1, KeptValues
<1> HIDE DEF new
<1>6. C!ToSet(new) = C!ToSet(items) \ C!ToSet(gone)
  BY <1>3, <1>4, <1>5
<1> QED
  BY <1>2, <1>4, <1>5, <1>6, SetRemoves

LEMMA ClearKept ==
    ASSUME CollectionInv, C!Clear
    PROVE  CollectionInv'
<1>1. C!Changed(<<>>, C!onClear, FALSE)
  BY DEF C!Clear
<1>2. kind' = kind /\ items' = <<>> /\ kind \in C!Observable \cup {"list", "awaitableSet", "awaitableMap"}
  BY <1>1 DEF C!Changed, CollectionInv, CollectionTypes
<1>3. <<>> \in Seq(Value) /\ <<>> \in Seq(Telling) /\ C!ToSet(<<>>) = {} /\ Len(<<>>) <= Len(items)
  BY DEF C!ToSet, CollectionInv, CollectionTypes
<1>4. ASSUME NEW c, Agrees(c) PROVE LeadsFrom(c)'
  <2>1. c \in Seq(Value)
    BY <1>4 DEF Agrees
  <2> QED
    BY <1>2, <1>3, <2>1, TellingsDoThen DEF TellingsLead
<1>5. CASE C!Awaitable
  <2>1. C!onClear = <<>>
    BY <1>5 DEF C!onClear, C!Awaitable, C!Observable
  <2>2. C!Changed(<<>>, <<>>, FALSE)
    BY <1>1, <2>1, Zenon
  <2> QED
    BY <1>3, <1>5, <2>2, ChangeKept
<1>6. CASE kind = "map"
  <2> DEFINE tells == <<C!Told("change", 0, <<>>)>>
  <2>1. C!onClear = tells /\ ~C!Awaitable
    BY <1>6 DEF C!onClear, C!Awaitable, C!Observable
  <2>2. C!Changed(<<>>, tells, FALSE)
    BY <1>1, <2>1, Zenon
  <2>3. tells \in Seq(Telling) /\ tells # <<>> /\ tells[1].what \in AboutLength
    <3>1. "change" \in AboutLength
      BY DEF AboutLength
    <3> QED
      BY <1>3, <3>1, ToldAbout
  <2>4. \A c : Agrees(c) => LeadsThere(c, tells)'
    <3>1. kind' = "map"
      BY <1>2, <1>6
    <3> QED
      BY <1>4, <3>1, Zenon DEF LeadsFrom
  <2> HIDE DEF tells
  <2> QED
    BY <1>3, <2>1, <2>2, <2>3, <2>4, ChangeKept
<1>7. CASE kind \in {"array", "set"}
  <2> DEFINE tells == <<C!Told("clear", 0, <<>>)>>
  <2>1. C!onClear = tells /\ ~C!Awaitable
    BY <1>7 DEF C!onClear, C!Awaitable, C!Observable
  <2>2. C!Changed(<<>>, tells, FALSE)
    BY <1>1, <2>1, Zenon
  <2>3. tells \in Seq(Telling) /\ tells # <<>> /\ tells[1].what \in AboutLength
    <3>1. "clear" \in AboutLength
      BY DEF AboutLength
    <3> QED
      BY <1>3, <3>1, ToldAbout
  <2>4. \A c : Agrees(c) => LeadsThere(c, tells)'
    BY <1>2, <1>4, Zenon DEF LeadsFrom
  <2> HIDE DEF tells
  <2> QED
    BY <1>3, <2>1, <2>2, <2>3, <2>4, ChangeKept
<1> QED
  BY <1>2, <1>5, <1>6, <1>7 DEF C!Awaitable, C!Observable

-----------------------------------------------------------------------------
(* The tellings, the waiter, and any step.                                  *)

LEMMA TellKept ==
    ASSUME CollectionInv, C!Tell
    PROVE  CollectionInv'
<1> DEFINE first == frames[1]
           told == first[1]
           rest_ == Tail(frames)
           one == IF Len(first) = 1 THEN <<>> ELSE <<Tail(first)>>
<1>1. /\ frames # <<>>
      /\ lengthSeen' = IF told.what \in AboutLength THEN Len(items) ELSE lengthSeen
      /\ copy' = IF nested THEN copy ELSE C!Made(copy, told)
      /\ frames' = IF Len(first) = 1 THEN rest_ ELSE <<Tail(first)>> \o rest_
      /\ UNCHANGED <<kind, items, nested, waiter, snapshot, missed>>
  BY DEF C!Tell, C!waiterVars, AboutLength
<1>2. /\ kind \in C!Observable \cup {"list", "awaitableSet", "awaitableMap"}
      /\ items \in Seq(Value) /\ snapshot \in Seq(Value) /\ frames \in Seq(Frame)
  BY DEF CollectionInv, CollectionTypes
<1>3. ~C!Awaitable /\ (C!Awaitable' <=> C!Awaitable)
  BY <1>1 DEF CollectionInv, OuterInv, C!Awaitable, C!Observable
<1>4. /\ first \in Frame /\ rest_ \in Seq(Frame) /\ Len(frames) \in Nat /\ Len(frames) >= 1
      /\ Len(rest_) = Len(frames) - 1
      /\ \A i \in 1..(Len(frames) - 1) : rest_[i] = frames[i + 1]
  BY <1>1, <1>2
<1> HIDE DEF rest_, told
<1>5. first \in Seq(Telling) /\ Len(first) \in Nat /\ Len(first) >= 1
  <2>1. first \in Seq(Telling) /\ first # <<>>
    BY <1>4 DEF Frame
  <2> HIDE DEF first
  <2> QED
    BY <2>1
<1>t. told = first[1]
  BY DEF told
<1> HIDE DEF first
<1>6. one \in Seq(Frame) /\ frames' = one \o rest_ /\ Len(one) = (IF Len(first) = 1 THEN 0 ELSE 1)
  <2>1. CASE Len(first) = 1
    <3>1. one = <<>> /\ <<>> \o rest_ = rest_
      BY <1>4, <2>1
    <3> HIDE DEF one
    <3> QED
      BY <1>1, <2>1, <3>1
  <2>2. CASE Len(first) # 1
    <3>1. Tail(first) \in Seq(Telling) /\ Len(Tail(first)) = Len(first) - 1
      BY <1>5
    <3>2. Tail(first) # <<>>
      <4> DEFINE others == Tail(first)
      <4>1. others \in Seq(Telling) /\ Len(others) = Len(first) - 1
        BY <3>1
      <4> HIDE DEF others
      <4>2. Len(others) # 0
        BY <1>5, <2>2, <4>1
      <4>3. others # <<>>
        BY <4>2
      <4> QED
        BY <4>3 DEF others
    <3>3. Tail(first) \in Frame /\ one = <<Tail(first)>>
      BY <2>2, <3>1, <3>2 DEF Frame
    <3> HIDE DEF one
    <3> QED
      BY <1>1, <2>2, <3>3
  <2> QED
    BY <2>1, <2>2
<1>7. /\ frames' \in Seq(Frame) /\ Len(frames') = Len(one) + Len(rest_)
      /\ \A i \in 1..(Len(one) + Len(rest_)) :
            frames'[i] = IF i <= Len(one) THEN one[i] ELSE rest_[i - Len(one)]
  <2>1. one \in Seq(Frame) /\ frames' = one \o rest_
    BY <1>6
  <2>2. rest_ \in Seq(Frame)
    BY <1>4
  <2> HIDE DEF one
  <2> QED
    BY <2>1, <2>2, ConcatProperties
<1>8. CollectionTypes'
  BY <1>1, <1>2, <1>7 DEF CollectionTypes, C!Observable
<1>9. LengthInv'
  <2>1. CASE told.what \in AboutLength
    BY <1>1, <2>1 DEF LengthInv
  <2>2. CASE told.what \notin AboutLength /\ lengthSeen = Len(items)
    BY <1>1, <2>2 DEF LengthInv
  <2>3. CASE told.what \notin AboutLength /\ lengthSeen # Len(items)
    <3>0. PICK i \in 1..Len(frames) : \E j \in 1..Len(frames[i]) : frames[i][j].what \in AboutLength
      BY <1>3, <2>3 DEF CollectionInv, LengthInv
    <3>1. PICK j \in 1..Len(frames[i]) : frames[i][j].what \in AboutLength
      BY <3>0
    <3>2. ASSUME NEW k \in 1..Len(frames'), NEW l, l \in 1..Len(frames'[k]), frames'[k][l] = frames[i][j]
          PROVE  LengthInv'
      BY <3>1, <3>2 DEF LengthInv
    <3>3. CASE i = 1
      <4>1. frames[i] = first /\ j # 1 /\ j \in 1..Len(first) /\ Len(first) # 1
        <5>1. frames[i] = first
          BY <3>3 DEF first
        <5>2. j # 1
          BY <1>t, <2>3, <3>1, <5>1
        <5> QED
          BY <1>5, <3>1, <5>1, <5>2
      <4>2. one = <<Tail(first)>> /\ Len(one) = 1
        BY <1>6, <4>1
      <4>4. one[1] = Tail(first)
        BY <4>2
      <4> HIDE DEF one
      <4>3. 1 \in 1..Len(frames') /\ frames'[1] = one[1]
        BY <1>4, <1>7, <4>2
      <4>5. j - 1 \in 1..Len(Tail(first)) /\ Tail(first)[j - 1] = first[j]
        <5>1. Len(Tail(first)) = Len(first) - 1 /\ \A m \in 1..(Len(first) - 1) : Tail(first)[m] = first[m + 1]
          BY <1>5
        <5>2. j - 1 \in 1..(Len(first) - 1) /\ (j - 1) + 1 = j
          BY <1>5, <4>1
        <5> QED
          BY <5>1, <5>2
      <4>6. j - 1 \in 1..Len(frames'[1]) /\ frames'[1][j - 1] = frames[i][j]
        BY <4>1, <4>3, <4>4, <4>5
      <4> QED
        BY <3>2, <4>3, <4>6
    <3>4. CASE i # 1
      <4> DEFINE k == Len(one) + (i - 1)
      <4>1. i - 1 \in 1..(Len(frames) - 1) /\ (i - 1) + 1 = i
        BY <1>4, <3>1, <3>4
      <4>2. rest_[i - 1] = frames[i]
        BY <1>4, <4>1
      <4>3. Len(one) \in Nat
        BY <1>6
      <4> HIDE DEF one
      <4>4. k \in 1..Len(frames') /\ ~(k <= Len(one)) /\ k - Len(one) = i - 1
        BY <1>4, <1>7, <4>1, <4>3
      <4>5. frames'[k] = frames[i]
        BY <1>7, <4>2, <4>4
      <4> HIDE DEF k
      <4> QED
        BY <3>1, <3>2, <4>4, <4>5
    <3> QED
      BY <3>3, <3>4
  <2> QED
    BY <2>1, <2>2, <2>3
<1>10. OuterInv'
  <2>1. Len(frames') <= Len(frames)
    BY <1>4, <1>6, <1>7
  <2> QED
    BY <1>1, <1>3, <1>4, <1>7, <2>1 DEF OuterInv, CollectionInv
<1>11. CopyInv'
  <2> SUFFICES ASSUME ~nested
               PROVE  LeadsThere(copy, IF frames = <<>> THEN <<>> ELSE frames[1])'
    BY <1>1, <1>3 DEF CopyInv
  <2>1. LeadsThere(copy, first)
    BY <1>1, <1>3 DEF CollectionInv, CopyInv, first
  <2>2. LeadsThere(C!Made(copy, told), Tail(first))
    BY <1>4, <1>t, <2>1, OneHeard
  <2>3. Tail(first) = IF frames' = <<>> THEN <<>> ELSE frames'[1]
    <3>1. Len(rest_) = 0
      BY <1>4 DEF CollectionInv, OuterInv
    <3>2. CASE Len(first) = 1
      <4>1. Tail(first) \in Seq(Telling) /\ Len(Tail(first)) = 0
        BY <1>5, <3>2
      <4>2. Len(frames') = 0
        BY <1>6, <1>7, <3>1, <3>2
      <4>3. frames' = <<>>
        BY <1>7, <4>2
      <4> DEFINE others == Tail(first)
      <4>4. others \in Seq(Telling) /\ Len(others) = 0
        BY <4>1
      <4> HIDE DEF others
      <4>5. others = <<>>
        BY <4>4
      <4> QED
        BY <4>3, <4>5 DEF others
    <3>3. CASE Len(first) # 1
      <4>1. one = <<Tail(first)>> /\ Len(one) = 1 /\ one[1] = Tail(first)
        BY <3>3
      <4> HIDE DEF one
      <4>2. Len(frames') = 1 /\ frames'[1] = Tail(first)
        BY <1>7, <3>1, <4>1
      <4>3. Len(frames') = 1
        BY <4>2
      <4>4. frames' # <<>>
        BY <4>3
      <4>5. Tail(first) = frames'[1]
        BY <4>2
      <4> QED
        BY <4>4, <4>5, Zenon
    <3> QED
      BY <3>2, <3>3, Zenon
  <2>4. ASSUME NEW c, NEW tells, LeadsThere(c, tells) PROVE LeadsThere(c, tells)'
    BY <1>1, <2>4, LeadsStill
  <2>5. PICK c : c = C!Made(copy, told)
    OBVIOUS
  <2>6. PICK tells : tells = Tail(first)
    OBVIOUS
  <2>7. LeadsThere(c, tells)'
    BY <2>2, <2>4, <2>5, <2>6
  <2>8. copy' = c
    BY <1>1, <2>5
  <2> QED
    BY <2>3, <2>6, <2>7, <2>8, Zenon DEF LeadsThere
<1>12. WaiterInv'
  BY <1>3 DEF WaiterInv
<1> QED
  BY <1>8, <1>9, <1>10, <1>11, <1>12 DEF CollectionInv

\* What leaves the collection and what is told as they are.
LEMMA OthersKept ==
    ASSUME CollectionInv, UNCHANGED <<kind, items, frames, lengthSeen, copy, nested>>,
           snapshot' \in Seq(Value), WaiterInv'
    PROVE  CollectionInv'
<1>1. CollectionTypes' /\ LengthInv' /\ OuterInv'
  BY DEF CollectionInv, CollectionTypes, LengthInv, OuterInv, C!Awaitable, C!Observable
<1>2. CopyInv'
  <2>1. ASSUME NEW c, NEW tells, LeadsThere(c, tells) PROVE LeadsThere(c, tells)'
    BY <2>1, LeadsStill
  <2> SUFFICES ASSUME ~C!Awaitable, ~nested
               PROVE  LeadsThere(copy, IF frames = <<>> THEN <<>> ELSE frames[1])'
    BY DEF CopyInv, C!Awaitable, C!Observable
  <2>2. PICK c : c = copy
    OBVIOUS
  <2>3. PICK tells : tells = IF frames = <<>> THEN <<>> ELSE frames[1]
    OBVIOUS
  <2>4. LeadsThere(c, tells)'
    BY <2>1, <2>2, <2>3 DEF CollectionInv, CopyInv
  <2>5. copy' = c /\ (IF frames' = <<>> THEN <<>> ELSE frames'[1]) = tells
    BY <2>2, <2>3
  <2> QED
    BY <2>4, <2>5, Zenon DEF LeadsThere
<1> QED
  BY <1>1, <1>2 DEF CollectionInv

LEMMA CollectionStep ==
    ASSUME CollectionInv, C!Next
    PROVE  CollectionInv'
<1>1. ASSUME NEW values \in C!SeqOf(Value, MaxAtOnce) \ {<<>>},
             \/ C!AddManyToSet(values) \/ C!RemoveFromSet(values)
             \/ \E at \in 0..MaxSize : C!AddToList(at, values)
      PROVE  CollectionInv'
  <2>1. values \in Seq(Value)
    BY SizeAssumption DEF C!SeqOf
  <2>2. \A at \in 0..MaxSize : at \in Nat
    BY SizeAssumption
  <2> QED
    BY <1>1, <2>1, <2>2, AddManyToSetKept, RemoveFromSetKept, AddToListKept
<1>2. ASSUME NEW x \in Value, C!AddToSet(x) \/ \E at \in 0..MaxSize : C!Set(at, x)
      PROVE  CollectionInv'
  <2>1. \A at \in 0..MaxSize : at \in Nat
    BY SizeAssumption
  <2> QED
    BY <1>2, <2>1, AddToSetKept, SetKept
<1>3. ASSUME NEW at \in 0..MaxSize, NEW count \in 1..MaxAtOnce, C!RemoveFromList(at, count)
      PROVE  CollectionInv'
  <2>1. at \in Nat /\ count \in Nat
    BY SizeAssumption
  <2> QED
    BY <1>3, <2>1, RemoveFromListKept
<1>4. CASE C!ReadAndAwait
  <2>1. /\ C!Awaitable /\ snapshot' = items /\ missed' = missed
        /\ waiter' = (IF kind = "list" THEN "waits" ELSE "asks")
        /\ UNCHANGED <<kind, items, frames, lengthSeen, copy, nested>>
    BY <1>4 DEF C!ReadAndAwait, C!observerVars
  <2>2. snapshot' \in Seq(Value) /\ Len(items) \in Nat
    BY <2>1 DEF CollectionInv, CollectionTypes
  <2>3. WaiterInv'
    BY <2>1, <2>2 DEF WaiterInv
  <2> QED
    BY <2>1, <2>2, <2>3, OthersKept
<1>5. CASE C!Then
  <2>1. /\ waiter = "asks" /\ waiter' = "waits"
        /\ UNCHANGED <<kind, items, frames, lengthSeen, copy, nested, snapshot, missed>>
    BY <1>5 DEF C!Then, C!observerVars
  <2>2. snapshot' \in Seq(Value)
    BY <2>1 DEF CollectionInv, CollectionTypes
  <2>3. WaiterInv'
    BY <2>1 DEF CollectionInv, WaiterInv, C!Awaitable, C!Observable
  <2> QED
    BY <2>1, <2>2, <2>3, OthersKept
<1> QED
  BY <1>1, <1>2, <1>3, <1>4, <1>5, ClearKept, TellKept DEF C!Next

LEMMA CollectionStays ==
    ASSUME CollectionInv, UNCHANGED <<items, collectionVars>>
    PROVE  CollectionInv'
<1>1. UNCHANGED <<kind, items, frames, lengthSeen, copy, nested, waiter, snapshot, missed>>
  BY DEF collectionVars
<1>2. snapshot' \in Seq(Value)
  BY <1>1 DEF CollectionInv, CollectionTypes
<1>3. WaiterInv'
  BY <1>1 DEF CollectionInv, WaiterInv, C!Awaitable, C!Observable
<1> QED
  BY <1>1, <1>2, <1>3, OthersKept

LEMMA CollectionStarts ==
    C!Init => CollectionInv
<1> SUFFICES ASSUME C!Init PROVE CollectionInv
  OBVIOUS
<1>1. /\ kind \in C!Observable \cup {"list", "awaitableSet", "awaitableMap"}
      /\ items = <<>> /\ frames = <<>> /\ lengthSeen = 0 /\ copy = <<>>
      /\ waiter = "reads" /\ snapshot = <<>>
  BY DEF C!Init
<1>2. CollectionTypes /\ LengthInv /\ OuterInv /\ WaiterInv
  BY <1>1 DEF CollectionTypes, LengthInv, OuterInv, WaiterInv
<1>3. Agrees(copy)
  BY <1>1 DEF Agrees
<1>4. CopyInv
  BY <1>1, <1>3, ThereAlready DEF CopyInv
<1> QED
  BY <1>2, <1>4 DEF CollectionInv

\* When nothing is told any more, all that was is what there is.
LEMMA ObserversDo ==
    ASSUME CollectionInv
    PROVE  C!ObserversAgree /\ C!WaiterHasReadAll
<1>1. ASSUME frames = <<>>, ~C!Awaitable
      PROVE  lengthSeen = Len(items) /\ (~nested => IF C!IsList THEN copy = items ELSE C!ToSet(copy) = C!ToSet(items))
  <2>1. lengthSeen = Len(items)
    BY <1>1 DEF CollectionInv, LengthInv
  <2>2. ~nested => Agrees(copy)
    BY <1>1, ThereAlready DEF CollectionInv, CopyInv
  <2> QED
    BY <2>1, <2>2 DEF Agrees
<1>2. ASSUME C!Awaitable, waiter = "waits", ~missed
      PROVE  C!ToSet(items) \subseteq C!ToSet(snapshot) /\ (kind # "list" \/ Len(items) <= Len(snapshot))
  BY <1>2 DEF CollectionInv, WaiterInv
<1> QED
  BY <1>1, <1>2 DEF C!ObserversAgree, C!WaiterHasReadAll

-----------------------------------------------------------------------------
(* The theorems about the collections.                                      *)

\* Whoever removes a value takes it from those that the call has still to treat.
LEMMA WhoTakesValues ==
    ASSUME IInv, Next, call = "remove", rest # <<>>, rest' # rest
    PROVE  Remove \/ RemoveNothing
<1>1. ~Insert /\ ~RemoveFoundRange /\ ~RemoveNoRange /\ ~ValuesDone /\ ~Replay /\ ~Copies /\ ~Return /\ ~Clear
  BY DEF Insert, RemoveFoundRange, RemoveNoRange, ValuesDone, Replay, Copies, Return, Clear
<1>2. ~SearchEntry /\ ~Search /\ ~SearchRight
  BY DEF SearchEntry, Search, SearchRight
<1>3. \A m, values : ~Call(m, values)
  BY DEF Call
<1>4. \A e : ~Set(e) /\ ~Delete(e)
  BY DEF Set, Delete
<1>5. \A i, j : ~RemoveAt(i) /\ ~RemoveRange(i, j) /\ ~RemoveRangeByComparison(i, j)
  BY DEF RemoveAt, RemoveRange, RemoveRangeByComparison
<1> QED
  BY <1>1, <1>2, <1>3, <1>4, <1>5 DEF Next

\* Only the end of its two searches lets a removal by comparison go on.
LEMMA WhoTakesRanges ==
    ASSUME IInv, Next, call = "removeRangeByComparison", call' = "emit"
    PROVE  RemoveFoundRange \/ RemoveNoRange
<1>1. ~Insert /\ ~Remove /\ ~RemoveNothing /\ ~ValuesDone /\ ~Replay /\ ~Copies /\ ~Return /\ ~Clear
  BY DEF Insert, Remove, RemoveNothing, RemoveSearched, ValuesDone, Replay, Copies, Return, Clear
<1>2. ~SearchEntry /\ ~Search /\ ~SearchRight
  BY DEF SearchEntry, Search, SearchRight
<1>3. \A m, values : ~Call(m, values)
  BY DEF Call
<1>4. \A e : ~Set(e) /\ ~Delete(e)
  BY DEF Set, Delete
<1>5. \A i, j : ~RemoveAt(i) /\ ~RemoveRange(i, j) /\ ~RemoveRangeByComparison(i, j)
  BY DEF RemoveAt, RemoveRange, RemoveRangeByComparison
<1> QED
  BY <1>1, <1>2, <1>3, <1>4, <1>5 DEF Next

\* The inductive invariant of the sorted collections: the lists are sorted and searched
\* right, a removal searches for what it removes, what is emitted leads a replica to the
\* list, and the two structures of a map have the same entries.
SortedInv == IInv /\ RangeInv /\ EventsInv /\ MapInv

THEOREM SortedInvariant ==
    Spec => []SortedInv
<1>1. Init => SortedInv
  <2> SUFFICES ASSUME Init PROVE SortedInv
    OBVIOUS
  <2>1. IInv
    BY Initially
  <2>2. RangeInv
    BY DEF Init, RangeInv
  <2>3. EventsInv
    <3>1. Leads(<<>>, <<>>, <<>>)
      BY LeadsNone
    <3> QED
      BY <3>1 DEF Init, EventsInv
  <2>4. MapInv
    <3>1. list = <<>> /\ call = "none" /\ \A k \in Key : map[k] = NoEntry
      BY DEF Init
    <3>2. Indexes = {}
      BY <3>1 DEF Indexes, Length
    <3>3. Entries = {} /\ Stored = {}
      BY <3>1, <3>2 DEF Entries, Stored
    <3> QED
      BY <3>1, <3>2, <3>3 DEF MapInv
  <2> QED
    BY <2>1, <2>2, <2>3, <2>4 DEF SortedInv
<1>2. SortedInv /\ [Next]_vars => SortedInv'
  BY Inductive, RangeStep, EventsStep, MapStep DEF SortedInv
<1> QED
  BY <1>1, <1>2, PTL DEF Spec

\* A subscriber that replays the events has the list when the call has returned, and the
\* two structures of a SortedMap agree: for lists and maps of any length.
THEOREM ReplicasFollow ==
    Spec => []ReplicasAgree
<1>1. SortedInv => ReplicasAgree
  BY ReplicaFollows, MapIsOne DEF SortedInv, ReplicasAgree
<1> QED
  BY <1>1, SortedInvariant, PTL

\* Removing takes out exactly what it is asked for, by its identity or all between two
\* keys, whatever other entries compare as equal and wherever the searches end: for
\* lists of any length.
THEOREM RemovalsAreExact ==
    Spec => RemovesExactly
<1> DEFINE Exact ==
       /\ call = "remove" /\ rest' # rest /\ rest # <<>> =>
              IF Head(rest) \in Entries /\ (variant = "observable" => list' # list \/ \E i \in Indexes : Equal = {i})
              THEN \E i \in Indexes : At(i) = Head(rest) /\ list' = Spliced(list, i, 1, <<>>)
              ELSE list' = list
       /\ call = "removeRangeByComparison" /\ call' = "emit" =>
              \E i, count \in 0..Length :
                 /\ list' = Spliced(list, i, count, <<>>)
                 /\ \A j \in Indexes :
                       j \in i..(i + count - 1) <=> from <= At(j).key /\ At(j).key <= to
<1>1. SortedInv /\ Next => Exact
  <2> SUFFICES ASSUME SortedInv, Next PROVE Exact
    OBVIOUS
  <2>1. IInv /\ RangeInv
    BY DEF SortedInv
  <2> QED
    BY <2>1, WhoTakesValues, WhoTakesRanges, RemovesValue, RemovesRange
<1>2. SortedInv /\ [Next]_vars => [Exact]_vars
  BY <1>1
<1> QED
  BY <1>2, SortedInvariant, PTL DEF Spec, RemovesExactly

-----------------------------------------------------------------------------
(* Chains: a source that was read is let go of.                             *)

\* A stage is a record of these fields.
Shape(s) ==
    /\ s = [local |-> s.local, pending |-> s.pending, reads |-> s.reads, ended |-> s.ended,
            leaves |-> s.leaves, throws |-> s.throws]
    /\ s.reads \in BOOLEAN /\ s.ended \in BOOLEAN

ChainTypes ==
    /\ Len(chain) \in Nat \ {0} /\ async \in BOOLEAN
    /\ DOMAIN stage = 1..Len(chain) /\ stage = [i \in 1..Len(chain) |-> stage[i]]
    /\ \A i \in 1..Len(chain) : Shape(stage[i])
    /\ level \in 0..Len(chain) + 1 /\ built \in 1..Len(chain) + 1
    /\ status = "open" => level <= built
    /\ read \in Nat

\* A stage waits for the one before it in its loop.
WaitInv ==
    status = "open" =>
        \A k \in 1..Len(chain) : level < k /\ k <= built => stage[k].reads /\ ~stage[k].ended

\* While a source that was read is open nothing before the running stage has ended.
ReadInv ==
    status = "open" /\ source = "open" /\ read > 0 =>
        \A k \in 1..Len(chain) : k <= level => stage[k].reads /\ ~stage[k].ended

\* The result of a function is known when its loop is over.
ResultInv ==
    chain[Len(chain)] \in E!Functions =>
        stage[Len(chain)].pending = <<>> \/ stage[Len(chain)].ended

StopInv == status # "open" => level = Len(chain) + 1

\* A chain of any methods, as many as there are, over any source, called with any
\* count: E!Init without the bounds of its constants.
AnyChain ==
    /\ async \in BOOLEAN /\ Len(chain) \in Nat \ {0}
    /\ read = 0 /\ source = "open" /\ status = "open"
    /\ stage = [i \in E!Stages |-> E!NewStage(chain[i])]
    /\ built = E!NextToBuild(0) /\ level = built

ReleaseInv ==
    /\ ChainTypes /\ WaitInv /\ ReadInv /\ ResultInv /\ StopInv /\ E!SourceReleased

\* The loop of a function yields nothing, its result stands behind it.
LEMMA FunctionsYieldLast ==
    ASSUME NEW h \in E!Functions, NEW s, NEW x, async \in BOOLEAN
    PROVE  E!Body(h, s, x).yields = <<>>
<1> USE DEF E!Body, E!AsyncItem, E!SyncItem, E!H!Go, E!H!Leave, E!H!Throw, E!H!Matched
<1>1. CASE h = "all"
  BY <1>1 DEF E!H!all, E!H!allAsync
<1>2. CASE h = "any"
  BY <1>2 DEF E!H!any, E!H!anyAsync
<1>3. CASE h = "first"
  BY <1>3 DEF E!H!first, E!H!firstAsync
<1>4. CASE h = "firstOrDefault"
  BY <1>4 DEF E!H!firstOrDefault, E!H!firstOrDefaultAsync, E!H!first, E!H!firstAsync
<1>5. CASE h = "last"
  BY <1>5 DEF E!H!last, E!H!lastAsync
<1>6. CASE h = "lastOrDefault"
  BY <1>6 DEF E!H!lastOrDefault, E!H!lastOrDefaultAsync
<1>7. CASE h = "single"
  BY <1>7 DEF E!H!single, E!H!singleAsync, E!AsyncRest, E!SyncRest
<1>8. CASE h = "singleOrDefault"
  BY <1>8 DEF E!H!singleOrDefault, E!H!singleOrDefaultAsync, E!H!single, E!H!singleAsync, E!AsyncRest, E!SyncRest
<1>9. CASE h = "forEach"
  BY <1>9 DEF E!H!forEach, E!H!forEachAsync
<1>10. CASE h = "drain"
  BY <1>10 DEF E!H!drain, E!H!drainAsync
<1>11. CASE h = "reduce"
  BY <1>11 DEF E!H!reduce, E!H!reduceAsync, E!AsyncRest, E!SyncRest
<1>12. CASE h = "toArray"
  BY <1>12 DEF E!H!toArrayAsync, E!AsyncRest, E!SyncRest
<1>13. CASE h = "groupToMap"
  BY <1>13 DEF E!H!groupToMap, E!H!groupToMapAsync
<1>14. CASE h = "groupToSingleMap"
  BY <1>14 DEF E!H!groupToSingleMap, E!H!groupToSingleMapAsync
<1> QED
  BY <1>1, <1>2, <1>3, <1>4, <1>5, <1>6, <1>7, <1>8, <1>9, <1>10, <1>11, <1>12, <1>13, <1>14 DEF E!Functions

\* The stage that is built next is one of the chain, or the consumer's.
LEMMA BuildsNext ==
    ASSUME Len(chain) \in Nat, NEW k \in Nat
    PROVE  E!NextToBuild(k) \in 1..Len(chain) + 1
<1> DEFINE eager == {i \in 1..Len(chain) : i > k /\ E!Eager(chain[i])}
<1>1. eager \in SUBSET Nat
  OBVIOUS
<1>2. CASE eager = {}
  BY <1>2 DEF E!NextToBuild, E!Stages, E!N, E!Consumer
<1>3. CASE eager # {}
  <2>1. \E i \in eager : \A j \in eager : i <= j
    BY <1>1, <1>3, LeastOf
  <2>2. E!NextToBuild(k) = CHOOSE i \in eager : \A j \in eager : i <= j
    BY <1>3 DEF E!NextToBuild, E!Stages, E!N
  <2>3. E!NextToBuild(k) \in eager
    BY <2>1, <2>2
  <2> QED
    BY <2>3
<1> QED
  BY <1>2, <1>3

\* Before anything is asked no stage has read.
LEMMA ChainStarts ==
    ASSUME AnyChain
    PROVE  ReleaseInv
<1>1. built \in 1..Len(chain) + 1 /\ level = built
  BY BuildsNext DEF AnyChain
<1>2. /\ DOMAIN stage = 1..Len(chain) /\ stage = [i \in 1..Len(chain) |-> stage[i]]
      /\ \A i \in 1..Len(chain) : Shape(stage[i]) /\ stage[i].pending = <<>>
  BY DEF AnyChain, E!Stages, E!N, E!NewStage, Shape
<1>3. read = 0 /\ status = "open" /\ async \in BOOLEAN
  BY DEF AnyChain
<1>4. Len(chain) \in Nat /\ Len(chain) \in 1..Len(chain)
  BY DEF AnyChain
<1> QED
  BY <1>1, <1>2, <1>3, <1>4
  DEF ReleaseInv, ChainTypes, WaitInv, ReadInv, ResultInv, StopInv, E!SourceReleased

\* What a stage becomes keeps its shape.
LEMMA ClosedShape ==
    ASSUME NEW i, Shape(stage[i]), NEW new, new = [stage[i] EXCEPT !.ended = TRUE, !.pending = <<>>]
    PROVE  Shape(new) /\ new.ended
<1> DEFINE s == stage[i]
<1>1. s = [local |-> s.local, pending |-> s.pending, reads |-> s.reads, ended |-> s.ended,
           leaves |-> s.leaves, throws |-> s.throws]
  BY DEF Shape
<1>2. new = [local |-> s.local, pending |-> <<>>, reads |-> s.reads, ended |-> TRUE, leaves |-> s.leaves, throws |-> s.throws]
  BY <1>1
<1> QED
  BY <1>2 DEF Shape

LEMMA YieldedShape ==
    ASSUME NEW i, Shape(stage[i]), NEW new,
           new = [stage[i] EXCEPT !.pending = Tail(stage[i].pending)]
    PROVE  Shape(new) /\ new.reads = stage[i].reads /\ new.ended = stage[i].ended
<1> DEFINE s == stage[i]
<1>1. s = [local |-> s.local, pending |-> s.pending, reads |-> s.reads, ended |-> s.ended,
           leaves |-> s.leaves, throws |-> s.throws]
  BY DEF Shape
<1>2. new = [local |-> s.local, pending |-> Tail(s.pending), reads |-> s.reads, ended |-> s.ended, leaves |-> s.leaves, throws |-> s.throws]
  BY <1>1
<1> QED
  BY <1>2 DEF Shape

LEMMA AskedShape ==
    ASSUME NEW i, Shape(stage[i]), NEW new, new = [stage[i] EXCEPT !.reads = TRUE]
    PROVE  Shape(new) /\ new.reads /\ new.ended = stage[i].ended /\ new.pending = stage[i].pending
<1> DEFINE s == stage[i]
<1>1. s = [local |-> s.local, pending |-> s.pending, reads |-> s.reads, ended |-> s.ended,
           leaves |-> s.leaves, throws |-> s.throws]
  BY DEF Shape
<1>2. new = [local |-> s.local, pending |-> s.pending, reads |-> TRUE, ended |-> s.ended, leaves |-> s.leaves, throws |-> s.throws]
  BY <1>1
<1> QED
  BY <1>2 DEF Shape

\* A stage at its end has ended.
LEMMA EndShape ==
    ASSUME NEW i, Shape(stage[i])
    PROVE  Shape(E!AtEnd(i)) /\ E!AtEnd(i).ended
<1> DEFINE s == stage[i]
<1>1. s = [local |-> s.local, pending |-> s.pending, reads |-> s.reads, ended |-> s.ended,
           leaves |-> s.leaves, throws |-> s.throws]
  BY DEF Shape
<1>2. PICK e : e = E!End(chain[i], s.local)
  OBVIOUS
<1>3. E!AtEnd(i) = [s EXCEPT !.pending = e.yields, !.throws = e.throws, !.leaves = FALSE, !.ended = TRUE]
  BY <1>2 DEF E!AtEnd
<1>4. E!AtEnd(i) = [local |-> s.local, pending |-> e.yields, reads |-> s.reads, ended |-> TRUE,
                    leaves |-> FALSE, throws |-> e.throws]
  BY <1>1, <1>3
<1> QED
  BY <1>4 DEF Shape

\* An item changes neither whether a stage reads nor whether it has ended.
LEMMA ItemShape ==
    ASSUME NEW i, NEW x, Shape(stage[i])
    PROVE  /\ Shape(E!WithItem(i, x))
           /\ E!WithItem(i, x).reads = stage[i].reads /\ E!WithItem(i, x).ended = stage[i].ended
           /\ E!WithItem(i, x).pending = E!Body(chain[i], stage[i].local, x).yields
<1> DEFINE s == stage[i]
<1>1. s = [local |-> s.local, pending |-> s.pending, reads |-> s.reads, ended |-> s.ended,
           leaves |-> s.leaves, throws |-> s.throws]
  BY DEF Shape
<1>2. PICK b : b = E!Body(chain[i], s.local, x)
  OBVIOUS
<1>3. E!WithItem(i, x) = [s EXCEPT !.local = b.local, !.pending = b.yields, !.leaves = b.leaves,
                                   !.throws = b.throws]
  BY <1>2 DEF E!WithItem
<1>4. E!WithItem(i, x) = [local |-> b.local, pending |-> b.yields, reads |-> s.reads,
                          ended |-> s.ended, leaves |-> b.leaves, throws |-> b.throws]
  BY <1>1, <1>3
<1> QED
  BY <1>1, <1>2, <1>4 DEF Shape

\* Closing concerns the stages before i and, if all of them are read, the source.
LEMMA Closes ==
    ASSUME ReleaseInv, NEW i \in 1..Len(chain), NEW s, Shape(s), E!Close(i, s)
    PROVE  /\ DOMAIN stage' = 1..Len(chain) /\ stage' = [k \in 1..Len(chain) |-> stage'[k]]
           /\ \A k \in 1..Len(chain) : Shape(stage'[k])
           /\ stage'[i] = s
           /\ \A k \in 1..Len(chain) : k > i => stage'[k] = stage[k]
           /\ source = "open" /\ (\A k \in 1..i : stage[k].reads /\ ~stage[k].ended)
                 => source' # "open"
           /\ source' = "open" => source = "open"
<1> DEFINE Ended(k) == [stage[k] EXCEPT !.ended = TRUE, !.pending = <<>>]
<1>1. E!Closed(i) \subseteq 1..i - 1
  BY DEF E!Closed
<1>2. ASSUME NEW k \in 1..Len(chain) PROVE Shape(stage[k]) /\ Shape(Ended(k))
  <2>1. Shape(stage[k])
    BY DEF ReleaseInv, ChainTypes
  <2>2. PICK new : new = Ended(k)
    OBVIOUS
  <2>3. Shape(new)
    BY <2>1, <2>2, ClosedShape
  <2> HIDE DEF Ended
  <2> QED
    BY <2>1, <2>2, <2>3
<1> HIDE DEF Ended
<1>3. stage' = [k \in 1..Len(chain) |->
                   IF k \in E!Closed(i) THEN Ended(k) ELSE IF k = i THEN s ELSE stage[k]]
  BY DEF E!Close, E!Stages, E!N, Ended
<1>4. Len(chain) \in Nat
  BY DEF ReleaseInv, ChainTypes
<1>5. \A k \in 1..Len(chain) :
          stage'[k] = IF k \in E!Closed(i) THEN Ended(k) ELSE IF k = i THEN s ELSE stage[k]
  BY <1>3
<1>6. stage'[i] = s /\ \A k \in 1..Len(chain) : k > i => stage'[k] = stage[k]
  BY <1>1, <1>4, <1>5
<1>7. \A k \in 1..Len(chain) : Shape(stage'[k])
  BY <1>2, <1>5
<1>8. DOMAIN stage' = 1..Len(chain) /\ stage' = [k \in 1..Len(chain) |-> stage'[k]]
  BY <1>3
<1> QED
  BY <1>6, <1>7, <1>8 DEF E!Close

\* A stage that changes alone.
LEMMA OneStage ==
    ASSUME ReleaseInv, NEW i \in 1..Len(chain), NEW s, Shape(s), stage' = [stage EXCEPT ![i] = s]
    PROVE  /\ DOMAIN stage' = 1..Len(chain) /\ stage' = [k \in 1..Len(chain) |-> stage'[k]]
           /\ \A k \in 1..Len(chain) : Shape(stage'[k])
           /\ stage'[i] = s /\ \A k \in 1..Len(chain) : k # i => stage'[k] = stage[k]
<1>1. DOMAIN stage = 1..Len(chain) /\ \A k \in 1..Len(chain) : Shape(stage[k])
  BY DEF ReleaseInv, ChainTypes
<1>2. stage' = [k \in 1..Len(chain) |-> IF k = i THEN s ELSE stage[k]]
  BY <1>1
<1> QED
  BY <1>1, <1>2

\* Each action keeps the invariant.
LEMMA PullStep ==
    ASSUME ReleaseInv, E!Pull
    PROVE  ReleaseInv'
<1>1. Len(chain) \in Nat \ {0} /\ level' = Len(chain)
  BY DEF ReleaseInv, ChainTypes, E!Pull, E!N
<1>2. UNCHANGED <<chain, async, stage, built, read, source, status>>
  BY DEF E!Pull, E!chainVars
<1> QED
  BY <1>1, <1>2
  DEF ReleaseInv, ChainTypes, WaitInv, ReadInv, ResultInv, StopInv, E!SourceReleased, E!Pull, E!Consumer, E!N

LEMMA AskStep ==
    ASSUME ReleaseInv, NEW i \in 1..Len(chain), E!Ask(i)
    PROVE  ReleaseInv'
<1>1. /\ level = i /\ level' = i - 1 /\ ~stage[i].ended
      /\ UNCHANGED <<chain, async, built, read, source, status>>
  BY DEF E!Ask, E!chainVars
<1>2. PICK s : s = [stage[i] EXCEPT !.reads = TRUE]
  OBVIOUS
<1>3. Shape(stage[i]) /\ Len(chain) \in Nat \ {0} /\ DOMAIN stage = 1..Len(chain)
  BY DEF ReleaseInv, ChainTypes
<1>4. Shape(s) /\ s.reads /\ s.ended = stage[i].ended /\ s.pending = stage[i].pending
  BY <1>2, <1>3, AskedShape
<1>5. stage' = [stage EXCEPT ![i] = s]
  BY <1>2, <1>3 DEF E!Ask
<1>6. /\ DOMAIN stage' = 1..Len(chain) /\ stage' = [k \in 1..Len(chain) |-> stage'[k]]
      /\ \A k \in 1..Len(chain) : Shape(stage'[k])
      /\ stage'[i] = s /\ \A k \in 1..Len(chain) : k # i => stage'[k] = stage[k]
  BY <1>4, <1>5, OneStage
<1>7. status = "open"
  BY <1>1, <1>3 DEF ReleaseInv, StopInv
<1>8. ChainTypes' /\ StopInv' /\ E!SourceReleased'
  BY <1>1, <1>3, <1>6, <1>7 DEF ReleaseInv, ChainTypes, StopInv, E!SourceReleased
<1>9. WaitInv'
  BY <1>1, <1>3, <1>4, <1>6, <1>7 DEF ReleaseInv, WaitInv
<1>10. ReadInv'
  BY <1>1, <1>3, <1>4, <1>6, <1>7 DEF ReleaseInv, ReadInv
<1>11. ResultInv'
  BY <1>1, <1>3, <1>4, <1>6, <1>7 DEF ReleaseInv, ResultInv
<1> QED
  BY <1>8, <1>9, <1>10, <1>11 DEF ReleaseInv

LEMMA YieldStep ==
    ASSUME ReleaseInv, NEW i \in 1..Len(chain), E!Yield(i)
    PROVE  ReleaseInv'
<1> DEFINE item == Head(stage[i].pending)
<1>1. /\ level = i /\ level' = i + 1 /\ built # i /\ stage[i].pending # <<>>
      /\ UNCHANGED <<chain, async, built, read, source>>
  BY DEF E!Yield, E!chainVars
<1>2. PICK s : s = [stage[i] EXCEPT !.pending = Tail(stage[i].pending)]
  OBVIOUS
<1>3. /\ \A k \in 1..Len(chain) : Shape(stage[k])
      /\ Len(chain) \in Nat \ {0} /\ DOMAIN stage = 1..Len(chain)
      /\ built \in 1..Len(chain) + 1 /\ async \in BOOLEAN
  BY DEF ReleaseInv, ChainTypes
<1>4. Shape(s) /\ s.reads = stage[i].reads /\ s.ended = stage[i].ended
  BY <1>2, <1>3, YieldedShape
<1>5. status = "open" /\ i + 1 <= built
  BY <1>1, <1>3 DEF ReleaseInv, StopInv, ChainTypes
<1>6. CASE i = Len(chain)
  <2>1. /\ stage' = [stage EXCEPT ![i] = s]
        /\ status' = IF chain[i] \in E!Functions THEN "ended" ELSE status
    BY <1>2, <1>6 DEF E!Yield, E!N, E!IsFunction
  <2>2. /\ DOMAIN stage' = 1..Len(chain) /\ stage' = [k \in 1..Len(chain) |-> stage'[k]]
        /\ \A k \in 1..Len(chain) : Shape(stage'[k])
        /\ stage'[i] = s /\ \A k \in 1..Len(chain) : k # i => stage'[k] = stage[k]
    BY <1>4, <2>1, OneStage
  <2>3. chain[i] \in E!Functions => stage[i].ended
    BY <1>1, <1>6 DEF ReleaseInv, ResultInv
  <2>4. ChainTypes' /\ StopInv' /\ ResultInv'
    BY <1>1, <1>3, <1>4, <1>5, <1>6, <2>1, <2>2, <2>3 DEF ReleaseInv, ChainTypes, StopInv, ResultInv
  <2>5. E!SourceReleased'
    BY <1>1, <1>3, <1>5, <1>6, <2>1, <2>3 DEF ReleaseInv, ChainTypes, ReadInv, E!SourceReleased
  <2>6. WaitInv' /\ ReadInv'
    BY <1>1, <1>3, <1>4, <1>5, <1>6, <2>1, <2>2, <2>3 DEF ReleaseInv, WaitInv, ReadInv
  <2> QED
    BY <2>4, <2>5, <2>6 DEF ReleaseInv
<1>7. CASE i # Len(chain)
  <2>1. i + 1 \in 1..Len(chain)
    BY <1>3, <1>7
  <2>2. PICK next : next = E!WithItem(i + 1, item)
    OBVIOUS
  <2>3. /\ Shape(next) /\ next.reads = stage[i + 1].reads /\ next.ended = stage[i + 1].ended
        /\ next.pending = E!Body(chain[i + 1], stage[i + 1].local, item).yields
    BY <1>3, <2>1, <2>2, ItemShape
  <2>4. status' = status /\ stage' = [stage EXCEPT ![i] = s, ![i + 1] = next]
    BY <1>2, <1>7, <2>2 DEF E!Yield, E!N
  <2>5. stage' = [k \in 1..Len(chain) |-> IF k = i + 1 THEN next ELSE IF k = i THEN s ELSE stage[k]]
    BY <1>3, <2>1, <2>4
  <2>6. /\ DOMAIN stage' = 1..Len(chain) /\ stage' = [k \in 1..Len(chain) |-> stage'[k]]
        /\ \A k \in 1..Len(chain) : Shape(stage'[k])
        /\ \A k \in 1..Len(chain) : stage'[k].reads = stage[k].reads /\ stage'[k].ended = stage[k].ended
    BY <1>3, <1>4, <2>1, <2>3, <2>5
  <2>7. stage[i + 1].reads /\ ~stage[i + 1].ended
    BY <1>1, <1>5, <2>1 DEF ReleaseInv, WaitInv
  <2>8. ChainTypes'
    BY <1>1, <1>3, <1>5, <2>1, <2>4, <2>6 DEF ReleaseInv, ChainTypes
  <2>9. StopInv' /\ E!SourceReleased'
    BY <1>1, <1>5, <2>4 DEF ReleaseInv, StopInv, E!SourceReleased
  <2>10. WaitInv' /\ ReadInv'
    BY <1>1, <1>3, <1>5, <2>1, <2>4, <2>6, <2>7 DEF ReleaseInv, WaitInv, ReadInv
  <2>11. ResultInv'
    <3>1. CASE i + 1 = Len(chain)
      <4>1. chain[i + 1] \in E!Functions => next.pending = <<>>
        BY <1>3, <2>3, FunctionsYieldLast
      <4> QED
        BY <1>1, <2>1, <2>5, <3>1, <4>1 DEF ResultInv
    <3>2. CASE i + 1 # Len(chain)
      BY <1>1, <1>3, <1>7, <2>1, <2>5, <3>2 DEF ReleaseInv, ResultInv
    <3> QED
      BY <3>1, <3>2
  <2> QED
    BY <2>8, <2>9, <2>10, <2>11 DEF ReleaseInv
<1> QED
  BY <1>6, <1>7

LEMMA DoneStep ==
    ASSUME ReleaseInv, NEW i \in 1..Len(chain), E!Done(i)
    PROVE  ReleaseInv'
<1>1. /\ level = i /\ level' = i + 1 /\ built # i /\ stage[i].ended
      /\ UNCHANGED <<chain, async, built, read, source>>
  BY DEF E!Done, E!chainVars
<1>2. /\ \A k \in 1..Len(chain) : Shape(stage[k])
      /\ Len(chain) \in Nat \ {0} /\ DOMAIN stage = 1..Len(chain)
      /\ stage = [k \in 1..Len(chain) |-> stage[k]]
      /\ built \in 1..Len(chain) + 1 /\ async \in BOOLEAN
  BY DEF ReleaseInv, ChainTypes
<1>3. status = "open" /\ i + 1 <= built
  BY <1>1, <1>2 DEF ReleaseInv, StopInv, ChainTypes
<1>4. source = "open" => ~(read > 0)
  BY <1>1, <1>2, <1>3 DEF ReleaseInv, ReadInv
<1>5. /\ DOMAIN stage' = 1..Len(chain) /\ stage' = [k \in 1..Len(chain) |-> stage'[k]]
      /\ \A k \in 1..Len(chain) : Shape(stage'[k])
      /\ \A k \in 1..Len(chain) : k # i + 1 => stage'[k] = stage[k]
      /\ i # Len(chain) => stage'[i + 1].ended
  <2>1. CASE i = Len(chain)
    <3>1. stage' = stage /\ status' = "ended"
      BY <2>1 DEF E!Done, E!N
    <3>2. /\ DOMAIN stage' = 1..Len(chain) /\ stage' = [k \in 1..Len(chain) |-> stage'[k]]
          /\ \A k \in 1..Len(chain) : Shape(stage'[k])
      BY <1>2, <3>1
    <3>3. \A k \in 1..Len(chain) : stage'[k] = stage[k]
      BY <3>1
    <3> QED
      BY <2>1, <3>1, <3>2, <3>3
  <2>2. CASE i # Len(chain)
    <3>1. i + 1 \in 1..Len(chain)
      BY <1>2, <2>2
    <3>2. PICK s : s = E!AtEnd(i + 1)
      OBVIOUS
    <3>3. Shape(s) /\ s.ended
      BY <1>2, <3>1, <3>2, EndShape
    <3>4. stage' = [stage EXCEPT ![i + 1] = s] /\ status' = status
      BY <2>2, <3>2 DEF E!Done, E!N
    <3>5. /\ DOMAIN stage' = 1..Len(chain) /\ stage' = [k \in 1..Len(chain) |-> stage'[k]]
          /\ \A k \in 1..Len(chain) : Shape(stage'[k])
          /\ stage'[i + 1] = s /\ \A k \in 1..Len(chain) : k # i + 1 => stage'[k] = stage[k]
      BY <3>1, <3>3, <3>4, OneStage
    <3>6. stage'[i + 1].ended
      BY <3>3, <3>5
    <3> QED
      BY <3>5, <3>6
  <2> QED
    BY <2>1, <2>2
<1>6. status' = status \/ (status' = "ended" /\ i = Len(chain))
  <2>1. CASE i = Len(chain)
    BY <2>1 DEF E!Done, E!N
  <2>2. CASE i # Len(chain)
    BY <2>2 DEF E!Done, E!N
  <2> QED
    BY <2>1, <2>2
<1>7. read \in Nat
  BY DEF ReleaseInv, ChainTypes
<1>8. ChainTypes' /\ StopInv' /\ ReadInv' /\ E!SourceReleased'
  BY <1>1, <1>2, <1>3, <1>4, <1>5, <1>6, <1>7 DEF ChainTypes, StopInv, ReadInv, E!SourceReleased, ReleaseInv
<1>9. WaitInv'
  BY <1>1, <1>2, <1>3, <1>5, <1>6 DEF WaitInv, ReleaseInv
<1>10. ResultInv'
  BY <1>1, <1>2, <1>5 DEF ResultInv, ReleaseInv
<1> QED
  BY <1>8, <1>9, <1>10 DEF ReleaseInv

\* A stage that leaves its loop, for whatever reason, closes the source that was read.
LEMMA LeavingCloses ==
    ASSUME ReleaseInv, status = "open", NEW i \in 1..Len(chain), i <= level, NEW s, Shape(s),
           E!Close(i, s)
    PROVE  source' = "open" => ~(read > 0)
<1>1. source' = "open" => source = "open" /\ ~(\A k \in 1..i : stage[k].reads /\ ~stage[k].ended)
  BY Closes
<1>2. level \in Nat /\ Len(chain) \in Nat
  BY DEF ReleaseInv, ChainTypes
<1> QED
  BY <1>1, <1>2 DEF ReleaseInv, ReadInv

LEMMA LeaveLoopStep ==
    ASSUME ReleaseInv, NEW i \in 1..Len(chain), E!LeaveLoop(i)
    PROVE  ReleaseInv'
<1>1. /\ level = i /\ UNCHANGED <<chain, async, built, read, level, status>>
  BY DEF E!LeaveLoop, E!chainVars
<1>2. PICK s : s = E!AtEnd(i)
  OBVIOUS
<1>3. Shape(s) /\ s.ended
  BY <1>2, EndShape DEF ReleaseInv, ChainTypes
<1>4. E!Close(i, s)
  BY <1>2 DEF E!LeaveLoop
<1>5. /\ DOMAIN stage' = 1..Len(chain) /\ stage' = [k \in 1..Len(chain) |-> stage'[k]]
      /\ \A k \in 1..Len(chain) : Shape(stage'[k])
      /\ stage'[i] = s
      /\ \A k \in 1..Len(chain) : k > i => stage'[k] = stage[k]
      /\ source' = "open" => source = "open"
  BY <1>3, <1>4, Closes
<1>6. level \in Nat /\ Len(chain) \in Nat \ {0} /\ read \in Nat
  BY DEF ReleaseInv, ChainTypes
<1>7. status = "open"
  BY <1>1, <1>6 DEF ReleaseInv, StopInv
<1>8. source' = "open" => ~(read > 0)
  BY <1>1, <1>3, <1>4, <1>6, <1>7, LeavingCloses
<1>9. ChainTypes' /\ StopInv' /\ ReadInv' /\ E!SourceReleased'
  BY <1>1, <1>5, <1>6, <1>7, <1>8 DEF ReleaseInv, ChainTypes, StopInv, ReadInv, E!SourceReleased
<1>10. WaitInv' /\ ResultInv'
  BY <1>1, <1>3, <1>5, <1>6 DEF ReleaseInv, WaitInv, ResultInv
<1> QED
  BY <1>9, <1>10 DEF ReleaseInv

LEMMA ConstructStep ==
    ASSUME ReleaseInv, NEW i \in 1..Len(chain), E!Construct(i)
    PROVE  ReleaseInv'
<1>1. /\ level = i /\ level' = built' /\ built' = E!NextToBuild(i) /\ stage[i].ended
      /\ UNCHANGED <<chain, async, stage, read, source, status>>
  BY DEF E!Construct, E!chainVars
<1>2. Len(chain) \in Nat \ {0} /\ i \in Nat
  BY DEF ReleaseInv, ChainTypes
<1>3. level' \in 1..Len(chain) + 1
  BY <1>1, <1>2, BuildsNext
<1>4. status = "open"
  BY <1>1, <1>2 DEF ReleaseInv, StopInv
<1>5. source = "open" => ~(read > 0)
  BY <1>1, <1>2, <1>4 DEF ReleaseInv, ReadInv
<1>6. ChainTypes'
  BY <1>1, <1>2, <1>3 DEF ReleaseInv, ChainTypes
<1> QED
  BY <1>1, <1>3, <1>4, <1>5, <1>6
  DEF ReleaseInv, WaitInv, ReadInv, ResultInv, StopInv, E!SourceReleased

LEMMA ThrowThroughStep ==
    ASSUME ReleaseInv, NEW i \in 1..Len(chain), E!ThrowThrough(i)
    PROVE  ReleaseInv'
<1>1. /\ level = i /\ level' = Len(chain) + 1 /\ status' = "threw" /\ E!Close(i, stage[i])
      /\ stage[i].pending = <<>>
      /\ UNCHANGED <<chain, async, built, read>>
  BY DEF E!ThrowThrough, E!chainVars, E!Consumer, E!N
<1>2. Shape(stage[i]) /\ Len(chain) \in Nat \ {0} /\ read \in Nat
  BY DEF ReleaseInv, ChainTypes
<1>3. /\ DOMAIN stage' = 1..Len(chain) /\ stage' = [k \in 1..Len(chain) |-> stage'[k]]
      /\ \A k \in 1..Len(chain) : Shape(stage'[k])
      /\ \A k \in 1..Len(chain) : k >= i => stage'[k] = stage[k]
  BY <1>1, <1>2, Closes
<1>4. status = "open"
  BY <1>1, <1>2 DEF ReleaseInv, StopInv
<1>5. source' = "open" => ~(read > 0)
  BY <1>1, <1>2, <1>4, LeavingCloses
<1>6. ChainTypes'
  BY <1>1, <1>2, <1>3 DEF ReleaseInv, ChainTypes
<1>7. ResultInv'
  BY <1>1, <1>2, <1>3 DEF ReleaseInv, ResultInv
<1> QED
  BY <1>1, <1>2, <1>5, <1>6, <1>7
  DEF ReleaseInv, WaitInv, ReadInv, StopInv, E!SourceReleased

LEMMA SourceYieldsStep ==
    ASSUME ReleaseInv, E!SourceYields
    PROVE  ReleaseInv'
<1>1. PICK s : s = E!WithItem(1, items[read + 1])
  OBVIOUS
<1>2. /\ level = 0 /\ level' = 1 /\ read' = read + 1 /\ stage' = [stage EXCEPT ![1] = s]
      /\ UNCHANGED <<chain, async, built, source, status>>
  BY <1>1 DEF E!SourceYields, E!chainVars
<1>3. /\ Len(chain) \in Nat \ {0} /\ 1 \in 1..Len(chain) /\ read \in Nat /\ Shape(stage[1])
      /\ built \in 1..Len(chain) + 1 /\ async \in BOOLEAN
  BY DEF ReleaseInv, ChainTypes
<1>4. /\ Shape(s) /\ s.reads = stage[1].reads /\ s.ended = stage[1].ended
      /\ s.pending = E!Body(chain[1], stage[1].local, items[read + 1]).yields
  BY <1>1, <1>3, ItemShape
<1>5. /\ DOMAIN stage' = 1..Len(chain) /\ stage' = [k \in 1..Len(chain) |-> stage'[k]]
      /\ \A k \in 1..Len(chain) : Shape(stage'[k])
      /\ stage'[1] = s /\ \A k \in 1..Len(chain) : k # 1 => stage'[k] = stage[k]
  BY <1>2, <1>3, <1>4, OneStage
<1>6. status = "open" /\ stage[1].reads /\ ~stage[1].ended
  BY <1>2, <1>3 DEF ReleaseInv, StopInv, WaitInv
<1>7. ChainTypes' /\ StopInv' /\ E!SourceReleased'
  BY <1>2, <1>3, <1>5, <1>6 DEF ReleaseInv, ChainTypes, StopInv, E!SourceReleased
<1>8. WaitInv'
  BY <1>2, <1>3, <1>4, <1>5, <1>6 DEF ReleaseInv, WaitInv
<1>9. ReadInv'
  <2>1. s.reads /\ ~s.ended
    BY <1>4, <1>6
  <2> QED
    BY <1>2, <1>3, <1>5, <2>1 DEF ReadInv
<1>10. ResultInv'
  <2>1. CASE Len(chain) = 1
    <3>1. chain[1] \in E!Functions => s.pending = <<>>
      BY <1>3, <1>4, FunctionsYieldLast
    <3> QED
      BY <1>2, <1>5, <2>1, <3>1 DEF ResultInv
  <2>2. CASE Len(chain) # 1
    BY <1>2, <1>3, <1>5, <2>2 DEF ReleaseInv, ResultInv
  <2> QED
    BY <2>1, <2>2
<1> QED
  BY <1>7, <1>8, <1>9, <1>10 DEF ReleaseInv

LEMMA SourceEndsStep ==
    ASSUME ReleaseInv, E!SourceEnds
    PROVE  ReleaseInv'
<1>1. PICK s : s = E!AtEnd(1)
  OBVIOUS
<1>2. /\ level = 0 /\ level' = 1 /\ source' = "exhausted" /\ stage' = [stage EXCEPT ![1] = s]
      /\ UNCHANGED <<chain, async, built, read, status>>
  BY <1>1 DEF E!SourceEnds, E!chainVars
<1>3. /\ Len(chain) \in Nat \ {0} /\ 1 \in 1..Len(chain) /\ read \in Nat /\ Shape(stage[1])
      /\ built \in 1..Len(chain) + 1
  BY DEF ReleaseInv, ChainTypes
<1>4. Shape(s) /\ s.ended
  BY <1>1, <1>3, EndShape
<1>5. /\ DOMAIN stage' = 1..Len(chain) /\ stage' = [k \in 1..Len(chain) |-> stage'[k]]
      /\ \A k \in 1..Len(chain) : Shape(stage'[k])
      /\ stage'[1] = s /\ \A k \in 1..Len(chain) : k # 1 => stage'[k] = stage[k]
  BY <1>2, <1>3, <1>4, OneStage
<1>6. status = "open"
  BY <1>2, <1>3 DEF ReleaseInv, StopInv
<1>7. ChainTypes' /\ StopInv' /\ ReadInv' /\ E!SourceReleased'
  BY <1>2, <1>3, <1>5, <1>6 DEF ReleaseInv, ChainTypes, StopInv, ReadInv, E!SourceReleased
<1>8. WaitInv' /\ ResultInv'
  BY <1>2, <1>3, <1>4, <1>5, <1>6 DEF ReleaseInv, WaitInv, ResultInv
<1> QED
  BY <1>7, <1>8 DEF ReleaseInv

LEMMA SourceThrowsStep ==
    ASSUME ReleaseInv, E!SourceThrows
    PROVE  ReleaseInv'
<1>1. /\ level' = Len(chain) + 1 /\ source' = "failed" /\ status' = "threw"
      /\ UNCHANGED <<chain, async, built, read, stage>>
  BY DEF E!SourceThrows, E!chainVars, E!Consumer, E!N
<1>2. Len(chain) \in Nat
  BY DEF ReleaseInv, ChainTypes
<1>3. ChainTypes'
  BY <1>1, <1>2 DEF ReleaseInv, ChainTypes
<1> QED
  BY <1>1, <1>3 DEF ReleaseInv, WaitInv, ReadInv, ResultInv, StopInv, E!SourceReleased

LEMMA ReturnStep ==
    ASSUME ReleaseInv, E!Return
    PROVE  ReleaseInv'
<1> DEFINE last == Len(chain)
<1>1. PICK s : s = [stage[last] EXCEPT !.ended = TRUE, !.pending = <<>>]
  OBVIOUS
<1>2. /\ level = last + 1 /\ status = "open" /\ status' = "returned" /\ E!Close(last, s)
      /\ chain[last] \notin E!Functions
      /\ UNCHANGED <<chain, async, built, read, level>>
  BY <1>1 DEF E!Return, E!chainVars, E!Consumer, E!N, E!IsFunction
<1>3. last \in 1..last /\ last \in Nat /\ read \in Nat /\ Shape(stage[last])
  BY DEF ReleaseInv, ChainTypes
<1>4. Shape(s)
  BY <1>1, <1>3, ClosedShape
<1>5. /\ DOMAIN stage' = 1..last /\ stage' = [k \in 1..last |-> stage'[k]]
      /\ \A k \in 1..last : Shape(stage'[k])
  BY <1>2, <1>3, <1>4, Closes
<1>6. source' = "open" => ~(read > 0)
  BY <1>2, <1>3, <1>4, LeavingCloses
<1>7. ChainTypes'
  BY <1>2, <1>3, <1>5 DEF ReleaseInv, ChainTypes
<1> QED
  BY <1>2, <1>3, <1>6, <1>7 DEF ReleaseInv, WaitInv, ReadInv, ResultInv, StopInv, E!SourceReleased

LEMMA ThrowBackStep ==
    ASSUME ReleaseInv, E!ThrowBack
    PROVE  ReleaseInv'
<1> DEFINE last == Len(chain)
<1>1. PICK result \in {"again", "next", "throw"} :
         stage' = [stage EXCEPT ![last].pending = IF result = "again" THEN stage[last].local ELSE <<>>,
                                ![last].throws = (result = "throw")]
  BY DEF E!ThrowBack, E!N
<1>2. PICK s :
         s = [stage[last] EXCEPT !.pending = IF result = "again" THEN stage[last].local ELSE <<>>,
                                 !.throws = (result = "throw")]
  OBVIOUS
<1>3. /\ level = last + 1 /\ level' = last /\ status = "open" /\ chain[last] \notin E!Functions
      /\ UNCHANGED <<chain, async, built, read, source, status>>
  BY DEF E!ThrowBack, E!chainVars, E!Consumer, E!N, E!Functions
<1>4. /\ last \in 1..last /\ last \in Nat /\ last > 0 /\ DOMAIN stage = 1..last /\ Shape(stage[last])
  BY DEF ReleaseInv, ChainTypes
<1>5. Shape(s) /\ s.reads = stage[last].reads /\ s.ended = stage[last].ended
  <2> DEFINE old == stage[last]
  <2>1. old = [local |-> old.local, pending |-> old.pending, reads |-> old.reads,
               ended |-> old.ended, leaves |-> old.leaves, throws |-> old.throws]
    BY <1>4 DEF Shape
  <2>2. PICK p, t : s = [old EXCEPT !.pending = p, !.throws = t]
    BY <1>2
  <2>3. s = [local |-> old.local, pending |-> p, reads |-> old.reads, ended |-> old.ended,
             leaves |-> old.leaves, throws |-> t]
    BY <2>1, <2>2
  <2> QED
    BY <1>4, <2>3 DEF Shape
<1>6. stage' = [stage EXCEPT ![last] = s]
  BY <1>1, <1>2, <1>4
<1>7. /\ DOMAIN stage' = 1..last /\ stage' = [k \in 1..last |-> stage'[k]]
      /\ \A k \in 1..last : Shape(stage'[k])
      /\ stage'[last] = s /\ \A k \in 1..last : k # last => stage'[k] = stage[k]
  BY <1>4, <1>5, <1>6, OneStage
<1>8. ChainTypes' /\ StopInv' /\ E!SourceReleased'
  BY <1>3, <1>4, <1>7 DEF ReleaseInv, ChainTypes, StopInv, E!SourceReleased
<1>9. WaitInv' /\ ReadInv' /\ ResultInv'
  BY <1>3, <1>4, <1>5, <1>7 DEF ReleaseInv, WaitInv, ReadInv, ResultInv
<1> QED
  BY <1>8, <1>9 DEF ReleaseInv

\* A step of a chain of any length keeps the invariant.
LEMMA ChainStep ==
    ASSUME ReleaseInv, E!Next
    PROVE  ReleaseInv'
<1>1. 1..Len(chain) = E!Stages
  BY DEF E!Stages, E!N
<1> QED
  BY <1>1, PullStep, ReturnStep, ThrowBackStep, SourceYieldsStep, SourceEndsStep, SourceThrowsStep,
     YieldStep, AskStep, LeaveLoopStep, DoneStep, ConstructStep, ThrowThroughStep DEF E!Next

-----------------------------------------------------------------------------
(* Of all the collections.                                                  *)

\* The sorted collections are as they would be alone.
LEMMA SortedAlone ==
    MCSpec => Spec
<1>1. MCInit => Init
  BY DEF MCInit
<1>2. [MCNext]_<<subject, vars, items, collectionVars, chainVars>> => [Next]_vars
  BY DEF MCNext
<1> QED
  BY <1>1, <1>2, PTL DEF MCSpec, Spec

\* The inductive invariant of the observable and awaitable collections: what is still
\* told leads an observer to the collection, and who waits has read all there is.
THEOREM CollectionInvariant ==
    MCSpec => [](subject = "collection" => CollectionInv)
<1> DEFINE I == subject = "collection" => CollectionInv
<1>1. MCInit => I
  BY CollectionStarts DEF MCInit
<1>2. I /\ [MCNext]_<<subject, vars, items, collectionVars, chainVars>> => I'
  <2> SUFFICES ASSUME subject = "collection", CollectionInv,
                      [MCNext]_<<subject, vars, items, collectionVars, chainVars>>,
                      subject' = "collection"
               PROVE  CollectionInv'
    BY DEF MCNext
  <2>1. CASE C!Next
    BY <2>1, CollectionStep
  <2>2. CASE UNCHANGED <<items, collectionVars>>
    BY <2>2, CollectionStays
  <2> QED
    BY <2>1, <2>2 DEF MCNext
<1> QED
  BY <1>1, <1>2, PTL DEF MCSpec

\* Whoever follows a collection by its events, a replica of a sorted list, an observer of
\* length$ or one that replays the changes, knows what is in it when all is told, however
\* calls nest: for any values, sizes and depths.
THEOREM SubscribersFollow ==
    MCSpec => []SubscribersAgree
<1>1. (subject = "collection" => CollectionInv) => ObserversAgree
  BY ObserversDo DEF ObserversAgree
<1>2. ReplicasAgree /\ ObserversAgree => SubscribersAgree
  BY DEF SubscribersAgree
<1> QED
  BY <1>1, <1>2, SortedAlone, ReplicasFollow, CollectionInvariant, PTL

\* Who reads an awaitable collection and awaits the next addition has read all there is
\* while it waits, unless something came before it had asked: for collections of any size.
THEOREM WaitersHaveRead ==
    MCSpec => []WaiterHasReadAll
<1>1. (subject = "collection" => CollectionInv) => WaiterHasReadAll
  BY ObserversDo DEF WaiterHasReadAll
<1> QED
  BY <1>1, CollectionInvariant, PTL

\* The invariant speaks of what a step of another kind of behaviour leaves alone.
LEMMA ChainStays ==
    ASSUME ReleaseInv, UNCHANGED chainVars
    PROVE  ReleaseInv'
BY DEF chainVars, ReleaseInv, ChainTypes, WaitInv, ReadInv, ResultInv, StopInv, E!SourceReleased

\* The iterator that a chain has begun to read is exhausted, failed or closed when the
\* chain is through, whether its consumer, one of its helpers or a function that throws
\* stopped it: for chains of any length, sources of any length and any count.
THEOREM SourcesAreReleased ==
    AnyChain /\ [][E!Next]_chainVars => []E!SourceReleased
<1>1. AnyChain => ReleaseInv
  BY ChainStarts
<1>2. ReleaseInv /\ [E!Next]_chainVars => ReleaseInv'
  BY ChainStep, ChainStays
<1>3. ReleaseInv => E!SourceReleased
  BY DEF ReleaseInv
<1> QED
  BY <1>1, <1>2, <1>3, PTL

\* The same of the chains that are checked.
THEOREM CheckedSourcesAreReleased ==
    MCSpec => []SourceReleased
<1> DEFINE I == subject = "chain" => ReleaseInv
<1>1. MCInit => I
  <2> SUFFICES ASSUME MCInit, subject = "chain" PROVE ReleaseInv
    OBVIOUS
  <2>1. E!Init
    BY DEF MCInit
  <2>2. chain \in MCChains
    BY <2>1 DEF E!Init
  <2>3. Len(chain) \in {1, 2}
    BY <2>2 DEF MCChains
  <2>4. /\ async \in BOOLEAN /\ read = 0 /\ source = "open" /\ status = "open"
        /\ stage = [i \in E!Stages |-> E!NewStage(chain[i])]
        /\ built = E!NextToBuild(0) /\ level = built
    BY <2>1 DEF E!Init
  <2>5. AnyChain
    BY <2>3, <2>4 DEF AnyChain
  <2> QED
    BY <2>5, ChainStarts
<1>2. I /\ [MCNext]_<<subject, vars, items, collectionVars, chainVars>> => I'
  BY ChainStep, ChainStays DEF MCNext
<1>3. I => SourceReleased
  BY DEF ReleaseInv, SourceReleased
<1> QED
  BY <1>1, <1>2, <1>3, PTL DEF MCSpec
=============================================================================
