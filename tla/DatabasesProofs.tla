--------------------------- MODULE DatabasesProofs ---------------------------
(* The proofs about what uses a database or a channel, for any clients, items, *)
(* ids, channels, observers and messages.                                      *)
EXTENDS MCDatabases, FiniteSetTheorems, SequenceTheorems, WellFoundedInduction, TLAPS

-----------------------------------------------------------------------------
(* Sets of numbers.                                                            *)

\* A set of natural numbers has a least one.
LEMMA LeastOf ==
  ASSUME NEW T, T \subseteq Nat, T # {}
  PROVE  \E m \in T : \A n \in T : m <= n
<1>1. PICK m \in T : \A n \in T : <<n, m>> \notin OpToRel(<, Nat)
  BY NatLessThanWellFounded, WFMin
<1>2. \A n \in T : ~(n < m)
  BY <1>1, Zenon DEF OpToRel
<1> QED
  BY <1>2

\* A set of numbers up to a bound has a greatest one.
LEMMA GreatestOf ==
  ASSUME NEW top \in Nat, NEW T, T \subseteq 0..top, T # {}
  PROVE  \E m \in T : \A n \in T : n <= m
<1> DEFINE U == {n \in Nat : top - n \in T}
<1>1. U \subseteq Nat /\ U # {}
  <2>1. PICK n \in T : TRUE
    OBVIOUS
  <2>2. top - n \in U
    BY <2>1
  <2> QED
    BY <2>2
<1>2. PICK m \in U : \A n \in U : m <= n
  <2> HIDE DEF U
  <2> QED
    BY <1>1, LeastOf
<1>3. ASSUME NEW n \in T PROVE n <= top - m
  <2>1. top - n \in U
    OBVIOUS
  <2>2. m \in Nat /\ m <= top - n
    BY <1>2, <2>1
  <2>3. n \in Nat
    OBVIOUS
  <2> HIDE DEF U
  <2> QED
    BY <2>2, <2>3
<1> QED
  BY <1>2, <1>3

-----------------------------------------------------------------------------
(* RedisStream: what is added to a stream.                                     *)

\* XADD of one entry.
LEMMA AddSingle ==
  ASSUME NEW e, NEW before, NEW top
  PROVE  S!AddAll(<<e>>, before, top)
           = S!AddOne([log |-> before, last |-> top, refused |-> {}], e)
<1> DEFINE start == [log |-> before, last |-> top, refused |-> {}]
           g == [n \in 0..1 |-> IF n = 0 THEN start ELSE S!AddOne(start, e)]
           Is(f) == f = [n \in 0..Len(<<e>>) |->
                           IF n = 0 THEN start ELSE S!AddOne(f[n - 1], <<e>>[n])]
<1>1. Len(<<e>>) = 1 /\ <<e>>[1] = e
  OBVIOUS
<1>2. Is(g)
  <2>1. ASSUME NEW n \in 0..1
        PROVE  g[n] = IF n = 0 THEN start ELSE S!AddOne(g[n - 1], <<e>>[n])
    <3>1. CASE n = 0
      BY <3>1
    <3>2. CASE n = 1
      BY <1>1, <3>2
    <3> QED
      BY <3>1, <3>2
  <2> QED
    BY <1>1, <2>1
<1>3. Is(CHOOSE f : Is(f))
  BY <1>2
<1>4. ASSUME NEW f, Is(f) PROVE f[1] = S!AddOne(start, e)
  <2>1. f[0] = start
    BY <1>1, <1>4
  <2> QED
    BY <1>1, <1>4, <2>1
<1>5. S!AddAll(<<e>>, before, top) = (CHOOSE f : Is(f))[1]
  BY <1>1 DEF S!AddAll
<1> QED
  BY <1>3, <1>4, <1>5

\* XADD of two entries.
LEMMA AddPair ==
  ASSUME NEW e, NEW f, NEW before, NEW top
  PROVE  S!AddAll(<<e, f>>, before, top)
           = S!AddOne(S!AddOne([log |-> before, last |-> top, refused |-> {}], e), f)
<1> DEFINE start == [log |-> before, last |-> top, refused |-> {}]
           one == S!AddOne(start, e)
           two == S!AddOne(one, f)
           g == [n \in 0..2 |-> IF n = 0 THEN start ELSE IF n = 1 THEN one ELSE two]
           Is(h) == h = [n \in 0..Len(<<e, f>>) |->
                           IF n = 0 THEN start ELSE S!AddOne(h[n - 1], <<e, f>>[n])]
<1>1. Len(<<e, f>>) = 2 /\ <<e, f>>[1] = e /\ <<e, f>>[2] = f
  OBVIOUS
<1>2. Is(g)
  <2>1. ASSUME NEW n \in 0..2
        PROVE  g[n] = IF n = 0 THEN start ELSE S!AddOne(g[n - 1], <<e, f>>[n])
    <3>1. CASE n = 0
      BY <3>1
    <3>2. CASE n = 1
      <4>1. g[0] = start /\ g[1] = one
        BY DEF one
      <4> QED
        BY <1>1, <3>2, <4>1
    <3>3. CASE n = 2
      <4>1. g[1] = one /\ g[2] = two
        BY DEF two
      <4> QED
        BY <1>1, <3>3, <4>1
    <3> QED
      BY <3>1, <3>2, <3>3
  <2> QED
    BY <1>1, <2>1
<1>3. Is(CHOOSE h : Is(h))
  BY <1>2
<1>4. ASSUME NEW h, Is(h) PROVE h[2] = two
  <2>1. h[0] = start
    BY <1>1, <1>4
  <2>2. h[1] = one
    BY <1>1, <1>4, <2>1
  <2> QED
    BY <1>1, <1>4, <2>2
<1>5. S!AddAll(<<e, f>>, before, top) = (CHOOSE h : Is(h))[2]
  BY <1>1 DEF S!AddAll
<1> QED
  BY <1>3, <1>4, <1>5

\* The stream that is s becomes r: entries come with ids above the last one.
Grows(s, r) ==
    /\ r.last \in Nat /\ s.last <= r.last
    /\ DOMAIN s.log \subseteq DOMAIN r.log
    /\ DOMAIN r.log \subseteq 1..r.last
    /\ r.log \in [DOMAIN r.log -> Item]
    /\ \A i \in DOMAIN s.log : r.log[i] = s.log[i]
    /\ \A i \in DOMAIN r.log \ DOMAIN s.log : i > s.last
    /\ s.refused \subseteq r.refused

\* An item is in the stream or was refused.
Has(r, item) == item \in r.refused \/ \E i \in DOMAIN r.log : r.log[i] = item

\* What AddAll() computes.
IsStream(r) ==
    /\ r = [log |-> r.log, last |-> r.last, refused |-> r.refused]
    /\ r.last \in Nat
    /\ DOMAIN r.log \subseteq 1..r.last
    /\ r.log \in [DOMAIN r.log -> Item]

\* An entry that XADD is asked for is in the stream or refused.
LEMMA AddOneGrows ==
  ASSUME NEW e, e.item \in Item, e.id \in Nat, NEW s, IsStream(s)
  PROVE  IsStream(S!AddOne(s, e)) /\ Grows(s, S!AddOne(s, e)) /\ Has(S!AddOne(s, e), e.item)
<1> DEFINE r == S!AddOne(s, e)
<1> SUFFICES IsStream(r) /\ Grows(s, r) /\ Has(r, e.item)
  OBVIOUS
<1>1. CASE S!Refused(e, s.last)
  <2>1. r = [s EXCEPT !.refused = @ \cup {e.item}]
    BY <1>1 DEF S!AddOne
  <2>2. r = [log |-> s.log, last |-> s.last, refused |-> s.refused \cup {e.item}]
    BY <2>1 DEF IsStream
  <2> QED
    BY <2>2 DEF Grows, IsStream, Has
<1>2. CASE ~S!Refused(e, s.last)
  <2> DEFINE id == S!IdOf(e, s.last)
             new == [i \in DOMAIN s.log \cup {id} |->
                       IF i \in DOMAIN s.log THEN s.log[i] ELSE e.item]
  <2>1. r = [log |-> new, last |-> id, refused |-> s.refused]
    BY <1>2 DEF S!AddOne, IsStream
  <2>2. id \in Nat /\ id > s.last
    BY <1>2 DEF S!IdOf, S!Refused, IsStream
  <2>3. DOMAIN new = DOMAIN s.log \cup {id} /\ id \notin DOMAIN s.log
    BY <2>2 DEF IsStream
  <2>4. new \in [DOMAIN new -> Item] /\ new[id] = e.item
    BY <2>3 DEF IsStream
  <2>5. \A i \in DOMAIN s.log : new[i] = s.log[i]
    OBVIOUS
  <2> HIDE DEF id, new
  <2>6. Grows(s, r) /\ IsStream(r)
    BY <2>1, <2>2, <2>3, <2>4, <2>5 DEF Grows, IsStream
  <2> QED
    BY <2>1, <2>3, <2>4, <2>6 DEF Has
<1> QED
  BY <1>1, <1>2

LEMMA GrowsOn ==
  ASSUME NEW q, NEW r, NEW s, Grows(q, r), Grows(r, s), q.last \in Nat
  PROVE  Grows(q, s) /\ \A item : Has(r, item) => Has(s, item)
  BY DEF Grows, Has

\* The entries that a transaction adds, one or two of them.
LEMMA AddedGrows ==
  ASSUME NEW entries, NEW before,
         \/ \E e \in S!Entries(Item) : entries = <<e>>
         \/ \E e, f \in S!Entries(Item) : entries = <<e, f>>,
         lastId \in Nat, streamExists \in BOOLEAN,
         DOMAIN before \subseteq 1..lastId, before \in [DOMAIN before -> Item],
         S!Added(entries, before)
  PROVE  /\ lastId' \in Nat /\ lastId <= lastId' /\ streamExists' \in BOOLEAN
         /\ DOMAIN before \subseteq DOMAIN log' /\ DOMAIN log' \subseteq 1..lastId'
         /\ log' \in [DOMAIN log' -> Item]
         /\ \A i \in DOMAIN before : log'[i] = before[i]
         /\ \A i \in DOMAIN log' \ DOMAIN before : i > lastId
         /\ lost \subseteq lost'
         /\ \A n \in DOMAIN entries :
               entries[n].item \in lost' \/ \E i \in DOMAIN log' : log'[i] = entries[n].item
<1> DEFINE start == [log |-> before, last |-> lastId, refused |-> {}]
           result == S!AddAll(entries, before, lastId)
           Good(r) == Grows(start, r) /\ \A n \in DOMAIN entries : Has(r, entries[n].item)
<1>1. ASSUME NEW e \in S!Entries(Item) PROVE e.item \in Item /\ e.id \in Nat
  BY DEF S!Entries
<1>2. IsStream(start) /\ start.last \in Nat
  BY DEF IsStream
<1>3. ASSUME NEW e \in S!Entries(Item), entries = <<e>> PROVE Good(result)
  <2>1. result = S!AddOne(start, e)
    BY <1>3, AddSingle
  <2>2. Grows(start, S!AddOne(start, e)) /\ Has(S!AddOne(start, e), e.item)
    BY <1>1, <1>2, AddOneGrows
  <2> HIDE DEF start
  <2> QED
    BY <1>3, <2>1, <2>2
<1>4. ASSUME NEW e \in S!Entries(Item), NEW f \in S!Entries(Item), entries = <<e, f>>
      PROVE  Good(result)
  <2> DEFINE one == S!AddOne(start, e)
             two == S!AddOne(one, f)
  <2>1. result = two
    BY <1>4, AddPair
  <2>2. IsStream(one) /\ Grows(start, one) /\ Has(one, e.item)
    BY <1>1, <1>2, AddOneGrows
  <2> HIDE DEF start, one
  <2>3. Grows(one, two) /\ Has(two, f.item)
    BY <1>1, <2>2, AddOneGrows
  <2>4. Grows(start, two) /\ Has(two, e.item)
    BY <1>2, <2>2, <2>3, GrowsOn
  <2> HIDE DEF two
  <2>5. entries[1] = e /\ entries[2] = f /\ DOMAIN entries = {1, 2}
    BY <1>4
  <2> QED
    BY <2>1, <2>3, <2>4, <2>5
<1>5. Good(result)
  BY <1>3, <1>4
<1>6. /\ log' = result.log /\ lastId' = result.last
      /\ streamExists' = (streamExists \/ result.last > lastId)
      /\ lost' = lost \cup result.refused
  BY DEF S!Added
<1> HIDE DEF result
<1> QED
  BY <1>5, <1>6 DEF Grows, Has

-----------------------------------------------------------------------------
(* RedisStream: the invariant.                                                 *)

LEMMA StreamCardinality == \A T : S!Cardinality(T) = Cardinality(T)
  BY DEF S!Cardinality, Cardinality

LEMMA StreamInit == S!Init => S!IInv
<1> SUFFICES ASSUME S!Init PROVE S!IInv
  OBVIOUS
<1> USE DEF S!Init
<1>1. DOMAIN log = {} /\ DOMAIN pending = {}
  OBVIOUS
<1>2. S!TypeOK
  <2>1. log \in [{} -> Item] /\ pending \in [{} -> Client]
    OBVIOUS
  <2>2. 0 \in Nat /\ 0..0 = {0}
    OBVIOUS
  <2>3. S!StreamType /\ S!ClientType
    BY <1>1, <2>1, <2>2 DEF S!StreamType, S!ClientType, S!Ids
  <2>4. S!GroupType
    BY <1>1, <2>1, <2>2 DEF S!GroupType
  <2> QED
    BY <2>3, <2>4 DEF S!TypeOK
<1>3. S!GroupInv /\ S!PendingInv /\ S!LateInv /\ S!HeldInv
  BY <1>1 DEF S!GroupInv, S!PendingInv, S!LateInv, S!HeldInv, S!Held
<1>4. S!Accounted
  BY <1>1 DEF S!Accounted, S!Ids
<1> QED
  BY <1>2, <1>3, <1>4 DEF S!IInv

\* Entries are added to the stream, and the items are no longer awaited.
LEMMA AddStep ==
  ASSUME S!IInv, NEW entries,
         \/ \E e \in S!Entries(Item) : entries = <<e>>
         \/ \E e, f \in S!Entries(Item) : entries = <<e, f>>,
         S!Added(entries, log),
         added' = added \cup {entries[n].item : n \in DOMAIN entries},
         UNCHANGED <<S!groupVars, S!clientVars, finished, removed, unowned, slow>>
  PROVE  S!IInv'
<1> USE DEF S!groupVars, S!clientVars
<1>1. S!TypeOK /\ S!Accounted /\ S!GroupInv /\ S!PendingInv /\ S!LateInv /\ S!HeldInv
  BY DEF S!IInv
<1>2. /\ lastId' \in Nat /\ lastId <= lastId' /\ streamExists' \in BOOLEAN
      /\ DOMAIN log \subseteq DOMAIN log' /\ DOMAIN log' \subseteq 1..lastId'
      /\ log' \in [DOMAIN log' -> Item]
      /\ \A i \in DOMAIN log : log'[i] = log[i]
      /\ \A i \in DOMAIN log' \ DOMAIN log : i > lastId
      /\ lost \subseteq lost'
      /\ \A n \in DOMAIN entries :
            entries[n].item \in lost' \/ \E i \in DOMAIN log' : log'[i] = entries[n].item
  BY <1>1, AddedGrows DEF S!TypeOK, S!StreamType, S!Ids
<1>3. S!TypeOK'
  BY <1>1, <1>2 DEF S!TypeOK, S!StreamType, S!GroupType, S!ClientType, S!Ids
<1>4. S!GroupInv' /\ S!PendingInv' /\ S!LateInv' /\ S!HeldInv'
  BY <1>1 DEF S!GroupInv, S!PendingInv, S!LateInv, S!HeldInv, S!Held
<1>5. S!Accounted'
  <2>1. (added \subseteq S!Range(log) \cup finished \cup lost)'
    BY <1>1, <1>2 DEF S!Accounted, S!Range
  <2>2. (\A i \in S!Ids : i > read \/ i \in DOMAIN pending \/ i \in unowned)'
    BY <1>1, <1>2 DEF S!Accounted, S!Ids, S!TypeOK, S!StreamType, S!GroupType
  <2>3. (\A i \in DOMAIN pending : i \in S!Ids \cup removed)'
    BY <1>1, <1>2 DEF S!Accounted, S!Ids
  <2> QED
    BY <2>1, <2>2, <2>3 DEF S!Accounted
<1> QED
  BY <1>3, <1>4, <1>5 DEF S!IInv

LEMMA ReadGroupStep ==
  ASSUME S!IInv, NEW c \in Client, NEW count \in Nat \ {0}, NEW noAck,
         S!readGroup(c, count, noAck)
  PROVE  S!IInv'
<1> DEFINE next == {i \in S!Ids : i > read}
           ids == {i \in next : Cardinality({j \in next : j <= i}) <= count}
<1>1. S!TypeOK /\ S!Accounted /\ S!GroupInv /\ S!PendingInv /\ S!LateInv /\ S!HeldInv
  BY DEF S!IInv
<1>2. /\ grouped /\ ids # {} /\ read' = S!Highest(ids)
      /\ UNCHANGED <<S!streamVars, grouped, late, known, pc, added, finished, lost, removed, slow>>
      /\ got' = [got EXCEPT ![c] = @ \cup ids]
      /\ \/ /\ pending' = pending
            /\ unowned' = unowned \cup ids
         \/ /\ pending' = [i \in DOMAIN pending \cup ids |-> IF i \in ids THEN c ELSE pending[i]]
            /\ unowned' = unowned
  BY StreamCardinality DEF S!readGroup
<1>3. ids \subseteq 1..lastId /\ ids \subseteq S!Ids /\ \A i \in ids : i > read
  BY <1>1 DEF S!TypeOK, S!StreamType
<1>4. read' \in ids /\ \A i \in ids : i <= read'
  <2>1. lastId \in Nat /\ ids \subseteq 0..lastId
    BY <1>1, <1>3 DEF S!TypeOK, S!StreamType
  <2>2. \E n \in ids : \A m \in ids : m <= n
    <3> HIDE DEF ids
    <3> QED
      BY <1>2, <2>1, GreatestOf
  <2> QED
    BY <1>2, <2>2 DEF S!Highest
<1>5. \A i \in S!Ids : i > read /\ i <= read' => i \in ids
  <2> SUFFICES ASSUME NEW i \in S!Ids, i > read, i <= read' PROVE i \in ids
    OBVIOUS
  <2>1. IsFiniteSet({j \in next : j <= read'})
    <3>1. {j \in next : j <= read'} \subseteq 1..lastId
      BY <1>1 DEF S!TypeOK, S!StreamType
    <3>2. IsFiniteSet(1..lastId)
      <4>1. lastId \in Int /\ 1 \in Int
        BY <1>1 DEF S!TypeOK, S!StreamType
      <4> QED
        BY <4>1, FS_Interval
    <3> QED
      BY <3>1, <3>2, FS_Subset
  <2>2. {j \in next : j <= i} \subseteq {j \in next : j <= read'}
    <3>1. i \in Int /\ read' \in Int /\ \A j \in next : j \in Int
      BY <1>1, <1>3, <1>4 DEF S!TypeOK, S!StreamType
    <3> HIDE DEF next
    <3> QED
      BY <3>1
  <2>3. Cardinality({j \in next : j <= i}) <= Cardinality({j \in next : j <= read'})
    BY <2>1, <2>2, FS_Subset
  <2>4. Cardinality({j \in next : j <= read'}) <= count
    BY <1>4
  <2>5. Cardinality({j \in next : j <= i}) \in Nat /\ Cardinality({j \in next : j <= read'}) \in Nat
    BY <2>1, <2>2, FS_Subset, FS_CardinalityType
  <2> QED
    BY <2>3, <2>4, <2>5
<1> HIDE DEF next, ids
<1> USE <1>2 DEF S!streamVars
<1>6. S!TypeOK'
  BY <1>1, <1>3, <1>4 DEF S!TypeOK, S!StreamType, S!GroupType, S!ClientType, S!Ids
<1>7. S!GroupInv' /\ S!LateInv'
  BY <1>1, <1>3 DEF S!GroupInv, S!LateInv, S!TypeOK, S!GroupType
<1>8. \A d \in Client : S!Held(d)' = IF d = c THEN S!Held(d) \cup ids ELSE S!Held(d)
  BY <1>1 DEF S!Held, S!TypeOK, S!ClientType
<1>9. \A d \in Client : S!Held(d) \subseteq 1..read
  BY <1>1 DEF S!Held, S!TypeOK, S!ClientType
<1>10. S!PendingInv' /\ S!HeldInv'
  BY <1>1, <1>3, <1>8, <1>9 DEF S!PendingInv, S!HeldInv, S!TypeOK, S!GroupType
<1>11. S!Accounted'
  BY <1>1, <1>3, <1>4, <1>5 DEF S!Accounted, S!Ids, S!Range, S!TypeOK, S!StreamType, S!GroupType
<1> QED
  BY <1>6, <1>7, <1>10, <1>11 DEF S!IInv

\* The stream shrinks: entries are removed, and their items done with.
LEMMA ShrinkStep ==
  ASSUME S!IInv, NEW ids,
         log' = S!Without(log, ids),
         removed' = removed \cup (ids \cap S!Ids),
         finished' = finished \cup S!Items(ids),
         UNCHANGED <<streamExists, lastId, S!groupVars, S!clientVars, added, lost, unowned, slow>>
  PROVE  S!IInv'
<1> USE DEF S!groupVars, S!clientVars
<1>1. S!TypeOK /\ S!Accounted /\ S!GroupInv /\ S!PendingInv /\ S!LateInv /\ S!HeldInv
  BY DEF S!IInv
<1>2. log' = [i \in DOMAIN log \ ids |-> log[i]]
  BY DEF S!Without, S!Restrict
<1>3. S!TypeOK'
  BY <1>1, <1>2 DEF S!TypeOK, S!StreamType, S!GroupType, S!ClientType, S!Ids
<1>4. S!GroupInv' /\ S!PendingInv' /\ S!LateInv' /\ S!HeldInv'
  BY <1>1 DEF S!GroupInv, S!PendingInv, S!LateInv, S!HeldInv, S!Held
<1>5. S!Accounted'
  BY <1>1, <1>2 DEF S!Accounted, S!Ids, S!Items, S!Range
<1> QED
  BY <1>3, <1>4, <1>5 DEF S!IInv

LEMMA CreateGroupStep ==
  ASSUME S!IInv, NEW startAtId, NEW makeStream, S!createGroup(startAtId, makeStream)
  PROVE  S!IInv'
<1> USE DEF S!createGroup, S!clientVars
<1>1. S!TypeOK /\ S!Accounted /\ S!GroupInv /\ S!PendingInv /\ S!LateInv /\ S!HeldInv
  BY DEF S!IInv
<1>2. read = 0 /\ read' \in 0..lastId
  BY <1>1 DEF S!GroupInv, S!TypeOK, S!StreamType
<1>3. S!TypeOK'
  BY <1>1, <1>2 DEF S!TypeOK, S!StreamType, S!GroupType, S!ClientType, S!Ids
<1>4. S!GroupInv' /\ S!PendingInv' /\ S!LateInv' /\ S!HeldInv'
  BY <1>1 DEF S!GroupInv, S!PendingInv, S!LateInv, S!HeldInv, S!Held
<1>5. S!Accounted'
  BY <1>1, <1>2 DEF S!Accounted, S!Ids, S!Range, S!TypeOK, S!StreamType
<1> QED
  BY <1>3, <1>4, <1>5 DEF S!IInv

LEMMA ReadOwnStep ==
  ASSUME S!IInv, NEW c \in Client, S!readOwn(c)
  PROVE  S!IInv'
<1> USE DEF S!readOwn, S!streamVars, S!groupVars, S!history
<1>1. S!TypeOK /\ S!Accounted /\ S!GroupInv /\ S!PendingInv /\ S!LateInv /\ S!HeldInv
  BY DEF S!IInv
<1>2. S!Own(c) \subseteq DOMAIN pending /\ \A i \in S!Own(c) : pending[i] = c
  BY DEF S!Own
<1>3. S!TypeOK'
  BY <1>1, <1>2 DEF S!TypeOK, S!StreamType, S!GroupType, S!ClientType, S!Ids
<1>4. S!GroupInv' /\ S!LateInv' /\ S!Accounted'
  BY <1>1 DEF S!GroupInv, S!LateInv, S!Accounted, S!Ids, S!Range
<1>5. \A d \in Client : S!Held(d)' = IF d = c THEN S!Held(d) \cup S!Own(c) ELSE S!Held(d)
  BY <1>1 DEF S!Held, S!TypeOK, S!ClientType
<1>6. S!PendingInv' /\ S!HeldInv'
  BY <1>1, <1>2, <1>5 DEF S!PendingInv, S!HeldInv
<1> QED
  BY <1>3, <1>4, <1>6 DEF S!IInv

\* Less is held, by the clients or by the group, than before.
LEMMA HeldLess ==
  ASSUME S!PendingInv, S!LateInv, S!HeldInv,
         \A c \in Client : S!Held(c)' \subseteq S!Held(c),
         DOMAIN pending' \subseteq DOMAIN pending,
         \A i \in DOMAIN pending' : pending'[i] = pending[i],
         late' \subseteq late, late' \subseteq DOMAIN pending', slow' = slow
  PROVE  S!PendingInv' /\ S!LateInv' /\ S!HeldInv'
  BY DEF S!PendingInv, S!LateInv, S!HeldInv

\* A client is done with entries that it was given.
LEMMA FinishStep ==
  ASSUME S!IInv, NEW c \in Client, S!Finish(c)
  PROVE  S!IInv'
<1>1. S!TypeOK /\ S!Accounted /\ S!GroupInv /\ S!PendingInv /\ S!LateInv /\ S!HeldInv
  BY DEF S!IInv
<1>2. PICK ids \in SUBSET got[c] :
          \/ S!acknowledge(c, ids)
          \/ S!acknowledgeDeleteTransaction(c, ids)
          \/ \E e \in S!Entries(S!Items(ids)) : S!acknowledgeDeleteAddTransaction(c, ids, <<e>>)
  BY DEF S!Finish
<1>3. S!Acknowledged(ids) /\ S!Forgotten(c, ids) /\ UNCHANGED <<grouped, read, slow, added, removed>>
  BY <1>2 DEF S!acknowledge, S!acknowledgeDeleteTransaction, S!acknowledgeDeleteAddTransaction
<1>4. pending' = [i \in DOMAIN pending \ ids |-> pending[i]] /\ late' = late \ ids
  BY <1>3 DEF S!Acknowledged, S!Without, S!Restrict
<1>5. got' = [got EXCEPT ![c] = @ \ ids] /\ UNCHANGED <<known, pc>>
  BY <1>3 DEF S!Forgotten
<1>6. \A d \in Client : S!Held(d)' \subseteq S!Held(d)
  BY <1>1, <1>5 DEF S!Held, S!TypeOK, S!ClientType
<1>7. S!PendingInv' /\ S!LateInv' /\ S!HeldInv' /\ S!GroupInv'
  <2>1. late' \subseteq DOMAIN pending'
    BY <1>1, <1>4 DEF S!TypeOK, S!GroupType
  <2> QED
    BY <1>1, <1>3, <1>4, <1>6, <2>1, HeldLess DEF S!GroupInv
<1>8. S!ClientType'
  BY <1>1, <1>3, <1>5 DEF S!TypeOK, S!ClientType
<1>9. ASSUME lastId' \in Nat, lastId <= lastId' PROVE S!GroupType'
  BY <1>1, <1>3, <1>4, <1>9 DEF S!TypeOK, S!GroupType, S!StreamType
<1>10. CASE S!acknowledge(c, ids)
  <2> USE <1>10 DEF S!acknowledge, S!streamVars
  <2>1. S!StreamType' /\ S!GroupType'
    BY <1>1, <1>9 DEF S!TypeOK, S!StreamType, S!Ids
  <2>2. S!Accounted'
    BY <1>1, <1>4 DEF S!Accounted, S!Ids, S!Range
  <2> QED
    BY <1>7, <1>8, <2>1, <2>2 DEF S!IInv, S!TypeOK
<1>11. CASE S!acknowledgeDeleteTransaction(c, ids)
  <2> USE <1>11 DEF S!acknowledgeDeleteTransaction
  <2>1. log' = [i \in DOMAIN log \ ids |-> log[i]]
    BY DEF S!Without, S!Restrict
  <2>2. S!StreamType' /\ S!GroupType'
    BY <1>1, <1>9, <2>1 DEF S!TypeOK, S!StreamType, S!Ids
  <2>3. S!Accounted'
    BY <1>1, <1>4, <2>1 DEF S!Accounted, S!Ids, S!Range, S!Items
  <2> QED
    BY <1>7, <1>8, <2>2, <2>3 DEF S!IInv, S!TypeOK
<1>12. ASSUME NEW e \in S!Entries(S!Items(ids)), S!acknowledgeDeleteAddTransaction(c, ids, <<e>>)
       PROVE  S!IInv'
  <2> DEFINE before == [i \in DOMAIN log \ ids |-> log[i]]
  <2>1. /\ S!Added(<<e>>, before) /\ UNCHANGED unowned
        /\ finished' = finished \cup (S!Items(ids) \ {<<e>>[n].item : n \in DOMAIN <<e>>})
    BY <1>12 DEF S!acknowledgeDeleteAddTransaction, S!Without, S!Restrict
  <2>2. S!Items(ids) \subseteq Item
    BY <1>1 DEF S!Items, S!Ids, S!TypeOK, S!StreamType
  <2>3. e \in S!Entries(Item)
    BY <2>2 DEF S!Entries
  <2>4. /\ lastId \in Nat /\ streamExists \in BOOLEAN
        /\ DOMAIN before \subseteq 1..lastId /\ before \in [DOMAIN before -> Item]
    BY <1>1 DEF S!TypeOK, S!StreamType, S!Ids
  <2>5. DOMAIN before = DOMAIN log \ ids /\ \A i \in DOMAIN before : before[i] = log[i]
    OBVIOUS
  <2> HIDE DEF before
  <2>6. /\ lastId' \in Nat /\ lastId <= lastId' /\ streamExists' \in BOOLEAN
        /\ DOMAIN before \subseteq DOMAIN log' /\ DOMAIN log' \subseteq 1..lastId'
        /\ log' \in [DOMAIN log' -> Item]
        /\ \A i \in DOMAIN before : log'[i] = before[i]
        /\ \A i \in DOMAIN log' \ DOMAIN before : i > lastId
        /\ lost \subseteq lost'
        /\ \A n \in DOMAIN <<e>> :
              <<e>>[n].item \in lost' \/ \E i \in DOMAIN log' : log'[i] = <<e>>[n].item
    BY <2>1, <2>3, <2>4, AddedGrows
  <2>7. /\ e.item \in lost' \/ \E i \in DOMAIN log' : log'[i] = e.item
        /\ finished' = finished \cup (S!Items(ids) \ {e.item})
    <3>1. <<e>>[1] = e /\ DOMAIN <<e>> = {1}
      OBVIOUS
    <3> QED
      BY <2>1, <2>6, <3>1
  <2>8. S!StreamType' /\ S!GroupType'
    BY <1>1, <1>9, <2>6 DEF S!TypeOK, S!StreamType, S!Ids
  <2>9. (added \subseteq S!Range(log) \cup finished \cup lost)'
    <3>1. \A x \in S!Range(log) : x \in S!Range(log') \/ x \in S!Items(ids)
      BY <2>5, <2>6 DEF S!Range, S!Items, S!Ids
    <3>2. e.item \in lost' \cup S!Range(log')
      BY <2>7 DEF S!Range
    <3>3. S!Items(ids) \subseteq finished' \cup {e.item} /\ finished \subseteq finished'
      BY <2>7
    <3>4. added' = added /\ lost \subseteq lost'
      BY <1>3, <2>6
    <3>5. (S!Range(log))' = S!Range(log')
      BY DEF S!Range
    <3> QED
      BY <1>1, <3>1, <3>2, <3>3, <3>4, <3>5 DEF S!Accounted
  <2>10. (\A i \in S!Ids : i > read \/ i \in DOMAIN pending \/ i \in unowned)'
    BY <1>1, <1>3, <1>4, <2>1, <2>5, <2>6 DEF S!Accounted, S!Ids, S!TypeOK, S!StreamType, S!GroupType
  <2>11. (\A i \in DOMAIN pending : i \in S!Ids \cup removed)'
    BY <1>1, <1>3, <1>4, <2>5, <2>6 DEF S!Accounted, S!Ids
  <2> QED
    BY <1>7, <1>8, <2>8, <2>9, <2>10, <2>11 DEF S!IInv, S!TypeOK, S!Accounted
<1> QED
  BY <1>2, <1>10, <1>11, <1>12

\* What somebody is given that took it over: it was pending for too long, and
\* whoever had it before is known to be slow.
LEMMA TakeOverStep ==
  ASSUME S!IInv, NEW c \in Client, S!TakeOver(c)
  PROVE  S!IInv'
<1>1. S!TypeOK /\ S!Accounted /\ S!GroupInv /\ S!PendingInv /\ S!LateInv /\ S!HeldInv
  BY DEF S!IInv
<1>2. pc[c] = "idle"
  BY DEF S!TakeOver
<1>3. ASSUME NEW consumers \in SUBSET Client, S!getPendingEntries(c, consumers)
      PROVE  S!IInv'
  <2> USE <1>3 DEF S!getPendingEntries, S!streamVars, S!groupVars, S!history
  <2>1. UNION {S!Own(d) : d \in consumers} \subseteq DOMAIN pending
    BY DEF S!Own
  <2> HIDE DEF S!Own
  <2>2. S!TypeOK'
    BY <1>1, <2>1 DEF S!TypeOK, S!StreamType, S!GroupType, S!ClientType, S!Ids
  <2>3. S!GroupInv' /\ S!Accounted'
    BY <1>1 DEF S!GroupInv, S!Accounted, S!Ids, S!Range
  <2>4. \A d \in Client : S!Held(d)' = S!Held(d)
    BY <1>1, <1>2 DEF S!Held, S!TypeOK, S!ClientType
  <2>5. S!PendingInv' /\ S!LateInv' /\ S!HeldInv'
    BY <1>1, <2>4, HeldLess DEF S!TypeOK, S!GroupType
  <2> QED
    BY <2>2, <2>3, <2>5 DEF S!IInv
<1>4. ASSUME NEW ids \in SUBSET Nat, S!Claimed(c, ids),
             \A d \in Client : S!Held(d)' \subseteq
                 IF d = c THEN S!Held(d) \cup S!Claimable(ids) ELSE S!Held(d),
             UNCHANGED <<S!streamVars, grouped, read, S!history>>,
             S!ClientType'
      PROVE  S!IInv'
  <2> DEFINE taken == S!Claimable(ids)
  <2> USE <1>4 DEF S!streamVars, S!history
  <2>1. taken \subseteq late
    BY DEF S!Claimable
  <2>2. /\ pending' = [i \in DOMAIN pending |-> IF i \in taken THEN c ELSE pending[i]]
        /\ late' = late \ taken
    BY DEF S!Claimed
  <2> HIDE DEF taken
  <2>3. S!TypeOK'
    BY <1>1, <2>2 DEF S!TypeOK, S!StreamType, S!GroupType, S!Ids
  <2>4. S!GroupInv' /\ S!Accounted'
    BY <1>1, <2>2 DEF S!GroupInv, S!Accounted, S!Ids, S!Range
  <2>5. S!LateInv'
    BY <1>1, <2>2 DEF S!LateInv, S!TypeOK, S!GroupType
  <2>6. \A d \in Client : S!Held(d)' \subseteq IF d = c THEN S!Held(d) \cup taken ELSE S!Held(d)
    BY DEF taken
  <2>7. \A d \in Client : \A i \in S!Held(d) \cap taken : d = c \/ <<d, i>> \in slow
    BY <1>1, <2>1 DEF S!PendingInv, S!LateInv, S!TypeOK, S!GroupType
  <2>8. S!PendingInv'
    BY <1>1, <2>2, <2>6, <2>7 DEF S!PendingInv
  <2>9. S!HeldInv'
    BY <1>1, <2>6, <2>7 DEF S!HeldInv
  <2> QED
    BY <2>3, <2>4, <2>5, <2>8, <2>9 DEF S!IInv
<1>5. S!Claimable(known[c]) \subseteq 1..read /\ known[c] \in SUBSET Nat
  BY <1>1 DEF S!Claimable, S!TypeOK, S!ClientType, S!GroupType
<1>6. ASSUME S!claim(c, known[c]) PROVE S!IInv'
  <2> USE <1>6 DEF S!claim
  <2>1. S!ClientType'
    BY <1>1, <1>5 DEF S!TypeOK, S!ClientType
  <2>2. \A d \in Client : S!Held(d)' \subseteq
            IF d = c THEN S!Held(d) \cup S!Claimable(known[c]) ELSE S!Held(d)
    BY <1>1, <1>2 DEF S!Held, S!TypeOK, S!ClientType
  <2> QED
    BY <1>4, <1>5, <2>1, <2>2
<1>7. ASSUME S!claimIds(c, known[c]) PROVE S!IInv'
  <2> USE <1>7 DEF S!claimIds
  <2>1. S!ClientType'
    BY <1>1, <1>5 DEF S!TypeOK, S!ClientType
  <2>2. \A d \in Client : S!Held(d)' \subseteq
            IF d = c THEN S!Held(d) \cup S!Claimable(known[c]) ELSE S!Held(d)
    BY <1>1, <1>2 DEF S!Held, S!TypeOK, S!ClientType
  <2> QED
    BY <1>4, <1>5, <2>1, <2>2
<1> QED
  BY <1>3, <1>6, <1>7 DEF S!TakeOver

\* The entries of what was claimed arrive, a client forgets, or a consumer is
\* deleted: nobody holds more than before.
LEMMA ForgetStep ==
  ASSUME S!IInv, NEW c \in Client, S!getMany(c) \/ S!Crash(c) \/ S!deleteConsumer(c)
  PROVE  S!IInv'
<1>1. S!TypeOK /\ S!Accounted /\ S!GroupInv /\ S!PendingInv /\ S!LateInv /\ S!HeldInv
  BY DEF S!IInv
<1>2. CASE S!getMany(c) \/ S!Crash(c)
  <2>1. UNCHANGED <<S!streamVars, S!groupVars, S!history>>
    BY <1>2 DEF S!getMany, S!Crash
  <2> USE <2>1 DEF S!streamVars, S!groupVars, S!history
  <2>2. S!ClientType'
    BY <1>1, <1>2 DEF S!getMany, S!Crash, S!TypeOK, S!ClientType
  <2>3. S!StreamType' /\ S!GroupType' /\ S!GroupInv' /\ S!Accounted'
    BY <1>1 DEF S!TypeOK, S!StreamType, S!GroupType, S!GroupInv, S!Accounted, S!Ids, S!Range
  <2>4. \A d \in Client : S!Held(d)' \subseteq S!Held(d)
    BY <1>1, <1>2 DEF S!getMany, S!Crash, S!Held, S!TypeOK, S!ClientType
  <2>5. S!PendingInv' /\ S!LateInv' /\ S!HeldInv'
    BY <1>1, <2>4, HeldLess DEF S!TypeOK, S!GroupType
  <2> QED
    BY <2>2, <2>3, <2>5 DEF S!IInv, S!TypeOK
<1>3. CASE S!deleteConsumer(c)
  <2> USE <1>3 DEF S!deleteConsumer, S!streamVars, S!clientVars
  <2>1. pending' = [i \in DOMAIN pending \ S!Own(c) |-> pending[i]] /\ late' = late \ S!Own(c)
    BY DEF S!Without, S!Restrict
  <2>2. S!TypeOK'
    BY <1>1, <2>1 DEF S!TypeOK, S!StreamType, S!GroupType, S!ClientType, S!Ids
  <2>3. S!GroupInv' /\ S!Accounted'
    BY <1>1, <2>1 DEF S!GroupInv, S!Accounted, S!Ids, S!Range
  <2>4. \A d \in Client : S!Held(d)' \subseteq S!Held(d)
    BY DEF S!Held
  <2>5. S!PendingInv' /\ S!LateInv' /\ S!HeldInv'
    BY <1>1, <2>1, <2>4, HeldLess DEF S!TypeOK, S!GroupType
  <2> QED
    BY <2>2, <2>3, <2>5 DEF S!IInv
<1> QED
  BY <1>2, <1>3

LEMMA GrowLateStep ==
  ASSUME S!IInv, NEW i \in DOMAIN pending, S!GrowLate(i)
  PROVE  S!IInv'
<1> USE DEF S!GrowLate, S!streamVars, S!clientVars
<1>1. S!TypeOK /\ S!Accounted /\ S!GroupInv /\ S!PendingInv /\ S!LateInv /\ S!HeldInv
  BY DEF S!IInv
<1>2. S!TypeOK'
  BY <1>1 DEF S!TypeOK, S!StreamType, S!GroupType, S!ClientType, S!Ids
<1>3. S!GroupInv' /\ S!Accounted'
  BY <1>1 DEF S!GroupInv, S!Accounted, S!Ids, S!Range
<1>4. \A d \in Client : S!Held(d)' = S!Held(d)
  BY DEF S!Held
<1>5. S!PendingInv' /\ S!LateInv' /\ S!HeldInv'
  BY <1>1, <1>4 DEF S!PendingInv, S!LateInv, S!HeldInv
<1> QED
  BY <1>2, <1>3, <1>5 DEF S!IInv

LEMMA StreamStep == S!IInv /\ [S!Next]_streamVars => S!IInv'
<1> SUFFICES ASSUME S!IInv, [S!Next]_streamVars PROVE S!IInv'
  OBVIOUS
<1>1. ASSUME S!Add PROVE S!IInv'
  <2>1. ASSUME NEW e \in S!Entries(Item), S!add(e) PROVE S!IInv'
    <3>1. {<<e>>[n].item : n \in DOMAIN <<e>>} = {e.item}
      OBVIOUS
    <3>2. added' = added \cup {<<e>>[n].item : n \in DOMAIN <<e>>}
      BY <2>1, <3>1 DEF S!add
    <3> QED
      BY <2>1, <3>2, AddStep DEF S!add
  <2>2. ASSUME NEW e \in S!Entries(Item), NEW f \in S!Entries(Item), S!addMany(<<e, f>>)
        PROVE  S!IInv'
    BY <2>2, AddStep DEF S!addMany
  <2> QED
    BY <1>1, <2>1, <2>2 DEF S!Add
<1>2. ASSUME S!Shrink PROVE S!IInv'
  <2>1. ASSUME NEW i \in S!Ids, S!delete({i}) PROVE S!IInv'
    BY <2>1, ShrinkStep DEF S!delete
  <2>2. ASSUME NEW approximate \in BOOLEAN, S!trim(1, approximate) PROVE S!IInv'
    <3>1. PICK ids \in SUBSET S!Ids :
              /\ log' = S!Without(log, ids)
              /\ removed' = removed \cup ids
              /\ finished' = finished \cup S!Items(ids)
              /\ UNCHANGED <<streamExists, lastId, S!groupVars, S!clientVars, added, lost,
                             unowned, slow>>
      BY <2>2 DEF S!trim
    <3>2. ids = ids \cap S!Ids
      OBVIOUS
    <3> QED
      BY <3>1, <3>2, ShrinkStep
  <2> QED
    BY <1>2, <2>1, <2>2 DEF S!Shrink
<1>3. ASSUME NEW c \in Client, S!Read(c) PROVE S!IInv'
  BY <1>3, ReadGroupStep, ReadOwnStep DEF S!Read
<1>4. ASSUME UNCHANGED streamVars PROVE S!IInv'
  <2> USE <1>4 DEF streamVars
  <2>1. S!TypeOK' /\ S!GroupInv' /\ S!Accounted'
    BY DEF S!IInv, S!TypeOK, S!StreamType, S!GroupType, S!ClientType, S!Ids, S!GroupInv,
           S!Accounted, S!Range
  <2>2. \A d \in Client : S!Held(d)' = S!Held(d)
    BY DEF S!Held
  <2>3. S!PendingInv' /\ S!LateInv' /\ S!HeldInv'
    BY <2>2 DEF S!IInv, S!PendingInv, S!LateInv, S!HeldInv
  <2> QED
    BY <2>1, <2>3 DEF S!IInv
<1> QED
  BY <1>1, <1>2, <1>3, <1>4, CreateGroupStep, FinishStep, TakeOverStep, ForgetStep, GrowLateStep
  DEF S!Next

\* What the stream promises.
LEMMA StreamIsKeptInv == S!IInv => S!StreamIsKept
  BY DEF S!IInv, S!HeldInv, S!Held, S!StreamIsKept, S!HeldByOne

-----------------------------------------------------------------------------
(* MessageBus.                                                                 *)

messageVars ==
    <<observers, link, commands, channelReplies, subscribed, sent, published, heard>>

\* The indices of a queue that grows, and of one that is read.
LEMMA AppendIndices ==
  ASSUME NEW T, NEW q \in Seq(T), NEW e \in T
  PROVE  /\ Append(q, e) \in Seq(T)
         /\ DOMAIN q = 1..Len(q) /\ Len(q) \in Nat
         /\ DOMAIN Append(q, e) = 1..(Len(q) + 1)
         /\ \A i \in DOMAIN q : Append(q, e)[i] = q[i]
         /\ Append(q, e)[Len(q) + 1] = e
  OBVIOUS

LEMMA TailIndices ==
  ASSUME NEW T, NEW q \in Seq(T), q # <<>>
  PROVE  /\ Tail(q) \in Seq(T)
         /\ DOMAIN q = 1..Len(q) /\ Len(q) \in Nat /\ Len(q) >= 1
         /\ DOMAIN Tail(q) = 1..(Len(q) - 1)
         /\ \A i \in 1..(Len(q) - 1) : Tail(q)[i] = q[i + 1]
         /\ Head(q) = q[1]
  OBVIOUS

\* A command is sent.
LEMMA CommandSent ==
  ASSUME M!QueueType, NEW cmd \in M!Commands, commands' = Append(commands, cmd)
  PROVE  /\ commands' \in Seq(M!Commands)
         /\ DOMAIN commands = 1..Len(commands) /\ Len(commands) \in Nat
         /\ DOMAIN commands' = 1..(Len(commands) + 1)
         /\ \A i \in DOMAIN commands : commands'[i] = commands[i] /\ commands[i] \in M!Commands
         /\ commands'[Len(commands) + 1] = cmd
         /\ \A i \in DOMAIN commands :
               M!IsLast(i)' <=> M!IsLast(i) /\ commands[i].channel # cmd.channel
         /\ \A n : n = Len(commands) + 1 => M!IsLast(n)'
         /\ \A d : M!NoCommand(d)' <=> M!NoCommand(d) /\ d # cmd.channel
<1>1. /\ commands' \in Seq(M!Commands)
      /\ DOMAIN commands = 1..Len(commands) /\ Len(commands) \in Nat
      /\ DOMAIN commands' = 1..(Len(commands) + 1)
      /\ \A i \in DOMAIN commands : commands'[i] = commands[i] /\ commands[i] \in M!Commands
      /\ commands'[Len(commands) + 1] = cmd
  BY AppendIndices DEF M!QueueType
<1>0. PICK n \in Nat : n = Len(commands) + 1
  BY <1>1
<1>2. \A i \in DOMAIN commands' : i \in DOMAIN commands \/ i = n
  BY <1>0, <1>1
<1>3. \A i \in DOMAIN commands : i < n /\ i \in DOMAIN commands'
  BY <1>0, <1>1
<1>4. n \in DOMAIN commands' /\ commands'[n] = cmd
  BY <1>0, <1>1
<1>5. M!IsLast(n)'
  <2>1. \A j \in DOMAIN commands' : ~(j > n)
    BY <1>0, <1>1
  <2> QED
    BY <2>1 DEF M!IsLast
<1>6. \A i \in DOMAIN commands :
               M!IsLast(i)' <=> M!IsLast(i) /\ commands[i].channel # cmd.channel
  BY <1>1, <1>2, <1>3, <1>4 DEF M!IsLast
<1>7. \A d : M!NoCommand(d)' <=> M!NoCommand(d) /\ d # cmd.channel
  BY <1>1, <1>2, <1>3, <1>4 DEF M!NoCommand
<1> QED
  BY <1>0, <1>1, <1>5, <1>6, <1>7

\* Redis takes a command.
LEMMA CommandTaken ==
  ASSUME M!QueueType, commands # <<>>, commands' = Tail(commands)
  PROVE  /\ commands' \in Seq(M!Commands)
         /\ DOMAIN commands = 1..Len(commands) /\ Len(commands) \in Nat /\ 1 \in DOMAIN commands
         /\ DOMAIN commands' = 1..(Len(commands) - 1)
         /\ \A i \in DOMAIN commands : commands[i] \in M!Commands
         /\ Head(commands) = commands[1]
         /\ \A i \in DOMAIN commands' :
               i + 1 \in DOMAIN commands /\ commands'[i] = commands[i + 1]
         /\ \A i \in DOMAIN commands : i # 1 => i - 1 \in DOMAIN commands'
         /\ \A i \in DOMAIN commands' : M!IsLast(i)' <=> M!IsLast(i + 1)
         /\ \A d : M!NoCommand(d) <=> M!NoCommand(d)' /\ d # Head(commands).channel
         /\ \A d : d = Head(commands).channel => (M!IsLast(1) <=> M!NoCommand(d)')
<1>1. /\ commands' \in Seq(M!Commands)
      /\ DOMAIN commands = 1..Len(commands) /\ Len(commands) \in Nat /\ 1 \in DOMAIN commands
      /\ DOMAIN commands' = 1..(Len(commands) - 1)
      /\ \A i \in DOMAIN commands : commands[i] \in M!Commands
      /\ Head(commands) = commands[1]
      /\ \A i \in DOMAIN commands' :
            i + 1 \in DOMAIN commands /\ commands'[i] = commands[i + 1]
      /\ \A i \in DOMAIN commands : i # 1 => i - 1 \in DOMAIN commands'
  BY TailIndices DEF M!QueueType
<1>2. \A i \in DOMAIN commands : i = 1 \/ \E j \in DOMAIN commands' : i = j + 1
  BY <1>1
<1>3. \A i \in DOMAIN commands' : i \in Int
  BY <1>1
<1>4. ASSUME NEW i \in DOMAIN commands' PROVE M!IsLast(i)' <=> M!IsLast(i + 1)
  <2>1. \A j \in DOMAIN commands' : j > i <=> j + 1 > i + 1
    BY <1>3
  <2>2. commands'[i] = commands[i + 1]
    BY <1>1
  <2>3. ASSUME M!IsLast(i)', NEW j \in DOMAIN commands, j > i + 1
        PROVE  commands[j].channel # commands[i + 1].channel
    <3>1. j # 1
      BY <1>1, <1>3, <2>3
    <3>2. PICK k \in DOMAIN commands' : j = k + 1
      BY <1>2, <3>1
    <3> QED
      BY <1>1, <2>1, <2>2, <2>3, <3>2 DEF M!IsLast
  <2>4. ASSUME M!IsLast(i + 1), NEW j \in DOMAIN commands', j > i
        PROVE  commands'[j].channel # commands'[i].channel
    BY <1>1, <2>1, <2>2, <2>4 DEF M!IsLast
  <2> QED
    BY <2>3, <2>4 DEF M!IsLast
<1>5. \A d : M!NoCommand(d) <=> M!NoCommand(d)' /\ d # Head(commands).channel
  BY <1>1, <1>2, <1>3 DEF M!NoCommand
<1>6. ASSUME NEW ch, ch = Head(commands).channel PROVE M!IsLast(1) <=> M!NoCommand(ch)'
  <2>1. \A j \in DOMAIN commands : j > 1 <=> j # 1
    BY <1>1
  <2>2. \A k \in DOMAIN commands' : k + 1 \in DOMAIN commands /\ k + 1 # 1
    BY <1>1
  <2>3. \A j \in DOMAIN commands : j # 1 => \E k \in DOMAIN commands' : commands'[k] = commands[j]
    BY <1>1, <1>2
  <2>4. \A k \in DOMAIN commands' : \E j \in DOMAIN commands : j # 1 /\ commands'[k] = commands[j]
    BY <1>1, <2>2
  <2>5. M!IsLast(1) <=> \A j \in DOMAIN commands : j # 1 => commands[j].channel # ch
    BY <1>1, <1>6, <2>1 DEF M!IsLast
  <2>6. M!NoCommand(ch)' <=> \A k \in DOMAIN commands' : commands'[k].channel # ch
    BY <1>1 DEF M!NoCommand
  <2>7. (\A j \in DOMAIN commands : j # 1 => commands[j].channel # ch)
           <=> (\A k \in DOMAIN commands' : commands'[k].channel # ch)
    BY <2>3, <2>4
  <2> QED
    BY <1>1, <2>5, <2>6, <2>7
<1> QED
  BY <1>1, <1>4, <1>5, <1>6

LEMMA AwaitedAt ==
  \A r : M!Awaited(r) => link[r.channel].at = "subscribing" /\ link[r.channel].number = r.number
  BY DEF M!Awaited

LEMMA BusInit == M!Init => M!IInv
<1> SUFFICES ASSUME M!Init PROVE M!IInv
  OBVIOUS
<1> USE DEF M!Init
<1>1. DOMAIN commands = {} /\ DOMAIN channelReplies = {}
  OBVIOUS
<1>2. M!TypeOK
  BY DEF M!TypeOK, M!LinkType, M!QueueType, M!MessageType, M!Down
<1>3. M!LinkInv /\ M!NumberInv /\ M!CommandInv /\ M!ConnectedInv
  BY <1>1 DEF M!LinkInv, M!NumberInv, M!CommandInv, M!ConnectedInv, M!Down, M!HasReply, M!Connected
<1>4. M!OrderInv /\ M!HeardInv
  BY <1>1 DEF M!OrderInv, M!HeardInv
<1> QED
  BY <1>2, <1>3, <1>4 DEF M!IInv

\* The first observer of a channel.
LEMMA FirstObserverStep ==
  ASSUME M!IInv, NEW o \in Observer, M!Observe(o), observers[ChannelOf[o]] = {}
  PROVE  M!IInv'
<1> DEFINE ch == ChannelOf[o]
           new == M!Subscribe(ch, sent + 1)
<1>1. M!TypeOK /\ M!LinkInv /\ M!NumberInv /\ M!CommandInv /\ M!ConnectedInv /\ M!OrderInv
      /\ M!HeardInv
  BY DEF M!IInv
<1>2. ch \in Channel
  BY ChannelAssumption
<1>3. /\ observers' = [observers EXCEPT ![ch] = @ \cup {o}]
      /\ heard' = [heard EXCEPT ![o] = <<>>]
      /\ sent' = sent + 1 /\ commands' = Append(commands, new)
      /\ link' = [link EXCEPT ![ch] = [at |-> "subscribing", number |-> sent + 1]]
      /\ UNCHANGED <<channelReplies, subscribed, published>>
  BY DEF M!Observe
<1>4. new = [type |-> "subscribe", channel |-> ch, number |-> sent + 1]
  BY DEF M!Subscribe
<1>5. sent \in Nat /\ M!QueueType /\ new \in M!Commands
  BY <1>1, <1>2, <1>4 DEF M!TypeOK, M!LinkType, M!Commands
<1> HIDE DEF ch, new
<1>0. PICK n \in Nat : n = Len(commands) + 1
  BY <1>5 DEF M!QueueType
<1>6. /\ commands' \in Seq(M!Commands)
      /\ DOMAIN commands = 1..Len(commands) /\ Len(commands) \in Nat /\ DOMAIN commands' = 1..n
      /\ \A i \in DOMAIN commands : commands'[i] = commands[i] /\ commands[i] \in M!Commands
      /\ commands'[n] = new
      /\ \A i \in DOMAIN commands : M!IsLast(i)' <=> M!IsLast(i) /\ commands[i].channel # ch
      /\ M!IsLast(n)'
      /\ \A d : M!NoCommand(d)' <=> M!NoCommand(d) /\ d # ch
  BY <1>0, <1>3, <1>4, <1>5, CommandSent
<1>18. /\ n \in DOMAIN commands'
      /\ commands'[n].type = "subscribe" /\ commands'[n].channel = ch
      /\ commands'[n].number = sent + 1
  <2>1. n \in 1..n
    BY <1>0, <1>6
  <2> QED
    BY <1>4, <1>6, <2>1
<1>7. M!TypeOK'
  <2>1. M!LinkType'
    BY <1>1, <1>2, <1>3, <1>5 DEF M!TypeOK, M!LinkType, ch
  <2>2. M!QueueType'
    BY <1>1, <1>3, <1>6 DEF M!TypeOK, M!QueueType, M!Commands
  <2>3. M!MessageType'
    BY <1>1, <1>3 DEF M!TypeOK, M!MessageType
  <2> QED
    BY <2>1, <2>2, <2>3 DEF M!TypeOK
<1>8. M!LinkInv'
  <2>1. \A d \in Channel : /\ d # ch => link'[d] = link[d] /\ observers'[d] = observers[d]
                           /\ link'[ch].at = "subscribing" /\ o \in observers'[ch]
    BY <1>1, <1>2, <1>3 DEF M!TypeOK, M!LinkType
  <2> QED
    BY <1>1, <2>1 DEF M!LinkInv
<1>9. M!NumberInv'
  <2>1. \A i \in DOMAIN commands' : i \in DOMAIN commands \/ i = n
    BY <1>0, <1>6
  <2>2. \A i \in DOMAIN commands : commands[i].number \in Nat
    BY <1>6 DEF M!Commands
  <2>3. \A i \in DOMAIN channelReplies : channelReplies[i].number \in Nat
    <3>1. \A i \in DOMAIN channelReplies : channelReplies[i] \in M!Replies
      BY <1>5 DEF M!QueueType
    <3> QED
      BY <3>1 DEF M!Replies
  <2>4. (\A i \in DOMAIN commands : commands[i].type = "subscribe" => commands[i].number <= sent)'
    BY <1>1, <1>3, <1>4, <1>5, <1>6, <2>1, <2>2 DEF M!NumberInv
  <2>5. (\A i, j \in DOMAIN commands :
          /\ i # j /\ commands[i].type = "subscribe" /\ commands[j].type = "subscribe"
          => commands[i].number # commands[j].number)'
    BY <1>1, <1>3, <1>4, <1>5, <1>6, <2>1, <2>2 DEF M!NumberInv
  <2>6. (\A i \in DOMAIN channelReplies :
            channelReplies[i].type # "message" => channelReplies[i].number <= sent)'
    BY <1>1, <1>3, <1>5, <2>3 DEF M!NumberInv
  <2>7. (\A i \in DOMAIN commands : \A j \in DOMAIN channelReplies :
          commands[i].type = "subscribe" /\ channelReplies[j].type # "message" =>
              commands[i].number # channelReplies[j].number)'
    BY <1>1, <1>3, <1>4, <1>5, <1>6, <2>1, <2>2, <2>3 DEF M!NumberInv
  <2> QED
    BY <1>1, <1>3, <2>4, <2>5, <2>6, <2>7 DEF M!NumberInv
<1>10. \A d \in Channel : d # ch => link'[d] = link[d]
  BY <1>1, <1>2, <1>3 DEF M!TypeOK, M!LinkType
<1>11. link'[ch] = [at |-> "subscribing", number |-> sent + 1] /\ link[ch].at = "down"
  BY <1>1, <1>2, <1>3 DEF M!TypeOK, M!LinkType, M!LinkInv, ch
\* No reply bears the new number.
<1>12. \A i \in DOMAIN channelReplies :
          channelReplies[i].type # "message" =>
              (M!Awaited(channelReplies[i])' <=> M!Awaited(channelReplies[i]))
  <2>1. \A i \in DOMAIN channelReplies : channelReplies[i] \in M!Replies
    BY <1>5 DEF M!QueueType
  <2> SUFFICES ASSUME NEW i \in DOMAIN channelReplies, channelReplies[i].type # "message"
               PROVE  M!Awaited(channelReplies[i])' <=> M!Awaited(channelReplies[i])
    OBVIOUS
  <2>2. channelReplies[i].number \in Nat /\ channelReplies[i].channel \in Channel
    BY <2>1 DEF M!Replies
  <2>3. channelReplies[i].number # sent + 1
    BY <1>1, <1>5, <2>2 DEF M!NumberInv
  <2> QED
    BY <1>3, <1>10, <1>11, <2>2, <2>3 DEF M!Awaited
<1>13. \A d \in Channel : \A t \in {"subscribe", "refused"} : M!HasReply(d, t)' <=> M!HasReply(d, t)
  BY <1>3, <1>12 DEF M!HasReply
<1>14. M!CommandInv'
  <2>1. \A i \in DOMAIN commands : commands[i].number \in Nat /\ commands[i].channel \in Channel
    BY <1>6 DEF M!Commands
  <2>2. ASSUME NEW i \in DOMAIN commands', commands'[i].type = "subscribe"
        PROVE  M!IsLast(i)' <=> M!Awaited(commands[i])'
    <3>1. CASE i = n
      <4> QED
        BY <1>6, <1>11, <1>18, <3>1 DEF M!Awaited
    <3>2. CASE i \in DOMAIN commands /\ commands[i].channel = ch
      <4>1. commands[i].number # sent + 1
        BY <1>1, <1>5, <1>6, <2>1, <2>2, <3>2 DEF M!NumberInv
      <4> QED
        BY <1>6, <1>11, <3>2, <4>1 DEF M!Awaited
    <3>3. CASE i \in DOMAIN commands /\ commands[i].channel # ch
      <4>1. M!IsLast(i) <=> M!Awaited(commands[i])
        BY <1>1, <1>6, <2>2, <3>3 DEF M!CommandInv
      <4> QED
        BY <1>6, <1>10, <2>1, <3>3, <4>1 DEF M!Awaited
    <3> QED
      BY <1>0, <1>6, <3>1, <3>2, <3>3
  <2>3. ASSUME NEW d \in Channel
        PROVE  /\ d \in subscribed' /\ M!NoCommand(d)' => link'[d].at # "down"
               /\ link'[d].at = "subscribing" =>
                     \/ \E i \in DOMAIN commands' :
                           /\ commands'[i].channel = d /\ commands'[i].type = "subscribe"
                           /\ M!Awaited(commands[i])'
                     \/ M!HasReply(d, "subscribe")' \/ M!HasReply(d, "refused")'
    <3>1. CASE d = ch
      <4>1. n \in DOMAIN commands' /\ M!Awaited(commands[n])'
        BY <1>11, <1>18 DEF M!Awaited
      <4> QED
        BY <1>6, <1>11, <1>18, <3>1, <4>1
    <3>2. CASE d # ch
      <4>1. link'[d] = link[d]
        BY <1>10, <3>2
      <4>2. \A i \in DOMAIN commands : commands[i].channel = d =>
                i \in DOMAIN commands' /\ (M!Awaited(commands[i])' <=> M!Awaited(commands[i]))
        BY <1>0, <1>6, <4>1 DEF M!Awaited
      <4> QED
        BY <1>1, <1>3, <1>6, <1>13, <3>2, <4>1, <4>2 DEF M!CommandInv
    <3> QED
      BY <3>1, <3>2
  <2> QED
    BY <2>2, <2>3 DEF M!CommandInv
<1>15. M!ConnectedInv'
  <2>1. ~M!HasReply(ch, "subscribe")
    <3>1. link[ch].at # "subscribing"
      BY <1>11
    <3> QED
      BY <3>1, AwaitedAt DEF M!HasReply
  <2> QED
    BY <1>1, <1>3, <1>6, <1>10, <1>11, <1>13, <2>1 DEF M!ConnectedInv, M!Connected
<1>16. M!OrderInv'
  <2>1. \A i \in DOMAIN channelReplies : channelReplies[i].channel \in Channel
    <3>1. \A i \in DOMAIN channelReplies : channelReplies[i] \in M!Replies
      BY <1>5 DEF M!QueueType
    <3> QED
      BY <3>1 DEF M!Replies
  <2>2. \A d \in Channel : M!Connected(d)' => M!Connected(d)
    BY <1>10, <1>11 DEF M!Connected
  <2> QED
    BY <1>1, <1>3, <1>12, <2>1, <2>2 DEF M!OrderInv, M!IsMessage, M!IsFollowed
<1>17. M!HeardInv'
  <2>1. heard'[o] = <<>> /\ \A p \in Observer : p # o => heard'[p] = heard[p]
    BY <1>1, <1>3 DEF M!TypeOK, M!MessageType
  <2>2. \A d \in Channel : \A p \in observers'[d] :
            p # o => p \in observers[d] /\ p \in Observer /\ d # ch
    BY <1>1, <1>2, <1>3 DEF M!TypeOK, M!LinkType, ch
  <2>3. (\A p \in Observer : \A k \in DOMAIN heard[p] : k > 1 => heard[p][k] = heard[p][k - 1] + 1)'
    BY <1>1, <2>1 DEF M!HeardInv
  <2>4. ASSUME NEW d \in Channel, NEW p \in observers'[d], heard'[p] # <<>>
        PROVE  /\ link'[d].at = "up"
               /\ M!Heard(p)' = published'[d] \/ \E i \in DOMAIN channelReplies' :
                      M!IsMessage(i, d)' /\ channelReplies'[i].number = M!Heard(p)' + 1
               /\ \A i \in DOMAIN channelReplies' :
                      M!IsMessage(i, d)' => channelReplies'[i].number > M!Heard(p)'
    <3>1. p \in observers[d] /\ d # ch /\ heard'[p] = heard[p] /\ M!Heard(p)' = M!Heard(p)
      BY <2>1, <2>2, <2>4 DEF M!Heard
    <3>2. \A i : M!IsMessage(i, d)' <=> M!IsMessage(i, d)
      BY <1>3 DEF M!IsMessage
    <3> QED
      BY <1>1, <1>3, <1>10, <2>4, <3>1, <3>2 DEF M!HeardInv
  <2> QED
    BY <2>3, <2>4 DEF M!HeardInv
<1> QED
  BY <1>7, <1>8, <1>9, <1>14, <1>15, <1>16, <1>17 DEF M!IInv

\* No SUBSCRIBE is sent, and no reply: what is on its way is still so, some of
\* it nearer.
LEMMA NumberShift ==
  ASSUME M!QueueType, M!NumberInv, NEW m \in 0..1, NEW k \in 0..1, sent' = sent,
         \A i \in DOMAIN commands' :
            i \in Nat /\ (commands'[i].type = "subscribe" =>
                            i + m \in DOMAIN commands /\ commands'[i] = commands[i + m]),
         \A i \in DOMAIN channelReplies' :
            i \in Nat /\ (channelReplies'[i].type # "message" =>
                            i + k \in DOMAIN channelReplies
                            /\ channelReplies'[i] = channelReplies[i + k])
  PROVE  M!NumberInv'
<1> USE DEF M!NumberInv
<1>1. (\A i \in DOMAIN commands : commands[i].type = "subscribe" => commands[i].number <= sent)'
  OBVIOUS
<1>2. (\A i, j \in DOMAIN commands :
          /\ i # j /\ commands[i].type = "subscribe" /\ commands[j].type = "subscribe"
          => commands[i].number # commands[j].number)'
  <2>1. \A i, j \in DOMAIN commands' : i # j => i + m # j + m
    OBVIOUS
  <2> QED
    BY <2>1
<1>3. (\A i \in DOMAIN channelReplies :
          channelReplies[i].type # "message" => channelReplies[i].number <= sent)'
  OBVIOUS
<1>4. (\A i, j \in DOMAIN channelReplies :
          /\ i # j /\ channelReplies[i].type # "message" /\ channelReplies[j].type # "message"
          => channelReplies[i].number # channelReplies[j].number)'
  <2>1. \A i, j \in DOMAIN channelReplies' : i # j => i + k # j + k
    OBVIOUS
  <2> QED
    BY <2>1
<1>5. (\A i \in DOMAIN commands : \A j \in DOMAIN channelReplies :
          commands[i].type = "subscribe" /\ channelReplies[j].type # "message" =>
              commands[i].number # channelReplies[j].number)'
  OBVIOUS
<1> QED
  BY <1>1, <1>2, <1>3, <1>4, <1>5

\* The replies are read, or left: no gap comes into being.
LEMMA OrderShift ==
  ASSUME M!QueueType, M!OrderInv, NEW k \in 0..1, UNCHANGED published,
         \A i \in DOMAIN channelReplies' :
            /\ i \in Nat /\ i + k \in DOMAIN channelReplies
            /\ channelReplies'[i] = channelReplies[i + k],
         \A i \in DOMAIN channelReplies : i \in Nat /\ (i > k => i - k \in DOMAIN channelReplies'),
         \A ch \in Channel : M!Connected(ch)' =>
            \/ M!Connected(ch)
            \/ /\ k = 1 /\ 1 \in DOMAIN channelReplies
               /\ channelReplies[1].channel = ch /\ channelReplies[1].type = "subscribe"
               /\ M!Awaited(channelReplies[1]),
         \A r \in M!Replies : M!Awaited(r)' => M!Awaited(r)
  PROVE  M!OrderInv'
<1>1. \A i \in DOMAIN channelReplies :
          channelReplies[i] \in M!Replies /\ channelReplies[i].channel \in Channel
  <2>1. \A i \in DOMAIN channelReplies : channelReplies[i] \in M!Replies
    BY DEF M!QueueType
  <2> QED
    BY <2>1 DEF M!Replies
<1>2. (\A i \in DOMAIN channelReplies : channelReplies[i].type = "message" =>
          channelReplies[i].number <= published[channelReplies[i].channel])'
  BY DEF M!OrderInv
<1>3. (\A i, j \in DOMAIN channelReplies :
          /\ i < j /\ channelReplies[i].type = "message"
          /\ M!IsMessage(j, channelReplies[i].channel)
          => channelReplies[i].number < channelReplies[j].number)'
  <2>1. \A i, j \in DOMAIN channelReplies' : i < j => i + k < j + k
    OBVIOUS
  <2> QED
    BY <2>1 DEF M!OrderInv, M!IsMessage
<1>4. ASSUME NEW i \in DOMAIN channelReplies', channelReplies'[i].type = "message",
             \/ M!Connected(channelReplies[i].channel)'
             \/ \E h \in DOMAIN channelReplies' :
                   /\ h < i /\ channelReplies'[h].channel = channelReplies'[i].channel
                   /\ channelReplies'[h].type = "subscribe" /\ M!Awaited(channelReplies[h])'
      PROVE  M!IsFollowed(i)'
  <2> DEFINE ch == channelReplies'[i].channel
  <2>1. PICK n : n = i + k
    OBVIOUS
  <2>2. n \in DOMAIN channelReplies /\ channelReplies[n] = channelReplies'[i] /\ ch \in Channel
    BY <1>1, <2>1
  <2>3. \/ M!Connected(ch)
        \/ \E h \in DOMAIN channelReplies :
              /\ h < n /\ channelReplies[h].channel = ch
              /\ channelReplies[h].type = "subscribe" /\ M!Awaited(channelReplies[h])
    <3>1. CASE \E h \in DOMAIN channelReplies' :
                   /\ h < i /\ channelReplies'[h].channel = ch
                   /\ channelReplies'[h].type = "subscribe" /\ M!Awaited(channelReplies[h])'
      <4>1. PICK h \in DOMAIN channelReplies' :
                   /\ h < i /\ channelReplies'[h].channel = ch
                   /\ channelReplies'[h].type = "subscribe" /\ M!Awaited(channelReplies[h])'
        BY <3>1
      <4>2. /\ h + k \in DOMAIN channelReplies /\ channelReplies[h + k] = channelReplies'[h]
            /\ h + k < n
        BY <2>1, <4>1
      <4>3. PICK r \in M!Replies : r = channelReplies'[h]
        BY <1>1, <4>2
      <4>4. M!Awaited(r)'
        BY <4>1, <4>3 DEF M!Awaited
      <4> QED
        BY <4>1, <4>2, <4>3, <4>4
    <3>2. CASE M!Connected(channelReplies[i].channel)'
      <4>1. PICK d \in Channel : d = ch
        BY <2>2
      <4>2. M!Connected(d)'
        BY <3>2, <4>1 DEF M!Connected
      <4>3. CASE M!Connected(d)
        BY <4>1, <4>3
      <4>4. CASE ~M!Connected(d)
        <5>1. /\ k = 1 /\ 1 \in DOMAIN channelReplies
              /\ channelReplies[1].channel = ch /\ channelReplies[1].type = "subscribe"
              /\ M!Awaited(channelReplies[1])
          BY <4>1, <4>2, <4>4
        <5>2. 1 < n
          <6>1. n # 1
            BY <1>4, <2>2, <5>1
          <6>2. n >= 1
            BY <2>1, <5>1
          <6> QED
            BY <2>1, <6>1, <6>2
        <5> QED
          BY <5>1, <5>2
      <4> QED
        BY <4>3, <4>4
    <3> QED
      BY <1>4, <3>1, <3>2
  <2>4. M!IsFollowed(n)
    BY <1>4, <2>2, <2>3 DEF M!OrderInv
  <2>5. CASE channelReplies[n].number = published[ch]
    BY <2>2, <2>5 DEF M!IsFollowed
  <2>6. ASSUME NEW j \in DOMAIN channelReplies, j > n, M!IsMessage(j, ch),
               channelReplies[j].number = channelReplies[n].number + 1
        PROVE  M!IsFollowed(i)'
    <3>1. j - k \in DOMAIN channelReplies' /\ j - k > i /\ (j - k) + k = j
      BY <2>1, <2>6
    <3>2. channelReplies'[j - k] = channelReplies[j]
      BY <3>1
    <3> QED
      BY <2>2, <2>6, <3>1, <3>2 DEF M!IsFollowed, M!IsMessage
  <2> QED
    BY <2>2, <2>4, <2>5, <2>6 DEF M!IsFollowed
<1> QED
  BY <1>2, <1>3, <1>4 DEF M!OrderInv

\* Which replies are on their way, those for one channel, when one that nobody
\* waits for on that channel is read.
LEMMA ReplyShift ==
  ASSUME M!QueueType, NEW k \in 0..1, NEW d, link'[d] = link[d],
         \A i \in DOMAIN channelReplies' :
            /\ i \in Nat /\ i + k \in DOMAIN channelReplies
            /\ channelReplies'[i] = channelReplies[i + k],
         \A i \in DOMAIN channelReplies :
            i \in Nat /\ i >= 1 /\ (i > k => i - k \in DOMAIN channelReplies'),
         k = 1 => \/ channelReplies[1].channel # d \/ channelReplies[1].type = "message"
                  \/ ~M!Awaited(channelReplies[1])
  PROVE  \A t \in {"subscribe", "refused"} : M!HasReply(d, t)' <=> M!HasReply(d, t)
<1>1. ASSUME NEW t \in {"subscribe", "refused"}, M!HasReply(d, t)' PROVE M!HasReply(d, t)
  <2>1. PICK i \in DOMAIN channelReplies' :
            /\ channelReplies'[i].channel = d /\ channelReplies'[i].type = t
            /\ link'[d] = [at |-> "subscribing", number |-> channelReplies'[i].number]
    BY <1>1 DEF M!HasReply, M!Awaited
  <2>2. i + k \in DOMAIN channelReplies /\ channelReplies[i + k] = channelReplies'[i]
    OBVIOUS
  <2>3. PICK n : n = i + k
    OBVIOUS
  <2>4. /\ n \in DOMAIN channelReplies
        /\ channelReplies[n].channel = d /\ channelReplies[n].type = t
        /\ link[d] = [at |-> "subscribing", number |-> channelReplies[n].number]
    BY <2>1, <2>2, <2>3
  <2>5. M!Awaited(channelReplies[n])
    BY <2>4 DEF M!Awaited
  <2> QED
    BY <2>4, <2>5 DEF M!HasReply
<1>2. ASSUME NEW t \in {"subscribe", "refused"}, M!HasReply(d, t) PROVE M!HasReply(d, t)'
  <2>1. PICK i \in DOMAIN channelReplies :
            /\ channelReplies[i].channel = d /\ channelReplies[i].type = t
            /\ M!Awaited(channelReplies[i])
    BY <1>2 DEF M!HasReply
  <2>2. i > k
    <3>1. ~(k = 1 /\ i = 1)
      BY <2>1
    <3> QED
      BY <3>1
  <2>3. i - k \in DOMAIN channelReplies' /\ (i - k) + k = i
    BY <2>2
  <2>4. channelReplies'[i - k] = channelReplies[i]
    BY <2>3
  <2> QED
    BY <2>1, <2>3, <2>4 DEF M!HasReply, M!Awaited
<1> QED
  BY <1>1, <1>2

\* Nobody hears anything, and what is read is no message.
LEMMA HeardShift ==
  ASSUME M!QueueType, M!HeardInv, NEW k \in 0..1, UNCHANGED <<published, heard>>,
         \A d \in Channel : observers'[d] \subseteq observers[d],
         \A d \in Channel : observers'[d] # {} /\ link[d].at = "up" => link'[d].at = "up",
         \A i \in DOMAIN channelReplies' :
            /\ i \in Nat /\ i + k \in DOMAIN channelReplies
            /\ channelReplies'[i] = channelReplies[i + k],
         \A i \in DOMAIN channelReplies :
            i \in Nat /\ i >= 1 /\ (i > k => i - k \in DOMAIN channelReplies'),
         k = 1 => channelReplies[1].type # "message"
  PROVE  M!HeardInv'
<1>1. (\A o \in Observer : \A j \in DOMAIN heard[o] : j > 1 => heard[o][j] = heard[o][j - 1] + 1)'
  BY DEF M!HeardInv
<1>2. ASSUME NEW d \in Channel, NEW o \in observers'[d], heard'[o] # <<>>
      PROVE  /\ link'[d].at = "up"
             /\ M!Heard(o)' = published'[d] \/ \E i \in DOMAIN channelReplies' :
                    M!IsMessage(i, d)' /\ channelReplies'[i].number = M!Heard(o)' + 1
             /\ \A i \in DOMAIN channelReplies' :
                    M!IsMessage(i, d)' => channelReplies'[i].number > M!Heard(o)'
  <2>1. o \in observers[d] /\ heard[o] # <<>> /\ M!Heard(o)' = M!Heard(o)
    BY <1>2 DEF M!Heard
  <2>2. /\ link[d].at = "up"
        /\ M!Heard(o) = published[d] \/ \E i \in DOMAIN channelReplies :
               M!IsMessage(i, d) /\ channelReplies[i].number = M!Heard(o) + 1
        /\ \A i \in DOMAIN channelReplies :
               M!IsMessage(i, d) => channelReplies[i].number > M!Heard(o)
    BY <2>1 DEF M!HeardInv
  <2>3. \A i \in DOMAIN channelReplies' :
            i + k \in DOMAIN channelReplies /\ (M!IsMessage(i, d)' <=> M!IsMessage(i + k, d))
    BY DEF M!IsMessage
  <2>4. ASSUME NEW i \in DOMAIN channelReplies, M!IsMessage(i, d)
        PROVE  /\ i - k \in DOMAIN channelReplies' /\ M!IsMessage(i - k, d)'
               /\ channelReplies'[i - k] = channelReplies[i]
    <3>1. i > k
      BY <2>4 DEF M!IsMessage
    <3>2. i - k \in DOMAIN channelReplies' /\ (i - k) + k = i
      BY <3>1
    <3>3. channelReplies'[i - k] = channelReplies[i]
      BY <3>2
    <3> QED
      BY <2>4, <3>2, <3>3 DEF M!IsMessage
  <2>5. link'[d].at = "up"
    BY <1>2, <2>2
  <2>6. M!Heard(o)' = published'[d] \/ \E i \in DOMAIN channelReplies' :
                    M!IsMessage(i, d)' /\ channelReplies'[i].number = M!Heard(o)' + 1
    BY <2>1, <2>2, <2>4
  <2>7. \A i \in DOMAIN channelReplies' :
                    M!IsMessage(i, d)' => channelReplies'[i].number > M!Heard(o)'
    BY <2>1, <2>2, <2>3
  <2> QED
    BY <2>5, <2>6, <2>7
<1> QED
  BY <1>1, <1>2 DEF M!HeardInv

\* A reply is read.
LEMMA ReplyRead ==
  ASSUME M!QueueType, channelReplies # <<>>, channelReplies' = Tail(channelReplies)
  PROVE  /\ channelReplies' \in Seq(M!Replies)
         /\ 1 \in DOMAIN channelReplies /\ Head(channelReplies) = channelReplies[1]
         /\ channelReplies[1] \in M!Replies
         /\ \A i \in DOMAIN channelReplies' :
               /\ i \in Nat /\ i + 1 \in DOMAIN channelReplies
               /\ channelReplies'[i] = channelReplies[i + 1]
         /\ \A i \in DOMAIN channelReplies :
               i \in Nat /\ i >= 1 /\ (i > 1 => i - 1 \in DOMAIN channelReplies')
<1>1. channelReplies \in Seq(M!Replies)
  BY DEF M!QueueType
<1>2. /\ Tail(channelReplies) \in Seq(M!Replies)
      /\ DOMAIN channelReplies = 1..Len(channelReplies) /\ Len(channelReplies) \in Nat
      /\ Len(channelReplies) >= 1
      /\ DOMAIN Tail(channelReplies) = 1..(Len(channelReplies) - 1)
      /\ \A i \in 1..(Len(channelReplies) - 1) : Tail(channelReplies)[i] = channelReplies[i + 1]
      /\ Head(channelReplies) = channelReplies[1]
  BY <1>1, TailIndices
<1>3. 1 \in DOMAIN channelReplies
  BY <1>2
<1> QED
  BY <1>1, <1>2, <1>3

\* The replies stay.
LEMMA RepliesKept ==
  ASSUME M!QueueType, UNCHANGED channelReplies
  PROVE  /\ channelReplies' \in Seq(M!Replies)
         /\ \A i \in DOMAIN channelReplies' :
               /\ i \in Nat /\ i + 0 \in DOMAIN channelReplies
               /\ channelReplies'[i] = channelReplies[i + 0]
         /\ \A i \in DOMAIN channelReplies :
               i \in Nat /\ i >= 1 /\ (i > 0 => i - 0 \in DOMAIN channelReplies')
<1>1. channelReplies \in Seq(M!Replies)
  BY DEF M!QueueType
<1>2. DOMAIN channelReplies = 1..Len(channelReplies) /\ Len(channelReplies) \in Nat
  BY <1>1
<1>3. \A i \in DOMAIN channelReplies : i \in Nat /\ i >= 1 /\ i + 0 = i /\ i - 0 = i
  BY <1>2
<1> QED
  BY <1>1, <1>3

\* The commands stay, and the link does what it does.
LEMMA CommandsKept ==
  ASSUME M!QueueType, UNCHANGED commands
  PROVE  /\ commands' \in Seq(M!Commands)
         /\ \A i \in DOMAIN commands' : i \in Nat /\ i + 0 = i
         /\ \A i \in DOMAIN commands : commands[i] \in M!Commands
         /\ \A i : M!IsLast(i)' <=> M!IsLast(i)
         /\ \A d : M!NoCommand(d)' <=> M!NoCommand(d)
<1>1. commands \in Seq(M!Commands)
  BY DEF M!QueueType
<1>2. DOMAIN commands = 1..Len(commands) /\ Len(commands) \in Nat
  BY <1>1
<1> QED
  BY <1>1, <1>2 DEF M!IsLast, M!NoCommand

\* The observable of a channel is torn down: its last observer left, or the reply
\* that it waited for is a refusal.
LEMMA TeardownStep ==
  ASSUME M!IInv, NEW ch \in Channel, NEW k \in 0..1,
         observers' = [observers EXCEPT ![ch] = {}],
         link' = [link EXCEPT ![ch] = M!Down],
         commands' = Append(commands, M!Unsubscribe(ch)),
         UNCHANGED <<subscribed, sent, published, heard>>,
         channelReplies' \in Seq(M!Replies),
         \A i \in DOMAIN channelReplies' :
            /\ i \in Nat /\ i + k \in DOMAIN channelReplies
            /\ channelReplies'[i] = channelReplies[i + k],
         \A i \in DOMAIN channelReplies :
            i \in Nat /\ i >= 1 /\ (i > k => i - k \in DOMAIN channelReplies'),
         k = 1 => channelReplies[1].type = "refused" /\ channelReplies[1].channel = ch
  PROVE  M!IInv'
<1> DEFINE cmd == M!Unsubscribe(ch)
<1>1. M!TypeOK /\ M!LinkInv /\ M!NumberInv /\ M!CommandInv /\ M!ConnectedInv /\ M!OrderInv
      /\ M!HeardInv
  BY DEF M!IInv
<1>2. cmd.type = "unsubscribe" /\ cmd.channel = ch /\ cmd \in M!Commands
  BY DEF M!Unsubscribe, M!Commands
<1>3. M!QueueType
  BY <1>1 DEF M!TypeOK
<1> HIDE DEF cmd
<1>0. PICK n \in Nat : n = Len(commands) + 1
  BY <1>3 DEF M!QueueType
<1>4. /\ commands' \in Seq(M!Commands)
      /\ DOMAIN commands = 1..Len(commands) /\ Len(commands) \in Nat /\ DOMAIN commands' = 1..n
      /\ \A i \in DOMAIN commands : commands'[i] = commands[i] /\ commands[i] \in M!Commands
      /\ commands'[n] = cmd
      /\ \A i \in DOMAIN commands : M!IsLast(i)' <=> M!IsLast(i) /\ commands[i].channel # ch
      /\ \A d : M!NoCommand(d)' <=> M!NoCommand(d) /\ d # ch
  BY <1>0, <1>2, <1>3, CommandSent DEF cmd
<1>5. \A i \in DOMAIN commands' : commands'[i].type = "subscribe" => i \in DOMAIN commands
  <2>1. \A i \in DOMAIN commands' : i \in DOMAIN commands \/ i = n
    BY <1>0, <1>4
  <2> QED
    BY <1>2, <1>4, <2>1
<1>6. \A d \in Channel : d # ch => link'[d] = link[d] /\ observers'[d] = observers[d]
  BY <1>1 DEF M!TypeOK, M!LinkType
<1>7. link'[ch].at = "down" /\ observers'[ch] = {}
  BY <1>1 DEF M!TypeOK, M!LinkType, M!Down
<1>8. M!TypeOK'
  <2>1. M!LinkType'
    BY <1>1 DEF M!TypeOK, M!LinkType, M!Down
  <2>2. M!QueueType'
    BY <1>3, <1>4 DEF M!QueueType, M!Commands, M!Replies
  <2>3. M!MessageType'
    BY <1>1 DEF M!TypeOK, M!MessageType
  <2> QED
    BY <2>1, <2>2, <2>3 DEF M!TypeOK
<1>9. M!LinkInv'
  BY <1>1, <1>6, <1>7 DEF M!LinkInv
<1>10. M!NumberInv'
  <2>1. \A i \in DOMAIN commands' :
            i \in Nat /\ (commands'[i].type = "subscribe" =>
                            i + 0 \in DOMAIN commands /\ commands'[i] = commands[i + 0])
    BY <1>4, <1>5
  <2>2. 0 \in 0..1
    OBVIOUS
  <2>3. \A i \in DOMAIN channelReplies' :
            i \in Nat /\ (channelReplies'[i].type # "message" =>
                            i + k \in DOMAIN channelReplies
                            /\ channelReplies'[i] = channelReplies[i + k])
    OBVIOUS
  <2> HIDE DEF M!QueueType, M!NumberInv
  <2> QED
    BY <1>1, <1>3, <2>1, <2>2, <2>3, NumberShift
<1>11. \A r \in M!Replies \cup M!Commands :
          M!Awaited(r)' <=> M!Awaited(r) /\ r.channel # ch
  BY <1>6, <1>7 DEF M!Awaited, M!Replies, M!Commands
<1>12. \A d \in Channel : d # ch =>
          \A t \in {"subscribe", "refused"} : M!HasReply(d, t)' <=> M!HasReply(d, t)
  <2> SUFFICES ASSUME NEW d \in Channel, d # ch
               PROVE  \A t \in {"subscribe", "refused"} : M!HasReply(d, t)' <=> M!HasReply(d, t)
    OBVIOUS
  <2>1. link'[d] = link[d]
    BY <1>6
  <2>2. k = 1 => channelReplies[1].channel # d
    OBVIOUS
  <2> QED
    BY <1>3, <2>1, <2>2, ReplyShift
<1>13. M!CommandInv'
  <2>1. ASSUME NEW i \in DOMAIN commands', commands'[i].type = "subscribe"
        PROVE  M!IsLast(i)' <=> M!Awaited(commands[i])'
    <3>1. i \in DOMAIN commands /\ commands'[i] = commands[i] /\ commands[i] \in M!Commands
      BY <1>4, <1>5, <2>1
    <3>2. M!IsLast(i) <=> M!Awaited(commands[i])
      BY <1>1, <2>1, <3>1 DEF M!CommandInv
    <3>3. PICK r \in M!Commands : r = commands[i]
      BY <3>1
    <3>4. M!Awaited(commands[i])' <=> M!Awaited(r)'
      BY <3>1, <3>3 DEF M!Awaited
    <3> QED
      BY <1>4, <1>11, <3>1, <3>2, <3>3, <3>4
  <2>2. ASSUME NEW d \in Channel
        PROVE  /\ d \in subscribed' /\ M!NoCommand(d)' => link'[d].at # "down"
               /\ link'[d].at = "subscribing" =>
                     \/ \E i \in DOMAIN commands' :
                           /\ commands'[i].channel = d /\ commands'[i].type = "subscribe"
                           /\ M!Awaited(commands[i])'
                     \/ M!HasReply(d, "subscribe")' \/ M!HasReply(d, "refused")'
    <3>1. CASE d = ch
      BY <1>4, <1>7, <3>1
    <3>2. CASE d # ch
      <4>1. link'[d] = link[d]
        BY <1>6, <3>2
      <4>2. \A i \in DOMAIN commands : commands[i].channel = d =>
                i \in DOMAIN commands' /\ (M!Awaited(commands[i])' <=> M!Awaited(commands[i]))
        BY <1>0, <1>4, <4>1 DEF M!Awaited
      <4> QED
        BY <1>1, <1>4, <1>12, <3>2, <4>1, <4>2 DEF M!CommandInv
    <3> QED
      BY <3>1, <3>2
  <2> QED
    BY <2>1, <2>2 DEF M!CommandInv
<1>14. M!ConnectedInv'
  <2>1. ~M!HasReply(ch, "subscribe")' /\ ~M!Connected(ch)'
    <3>1. ~M!Connected(ch)'
      BY <1>7 DEF M!Connected
    <3>2. ASSUME M!HasReply(ch, "subscribe")' PROVE FALSE
      <4>1. PICK i \in DOMAIN channelReplies' :
                channelReplies'[i].channel = ch /\ M!Awaited(channelReplies[i])'
        BY <3>2 DEF M!HasReply
      <4>2. link'[ch] = [at |-> "subscribing", number |-> channelReplies'[i].number]
        BY <4>1 DEF M!Awaited
      <4> QED
        BY <1>7, <4>2
    <3> QED
      BY <3>1, <3>2
  <2>2. \A d \in Channel : d # ch => (M!Connected(d)' <=> M!Connected(d))
    BY <1>6 DEF M!Connected
  <2>3. ASSUME NEW d \in Channel, M!Connected(d)' \/ M!HasReply(d, "subscribe")'
        PROVE  d \in subscribed' /\ M!NoCommand(d)'
    <3>1. d # ch
      BY <2>1, <2>3
    <3>2. M!Connected(d) \/ M!HasReply(d, "subscribe")
      BY <1>12, <2>2, <2>3, <3>1
    <3> QED
      BY <1>1, <1>4, <3>1, <3>2 DEF M!ConnectedInv
  <2> QED
    BY <2>3 DEF M!ConnectedInv
<1>15. M!OrderInv'
  <2>1. \A d \in Channel : M!Connected(d)' => M!Connected(d)
    BY <1>6, <1>7 DEF M!Connected
  <2>2. \A r \in M!Replies : M!Awaited(r)' => M!Awaited(r)
    BY <1>11
  <2>3. \A i \in DOMAIN channelReplies : i \in Nat /\ (i > k => i - k \in DOMAIN channelReplies')
    OBVIOUS
  <2> QED
    BY <1>1, <1>3, <2>1, <2>2, <2>3, OrderShift
<1>16. M!HeardInv'
  <2>1. \A d \in Channel : observers'[d] \subseteq observers[d]
    BY <1>6, <1>7
  <2>2. \A d \in Channel : observers'[d] # {} /\ link[d].at = "up" => link'[d].at = "up"
    BY <1>6, <1>7
  <2>3. k = 1 => channelReplies[1].type # "message"
    OBVIOUS
  <2> QED
    BY <1>1, <1>3, <2>1, <2>2, <2>3, HeardShift
<1> QED
  BY <1>8, <1>9, <1>10, <1>13, <1>14, <1>15, <1>16 DEF M!IInv

\* The observers, the links and the commands stay; a reply that nobody waits for
\* may be read, other than a message.
LEMMA IgnoredStep ==
  ASSUME M!IInv, channelReplies # <<>>, channelReplies' = Tail(channelReplies),
         channelReplies[1].type # "message", ~M!Awaited(channelReplies[1]),
         UNCHANGED <<observers, link, commands, subscribed, sent, published, heard>>
  PROVE  M!IInv'
<1>1. M!TypeOK /\ M!LinkInv /\ M!NumberInv /\ M!CommandInv /\ M!ConnectedInv /\ M!OrderInv
      /\ M!HeardInv /\ M!QueueType
  BY DEF M!IInv, M!TypeOK
<1>2. /\ channelReplies' \in Seq(M!Replies)
      /\ \A i \in DOMAIN channelReplies' :
               /\ i \in Nat /\ i + 1 \in DOMAIN channelReplies
               /\ channelReplies'[i] = channelReplies[i + 1]
      /\ \A i \in DOMAIN channelReplies :
               i \in Nat /\ i >= 1 /\ (i > 1 => i - 1 \in DOMAIN channelReplies')
  BY <1>1, ReplyRead
<1>3. 1 \in 0..1 /\ 0 \in 0..1
  OBVIOUS
<1>4. \A d : \A t \in {"subscribe", "refused"} : M!HasReply(d, t)' <=> M!HasReply(d, t)
  <2> SUFFICES ASSUME NEW d
               PROVE  \A t \in {"subscribe", "refused"} : M!HasReply(d, t)' <=> M!HasReply(d, t)
    OBVIOUS
  <2> QED
    BY <1>1, <1>2, <1>3, ReplyShift
<1>5. /\ \A i \in DOMAIN commands' : i \in Nat /\ i + 0 = i
      /\ \A i : M!IsLast(i)' <=> M!IsLast(i)
      /\ \A d : M!NoCommand(d)' <=> M!NoCommand(d)
  BY <1>1, CommandsKept
<1>6. M!TypeOK'
  BY <1>1, <1>2 DEF M!TypeOK, M!LinkType, M!QueueType, M!MessageType, M!Commands, M!Replies
<1>7. M!LinkInv'
  BY <1>1 DEF M!LinkInv
<1>8. M!NumberInv'
  BY <1>1, <1>2, <1>3, <1>5, NumberShift
<1>9. M!CommandInv'
  BY <1>1, <1>4, <1>5 DEF M!CommandInv, M!Awaited
<1>10. M!ConnectedInv'
  BY <1>1, <1>4, <1>5 DEF M!ConnectedInv, M!Connected
<1>11. M!OrderInv'
  <2>1. \A d \in Channel : M!Connected(d)' => M!Connected(d)
    BY DEF M!Connected
  <2>2. \A r \in M!Replies : M!Awaited(r)' => M!Awaited(r)
    BY DEF M!Awaited
  <2> QED
    BY <1>1, <1>2, <1>3, <2>1, <2>2, OrderShift
<1>12. M!HeardInv'
  BY <1>1, <1>2, <1>3, HeardShift
<1> QED
  BY <1>6, <1>7, <1>8, <1>9, <1>10, <1>11, <1>12 DEF M!IInv

\* The reply that an observable waits for.
LEMMA ResolvedStep ==
  ASSUME M!IInv, channelReplies # <<>>, channelReplies' = Tail(channelReplies),
         channelReplies[1].type = "subscribe", M!Awaited(channelReplies[1]),
         link' = [link EXCEPT ![channelReplies[1].channel].at = "resolved"],
         UNCHANGED <<observers, commands, subscribed, sent, published, heard>>
  PROVE  M!IInv'
<1>1. M!TypeOK /\ M!LinkInv /\ M!NumberInv /\ M!CommandInv /\ M!ConnectedInv /\ M!OrderInv
      /\ M!HeardInv /\ M!QueueType
  BY DEF M!IInv, M!TypeOK
<1>2. /\ channelReplies' \in Seq(M!Replies) /\ 1 \in DOMAIN channelReplies
      /\ channelReplies[1] \in M!Replies
      /\ \A i \in DOMAIN channelReplies' :
               /\ i \in Nat /\ i + 1 \in DOMAIN channelReplies
               /\ channelReplies'[i] = channelReplies[i + 1]
      /\ \A i \in DOMAIN channelReplies :
               i \in Nat /\ i >= 1 /\ (i > 1 => i - 1 \in DOMAIN channelReplies')
  BY <1>1, ReplyRead
<1>3. 1 \in 0..1 /\ 0 \in 0..1
  OBVIOUS
<1>4. PICK ch \in Channel : ch = channelReplies[1].channel
  BY <1>2 DEF M!Replies
<1>5. link[ch].at = "subscribing" /\ link[ch].number = channelReplies[1].number
  BY <1>4, AwaitedAt
<1>6. /\ link'[ch].at = "resolved" /\ \A d \in Channel : d # ch => link'[d] = link[d]
      /\ link' \in [Channel -> [at : {"down", "subscribing", "resolved", "up"}, number : Nat]]
  BY <1>1, <1>4 DEF M!TypeOK, M!LinkType
<1>7. /\ \A i \in DOMAIN commands' : i \in Nat /\ i + 0 = i
      /\ \A i \in DOMAIN commands : commands[i] \in M!Commands
      /\ \A i : M!IsLast(i)' <=> M!IsLast(i)
      /\ \A d : M!NoCommand(d)' <=> M!NoCommand(d)
  BY <1>1, CommandsKept
<1>8. \A r \in M!Replies \cup M!Commands :
          M!Awaited(r)' <=> M!Awaited(r) /\ r.channel # ch
  BY <1>6 DEF M!Awaited, M!Replies, M!Commands
<1>9. \A d \in Channel : d # ch =>
          \A t \in {"subscribe", "refused"} : M!HasReply(d, t)' <=> M!HasReply(d, t)
  <2> SUFFICES ASSUME NEW d \in Channel, d # ch
               PROVE  \A t \in {"subscribe", "refused"} : M!HasReply(d, t)' <=> M!HasReply(d, t)
    OBVIOUS
  <2>1. link'[d] = link[d]
    BY <1>6
  <2>2. channelReplies[1].channel # d
    BY <1>4
  <2> QED
    BY <1>1, <1>2, <1>3, <2>1, <2>2, ReplyShift
<1>10. M!TypeOK'
  BY <1>1, <1>2, <1>6 DEF M!TypeOK, M!LinkType, M!QueueType, M!MessageType, M!Commands, M!Replies
<1>11. M!LinkInv'
  BY <1>1, <1>5, <1>6 DEF M!LinkInv
<1>12. M!NumberInv'
  BY <1>1, <1>2, <1>3, <1>7, NumberShift
<1>13. M!ConnectedInv'
  <2>1. M!HasReply(ch, "subscribe")
    BY <1>2, <1>4 DEF M!HasReply
  <2>2. \A d \in Channel : d # ch => (M!Connected(d)' <=> M!Connected(d))
    BY <1>6 DEF M!Connected
  <2>3. ch \in subscribed' /\ M!NoCommand(ch)'
    BY <1>1, <1>7, <2>1 DEF M!ConnectedInv
  <2>4. ASSUME NEW d \in Channel, d # ch, M!Connected(d)' \/ M!HasReply(d, "subscribe")'
        PROVE  d \in subscribed' /\ M!NoCommand(d)'
    <3>1. M!Connected(d) \/ M!HasReply(d, "subscribe")
      BY <1>9, <2>2, <2>4
    <3> QED
      BY <1>1, <1>7, <3>1 DEF M!ConnectedInv
  <2> QED
    BY <2>3, <2>4 DEF M!ConnectedInv
<1>14. M!CommandInv'
  <2>1. ASSUME NEW i \in DOMAIN commands', commands'[i].type = "subscribe"
        PROVE  M!IsLast(i)' <=> M!Awaited(commands[i])'
    <3>1. PICK r \in M!Commands : r = commands[i] /\ i \in DOMAIN commands
      BY <1>7
    <3>2. M!IsLast(i) <=> M!Awaited(r)
      BY <1>1, <2>1, <3>1 DEF M!CommandInv
    <3>3. M!Awaited(commands[i])' <=> M!Awaited(r)'
      BY <3>1 DEF M!Awaited
    <3>4. r.number # channelReplies[1].number
      BY <1>1, <1>2, <2>1, <3>1 DEF M!NumberInv
    <3>5. r.channel = ch => ~M!Awaited(r)
      BY <1>5, <3>4, AwaitedAt
    <3> QED
      BY <1>7, <1>8, <3>2, <3>3, <3>5
  <2>2. ASSUME NEW d \in Channel
        PROVE  /\ d \in subscribed' /\ M!NoCommand(d)' => link'[d].at # "down"
               /\ link'[d].at = "subscribing" =>
                     \/ \E i \in DOMAIN commands' :
                           /\ commands'[i].channel = d /\ commands'[i].type = "subscribe"
                           /\ M!Awaited(commands[i])'
                     \/ M!HasReply(d, "subscribe")' \/ M!HasReply(d, "refused")'
    <3>1. CASE d = ch
      BY <1>6, <3>1
    <3>2. CASE d # ch
      <4>1. link'[d] = link[d]
        BY <1>6, <3>2
      <4>2. \A i \in DOMAIN commands : commands[i].channel = d =>
                i \in DOMAIN commands' /\ (M!Awaited(commands[i])' <=> M!Awaited(commands[i]))
        BY <4>1 DEF M!Awaited
      <4> QED
        BY <1>1, <1>7, <1>9, <3>2, <4>1, <4>2 DEF M!CommandInv
    <3> QED
      BY <3>1, <3>2
  <2> QED
    BY <2>1, <2>2 DEF M!CommandInv
<1>15. M!OrderInv'
  <2>1. \A d \in Channel : M!Connected(d)' =>
            \/ M!Connected(d)
            \/ /\ 1 = 1 /\ 1 \in DOMAIN channelReplies
               /\ channelReplies[1].channel = d /\ channelReplies[1].type = "subscribe"
               /\ M!Awaited(channelReplies[1])
    BY <1>2, <1>4, <1>6 DEF M!Connected
  <2>2. \A r \in M!Replies : M!Awaited(r)' => M!Awaited(r)
    BY <1>8
  <2> QED
    BY <1>1, <1>2, <1>3, <2>1, <2>2, OrderShift
<1>16. M!HeardInv'
  <2>1. \A d \in Channel : observers'[d] # {} /\ link[d].at = "up" => link'[d].at = "up"
    BY <1>5, <1>6
  <2> QED
    BY <1>1, <1>2, <1>3, <2>1, HeardShift
<1> QED
  BY <1>10, <1>11, <1>12, <1>13, <1>14, <1>15, <1>16 DEF M!IInv

\* Another observer of a channel.
LEMMA OtherObserverStep ==
  ASSUME M!IInv, NEW o \in Observer, M!Observe(o), observers[ChannelOf[o]] # {}
  PROVE  M!IInv'
<1> DEFINE ch == ChannelOf[o]
<1>1. M!TypeOK /\ M!LinkInv /\ M!NumberInv /\ M!CommandInv /\ M!ConnectedInv /\ M!OrderInv
      /\ M!HeardInv /\ M!QueueType
  BY DEF M!IInv, M!TypeOK
<1>2. ch \in Channel
  BY ChannelAssumption
<1>3. /\ observers' = [observers EXCEPT ![ch] = @ \cup {o}]
      /\ heard' = [heard EXCEPT ![o] = <<>>]
      /\ UNCHANGED <<sent, commands, link, channelReplies, subscribed, published>>
  BY DEF M!Observe
<1>4. M!TypeOK'
  BY <1>1, <1>2, <1>3
     DEF M!TypeOK, M!LinkType, M!QueueType, M!MessageType, M!Commands, M!Replies, ch
<1>5. M!LinkInv'
  <2>1. \A d \in Channel : observers'[d] # {} <=> observers[d] # {}
    BY <1>1, <1>2, <1>3 DEF M!TypeOK, M!LinkType
  <2> QED
    BY <1>1, <1>3, <2>1 DEF M!LinkInv
<1>6. M!NumberInv'
  BY <1>1, <1>3 DEF M!NumberInv
<1>7. M!CommandInv'
  BY <1>1, <1>3 DEF M!CommandInv, M!IsLast, M!NoCommand, M!HasReply, M!Awaited
<1>8. M!ConnectedInv'
  BY <1>1, <1>3 DEF M!ConnectedInv, M!Connected, M!NoCommand, M!HasReply, M!Awaited
<1>9. M!OrderInv'
  BY <1>1, <1>3 DEF M!OrderInv, M!Connected, M!IsMessage, M!IsFollowed, M!Awaited
<1>10. M!HeardInv'
  <2>1. heard'[o] = <<>> /\ \A p \in Observer : p # o => heard'[p] = heard[p]
    BY <1>1, <1>3 DEF M!TypeOK, M!MessageType
  <2>2. \A d \in Channel : \A p \in observers'[d] : p # o => p \in observers[d] /\ p \in Observer
    BY <1>1, <1>2, <1>3 DEF M!TypeOK, M!LinkType
  <2>3. (\A p \in Observer : \A k \in DOMAIN heard[p] : k > 1 => heard[p][k] = heard[p][k - 1] + 1)'
    BY <1>1, <2>1 DEF M!HeardInv
  <2>4. ASSUME NEW d \in Channel, NEW p \in observers'[d], heard'[p] # <<>>
        PROVE  /\ link'[d].at = "up"
               /\ M!Heard(p)' = published'[d] \/ \E i \in DOMAIN channelReplies' :
                      M!IsMessage(i, d)' /\ channelReplies'[i].number = M!Heard(p)' + 1
               /\ \A i \in DOMAIN channelReplies' :
                      M!IsMessage(i, d)' => channelReplies'[i].number > M!Heard(p)'
    <3>1. p \in observers[d] /\ heard'[p] = heard[p] /\ M!Heard(p)' = M!Heard(p)
      BY <2>1, <2>2, <2>4 DEF M!Heard
    <3>2. \A i : M!IsMessage(i, d)' <=> M!IsMessage(i, d)
      BY <1>3 DEF M!IsMessage
    <3> QED
      BY <1>1, <1>3, <2>4, <3>1, <3>2 DEF M!HeardInv
  <2> QED
    BY <2>3, <2>4 DEF M!HeardInv
<1> QED
  BY <1>4, <1>5, <1>6, <1>7, <1>8, <1>9, <1>10 DEF M!IInv

\* An observer that is not the only one leaves.
LEMMA OtherLeavesStep ==
  ASSUME M!IInv, NEW o \in Observer, M!Leave(o), observers[ChannelOf[o]] # {o}
  PROVE  M!IInv'
<1> DEFINE ch == ChannelOf[o]
<1>1. M!TypeOK /\ M!LinkInv /\ M!NumberInv /\ M!CommandInv /\ M!ConnectedInv /\ M!OrderInv
      /\ M!HeardInv /\ M!QueueType
  BY DEF M!IInv, M!TypeOK
<1>2. ch \in Channel
  BY ChannelAssumption
<1>3. /\ observers' = [observers EXCEPT ![ch] = @ \ {o}]
      /\ o \in observers[ch] /\ observers[ch] # {o}
      /\ UNCHANGED <<sent, commands, link, channelReplies, subscribed, published, heard>>
  BY DEF M!Leave
<1>4. M!TypeOK'
  BY <1>1, <1>2, <1>3 DEF M!TypeOK, M!LinkType, M!QueueType, M!MessageType, M!Commands, M!Replies
<1>5. M!LinkInv'
  <2>1. \A d \in Channel : observers'[d] # {} <=> observers[d] # {}
    BY <1>1, <1>2, <1>3 DEF M!TypeOK, M!LinkType
  <2> QED
    BY <1>1, <1>3, <2>1 DEF M!LinkInv
<1>6. M!NumberInv'
  BY <1>1, <1>3 DEF M!NumberInv
<1>7. M!CommandInv'
  BY <1>1, <1>3 DEF M!CommandInv, M!IsLast, M!NoCommand, M!HasReply, M!Awaited
<1>8. M!ConnectedInv'
  BY <1>1, <1>3 DEF M!ConnectedInv, M!Connected, M!NoCommand, M!HasReply, M!Awaited
<1>9. M!OrderInv'
  BY <1>1, <1>3 DEF M!OrderInv, M!Connected, M!IsMessage, M!IsFollowed, M!Awaited
<1>10. M!HeardInv'
  <2>1. \A d \in Channel : observers'[d] \subseteq observers[d]
    BY <1>1, <1>2, <1>3 DEF M!TypeOK, M!LinkType
  <2>2. \A d \in Channel : observers'[d] # {} /\ link[d].at = "up" => link'[d].at = "up"
    BY <1>3
  <2>3. /\ \A i \in DOMAIN channelReplies' :
               /\ i \in Nat /\ i + 0 \in DOMAIN channelReplies
               /\ channelReplies'[i] = channelReplies[i + 0]
        /\ \A i \in DOMAIN channelReplies :
               i \in Nat /\ i >= 1 /\ (i > 0 => i - 0 \in DOMAIN channelReplies')
    BY <1>1, <1>3, RepliesKept
  <2>4. 0 \in 0..1 /\ 0 # 1
    OBVIOUS
  <2> QED
    BY <1>1, <1>3, <2>1, <2>2, <2>3, <2>4, HeardShift
<1> QED
  BY <1>4, <1>5, <1>6, <1>7, <1>8, <1>9, <1>10 DEF M!IInv

\* The last observer leaves.
LEMMA LastLeavesStep ==
  ASSUME M!IInv, NEW o \in Observer, M!Leave(o), observers[ChannelOf[o]] = {o}
  PROVE  M!IInv'
<1>1. M!QueueType
  BY DEF M!IInv, M!TypeOK
<1>2. PICK ch \in Channel : ch = ChannelOf[o]
  BY ChannelAssumption
<1>3. {o} \ {o} = {}
  OBVIOUS
<1>4. /\ observers' = [observers EXCEPT ![ch] = {}]
      /\ link' = [link EXCEPT ![ch] = M!Down]
      /\ commands' = Append(commands, M!Unsubscribe(ch))
      /\ UNCHANGED <<channelReplies, subscribed, sent, published, heard>>
  BY <1>2, <1>3 DEF M!Leave, M!Teardown
<1>5. /\ channelReplies' \in Seq(M!Replies)
      /\ \A i \in DOMAIN channelReplies' :
               /\ i \in Nat /\ i + 0 \in DOMAIN channelReplies
               /\ channelReplies'[i] = channelReplies[i + 0]
      /\ \A i \in DOMAIN channelReplies :
               i \in Nat /\ i >= 1 /\ (i > 0 => i - 0 \in DOMAIN channelReplies')
  BY <1>1, <1>4, RepliesKept
<1>6. 0 \in 0..1 /\ 0 # 1
  OBVIOUS
<1> QED
  BY <1>4, <1>5, <1>6, TeardownStep

\* A refusal is read.
LEMMA RejectsStep ==
  ASSUME M!IInv, M!ReplyRejects
  PROVE  M!IInv'
<1>1. M!QueueType
  BY DEF M!IInv, M!TypeOK
<1>2. /\ channelReplies # <<>> /\ channelReplies' = Tail(channelReplies)
      /\ Head(channelReplies).type = "refused"
      /\ UNCHANGED <<subscribed, sent, published, heard>>
  BY DEF M!ReplyRejects, M!Handled, M!Reply
<1>3. /\ channelReplies' \in Seq(M!Replies)
      /\ Head(channelReplies) = channelReplies[1] /\ channelReplies[1] \in M!Replies
      /\ \A i \in DOMAIN channelReplies' :
               /\ i \in Nat /\ i + 1 \in DOMAIN channelReplies
               /\ channelReplies'[i] = channelReplies[i + 1]
      /\ \A i \in DOMAIN channelReplies :
               i \in Nat /\ i >= 1 /\ (i > 1 => i - 1 \in DOMAIN channelReplies')
  BY <1>1, <1>2, ReplyRead
<1>4. CASE M!Awaited(channelReplies[1])
  <2>1. PICK ch \in Channel : ch = channelReplies[1].channel
    BY <1>3 DEF M!Replies
  <2>2. /\ observers' = [observers EXCEPT ![ch] = {}]
        /\ link' = [link EXCEPT ![ch] = M!Down]
        /\ commands' = Append(commands, M!Unsubscribe(ch))
    BY <1>3, <1>4, <2>1 DEF M!ReplyRejects, M!Reply, M!Teardown
  <2>3. 1 \in 0..1 /\ channelReplies[1].type = "refused"
    BY <1>2, <1>3
  <2> QED
    BY <1>2, <1>3, <2>1, <2>2, <2>3, TeardownStep
<1>5. CASE ~M!Awaited(channelReplies[1])
  <2>1. UNCHANGED <<observers, link, commands>>
    BY <1>3, <1>5 DEF M!ReplyRejects, M!Reply
  <2>2. channelReplies[1].type # "message"
    BY <1>2, <1>3
  <2> QED
    BY <1>2, <1>5, <2>1, <2>2, IgnoredStep
<1> QED
  BY <1>4, <1>5

LEMMA ResolvesStep ==
  ASSUME M!IInv, M!ReplyResolves
  PROVE  M!IInv'
<1>1. M!QueueType
  BY DEF M!IInv, M!TypeOK
<1>2. /\ channelReplies # <<>> /\ channelReplies' = Tail(channelReplies)
      /\ UNCHANGED <<observers, commands, subscribed, sent, published, heard>>
  BY DEF M!ReplyResolves, M!Handled
<1>3. Head(channelReplies) = channelReplies[1]
  BY <1>1, <1>2, ReplyRead
<1>4. channelReplies[1].type = "subscribe"
  BY <1>3 DEF M!ReplyResolves, M!Reply
<1>5. CASE M!Awaited(channelReplies[1])
  <2>1. link' = [link EXCEPT ![channelReplies[1].channel].at = "resolved"]
    BY <1>3, <1>5 DEF M!ReplyResolves, M!Reply
  <2> QED
    BY <1>2, <1>4, <1>5, <2>1, ResolvedStep
<1>6. CASE ~M!Awaited(channelReplies[1])
  <2>1. link' = link
    BY <1>3, <1>6 DEF M!ReplyResolves, M!Reply
  <2> QED
    BY <1>2, <1>4, <1>6, <2>1, IgnoredStep
<1> QED
  BY <1>5, <1>6

\* The observable listens to the messages.
LEMMA LinkIsUpStep ==
  ASSUME M!IInv, NEW ch \in Channel, M!LinkIsUp(ch)
  PROVE  M!IInv'
<1>1. M!TypeOK /\ M!LinkInv /\ M!NumberInv /\ M!CommandInv /\ M!ConnectedInv /\ M!OrderInv
      /\ M!HeardInv /\ M!QueueType
  BY DEF M!IInv, M!TypeOK
<1>2. /\ link[ch].at = "resolved" /\ link' = [link EXCEPT ![ch].at = "up"]
      /\ UNCHANGED <<observers, commands, channelReplies, subscribed, sent, published, heard>>
  BY DEF M!LinkIsUp
<1>3. /\ link'[ch].at = "up" /\ \A d \in Channel : d # ch => link'[d] = link[d]
      /\ link' \in [Channel -> [at : {"down", "subscribing", "resolved", "up"}, number : Nat]]
  BY <1>1, <1>2 DEF M!TypeOK, M!LinkType
<1>4. \A r \in M!Replies \cup M!Commands : M!Awaited(r)' <=> M!Awaited(r)
  BY <1>2, <1>3 DEF M!Awaited, M!Replies, M!Commands
<1>5. /\ \A i \in DOMAIN commands : commands[i] \in M!Commands
      /\ \A i : M!IsLast(i)' <=> M!IsLast(i)
      /\ \A d : M!NoCommand(d)' <=> M!NoCommand(d)
  BY <1>1, <1>2, CommandsKept
<1>6. \A i \in DOMAIN channelReplies : M!Awaited(channelReplies[i])' <=> M!Awaited(channelReplies[i])
  <2> SUFFICES ASSUME NEW i \in DOMAIN channelReplies
               PROVE  M!Awaited(channelReplies[i])' <=> M!Awaited(channelReplies[i])
    OBVIOUS
  <2>1. PICK r \in M!Replies : r = channelReplies[i]
    BY <1>1 DEF M!QueueType
  <2>2. M!Awaited(channelReplies[i])' <=> M!Awaited(r)'
    BY <1>2, <2>1 DEF M!Awaited
  <2> QED
    BY <1>4, <2>1, <2>2
<1>7. \A i \in DOMAIN commands : M!Awaited(commands[i])' <=> M!Awaited(commands[i])
  <2> SUFFICES ASSUME NEW i \in DOMAIN commands
               PROVE  M!Awaited(commands[i])' <=> M!Awaited(commands[i])
    OBVIOUS
  <2>1. PICK r \in M!Commands : r = commands[i]
    BY <1>5
  <2>2. M!Awaited(commands[i])' <=> M!Awaited(r)'
    BY <1>2, <2>1 DEF M!Awaited
  <2> QED
    BY <1>4, <2>1, <2>2
<1>8. \A d, t : M!HasReply(d, t)' <=> M!HasReply(d, t)
  BY <1>2, <1>6 DEF M!HasReply
<1>9. \A d \in Channel : M!Connected(d)' <=> M!Connected(d)
  BY <1>2, <1>3 DEF M!Connected
<1>10. M!TypeOK'
  BY <1>1, <1>2, <1>3
     DEF M!TypeOK, M!LinkType, M!QueueType, M!MessageType, M!Commands, M!Replies
<1>11. M!LinkInv'
  BY <1>1, <1>2, <1>3 DEF M!LinkInv
<1>12. M!NumberInv'
  BY <1>1, <1>2 DEF M!NumberInv
<1>13. M!CommandInv'
  <2>1. \A d \in Channel : /\ link'[d].at = "down" <=> link[d].at = "down"
                           /\ link'[d].at = "subscribing" <=> link[d].at = "subscribing"
    BY <1>2, <1>3
  <2> QED
    BY <1>1, <1>2, <1>5, <1>7, <1>8, <2>1 DEF M!CommandInv
<1>14. M!ConnectedInv'
  BY <1>1, <1>2, <1>5, <1>8, <1>9 DEF M!ConnectedInv
<1>15. M!OrderInv'
  <2>1. \A i \in DOMAIN channelReplies : channelReplies[i].channel \in Channel
    <3>1. \A i \in DOMAIN channelReplies : channelReplies[i] \in M!Replies
      BY <1>1 DEF M!QueueType
    <3> QED
      BY <3>1 DEF M!Replies
  <2>2. \A i \in DOMAIN channelReplies :
            M!Connected(channelReplies[i].channel)' <=> M!Connected(channelReplies[i].channel)
    <3> SUFFICES ASSUME NEW i \in DOMAIN channelReplies
                 PROVE  M!Connected(channelReplies[i].channel)' <=> M!Connected(channelReplies[i].channel)
      OBVIOUS
    <3>1. PICK d \in Channel : d = channelReplies[i].channel
      BY <2>1
    <3>2. M!Connected(channelReplies[i].channel)' <=> M!Connected(d)'
      BY <1>2, <3>1 DEF M!Connected
    <3> QED
      BY <1>9, <3>1, <3>2
  <2>3. \A i : M!IsFollowed(i)' <=> M!IsFollowed(i)
    BY <1>2 DEF M!IsFollowed, M!IsMessage
  <2> QED
    BY <1>1, <1>2, <1>6, <2>2, <2>3 DEF M!OrderInv, M!IsMessage
<1>16. M!HeardInv'
  <2>1. \A d \in Channel : observers'[d] # {} /\ link[d].at = "up" => link'[d].at = "up"
    BY <1>3
  <2>2. /\ \A i \in DOMAIN channelReplies' :
               /\ i \in Nat /\ i + 0 \in DOMAIN channelReplies
               /\ channelReplies'[i] = channelReplies[i + 0]
        /\ \A i \in DOMAIN channelReplies :
               i \in Nat /\ i >= 1 /\ (i > 0 => i - 0 \in DOMAIN channelReplies')
    BY <1>1, <1>2, RepliesKept
  <2>3. 0 \in 0..1 /\ 0 # 1
    OBVIOUS
  <2> QED
    BY <1>1, <1>2, <2>1, <2>2, <2>3, HeardShift
<1> QED
  BY <1>10, <1>11, <1>12, <1>13, <1>14, <1>15, <1>16 DEF M!IInv

\* A message is read, and heard by the observers of its channel.
LEMMA ReceiveStep ==
  ASSUME M!IInv, M!Receive
  PROVE  M!IInv'
<1>1. M!TypeOK /\ M!LinkInv /\ M!NumberInv /\ M!CommandInv /\ M!ConnectedInv /\ M!OrderInv
      /\ M!HeardInv /\ M!QueueType
  BY DEF M!IInv, M!TypeOK
<1>2. /\ channelReplies # <<>> /\ channelReplies' = Tail(channelReplies)
      /\ Head(channelReplies).type = "message"
      /\ UNCHANGED <<observers, link, commands, subscribed, sent, published>>
  BY DEF M!Receive, M!Handled, M!Reply
<1>3. /\ channelReplies' \in Seq(M!Replies) /\ 1 \in DOMAIN channelReplies
      /\ Head(channelReplies) = channelReplies[1] /\ channelReplies[1] \in M!Replies
      /\ \A i \in DOMAIN channelReplies' :
               /\ i \in Nat /\ i + 1 \in DOMAIN channelReplies
               /\ channelReplies'[i] = channelReplies[i + 1]
      /\ \A i \in DOMAIN channelReplies :
               i \in Nat /\ i >= 1 /\ (i > 1 => i - 1 \in DOMAIN channelReplies')
  BY <1>1, <1>2, ReplyRead
<1>4. PICK ch \in Channel, n \in Nat :
          ch = channelReplies[1].channel /\ n = channelReplies[1].number
  BY <1>3 DEF M!Replies
<1>5. M!IsMessage(1, ch) /\ channelReplies[1].type = "message"
  BY <1>2, <1>3, <1>4 DEF M!IsMessage
<1>6. \A o \in Observer :
          heard'[o] = IF o \in M!Listening(channelReplies[1]) THEN Append(heard[o], n) ELSE heard[o]
  BY <1>3, <1>4 DEF M!Receive, M!Reply
<1>7. \A o \in Observer :
          o \in M!Listening(channelReplies[1]) <=> o \in observers[ch] /\ link[ch].at = "up"
  BY <1>1, <1>4 DEF M!Listening, M!TypeOK, M!LinkType
<1>8. 1 \in 0..1 /\ 0 \in 0..1
  OBVIOUS
<1>9. \A d : \A t \in {"subscribe", "refused"} : M!HasReply(d, t)' <=> M!HasReply(d, t)
  <2> SUFFICES ASSUME NEW d
               PROVE  \A t \in {"subscribe", "refused"} : M!HasReply(d, t)' <=> M!HasReply(d, t)
    OBVIOUS
  <2>1. link'[d] = link[d]
    BY <1>2
  <2> QED
    BY <1>1, <1>3, <1>5, <1>8, <2>1, ReplyShift
<1>10. /\ \A i \in DOMAIN commands' : i \in Nat /\ i + 0 = i
       /\ \A i : M!IsLast(i)' <=> M!IsLast(i)
       /\ \A d : M!NoCommand(d)' <=> M!NoCommand(d)
  BY <1>1, <1>2, CommandsKept
<1>11. M!TypeOK'
  <2>1. M!LinkType'
    BY <1>1, <1>2 DEF M!TypeOK, M!LinkType
  <2>2. M!QueueType'
    BY <1>1, <1>2, <1>3 DEF M!QueueType, M!Commands, M!Replies
  <2>3. M!MessageType'
    <3>1. heard' = [o \in Observer |-> heard'[o]]
      BY <1>3 DEF M!Receive, M!Reply
    <3>2. \A o \in Observer : heard[o] \in Seq(Nat) /\ Append(heard[o], n) \in Seq(Nat)
      BY <1>1 DEF M!TypeOK, M!MessageType
    <3>3. \A o \in Observer : heard'[o] \in Seq(Nat)
      BY <1>6, <3>2
    <3> QED
      BY <1>1, <1>2, <3>1, <3>3 DEF M!TypeOK, M!MessageType
  <2> QED
    BY <2>1, <2>2, <2>3 DEF M!TypeOK
<1>12. M!LinkInv'
  BY <1>1, <1>2 DEF M!LinkInv
<1>13. M!NumberInv'
  BY <1>1, <1>2, <1>3, <1>8, <1>10, NumberShift
<1>14. M!CommandInv'
  BY <1>1, <1>2, <1>9, <1>10 DEF M!CommandInv, M!Awaited
<1>15. M!ConnectedInv'
  BY <1>1, <1>2, <1>9, <1>10 DEF M!ConnectedInv, M!Connected
<1>16. M!OrderInv'
  <2>1. \A d \in Channel : M!Connected(d)' => M!Connected(d)
    BY <1>2 DEF M!Connected
  <2>2. \A r \in M!Replies : M!Awaited(r)' => M!Awaited(r)
    BY <1>2 DEF M!Awaited
  <2> QED
    BY <1>1, <1>2, <1>3, <1>8, <2>1, <2>2, OrderShift
\* Whoever has heard something before has heard all up to this message.
<1>17. ASSUME NEW o \in observers[ch], heard[o] # <<>> PROVE n = M!Heard(o) + 1
  <2>1. o \in Observer /\ heard[o] \in Seq(Nat) /\ M!Heard(o) \in Nat
    BY <1>1, <1>17 DEF M!TypeOK, M!LinkType, M!MessageType, M!Heard
  <2>2. n > M!Heard(o) /\ n <= published[ch] /\ published[ch] \in Nat
    BY <1>1, <1>3, <1>4, <1>5, <1>17 DEF M!HeardInv, M!OrderInv, M!TypeOK, M!MessageType
  <2>3. PICK i \in DOMAIN channelReplies :
            M!IsMessage(i, ch) /\ channelReplies[i].number = M!Heard(o) + 1
    BY <1>1, <1>17, <2>1, <2>2 DEF M!HeardInv
  <2>4. CASE i = 1
    BY <1>4, <2>3, <2>4
  <2>5. CASE i # 1
    <3>1. 1 < i
      BY <1>3, <2>5
    <3>2. n < channelReplies[i].number
      BY <1>1, <1>3, <1>4, <1>5, <2>3, <3>1 DEF M!OrderInv
    <3> QED
      BY <2>1, <2>2, <2>3, <3>2
  <2> QED
    BY <2>4, <2>5
<1>18. ASSUME NEW o \in Observer, NEW k \in DOMAIN heard'[o], k > 1
       PROVE  heard'[o][k] = heard'[o][k - 1] + 1
  <2>1. heard[o] \in Seq(Nat)
    BY <1>1 DEF M!TypeOK, M!MessageType
  <2>2. \A j \in DOMAIN heard[o] : j > 1 => heard[o][j] = heard[o][j - 1] + 1
    BY <1>1 DEF M!HeardInv
  <2>3. CASE o \notin M!Listening(channelReplies[1])
    <3>1. heard'[o] = heard[o]
      BY <1>6, <2>3
    <3> QED
      BY <1>18, <2>2, <3>1
  <2>4. CASE o \in M!Listening(channelReplies[1])
    <3>1. heard'[o] = Append(heard[o], n) /\ o \in observers[ch]
      BY <1>6, <1>7, <2>4
    <3>2. /\ DOMAIN heard[o] = 1..Len(heard[o]) /\ Len(heard[o]) \in Nat
          /\ DOMAIN heard'[o] = 1..(Len(heard[o]) + 1)
          /\ \A i \in DOMAIN heard[o] : heard'[o][i] = heard[o][i]
          /\ heard'[o][Len(heard[o]) + 1] = n
      BY <2>1, <3>1, AppendIndices
    <3>3. CASE k \in DOMAIN heard[o]
      <4>1. k - 1 \in DOMAIN heard[o]
        BY <1>18, <3>2, <3>3
      <4> QED
        BY <1>18, <2>2, <3>2, <3>3, <4>1
    <3>4. CASE k = Len(heard[o]) + 1
      <4>1. heard[o] # <<>> /\ Len(heard[o]) \in DOMAIN heard[o]
        BY <1>18, <2>1, <3>2, <3>4
      <4>2. n = heard[o][Len(heard[o])] + 1
        BY <1>17, <3>1, <4>1 DEF M!Heard
      <4> QED
        BY <3>2, <3>4, <4>1, <4>2
    <3> QED
      BY <3>2, <3>3, <3>4
  <2> QED
    BY <2>3, <2>4
<1>19. ASSUME NEW i \in DOMAIN channelReplies, i > 1, NEW d \in Channel, M!IsMessage(i, d)
       PROVE  /\ i - 1 \in DOMAIN channelReplies' /\ M!IsMessage(i - 1, d)'
              /\ channelReplies'[i - 1] = channelReplies[i]
  <2>1. i - 1 \in DOMAIN channelReplies' /\ (i - 1) + 1 = i
    BY <1>3, <1>19
  <2>2. channelReplies'[i - 1] = channelReplies[i]
    BY <1>3, <2>1
  <2> QED
    BY <1>19, <2>1, <2>2 DEF M!IsMessage
<1>20. \A i \in DOMAIN channelReplies' : i + 1 \in DOMAIN channelReplies /\ i + 1 > 1
  BY <1>3
<1>21. ASSUME NEW d \in Channel, NEW o \in observers'[d], heard'[o] # <<>>
       PROVE  /\ link'[d].at = "up"
              /\ M!Heard(o)' = published'[d] \/ \E i \in DOMAIN channelReplies' :
                     M!IsMessage(i, d)' /\ channelReplies'[i].number = M!Heard(o)' + 1
              /\ \A i \in DOMAIN channelReplies' :
                     M!IsMessage(i, d)' => channelReplies'[i].number > M!Heard(o)'
  <2>0. o \in observers[d] /\ o \in Observer /\ ChannelOf[o] = d
    BY <1>1, <1>2, <1>21 DEF M!TypeOK, M!LinkType
  <2>1. CASE o \in M!Listening(channelReplies[1])
    <3>1. d = ch /\ link[ch].at = "up"
      BY <1>1, <1>7, <2>0, <2>1 DEF M!TypeOK, M!LinkType
    <3>2. M!Heard(o)' = n
      <4>1. heard'[o] = Append(heard[o], n) /\ heard[o] \in Seq(Nat)
        BY <1>1, <1>6, <2>0, <2>1 DEF M!TypeOK, M!MessageType
      <4> QED
        BY <4>1 DEF M!Heard
    <3>3. M!IsFollowed(1)
      <4>1. M!Connected(channelReplies[1].channel)
        BY <1>4, <3>1 DEF M!Connected
      <4> QED
        BY <1>1, <1>3, <1>5, <4>1 DEF M!OrderInv
    <3>4. \/ n = published[ch]
          \/ \E j \in DOMAIN channelReplies :
                  j > 1 /\ M!IsMessage(j, ch) /\ channelReplies[j].number = n + 1
      BY <1>4, <3>3 DEF M!IsFollowed
    <3>6. M!Heard(o)' = published'[d] \/ \E i \in DOMAIN channelReplies' :
                     M!IsMessage(i, d)' /\ channelReplies'[i].number = M!Heard(o)' + 1
      BY <1>2, <1>19, <3>1, <3>2, <3>4
    <3>7. ASSUME NEW i \in DOMAIN channelReplies', M!IsMessage(i, d)'
          PROVE  channelReplies'[i].number > M!Heard(o)'
      <4>1. PICK j : j = i + 1
        OBVIOUS
      <4>2. j \in DOMAIN channelReplies /\ j > 1 /\ channelReplies'[i] = channelReplies[j]
        BY <1>3, <1>20, <4>1
      <4>3. M!IsMessage(j, ch)
        BY <3>1, <3>7, <4>2 DEF M!IsMessage
      <4>4. n < channelReplies[j].number
        BY <1>1, <1>3, <1>4, <1>5, <4>2, <4>3 DEF M!OrderInv
      <4>5. channelReplies[j].number \in Nat
        <5>1. channelReplies[j] \in M!Replies
          BY <1>1, <4>2 DEF M!QueueType
        <5> QED
          BY <5>1 DEF M!Replies
      <4> QED
        BY <3>2, <4>2, <4>4, <4>5
    <3> QED
      BY <1>2, <3>1, <3>6, <3>7
  <2>2. CASE o \notin M!Listening(channelReplies[1])
    <3>1. heard'[o] = heard[o] /\ M!Heard(o)' = M!Heard(o)
      BY <1>6, <2>0, <2>2 DEF M!Heard
    <3>2. /\ link[d].at = "up"
          /\ M!Heard(o) = published[d] \/ \E i \in DOMAIN channelReplies :
                 M!IsMessage(i, d) /\ channelReplies[i].number = M!Heard(o) + 1
          /\ \A i \in DOMAIN channelReplies :
                 M!IsMessage(i, d) => channelReplies[i].number > M!Heard(o)
      BY <1>1, <1>21, <2>0, <3>1 DEF M!HeardInv
    <3>3. d # ch
      BY <1>7, <2>0, <2>2, <3>2
    <3>4. \A i \in DOMAIN channelReplies : M!IsMessage(i, d) => i > 1
      BY <1>3, <1>4, <3>3 DEF M!IsMessage
    <3>5. M!Heard(o)' = published'[d] \/ \E i \in DOMAIN channelReplies' :
                     M!IsMessage(i, d)' /\ channelReplies'[i].number = M!Heard(o)' + 1
      BY <1>2, <1>19, <3>1, <3>2, <3>4
    <3>6. \A i \in DOMAIN channelReplies' :
                     M!IsMessage(i, d)' => channelReplies'[i].number > M!Heard(o)'
      BY <1>3, <1>20, <3>1, <3>2 DEF M!IsMessage
    <3> QED
      BY <1>2, <3>2, <3>5, <3>6
  <2> QED
    BY <2>1, <2>2
<1>22. M!HeardInv'
  BY <1>18, <1>21 DEF M!HeardInv
<1> QED
  BY <1>11, <1>12, <1>13, <1>14, <1>15, <1>16, <1>22 DEF M!IInv

\* Redis replies to a SUBSCRIBE, or sends a message: the other replies stay.
LEMMA ReplySent ==
  ASSUME M!QueueType, NEW r \in M!Replies, channelReplies' = Append(channelReplies, r)
  PROVE  /\ channelReplies' \in Seq(M!Replies)
         /\ DOMAIN channelReplies = 1..Len(channelReplies) /\ Len(channelReplies) \in Nat
         /\ DOMAIN channelReplies' = 1..(Len(channelReplies) + 1)
         /\ \A i \in DOMAIN channelReplies :
               channelReplies'[i] = channelReplies[i] /\ channelReplies[i] \in M!Replies
         /\ channelReplies'[Len(channelReplies) + 1] = r
<1>1. channelReplies \in Seq(M!Replies)
  BY DEF M!QueueType
<1>2. \A i \in DOMAIN channelReplies : channelReplies[i] \in M!Replies
  BY <1>1
<1> QED
  BY <1>1, <1>2, AppendIndices

\* Redis runs a SUBSCRIBE, or refuses to.
LEMMA ServerSubscribesStep ==
  ASSUME M!IInv, M!ServerSubscribes
  PROVE  M!IInv'
<1>1. M!TypeOK /\ M!LinkInv /\ M!NumberInv /\ M!CommandInv /\ M!ConnectedInv /\ M!OrderInv
      /\ M!HeardInv /\ M!QueueType
  BY DEF M!IInv, M!TypeOK
<1>2. /\ commands # <<>> /\ commands' = Tail(commands) /\ Head(commands).type = "subscribe"
      /\ UNCHANGED <<observers, link, sent, published, heard>>
  BY DEF M!ServerSubscribes
<1>3. /\ commands' \in Seq(M!Commands)
      /\ DOMAIN commands = 1..Len(commands) /\ Len(commands) \in Nat /\ 1 \in DOMAIN commands
      /\ DOMAIN commands' = 1..(Len(commands) - 1)
      /\ \A i \in DOMAIN commands : commands[i] \in M!Commands
      /\ Head(commands) = commands[1]
      /\ \A i \in DOMAIN commands' :
            i + 1 \in DOMAIN commands /\ commands'[i] = commands[i + 1]
      /\ \A i \in DOMAIN commands : i # 1 => i - 1 \in DOMAIN commands'
      /\ \A i \in DOMAIN commands' : M!IsLast(i)' <=> M!IsLast(i + 1)
      /\ \A d : M!NoCommand(d) <=> M!NoCommand(d)' /\ d # Head(commands).channel
      /\ \A d : d = Head(commands).channel => (M!IsLast(1) <=> M!NoCommand(d)')
  BY <1>1, <1>2, CommandTaken
<1>4. PICK cmd \in M!Commands : cmd = commands[1]
  BY <1>3
<1>5. PICK ch \in Channel, n \in Nat : ch = cmd.channel /\ n = cmd.number
  BY DEF M!Commands
<1>6. cmd.type = "subscribe"
  BY <1>2, <1>3, <1>4
<1>7. PICK r \in M!Replies :
          /\ r.channel = ch /\ r.number = n
          /\ channelReplies' = Append(channelReplies, r)
          /\ \/ r.type = "subscribe" /\ subscribed' = subscribed \cup {ch}
             \/ r.type = "refused" /\ subscribed' = subscribed
  <2>1. cmd \in M!Replies /\ [cmd EXCEPT !.type = "refused"] \in M!Replies
    BY <1>6 DEF M!Commands, M!Replies
  <2>2. /\ [cmd EXCEPT !.type = "refused"].type = "refused"
        /\ [cmd EXCEPT !.type = "refused"].channel = ch
        /\ [cmd EXCEPT !.type = "refused"].number = n
    BY <1>5 DEF M!Commands
  <2>3. \/ /\ subscribed' = subscribed \cup {ch}
           /\ channelReplies' = Append(channelReplies, cmd)
        \/ /\ channelReplies' = Append(channelReplies, [cmd EXCEPT !.type = "refused"])
           /\ subscribed' = subscribed
    BY <1>3, <1>4, <1>5 DEF M!ServerSubscribes
  <2>4. CASE channelReplies' = Append(channelReplies, cmd) /\ subscribed' = subscribed \cup {ch}
    BY <1>5, <1>6, <2>1, <2>4
  <2>5. CASE /\ channelReplies' = Append(channelReplies, [cmd EXCEPT !.type = "refused"])
             /\ subscribed' = subscribed
    BY <2>1, <2>2, <2>5
  <2> QED
    BY <2>3, <2>4, <2>5
<1>0. PICK m \in Nat : m = Len(channelReplies) + 1
  BY <1>1 DEF M!QueueType
<1>8. /\ channelReplies' \in Seq(M!Replies)
      /\ DOMAIN channelReplies = 1..Len(channelReplies) /\ Len(channelReplies) \in Nat
      /\ DOMAIN channelReplies' = 1..m
      /\ \A i \in DOMAIN channelReplies :
            channelReplies'[i] = channelReplies[i] /\ channelReplies[i] \in M!Replies
      /\ channelReplies'[m] = r
  BY <1>0, <1>1, <1>7, ReplySent
<1>9. /\ \A i \in DOMAIN channelReplies' : i \in DOMAIN channelReplies \/ i = m
      /\ \A i \in DOMAIN channelReplies : i \in DOMAIN channelReplies' /\ i < m
      /\ m \in DOMAIN channelReplies' /\ m \notin DOMAIN channelReplies
  BY <1>0, <1>8
<1>10. /\ \A i \in DOMAIN commands : commands[i].number \in Nat /\ commands[i].channel \in Channel
       /\ \A i \in DOMAIN channelReplies :
             channelReplies[i].number \in Nat /\ channelReplies[i].channel \in Channel
  BY <1>3, <1>8 DEF M!Commands, M!Replies
<1>11. M!TypeOK'
  <2>1. M!LinkType'
    BY <1>1, <1>2 DEF M!TypeOK, M!LinkType
  <2>2. M!QueueType'
    BY <1>1, <1>3, <1>7, <1>8 DEF M!QueueType, M!Commands, M!Replies
  <2>3. M!MessageType'
    BY <1>1, <1>2 DEF M!TypeOK, M!MessageType
  <2> QED
    BY <2>1, <2>2, <2>3 DEF M!TypeOK
<1>12. M!LinkInv'
  BY <1>1, <1>2 DEF M!LinkInv
<1>13. M!NumberInv'
  <2>0. /\ \A i, j \in DOMAIN commands' : i # j => i + 1 # j + 1
        /\ \A i \in DOMAIN commands' : i + 1 # 1
    BY <1>3
  <2>1. (\A i \in DOMAIN commands : commands[i].type = "subscribe" => commands[i].number <= sent)'
    BY <1>1, <1>2, <1>3 DEF M!NumberInv
  <2>2. (\A i, j \in DOMAIN commands :
          /\ i # j /\ commands[i].type = "subscribe" /\ commands[j].type = "subscribe"
          => commands[i].number # commands[j].number)'
    BY <1>1, <1>3, <2>0 DEF M!NumberInv
  <2>3. (\A i \in DOMAIN channelReplies :
            channelReplies[i].type # "message" => channelReplies[i].number <= sent)'
    <3>1. n <= sent
      BY <1>1, <1>3, <1>4, <1>5, <1>6 DEF M!NumberInv
    <3> QED
      BY <1>1, <1>2, <1>7, <1>8, <1>9, <3>1 DEF M!NumberInv
  <2>4. \A i \in DOMAIN channelReplies :
            channelReplies[i].type # "message" => channelReplies[i].number # n
    BY <1>1, <1>3, <1>4, <1>5, <1>6 DEF M!NumberInv
  <2>5. (\A i, j \in DOMAIN channelReplies :
          /\ i # j /\ channelReplies[i].type # "message" /\ channelReplies[j].type # "message"
          => channelReplies[i].number # channelReplies[j].number)'
    BY <1>1, <1>7, <1>8, <1>9, <2>4 DEF M!NumberInv
  <2>6. \A i \in DOMAIN commands' : commands'[i].type = "subscribe" => commands'[i].number # n
    <3> SUFFICES ASSUME NEW i \in DOMAIN commands', commands'[i].type = "subscribe"
                 PROVE  commands'[i].number # n
      OBVIOUS
    <3>1. PICK j \in DOMAIN commands : j = i + 1
      BY <1>3
    <3>2. j # 1 /\ commands'[i] = commands[j]
      BY <1>3, <2>0, <3>1
    <3>3. commands[1].type = "subscribe" /\ commands[1].number = n
      BY <1>4, <1>5, <1>6
    <3> QED
      BY <1>1, <1>3, <3>2, <3>3 DEF M!NumberInv
  <2>7. (\A i \in DOMAIN commands : \A j \in DOMAIN channelReplies :
          commands[i].type = "subscribe" /\ channelReplies[j].type # "message" =>
              commands[i].number # channelReplies[j].number)'
    BY <1>1, <1>3, <1>7, <1>8, <1>9, <2>6 DEF M!NumberInv
  <2> QED
    BY <2>1, <2>2, <2>3, <2>5, <2>7 DEF M!NumberInv
<1>14. \A c : M!Awaited(c)' <=> link[c.channel]' = [at |-> "subscribing", number |-> c.number]
  BY <1>2 DEF M!Awaited
\* Awaited is about the links, which stay.
<1>15. /\ \A i \in DOMAIN channelReplies :
             M!Awaited(channelReplies[i])' <=> M!Awaited(channelReplies[i])
       /\ M!Awaited(r) <=> M!Awaited(cmd)
       /\ \A i : i = m => (M!Awaited(channelReplies[i])' <=> M!Awaited(r))
  BY <1>2, <1>5, <1>7, <1>8 DEF M!Awaited
<1>16. M!IsLast(1) <=> M!Awaited(cmd)
  BY <1>1, <1>3, <1>4, <1>6 DEF M!CommandInv
<1>17. M!NoCommand(ch)' <=> M!Awaited(cmd)
  BY <1>3, <1>4, <1>5, <1>16
<1>18. \A d, t : M!HasReply(d, t)' <=>
                     M!HasReply(d, t) \/ (d = ch /\ t = r.type /\ M!Awaited(r))
  <2>1. ASSUME NEW d, NEW t, M!HasReply(d, t)
        PROVE  M!HasReply(d, t)'
    BY <1>8, <1>9, <1>15, <2>1 DEF M!HasReply
  <2>2. ASSUME M!Awaited(r)
        PROVE  M!HasReply(ch, r.type)'
    BY <1>7, <1>8, <1>9, <1>15, <2>2 DEF M!HasReply
  <2>3. ASSUME NEW d, NEW t, M!HasReply(d, t)'
        PROVE  M!HasReply(d, t) \/ (d = ch /\ t = r.type /\ M!Awaited(r))
    BY <1>7, <1>8, <1>9, <1>15, <2>3 DEF M!HasReply
  <2> QED
    BY <2>1, <2>2, <2>3
<1>19. M!CommandInv'
  <2>1. ASSUME NEW i \in DOMAIN commands', commands'[i].type = "subscribe"
        PROVE  M!IsLast(i)' <=> M!Awaited(commands[i])'
    <3>1. PICK j \in DOMAIN commands : j = i + 1
      BY <1>3
    <3>2. commands'[i] = commands[j]
      BY <1>3, <3>1
    <3>3. M!IsLast(j) <=> M!Awaited(commands[j])
      BY <1>1, <2>1, <3>2 DEF M!CommandInv
    <3>4. M!Awaited(commands[i])' <=> M!Awaited(commands[j])
      BY <1>2, <3>2 DEF M!Awaited
    <3> QED
      BY <1>3, <3>1, <3>3, <3>4
  <2>2. ASSUME NEW d \in Channel, d \in subscribed', M!NoCommand(d)'
        PROVE  link'[d].at # "down"
    <3>1. CASE d = ch
      BY <1>2, <1>4, <1>5, <1>17, <2>2, <3>1, AwaitedAt
    <3>2. CASE d # ch
      <4>1. d \in subscribed /\ M!NoCommand(d)
        BY <1>3, <1>4, <1>5, <1>7, <2>2, <3>2
      <4> QED
        BY <1>1, <1>2, <4>1 DEF M!CommandInv
    <3> QED
      BY <3>1, <3>2
  <2>3. ASSUME NEW d \in Channel, link'[d].at = "subscribing"
        PROVE  \/ \E i \in DOMAIN commands' :
                      /\ commands'[i].channel = d /\ commands'[i].type = "subscribe"
                      /\ M!Awaited(commands[i])'
               \/ M!HasReply(d, "subscribe")' \/ M!HasReply(d, "refused")'
    <3>1. CASE M!HasReply(d, "subscribe") \/ M!HasReply(d, "refused")
      BY <1>18, <3>1
    <3>2. ASSUME NEW i \in DOMAIN commands, commands[i].channel = d,
                 commands[i].type = "subscribe", M!Awaited(commands[i]), i # 1
          PROVE  \E j \in DOMAIN commands' :
                      /\ commands'[j].channel = d /\ commands'[j].type = "subscribe"
                      /\ M!Awaited(commands[j])'
      <4>1. PICK j \in DOMAIN commands' : j = i - 1
        BY <1>3, <3>2
      <4>2. commands'[j] = commands[i]
        BY <1>3, <4>1
      <4>3. M!Awaited(commands[j])'
        BY <1>2, <3>2, <4>2 DEF M!Awaited
      <4> QED
        BY <3>2, <4>2, <4>3
    <3>3. ASSUME d = ch, M!Awaited(cmd)
          PROVE  M!HasReply(d, "subscribe")' \/ M!HasReply(d, "refused")'
      BY <1>7, <1>15, <1>18, <3>3
    <3>4. CASE ~(M!HasReply(d, "subscribe") \/ M!HasReply(d, "refused"))
      <4>1. PICK i \in DOMAIN commands :
                /\ commands[i].channel = d /\ commands[i].type = "subscribe"
                /\ M!Awaited(commands[i])
        BY <1>1, <1>2, <2>3, <3>4 DEF M!CommandInv
      <4>2. i = 1 => d = ch /\ M!Awaited(cmd)
        BY <1>4, <1>5, <4>1
      <4> QED
        BY <3>2, <3>3, <4>1, <4>2
    <3> QED
      BY <3>1, <3>4
  <2> QED
    BY <2>1, <2>2, <2>3 DEF M!CommandInv
<1>20. M!ConnectedInv'
  <2>1. ASSUME NEW d \in Channel, M!Connected(d) \/ M!HasReply(d, "subscribe")
        PROVE  d \in subscribed' /\ M!NoCommand(d)'
    <3>1. d \in subscribed /\ M!NoCommand(d)
      BY <1>1, <2>1 DEF M!ConnectedInv
    <3> QED
      BY <1>3, <1>7, <3>1
  <2>2. ASSUME M!Awaited(r), r.type = "subscribe"
        PROVE  ch \in subscribed' /\ M!NoCommand(ch)'
    BY <1>7, <1>15, <1>17, <2>2
  <2>3. \A d : M!Connected(d)' <=> M!Connected(d)
    BY <1>2 DEF M!Connected
  <2> QED
    BY <1>18, <2>1, <2>2, <2>3 DEF M!ConnectedInv
<1>21. /\ \A i \in DOMAIN channelReplies : \A d : M!IsMessage(i, d)' <=> M!IsMessage(i, d)
       /\ \A d : ~M!IsMessage(m, d)'
       /\ \A i \in DOMAIN channelReplies' :
             channelReplies'[i].type = "message" => i \in DOMAIN channelReplies
  <2>1. channelReplies'[m].type # "message"
    BY <1>7, <1>8
  <2>2. \A i \in DOMAIN channelReplies : \A d : M!IsMessage(i, d)' <=> M!IsMessage(i, d)
    BY <1>8 DEF M!IsMessage
  <2>3. \A d, i : i = m => ~M!IsMessage(i, d)'
    BY <2>1 DEF M!IsMessage
  <2> QED
    BY <1>9, <2>1, <2>2, <2>3
<1>22. M!OrderInv'
  <2>1. (\A i \in DOMAIN channelReplies : channelReplies[i].type = "message" =>
            channelReplies[i].number <= published[channelReplies[i].channel])'
    BY <1>1, <1>2, <1>8, <1>21 DEF M!OrderInv
  <2>2. (\A i, j \in DOMAIN channelReplies :
            /\ i < j /\ channelReplies[i].type = "message"
            /\ M!IsMessage(j, channelReplies[i].channel)
            => channelReplies[i].number < channelReplies[j].number)'
    <3>1. ASSUME NEW i \in DOMAIN channelReplies', NEW j \in DOMAIN channelReplies', i < j,
                 channelReplies'[i].type = "message", M!IsMessage(j, channelReplies[i].channel)'
          PROVE  channelReplies'[i].number < channelReplies'[j].number
      <4>1. channelReplies'[j].type = "message" /\ channelReplies'[j].channel = channelReplies'[i].channel
        BY <3>1 DEF M!IsMessage
      <4>2. i \in DOMAIN channelReplies /\ j \in DOMAIN channelReplies
        BY <1>21, <3>1, <4>1
      <4> QED
        BY <1>1, <1>8, <3>1, <4>1, <4>2 DEF M!OrderInv, M!IsMessage
    <3> QED
      BY <3>1
  <2>3. ASSUME NEW i \in DOMAIN channelReplies', channelReplies'[i].type = "message",
               \/ M!Connected(channelReplies[i].channel)'
               \/ \E h \in DOMAIN channelReplies' :
                     /\ h < i /\ channelReplies'[h].channel = channelReplies'[i].channel
                     /\ channelReplies'[h].type = "subscribe" /\ M!Awaited(channelReplies[h])'
        PROVE  M!IsFollowed(i)'
    <3>1. i \in DOMAIN channelReplies /\ channelReplies'[i] = channelReplies[i]
      BY <1>8, <1>21, <2>3
    <3>2. \A h \in DOMAIN channelReplies' : h < i => h \in DOMAIN channelReplies
      BY <1>0, <1>8, <1>9, <3>1
    <3>3. M!Connected(channelReplies[i].channel)' => M!Connected(channelReplies[i].channel)
      BY <1>2, <3>1 DEF M!Connected
    <3>4. M!IsFollowed(i)
      BY <1>1, <1>8, <1>15, <2>3, <3>1, <3>2, <3>3 DEF M!OrderInv
    <3> QED
      BY <1>2, <1>8, <1>9, <3>1, <3>4 DEF M!IsFollowed, M!IsMessage
  <2> QED
    BY <2>1, <2>2, <2>3 DEF M!OrderInv
<1>23. M!HeardInv'
  <2>1. (\A o \in Observer : \A k \in DOMAIN heard[o] : k > 1 => heard[o][k] = heard[o][k - 1] + 1)'
    BY <1>1, <1>2 DEF M!HeardInv
  <2>2. ASSUME NEW d \in Channel, NEW o \in observers'[d], heard'[o] # <<>>
        PROVE  /\ link'[d].at = "up"
               /\ M!Heard(o)' = published'[d] \/ \E i \in DOMAIN channelReplies' :
                      M!IsMessage(i, d)' /\ channelReplies'[i].number = M!Heard(o)' + 1
               /\ \A i \in DOMAIN channelReplies' :
                      M!IsMessage(i, d)' => channelReplies'[i].number > M!Heard(o)'
    <3>1. M!Heard(o)' = M!Heard(o)
      BY <1>2 DEF M!Heard
    <3>2. /\ link[d].at = "up"
          /\ M!Heard(o) = published[d] \/ \E i \in DOMAIN channelReplies :
                 M!IsMessage(i, d) /\ channelReplies[i].number = M!Heard(o) + 1
          /\ \A i \in DOMAIN channelReplies :
                 M!IsMessage(i, d) => channelReplies[i].number > M!Heard(o)
      BY <1>1, <1>2, <2>2 DEF M!HeardInv
    <3>3. \A i \in DOMAIN channelReplies' : M!IsMessage(i, d)' =>
              i \in DOMAIN channelReplies /\ M!IsMessage(i, d)
      BY <1>9, <1>21
    <3> QED
      BY <1>2, <1>8, <1>9, <1>21, <3>1, <3>2, <3>3
  <2> QED
    BY <2>1, <2>2 DEF M!HeardInv
<1> QED
  BY <1>11, <1>12, <1>13, <1>19, <1>20, <1>22, <1>23 DEF M!IInv

\* Redis runs an UNSUBSCRIBE.
LEMMA ServerUnsubscribesStep ==
  ASSUME M!IInv, M!ServerUnsubscribes
  PROVE  M!IInv'
<1>1. M!TypeOK /\ M!LinkInv /\ M!NumberInv /\ M!CommandInv /\ M!ConnectedInv /\ M!OrderInv
      /\ M!HeardInv /\ M!QueueType
  BY DEF M!IInv, M!TypeOK
<1>2. /\ commands # <<>> /\ commands' = Tail(commands) /\ Head(commands).type = "unsubscribe"
      /\ subscribed' = subscribed \ {Head(commands).channel}
      /\ UNCHANGED <<observers, link, channelReplies, sent, published, heard>>
  BY DEF M!ServerUnsubscribes
<1>3. /\ commands' \in Seq(M!Commands)
      /\ DOMAIN commands = 1..Len(commands) /\ Len(commands) \in Nat /\ 1 \in DOMAIN commands
      /\ DOMAIN commands' = 1..(Len(commands) - 1)
      /\ \A i \in DOMAIN commands : commands[i] \in M!Commands
      /\ Head(commands) = commands[1]
      /\ \A i \in DOMAIN commands' :
            i + 1 \in DOMAIN commands /\ commands'[i] = commands[i + 1]
      /\ \A i \in DOMAIN commands : i # 1 => i - 1 \in DOMAIN commands'
      /\ \A i \in DOMAIN commands' : M!IsLast(i)' <=> M!IsLast(i + 1)
      /\ \A d : M!NoCommand(d) <=> M!NoCommand(d)' /\ d # Head(commands).channel
  BY <1>1, <1>2, CommandTaken
<1>4. PICK ch \in Channel : ch = Head(commands).channel
  <2>1. Head(commands) \in M!Commands
    BY <1>3
  <2> QED
    BY <2>1 DEF M!Commands
<1>5. commands[1].type # "subscribe"
  BY <1>2, <1>3
<1>6. \A d, t : M!HasReply(d, t)' <=> M!HasReply(d, t)
  BY <1>2 DEF M!HasReply, M!Awaited
<1>7. M!TypeOK'
  BY <1>1, <1>2, <1>3
     DEF M!TypeOK, M!LinkType, M!QueueType, M!MessageType, M!Commands, M!Replies
<1>8. M!LinkInv'
  BY <1>1, <1>2 DEF M!LinkInv
<1>9. M!NumberInv'
  <2>1. 1 \in 0..1 /\ 0 \in 0..1
    OBVIOUS
  <2>2. \A i \in DOMAIN commands' : i \in Nat
    BY <1>3
  <2>3. \A i \in DOMAIN channelReplies' :
               /\ i \in Nat /\ i + 0 \in DOMAIN channelReplies
               /\ channelReplies'[i] = channelReplies[i + 0]
    BY <1>1, <1>2, RepliesKept
  <2> QED
    BY <1>1, <1>2, <1>3, <2>1, <2>2, <2>3, NumberShift
<1>10. M!CommandInv'
  <2>1. ASSUME NEW i \in DOMAIN commands', commands'[i].type = "subscribe"
        PROVE  M!IsLast(i)' <=> M!Awaited(commands[i])'
    <3>1. PICK j \in DOMAIN commands : j = i + 1
      BY <1>3
    <3>2. commands'[i] = commands[j]
      BY <1>3, <3>1
    <3>3. M!IsLast(j) <=> M!Awaited(commands[j])
      BY <1>1, <2>1, <3>2 DEF M!CommandInv
    <3>4. M!Awaited(commands[i])' <=> M!Awaited(commands[j])
      BY <1>2, <3>2 DEF M!Awaited
    <3> QED
      BY <1>3, <3>1, <3>3, <3>4
  <2>2. ASSUME NEW d \in Channel, d \in subscribed', M!NoCommand(d)'
        PROVE  link'[d].at # "down"
    <3>1. d \in subscribed /\ M!NoCommand(d)
      BY <1>2, <1>3, <2>2
    <3> QED
      BY <1>1, <1>2, <3>1 DEF M!CommandInv
  <2>3. ASSUME NEW d \in Channel, link'[d].at = "subscribing"
        PROVE  \/ \E i \in DOMAIN commands' :
                      /\ commands'[i].channel = d /\ commands'[i].type = "subscribe"
                      /\ M!Awaited(commands[i])'
               \/ M!HasReply(d, "subscribe")' \/ M!HasReply(d, "refused")'
    <3>1. ASSUME NEW i \in DOMAIN commands, commands[i].channel = d,
                 commands[i].type = "subscribe", M!Awaited(commands[i])
          PROVE  \E j \in DOMAIN commands' :
                      /\ commands'[j].channel = d /\ commands'[j].type = "subscribe"
                      /\ M!Awaited(commands[j])'
      <4>1. PICK j \in DOMAIN commands' : j = i - 1
        BY <1>3, <1>5, <3>1
      <4>2. commands'[j] = commands[i]
        BY <1>3, <4>1
      <4>3. M!Awaited(commands[j])'
        BY <1>2, <3>1, <4>2 DEF M!Awaited
      <4> QED
        BY <3>1, <4>2, <4>3
    <3> QED
      BY <1>1, <1>2, <1>6, <2>3, <3>1 DEF M!CommandInv
  <2> QED
    BY <2>1, <2>2, <2>3 DEF M!CommandInv
<1>11. M!ConnectedInv'
  BY <1>1, <1>2, <1>3, <1>6 DEF M!ConnectedInv, M!Connected
<1>12. M!OrderInv'
  BY <1>1, <1>2 DEF M!OrderInv, M!Connected, M!IsMessage, M!IsFollowed, M!Awaited
<1>13. M!HeardInv'
  BY <1>1, <1>2 DEF M!HeardInv, M!Heard, M!IsMessage
<1> QED
  BY <1>7, <1>8, <1>9, <1>10, <1>11, <1>12, <1>13 DEF M!IInv

\* Somebody publishes a message.
LEMMA PublishStep ==
  ASSUME M!IInv, NEW ch \in Channel, M!publish(ch)
  PROVE  M!IInv'
<1>1. M!TypeOK /\ M!LinkInv /\ M!NumberInv /\ M!CommandInv /\ M!ConnectedInv /\ M!OrderInv
      /\ M!HeardInv /\ M!QueueType
  BY DEF M!IInv, M!TypeOK
<1>2. /\ published' = [published EXCEPT ![ch] = @ + 1]
      /\ UNCHANGED <<observers, link, commands, subscribed, sent, heard>>
  BY DEF M!publish
<1>3. published \in [Channel -> Nat]
  BY <1>1 DEF M!TypeOK, M!MessageType
<1>4. PICK n \in Nat : n = published[ch] + 1
  BY <1>3
<1>5. /\ published'[ch] = n /\ \A d \in Channel : d # ch => published'[d] = published[d]
      /\ published' \in [Channel -> Nat]
  BY <1>2, <1>3, <1>4
<1>6. PICK r \in M!Replies : r.type = "message" /\ r.channel = ch /\ r.number = n /\ r = M!Message(ch, n)
  <2>1. M!Message(ch, n) = [type |-> "message", channel |-> ch, number |-> n]
    BY DEF M!Message
  <2> QED
    BY <2>1 DEF M!Replies
<1>7. /\ ch \in subscribed => channelReplies' = Append(channelReplies, r)
      /\ ch \notin subscribed => channelReplies' = channelReplies
  BY <1>5, <1>6 DEF M!publish
<1>0. PICK m \in Nat : m = Len(channelReplies) + 1
  BY <1>1 DEF M!QueueType
\* Whether it is sent or not.
<1>8. /\ channelReplies' \in Seq(M!Replies)
      /\ \A i \in DOMAIN channelReplies :
            /\ i \in DOMAIN channelReplies' /\ channelReplies'[i] = channelReplies[i]
            /\ channelReplies[i] \in M!Replies /\ i < m /\ i \in Nat
      /\ \A i \in DOMAIN channelReplies' :
            i \in DOMAIN channelReplies \/ (i = m /\ ch \in subscribed /\ channelReplies'[i] = r)
      /\ ch \in subscribed => m \in DOMAIN channelReplies' /\ channelReplies'[m] = r
  <2>1. CASE ch \in subscribed
    <3>1. /\ channelReplies' \in Seq(M!Replies)
          /\ DOMAIN channelReplies = 1..Len(channelReplies) /\ Len(channelReplies) \in Nat
          /\ DOMAIN channelReplies' = 1..m
          /\ \A i \in DOMAIN channelReplies :
                channelReplies'[i] = channelReplies[i] /\ channelReplies[i] \in M!Replies
          /\ channelReplies'[m] = r
      BY <1>0, <1>1, <1>7, <2>1, ReplySent
    <3> QED
      BY <1>0, <2>1, <3>1
  <2>2. CASE ch \notin subscribed
    <3>1. channelReplies \in Seq(M!Replies)
      BY <1>1 DEF M!QueueType
    <3>2. DOMAIN channelReplies = 1..Len(channelReplies) /\ Len(channelReplies) \in Nat
      BY <3>1
    <3>3. \A i \in DOMAIN channelReplies : i < m /\ i \in Nat
      BY <1>0, <3>2
    <3>4. \A i \in DOMAIN channelReplies : channelReplies[i] \in M!Replies
      BY <3>1
    <3>5. channelReplies' = channelReplies
      BY <1>7, <2>2
    <3> QED
      BY <2>2, <3>1, <3>3, <3>4, <3>5
  <2> QED
    BY <2>1, <2>2
<1>9. \A i \in DOMAIN channelReplies :
          channelReplies[i].number \in Nat /\ channelReplies[i].channel \in Channel
  BY <1>8 DEF M!Replies
<1>10. \A i \in DOMAIN channelReplies' :
          channelReplies'[i].type # "message" => i \in DOMAIN channelReplies
  BY <1>6, <1>8
<1>11. \A d : \A t \in {"subscribe", "refused"} : M!HasReply(d, t)' <=> M!HasReply(d, t)
  <2>1. \A i \in DOMAIN channelReplies :
            M!Awaited(channelReplies[i])' <=> M!Awaited(channelReplies[i])
    BY <1>2, <1>8 DEF M!Awaited
  <2> QED
    BY <1>8, <1>10, <2>1 DEF M!HasReply
<1>12. /\ \A i \in DOMAIN commands' : i \in Nat /\ i + 0 = i
       /\ \A i : M!IsLast(i)' <=> M!IsLast(i)
       /\ \A d : M!NoCommand(d)' <=> M!NoCommand(d)
  BY <1>1, <1>2, CommandsKept
<1>13. M!TypeOK'
  <2>1. M!LinkType'
    BY <1>1, <1>2 DEF M!TypeOK, M!LinkType
  <2>2. M!QueueType'
    BY <1>1, <1>2, <1>8 DEF M!QueueType, M!Commands, M!Replies
  <2>3. M!MessageType'
    BY <1>1, <1>2, <1>5 DEF M!TypeOK, M!MessageType
  <2> QED
    BY <2>1, <2>2, <2>3 DEF M!TypeOK
<1>14. M!LinkInv'
  BY <1>1, <1>2 DEF M!LinkInv
<1>15. M!NumberInv'
  BY <1>1, <1>2, <1>8, <1>10 DEF M!NumberInv
<1>16. M!CommandInv'
  BY <1>1, <1>2, <1>11, <1>12 DEF M!CommandInv, M!Awaited
<1>17. M!ConnectedInv'
  BY <1>1, <1>2, <1>11, <1>12 DEF M!ConnectedInv, M!Connected
<1>18. \A d \in Channel : published[d] <= published'[d] /\ published[d] \in Nat
  BY <1>3, <1>4, <1>5
<1>19. M!OrderInv'
  <2>1. \A i \in DOMAIN channelReplies : channelReplies[i].type = "message" =>
            channelReplies[i].number <= published[channelReplies[i].channel]
    BY <1>1 DEF M!OrderInv
  <2>2. ASSUME NEW i \in DOMAIN channelReplies', channelReplies'[i].type = "message"
        PROVE  channelReplies'[i].number <= published'[channelReplies'[i].channel]
    <3>1. CASE i \in DOMAIN channelReplies
      <4>1. PICK d \in Channel : d = channelReplies[i].channel
        BY <1>9, <3>1
      <4> QED
        BY <1>5, <1>8, <1>9, <1>18, <2>1, <2>2, <3>1, <4>1
    <3>2. CASE channelReplies'[i] = r
      BY <1>5, <1>6, <3>2
    <3> QED
      BY <1>8, <3>1, <3>2
  <2>3. ASSUME NEW i \in DOMAIN channelReplies', NEW j \in DOMAIN channelReplies', i < j,
               channelReplies'[i].type = "message", M!IsMessage(j, channelReplies[i].channel)'
        PROVE  channelReplies'[i].number < channelReplies'[j].number
    <3>1. channelReplies'[j].type = "message" /\ channelReplies'[j].channel = channelReplies'[i].channel
      BY <2>3 DEF M!IsMessage
    <3>2. CASE j \in DOMAIN channelReplies
      <4>1. i \in DOMAIN channelReplies
        BY <1>8, <2>3, <3>2
      <4> QED
        BY <1>1, <1>8, <2>3, <3>1, <3>2, <4>1 DEF M!OrderInv, M!IsMessage
    <3>3. CASE j = m /\ channelReplies'[j] = r
      <4>1. i \in DOMAIN channelReplies
        BY <1>0, <1>8, <2>3, <3>3
      <4>2. channelReplies[i].channel = ch /\ channelReplies'[i] = channelReplies[i]
        BY <1>6, <1>8, <3>1, <3>3, <4>1
      <4>3. channelReplies[i].number <= published[ch]
        BY <2>1, <2>3, <4>1, <4>2
      <4> QED
        BY <1>3, <1>4, <1>6, <1>9, <3>3, <4>1, <4>2, <4>3
    <3> QED
      BY <1>8, <3>2, <3>3
  <2>4. ASSUME NEW i \in DOMAIN channelReplies', channelReplies'[i].type = "message",
               \/ M!Connected(channelReplies[i].channel)'
               \/ \E h \in DOMAIN channelReplies' :
                     /\ h < i /\ channelReplies'[h].channel = channelReplies'[i].channel
                     /\ channelReplies'[h].type = "subscribe" /\ M!Awaited(channelReplies[h])'
        PROVE  M!IsFollowed(i)'
    <3>1. CASE i \in DOMAIN channelReplies
      <4>1. channelReplies'[i] = channelReplies[i]
        BY <1>8, <3>1
      <4>2. \/ M!Connected(channelReplies[i].channel)
            \/ \E h \in DOMAIN channelReplies :
                  /\ h < i /\ channelReplies[h].channel = channelReplies[i].channel
                  /\ channelReplies[h].type = "subscribe" /\ M!Awaited(channelReplies[h])
        <5>1. M!Connected(channelReplies[i].channel)' => M!Connected(channelReplies[i].channel)
          BY <1>2, <4>1 DEF M!Connected
        <5>2. \A h \in DOMAIN channelReplies' : channelReplies'[h].type = "subscribe" =>
                  h \in DOMAIN channelReplies /\ channelReplies'[h] = channelReplies[h]
          BY <1>8, <1>10
        <5>3. \A h \in DOMAIN channelReplies :
                  M!Awaited(channelReplies[h])' => M!Awaited(channelReplies[h])
          BY <1>2, <1>8 DEF M!Awaited
        <5> QED
          BY <2>4, <4>1, <5>1, <5>2, <5>3
      <4>3. M!IsFollowed(i)
        BY <1>1, <2>4, <3>1, <4>1, <4>2 DEF M!OrderInv
      <4>4. CASE channelReplies[i].channel = ch /\ channelReplies[i].number = published[ch]
        <5>1. M!Connected(ch) \/ M!HasReply(ch, "subscribe")
          BY <4>2, <4>4 DEF M!HasReply
        <5>2. ch \in subscribed
          BY <1>1, <5>1 DEF M!ConnectedInv
        <5>3. m \in DOMAIN channelReplies' /\ channelReplies'[m] = r /\ m > i
          BY <1>0, <1>8, <3>1, <5>2
        <5>4. channelReplies'[m].number = channelReplies'[i].number + 1
          BY <1>4, <1>6, <4>1, <4>4, <5>3
        <5>5. \A d, j : d = ch /\ j = m => M!IsMessage(j, d)'
          BY <1>6, <5>3 DEF M!IsMessage
        <5> QED
          BY <4>1, <4>4, <5>3, <5>4, <5>5 DEF M!IsFollowed, M!IsMessage
      <4>5. CASE channelReplies[i].channel # ch /\ channelReplies[i].number = published[channelReplies[i].channel]
        BY <1>5, <1>9, <3>1, <4>1, <4>5 DEF M!IsFollowed
      <4>6. ASSUME NEW j \in DOMAIN channelReplies, j > i,
                   M!IsMessage(j, channelReplies[i].channel),
                   channelReplies[j].number = channelReplies[i].number + 1
            PROVE  M!IsFollowed(i)'
        <5>1. j \in DOMAIN channelReplies' /\ channelReplies'[j] = channelReplies[j]
          BY <1>8
        <5> QED
          BY <4>1, <4>6, <5>1 DEF M!IsFollowed, M!IsMessage
      <4> QED
        BY <4>3, <4>4, <4>5, <4>6 DEF M!IsFollowed
    <3>2. CASE channelReplies'[i] = r
      BY <1>5, <1>6, <3>2 DEF M!IsFollowed
    <3> QED
      BY <1>8, <3>1, <3>2
  <2> QED
    BY <2>2, <2>3, <2>4 DEF M!OrderInv
<1>20. M!HeardInv'
  <2>1. (\A o \in Observer : \A k \in DOMAIN heard[o] : k > 1 => heard[o][k] = heard[o][k - 1] + 1)'
    BY <1>1, <1>2 DEF M!HeardInv
  <2>2. ASSUME NEW d \in Channel, NEW o \in observers'[d], heard'[o] # <<>>
        PROVE  /\ link'[d].at = "up"
               /\ M!Heard(o)' = published'[d] \/ \E i \in DOMAIN channelReplies' :
                      M!IsMessage(i, d)' /\ channelReplies'[i].number = M!Heard(o)' + 1
               /\ \A i \in DOMAIN channelReplies' :
                      M!IsMessage(i, d)' => channelReplies'[i].number > M!Heard(o)'
    <3>1. /\ M!Heard(o)' = M!Heard(o) /\ o \in observers[d] /\ heard[o] # <<>> /\ o \in Observer
          /\ M!Heard(o) \in Nat
      <4>1. o \in observers[d] /\ heard[o] # <<>> /\ o \in Observer /\ heard[o] \in Seq(Nat)
        BY <1>1, <1>2, <2>2 DEF M!TypeOK, M!LinkType, M!MessageType
      <4> QED
        BY <1>2, <4>1 DEF M!Heard
    <3>2. /\ link[d].at = "up"
          /\ M!Heard(o) = published[d] \/ \E i \in DOMAIN channelReplies :
                 M!IsMessage(i, d) /\ channelReplies[i].number = M!Heard(o) + 1
          /\ \A i \in DOMAIN channelReplies :
                 M!IsMessage(i, d) => channelReplies[i].number > M!Heard(o)
      BY <1>1, <3>1 DEF M!HeardInv
    <3>3. \A i \in DOMAIN channelReplies :
              i \in DOMAIN channelReplies' /\ channelReplies'[i] = channelReplies[i]
              /\ (M!IsMessage(i, d)' <=> M!IsMessage(i, d))
      BY <1>8 DEF M!IsMessage
    <3>4. \A i \in DOMAIN channelReplies' : M!IsMessage(i, d)' =>
              \/ i \in DOMAIN channelReplies
              \/ d = ch /\ i = m /\ channelReplies'[i] = r
      BY <1>6, <1>8 DEF M!IsMessage
    <3>5. d = ch => /\ m \in DOMAIN channelReplies' /\ channelReplies'[m] = r
                    /\ \A i : i = m => M!IsMessage(i, d)'
      <4>1. d = ch => ch \in subscribed
        BY <1>1, <3>2 DEF M!ConnectedInv, M!Connected
      <4> QED
        BY <1>6, <1>8, <4>1 DEF M!IsMessage
    <3>6. M!Heard(o) <= published[d]
      <4>1. CASE M!Heard(o) = published[d]
        BY <1>18, <4>1
      <4>2. ASSUME NEW i \in DOMAIN channelReplies, M!IsMessage(i, d),
                   channelReplies[i].number = M!Heard(o) + 1
            PROVE  M!Heard(o) <= published[d]
        <5>1. channelReplies[i].number <= published[d]
          BY <1>1, <4>2 DEF M!OrderInv, M!IsMessage
        <5> QED
          BY <1>18, <3>1, <4>2, <5>1
      <4> QED
        BY <3>2, <4>1, <4>2
    <3>7. M!Heard(o) = published'[d] \/ \E i \in DOMAIN channelReplies' :
                      M!IsMessage(i, d)' /\ channelReplies'[i].number = M!Heard(o) + 1
      BY <1>4, <1>5, <1>6, <3>2, <3>3, <3>5
    <3>8. \A i \in DOMAIN channelReplies' : M!IsMessage(i, d)' => channelReplies'[i].number > M!Heard(o)
      BY <1>4, <1>6, <1>18, <3>1, <3>2, <3>3, <3>4, <3>6
    <3> QED
      BY <1>2, <3>1, <3>2, <3>7, <3>8
  <2> QED
    BY <2>1, <2>2 DEF M!HeardInv
<1> QED
  BY <1>13, <1>14, <1>15, <1>16, <1>17, <1>19, <1>20 DEF M!IInv

LEMMA BusStep == M!IInv /\ [M!Next]_messageVars => M!IInv'
<1> SUFFICES ASSUME M!IInv, [M!Next]_messageVars PROVE M!IInv'
  OBVIOUS
<1>1. ASSUME NEW o \in Observer, M!Observe(o) PROVE M!IInv'
  BY <1>1, FirstObserverStep, OtherObserverStep
<1>2. ASSUME NEW o \in Observer, M!Leave(o) PROVE M!IInv'
  BY <1>2, LastLeavesStep, OtherLeavesStep
<1>3. CASE M!ReplyResolves
  BY <1>3, ResolvesStep
<1>4. CASE M!ReplyRejects
  BY <1>4, RejectsStep
<1>5. CASE M!Receive
  BY <1>5, ReceiveStep
<1>6. ASSUME NEW ch \in Channel, M!LinkIsUp(ch) PROVE M!IInv'
  BY <1>6, LinkIsUpStep
<1>7. ASSUME NEW ch \in Channel, M!publish(ch) PROVE M!IInv'
  BY <1>7, PublishStep
<1>8. CASE M!ServerSubscribes
  BY <1>8, ServerSubscribesStep
<1>9. CASE M!ServerUnsubscribes
  BY <1>9, ServerUnsubscribesStep
<1>10. CASE UNCHANGED messageVars
  <2>1. UNCHANGED <<observers, link, commands, channelReplies, subscribed, sent, published, heard>>
    BY <1>10 DEF messageVars
  <2>2. M!TypeOK'
    BY <2>1 DEF M!IInv, M!TypeOK, M!LinkType, M!QueueType, M!MessageType, M!Commands, M!Replies
  <2>3. M!LinkInv' /\ M!NumberInv'
    BY <2>1 DEF M!IInv, M!LinkInv, M!NumberInv
  <2>4. M!CommandInv'
    BY <2>1 DEF M!IInv, M!CommandInv, M!IsLast, M!NoCommand, M!HasReply, M!Awaited
  <2>5. M!ConnectedInv'
    BY <2>1 DEF M!IInv, M!ConnectedInv, M!Connected, M!NoCommand, M!HasReply, M!Awaited
  <2>6. M!OrderInv'
    BY <2>1 DEF M!IInv, M!OrderInv, M!Connected, M!IsMessage, M!IsFollowed, M!Awaited
  <2>7. M!HeardInv'
    BY <2>1 DEF M!IInv, M!HeardInv, M!Heard, M!IsMessage
  <2> QED
    BY <2>2, <2>3, <2>4, <2>5, <2>6, <2>7 DEF M!IInv
<1> QED
  BY <1>1, <1>2, <1>3, <1>4, <1>5, <1>6, <1>7, <1>8, <1>9, <1>10 DEF M!Next

LEMMA BusMessagesArrive == M!IInv => M!MessagesArrive
<1> SUFFICES ASSUME M!IInv PROVE M!MessagesArrive
  OBVIOUS
<1>1. M!TypeOK /\ M!LinkInv /\ M!CommandInv /\ M!ConnectedInv /\ M!HeardInv
  BY DEF M!IInv
<1>2. ASSUME NEW ch \in Channel, M!WillBeSubscribed(ch) PROVE observers[ch] # {}
  <2>1. CASE M!NoCommand(ch) /\ ch \in subscribed
    BY <1>1, <2>1 DEF M!CommandInv, M!LinkInv
  <2>2. ASSUME NEW i \in DOMAIN commands,
               commands[i].channel = ch, M!IsLast(i), commands[i].type = "subscribe"
        PROVE  observers[ch] # {}
    <3>1. M!Awaited(commands[i])
      BY <1>1, <2>2 DEF M!CommandInv
    <3>2. link[ch].at = "subscribing"
      BY <2>2, <3>1, AwaitedAt
    <3> QED
      BY <1>1, <3>2 DEF M!LinkInv
  <2> QED
    BY <1>2, <2>1, <2>2 DEF M!WillBeSubscribed
<1>3. ASSUME NEW ch \in Channel, observers[ch] # {}
      PROVE  M!WillBeSubscribed(ch) \/ M!IsRefused(ch)
  <2>1. link[ch].at \in {"subscribing", "resolved", "up"}
    BY <1>1, <1>3 DEF M!LinkInv, M!TypeOK, M!LinkType
  <2>2. CASE M!Connected(ch) \/ M!HasReply(ch, "subscribe")
    BY <1>1, <2>2 DEF M!ConnectedInv, M!WillBeSubscribed
  <2>3. CASE M!HasReply(ch, "refused")
    BY <2>3 DEF M!IsRefused
  <2>4. ASSUME NEW i \in DOMAIN commands, commands[i].channel = ch,
               commands[i].type = "subscribe", M!Awaited(commands[i])
        PROVE  M!WillBeSubscribed(ch)
    BY <1>1, <2>4 DEF M!CommandInv, M!WillBeSubscribed
  <2> QED
    BY <1>1, <2>1, <2>2, <2>3, <2>4 DEF M!CommandInv, M!Connected
<1>4. ASSUME NEW o \in Observer, NEW ch \in Channel, ch = ChannelOf[o],
             o \in observers[ch], heard[o] # <<>>
      PROVE  \/ M!Heard(o) = published[ch]
             \/ \E i \in DOMAIN channelReplies :
                   channelReplies[i] = M!Message(ch, M!Heard(o) + 1)
  <2>1. M!Heard(o) = M!Heard(o)
    BY DEF M!Heard
  <2>2. ASSUME NEW i \in DOMAIN channelReplies, M!IsMessage(i, ch),
               channelReplies[i].number = M!Heard(o) + 1
        PROVE  channelReplies[i] = M!Message(ch, M!Heard(o) + 1)
    <3>1. channelReplies[i] \in M!Replies
      BY <1>1 DEF M!TypeOK, M!QueueType
    <3> QED
      BY <2>1, <2>2, <3>1 DEF M!Replies, M!Message, M!IsMessage
  <2> QED
    BY <1>1, <1>4, <2>1, <2>2 DEF M!HeardInv
<1>5. \A o \in Observer : ChannelOf[o] \in Channel
  BY ChannelAssumption
<1> QED
  BY <1>1, <1>2, <1>3, <1>4, <1>5 DEF M!MessagesArrive, M!HeardInv

-----------------------------------------------------------------------------
(* BroadcastBus.                                                               *)

broadcastVars ==
    <<disposed, channel, observed, publishing, arriving, senders, told, heardBy, posted,
      rejected, due>>

\* What a sequence holds when it grows, when its last element leaves, and when any
\* other does.
LEMMA SetOfAppend ==
  ASSUME NEW T, NEW q \in Seq(T), NEW e \in T
  PROVE  B!Range(Append(q, e)) = B!Range(q) \cup {e}
<1>1. /\ DOMAIN q = 1..Len(q) /\ Len(q) \in Nat
      /\ DOMAIN Append(q, e) = 1..(Len(q) + 1)
      /\ \A i \in DOMAIN q : Append(q, e)[i] = q[i]
      /\ Append(q, e)[Len(q) + 1] = e
  BY AppendIndices
<1>2. Len(q) + 1 \in DOMAIN Append(q, e) /\ \A i \in DOMAIN q : i \in DOMAIN Append(q, e)
  BY <1>1
<1>3. \A i \in DOMAIN Append(q, e) : i \in DOMAIN q \/ i = Len(q) + 1
  BY <1>1
<1> QED
  BY <1>1, <1>2, <1>3 DEF B!Range

LEMMA FrontIndices ==
  ASSUME NEW T, NEW q \in Seq(T), q # <<>>
  PROVE  /\ B!Returned(q) \in Seq(T)
         /\ DOMAIN q = 1..Len(q) /\ Len(q) \in Nat /\ Len(q) >= 1
         /\ DOMAIN B!Returned(q) = 1..(Len(q) - 1) /\ Len(B!Returned(q)) = Len(q) - 1
         /\ \A i \in 1..(Len(q) - 1) : B!Returned(q)[i] = q[i]
         /\ q[Len(q)] \in T
         /\ B!Range(q) = B!Range(B!Returned(q)) \cup {q[Len(q)]}
<1>1. DOMAIN q = 1..Len(q) /\ Len(q) \in Nat /\ Len(q) >= 1
  OBVIOUS
<1>2. /\ B!Returned(q) \in Seq(T)
      /\ DOMAIN B!Returned(q) = 1..(Len(q) - 1) /\ Len(B!Returned(q)) = Len(q) - 1
      /\ \A i \in 1..(Len(q) - 1) : B!Returned(q)[i] = q[i]
  BY <1>1 DEF B!Returned
<1>3. q[Len(q)] \in T
  BY <1>1
<1>4. /\ \A i \in DOMAIN q : i \in DOMAIN B!Returned(q) \/ i = Len(q)
      /\ \A i \in DOMAIN B!Returned(q) : i \in DOMAIN q
      /\ Len(q) \in DOMAIN q
  BY <1>1, <1>2
<1> QED
  BY <1>1, <1>2, <1>3, <1>4 DEF B!Range

LEMMA RemoveIndices ==
  ASSUME NEW T, NEW q \in Seq(T), NEW i \in DOMAIN q
  PROVE  /\ B!Without(q, i) \in Seq(T)
         /\ \A j \in DOMAIN B!Without(q, i) :
               \/ j < i /\ j \in DOMAIN q /\ B!Without(q, i)[j] = q[j]
               \/ j >= i /\ j + 1 \in DOMAIN q /\ B!Without(q, i)[j] = q[j + 1]
         /\ DOMAIN q \subseteq Nat /\ DOMAIN B!Without(q, i) \subseteq Nat
         /\ B!Range(q) = B!Range(B!Without(q, i)) \cup {q[i]}
<1> DEFINE r == B!Without(q, i)
<1>1. DOMAIN q = 1..Len(q) /\ Len(q) \in Nat /\ i \in 1..Len(q)
  OBVIOUS
<1>2. /\ SubSeq(q, 1, i - 1) \in Seq(T) /\ Len(SubSeq(q, 1, i - 1)) = i - 1
      /\ \A j \in 1..(i - 1) : SubSeq(q, 1, i - 1)[j] = q[j]
  BY <1>1
<1>3. /\ SubSeq(q, i + 1, Len(q)) \in Seq(T) /\ Len(SubSeq(q, i + 1, Len(q))) = Len(q) - i
      /\ \A j \in 1..(Len(q) - i) : SubSeq(q, i + 1, Len(q))[j] = q[j + i]
  BY <1>1
<1>4. r \in Seq(T) /\ DOMAIN r = 1..(Len(q) - 1)
  BY <1>1, <1>2, <1>3 DEF B!Without
<1>5. \A j \in 1..(i - 1) : r[j] = q[j]
  BY <1>1, <1>2, <1>3 DEF B!Without
<1>6. \A j \in i..(Len(q) - 1) : r[j] = q[j + 1]
  <2> SUFFICES ASSUME NEW j \in i..(Len(q) - 1) PROVE r[j] = q[j + 1]
    OBVIOUS
  <2>1. j - (i - 1) \in 1..(Len(q) - i) /\ (j - (i - 1)) + i = j + 1 /\ j \notin 1..(i - 1)
    BY <1>1
  <2>2. PICK s \in Seq(T), t \in Seq(T) :
            s = SubSeq(q, 1, i - 1) /\ t = SubSeq(q, i + 1, Len(q))
    BY <1>2, <1>3
  <2>3. Len(s) = i - 1 /\ Len(t) = Len(q) - i
    BY <1>2, <1>3, <2>2
  <2>4. (s \o t)[j] = t[j - Len(s)]
    <3>1. j \in 1..(Len(s) + Len(t)) /\ ~(j <= Len(s))
      BY <1>1, <2>3
    <3> QED
      BY <3>1
  <2>5. r[j] = t[j - (i - 1)]
    BY <2>2, <2>3, <2>4 DEF B!Without
  <2> QED
    BY <1>3, <2>1, <2>2, <2>5
<1> HIDE DEF r
<1>7. \A j \in DOMAIN r :
               \/ j < i /\ j \in DOMAIN q /\ r[j] = q[j]
               \/ j >= i /\ j + 1 \in DOMAIN q /\ r[j] = q[j + 1]
  BY <1>1, <1>4, <1>5, <1>6
<1>8. \A k \in DOMAIN q : k = i \/ \E j \in DOMAIN r : r[j] = q[k]
  <2> SUFFICES ASSUME NEW k \in DOMAIN q, k # i PROVE \E j \in DOMAIN r : r[j] = q[k]
    OBVIOUS
  <2>1. CASE k < i
    <3>1. k \in DOMAIN r /\ k \in 1..(i - 1)
      BY <1>1, <1>4, <2>1
    <3> QED
      BY <1>5, <3>1
  <2>2. CASE k > i
    <3>1. k - 1 \in DOMAIN r /\ k - 1 \in i..(Len(q) - 1) /\ (k - 1) + 1 = k
      BY <1>1, <1>4, <2>2
    <3> QED
      BY <1>6, <3>1
  <2> QED
    BY <1>1, <2>1, <2>2
<1>9. B!Range(q) = B!Range(r) \cup {q[i]}
  <2>1. B!Range(q) \subseteq B!Range(r) \cup {q[i]}
    BY <1>8 DEF B!Range
  <2>2. B!Range(r) \subseteq B!Range(q)
    BY <1>7 DEF B!Range
  <2>3. q[i] \in B!Range(q)
    BY DEF B!Range
  <2> QED
    BY <2>1, <2>2, <2>3
<1> QED
  BY <1>1, <1>4, <1>7, <1>9 DEF r

LEMMA BroadcastInit == B!Init => B!IInv
<1> SUFFICES ASSUME B!Init PROVE B!IInv
  OBVIOUS
<1> USE DEF B!Init
<1>1. B!TypeOK /\ B!ChannelInv
  BY DEF B!TypeOK, B!ChannelInv
<1>2. B!Range(<<>>) = {} /\ DOMAIN <<>> = {}
  BY DEF B!Range
<1>3. B!PlaceInv
  <2>1. \A b \in Client : B!Range(publishing[b]) = {}
    BY <1>2
  <2>2. \A b \in Client : B!Publishing(b)
    BY <1>2 DEF B!Publishing
  <2> QED
    BY <1>2, <2>1, <2>2 DEF B!PlaceInv
<1>4. B!ToldInv
  BY <1>2 DEF B!ToldInv
<1>5. B!ArrivalInv
  BY <1>2 DEF B!ArrivalInv, B!Arrival, B!InOrder
<1> QED
  BY <1>1, <1>3, <1>4, <1>5 DEF B!IInv

\* Messages are published and posted, none is taken back.
LEMMA OrderKept ==
  ASSUME B!TypeOK,
         posted' = posted \/ \E x \in Nat : posted' = Append(posted, x),
         senders' = senders \/ \E b \in Client : senders' = Append(senders, b)
  PROVE  /\ \A m, n : B!Before(m, n) => B!Before(m, n)'
         /\ B!Range(posted) \subseteq B!Range(posted)'
         /\ \A m \in DOMAIN senders : m \in DOMAIN senders' /\ senders'[m] = senders[m]
         /\ \A s : (\A i \in DOMAIN s : s[i] \in DOMAIN senders) /\ B!InOrder(s) => B!InOrder(s)'
<1>1. posted \in Seq(Nat) /\ senders \in Seq(Client)
  BY DEF B!TypeOK
<1>2. \A i \in DOMAIN posted : i \in DOMAIN posted' /\ posted'[i] = posted[i]
  <2>1. CASE posted' = posted
    BY <2>1
  <2>2. ASSUME NEW x \in Nat, posted' = Append(posted, x)
        PROVE  \A i \in DOMAIN posted : i \in DOMAIN posted' /\ posted'[i] = posted[i]
    BY <1>1, <2>2, AppendIndices
  <2> QED
    BY <2>1, <2>2
<1>3. \A m \in DOMAIN senders : m \in DOMAIN senders' /\ senders'[m] = senders[m]
  <2>1. CASE senders' = senders
    BY <2>1
  <2>2. ASSUME NEW b \in Client, senders' = Append(senders, b)
        PROVE  \A m \in DOMAIN senders : m \in DOMAIN senders' /\ senders'[m] = senders[m]
    BY <1>1, <2>2, AppendIndices
  <2> QED
    BY <2>1, <2>2
<1>4. \A m, n : B!Before(m, n) => B!Before(m, n)'
  BY <1>2 DEF B!Before
<1>5. B!Range(posted) \subseteq B!Range(posted)'
  BY <1>2 DEF B!Range
<1>6. ASSUME NEW s, \A i \in DOMAIN s : s[i] \in DOMAIN senders, B!InOrder(s)
      PROVE  B!InOrder(s)'
  BY <1>3, <1>4, <1>6 DEF B!InOrder
<1> QED
  BY <1>3, <1>4, <1>5, <1>6

\* Whatever happens that delivers nothing and posts nothing: messages on their way
\* may be dropped with those that are due.
LEMMA ArrivalKept ==
  ASSUME B!TypeOK, B!PlaceInv, B!ArrivalInv, UNCHANGED <<heardBy, posted>>,
         senders' = senders \/ \E b \in Client : senders' = Append(senders, b),
         \A b \in Client :
            \/ arriving'[b] = arriving[b] /\ due'[b] \subseteq due[b]
            \/ arriving'[b] = <<>> /\ due'[b] = {}
  PROVE  B!ArrivalInv'
<1>1. /\ \A m, n : B!Before(m, n) => B!Before(m, n)'
      /\ \A m \in DOMAIN senders : m \in DOMAIN senders' /\ senders'[m] = senders[m]
      /\ \A s : (\A i \in DOMAIN s : s[i] \in DOMAIN senders) /\ B!InOrder(s) => B!InOrder(s)'
  BY OrderKept
<1>2. B!Range(posted) \subseteq DOMAIN senders
  BY DEF B!PlaceInv
<1> SUFFICES ASSUME NEW b \in Client PROVE B!Arrival(b)'
  BY DEF B!ArrivalInv
<1>3. B!Arrival(b)
  BY DEF B!ArrivalInv
<1>4. PICK h \in Seq(Nat), a \in Seq(Nat) : h = heardBy[b] /\ a = arriving[b]
  BY DEF B!TypeOK
<1>5. /\ due[b] \subseteq B!Range(h) \cup B!Range(a)
      /\ \A m \in B!Range(h) \cup B!Range(a) : m \in B!Range(posted) /\ senders[m] # b
      /\ B!InOrder(h) /\ B!InOrder(a)
      /\ \A m \in B!Range(h), n \in B!Range(a) :
            m # n /\ (senders[m] = senders[n] => B!Before(m, n))
  BY <1>3, <1>4 DEF B!Arrival
<1>6. \A m \in B!Range(h) \cup B!Range(a) : m \in DOMAIN senders
  BY <1>2, <1>5
<1>7. B!InOrder(h)' /\ B!InOrder(a)'
  BY <1>1, <1>5, <1>6 DEF B!Range
<1>8. /\ \A m \in B!Range(h) \cup B!Range(a) : m \in B!Range(posted) /\ senders'[m] # b
      /\ \A m \in B!Range(h), n \in B!Range(a) :
            m # n /\ (senders'[m] = senders'[n] => B!Before(m, n)')
  BY <1>1, <1>5, <1>6
<1>9. B!Range(<<>>) = {}
  BY DEF B!Range
<1>10. B!InOrder(<<>>)'
  BY DEF B!InOrder
<1>11. PICK e \in Seq(Nat), d \in SUBSET Nat : e = arriving'[b] /\ d = due'[b]
  <2>1. due'[b] \subseteq Nat /\ arriving'[b] \in Seq(Nat)
    <3>1. due[b] \subseteq Nat /\ arriving[b] \in Seq(Nat) /\ <<>> \in Seq(Nat)
      BY DEF B!TypeOK
    <3>2. \/ arriving'[b] = arriving[b] /\ due'[b] \subseteq due[b]
          \/ arriving'[b] = <<>> /\ due'[b] = {}
      OBVIOUS
    <3> QED
      BY <3>1, <3>2
  <2> QED
    BY <2>1
<1>12. \/ e = a /\ d \subseteq due[b]
       \/ e = <<>> /\ d = {}
  BY <1>4, <1>11
<1>13. /\ d \subseteq B!Range(h) \cup B!Range(e)
       /\ \A m \in B!Range(h) \cup B!Range(e) : m \in B!Range(posted) /\ senders'[m] # b
       /\ B!InOrder(h)' /\ B!InOrder(e)'
       /\ \A m \in B!Range(h), n \in B!Range(e) :
             m # n /\ (senders'[m] = senders'[n] => B!Before(m, n)')
  BY <1>5, <1>7, <1>8, <1>9, <1>10, <1>12
<1>14. B!InOrder(heardBy[b])' /\ B!InOrder(arriving[b])'
  BY <1>4, <1>11, <1>13 DEF B!InOrder
<1>15. B!Range(heardBy[b])' = B!Range(h) /\ B!Range(arriving[b])' = B!Range(e)
       /\ B!Range(posted)' = B!Range(posted)
  BY <1>4, <1>11 DEF B!Range
<1> QED
  BY <1>11, <1>13, <1>14, <1>15 DEF B!Arrival

\* A bus is observed or left, or disposed.
LEMMA ObservedStep ==
  ASSUME B!IInv, NEW b \in Client, B!Observe(b) \/ B!Leave(b) \/ B!Dispose(b)
  PROVE  B!IInv'
<1>1. B!TypeOK /\ B!ChannelInv /\ B!PlaceInv /\ B!ToldInv /\ B!ArrivalInv
  BY DEF B!IInv
<1>2. UNCHANGED <<publishing, senders, told, heardBy, posted, rejected>>
  BY DEF B!Observe, B!Leave, B!Dispose, B!progress
<1>3. B!TypeOK'
  <2>1. CASE B!Observe(b)
    BY <1>1, <1>2, <2>1 DEF B!TypeOK, B!Observe, B!progress
  <2>2. CASE B!Leave(b)
    BY <1>1, <1>2, <2>2 DEF B!TypeOK, B!Leave
  <2>3. CASE B!Dispose(b)
    BY <1>1, <1>2, <2>3 DEF B!TypeOK, B!Dispose
  <2> QED
    BY <2>1, <2>2, <2>3
<1>4. B!ChannelInv'
  <2>1. CASE B!Observe(b)
    BY <1>1, <2>1 DEF B!TypeOK, B!ChannelInv, B!Observe, B!progress
  <2>2. CASE B!Leave(b)
    BY <1>1, <2>2 DEF B!TypeOK, B!ChannelInv, B!Leave
  <2>3. CASE B!Dispose(b)
    BY <1>1, <2>3 DEF B!TypeOK, B!ChannelInv, B!Dispose
  <2> QED
    BY <2>1, <2>2, <2>3
<1>5. B!PlaceInv'
  BY <1>1, <1>2 DEF B!PlaceInv, B!Publishing
\* The program runs: the observers of the innermost call were told.
<1>6. B!ToldInv'
  <2>1. CASE UNCHANGED disposed
    BY <1>1, <1>2, <2>1 DEF B!ToldInv
  <2>2. CASE B!Dispose(b)
    <3>1. disposed' = [disposed EXCEPT ![b] = TRUE] /\ B!Runs(b)
      BY <2>2 DEF B!Dispose
    <3>2. ASSUME NEW c \in Client, NEW i \in DOMAIN publishing[c],
                 i < Len(publishing[c]) \/ disposed'[c]
          PROVE  publishing[c][i] \in told[c]
      <4>1. CASE i < Len(publishing[c]) \/ disposed[c]
        BY <1>1, <3>2, <4>1 DEF B!ToldInv
      <4>2. CASE ~(i < Len(publishing[c])) /\ ~disposed[c]
        <5>1. c = b
          BY <1>1, <3>1, <3>2, <4>2 DEF B!TypeOK
        <5>2. PICK q \in Seq(Nat) : q = publishing[b]
          BY <1>1 DEF B!TypeOK
        <5>3. q # <<>> /\ i = Len(q)
          BY <3>2, <4>2, <5>1, <5>2
        <5>4. q[Len(q)] \in told[b]
          BY <3>1, <5>2, <5>3 DEF B!Runs, B!Innermost
        <5> QED
          BY <5>1, <5>2, <5>3, <5>4
      <4> QED
        BY <4>1, <4>2
    <3> QED
      BY <1>1, <1>2, <3>2 DEF B!ToldInv
  <2> QED
    BY <2>1, <2>2 DEF B!Observe, B!Leave
<1>7. B!ArrivalInv'
  <2>1. \A c \in Client :
            \/ arriving'[c] = arriving[c] /\ due'[c] \subseteq due[c]
            \/ arriving'[c] = <<>> /\ due'[c] = {}
    <3>1. CASE B!Observe(b)
      BY <3>1 DEF B!Observe, B!progress
    <3>2. CASE B!Leave(b)
      BY <1>1, <3>2 DEF B!Leave, B!TypeOK
    <3>3. CASE B!Dispose(b)
      BY <1>1, <3>3 DEF B!Dispose, B!TypeOK
    <3> QED
      BY <3>1, <3>2, <3>3
  <2> QED
    BY <1>1, <1>2, <2>1, ArrivalKept
<1> QED
  BY <1>3, <1>4, <1>5, <1>6, <1>7 DEF B!IInv

\* publish() tells the observers.
LEMMA TellsStep ==
  ASSUME B!IInv, NEW b \in Client, B!publish(b)
  PROVE  B!IInv'
<1>1. B!TypeOK /\ B!ChannelInv /\ B!PlaceInv /\ B!ToldInv /\ B!ArrivalInv
  BY DEF B!IInv
<1>2. /\ B!Runs(b) /\ ~disposed[b] /\ senders' = Append(senders, b)
      /\ publishing' = [publishing EXCEPT ![b] = Append(@, Len(senders'))]
      /\ told' = IF observed[b] THEN [told EXCEPT ![b] = @ \cup {Len(senders')}] ELSE told
      /\ UNCHANGED <<disposed, channel, observed, arriving, heardBy, posted, rejected, due>>
  BY DEF B!publish
<1>3. senders \in Seq(Client)
  BY <1>1 DEF B!TypeOK
<1>4. PICK n \in Nat : n = Len(senders) + 1
  BY <1>3
<1>5. /\ senders' \in Seq(Client) /\ DOMAIN senders' = DOMAIN senders \cup {n} /\ n \notin DOMAIN senders
      /\ \A m \in DOMAIN senders : senders'[m] = senders[m]
      /\ senders'[n] = b /\ Len(senders') = n
  <2>1. /\ senders' \in Seq(Client) /\ DOMAIN senders = 1..Len(senders) /\ Len(senders) \in Nat
        /\ DOMAIN senders' = 1..(Len(senders) + 1)
        /\ \A i \in DOMAIN senders : senders'[i] = senders[i]
        /\ senders'[Len(senders) + 1] = b
    BY <1>2, <1>3, AppendIndices
  <2>2. Len(senders') = n
    BY <1>2, <1>3, <1>4
  <2>3. 1..n = (1..Len(senders)) \cup {n} /\ n \notin 1..Len(senders)
    BY <1>4, <2>1
  <2> QED
    BY <1>4, <2>1, <2>2, <2>3
<1>6. PICK q \in Seq(Nat) : q = publishing[b]
  BY <1>1 DEF B!TypeOK
<1>7. /\ publishing'[b] = Append(q, n) /\ \A c \in Client : c # b => publishing'[c] = publishing[c]
      /\ publishing' \in [Client -> Seq(Nat)]
  BY <1>1, <1>2, <1>5, <1>6 DEF B!TypeOK
<1>8. /\ DOMAIN q = 1..Len(q) /\ Len(q) \in Nat
      /\ DOMAIN Append(q, n) = 1..(Len(q) + 1)
      /\ \A i \in DOMAIN q : Append(q, n)[i] = q[i]
      /\ Append(q, n)[Len(q) + 1] = n
      /\ B!Range(Append(q, n)) = B!Range(q) \cup {n}
      /\ Len(Append(q, n)) = Len(q) + 1
  BY AppendIndices, SetOfAppend
<1>9. \A m \in B!Range(q) : m \in DOMAIN senders
  BY <1>1, <1>6 DEF B!PlaceInv
<1>10. B!TypeOK'
  <2>1. told' \in [Client -> SUBSET Nat]
    BY <1>1, <1>2, <1>5 DEF B!TypeOK
  <2> QED
    BY <1>1, <1>2, <1>5, <1>7, <2>1 DEF B!TypeOK
<1>11. B!ChannelInv'
  BY <1>1, <1>2 DEF B!ChannelInv
<1>12. B!PlaceInv'
  <2>1. /\ DOMAIN senders = B!Range(posted) \cup rejected \cup UNION {B!Range(publishing[c]) : c \in Client}
        /\ B!Range(posted) \cap rejected = {} /\ \A c \in Client : B!Publishing(c)
    BY <1>1 DEF B!PlaceInv
  <2>2. /\ B!Range(publishing'[b]) = B!Range(publishing[b]) \cup {n}
        /\ \A c \in Client : c # b => B!Range(publishing'[c]) = B!Range(publishing[c])
    BY <1>6, <1>7, <1>8
  <2>3. PICK U : U = UNION {B!Range(publishing[c]) : c \in Client}
    OBVIOUS
  <2>7. PICK V : V = UNION {B!Range(publishing'[c]) : c \in Client}
    OBVIOUS
  <2>8. \A m : m \in U <=> \E c \in Client : m \in B!Range(publishing[c])
    BY <2>3
  <2>9. \A m : m \in V <=> \E c \in Client : m \in B!Range(publishing'[c])
    BY <2>7
  <2>10. V = U \cup {n}
    <3>1. \A m : m \in V <=> m \in U \/ m = n
      BY <2>2, <2>8, <2>9
    <3> QED
      BY <3>1
  <2>11. DOMAIN senders = B!Range(posted) \cup rejected \cup U
    BY <2>1, <2>3
  <2>4. DOMAIN senders' = B!Range(posted) \cup rejected \cup V
    BY <1>5, <2>10, <2>11
  <2>5. ASSUME NEW c \in Client PROVE B!Publishing(c)'
    <3>1. B!Publishing(c)
      BY <2>1
    <3>2. \A m \in B!Range(publishing[c]) : m \in DOMAIN senders
      BY <2>1
    <3>3. CASE c # b
      <4>1. publishing'[c] = publishing[c]
        BY <1>7, <3>3
      <4>2. B!Range(posted)' = B!Range(posted) /\ B!Range(publishing[c])' = B!Range(publishing[c])
        BY <1>2, <4>1 DEF B!Range
      <4> QED
        BY <1>2, <1>5, <3>1, <3>2, <4>1, <4>2 DEF B!Publishing
    <3>4. CASE c = b
      <4>1. \A i, j \in DOMAIN Append(q, n) : Append(q, n)[i] = Append(q, n)[j] => i = j
        <5>1. \A i \in DOMAIN q : q[i] # n
          BY <1>5, <1>9 DEF B!Range
        <5>2. \A i, j \in DOMAIN q : q[i] = q[j] => i = j
          BY <1>6, <3>1, <3>4 DEF B!Publishing
        <5>3. \A i \in DOMAIN Append(q, n) : i \in DOMAIN q \/ i = Len(q) + 1
          BY <1>8
        <5> QED
          BY <1>8, <5>1, <5>2, <5>3
      <4>2. \A m \in B!Range(Append(q, n)) :
                m \notin B!Range(posted) /\ m \notin rejected /\ senders'[m] = b
        <5>1. \A m \in B!Range(q) :
                  m \notin B!Range(posted) /\ m \notin rejected /\ senders[m] = b
          BY <1>6, <3>1, <3>4 DEF B!Publishing
        <5>2. n \notin B!Range(posted) /\ n \notin rejected
          BY <1>5, <2>1
        <5> QED
          BY <1>5, <1>8, <1>9, <5>1, <5>2
      <4>3. B!Range(posted)' = B!Range(posted) /\ B!Range(publishing[c])' = B!Range(Append(q, n))
        BY <1>2, <1>7, <3>4 DEF B!Range
      <4>4. publishing'[c] = Append(q, n)
        BY <1>7, <3>4
      <4>5. (\A i, j \in DOMAIN publishing[c] : publishing[c][i] = publishing[c][j] => i = j)'
        BY <4>1, <4>4
      <4>6. (\A m \in B!Range(publishing[c]) :
                m \notin B!Range(posted) /\ m \notin rejected /\ senders[m] = c)'
        BY <1>2, <3>4, <4>2, <4>3
      <4> QED
        BY <4>5, <4>6 DEF B!Publishing
    <3> QED
      BY <3>3, <3>4
  <2>6. /\ B!Range(posted)' = B!Range(posted)
        /\ (UNION {B!Range(publishing[c]) : c \in Client})' = V
    BY <1>2, <2>7 DEF B!Range
  <2> QED
    BY <1>2, <2>1, <2>4, <2>5, <2>6 DEF B!PlaceInv
<1>13. B!ToldInv'
  <2>1. \A c \in Client : told[c] \subseteq told'[c]
    BY <1>1, <1>2 DEF B!TypeOK
  <2>2. rejected' \subseteq UNION {told'[c] : c \in Client}
    <3>1. \A m \in rejected : \E c \in Client : m \in told[c]
      BY <1>1 DEF B!ToldInv
    <3> QED
      BY <1>2, <2>1, <3>1
  <2>3. ASSUME NEW c \in Client, NEW m \in told'[c] PROVE m \in DOMAIN senders' /\ senders'[m] = c
    <3>1. m \in told[c] \/ (m = n /\ c = b)
      BY <1>1, <1>2, <1>5, <2>3 DEF B!TypeOK
    <3> QED
      BY <1>1, <1>5, <3>1 DEF B!ToldInv
  <2>4. ASSUME NEW c \in Client, NEW i \in DOMAIN publishing'[c],
               i < Len(publishing'[c]) \/ disposed'[c]
        PROVE  publishing'[c][i] \in told'[c]
    <3>1. CASE c # b
      BY <1>1, <1>2, <1>7, <2>1, <2>4, <3>1 DEF B!ToldInv
    <3>2. CASE c = b
      <4>1. i \in DOMAIN q /\ publishing'[c][i] = q[i]
        BY <1>2, <1>7, <1>8, <2>4, <3>2
      <4>2. CASE i < Len(q)
        BY <1>1, <1>6, <2>1, <3>2, <4>1, <4>2 DEF B!ToldInv
      <4>3. CASE i = Len(q)
        <5>1. q # <<>>
          BY <1>8, <4>1
        <5>2. q[Len(q)] \in told[b]
          BY <1>2, <1>6, <5>1 DEF B!Runs, B!Innermost
        <5> QED
          BY <2>1, <3>2, <4>1, <4>3, <5>2
      <4> QED
        BY <1>8, <4>1, <4>2, <4>3
    <3> QED
      BY <3>1, <3>2
  <2> QED
    BY <2>2, <2>3, <2>4 DEF B!ToldInv
<1>14. B!ArrivalInv'
  BY <1>1, <1>2, ArrivalKept
<1> QED
  BY <1>10, <1>11, <1>12, <1>13, <1>14 DEF B!IInv

\* The innermost call of publish() ends.
LEMMA CallEnds ==
  ASSUME B!TypeOK, B!PlaceInv, NEW b \in Client, publishing[b] # <<>>,
         publishing' = [publishing EXCEPT ![b] = B!Returned(@)],
         NEW x, x = B!Innermost(b)
  PROVE  /\ publishing' \in [Client -> Seq(Nat)]
         /\ x \in Nat /\ x \notin B!Range(posted) /\ x \notin rejected /\ senders[x] = b
         /\ x \in DOMAIN senders
         /\ B!Range(publishing[b]) = B!Range(publishing'[b]) \cup {x}
         /\ \A c \in Client : x \notin B!Range(publishing'[c])
         /\ \A c \in Client : c # b => publishing'[c] = publishing[c]
         /\ \A c \in Client : \A i \in DOMAIN publishing'[c] :
               /\ i \in DOMAIN publishing[c] /\ publishing'[c][i] = publishing[c][i]
               /\ i < Len(publishing'[c]) => i < Len(publishing[c])
               /\ c = b => i < Len(publishing[c])
         /\ Len(publishing[b]) \in DOMAIN publishing[b] /\ publishing[b][Len(publishing[b])] = x
<1>1. PICK q \in Seq(Nat) : q = publishing[b]
  BY DEF B!TypeOK
<1>2. publishing'[b] = B!Returned(q) /\ \A c \in Client : c # b => publishing'[c] = publishing[c]
  BY <1>1 DEF B!TypeOK
<1>10. x = q[Len(q)]
  BY <1>1 DEF B!Innermost
<1>3. /\ B!Returned(q) \in Seq(Nat)
      /\ DOMAIN q = 1..Len(q) /\ Len(q) \in Nat /\ Len(q) >= 1
      /\ DOMAIN B!Returned(q) = 1..(Len(q) - 1) /\ Len(B!Returned(q)) = Len(q) - 1
      /\ \A i \in 1..(Len(q) - 1) : B!Returned(q)[i] = q[i]
      /\ x = q[Len(q)] /\ x \in Nat
      /\ B!Range(q) = B!Range(B!Returned(q)) \cup {x}
  BY <1>1, <1>10, FrontIndices
<1>4. publishing' \in [Client -> Seq(Nat)]
  BY <1>3, <1>1 DEF B!TypeOK
<1>5. /\ \A i, j \in DOMAIN q : q[i] = q[j] => i = j
      /\ \A m \in B!Range(q) : m \notin B!Range(posted) /\ m \notin rejected /\ senders[m] = b
  BY <1>1 DEF B!PlaceInv, B!Publishing
<1>6. x \in B!Range(q)
  BY <1>3
<1>7. \A c \in Client : c # b => \A m \in B!Range(publishing[c]) : senders[m] = c
  BY DEF B!PlaceInv, B!Publishing
<1>8. \A c \in Client : x \notin B!Range(publishing'[c])
  <2>1. Len(q) \in DOMAIN q /\ \A i \in DOMAIN B!Returned(q) : i \in DOMAIN q /\ i # Len(q)
    BY <1>3
  <2>2. \A i \in DOMAIN B!Returned(q) : B!Returned(q)[i] # x
    BY <1>3, <1>5, <2>1
  <2>3. x \notin B!Range(B!Returned(q))
    BY <2>2 DEF B!Range
  <2> QED
    BY <1>2, <1>5, <1>6, <1>7, <2>3
<1>9. \A c \in Client : \A i \in DOMAIN publishing'[c] :
               /\ i \in DOMAIN publishing[c] /\ publishing'[c][i] = publishing[c][i]
               /\ i < Len(publishing'[c]) => i < Len(publishing[c])
               /\ c = b => i < Len(publishing[c])
  <2>0. Len(q) \in Nat
    BY <1>3
  <2>1. \A i \in 1..(Len(q) - 1) : i \in 1..Len(q) /\ i < Len(q)
    BY <2>0
  <2>2. \A i \in DOMAIN B!Returned(q) : i \in DOMAIN q /\ B!Returned(q)[i] = q[i] /\ i < Len(q)
    BY <1>3, <2>1
  <2> QED
    BY <1>1, <1>2, <2>2
<1>11. x \in DOMAIN senders
  BY <1>1, <1>6 DEF B!PlaceInv
<1>12. Len(publishing[b]) \in DOMAIN publishing[b] /\ publishing[b][Len(publishing[b])] = x
  BY <1>1, <1>3
<1> QED
  BY <1>1, <1>2, <1>3, <1>4, <1>5, <1>6, <1>8, <1>9, <1>11, <1>12

LEMMA CallsLeft ==
  ASSUME B!PlaceInv, NEW b \in Client, NEW x,
         B!Range(publishing[b]) = B!Range(publishing'[b]) \cup {x},
         \A c \in Client : c # b => publishing'[c] = publishing[c],
         NEW V, V = UNION {B!Range(publishing'[c]) : c \in Client}
  PROVE  DOMAIN senders = B!Range(posted) \cup rejected \cup V \cup {x}
<1>1. PICK U : U = UNION {B!Range(publishing[c]) : c \in Client}
  OBVIOUS
<1>2. \A m : m \in U <=> \E c \in Client : m \in B!Range(publishing[c])
  BY <1>1
<1>3. \A m : m \in V <=> \E c \in Client : m \in B!Range(publishing'[c])
  OBVIOUS
<1>4. \A m : m \in U <=> m \in V \/ m = x
  <2>1. \A c \in Client : \A m : m \in B!Range(publishing[c]) <=>
            m \in B!Range(publishing'[c]) \/ (c = b /\ m = x)
    OBVIOUS
  <2> QED
    BY <1>2, <1>3, <2>1
<1>5. DOMAIN senders = B!Range(posted) \cup rejected \cup U
  BY <1>1 DEF B!PlaceInv
<1> QED
  BY <1>4, <1>5

\* Its message is posted, or rejected.
LEMMA PlaceKept ==
  ASSUME B!PlaceInv, NEW b \in Client, UNCHANGED senders, NEW x,
         x \notin B!Range(posted) /\ x \notin rejected,
         B!Range(publishing[b]) = B!Range(publishing'[b]) \cup {x},
         \A c \in Client : x \notin B!Range(publishing'[c]),
         \A c \in Client : c # b => publishing'[c] = publishing[c],
         \A c \in Client : \A i \in DOMAIN publishing'[c] :
            i \in DOMAIN publishing[c] /\ publishing'[c][i] = publishing[c][i],
         \/ B!Range(posted') = B!Range(posted) \cup {x} /\ rejected' = rejected
         \/ B!Range(posted') = B!Range(posted) /\ rejected' = rejected \cup {x}
  PROVE  B!PlaceInv'
<1>2. PICK V : V = UNION {B!Range(publishing'[c]) : c \in Client}
  OBVIOUS
<1>3. DOMAIN senders = B!Range(posted) \cup rejected \cup V \cup {x}
  BY <1>2, CallsLeft
<1>4. PICK P1, R1 : P1 = B!Range(posted') /\ R1 = rejected'
  OBVIOUS
<1>5. \/ P1 = B!Range(posted) \cup {x} /\ R1 = rejected
      \/ P1 = B!Range(posted) /\ R1 = rejected \cup {x}
  BY <1>4
<1>6. DOMAIN senders = P1 \cup R1 \cup V
  BY <1>3, <1>5
<1>7. P1 \cap R1 = {}
  BY <1>5 DEF B!PlaceInv
<1>8. ASSUME NEW c \in Client PROVE B!Publishing(c)'
  <2>1. B!Publishing(c)
    BY DEF B!PlaceInv
  <2>2. \A m \in B!Range(publishing'[c]) : m \in B!Range(publishing[c]) /\ m # x
    OBVIOUS
  <2>3. \A m \in B!Range(publishing'[c]) : m \notin P1 /\ m \notin R1 /\ senders[m] = c
    BY <1>5, <2>1, <2>2 DEF B!Publishing
  <2>4. B!Range(publishing[c])' = B!Range(publishing'[c]) /\ B!Range(posted)' = P1
    BY <1>4 DEF B!Range
  <2>5. (\A i, j \in DOMAIN publishing[c] : publishing[c][i] = publishing[c][j] => i = j)'
    BY <2>1 DEF B!Publishing
  <2>6. (\A m \in B!Range(publishing[c]) :
                m \notin B!Range(posted) /\ m \notin rejected /\ senders[m] = c)'
    BY <1>4, <2>3, <2>4
  <2> QED
    BY <2>5, <2>6 DEF B!Publishing
<1>9. /\ B!Range(posted)' = P1
      /\ (UNION {B!Range(publishing[c]) : c \in Client})' = V
  BY <1>2, <1>4 DEF B!Range
<1> QED
  BY <1>4, <1>6, <1>7, <1>8, <1>9 DEF B!PlaceInv

\* publish() is rejected.
LEMMA RejectedStep ==
  ASSUME B!IInv, NEW b \in Client, B!PublishRejects(b)
  PROVE  B!IInv'
<1>1. B!TypeOK /\ B!ChannelInv /\ B!PlaceInv /\ B!ToldInv /\ B!ArrivalInv
  BY DEF B!IInv
<1>2. PICK x : x = B!Innermost(b)
  OBVIOUS
<1>3. /\ publishing[b] # <<>> /\ disposed[b]
      /\ publishing' = [publishing EXCEPT ![b] = B!Returned(@)]
      /\ rejected' = rejected \cup {x}
      /\ UNCHANGED <<disposed, channel, observed, arriving, senders, told, heardBy, posted, due>>
  BY <1>2 DEF B!PublishRejects
<1>4. /\ publishing' \in [Client -> Seq(Nat)] /\ x \in Nat
      /\ \A c \in Client : \A i \in DOMAIN publishing'[c] :
            /\ i \in DOMAIN publishing[c] /\ publishing'[c][i] = publishing[c][i]
            /\ i < Len(publishing'[c]) => i < Len(publishing[c])
            /\ c = b => i < Len(publishing[c])
      /\ x \notin B!Range(posted) /\ x \notin rejected
      /\ B!Range(publishing[b]) = B!Range(publishing'[b]) \cup {x}
      /\ \A c \in Client : x \notin B!Range(publishing'[c])
      /\ \A c \in Client : c # b => publishing'[c] = publishing[c]
      /\ Len(publishing[b]) \in DOMAIN publishing[b] /\ publishing[b][Len(publishing[b])] = x
  BY <1>1, <1>2, <1>3, CallEnds
<1>5. B!TypeOK'
  BY <1>1, <1>3, <1>4 DEF B!TypeOK
<1>6. B!ChannelInv'
  BY <1>1, <1>3 DEF B!ChannelInv
<1>7. B!PlaceInv'
  <2>1. B!Range(posted') = B!Range(posted)
    BY <1>3
  <2> QED
    BY <1>1, <1>3, <1>4, <2>1, PlaceKept
<1>8. B!ToldInv'
  <2>1. x \in told[b]
    BY <1>1, <1>3, <1>4 DEF B!ToldInv
  <2>2. rejected \cup {x} \subseteq UNION {told[c] : c \in Client}
    <3>1. rejected \subseteq UNION {told[c] : c \in Client}
      BY <1>1 DEF B!ToldInv
    <3> QED
      BY <2>1, <3>1
  <2>3. \A c \in Client : \A i \in DOMAIN publishing'[c] :
            i < Len(publishing'[c]) \/ disposed[c] => publishing'[c][i] \in told[c]
    BY <1>1, <1>4 DEF B!ToldInv
  <2> QED
    BY <1>1, <1>3, <2>2, <2>3 DEF B!ToldInv
<1>9. B!ArrivalInv'
  BY <1>1, <1>3, ArrivalKept
<1> QED
  BY <1>5, <1>6, <1>7, <1>8, <1>9 DEF B!IInv

\* The message is posted to the buses that have a channel.
LEMMA PostStep ==
  ASSUME B!IInv, NEW b \in Client, B!Post(b)
  PROVE  B!IInv'
<1>1. B!TypeOK /\ B!ChannelInv /\ B!PlaceInv /\ B!ToldInv /\ B!ArrivalInv
  BY DEF B!IInv
<1>2. PICK x : x = B!Innermost(b)
  OBVIOUS
<1>3. /\ publishing[b] # <<>> /\ ~disposed[b]
      /\ publishing' = [publishing EXCEPT ![b] = B!Returned(@)]
      /\ channel' = [channel EXCEPT ![b] = TRUE]
      /\ arriving' = [c \in Client |->
                      IF c # b /\ channel[c] THEN Append(arriving[c], x) ELSE arriving[c]]
      /\ posted' = Append(posted, x)
      /\ due' = [c \in Client |-> IF c # b /\ observed[c] THEN due[c] \cup {x} ELSE due[c]]
      /\ UNCHANGED <<disposed, observed, senders, told, heardBy, rejected>>
  BY <1>2 DEF B!Post
<1>4. /\ publishing' \in [Client -> Seq(Nat)] /\ x \in Nat
      /\ \A c \in Client : \A i \in DOMAIN publishing'[c] :
            /\ i \in DOMAIN publishing[c] /\ publishing'[c][i] = publishing[c][i]
            /\ i < Len(publishing'[c]) => i < Len(publishing[c])
            /\ c = b => i < Len(publishing[c])
      /\ x \notin B!Range(posted) /\ x \notin rejected
      /\ B!Range(publishing[b]) = B!Range(publishing'[b]) \cup {x}
      /\ \A c \in Client : x \notin B!Range(publishing'[c])
      /\ \A c \in Client : c # b => publishing'[c] = publishing[c]
      /\ senders[x] = b
  BY <1>1, <1>2, <1>3, CallEnds
<1>5. posted \in Seq(Nat)
  BY <1>1 DEF B!TypeOK
<1>15. x \in Nat
  BY <1>4
<1>16. posted' = Append(posted, x)
  BY <1>3
<1>6. /\ posted' \in Seq(Nat)
      /\ DOMAIN posted = 1..Len(posted) /\ Len(posted) \in Nat
      /\ DOMAIN posted' = 1..(Len(posted) + 1)
      /\ \A i \in DOMAIN posted : posted'[i] = posted[i]
      /\ posted'[Len(posted) + 1] = x
      /\ B!Range(posted') = B!Range(posted) \cup {x}
  BY <1>5, <1>15, <1>16, AppendIndices, SetOfAppend
<1>7. B!TypeOK'
  <2>1. arriving' \in [Client -> Seq(Nat)]
    <3>1. \A c \in Client : arriving[c] \in Seq(Nat) /\ Append(arriving[c], x) \in Seq(Nat)
      BY <1>1, <1>4 DEF B!TypeOK
    <3> QED
      BY <1>3, <3>1
  <2>2. due' \in [Client -> SUBSET Nat]
    <3>1. \A c \in Client : due[c] \in SUBSET Nat
      BY <1>1 DEF B!TypeOK
    <3>2. \A c \in Client : due[c] \cup {x} \in SUBSET Nat
      BY <3>1, <1>15
    <3>3. due' = [c \in Client |-> IF c # b /\ observed[c] THEN due[c] \cup {x} ELSE due[c]]
      BY <1>3
    <3> QED
      BY <3>1, <3>2, <3>3
  <2>3. channel' \in [Client -> BOOLEAN]
    BY <1>1, <1>3 DEF B!TypeOK
  <2> QED
    BY <1>1, <1>3, <1>4, <1>6, <2>1, <2>2, <2>3 DEF B!TypeOK
<1>8. B!ChannelInv'
  <2>1. /\ channel'[b] = TRUE /\ \A c \in Client : c # b => channel'[c] = channel[c]
        /\ \A c \in Client : ~observed[c] => due'[c] = due[c]
    BY <1>1, <1>3 DEF B!TypeOK
  <2> QED
    BY <1>1, <1>3, <2>1 DEF B!ChannelInv
<1>9. B!PlaceInv'
  <2>1. UNCHANGED <<senders, rejected>> /\ B!Range(posted') = B!Range(posted) \cup {x}
    BY <1>3, <1>6
  <2> QED
    BY <1>1, <1>4, <2>1, PlaceKept
<1>10. B!ToldInv'
  <2>1. \A c \in Client : \A i \in DOMAIN publishing'[c] :
            i < Len(publishing'[c]) \/ disposed[c] => publishing'[c][i] \in told[c]
    BY <1>1, <1>4 DEF B!ToldInv
  <2> QED
    BY <1>1, <1>3, <2>1 DEF B!ToldInv
<1>11. /\ \A m, n : B!Before(m, n) => B!Before(m, n)'
       /\ \A s : (\A i \in DOMAIN s : s[i] \in DOMAIN senders) /\ B!InOrder(s) => B!InOrder(s)'
  BY <1>1, <1>3, <1>4, OrderKept
\* It is the last one.
<1>12. ASSUME NEW m \in B!Range(posted) PROVE m # x /\ B!Before(m, x)'
  <2>1. PICK p \in DOMAIN posted : posted[p] = m
    BY DEF B!Range
  <2>2. PICK k : k = Len(posted) + 1
    OBVIOUS
  <2>3. p \in DOMAIN posted' /\ k \in DOMAIN posted' /\ p < k /\ posted'[p] = m /\ posted'[k] = x
    BY <1>6, <2>1, <2>2
  <2> QED
    BY <1>4, <2>3 DEF B!Before
<1>13. ASSUME NEW c \in Client PROVE B!Arrival(c)'
  <2>1. PICK h \in Seq(Nat), a \in Seq(Nat), e \in Seq(Nat) :
            h = heardBy[c] /\ a = arriving[c] /\ e = arriving'[c]
    BY <1>1, <1>7 DEF B!TypeOK
  <2>2. /\ due[c] \subseteq B!Range(h) \cup B!Range(a)
        /\ \A m \in B!Range(h) \cup B!Range(a) : m \in B!Range(posted) /\ senders[m] # c
        /\ B!InOrder(h) /\ B!InOrder(a)
        /\ \A m \in B!Range(h), n \in B!Range(a) :
              m # n /\ (senders[m] = senders[n] => B!Before(m, n))
    BY <1>1, <2>1 DEF B!ArrivalInv, B!Arrival
  <2>3. B!Range(posted) \subseteq DOMAIN senders
    BY <1>1 DEF B!PlaceInv
  <2>4. B!InOrder(h)' /\ B!InOrder(a)'
    BY <1>11, <2>2, <2>3 DEF B!Range
  <2>5. \/ c # b /\ channel[c] /\ e = Append(a, x)
        \/ (c = b \/ ~channel[c]) /\ e = a
    BY <1>3, <2>1
  <2>6. B!Range(Append(a, x)) = B!Range(a) \cup {x}
    BY <1>15, SetOfAppend
  <2>7. B!InOrder(Append(a, x))'
    <3>1. PICK s \in Seq(Nat) : s = Append(a, x)
      BY <1>15, AppendIndices
    <3>2. /\ DOMAIN a = 1..Len(a) /\ Len(a) \in Nat
          /\ DOMAIN s = 1..(Len(a) + 1)
          /\ \A i \in DOMAIN a : s[i] = a[i]
          /\ s[Len(a) + 1] = x
      BY <1>15, <3>1, AppendIndices
    <3>3. ASSUME NEW i \in DOMAIN s, NEW j \in DOMAIN s, i < j
          PROVE  s[i] # s[j] /\ (senders'[s[i]] = senders'[s[j]] => B!Before(s[i], s[j])')
      <4>1. i \in DOMAIN a
        BY <3>2, <3>3
      <4>2. CASE j \in DOMAIN a
        BY <2>4, <3>2, <3>3, <4>1, <4>2 DEF B!InOrder
      <4>3. CASE j = Len(a) + 1
        <5>1. s[j] = x /\ s[i] = a[i] /\ a[i] \in B!Range(posted)
          BY <2>2, <3>2, <4>1, <4>3 DEF B!Range
        <5>2. PICK m : m = a[i]
          OBVIOUS
        <5>3. m # x /\ B!Before(m, x)'
          BY <1>12, <5>1, <5>2
        <5> QED
          BY <5>1, <5>2, <5>3
      <4> QED
        BY <3>2, <4>2, <4>3
    <3>4. B!InOrder(s)'
      BY <3>3 DEF B!InOrder
    <3> QED
      BY <3>1, <3>4 DEF B!InOrder
  <2>8. /\ \A m \in B!Range(h) \cup B!Range(e) : m \in B!Range(posted') /\ senders[m] # c
        /\ B!InOrder(e)'
        /\ \A m \in B!Range(h), n \in B!Range(e) :
              m # n /\ (senders[m] = senders[n] => B!Before(m, n)')
    <3>1. CASE e = a
      BY <1>6, <1>11, <2>2, <2>4, <3>1
    <3>2. CASE c # b /\ e = Append(a, x)
      <4>1. B!InOrder(e)'
        BY <2>7, <3>2
      <4>2. \A n \in B!Range(e) : n \in B!Range(a) \/ n = x
        BY <2>6, <3>2
      <4>3. \A m \in B!Range(h) : m \in B!Range(posted)
        BY <2>2
      <4> QED
        BY <1>4, <1>6, <1>11, <1>12, <2>2, <3>2, <4>1, <4>2, <4>3
    <3> QED
      BY <2>5, <3>1, <3>2
  <2>9. due'[c] \subseteq B!Range(h) \cup B!Range(e)
    <3>1. c # b /\ observed[c] => e = Append(a, x)
      BY <1>1, <2>5 DEF B!ChannelInv
    <3>2. B!Range(a) \subseteq B!Range(e)
      BY <2>5, <2>6
    <3>3. due'[c] = IF c # b /\ observed[c] THEN due[c] \cup {x} ELSE due[c]
      BY <1>3
    <3>4. CASE c # b /\ observed[c]
      BY <2>2, <2>6, <3>1, <3>3, <3>4
    <3>5. CASE ~(c # b /\ observed[c])
      BY <2>2, <3>2, <3>3, <3>5
    <3> QED
      BY <3>4, <3>5
  <2>10. B!InOrder(heardBy[c])' /\ B!InOrder(arriving[c])'
    <3>1. heardBy'[c] = h /\ arriving'[c] = e /\ B!InOrder(h)' /\ B!InOrder(e)'
      BY <1>3, <2>1, <2>4, <2>8
    <3> QED
      BY <3>1 DEF B!InOrder
  <2>11. /\ B!Range(heardBy[c])' = B!Range(h) /\ B!Range(arriving[c])' = B!Range(e)
         /\ B!Range(posted)' = B!Range(posted')
    BY <1>3, <2>1 DEF B!Range
  <2> QED
    BY <1>3, <2>8, <2>9, <2>10, <2>11 DEF B!Arrival
<1>14. B!ArrivalInv'
  BY <1>13 DEF B!ArrivalInv
<1> QED
  BY <1>7, <1>8, <1>9, <1>10, <1>14 DEF B!IInv

\* An event of the channel.
LEMMA DeliverStep ==
  ASSUME B!IInv, NEW b \in Client, B!Deliver(b)
  PROVE  B!IInv'
<1>1. B!TypeOK /\ B!ChannelInv /\ B!PlaceInv /\ B!ToldInv /\ B!ArrivalInv
  BY DEF B!IInv
<1>2. PICK h \in Seq(Nat), a \in Seq(Nat) : h = heardBy[b] /\ a = arriving[b]
  BY <1>1 DEF B!TypeOK
<1>3. PICK i \in DOMAIN a :
          /\ \A j \in 1..(i - 1) : senders[a[j]] # senders[a[i]]
          /\ arriving' = [arriving EXCEPT ![b] = B!Without(a, i)]
          /\ heardBy' = IF observed[b] THEN [heardBy EXCEPT ![b] = Append(h, a[i])] ELSE heardBy
  BY <1>2 DEF B!Deliver
<1>4. UNCHANGED <<disposed, channel, observed, publishing, senders, told, posted, rejected, due>>
  BY DEF B!Deliver
<1>5. PICK x \in Nat : x = a[i]
  OBVIOUS
<1>6. PICK e : e = B!Without(a, i)
  OBVIOUS
<1>7. /\ e \in Seq(Nat)
      /\ \A j \in DOMAIN e :
            \/ j < i /\ j \in DOMAIN a /\ e[j] = a[j]
            \/ j >= i /\ j + 1 \in DOMAIN a /\ e[j] = a[j + 1]
      /\ DOMAIN a \subseteq Nat /\ DOMAIN e \subseteq Nat
      /\ B!Range(a) = B!Range(e) \cup {x}
  BY <1>5, <1>6, RemoveIndices
<1>8. arriving'[b] = e /\ \A c \in Client : c # b => arriving'[c] = arriving[c]
  BY <1>1, <1>3, <1>6 DEF B!TypeOK
<1>9. PICK g \in Seq(Nat) : g = heardBy'[b]
  <2>1. Append(h, x) \in Seq(Nat)
    OBVIOUS
  <2>2. heardBy'[b] = Append(h, x) \/ heardBy'[b] = h
    BY <1>1, <1>2, <1>3, <1>5 DEF B!TypeOK
  <2> QED
    BY <2>1, <2>2
<1>10. /\ observed[b] => g = Append(h, x)
       /\ ~observed[b] => g = h
       /\ \A c \in Client : c # b => heardBy'[c] = heardBy[c]
  BY <1>1, <1>2, <1>3, <1>5, <1>9 DEF B!TypeOK
<1>28. B!Range(Append(h, x)) = B!Range(h) \cup {x}
  BY SetOfAppend
<1>11. /\ DOMAIN h = 1..Len(h) /\ Len(h) \in Nat
       /\ DOMAIN Append(h, x) = 1..(Len(h) + 1)
       /\ \A k \in DOMAIN h : Append(h, x)[k] = h[k]
       /\ Append(h, x)[Len(h) + 1] = x
  BY AppendIndices
<1>12. B!TypeOK'
  <2>1. arriving' \in [Client -> Seq(Nat)]
    BY <1>1, <1>3, <1>6, <1>7 DEF B!TypeOK
  <2>2. Append(h, x) \in Seq(Nat)
    OBVIOUS
  <2>3. heardBy' \in [Client -> Seq(Nat)]
    BY <1>1, <1>3, <1>5, <2>2 DEF B!TypeOK
  <2> QED
    BY <1>1, <1>4, <2>1, <2>3 DEF B!TypeOK
<1>13. B!ChannelInv'
  BY <1>1, <1>4 DEF B!ChannelInv
<1>14. B!PlaceInv'
  BY <1>1, <1>4 DEF B!PlaceInv, B!Publishing
<1>15. B!ToldInv'
  BY <1>1, <1>4 DEF B!ToldInv
<1>16. /\ due[b] \subseteq B!Range(h) \cup B!Range(a)
       /\ \A m \in B!Range(h) \cup B!Range(a) : m \in B!Range(posted) /\ senders[m] # b
       /\ B!InOrder(h) /\ B!InOrder(a)
       /\ \A m \in B!Range(h), n \in B!Range(a) :
             m # n /\ (senders[m] = senders[n] => B!Before(m, n))
  BY <1>1, <1>2 DEF B!ArrivalInv, B!Arrival
<1>17. x \in B!Range(a)
  BY <1>5 DEF B!Range
\* What is left is another, and if it is of the same bus a later one.
<1>18. ASSUME NEW j \in DOMAIN e
       PROVE  x # e[j] /\ (senders[x] = senders[e[j]] => B!Before(x, e[j]))
  <2>1. CASE j < i /\ j \in DOMAIN a /\ e[j] = a[j]
    <3>1. j \in 1..(i - 1)
      <4>1. i \in Nat /\ j \in Nat /\ j >= 1
        BY <2>1
      <4> QED
        BY <2>1, <4>1
    <3> QED
      BY <1>3, <1>5, <1>16, <2>1, <3>1 DEF B!InOrder
  <2>2. CASE j >= i /\ j + 1 \in DOMAIN a /\ e[j] = a[j + 1]
    <3>1. i < j + 1
      BY <1>7, <2>2
    <3> QED
      BY <1>5, <1>16, <2>2, <3>1 DEF B!InOrder
  <2> QED
    BY <1>7, <2>1, <2>2
<1>19. ASSUME NEW j \in DOMAIN e, NEW k \in DOMAIN e, j < k
       PROVE  e[j] # e[k] /\ (senders[e[j]] = senders[e[k]] => B!Before(e[j], e[k]))
  <2>1. PICK p \in DOMAIN a : e[j] = a[p] /\ ((p = j /\ j < i) \/ (p = j + 1 /\ j >= i))
    BY <1>7
  <2>2. PICK q \in DOMAIN a : e[k] = a[q] /\ ((q = k /\ k < i) \/ (q = k + 1 /\ k >= i))
    BY <1>7
  <2>3. p < q
    <3>1. i \in Nat /\ j \in Nat /\ k \in Nat
      BY <1>7
    <3>5. q = k \/ q = k + 1
      BY <2>2
    <3>7. j < k
      BY <1>19
    <3>6. \A l, n \in Nat : l < n => l < n + 1
      OBVIOUS
    <3>2. CASE p = j /\ j < i
      BY <3>1, <3>2, <3>5, <3>6, <3>7
    <3>3. CASE p = j + 1 /\ j >= i /\ q = k + 1
      BY <1>19, <3>1, <3>3
    <3>4. ~(j >= i /\ k < i)
      BY <1>19, <3>1
    <3> QED
      BY <2>1, <2>2, <3>2, <3>3, <3>4
  <2> QED
    BY <1>16, <2>1, <2>2, <2>3 DEF B!InOrder
<1>20. ASSUME NEW j \in DOMAIN Append(h, x), NEW k \in DOMAIN Append(h, x), j < k
       PROVE  /\ Append(h, x)[j] # Append(h, x)[k]
              /\ senders[Append(h, x)[j]] = senders[Append(h, x)[k]] =>
                    B!Before(Append(h, x)[j], Append(h, x)[k])
  <2>1. j \in DOMAIN h
    BY <1>11, <1>20
  <2>2. CASE k \in DOMAIN h
    BY <1>11, <1>16, <1>20, <2>1, <2>2 DEF B!InOrder
  <2>3. CASE k = Len(h) + 1
    <3>1. h[j] \in B!Range(h)
      BY <2>1 DEF B!Range
    <3> QED
      BY <1>11, <1>16, <1>17, <2>1, <2>3, <3>1
  <2>4. \A m \in DOMAIN Append(h, x) : m \in DOMAIN h \/ m = Len(h) + 1
    BY <1>11
  <2> QED
    BY <2>2, <2>3, <2>4
<1>21. \A j, k \in DOMAIN e : j < k =>
          e[j] # e[k] /\ (senders[e[j]] = senders[e[k]] => B!Before(e[j], e[k]))
  BY <1>19
<1>22. \A j, k \in DOMAIN g : j < k =>
          g[j] # g[k] /\ (senders[g[j]] = senders[g[k]] => B!Before(g[j], g[k]))
  <2>1. CASE observed[b]
    BY <1>10, <1>20, <2>1
  <2>2. CASE ~observed[b]
    BY <1>10, <1>16, <2>2 DEF B!InOrder
  <2> QED
    BY <2>1, <2>2
<1>23. B!Range(g) \subseteq B!Range(h) \cup {x} /\ B!Range(e) \subseteq B!Range(a)
  BY <1>7, <1>10, <1>28
<1>24. \A m \in B!Range(g) \cup B!Range(e) : m \in B!Range(posted) /\ senders[m] # b
  BY <1>16, <1>17, <1>23
<1>25. \A m \in B!Range(g), n \in B!Range(e) :
             m # n /\ (senders[m] = senders[n] => B!Before(m, n))
  <2>1. \A n \in B!Range(e) : x # n /\ (senders[x] = senders[n] => B!Before(x, n))
    BY <1>18 DEF B!Range
  <2> QED
    BY <1>16, <1>23, <2>1
<1>26. due[b] \subseteq B!Range(g) \cup B!Range(e)
  <2>1. CASE observed[b]
    BY <1>7, <1>10, <1>28, <1>16, <2>1
  <2>2. CASE ~observed[b]
    BY <1>1, <2>2 DEF B!ChannelInv
  <2> QED
    BY <2>1, <2>2
<1>27. ASSUME NEW c \in Client PROVE B!Arrival(c)'
  <2>1. CASE c = b
    <3>1. heardBy'[c] = g /\ arriving'[c] = e /\ due'[c] = due[b]
      BY <1>4, <1>8, <1>9, <2>1
    <3>2. B!InOrder(heardBy[c])' /\ B!InOrder(arriving[c])'
      <4>1. \A m, n : B!Before(m, n)' <=> B!Before(m, n)
        BY <1>4 DEF B!Before
      <4>2. B!InOrder(g)' /\ B!InOrder(e)'
        BY <1>4, <1>21, <1>22, <4>1 DEF B!InOrder
      <4> QED
        BY <3>1, <4>2 DEF B!InOrder
    <3>3. /\ B!Range(heardBy[c])' = B!Range(g) /\ B!Range(arriving[c])' = B!Range(e)
          /\ B!Range(posted)' = B!Range(posted)
      BY <1>4, <3>1 DEF B!Range
    <3>4. \A m, n : B!Before(m, n)' <=> B!Before(m, n)
      BY <1>4 DEF B!Before
    <3> QED
      BY <1>4, <1>24, <1>25, <1>26, <2>1, <3>1, <3>2, <3>3, <3>4 DEF B!Arrival
  <2>2. CASE c # b
    <3>1. heardBy'[c] = heardBy[c] /\ arriving'[c] = arriving[c]
      BY <1>8, <1>10, <2>2
    <3>2. B!Arrival(c)
      BY <1>1 DEF B!ArrivalInv
    <3> QED
      BY <1>4, <3>1, <3>2 DEF B!Arrival, B!InOrder, B!Before, B!Range
  <2> QED
    BY <2>1, <2>2
<1> QED
  BY <1>12, <1>13, <1>14, <1>15, <1>27 DEF B!IInv, B!ArrivalInv

LEMMA BroadcastStep == B!IInv /\ [B!Next]_broadcastVars => B!IInv'
<1> SUFFICES ASSUME B!IInv, [B!Next]_broadcastVars PROVE B!IInv'
  OBVIOUS
<1>1. ASSUME NEW b \in Client, B!Observe(b) \/ B!Leave(b) \/ B!Dispose(b) PROVE B!IInv'
  BY <1>1, ObservedStep
<1>2. ASSUME NEW b \in Client, B!publish(b) PROVE B!IInv'
  BY <1>2, TellsStep
<1>3. ASSUME NEW b \in Client, B!Post(b) PROVE B!IInv'
  BY <1>3, PostStep
<1>4. ASSUME NEW b \in Client, B!PublishRejects(b) PROVE B!IInv'
  BY <1>4, RejectedStep
<1>5. ASSUME NEW b \in Client, B!Deliver(b) PROVE B!IInv'
  BY <1>5, DeliverStep
<1>6. CASE UNCHANGED broadcastVars
  <2>1. UNCHANGED <<disposed, channel, observed, publishing, arriving, senders, told, heardBy,
                    posted, rejected, due>>
    BY <1>6 DEF broadcastVars
  <2>2. B!TypeOK' /\ B!ChannelInv'
    BY <2>1 DEF B!IInv, B!TypeOK, B!ChannelInv
  <2>3. B!PlaceInv' /\ B!ToldInv'
    BY <2>1 DEF B!IInv, B!PlaceInv, B!ToldInv, B!Publishing
  <2>4. B!ArrivalInv'
    BY <2>1 DEF B!IInv, B!ArrivalInv, B!Arrival, B!InOrder, B!Before, B!Range
  <2> QED
    BY <2>2, <2>3, <2>4 DEF B!IInv
<1> QED
  BY <1>1, <1>2, <1>3, <1>4, <1>5, <1>6 DEF B!Next

LEMMA BroadcastInvArrives == B!IInv => B!BroadcastArrives
<1> SUFFICES ASSUME B!IInv PROVE B!BroadcastArrives
  OBVIOUS
<1>1. B!TypeOK /\ B!ChannelInv /\ B!PlaceInv /\ B!ToldInv /\ B!ArrivalInv
  BY DEF B!IInv
<1>2. ASSUME NEW b \in Client
      PROVE  /\ due[b] \subseteq B!Range(heardBy[b]) \cup B!Range(arriving[b])
             /\ B!Range(heardBy[b]) \cap told[b] = {}
             /\ B!Range(heardBy[b]) \subseteq B!Range(posted) /\ B!InOrder(heardBy[b])
             /\ disposed[b] => ~channel[b] /\ ~observed[b]
  <2>1. /\ due[b] \subseteq B!Range(heardBy[b]) \cup B!Range(arriving[b])
        /\ \A m \in B!Range(heardBy[b]) : m \in B!Range(posted) /\ senders[m] # b
        /\ B!InOrder(heardBy[b])
    BY <1>1 DEF B!ArrivalInv, B!Arrival
  <2>2. \A m \in told[b] : senders[m] = b
    BY <1>1 DEF B!ToldInv
  <2>3. disposed[b] => ~channel[b] /\ ~observed[b]
    BY <1>1 DEF B!ChannelInv
  <2> QED
    BY <2>1, <2>2, <2>3
<1> QED
  BY <1>1, <1>2 DEF B!BroadcastArrives, B!PlaceInv, B!ToldInv

-----------------------------------------------------------------------------
(* MongoEntityRepository: the start of the processes.                          *)

\* Normalizing keeps the name and whether the index is unique.
LEMMA NormalizeKeeps ==
  ASSUME NEW x, {"name", "unique"} \subseteq DOMAIN x
  PROVE  /\ NormalizeIndex(x).name = x.name
         /\ NormalizeIndex(x).unique = x.unique
<1> DEFINE keys == DOMAIN x \ {"v", "background", "ns"}
<1>1. NormalizeIndex(x) = [k \in keys |-> x[k]]
  BY DEF NormalizeIndex, Restrict
<1>2. "name" \in keys /\ "unique" \in keys
  OBVIOUS
<1> HIDE DEF keys
<1> QED
  BY <1>1, <1>2

\* The server adds the version, which normalizing removes.
LEMMA NormalizeCreated ==
  ASSUME NEW w, {"name", "unique"} \subseteq DOMAIN w, w.unique \in BOOLEAN
  PROVE  LET x == Versioned(w)
         IN  /\ NormalizeIndex(x) = NormalizeIndex(w)
             /\ x.name = w.name /\ x.unique = w.unique
             /\ {"name", "unique"} \subseteq DOMAIN x
<1> DEFINE x == Versioned(w)
           keys == DOMAIN w \ {"v", "background", "ns"}
<1>1. x = [k \in {"v"} \cup DOMAIN w |-> IF k = "v" THEN 2 ELSE w[k]]
  BY DEF Versioned
<1>2. DOMAIN x = {"v"} \cup DOMAIN w
  BY <1>1
<1>3. \A k \in DOMAIN w : k # "v" => x[k] = w[k]
  BY <1>1
<1> HIDE DEF x
<1>4. DOMAIN x \ {"v", "background", "ns"} = keys
  BY <1>2
<1>5. NormalizeIndex(x) = [k \in keys |-> x[k]]
  BY <1>4 DEF NormalizeIndex, Restrict
<1>6. NormalizeIndex(w) = [k \in keys |-> w[k]]
  BY DEF NormalizeIndex, Restrict
<1>7. NormalizeIndex(x) = NormalizeIndex(w)
  BY <1>3, <1>5, <1>6
<1>8. x.name = w.name /\ x.unique = w.unique
  BY <1>3
<1> QED
  BY <1>2, <1>7, <1>8 DEF x

\* Every index has a name, and says whether it is unique.
LEMMA IndexFields ==
  ASSUME NEW set, Named(set), NEW x \in set
  PROVE  /\ {"name", "unique"} \subseteq DOMAIN x
         /\ x.unique \in BOOLEAN
         /\ NormalizeIndex(x).name = x.name
         /\ NormalizeIndex(x).unique = x.unique
<1>1. {"name", "unique"} \subseteq DOMAIN x /\ x.unique \in BOOLEAN
  BY DEF Named
<1> QED
  BY <1>1, NormalizeKeeps

\* In the first state nobody has started, and there are no documents.
LEMMA StartInit == Init => StartInv
<1> SUFFICES ASSUME Init PROVE StartInv
  OBVIOUS
<1> USE DEF Init
<1>1. phase = [c \in Client |-> "collection"] /\ plan = [c \in Client |-> NoPlan] /\ docs = <<>>
  OBVIOUS
<1>2. indexes \in Existing \/ indexes = {}
  OBVIOUS
<1>3. Named(indexes)
  <2>1. Named({})
    BY DEF Named
  <2> QED
    BY <1>2, <2>1, IndexAssumption
<1>4. {index.name : index \in indexes} \subseteq Names
  <2>1. indexes \subseteq UNION Existing
    BY <1>2
  <2> QED
    BY <2>1 DEF Names
<1>5. plan \in [Client -> [drop : SUBSET Names, create : SUBSET Wanted]]
  BY <1>1 DEF NoPlan
<1>6. PlanInv /\ UnwantedInv
  BY <1>1 DEF PlanInv, UnwantedInv, Ready
<1>7. MissingInv
  <2>1. PICK c \in Client : TRUE
    BY IndexAssumption
  <2> QED
    BY <1>1, <2>1 DEF MissingInv, Ready
<1>8. Sound(docs)
  <2>1. DOMAIN docs = {}
    BY <1>1
  <2> QED
    BY <2>1, FS_EmptySet DEF Sound, NoDuplicates
<1> QED
  BY <1>1, <1>3, <1>4, <1>5, <1>6, <1>7, <1>8 DEF StartInv

\* A step of the start of one process, which leaves the plan and the indexes alone.
LEMMA EarlierStep ==
  ASSUME StartInv, NEW c \in Client, NEW next \in {"create", "initialize", "failed", "collection"},
         phase' = [phase EXCEPT ![c] = next],
         UNCHANGED <<docs, indexes, plan>>
  PROVE  StartInv'
<1>1. /\ phase \in [Client -> {"collection", "create", "initialize", "indexes",
                             "ready", "failed"}]
      /\ PlanInv /\ UnwantedInv /\ MissingInv
  BY DEF StartInv
<1>2. phase'[c] = next /\ \A d \in Client \ {c} : phase'[d] = phase[d]
  BY <1>1
<1>3. PlanInv'
  BY <1>1, <1>2 DEF PlanInv
<1>4. UnwantedInv'
  BY <1>1, <1>2 DEF UnwantedInv, Ready, IsWanted
<1>5. MissingInv'
  BY <1>1, <1>2 DEF MissingInv, Ready, IsThere
<1>6. Sound(docs)'
  BY DEF StartInv, Sound, NoDuplicates, CollectionUnique, Field
<1>7. Named(indexes)' /\ ({index.name : index \in indexes} \subseteq Names)'
  BY DEF StartInv, Named, Names
<1>8. /\ (plan \in [Client -> [drop : SUBSET Names, create : SUBSET Wanted]])'
      /\ (phase \in [Client -> {"collection", "create", "initialize", "indexes",
                             "ready", "failed"}])'
  BY <1>1 DEF StartInv, Names
<1> QED
  BY <1>3, <1>4, <1>5, <1>6, <1>7, <1>8 DEF StartInv

LEMMA FindCollectionStep ==
  ASSUME StartInv, NEW c \in Client, FindCollection(c) \/ CreateCollection(c)
  PROVE  StartInv'
<1>1. PICK next \in {"create", "initialize", "failed", "collection"} :
          phase' = [phase EXCEPT ![c] = next]
  <2>1. CASE FindCollection(c)
    BY <2>1 DEF FindCollection, Goto
  <2>2. CASE CreateCollection(c)
    BY <2>2 DEF CreateCollection, Goto
  <2> QED
    BY <2>1, <2>2
<1>2. UNCHANGED <<docs, indexes, plan>>
  BY DEF FindCollection, CreateCollection
<1> QED
  BY <1>1, <1>2, EarlierStep

\* initialize decides what to drop and what to create.
LEMMA ReadIndexesStep ==
  ASSUME StartInv, NEW c \in Client, ReadIndexes(c)
  PROVE  StartInv'
<1> DEFINE existing == {NormalizeIndex(index) : index \in indexes}
           unwanted == {e \in existing : \A w \in Wanted : e # NormalizeIndex(w)}
           required == {w \in Wanted : \A e \in existing : NormalizeIndex(w) # e}
           new == [drop |-> {e.name : e \in unwanted}, create |-> required]
<1>1. /\ phase \in [Client -> {"collection", "create", "initialize", "indexes",
                             "ready", "failed"}]
      /\ plan \in [Client -> [drop : SUBSET Names, create : SUBSET Wanted]]
      /\ PlanInv /\ UnwantedInv /\ MissingInv /\ Named(indexes)
      /\ {index.name : index \in indexes} \subseteq Names
  BY DEF StartInv
<1>2. /\ plan' = [plan EXCEPT ![c] = new]
      /\ phase' = [phase EXCEPT ![c] = IF exists THEN "indexes" ELSE "failed"]
      /\ UNCHANGED <<docs, indexes>>
  BY DEF ReadIndexes, Goto
<1>3. /\ plan'[c] = new /\ \A d \in Client \ {c} : plan'[d] = plan[d]
      /\ phase'[c] \in {"indexes", "failed"} /\ \A d \in Client \ {c} : phase'[d] = phase[d]
  BY <1>1, <1>2
<1>4. \A n \in new.drop : \E index \in indexes : index.name = n /\ ~IsWanted(index)
  <2> SUFFICES ASSUME NEW n \in new.drop
               PROVE  \E index \in indexes : index.name = n /\ ~IsWanted(index)
    OBVIOUS
  <2>1. PICK e \in unwanted : n = e.name
    OBVIOUS
  <2>2. PICK index \in indexes : e = NormalizeIndex(index)
    OBVIOUS
  <2>3. index.name = n
    BY <1>1, <2>1, <2>2, IndexFields
  <2>4. ~IsWanted(index)
    BY <2>1, <2>2 DEF IsWanted
  <2> QED
    BY <2>3, <2>4
<1>5. \A index \in indexes : IsWanted(index) \/ index.name \in new.drop
  <2> SUFFICES ASSUME NEW index \in indexes, ~IsWanted(index)
               PROVE  index.name \in new.drop
    OBVIOUS
  <2>1. NormalizeIndex(index) \in unwanted
    BY DEF IsWanted
  <2>2. NormalizeIndex(index).name = index.name
    BY <1>1, IndexFields
  <2> QED
    BY <2>1, <2>2
<1>6. \A w \in Wanted : IsThere(w) \/ w \in new.create
  BY DEF IsThere
<1>7. \A w \in Wanted : w.name \in new.drop => w \in new.create
  <2> SUFFICES ASSUME NEW w \in Wanted, w.name \in new.drop, w \notin new.create
               PROVE  FALSE
    OBVIOUS
  <2>1. PICK x \in indexes : x.name = w.name /\ ~IsWanted(x)
    BY <1>4
  <2>2. PICK y \in indexes : NormalizeIndex(y) = NormalizeIndex(w)
    BY <1>6 DEF IsThere
  <2>3. y.name = w.name
    BY <1>1, <2>2, IndexFields, IndexAssumption
  <2>4. x = y
    BY <1>1, <2>1, <2>3 DEF Named
  <2> QED
    BY <2>1, <2>2, <2>4 DEF IsWanted
<1>8. new \in [drop : SUBSET Names, create : SUBSET Wanted]
  <2>1. new.drop \subseteq Names
    BY <1>1, <1>4
  <2> QED
    BY <2>1
<1> HIDE DEF new
<1>9. PlanInv'
  <2>1. new.create \subseteq Wanted
    BY <1>8
  <2> QED
    BY <1>1, <1>3, <1>7, <2>1 DEF PlanInv
<1>10. UnwantedInv'
  BY <1>1, <1>2, <1>3, <1>5 DEF UnwantedInv, Ready, IsWanted
<1>11. MissingInv'
  <2> SUFFICES ASSUME NEW w \in Wanted, ~IsThere(w)
               PROVE  \E d \in Client : ~Ready(d)' /\ (phase'[d] = "indexes" => w \in plan'[d].create)
    BY <1>2 DEF MissingInv, IsThere
  <2>1. w \in plan'[c].create
    BY <1>3, <1>6
  <2> QED
    BY <1>3, <2>1 DEF Ready
<1>12. Sound(docs)'
  BY <1>2 DEF StartInv, Sound, NoDuplicates, CollectionUnique, Field
<1>13. Named(indexes)' /\ ({index.name : index \in indexes} \subseteq Names)'
  BY <1>1, <1>2 DEF Named, Names
<1>14. (plan \in [Client -> [drop : SUBSET Names, create : SUBSET Wanted]])'
  BY <1>1, <1>2, <1>8 DEF Names
<1>15. (phase \in [Client -> {"collection", "create", "initialize", "indexes",
                             "ready", "failed"}])'
  BY <1>1, <1>2
<1> QED
  BY <1>9, <1>10, <1>11, <1>12, <1>13, <1>14, <1>15 DEF StartInv

LEMMA DropIndexStep ==
  ASSUME StartInv, NEW c \in Client, DropIndex(c)
  PROVE  StartInv'
<1>1. /\ phase \in [Client -> {"collection", "create", "initialize", "indexes",
                             "ready", "failed"}]
      /\ plan \in [Client -> [drop : SUBSET Names, create : SUBSET Wanted]]
      /\ PlanInv /\ UnwantedInv /\ MissingInv /\ Named(indexes)
      /\ {index.name : index \in indexes} \subseteq Names
  BY DEF StartInv
<1>2. PICK name \in plan[c].drop :
        /\ indexes' = {index \in indexes : index.name # name}
        /\ phase' = [phase EXCEPT ![c] = IF indexes' = indexes THEN "failed" ELSE "indexes"]
        /\ plan' = [plan EXCEPT ![c].drop = @ \ {name}]
  BY DEF DropIndex, Goto
<1>3. phase[c] = "indexes" /\ docs' = docs
  BY DEF DropIndex
<1>4. /\ plan'[c].drop = plan[c].drop \ {name} /\ plan'[c].create = plan[c].create
      /\ \A d \in Client \ {c} : plan'[d] = plan[d]
  BY <1>1, <1>2
<1>5. /\ phase'[c] \in {"indexes", "failed"}
      /\ \A d \in Client \ {c} : phase'[d] = phase[d]
  BY <1>1, <1>2
<1>6. PlanInv'
  BY <1>1, <1>3, <1>4, <1>5 DEF PlanInv
<1>7. UnwantedInv'
  <2> SUFFICES ASSUME NEW index \in indexes', NEW d \in Client
               PROVE  /\ phase'[d] = "indexes" => IsWanted(index) \/ index.name \in plan'[d].drop
                      /\ Ready(d)' => IsWanted(index)
    BY DEF UnwantedInv, IsWanted
  <2>1. index \in indexes /\ index.name # name
    BY <1>2
  <2>2. CASE d = c
    BY <1>1, <1>3, <1>4, <1>5, <2>1, <2>2 DEF UnwantedInv, Ready
  <2>3. CASE d # c
    BY <1>1, <1>4, <1>5, <2>1, <2>3 DEF UnwantedInv, Ready
  <2> QED
    BY <2>2, <2>3
<1>8. MissingInv'
  <2> SUFFICES ASSUME NEW w \in Wanted, ~IsThere(w)'
               PROVE  \E d \in Client : ~Ready(d)' /\ (phase'[d] = "indexes" => w \in plan'[d].create)
    BY DEF MissingInv
  <2>1. CASE IsThere(w)
    <3>1. PICK index \in indexes : NormalizeIndex(index) = NormalizeIndex(w)
      BY <2>1 DEF IsThere
    <3>2. index.name = w.name
      BY <1>1, <3>1, IndexFields, IndexAssumption
    <3>3. index.name = name
      BY <1>2, <3>1 DEF IsThere
    <3>4. w \in plan[c].create
      BY <1>1, <1>3, <3>2, <3>3 DEF PlanInv
    <3> QED
      BY <1>4, <1>5, <3>4 DEF Ready
  <2>2. CASE ~IsThere(w)
    <3>1. PICK d \in Client : ~Ready(d) /\ (phase[d] = "indexes" => w \in plan[d].create)
      BY <1>1, <2>2 DEF MissingInv
    <3>2. ~Ready(d)'
      BY <1>5, <3>1 DEF Ready
    <3>3. phase'[d] = "indexes" => w \in plan'[d].create
      BY <1>3, <1>4, <1>5, <3>1
    <3> QED
      BY <3>2, <3>3
  <2> QED
    BY <2>1, <2>2
<1>9. Sound(docs)'
  <2>1. CollectionUnique' => CollectionUnique
    BY <1>2 DEF CollectionUnique
  <2> QED
    BY <1>3, <2>1 DEF StartInv, Sound, NoDuplicates, Field
<1>10. Named(indexes)' /\ ({index.name : index \in indexes} \subseteq Names)'
  <2>1. indexes' \subseteq indexes
    BY <1>2
  <2> QED
    BY <1>1, <2>1 DEF Named, Names
<1>11. (plan \in [Client -> [drop : SUBSET Names, create : SUBSET Wanted]])'
  BY <1>1, <1>2 DEF Names
<1>12. (phase \in [Client -> {"collection", "create", "initialize", "indexes",
                             "ready", "failed"}])'
  BY <1>1, <1>2
<1> QED
  BY <1>6, <1>7, <1>8, <1>9, <1>10, <1>11, <1>12 DEF StartInv

\* Creating fails, or creates what is missing of the plan: names stay different,
\* and a unique index is made only of documents without duplicates.
LEMMA CreateIndexesStep ==
  ASSUME StartInv, NEW c \in Client, CreateIndexes(c)
  PROVE  StartInv'
<1> DEFINE create == plan[c].create
           missing == {x \in create : \A index \in indexes : NormalizeIndex(index) # NormalizeIndex(x)}
<1>1. /\ phase \in [Client -> {"collection", "create", "initialize", "indexes",
                             "ready", "failed"}]
      /\ plan \in [Client -> [drop : SUBSET Names, create : SUBSET Wanted]]
      /\ PlanInv /\ UnwantedInv /\ MissingInv /\ Named(indexes)
      /\ {index.name : index \in indexes} \subseteq Names
  BY DEF StartInv
<1>2. phase[c] = "indexes" /\ docs' = docs /\ plan[c].drop = {} /\ plan' = [plan EXCEPT ![c] = NoPlan]
  BY DEF CreateIndexes
<1>3. create \subseteq Wanted
  BY <1>1
<1>4. Named(Wanted)
  BY IndexAssumption
<1>5. /\ plan'[c] = NoPlan /\ \A d \in Client \ {c} : plan'[d] = plan[d]
      /\ (plan \in [Client -> [drop : SUBSET Names, create : SUBSET Wanted]])'
  <2>1. NoPlan \in [drop : SUBSET Names, create : SUBSET Wanted]
    BY DEF NoPlan
  <2> QED
    BY <1>1, <1>2, <2>1 DEF Names
<1>6. CASE create # {} /\ CannotCreate(create)
  <2>1. phase' = [phase EXCEPT ![c] = "failed"] /\ indexes' = indexes
    BY <1>6 DEF CreateIndexes, Goto
  <2>2. phase'[c] = "failed" /\ \A d \in Client \ {c} : phase'[d] = phase[d]
    BY <1>1, <2>1
  <2>3. PlanInv'
    BY <1>1, <1>5, <2>2 DEF PlanInv
  <2>4. UnwantedInv'
    BY <1>1, <1>5, <2>1, <2>2 DEF UnwantedInv, Ready, IsWanted
  <2>5. MissingInv'
    BY <1>1, <1>5, <2>1, <2>2 DEF MissingInv, Ready, IsThere
  <2>6. Sound(docs)'
    BY <1>2, <2>1 DEF StartInv, Sound, NoDuplicates, CollectionUnique, Field
  <2>7. Named(indexes)' /\ ({index.name : index \in indexes} \subseteq Names)'
    BY <1>1, <2>1 DEF Named, Names
  <2>8. (phase \in [Client -> {"collection", "create", "initialize", "indexes",
                             "ready", "failed"}])'
    BY <1>1, <2>1
  <2> QED
    BY <1>5, <2>3, <2>4, <2>5, <2>6, <2>7, <2>8 DEF StartInv
<1>7. CASE ~(create # {} /\ CannotCreate(create))
  <2>1. /\ phase' = [phase EXCEPT ![c] = "ready"]
        /\ indexes' = indexes \cup {Versioned(w) : w \in missing}
    BY <1>7 DEF CreateIndexes, Goto
  <2>2. phase'[c] = "ready" /\ \A d \in Client \ {c} : phase'[d] = phase[d]
    BY <1>1, <2>1
  <2>3. \A w \in missing : /\ w \in Wanted
                           /\ NormalizeIndex(Versioned(w)) = NormalizeIndex(w)
                           /\ Versioned(w).name = w.name /\ Versioned(w).unique = w.unique
                           /\ {"name", "unique"} \subseteq DOMAIN Versioned(w)
                           /\ w.unique \in BOOLEAN
    BY <1>3, <1>4, NormalizeCreated DEF Named
  <2>4. \A x \in indexes' \ indexes : \E w \in missing : x = Versioned(w)
    BY <2>1
  <2>5. PlanInv'
    BY <1>1, <1>5, <2>2 DEF PlanInv
  <2>6. \A index \in indexes : IsWanted(index)
    BY <1>1, <1>2 DEF UnwantedInv
  <2>7. \A index \in indexes' : IsWanted(index)
    <3> SUFFICES ASSUME NEW index \in indexes' PROVE IsWanted(index)
      OBVIOUS
    <3>1. CASE index \in indexes
      BY <2>6, <3>1
    <3>2. CASE index \notin indexes
      <4>1. PICK w \in missing : index = Versioned(w)
        BY <2>4, <3>2
      <4> QED
        BY <2>3, <4>1 DEF IsWanted
    <3> QED
      BY <3>1, <3>2
  <2>8. UnwantedInv'
    BY <2>7 DEF UnwantedInv, IsWanted
  <2>9. MissingInv'
    <3> SUFFICES ASSUME NEW w \in Wanted, ~IsThere(w)'
                 PROVE  \E d \in Client : ~Ready(d)' /\ (phase'[d] = "indexes" => w \in plan'[d].create)
      BY DEF MissingInv
    <3>1. ~IsThere(w)
      BY <2>1 DEF IsThere
    <3>2. w \notin create
      <4>1. ASSUME w \in create PROVE FALSE
        <5>1. w \in missing
          BY <3>1, <4>1 DEF IsThere
        <5>2. Versioned(w) \in indexes'
          BY <2>1, <5>1
        <5> HIDE DEF missing
        <5> QED
          BY <2>3, <5>1, <5>2 DEF IsThere
      <4> QED
        BY <4>1
    <3>3. PICK d \in Client : ~Ready(d) /\ (phase[d] = "indexes" => w \in plan[d].create)
      BY <1>1, <3>1 DEF MissingInv
    <3>4. d # c
      BY <1>2, <3>2, <3>3
    <3> QED
      BY <1>5, <2>2, <3>3, <3>4 DEF Ready
  <2>10. Sound(docs)'
    <3>1. CollectionUnique' => NoDuplicates(docs)
      <4> SUFFICES ASSUME CollectionUnique' PROVE NoDuplicates(docs)
        OBVIOUS
      <4>1. PICK x \in indexes' : x.unique
        BY DEF CollectionUnique
      <4>2. CASE x \in indexes
        BY <4>1, <4>2 DEF StartInv, Sound, CollectionUnique
      <4>3. CASE x \notin indexes
        <5>1. PICK w \in missing : x = Versioned(w)
          BY <2>4, <4>3
        <5>2. w \in create /\ w.unique
          BY <2>3, <4>1, <5>1
        <5>3. ~CannotCreate(create)
          BY <1>7, <5>2
        <5> QED
          BY <5>2, <5>3 DEF CannotCreate, NoDuplicates
      <4> QED
        BY <4>2, <4>3
    <3>2. IsFiniteSet(DOMAIN docs)
      BY DEF StartInv, Sound
    <3> QED
      BY <1>2, <3>1, <3>2 DEF Sound, NoDuplicates, Field
  <2>11. Named(indexes)'
    <3>1. ASSUME NEW x \in indexes'
          PROVE  {"name", "unique"} \subseteq DOMAIN x /\ x.unique \in BOOLEAN
      <4>1. CASE x \in indexes
        BY <1>1, <4>1 DEF Named
      <4>2. CASE x \notin indexes
        <5>1. PICK w \in missing : x = Versioned(w)
          BY <2>4, <4>2
        <5> HIDE DEF missing
        <5> QED
          BY <2>3, <5>1
      <4> QED
        BY <4>1, <4>2
    <3>2. ASSUME NEW x \in indexes, NEW w \in missing, x.name = Versioned(w).name PROVE FALSE
      <4>1. x.name = w.name
        BY <2>3, <3>2
      <4>2. w \in create /\ NormalizeIndex(x) # NormalizeIndex(w)
        OBVIOUS
      <4> QED
        BY <1>7, <4>1, <4>2 DEF CannotCreate
    <3>3. ASSUME NEW v \in missing, NEW w \in missing, Versioned(v).name = Versioned(w).name
          PROVE  v = w
      <4> HIDE DEF missing
      <4> QED
        BY <1>4, <2>3, <3>3 DEF Named
    <3>4. ASSUME NEW x \in indexes', NEW y \in indexes', x.name = y.name PROVE x = y
      <4>1. CASE x \in indexes /\ y \in indexes
        BY <1>1, <3>4, <4>1 DEF Named
      <4>2. CASE x \in indexes /\ y \notin indexes
        BY <2>4, <3>2, <3>4, <4>2
      <4>3. CASE x \notin indexes /\ y \in indexes
        BY <2>4, <3>2, <3>4, <4>3
      <4>4. CASE x \notin indexes /\ y \notin indexes
        BY <2>4, <3>3, <3>4, <4>4
      <4> QED
        BY <4>1, <4>2, <4>3, <4>4
    <3> QED
      BY <3>1, <3>4 DEF Named
  <2>12. ({index.name : index \in indexes} \subseteq Names)'
    <3> SUFFICES ASSUME NEW x \in indexes' PROVE x.name \in Names
      BY DEF Names
    <3>1. CASE x \in indexes
      BY <1>1, <3>1
    <3>2. CASE x \notin indexes
      <4>1. PICK w \in missing : x = Versioned(w)
        BY <2>4, <3>2
      <4>2. x.name = w.name /\ w \in Wanted
        BY <2>3, <4>1
      <4> QED
        BY <4>2 DEF Names
    <3> QED
      BY <3>1, <3>2
  <2>13. (phase \in [Client -> {"collection", "create", "initialize", "indexes",
                             "ready", "failed"}])'
    BY <1>1, <2>1
  <2> QED
    BY <1>5, <2>5, <2>8, <2>9, <2>10, <2>11, <2>12, <2>13 DEF StartInv
<1> QED
  BY <1>6, <1>7

\* Who starts again looks at the indexes again.
LEMMA RestartStep ==
  ASSUME StartInv, NEW c \in Client, Restart(c)
  PROVE  StartInv'
<1>1. /\ phase \in [Client -> {"collection", "create", "initialize", "indexes",
                             "ready", "failed"}]
      /\ plan \in [Client -> [drop : SUBSET Names, create : SUBSET Wanted]]
      /\ PlanInv /\ UnwantedInv /\ MissingInv
  BY DEF StartInv
<1>2. /\ phase' = [phase EXCEPT ![c] = "collection"]
      /\ plan' = [plan EXCEPT ![c] = NoPlan]
      /\ UNCHANGED <<docs, indexes>>
  BY DEF Restart, Goto
<1>3. /\ phase'[c] = "collection" /\ \A d \in Client \ {c} : phase'[d] = phase[d]
      /\ \A d \in Client \ {c} : plan'[d] = plan[d]
  BY <1>1, <1>2
<1>4. PlanInv'
  BY <1>1, <1>3 DEF PlanInv
<1>5. UnwantedInv'
  BY <1>1, <1>2, <1>3 DEF UnwantedInv, Ready, IsWanted
<1>6. MissingInv'
  BY <1>1, <1>2, <1>3 DEF MissingInv, Ready, IsThere
<1>7. Sound(docs)'
  BY <1>2 DEF StartInv, Sound, NoDuplicates, CollectionUnique, Field
<1>8. Named(indexes)' /\ ({index.name : index \in indexes} \subseteq Names)'
  BY <1>2 DEF StartInv, Named, Names
<1>9. (plan \in [Client -> [drop : SUBSET Names, create : SUBSET Wanted]])'
  <2>1. NoPlan \in [drop : SUBSET Names, create : SUBSET Wanted]
    BY DEF NoPlan
  <2> QED
    BY <1>1, <1>2, <2>1 DEF Names
<1>10. (phase \in [Client -> {"collection", "create", "initialize", "indexes",
                             "ready", "failed"}])'
  BY <1>1, <1>2
<1> QED
  BY <1>4, <1>5, <1>6, <1>7, <1>8, <1>9, <1>10 DEF StartInv

-----------------------------------------------------------------------------
(* MongoCollection: while there is a unique index, no command of the server    *)
(* leaves two documents with the same value.                                   *)

LEMMA PutSound ==
  ASSUME NEW D, NEW document, Sound(D), ~Base!Taken(D, document)
  PROVE  Sound(Base!Put(D, document))
<1> DEFINE new == document["_id"]
           E == Base!Put(D, document)
<1>1. /\ DOMAIN E = DOMAIN D \cup {new}
      /\ E[new] = document
      /\ \A id \in DOMAIN D \ {new} : E[id] = D[id]
  BY DEF Base!Put
<1>2. IsFiniteSet(DOMAIN E)
  BY <1>1, FS_AddElement DEF Sound
<1>3. ASSUME CollectionUnique PROVE NoDuplicates(E)
  <2>1. \A other \in DOMAIN D \ {new} : Field(D[other], UniqueField) # Field(document, UniqueField)
    BY <1>3 DEF Base!Taken, Base!TakenByOther, Base!CollectionUnique, CollectionUnique,
                Base!Field, Field
  <2>2. NoDuplicates(D)
    BY <1>3 DEF Sound
  <2> HIDE DEF E, new
  <2> SUFFICES ASSUME NEW x \in DOMAIN E, NEW y \in DOMAIN E,
                      Field(E[x], UniqueField) = Field(E[y], UniqueField)
               PROVE  x = y
    BY DEF NoDuplicates
  <2>3. CASE x = new \/ y = new
    BY <1>1, <2>1, <2>3
  <2>4. CASE x # new /\ y # new
    BY <1>1, <2>2, <2>4 DEF NoDuplicates
  <2> QED
    BY <2>3, <2>4
<1> QED
  BY <1>2, <1>3 DEF Sound

LEMMA RemoveSound ==
  ASSUME NEW D, NEW ids, Sound(D)
  PROVE  Sound(Base!Restrict(D, DOMAIN D \ ids))
<1> DEFINE E == Base!Restrict(D, DOMAIN D \ ids)
<1>1. DOMAIN E = DOMAIN D \ ids /\ \A id \in DOMAIN E : E[id] = D[id]
  BY DEF Base!Restrict
<1>2. IsFiniteSet(DOMAIN E)
  BY <1>1, FS_Subset DEF Sound
<1> HIDE DEF E
<1>3. NoDuplicates(D) => NoDuplicates(E)
  BY <1>1 DEF NoDuplicates
<1> QED
  BY <1>2, <1>3 DEF Sound, E

LEMMA InsertOneSound ==
  ASSUME NEW D, NEW document, Sound(D)
  PROVE  \A o \in Base!InsertOne(D, document) : Sound(o.docs)
<1>1. CASE document["_id"] \in DOMAIN D \/ Base!Taken(D, document)
  BY <1>1 DEF Base!InsertOne, Base!CommandFails
<1>2. CASE ~(document["_id"] \in DOMAIN D \/ Base!Taken(D, document))
  <2>1. Base!InsertOne(D, document) = {Base!Command(Base!Put(D, document), 0, 1, 0)}
    BY <1>2 DEF Base!InsertOne
  <2>2. Sound(Base!Put(D, document))
    BY <1>2, PutSound
  <2> QED
    BY <2>1, <2>2 DEF Base!Command
<1> QED
  BY <1>1, <1>2

LEMMA PutMatchedSound ==
  ASSUME NEW D, NEW document, Sound(D)
  PROVE  Sound(Base!PutMatched(D, document).docs)
<1>1. CASE Base!Taken(D, document)
  BY <1>1 DEF Base!PutMatched, Base!CommandFails
<1>2. CASE ~Base!Taken(D, document)
  BY <1>2, PutSound DEF Base!PutMatched, Base!Command
<1> QED
  BY <1>1, <1>2

LEMMA UpdateOneSound ==
  ASSUME NEW D, NEW filter, NEW update, NEW upsert, Sound(D)
  PROVE  \A o \in Base!UpdateOne(D, filter, update, upsert) : Sound(o.docs)
<1>1. CASE Base!MatchingIds(D, filter) # {}
  <2>1. Base!UpdateOne(D, filter, update, upsert)
          = {Base!PutMatched(D, Base!UpdateDocument(D[id], update)) :
                id \in Base!MatchingIds(D, filter)}
    BY <1>1 DEF Base!UpdateOne
  <2> QED
    BY <2>1, PutMatchedSound
<1>2. CASE Base!MatchingIds(D, filter) = {} /\ upsert
  <2>1. Base!UpdateOne(D, filter, update, upsert)
          = Base!InsertOne(D, Base!UpsertDocument(filter, update))
    BY <1>2 DEF Base!UpdateOne
  <2> QED
    BY <2>1, InsertOneSound
<1>3. CASE Base!MatchingIds(D, filter) = {} /\ ~upsert
  <2>1. Base!UpdateOne(D, filter, update, upsert) = {Base!Command(D, 0, 0, 0)}
    BY <1>3 DEF Base!UpdateOne
  <2> QED
    BY <2>1 DEF Base!Command
<1> QED
  BY <1>1, <1>2, <1>3

LEMMA ReplaceOneSound ==
  ASSUME NEW D, NEW filter, NEW document, NEW upsert, Sound(D)
  PROVE  \A o \in Base!ReplaceOne(D, filter, document, upsert) : Sound(o.docs)
<1>1. CASE Base!MatchingIds(D, filter) # {}
  <2>1. \A o \in Base!ReplaceOne(D, filter, document, upsert) :
            o = Base!CommandFails(D) \/ o = Base!PutMatched(D, document)
    BY <1>1 DEF Base!ReplaceOne
  <2>2. Sound(Base!CommandFails(D).docs)
    BY DEF Base!CommandFails
  <2> QED
    BY <2>1, <2>2, PutMatchedSound
<1>2. CASE Base!MatchingIds(D, filter) = {} /\ upsert
  <2>1. Base!ReplaceOne(D, filter, document, upsert) = Base!InsertOne(D, document)
    BY <1>2 DEF Base!ReplaceOne
  <2> QED
    BY <2>1, InsertOneSound
<1>3. CASE Base!MatchingIds(D, filter) = {} /\ ~upsert
  <2>1. Base!ReplaceOne(D, filter, document, upsert) = {Base!Command(D, 0, 0, 0)}
    BY <1>3 DEF Base!ReplaceOne
  <2> QED
    BY <2>1 DEF Base!Command
<1> QED
  BY <1>1, <1>2, <1>3

LEMMA DeleteOneSound ==
  ASSUME NEW D, NEW filter, Sound(D)
  PROVE  \A o \in Base!DeleteOne(D, filter) : Sound(o.docs)
<1>1. CASE Base!MatchingIds(D, filter) = {}
  BY <1>1 DEF Base!DeleteOne, Base!Command
<1>2. CASE Base!MatchingIds(D, filter) # {}
  <2>1. \A o \in Base!DeleteOne(D, filter) :
            \E id \in Base!MatchingIds(D, filter) :
                o = Base!Command(Base!Restrict(D, DOMAIN D \ {id}), 0, 0, 1)
    BY <1>2 DEF Base!DeleteOne
  <2>2. \A id : Sound(Base!Command(Base!Restrict(D, DOMAIN D \ {id}), 0, 0, 1).docs)
    BY RemoveSound DEF Base!Command
  <2> QED
    BY <2>1, <2>2
<1> QED
  BY <1>1, <1>2

LEMMA DeleteManySound ==
  ASSUME NEW D, NEW filter, Sound(D)
  PROVE  \A o \in Base!DeleteMany(D, filter) : Sound(o.docs)
<1>1. \E n : Base!DeleteMany(D, filter)
        = {Base!Command(Base!Restrict(D, DOMAIN D \ Base!MatchingIds(D, filter)), 0, 0, n)}
  BY DEF Base!DeleteMany
<1>2. Sound(Base!Restrict(D, DOMAIN D \ Base!MatchingIds(D, filter)))
  BY RemoveSound
<1> QED
  BY <1>1, <1>2 DEF Base!Command

\* A sequence of all elements of a finite set, each once.
LEMMA EachOnce ==
  ASSUME NEW T, IsFiniteSet(T), NEW seq \in Base!InAnyOrder(T)
  PROVE  /\ DOMAIN seq = 1..Cardinality(T) /\ Cardinality(T) \in Nat
         /\ \A i \in DOMAIN seq : seq[i] \in T
         /\ \A x \in T : \E i \in DOMAIN seq : seq[i] = x
<1> DEFINE n == Cardinality(T)
<1>1. n \in Nat
  BY FS_CardinalityType
<1>2. Base!Cardinality(T) = n
  BY Zenon DEF Base!Cardinality, Cardinality
<1>3. seq \in [1..n -> T] /\ \A i, j \in 1..n : i # j => seq[i] # seq[j]
  BY <1>2 DEF Base!InAnyOrder, Base!Injection, Base!IsInjective
<1>4. seq \in Injection(1..n, T)
  BY <1>3 DEF Injection, IsInjective
<1>5. Cardinality(1..n) = n
  BY <1>1, FS_Interval
<1>6. seq \in Surjection(1..n, T)
  BY <1>4, <1>5, FS_Injection
<1> QED
  BY <1>1, <1>3, <1>6 DEF Surjection

\* Of two documents that were updated, the later one was found to be different
\* from the first one, which was already what it is in the end.
LEMMA UpdateManySound ==
  ASSUME NEW D, NEW filter, NEW update, Sound(D)
  PROVE  \A o \in Base!UpdateManyCommand(D, filter, update) : Sound(o.docs)
<1> DEFINE ids == Base!MatchingIds(D, filter)
           After(done) == [id \in DOMAIN D |-> IF id \in done
                                               THEN Base!UpdateDocument(D[id], update) ELSE D[id]]
           FailsAfter(done, id) ==
               Base!TakenByOther(After(done), id, Base!UpdateDocument(D[id], update))
           Reached == {done \in SUBSET ids :
                          \E seq \in Base!InAnyOrder(done) :
                              \A i \in DOMAIN seq :
                                  ~FailsAfter({seq[j] : j \in 1..(i - 1)}, seq[i])}
<1>1. ids \subseteq DOMAIN D
  BY DEF Base!MatchingIds
<1>2. ASSUME NEW done \in Reached PROVE Sound(After(done))
  <2>1. PICK seq \in Base!InAnyOrder(done) :
               \A i \in DOMAIN seq : ~FailsAfter({seq[j] : j \in 1..(i - 1)}, seq[i])
    OBVIOUS
  <2>2. done \subseteq DOMAIN D
    BY <1>1
  <2>3. IsFiniteSet(done)
    BY <2>2, FS_Subset DEF Sound
  <2>4. /\ DOMAIN seq = 1..Cardinality(done) /\ Cardinality(done) \in Nat
        /\ \A i \in DOMAIN seq : seq[i] \in done
        /\ \A x \in done : \E i \in DOMAIN seq : seq[i] = x
    BY <2>3, EachOnce
  <2>5. ASSUME CollectionUnique, NEW x \in DOMAIN D, NEW i \in DOMAIN seq, x # seq[i],
               \A j \in DOMAIN seq : seq[j] = x => j < i
        PROVE  Field(After(done)[x], UniqueField) # Field(After(done)[seq[i]], UniqueField)
    <3> DEFINE earlier == {seq[j] : j \in 1..(i - 1)}
    <3>1. ~Base!TakenByOther(After(earlier), seq[i], Base!UpdateDocument(D[seq[i]], update))
      BY <2>1
    <3>2. Field(After(earlier)[x], UniqueField)
            # Field(Base!UpdateDocument(D[seq[i]], update), UniqueField)
      BY <2>5, <3>1 DEF Base!TakenByOther, Base!CollectionUnique, CollectionUnique,
                        Base!Field, Field
    <3>3. x \in earlier <=> x \in done
      <4>1. ASSUME x \in done PROVE x \in earlier
        <5>1. PICK j \in DOMAIN seq : seq[j] = x
          BY <2>4, <4>1
        <5>2. j < i
          BY <2>5, <5>1
        <5> QED
          BY <2>4, <5>1, <5>2
      <4>2. ASSUME x \in earlier PROVE x \in done
        <5>1. PICK j \in 1..(i - 1) : seq[j] = x
          BY <4>2
        <5>2. j \in DOMAIN seq
          BY <2>4, <5>1
        <5> QED
          BY <2>4, <5>1, <5>2
      <4> QED
        BY <4>1, <4>2
    <3>4. After(earlier)[x] = After(done)[x]
      BY <3>3
    <3>5. After(done)[seq[i]] = Base!UpdateDocument(D[seq[i]], update)
      BY <2>2, <2>4
    <3> QED
      BY <3>2, <3>4, <3>5
  <2>6. ASSUME CollectionUnique, NEW x \in DOMAIN D, NEW y \in DOMAIN D,
               x \notin done, y \notin done, x # y
        PROVE  Field(After(done)[x], UniqueField) # Field(After(done)[y], UniqueField)
    <3>1. After(done)[x] = D[x] /\ After(done)[y] = D[y]
      BY <2>6
    <3> QED
      BY <2>6, <3>1 DEF Sound, NoDuplicates
  <2>7. ASSUME CollectionUnique, NEW x \in DOMAIN D, NEW y \in done, x \notin done
        PROVE  Field(After(done)[x], UniqueField) # Field(After(done)[y], UniqueField)
    <3>1. PICK i \in DOMAIN seq : seq[i] = y
      BY <2>4
    <3> HIDE DEF After
    <3> QED
      BY <2>4, <2>5, <2>7, <3>1
  <2>8. ASSUME CollectionUnique, NEW x \in done, NEW y \in done, x # y
        PROVE  Field(After(done)[x], UniqueField) # Field(After(done)[y], UniqueField)
    <3>1. PICK T : T = {i \in DOMAIN seq : seq[i] \in {x, y}}
      OBVIOUS
    <3>2. T \subseteq 0..Cardinality(done) /\ T # {}
      BY <2>4, <3>1
    <3>3. PICK i \in T : \A j \in T : j <= i
      BY <2>4, <3>2, GreatestOf
    <3>4. i \in DOMAIN seq /\ seq[i] \in {x, y}
      BY <3>1
    <3>5. ASSUME NEW z \in {x, y}, z # seq[i] PROVE \A j \in DOMAIN seq : seq[j] = z => j < i
      <4>1. ASSUME NEW j \in DOMAIN seq, seq[j] = z PROVE j < i
        <5>1. j <= i /\ j # i
          BY <3>1, <3>3, <3>5, <4>1
        <5> QED
          BY <2>4, <3>4, <5>1
      <4> QED
        BY <4>1
    <3>6. x \in DOMAIN D /\ y \in DOMAIN D
      BY <2>2
    <3> HIDE DEF After
    <3>7. CASE seq[i] = x
      BY <2>5, <2>8, <3>4, <3>5, <3>6, <3>7
    <3>8. CASE seq[i] = y
      BY <2>5, <2>8, <3>4, <3>5, <3>6, <3>8
    <3> QED
      BY <3>4, <3>7, <3>8
  <2>9. DOMAIN After(done) = DOMAIN D
    OBVIOUS
  <2>10. CollectionUnique => NoDuplicates(After(done))
    <3> HIDE DEF After
    <3>1. ASSUME CollectionUnique, NEW x \in DOMAIN D, NEW y \in DOMAIN D, x # y
          PROVE  Field(After(done)[x], UniqueField) # Field(After(done)[y], UniqueField)
      <4>1. CASE x \in done /\ y \in done
        BY <2>8, <3>1, <4>1
      <4>2. CASE x \in done /\ y \notin done
        BY <2>7, <3>1, <4>2
      <4>3. CASE x \notin done /\ y \in done
        BY <2>7, <3>1, <4>3
      <4>4. CASE x \notin done /\ y \notin done
        BY <2>6, <3>1, <4>4
      <4> QED
        BY <4>1, <4>2, <4>3, <4>4
    <3> QED
      BY <2>9, <3>1 DEF NoDuplicates
  <2> QED
    BY <2>9, <2>10 DEF Sound
<1>3. Base!UpdateManyCommand(D, filter, update)
        = {IF done = ids THEN Base!Command(After(done), Base!Cardinality(ids), 0, 0)
           ELSE Base!CommandFails(After(done)) :
             done \in {d \in Reached : d = ids \/ \E id \in ids \ d : FailsAfter(d, id)}}
  BY DEF Base!UpdateManyCommand
<1> HIDE DEF Reached, After, FailsAfter, ids
<1>4. \A o \in Base!UpdateManyCommand(D, filter, update) :
        \E done \in Reached : o.docs = After(done)
  <2> SUFFICES ASSUME NEW o \in Base!UpdateManyCommand(D, filter, update)
               PROVE  \E done \in Reached : o.docs = After(done)
    OBVIOUS
  <2>1. PICK done \in Reached :
               o = IF done = ids THEN Base!Command(After(done), Base!Cardinality(ids), 0, 0)
                   ELSE Base!CommandFails(After(done))
    BY <1>3
  <2>2. o.docs = After(done)
    BY <2>1 DEF Base!Command, Base!CommandFails
  <2> QED
    BY <2>2
<1> QED
  BY <1>2, <1>4

-----------------------------------------------------------------------------
(* The calls of the repositories.                                              *)

\* The methods of MongoBaseRepository that write.
LEMMA MethodsSound ==
  ASSUME Sound(docs)
  PROVE  /\ \A entity, id : \A o \in Base!Insert(entity, id) : Sound(o.docs)
         /\ \A entity, id : \A o \in Base!InsertIfNotExists(entity, id) : Sound(o.docs)
         /\ \A entity, upsert : \A o \in Base!Replace(entity, upsert) : Sound(o.docs)
         /\ \A filter, update, upsert : \A o \in Base!Update(filter, update, upsert) : Sound(o.docs)
         /\ \A filter, update : \A o \in Base!UpdateMany(filter, update) : Sound(o.docs)
         /\ \A filter : \A o \in Base!DeleteByFilter(filter) : Sound(o.docs)
         /\ \A filter : \A o \in Base!DeleteManyByFilter(filter) : Sound(o.docs)
<1>1. ASSUME NEW entity, NEW id, NEW o \in Base!Insert(entity, id) PROVE Sound(o.docs)
  <2>1. \E document : \E c \in Base!InsertOne(docs, document) : o.docs = c.docs
    BY <1>1 DEF Base!Insert, Base!ReplyOf, Base!Outcome
  <2> QED
    BY <2>1, InsertOneSound
<1>2. ASSUME NEW entity, NEW id, NEW o \in Base!InsertIfNotExists(entity, id) PROVE Sound(o.docs)
  <2>1. PICK filter : o \in Base!InsertIfNotExistsByFilter(filter, entity, id)
    BY <1>2 DEF Base!InsertIfNotExists
  <2> DEFINE update == [set |-> <<>>,
                        setOnInsert |-> Base!MongoDocumentFromMaybeNewEntity(entity, id)]
  <2>2. PICK c \in Base!UpdateOne(docs, filter, update, TRUE) :
                 \E r : o = Base!Outcome(c.docs, r)
    BY <2>1, Zenon DEF Base!InsertIfNotExistsByFilter, Base!ReplyOf
  <2>3. o.docs = c.docs
    BY <2>2 DEF Base!Outcome
  <2> HIDE DEF update
  <2> QED
    BY <2>2, <2>3, UpdateOneSound
<1>3. ASSUME NEW entity, NEW upsert, NEW o \in Base!Replace(entity, upsert) PROVE Sound(o.docs)
  <2>1. \E filter, document : \E c \in Base!ReplaceOne(docs, filter, document, upsert) :
            o.docs = c.docs
    BY <1>3 DEF Base!Replace, Base!ReplyOf, Base!Outcome
  <2> QED
    BY <2>1, ReplaceOneSound
<1>4. ASSUME NEW filter, NEW update, NEW upsert, NEW o \in Base!Update(filter, update, upsert)
      PROVE  Sound(o.docs)
  <2>1. \E c \in Base!UpdateOne(docs, filter, update, upsert) : o.docs = c.docs
    BY <1>4 DEF Base!Update, Base!ReplyOf, Base!Outcome
  <2> QED
    BY <2>1, UpdateOneSound
<1>5. ASSUME NEW filter, NEW update, NEW o \in Base!UpdateMany(filter, update)
      PROVE  Sound(o.docs)
  <2>1. \E c \in Base!UpdateManyCommand(docs, filter, update) : o.docs = c.docs
    BY <1>5 DEF Base!UpdateMany, Base!ReplyOf, Base!Outcome
  <2> QED
    BY <2>1, UpdateManySound
<1>6. ASSUME NEW filter, NEW o \in Base!DeleteByFilter(filter) PROVE Sound(o.docs)
  <2>1. \E c \in Base!DeleteOne(docs, filter) : o.docs = c.docs
    BY <1>6 DEF Base!DeleteByFilter, Base!ReplyOf, Base!Outcome
  <2> QED
    BY <2>1, DeleteOneSound
<1>7. ASSUME NEW filter, NEW o \in Base!DeleteManyByFilter(filter) PROVE Sound(o.docs)
  <2>1. \E c \in Base!DeleteMany(docs, filter) : o.docs = c.docs
    BY <1>7 DEF Base!DeleteManyByFilter, Base!ReplyOf, Base!Outcome
  <2> QED
    BY <2>1, DeleteManySound
<1> QED
  BY <1>1, <1>2, <1>3, <1>4, <1>5, <1>6, <1>7

LEMMA FindAndDeleteSound ==
  ASSUME Sound(docs), NEW filter, NEW options,
         NEW o \in Base!TryLoadByFilterAndDelete(filter, options)
  PROVE  Sound(o.docs)
<1>1. CASE Base!FindOne(docs, filter, options) = {}
  BY <1>1 DEF Base!TryLoadByFilterAndDelete, Base!Outcome
<1>2. CASE Base!FindOne(docs, filter, options) # {}
  <2>1. \E id : o.docs = Base!Restrict(docs, DOMAIN docs \ {id})
    BY <1>2 DEF Base!TryLoadByFilterAndDelete, Base!Outcome
  <2> QED
    BY <2>1, RemoveSound
<1> QED
  BY <1>1, <1>2

LEMMA FindAndUpdateSound ==
  ASSUME Sound(docs), NEW filter, NEW update, NEW options, NEW returnDocument,
         NEW o \in Base!TryLoadByFilterAndUpdate(filter, update, options, returnDocument)
  PROVE  Sound(o.docs)
<1>1. CASE Base!FindOne(docs, filter, options) = {}
  BY <1>1 DEF Base!TryLoadByFilterAndUpdate, Base!Outcome
<1>2. CASE Base!FindOne(docs, filter, options) # {}
  <2>1. \E document : o.docs = IF Base!Taken(docs, document) THEN docs
                               ELSE Base!Put(docs, document)
    BY <1>2 DEF Base!TryLoadByFilterAndUpdate, Base!Outcome
  <2> QED
    BY <2>1, PutSound
<1> QED
  BY <1>1, <1>2

\* The methods of MongoEntityRepository convert and call those.
LEMMA CallsSound ==
  ASSUME Sound(docs)
  PROVE  /\ \A e, id : \A o \in Insert(e, id) : Sound(o.docs)
         /\ \A e, upsert : \A o \in Update(e, upsert) : Sound(o.docs)
         /\ \A q, p : \A o \in PatchByFilter(q, p) : Sound(o.docs)
         /\ \A q, p : \A o \in PatchManyByFilter(q, p) : Sound(o.docs)
         /\ \A q, p, b, options : \A o \in TryLoadByFilterAndPatch(q, p, b, options) : Sound(o.docs)
         /\ \A q, options : \A o \in TryLoadByFilterAndDelete(q, options) : Sound(o.docs)
         /\ \A q : \A o \in DeleteByFilter(q) : Sound(o.docs)
         /\ \A q : \A o \in DeleteManyByFilter(q) : Sound(o.docs)
         /\ \A k, v, id : \A o \in KvSet(k, v, id) : Sound(o.docs)
         /\ \A k : \A o \in KvDelete(k) : Sound(o.docs)
<1>1. ASSUME NEW e, NEW id, NEW o \in Insert(e, id) PROVE Sound(o.docs)
  <2>1. \E c \in Base!Insert(Transform(e), id) : o.docs = c.docs
    BY <1>1 DEF Insert, Untransformed, Outcome
  <2> QED
    BY <2>1, MethodsSound
<1>2. ASSUME NEW e, NEW upsert, NEW o \in Update(e, upsert) PROVE Sound(o.docs)
  BY <1>2, MethodsSound DEF Update
<1>3. ASSUME NEW q, NEW p, NEW o \in PatchByFilter(q, p) PROVE Sound(o.docs)
  <2>1. CASE TransformFilter(q) = {}
    BY <1>3, <2>1 DEF PatchByFilter, WithFilter, Outcome
  <2>2. CASE TransformFilter(q) # {}
    <3>1. PICK filter : o \in AnyMatched(Base!Update(filter, TransformPatch(p), FALSE))
      BY <1>3, <2>2 DEF PatchByFilter, WithFilter
    <3>2. PICK c \in Base!Update(filter, TransformPatch(p), FALSE) :
                 \/ o = c
                 \/ \E n : o = Outcome(c.docs, Number(n))
      BY <3>1 DEF AnyMatched
    <3>3. o.docs = c.docs
      BY <3>2 DEF Outcome
    <3> QED
      BY <3>2, <3>3, MethodsSound
  <2> QED
    BY <2>1, <2>2
<1>4. ASSUME NEW q, NEW p, NEW o \in PatchManyByFilter(q, p) PROVE Sound(o.docs)
  <2>1. CASE TransformFilter(q) = {}
    BY <1>4, <2>1 DEF PatchManyByFilter, WithFilter, Outcome
  <2>2. CASE TransformFilter(q) # {}
    <3>1. \E filter : o \in Base!UpdateMany(filter, TransformPatch(p))
      BY <1>4, <2>2 DEF PatchManyByFilter, WithFilter
    <3> QED
      BY <3>1, MethodsSound
  <2> QED
    BY <2>1, <2>2
<1>5. ASSUME NEW q, NEW p, NEW b, NEW options, NEW o \in TryLoadByFilterAndPatch(q, p, b, options)
      PROVE  Sound(o.docs)
  <2>1. CASE TransformFilter(q) = {}
    BY <1>5, <2>1 DEF TryLoadByFilterAndPatch, WithFilter, Untransformed, Outcome
  <2>2. CASE TransformFilter(q) # {}
    <3>1. \E filter :
            \E c \in Base!TryLoadByFilterAndUpdate(filter, TransformPatch(p),
                        ConvertOptions(options), ReturnDocument(b)) : o.docs = c.docs
      BY <1>5, <2>2 DEF TryLoadByFilterAndPatch, WithFilter, Untransformed, Outcome
    <3> QED
      BY <3>1, FindAndUpdateSound
  <2> QED
    BY <2>1, <2>2
<1>6. ASSUME NEW q, NEW options, NEW o \in TryLoadByFilterAndDelete(q, options)
      PROVE  Sound(o.docs)
  <2>1. CASE TransformFilter(q) = {}
    BY <1>6, <2>1 DEF TryLoadByFilterAndDelete, WithFilter, Untransformed, Outcome
  <2>2. CASE TransformFilter(q) # {}
    <3>1. \E filter :
            \E c \in Base!TryLoadByFilterAndDelete(filter, ConvertOptions(options)) :
                o.docs = c.docs
      BY <1>6, <2>2 DEF TryLoadByFilterAndDelete, WithFilter, Untransformed, Outcome
    <3> QED
      BY <3>1, FindAndDeleteSound
  <2> QED
    BY <2>1, <2>2
<1>7. ASSUME NEW q, NEW o \in DeleteByFilter(q) PROVE Sound(o.docs)
  <2>1. CASE TransformFilter(q) = {}
    BY <1>7, <2>1 DEF DeleteByFilter, WithFilter, Outcome
  <2>2. CASE TransformFilter(q) # {}
    <3>1. \E filter : o \in Base!DeleteByFilter(filter)
      BY <1>7, <2>2 DEF DeleteByFilter, WithFilter
    <3> QED
      BY <3>1, MethodsSound
  <2> QED
    BY <2>1, <2>2
<1>8. ASSUME NEW q, NEW o \in DeleteManyByFilter(q) PROVE Sound(o.docs)
  <2>1. CASE TransformFilter(q) = {}
    BY <1>8, <2>1 DEF DeleteManyByFilter, WithFilter, Outcome
  <2>2. CASE TransformFilter(q) # {}
    <3>1. \E filter : o \in Base!DeleteManyByFilter(filter)
      BY <1>8, <2>2 DEF DeleteManyByFilter, WithFilter
    <3> QED
      BY <3>1, MethodsSound
  <2> QED
    BY <2>1, <2>2
<1>9. ASSUME NEW k, NEW v, NEW id, NEW o \in KvSet(k, v, id) PROVE Sound(o.docs)
  <2>1. \E filter, update, upsert : o \in Base!Update(filter, update, upsert)
    BY <1>9 DEF KvSet
  <2> QED
    BY <2>1, MethodsSound
<1>10. ASSUME NEW k, NEW o \in KvDelete(k) PROVE Sound(o.docs)
  BY <1>10, MethodsSound DEF KvDelete
<1> QED
  BY <1>1, <1>2, <1>3, <1>4, <1>5, <1>6, <1>7, <1>8, <1>9, <1>10

\* A step of a call that comes to one of the outcomes.
LEMMA CallStep ==
  ASSUME StartInv, Sound(docs'), UNCHANGED <<indexes, phase, plan>>
  PROVE  StartInv'
<1>1. Sound(docs)'
  BY DEF Sound, NoDuplicates, CollectionUnique, Field
<1> QED
  BY <1>1 DEF StartInv, Named, PlanInv, UnwantedInv, MissingInv, IsWanted, IsThere, Ready, Names

\* An operation of a bulk.
LEMMA OperationSound ==
  ASSUME NEW D, Sound(D), NEW operation, operation.op \in OperationNames,
         NEW o \in Base!Execute(D, operation)
  PROVE  Sound(o.docs)
<1> USE DEF Base!Execute
<1>1. CASE operation.op = "insertOne"
  BY <1>1, InsertOneSound
<1>2. CASE operation.op = "replaceOne"
  BY <1>2, ReplaceOneSound
<1>3. CASE operation.op = "updateOne"
  BY <1>3, UpdateOneSound
<1>4. CASE operation.op = "updateMany"
  <2>1. \/ o \in Base!UpdateOne(D, operation.filter, operation.update, TRUE)
        \/ o \in Base!UpdateManyCommand(D, operation.filter, operation.update)
    BY <1>4
  <2> QED
    BY <2>1, UpdateOneSound, UpdateManySound
<1>5. CASE operation.op = "deleteOne"
  BY <1>5, DeleteOneSound
<1>6. CASE operation.op = "deleteMany"
  BY <1>6, DeleteManySound
<1> QED
  BY <1>1, <1>2, <1>3, <1>4, <1>5, <1>6 DEF OperationNames

LEMMA InsertReports ==
  ASSUME NEW D, NEW operation, operation.op = "insertOne", NEW o \in Base!Execute(D, operation)
  PROVE  o.error <=> ~(o.upserted > 0)
<1>1. o \in Base!InsertOne(D, operation.document)
  BY DEF Base!Execute
<1>2. \/ o = Base!CommandFails(D)
      \/ \E E : o = Base!Command(E, 0, 1, 0)
  BY <1>1 DEF Base!InsertOne
<1> QED
  BY <1>2 DEF Base!CommandFails, Base!Command

LEMMA ReplaceReports ==
  ASSUME NEW D, NEW operation, operation.op = "replaceOne", NEW o \in Base!Execute(D, operation)
  PROVE  ~(o.matched > 0 /\ o.upserted > 0)
<1>1. o \in Base!ReplaceOne(D, operation.filter, operation.document, operation.upsert)
  BY DEF Base!Execute
<1>2. \/ o = Base!CommandFails(D)
      \/ o = Base!Command(D, 0, 0, 0)
      \/ o = Base!PutMatched(D, operation.document)
      \/ o \in Base!InsertOne(D, operation.document)
  BY <1>1 DEF Base!ReplaceOne
<1>3. \/ o = Base!CommandFails(D)
      \/ \E E : \/ o = Base!Command(E, 0, 1, 0)
                \/ o = Base!Command(E, 1, 0, 0)
                \/ o = Base!Command(E, 0, 0, 0)
  BY <1>2 DEF Base!PutMatched, Base!InsertOne
<1> QED
  BY <1>3 DEF Base!CommandFails, Base!Command

-----------------------------------------------------------------------------
(* MongoEntityRepository: the bulks.                                           *)

BulkInv == BulkTypeOK /\ TriedInv /\ MethodInv /\ BulkAccounted

\* Without a bulk there is nothing to account for.
LEMMA NoBulkInv ==
  ASSUME bulk = NoBulk
  PROVE  BulkInv
<1> USE DEF NoBulk
<1>1. BulkTypeOK
  <2>1. bulk.ops = <<>> /\ DOMAIN bulk.ops = {} /\ bulk.ops \in Seq(ToSet(bulk.ops))
    OBVIOUS
  <2>2. <<>> \in Seq(Entities)
    OBVIOUS
  <2> QED
    BY <2>1, <2>2 DEF BulkTypeOK
<1>2. TriedInv /\ MethodInv
  BY DEF TriedInv, MethodInv
<1>3. BulkAccounted
  BY DEF BulkAccounted
<1> QED
  BY <1>1, <1>2, <1>3 DEF BulkInv

LEMMA BulkStays ==
  ASSUME BulkInv, bulk' = bulk
  PROVE  BulkInv'
  BY DEF BulkInv, BulkTypeOK, TriedInv, MethodInv, BulkAccounted

LEMMA RestartBulk ==
  ASSUME BulkInv, NEW c \in Client, Restart(c) \/ ForgetBulk
  PROVE  BulkInv'
<1>1. bulk' = bulk \/ bulk' = NoBulk
  BY DEF Restart, ForgetBulk
<1>2. ASSUME bulk' = NoBulk PROVE BulkInv'
  <2>1. (bulk = NoBulk)' => BulkInv'
    BY NoBulkInv, PTL
  <2> QED
    BY <1>2, <2>1 DEF NoBulk, Undefined
<1> QED
  BY <1>1, <1>2, BulkStays

LEMMA SequenceOfItsOwn ==
  ASSUME NEW T, NEW seq \in Seq(T)
  PROVE  seq \in Seq(ToSet(seq)) /\ Len(seq) \in Nat /\ DOMAIN seq = 1..Len(seq)
<1>1. seq \in [1..Len(seq) -> T] /\ Len(seq) \in Nat /\ DOMAIN seq = 1..Len(seq)
  OBVIOUS
<1>2. seq \in [1..Len(seq) -> ToSet(seq)]
  BY <1>1 DEF ToSet
<1> QED
  BY <1>1, <1>2

LEMMA FunctionIsSequence ==
  ASSUME NEW n \in Nat, NEW T, NEW f \in [1..n -> T]
  PROVE  f \in Seq(T) /\ f \in Seq(ToSet(f)) /\ Len(f) = n
<1>1. [1..n -> T] \in {[1..m -> T] : m \in Nat}
  OBVIOUS
<1>2. f \in Seq(T)
  BY <1>1, SeqDef
<1> QED
  BY <1>2, SequenceOfItsOwn

\* The operations of two entities.
LEMMA Operations ==
  ASSUME NEW es \in SeveralEntities, NEW ops, ops = [i \in DOMAIN es |-> ops[i]]
  PROVE  /\ es \in Seq(Entities) /\ DOMAIN es = 1..2
         /\ ops \in Seq(ToSet(ops)) /\ DOMAIN ops = 1..2 /\ Len(ops) = 2
<1>1. es \in [1..2 -> Entities]
  BY DEF SeveralEntities
<1>2. DOMAIN es = 1..2 /\ ops = [i \in 1..2 |-> ops[i]]
  BY <1>1
<1>3. PICK T : \A i \in 1..2 : ops[i] \in T
  <2>1. \A i \in 1..2 : ops[i] \in {ops[j] : j \in 1..2}
    OBVIOUS
  <2> QED
    BY <2>1
<1>4. ops \in [1..2 -> T] /\ DOMAIN ops = 1..2
  BY <1>2, <1>3
<1> QED
  BY <1>1, <1>2, <1>4, FunctionIsSequence

\* The methods of several entities begin with nothing tried.
OperationsOf(method, ops) ==
  \A i \in 1..2 : /\ ops[i].op \in OperationNames
                  /\ method = "insertMany" => ops[i].op = "insertOne"
                  /\ method = "replaceMany" => ops[i].op = "replaceOne"

LEMMA StartStep ==
  ASSUME BulkInv, NEW c \in Client,
         NEW method \in {"insertMany", "insertManyIfNotExists", "replaceMany"},
         NEW ordered \in BOOLEAN, NEW entities \in SeveralEntities,
         NEW ops,
         entities \in Seq(Entities), DOMAIN entities = 1..2,
         ops \in Seq(ToSet(ops)), DOMAIN ops = 1..2, Len(ops) = 2,
         OperationsOf(method, ops),
         Start(c, method, ordered, entities, ops)
  PROVE  BulkInv'
<1>1. bulk' = [NoBulk EXCEPT !.phase = "running", !.method = method, !.ordered = ordered,
                             !.entities = entities, !.ops = ops, !.client = c]
  BY DEF Start
<1>2. /\ bulk'.phase = "running" /\ bulk'.method = method /\ bulk'.ordered = ordered
      /\ bulk'.entities = entities /\ bulk'.ops = ops
      /\ bulk'.tried = {} /\ bulk'.failed = {} /\ bulk'.matched = {} /\ bulk'.upserted = {}
  BY <1>1 DEF NoBulk
<1>3. BulkTypeOK'
  <2>1. \A i \in DOMAIN bulk'.ops : bulk'.ops[i].op \in OperationNames
    BY <1>2 DEF OperationsOf
  <2>2. bulk' \in [phase : {"idle", "building", "running", "done"},
                 method : {"none", "execute", "insertMany", "insertManyIfNotExists", "replaceMany"},
                 ordered : BOOLEAN, ops : {bulk'.ops}, entities : Seq(Entities),
                 tried : SUBSET DOMAIN bulk'.ops, failed : SUBSET bulk'.tried,
                 matched : SUBSET bulk'.tried, upserted : SUBSET bulk'.tried,
                 reply : {bulk'.reply}, client : {bulk'.client}]
    <3>1. bulk' = [phase |-> "running", method |-> method, ordered |-> ordered, ops |-> ops,
                   entities |-> entities, tried |-> {}, failed |-> {}, matched |-> {},
                   upserted |-> {}, reply |-> Undefined, client |-> c]
      BY <1>1 DEF NoBulk
    <3> QED
      BY <1>2, <3>1
  <2> QED
    BY <1>2, <2>1, <2>2 DEF BulkTypeOK, OperationNames, ToSet
<1>4. TriedInv'
  <2>1. bulk'.tried = 1..0 /\ bulk'.failed \subseteq {0} /\ 0 \in 0..Len(bulk'.ops)
    BY <1>2
  <2> QED
    BY <1>2, <2>1 DEF TriedInv
<1>5. MethodInv'
  BY <1>2 DEF MethodInv, OperationsOf
<1>6. BulkAccounted'
  BY <1>2 DEF BulkAccounted
<1> QED
  BY <1>3, <1>4, <1>5, <1>6 DEF BulkInv

LEMMA SeveralStep ==
  ASSUME BulkInv, NEW c \in Client, InsertMany(c) \/ InsertManyIfNotExists(c) \/ ReplaceMany(c)
  PROVE  BulkInv'
<1>1. CASE InsertMany(c)
  <2> DEFINE Operation(es, i) == Base!InsertOneOperation(AsDocument(es[i]))
  <2>1. PICK es \in SeveralEntities :
               Start(c, "insertMany", FALSE, es, [i \in DOMAIN es |-> Operation(es, i)])
    BY <1>1 DEF InsertMany
  <2>2. PICK ops : ops = [i \in DOMAIN es |-> Operation(es, i)]
    OBVIOUS
  <2>3. \A i \in DOMAIN es : ops[i].op = "insertOne" /\ "insertOne" \in OperationNames
    BY <2>2 DEF Base!InsertOneOperation, OperationNames
  <2>4. Start(c, "insertMany", FALSE, es, ops)
    BY <2>1, <2>2
  <2>5. /\ es \in Seq(Entities) /\ DOMAIN es = 1..2
        /\ ops \in Seq(ToSet(ops)) /\ DOMAIN ops = 1..2 /\ Len(ops) = 2
    BY <2>2, Operations
  <2>6. OperationsOf("insertMany", ops)
    BY <2>3, <2>5 DEF OperationsOf
  <2> QED
    BY <2>4, <2>5, <2>6, StartStep
<1>2. CASE InsertManyIfNotExists(c)
  <2> DEFINE Filter(e) == Base!AsFilter(ToNewEntity(Transform(e)))
             Operation(es, i) == Base!UpdateOneOperation(Filter(es[i]),
                    [set |-> <<>>, setOnInsert |-> AsDocument(es[i])], TRUE)
  <2>1. PICK es \in SeveralEntities :
               Start(c, "insertManyIfNotExists", FALSE, es, [i \in DOMAIN es |-> Operation(es, i)])
    BY <1>2 DEF InsertManyIfNotExists
  <2>2. PICK ops : ops = [i \in DOMAIN es |-> Operation(es, i)]
    OBVIOUS
  <2>3. \A i \in DOMAIN es : ops[i].op = "updateOne" /\ "updateOne" \in OperationNames
    BY <2>2 DEF Base!UpdateOneOperation, OperationNames
  <2>4. Start(c, "insertManyIfNotExists", FALSE, es, ops)
    BY <2>1, <2>2
  <2>5. /\ es \in Seq(Entities) /\ DOMAIN es = 1..2
        /\ ops \in Seq(ToSet(ops)) /\ DOMAIN ops = 1..2 /\ Len(ops) = 2
    BY <2>2, Operations
  <2>6. OperationsOf("insertManyIfNotExists", ops)
    BY <2>3, <2>5 DEF OperationsOf
  <2> QED
    BY <2>4, <2>5, <2>6, StartStep
<1>3. CASE ReplaceMany(c)
  <2> DEFINE Operation(es, upsert, i) ==
                 Base!ReplaceOneOperation(ToMongoDocument(Transform(es[i])), upsert)
  <2>1. PICK es \in SeveralEntities, upsert \in BOOLEAN :
               Start(c, "replaceMany", TRUE, es, [i \in DOMAIN es |-> Operation(es, upsert, i)])
    BY <1>3 DEF ReplaceMany
  <2>2. PICK ops : ops = [i \in DOMAIN es |-> Operation(es, upsert, i)]
    OBVIOUS
  <2>3. \A i \in DOMAIN es : ops[i].op = "replaceOne" /\ "replaceOne" \in OperationNames
    BY <2>2 DEF Base!ReplaceOneOperation, OperationNames
  <2>4. Start(c, "replaceMany", TRUE, es, ops)
    BY <2>1, <2>2
  <2>5. /\ es \in Seq(Entities) /\ DOMAIN es = 1..2
        /\ ops \in Seq(ToSet(ops)) /\ DOMAIN ops = 1..2 /\ Len(ops) = 2
    BY <2>2, Operations
  <2>6. OperationsOf("replaceMany", ops)
    BY <2>3, <2>5 DEF OperationsOf
  <2> QED
    BY <2>4, <2>5, <2>6, StartStep
<1> QED
  BY <1>1, <1>2, <1>3

LEMMA NewBulkStep ==
  ASSUME BulkInv, NEW c \in Client, NewBulk(c)
  PROVE  BulkInv'
<1>1. bulk' = [NoBulk EXCEPT !.phase = "building", !.method = "execute", !.client = c]
  BY DEF NewBulk
<1>2. /\ bulk'.phase = "building" /\ bulk'.method = "execute" /\ bulk'.ordered = FALSE
      /\ bulk'.entities = <<>> /\ bulk'.ops = <<>>
      /\ bulk'.tried = {} /\ bulk'.failed = {} /\ bulk'.matched = {} /\ bulk'.upserted = {}
  BY <1>1 DEF NoBulk
<1>3. BulkTypeOK'
  <2>1. bulk'.ops \in Seq({}) /\ DOMAIN bulk'.ops = {} /\ <<>> \in Seq(Entities)
    BY <1>2
  <2>2. bulk'.ops \in Seq(ToSet(bulk'.ops))
    BY <2>1, SequenceOfItsOwn
  <2>3. bulk' \in [phase : {"idle", "building", "running", "done"},
                 method : {"none", "execute", "insertMany", "insertManyIfNotExists", "replaceMany"},
                 ordered : BOOLEAN, ops : {bulk'.ops}, entities : Seq(Entities),
                 tried : SUBSET DOMAIN bulk'.ops, failed : SUBSET bulk'.tried,
                 matched : SUBSET bulk'.tried, upserted : SUBSET bulk'.tried,
                 reply : {bulk'.reply}, client : {bulk'.client}]
    BY <1>1, <1>2, <2>1 DEF NoBulk
  <2> QED
    BY <2>1, <2>2, <2>3 DEF BulkTypeOK, ToSet
<1>4. TriedInv' /\ MethodInv' /\ BulkAccounted'
  BY <1>2 DEF TriedInv, MethodInv, BulkAccounted
<1> QED
  BY <1>3, <1>4 DEF BulkInv

LEMMA PushOne ==
  ASSUME BulkInv, NEW operation, operation.op \in OperationNames, Push(<<operation>>)
  PROVE  BulkInv'
<1>1. bulk.phase = "building" /\ bulk' = [bulk EXCEPT !.ops = @ \o <<operation>>]
  BY DEF Push
<1>2. /\ bulk.tried = {} /\ ~bulk.ordered /\ bulk.method = "execute"
      /\ BulkTypeOK
  BY <1>1 DEF BulkInv, TriedInv
<1>3. /\ bulk' = [bulk EXCEPT !.ops = bulk.ops \o <<operation>>]
      /\ bulk \in [phase : {"idle", "building", "running", "done"},
                 method : {"none", "execute", "insertMany", "insertManyIfNotExists", "replaceMany"},
                 ordered : BOOLEAN, ops : {bulk.ops}, entities : Seq(Entities),
                 tried : SUBSET DOMAIN bulk.ops, failed : SUBSET bulk.tried,
                 matched : SUBSET bulk.tried, upserted : SUBSET bulk.tried,
                 reply : {bulk.reply}, client : {bulk.client}]
  BY <1>1, <1>2 DEF BulkTypeOK
<1>4. /\ bulk'.phase = "building" /\ bulk'.method = "execute" /\ ~bulk'.ordered
      /\ bulk'.entities = bulk.entities /\ bulk'.ops = bulk.ops \o <<operation>>
      /\ bulk'.tried = {} /\ bulk'.failed = bulk.failed /\ bulk'.matched = bulk.matched
      /\ bulk'.upserted = bulk.upserted
  BY <1>1, <1>2, <1>3
<1>5. /\ bulk'.ops \in Seq(ToSet(bulk.ops) \cup {operation})
      /\ \A i \in DOMAIN bulk'.ops : bulk'.ops[i].op \in OperationNames
  <2>1. PICK ops, T : ops = bulk.ops /\ T = ToSet(ops) /\ ops \in Seq(T)
    BY <1>2 DEF BulkTypeOK
  <2>2. /\ ops \o <<operation>> \in Seq(T \cup {operation})
        /\ DOMAIN (ops \o <<operation>>) = 1..(Len(ops) + 1)
        /\ \A i \in 1..Len(ops) : (ops \o <<operation>>)[i] = ops[i]
        /\ (ops \o <<operation>>)[Len(ops) + 1] = operation
        /\ DOMAIN ops = 1..Len(ops) /\ Len(ops) \in Nat
    BY <2>1
  <2>3. \A i \in DOMAIN ops : ops[i].op \in OperationNames
    BY <1>2, <2>1 DEF BulkTypeOK
  <2>4. ASSUME NEW i \in 1..(Len(ops) + 1) PROVE (ops \o <<operation>>)[i].op \in OperationNames
    <3>1. CASE i = Len(ops) + 1
      BY <2>2, <3>1
    <3>2. CASE i # Len(ops) + 1
      <4>1. i \in 1..Len(ops)
        BY <2>2, <3>2
      <4> QED
        BY <2>2, <2>3, <4>1
    <3> QED
      BY <3>1, <3>2
  <2> QED
    BY <1>4, <2>1, <2>2, <2>4
<1>6. bulk'.ops \in Seq(ToSet(bulk'.ops))
  BY <1>5, SequenceOfItsOwn
<1>7. bulk' \in [phase : {"idle", "building", "running", "done"},
                 method : {"none", "execute", "insertMany", "insertManyIfNotExists", "replaceMany"},
                 ordered : BOOLEAN, ops : {bulk'.ops}, entities : Seq(Entities),
                 tried : SUBSET DOMAIN bulk'.ops, failed : SUBSET bulk'.tried,
                 matched : SUBSET bulk'.tried, upserted : SUBSET bulk'.tried,
                 reply : {bulk'.reply}, client : {bulk'.client}]
  BY <1>2, <1>3, <1>4
<1>8. BulkTypeOK'
  BY <1>5, <1>6, <1>7 DEF BulkTypeOK, OperationNames, ToSet
<1>9. TriedInv' /\ MethodInv' /\ BulkAccounted'
  BY <1>4 DEF TriedInv, MethodInv, BulkAccounted
<1> QED
  BY <1>8, <1>9 DEF BulkInv

LEMMA PushStep ==
  ASSUME BulkInv,
         \/ BulkInsert \/ BulkUpdate \/ BulkUpdateMany \/ BulkReplace \/ BulkDelete
         \/ BulkDeleteMany
  PROVE  BulkInv'
<1>1. ASSUME BulkInsert PROVE \E operation : operation.op \in OperationNames /\ Push(<<operation>>)
  <2>1. \E document : Push(<<Base!InsertOneOperation(document)>>)
    BY <1>1 DEF BulkInsert
  <2> QED
    BY <2>1 DEF Base!InsertOneOperation, OperationNames
<1>2. ASSUME BulkUpdate PROVE \E operation : operation.op \in OperationNames /\ Push(<<operation>>)
  <2>1. \E filter, update : Push(<<Base!UpdateOneOperation(filter, update, TRUE)>>)
    BY <1>2 DEF BulkUpdate
  <2> QED
    BY <2>1 DEF Base!UpdateOneOperation, OperationNames
<1>3. ASSUME BulkUpdateMany PROVE \E operation : operation.op \in OperationNames /\ Push(<<operation>>)
  <2>1. \E filter, update : Push(<<Base!UpdateManyOperation(filter, update, FALSE)>>)
    BY <1>3 DEF BulkUpdateMany
  <2> QED
    BY <2>1 DEF Base!UpdateManyOperation, OperationNames
<1>4. ASSUME BulkReplace PROVE \E operation : operation.op \in OperationNames /\ Push(<<operation>>)
  <2>1. \E document : Push(<<Base!ReplaceOneOperation(document, FALSE)>>)
    BY <1>4 DEF BulkReplace
  <2> QED
    BY <2>1 DEF Base!ReplaceOneOperation, OperationNames
<1>5. ASSUME BulkDelete PROVE \E operation : operation.op \in OperationNames /\ Push(<<operation>>)
  <2>1. \E filter : Push(<<Base!DeleteOneOperation(filter)>>)
    BY <1>5 DEF BulkDelete
  <2> QED
    BY <2>1 DEF Base!DeleteOneOperation, OperationNames
<1>6. ASSUME BulkDeleteMany PROVE \E operation : operation.op \in OperationNames /\ Push(<<operation>>)
  <2>1. \E filter : Push(<<Base!DeleteManyOperation(filter)>>)
    BY <1>6 DEF BulkDeleteMany
  <2> QED
    BY <2>1 DEF Base!DeleteManyOperation, OperationNames
<1> QED
  BY <1>1, <1>2, <1>3, <1>4, <1>5, <1>6, PushOne

LEMMA SetToSeqElements ==
  ASSUME NEW T, IsFiniteSet(T)
  PROVE  ToSet(SetToSeq(T)) = T
<1> DEFINE n == Cardinality(T)
<1>1. n \in Nat /\ ExistsBijection(1..n, T)
  BY FS_CardinalityType
<1>2. PICK f \in [1..n -> T] : IsInjective(f)
  BY <1>1 DEF ExistsBijection, Bijection, Injection
<1>3. SetToSeq(T) \in [1..n -> T] /\ IsInjective(SetToSeq(T))
  BY <1>2 DEF SetToSeq
<1>4. SetToSeq(T) \in Injection(1..n, T)
  BY <1>3 DEF Injection
<1>5. Cardinality(1..n) = n
  BY <1>1, FS_Interval
<1>6. SetToSeq(T) \in Surjection(1..n, T)
  BY <1>4, <1>5, FS_Injection
<1> HIDE DEF n
<1> QED
  BY <1>3, <1>6 DEF Surjection, ToSet

\* execute() of a bulk.
LEMMA ExecuteBulkStep ==
  ASSUME BulkInv, ExecuteBulk
  PROVE  BulkInv'
<1>1. /\ bulk.phase = "building"
      /\ \/ bulk.ops = <<>> /\ bulk' = [bulk EXCEPT !.phase = "done", !.reply = Rejected]
         \/ bulk.ops # <<>> /\ bulk' = [bulk EXCEPT !.phase = "running"]
  BY DEF ExecuteBulk
<1>2. BulkTypeOK /\ bulk.tried = {} /\ ~bulk.ordered /\ bulk.method = "execute"
  BY <1>1 DEF BulkInv, TriedInv
<1>3. /\ bulk'.method = "execute" /\ ~bulk'.ordered /\ bulk'.entities = bulk.entities
      /\ bulk'.ops = bulk.ops /\ bulk'.tried = {} /\ bulk'.failed = bulk.failed
      /\ bulk'.matched = bulk.matched /\ bulk'.upserted = bulk.upserted
      /\ \/ bulk.ops = <<>> /\ bulk'.phase = "done" /\ bulk'.reply = Rejected
         \/ bulk'.phase = "running"
      /\ bulk' \in [phase : {"idle", "building", "running", "done"},
                 method : {"none", "execute", "insertMany", "insertManyIfNotExists", "replaceMany"},
                 ordered : BOOLEAN, ops : {bulk'.ops}, entities : Seq(Entities),
                 tried : SUBSET DOMAIN bulk'.ops, failed : SUBSET bulk'.tried,
                 matched : SUBSET bulk'.tried, upserted : SUBSET bulk'.tried,
                 reply : {bulk'.reply}, client : {bulk'.client}]
  BY <1>1, <1>2 DEF BulkTypeOK
<1>4. BulkTypeOK'
  BY <1>2, <1>3 DEF BulkTypeOK, OperationNames, ToSet
<1>5. TriedInv' /\ MethodInv'
  BY <1>3 DEF TriedInv, MethodInv
<1>6. BulkAccounted'
  BY <1>3 DEF BulkAccounted, Rejected
<1> QED
  BY <1>4, <1>5, <1>6 DEF BulkInv

\* The server tries one operation.
LEMMA ExecuteOperationStep ==
  ASSUME BulkInv, ExecuteOperation
  PROVE  BulkInv'
<1>1. PICK i \in DOMAIN bulk.ops \ bulk.tried :
        /\ bulk.ordered => bulk.failed = {} /\ 1..(i - 1) \subseteq bulk.tried
        /\ \E o \in Base!Execute(docs, bulk.ops[i]) : bulk' = Tried(i, o)
  BY DEF ExecuteOperation
<1>2. PICK o \in Base!Execute(docs, bulk.ops[i]) : bulk' = Tried(i, o)
  BY <1>1
<1>3. bulk.phase = "running"
  BY DEF ExecuteOperation
<1>4. BulkTypeOK /\ TriedInv /\ MethodInv
  BY DEF BulkInv
<1>5. bulk \in [phase : {"idle", "building", "running", "done"},
                 method : {"none", "execute", "insertMany", "insertManyIfNotExists", "replaceMany"},
                 ordered : BOOLEAN, ops : {bulk.ops}, entities : Seq(Entities),
                 tried : SUBSET DOMAIN bulk.ops, failed : SUBSET bulk.tried,
                 matched : SUBSET bulk.tried, upserted : SUBSET bulk.tried,
                 reply : {bulk.reply}, client : {bulk.client}]
  BY <1>4 DEF BulkTypeOK
<1>6. /\ bulk'.phase = "running" /\ bulk'.method = bulk.method /\ bulk'.ordered = bulk.ordered
      /\ bulk'.entities = bulk.entities /\ bulk'.ops = bulk.ops
      /\ bulk'.tried = bulk.tried \cup {i}
      /\ bulk'.failed = AddIf(o.error, i, bulk.failed)
      /\ bulk'.matched = AddIf(o.matched > 0, i, bulk.matched)
      /\ bulk'.upserted = AddIf(o.upserted > 0, i, bulk.upserted)
  BY <1>2, <1>3, <1>5 DEF Tried
<1>7. bulk' \in [phase : {"idle", "building", "running", "done"},
                 method : {"none", "execute", "insertMany", "insertManyIfNotExists", "replaceMany"},
                 ordered : BOOLEAN, ops : {bulk'.ops}, entities : Seq(Entities),
                 tried : SUBSET DOMAIN bulk'.ops, failed : SUBSET bulk'.tried,
                 matched : SUBSET bulk'.tried, upserted : SUBSET bulk'.tried,
                 reply : {bulk'.reply}, client : {bulk'.client}]
  <2>1. /\ bulk'.tried \subseteq DOMAIN bulk'.ops
        /\ bulk'.failed \subseteq bulk'.tried /\ bulk'.matched \subseteq bulk'.tried
        /\ bulk'.upserted \subseteq bulk'.tried
    BY <1>5, <1>6 DEF AddIf
  <2>2. bulk' = [phase |-> bulk'.phase, method |-> bulk'.method, ordered |-> bulk'.ordered,
                 ops |-> bulk'.ops, entities |-> bulk'.entities, tried |-> bulk'.tried,
                 failed |-> bulk'.failed, matched |-> bulk'.matched,
                 upserted |-> bulk'.upserted, reply |-> bulk'.reply, client |-> bulk'.client]
    BY <1>2, <1>5 DEF Tried
  <2>3. /\ bulk'.method \in {"none", "execute", "insertMany", "insertManyIfNotExists", "replaceMany"}
        /\ bulk'.ordered \in BOOLEAN /\ bulk'.entities \in Seq(Entities)
    BY <1>5, <1>6
  <2> QED
    BY <1>6, <2>1, <2>2, <2>3
<1>8. BulkTypeOK'
  BY <1>4, <1>6, <1>7 DEF BulkTypeOK, OperationNames, ToSet
<1>9. TriedInv'
  <2>1. ASSUME bulk.ordered
        PROVE  \E n \in 0..Len(bulk'.ops) : bulk'.tried = 1..n /\ bulk'.failed \subseteq {n}
    <3>1. PICK n \in 0..Len(bulk.ops) : bulk.tried = 1..n
      BY <1>4, <2>1 DEF TriedInv
    <3>2. Len(bulk.ops) \in Nat /\ DOMAIN bulk.ops = 1..Len(bulk.ops)
      BY <1>4, SequenceOfItsOwn DEF BulkTypeOK
    <3>3. i \in 1..Len(bulk.ops) /\ i \notin 1..n /\ 1..(i - 1) \subseteq 1..n
      BY <1>1, <2>1, <3>1, <3>2
    <3>4. i = n + 1
      <4>1. i > n
        BY <3>2, <3>3
      <4>2. i - 1 <= n
        <5>1. CASE i = 1
          BY <3>1, <3>2, <5>1
        <5>2. CASE i # 1
          <6>1. i - 1 \in 1..(i - 1)
            BY <3>2, <3>3, <5>2
          <6> QED
            BY <3>1, <3>2, <3>3, <6>1
        <5> QED
          BY <5>1, <5>2
      <4> QED
        BY <3>1, <3>2, <3>3, <4>1, <4>2
    <3>5. bulk'.tried = 1..i /\ i \in 0..Len(bulk.ops)
      BY <1>6, <3>1, <3>2, <3>3, <3>4
    <3>6. bulk'.failed \subseteq {i}
      BY <1>1, <1>6, <2>1 DEF AddIf
    <3> QED
      BY <1>6, <3>5, <3>6
  <2> QED
    BY <1>6, <2>1 DEF TriedInv
<1>10. MethodInv'
  <2>1. bulk.method = "insertMany" =>
            /\ \A j \in DOMAIN bulk.ops : bulk.ops[j].op = "insertOne"
            /\ bulk.upserted = bulk.tried \ bulk.failed
    BY <1>4 DEF MethodInv
  <2>2. bulk.method = "insertMany" => bulk'.upserted = bulk'.tried \ bulk'.failed
    <3>1. i \notin bulk.tried /\ bulk.failed \subseteq bulk.tried
      BY <1>5
    <3>2. ASSUME bulk.method = "insertMany" PROVE o.error <=> ~(o.upserted > 0)
      BY <2>1, <3>2, InsertReports
    <3>3. CASE o.error
      BY <1>6, <2>1, <3>1, <3>2, <3>3 DEF AddIf
    <3>4. CASE ~o.error
      BY <1>6, <2>1, <3>1, <3>2, <3>4 DEF AddIf
    <3> QED
      BY <3>3, <3>4
  <2>3. bulk.method = "replaceMany" =>
            /\ \A j \in DOMAIN bulk.ops : bulk.ops[j].op = "replaceOne"
            /\ bulk.matched \cap bulk.upserted = {}
    BY <1>4 DEF MethodInv
  <2>4. bulk.method = "replaceMany" => bulk'.matched \cap bulk'.upserted = {}
    <3>1. i \notin bulk.matched /\ i \notin bulk.upserted
      BY <1>5
    <3>2. ASSUME bulk.method = "replaceMany" PROVE ~(o.matched > 0 /\ o.upserted > 0)
      BY <2>3, <3>2, ReplaceReports
    <3> QED
      BY <1>6, <2>3, <3>1, <3>2 DEF AddIf
  <2> QED
    BY <1>4, <1>6, <2>1, <2>2, <2>3, <2>4 DEF MethodInv
<1>11. BulkAccounted'
  BY <1>6 DEF BulkAccounted
<1> QED
  BY <1>8, <1>9, <1>10, <1>11 DEF BulkInv

\* Every entity was written, or the number of those that were tells so.
LEMMA WrittenIsAll ==
  ASSUME NEW n \in Nat, NEW X, NEW Y, X \subseteq 1..n, Y \subseteq 1..n, X \cap Y = {}
  PROVE  Cardinality(X) + Cardinality(Y) = n <=> X \cup Y = 1..n
<1>1. IsFiniteSet(1..n) /\ Cardinality(1..n) = n
  BY FS_Interval
<1>2. IsFiniteSet(X) /\ IsFiniteSet(Y)
  BY <1>1, FS_Subset
<1>3. Cardinality(X \cup Y) = Cardinality(X) + Cardinality(Y) - Cardinality(X \cap Y)
  BY <1>2, FS_Union
<1>4. Cardinality(X) \in Nat /\ Cardinality(Y) \in Nat /\ Cardinality(X \cap Y) = 0
  BY <1>2, FS_CardinalityType, FS_EmptySet
<1>5. Cardinality(X \cup Y) = Cardinality(X) + Cardinality(Y)
  BY <1>3, <1>4
<1>6. X \cup Y \subseteq 1..n
  OBVIOUS
<1>7. Cardinality(X \cup Y) = n => X \cup Y = 1..n
  BY <1>1, <1>6, FS_Subset
<1> QED
  BY <1>1, <1>5, <1>7

\* What is answered is what the sets say.
LEMMA FinishBulkStep ==
  ASSUME BulkInv, FinishBulk
  PROVE  BulkInv'
<1>1. BulkTypeOK /\ TriedInv /\ MethodInv
  BY DEF BulkInv
<1>2. bulk \in [phase : {"idle", "building", "running", "done"},
                 method : {"none", "execute", "insertMany", "insertManyIfNotExists", "replaceMany"},
                 ordered : BOOLEAN, ops : {bulk.ops}, entities : Seq(Entities),
                 tried : SUBSET DOMAIN bulk.ops, failed : SUBSET bulk.tried,
                 matched : SUBSET bulk.tried, upserted : SUBSET bulk.tried,
                 reply : {bulk.reply}, client : {bulk.client}]
  BY <1>1 DEF BulkTypeOK
<1> DEFINE answer ==
          IF bulk.failed # {} THEN Rejected
          ELSE CASE bulk.method = "insertMany" -> InsertManyReply
                 [] bulk.method = "insertManyIfNotExists" -> InsertManyIfNotExistsReply
                 [] bulk.method = "replaceMany" -> ReplaceManyReply
                 [] OTHER -> Undefined
<1>3. /\ bulk.tried = DOMAIN bulk.ops \/ (bulk.ordered /\ bulk.failed # {})
      /\ bulk' = [bulk EXCEPT !.phase = "done", !.reply = answer]
  BY DEF FinishBulk
<1>4. /\ bulk.failed # {} => answer = Rejected
      /\ bulk.failed = {} =>
            /\ bulk.method = "insertMany" => answer = InsertManyReply
            /\ bulk.method = "insertManyIfNotExists" => answer = InsertManyIfNotExistsReply
            /\ bulk.method = "replaceMany" => answer = ReplaceManyReply
            /\ bulk.method \in {"none", "execute"} => answer = Undefined
  OBVIOUS
<1> HIDE DEF answer
<1>5. /\ bulk'.phase = "done" /\ bulk'.method = bulk.method /\ bulk'.ordered = bulk.ordered
      /\ bulk'.entities = bulk.entities /\ bulk'.ops = bulk.ops /\ bulk'.tried = bulk.tried
      /\ bulk'.failed = bulk.failed /\ bulk'.matched = bulk.matched
      /\ bulk'.upserted = bulk.upserted
      /\ bulk.failed # {} => bulk'.reply = Rejected
      /\ bulk.failed = {} =>
            /\ bulk.method = "insertMany" => bulk'.reply = InsertManyReply
            /\ bulk.method = "insertManyIfNotExists" => bulk'.reply = InsertManyIfNotExistsReply
            /\ bulk.method = "replaceMany" => bulk'.reply = ReplaceManyReply
            /\ bulk.method \in {"none", "execute"} => bulk'.reply = Undefined
      /\ bulk' \in [phase : {"idle", "building", "running", "done"},
                 method : {"none", "execute", "insertMany", "insertManyIfNotExists", "replaceMany"},
                 ordered : BOOLEAN, ops : {bulk'.ops}, entities : Seq(Entities),
                 tried : SUBSET DOMAIN bulk'.ops, failed : SUBSET bulk'.tried,
                 matched : SUBSET bulk'.tried, upserted : SUBSET bulk'.tried,
                 reply : {bulk'.reply}, client : {bulk'.client}]
  BY <1>2, <1>3, <1>4
<1>6. BulkTypeOK'
  BY <1>1, <1>5 DEF BulkTypeOK, OperationNames, ToSet
<1>7. TriedInv' /\ MethodInv'
  BY <1>1, <1>5 DEF TriedInv, MethodInv
<1>8. PICK n \in Nat : DOMAIN bulk.ops = 1..n /\ Len(bulk.ops) = n
  BY <1>1, SequenceOfItsOwn DEF BulkTypeOK
<1>9. BulkAccounted'
  <2>1. CASE bulk.failed # {}
    <3>1. bulk'.reply.kind = "rejected"
      BY <1>5, <2>1 DEF Rejected
    <3>2. ASSUME bulk.ordered
          PROVE  bulk.tried = 1..Cardinality(bulk.tried) /\ bulk.failed = {Cardinality(bulk.tried)}
      <4>1. PICK m \in 0..n : bulk.tried = 1..m /\ bulk.failed \subseteq {m}
        BY <1>1, <1>8, <3>2 DEF TriedInv
      <4>2. Cardinality(1..m) = m
        BY <1>8, <4>1, FS_Interval
      <4> QED
        BY <2>1, <4>1, <4>2
    <3> QED
      BY <1>3, <1>5, <2>1, <3>1, <3>2 DEF BulkAccounted
  <2>2. CASE bulk.failed = {}
    <3>1. bulk.tried = 1..n
      BY <1>3, <1>8, <2>2
    <3>2. CASE bulk.method = "insertMany"
      <4>1. bulk.upserted = DOMAIN bulk.entities
        BY <1>1, <1>8, <2>2, <3>1, <3>2 DEF MethodInv
      <4>2. bulk'.reply.kind = "many" /\ bulk'.reply.entities = bulk.entities
        BY <1>5, <2>2, <3>2 DEF InsertManyReply, Many
      <4>3. ToSet(bulk.entities) = {bulk.entities[i] : i \in bulk.upserted}
        BY <4>1 DEF ToSet
      <4>4. ToSet(bulk'.reply.entities) = {bulk'.entities[i] : i \in bulk'.upserted}
        BY <1>5, <4>2, <4>3
      <4> QED
        BY <1>5, <2>2, <4>2, <4>4 DEF BulkAccounted
    <3>3. CASE bulk.method = "insertManyIfNotExists"
      <4>1. bulk'.reply.kind = "many" /\ bulk'.reply.entities = Inserted
        BY <1>5, <2>2, <3>3 DEF InsertManyIfNotExistsReply, Many
      <4>2. IsFiniteSet(bulk.upserted)
        <5>1. bulk.upserted \subseteq 1..n
          BY <1>2, <1>8
        <5> QED
          BY <1>8, <5>1, FS_Subset, FS_Interval
      <4>3. IsFiniteSet({bulk.entities[i] : i \in bulk.upserted})
        <5> DEFINE T == {bulk.entities[i] : i \in bulk.upserted}
                   f == [i \in bulk.upserted |-> bulk.entities[i]]
        <5>1. f \in Surjection(bulk.upserted, T)
          BY DEF Surjection
        <5> HIDE DEF T, f
        <5>2. IsFiniteSet(T)
          BY <4>2, <5>1, FS_Surjection
        <5> QED
          BY <5>2 DEF T
      <4>4. ToSet(Inserted) = {bulk.entities[i] : i \in bulk.upserted}
        BY <4>3, SetToSeqElements DEF Inserted
      <4>5. ToSet(bulk'.reply.entities) = {bulk'.entities[i] : i \in bulk'.upserted}
        BY <1>5, <4>1, <4>4
      <4> QED
        BY <1>5, <2>2, <4>1, <4>5 DEF BulkAccounted
    <3>4. CASE bulk.method = "replaceMany"
      <4>1. Len(bulk.entities) = n
        BY <1>1, <1>2, <1>8, <3>4 DEF MethodInv
      <4>2. bulk.matched \subseteq 1..n /\ bulk.upserted \subseteq 1..n
        BY <1>2, <3>1
      <4>3. bulk.matched \cap bulk.upserted = {}
        BY <1>1, <3>4 DEF MethodInv
      <4>4. Written = n <=> bulk.matched \cup bulk.upserted = 1..n
        BY <4>2, <4>3, WrittenIsAll DEF Written
      <4>5. CASE Written # n
        <5>1. bulk'.reply.kind = "notFound"
          BY <1>5, <2>2, <3>4, <4>1, <4>5 DEF ReplaceManyReply, NotFound
        <5> QED
          BY <1>5, <1>8, <3>1, <4>4, <4>5, <5>1 DEF BulkAccounted
      <4>6. CASE Written = n
        <5>1. bulk'.reply.kind = "number"
          BY <1>5, <2>2, <3>4, <4>1, <4>6 DEF ReplaceManyReply, Number
        <5> QED
          BY <1>5, <1>8, <4>4, <4>6, <5>1 DEF BulkAccounted
      <4> QED
        BY <4>5, <4>6
    <3>5. CASE bulk.method \in {"none", "execute"}
      <4>1. bulk'.reply.kind = "undefined"
        BY <1>5, <2>2, <3>5 DEF Undefined
      <4> QED
        BY <1>5, <1>8, <2>2, <3>1, <4>1 DEF BulkAccounted
    <3> QED
      BY <1>2, <3>2, <3>3, <3>4, <3>5
  <2> QED
    BY <2>1, <2>2
<1> QED
  BY <1>6, <1>7, <1>9 DEF BulkInv

\* A call of one command.
LEMMA CallKeeps ==
  ASSUME StartInv, BulkInv, NEW c, NEW outcomes, \A o \in outcomes : Sound(o.docs),
         Call(c, outcomes)
  PROVE  StartInv' /\ BulkInv'
<1>1. PICK o \in outcomes : docs' = o.docs
  BY DEF Call
<1>2. UNCHANGED <<indexes, phase, plan, bulk>>
  BY DEF Call
<1>3. Sound(o.docs)
  BY <1>1
<1>4. Sound(docs')
  BY <1>1, <1>3
<1> QED
  BY <1>2, <1>4, CallStep, BulkStays

LEMMA CallsStep ==
  ASSUME StartInv, BulkInv, NEW c \in Client,
         \/ CallInsert(c) \/ CallInsertIfNotExists(c) \/ CallUpdate(c) \/ CallPatch(c)
         \/ CallPatchMany(c) \/ CallLoadAndPatch(c) \/ CallLoadAndDelete(c)
         \/ CallDelete(c) \/ CallDeleteMany(c) \/ CallKvSet(c) \/ CallKvDelete(c)
  PROVE  StartInv' /\ BulkInv'
<1>1. Sound(docs)
  BY DEF StartInv
<1>2. ASSUME NEW outcomes, \A o \in outcomes : Sound(o.docs), Call(c, outcomes)
      PROVE  StartInv' /\ BulkInv'
  BY <1>2, CallKeeps
<1>3. CASE CallInsert(c)
  <2>1. \E e, id : Call(c, Insert(e, id))
    BY <1>3 DEF CallInsert
  <2> QED
    BY <1>1, <1>2, <2>1, CallsSound
<1>4. CASE CallInsertIfNotExists(c)
  <2>1. \E e, id : Call(c, Base!InsertIfNotExists(e, id))
    BY <1>4 DEF CallInsertIfNotExists
  <2> QED
    BY <1>1, <1>2, <2>1, MethodsSound
<1>5. CASE CallUpdate(c)
  <2>1. \E e, upsert : Call(c, Update(e, upsert))
    BY <1>5 DEF CallUpdate
  <2> QED
    BY <1>1, <1>2, <2>1, CallsSound
<1>6. CASE CallPatch(c)
  <2>1. \E q, p : Call(c, PatchByFilter(q, p))
    BY <1>6 DEF CallPatch
  <2> QED
    BY <1>1, <1>2, <2>1, CallsSound
<1>7. CASE CallPatchMany(c)
  <2>1. \E q, p : Call(c, PatchManyByFilter(q, p))
    BY <1>7 DEF CallPatchMany
  <2> QED
    BY <1>1, <1>2, <2>1, CallsSound
<1>8. CASE CallLoadAndPatch(c)
  <2>1. \E q, p, b, options : Call(c, TryLoadByFilterAndPatch(q, p, b, options))
    BY <1>8 DEF CallLoadAndPatch
  <2> QED
    BY <1>1, <1>2, <2>1, CallsSound
<1>9. CASE CallLoadAndDelete(c)
  <2>1. \E q, options : Call(c, TryLoadByFilterAndDelete(q, options))
    BY <1>9 DEF CallLoadAndDelete
  <2> QED
    BY <1>1, <1>2, <2>1, CallsSound
<1>10. CASE CallDelete(c)
  <2>1. \E q : Call(c, DeleteByFilter(q))
    BY <1>10 DEF CallDelete
  <2> QED
    BY <1>1, <1>2, <2>1, CallsSound
<1>11. CASE CallDeleteMany(c)
  <2>1. \E q : Call(c, DeleteManyByFilter(q))
    BY <1>11 DEF CallDeleteMany
  <2> QED
    BY <1>1, <1>2, <2>1, CallsSound
<1>12. CASE CallKvSet(c)
  <2>1. \E k, v, id : Call(c, KvSet(k, v, id))
    BY <1>12 DEF CallKvSet
  <2> QED
    BY <1>1, <1>2, <2>1, CallsSound
<1>13. CASE CallKvDelete(c)
  <2>1. \E k : Call(c, KvDelete(k))
    BY <1>13 DEF CallKvDelete
  <2> QED
    BY <1>1, <1>2, <2>1, CallsSound
<1> QED
  BY <1>3, <1>4, <1>5, <1>6, <1>7, <1>8, <1>9, <1>10, <1>11, <1>12, <1>13

\* An operation of a bulk is a write like others.
LEMMA ExecuteOperationKeeps ==
  ASSUME StartInv, BulkInv, ExecuteOperation
  PROVE  StartInv'
<1>1. PICK i \in DOMAIN bulk.ops \ bulk.tried :
        \E o \in Base!Execute(docs, bulk.ops[i]) : docs' = o.docs
  BY DEF ExecuteOperation
<1>2. PICK o \in Base!Execute(docs, bulk.ops[i]) : docs' = o.docs
  BY <1>1
<1>3. bulk.ops[i].op \in OperationNames
  BY <1>1 DEF BulkInv, BulkTypeOK
<1>4. Sound(docs)
  BY DEF StartInv
<1>5. Sound(o.docs)
  BY <1>2, <1>3, <1>4, OperationSound
<1>6. Sound(docs')
  BY <1>2, <1>5
<1>7. UNCHANGED <<indexes, phase, plan>>
  BY DEF ExecuteOperation
<1> QED
  BY <1>6, <1>7, CallStep

\* What leaves documents, indexes and starts alone.
LEMMA StartStays ==
  ASSUME StartInv, UNCHANGED <<docs, indexes, phase, plan>>
  PROVE  StartInv'
<1>1. Sound(docs')
  BY DEF StartInv
<1> QED
  BY <1>1, CallStep

LEMMA RepositoryInit ==
  /\ Init => RepositoryInv
  /\ IdleRepository => RepositoryInv
<1>1. bulk = NoBulk => BulkInv
  BY NoBulkInv
<1>2. Init => RepositoryInv
  BY <1>1, StartInit DEF Init, RepositoryInv, BulkInv
<1>3. IdleRepository => StartInv
  <2> SUFFICES ASSUME IdleRepository PROVE StartInv
    OBVIOUS
  <2> USE DEF IdleRepository
  <2>1. /\ phase \in [Client -> {"collection", "create", "initialize", "indexes",
                                 "ready", "failed"}]
        /\ plan \in [Client -> [drop : SUBSET Names, create : SUBSET Wanted]]
    BY DEF NoPlan
  <2>2. PlanInv /\ UnwantedInv
    BY DEF PlanInv, UnwantedInv
  <2>3. MissingInv
    BY IndexAssumption DEF MissingInv, Ready
  <2>4. Named(indexes) /\ {index.name : index \in indexes} \subseteq Names
    BY DEF Named
  <2>5. Sound(docs)
    <3>1. DOMAIN docs = {}
      OBVIOUS
    <3>2. IsFiniteSet(DOMAIN docs)
      BY <3>1, FS_EmptySet
    <3>3. NoDuplicates(docs)
      BY <3>1 DEF NoDuplicates
    <3> QED
      BY <3>2, <3>3 DEF Sound
  <2> QED
    BY <2>1, <2>2, <2>3, <2>4, <2>5 DEF StartInv
<1> QED
  BY <1>1, <1>2, <1>3 DEF IdleRepository, RepositoryInv, BulkInv

LEMMA RepositoryStep == RepositoryInv /\ [Next]_vars => RepositoryInv'
<1> SUFFICES ASSUME RepositoryInv, [Next]_vars PROVE RepositoryInv'
  OBVIOUS
<1>1. StartInv /\ BulkInv
  BY DEF RepositoryInv, BulkInv
<1> SUFFICES StartInv' /\ BulkInv'
  BY DEF RepositoryInv, BulkInv
<1>2. ASSUME NEW c \in Client, FindCollection(c) \/ CreateCollection(c)
      PROVE  StartInv' /\ BulkInv'
  <2>1. bulk' = bulk
    BY <1>2 DEF FindCollection, CreateCollection
  <2> QED
    BY <1>1, <1>2, <2>1, FindCollectionStep, BulkStays
<1>3. ASSUME NEW c \in Client, ReadIndexes(c) PROVE StartInv' /\ BulkInv'
  <2>1. bulk' = bulk
    BY <1>3 DEF ReadIndexes
  <2> QED
    BY <1>1, <1>3, <2>1, ReadIndexesStep, BulkStays
<1>4. ASSUME NEW c \in Client, DropIndex(c) PROVE StartInv' /\ BulkInv'
  <2>1. bulk' = bulk
    BY <1>4 DEF DropIndex
  <2> QED
    BY <1>1, <1>4, <2>1, DropIndexStep, BulkStays
<1>5. ASSUME NEW c \in Client, CreateIndexes(c) PROVE StartInv' /\ BulkInv'
  <2>1. bulk' = bulk
    BY <1>5 DEF CreateIndexes
  <2> QED
    BY <1>1, <1>5, <2>1, CreateIndexesStep, BulkStays
<1>6. ASSUME NEW c \in Client, Restart(c) PROVE StartInv' /\ BulkInv'
  BY <1>1, <1>6, RestartStep, RestartBulk
<1>7. ASSUME NEW c \in Client, NewBulk(c) PROVE StartInv' /\ BulkInv'
  <2>1. UNCHANGED <<docs, indexes, phase, plan>>
    BY <1>7 DEF NewBulk
  <2> QED
    BY <1>1, <1>7, <2>1, StartStays, NewBulkStep
<1>8. ASSUME NEW c \in Client, InsertMany(c) \/ InsertManyIfNotExists(c) \/ ReplaceMany(c)
      PROVE  StartInv' /\ BulkInv'
  <2>1. UNCHANGED <<docs, indexes, phase, plan>>
    <3>1. \E method, ordered, es, ops : Start(c, method, ordered, es, ops)
      <4>1. ASSUME InsertMany(c) PROVE \E method, ordered, es, ops : Start(c, method, ordered, es, ops)
        BY <4>1, Zenon DEF InsertMany
      <4>2. ASSUME InsertManyIfNotExists(c) PROVE \E method, ordered, es, ops : Start(c, method, ordered, es, ops)
        BY <4>2, Zenon DEF InsertManyIfNotExists
      <4>3. ASSUME ReplaceMany(c) PROVE \E method, ordered, es, ops : Start(c, method, ordered, es, ops)
        BY <4>3, Zenon DEF ReplaceMany
      <4> QED
        BY <1>8, <4>1, <4>2, <4>3
    <3> QED
      BY <3>1, Zenon DEF Start
  <2> QED
    BY <1>1, <1>8, <2>1, StartStays, SeveralStep
<1>9. ASSUME \/ BulkInsert \/ BulkUpdate \/ BulkUpdateMany \/ BulkReplace \/ BulkDelete
             \/ BulkDeleteMany
      PROVE  StartInv' /\ BulkInv'
  <2>1. UNCHANGED <<docs, indexes, phase, plan>>
    BY <1>9 DEF BulkInsert, BulkUpdate, BulkUpdateMany, BulkReplace, BulkDelete,
                BulkDeleteMany, Push
  <2> QED
    BY <1>1, <1>9, <2>1, StartStays, PushStep
<1>10. CASE ExecuteBulk
  <2>1. UNCHANGED <<docs, indexes, phase, plan>>
    BY <1>10 DEF ExecuteBulk
  <2> QED
    BY <1>1, <1>10, <2>1, StartStays, ExecuteBulkStep
<1>11. CASE ExecuteOperation
  BY <1>1, <1>11, ExecuteOperationKeeps, ExecuteOperationStep
<1>12. CASE FinishBulk
  <2>1. UNCHANGED <<docs, indexes, phase, plan>>
    BY <1>12 DEF FinishBulk
  <2> QED
    BY <1>1, <1>12, <2>1, StartStays, FinishBulkStep
<1>13. CASE ForgetBulk
  <2>1. UNCHANGED <<docs, indexes, phase, plan>>
    BY <1>13 DEF ForgetBulk
  <2>2. PICK c : c \in Client
    BY IndexAssumption
  <2> QED
    BY <1>1, <1>13, <2>1, <2>2, StartStays, RestartBulk
<1>14. CASE UNCHANGED vars
  BY <1>1, <1>14, StartStays, BulkStays DEF vars
<1>15. ASSUME NEW c \in Client,
         \/ CallInsert(c) \/ CallInsertIfNotExists(c) \/ CallUpdate(c) \/ CallPatch(c)
         \/ CallPatchMany(c) \/ CallLoadAndPatch(c) \/ CallLoadAndDelete(c)
         \/ CallDelete(c) \/ CallDeleteMany(c) \/ CallKvSet(c) \/ CallKvDelete(c)
       PROVE StartInv' /\ BulkInv'
  BY <1>1, <1>15, CallsStep
<1> QED
  BY <1>2, <1>3, <1>4, <1>5, <1>6, <1>7, <1>8, <1>9, <1>10, <1>11, <1>12, <1>13, <1>14, <1>15
     DEF Next

\* Nobody is left who would create or drop an index, so there are the wanted ones.
LEMMA RepositoryReady == RepositoryInv => ReadyIsUnique
<1> SUFFICES ASSUME RepositoryInv, \A c \in Client : Ready(c)
             PROVE  /\ {NormalizeIndex(index) : index \in indexes} = {NormalizeIndex(w) : w \in Wanted}
                    /\ (\E w \in Wanted : w.unique) => NoDuplicates(docs)
  BY DEF ReadyIsUnique
<1>1. UnwantedInv /\ MissingInv /\ Named(indexes) /\ Sound(docs)
  BY DEF RepositoryInv, StartInv
<1>2. \A index \in indexes : IsWanted(index)
  BY <1>1, IndexAssumption DEF UnwantedInv
<1>3. \A w \in Wanted : IsThere(w)
  BY <1>1 DEF MissingInv
<1>4. {NormalizeIndex(index) : index \in indexes} = {NormalizeIndex(w) : w \in Wanted}
  BY <1>2, <1>3 DEF IsWanted, IsThere
<1>5. ASSUME NEW w \in Wanted, w.unique PROVE NoDuplicates(docs)
  <2>1. PICK index \in indexes : NormalizeIndex(index) = NormalizeIndex(w)
    BY <1>3 DEF IsThere
  <2>2. index.unique = NormalizeIndex(index).unique /\ w.unique = NormalizeIndex(w).unique
    BY <1>1, IndexFields, IndexAssumption
  <2>3. index.unique
    BY <1>5, <2>1, <2>2
  <2> QED
    BY <1>1, <2>3 DEF Sound, CollectionUnique
<1> QED
  BY <1>4, <1>5

-----------------------------------------------------------------------------
(* TypedRedis: the commands of a pipeline or a transaction.                    *)

\* The answers to the next n commands are a function, for every n: the least n
\* without one would have that of n - 1, and one answer more.
LEMMA AnswersExist ==
  ASSUME NEW n \in Nat
  PROVE  \E f : f = [i \in 0..n |->
              IF i = 0 THEN R!Answer(db, <<>>)
              ELSE R!Server(f[i - 1].after, R!Wrapped(R!Command(batch[Len(replies) + i])))]
<1> DEFINE a == R!Answer(db, <<>>)
           F(x, i) == R!Server(x.after, R!Wrapped(R!Command(batch[Len(replies) + i])))
           Is(f, m) == f = [i \in 0..m |-> IF i = 0 THEN a ELSE F(f[i - 1], i)]
           T == {m \in Nat : ~ \E f : Is(f, m)}
<1>1. \E f : Is(f, n)
  <2> HIDE DEF a, F
  <2> SUFFICES ASSUME n \in T PROVE FALSE
    OBVIOUS
  <2>1. T \subseteq Nat /\ \A m \in T : ~ \E f : Is(f, m)
    OBVIOUS
  <2>2. \A m \in Nat \ T : \E f : Is(f, m)
    OBVIOUS
  <2> HIDE DEF T
  <2>3. PICK m \in T : \A k \in T : m <= k
    <3> HIDE DEF Is
    <3> QED
      BY <2>1, LeastOf
  <2>4. m \in Nat
    BY <2>1, <2>3
  <2>5. CASE m = 0
    <3>1. Is([i \in 0..0 |-> a], 0)
      OBVIOUS
    <3> QED
      BY <2>1, <2>3, <2>5, <3>1
  <2>6. CASE m # 0
    <3>1. m - 1 \in Nat \ T
      <4> HIDE DEF Is
      <4>1. m - 1 \in Nat /\ ~(m <= m - 1)
        BY <2>4, <2>6
      <4> QED
        BY <2>3, <4>1
    <3>2. PICK f : Is(f, m - 1)
      BY <2>2, <3>1
    <3> DEFINE g == [i \in 0..m |-> IF i = 0 THEN a ELSE F(f[i - 1], i)]
    <3>3. ASSUME NEW i \in 0..m, i # 0 PROVE g[i - 1] = f[i - 1]
      <4>1. i - 1 \in 0..(m - 1) /\ i - 1 \in 0..m
        BY <2>4, <3>3
      <4>2. f[i - 1] = IF i - 1 = 0 THEN a ELSE F(f[i - 1 - 1], i - 1)
        BY <3>2, <4>1
      <4> QED
        BY <4>1, <4>2
    <3>4. Is(g, m)
      BY <3>3
    <3> QED
      BY <2>1, <2>3, <3>4
  <2> QED
    BY <2>5, <2>6
<1> QED
  BY <1>1

LEMMA AnswersAre ==
  ASSUME NEW n \in Nat
  PROVE  R!Answers(n) =
           [i \in 0..n |->
              IF i = 0 THEN R!Answer(db, <<>>)
              ELSE R!Server(R!Answers(n)[i - 1].after,
                            R!Wrapped(R!Command(batch[Len(replies) + i])))]
<1> DEFINE Is(f) == f = [i \in 0..n |->
              IF i = 0 THEN R!Answer(db, <<>>)
              ELSE R!Server(f[i - 1].after, R!Wrapped(R!Command(batch[Len(replies) + i])))]
<1>1. \E f : Is(f)
  BY AnswersExist
<1>2. R!Answers(n) = CHOOSE f : Is(f)
  BY DEF R!Answers
<1> QED
  BY <1>1, <1>2

\* A command of the wrapper is the command itself, but for `get`.
LEMMA WrappedIsCommand ==
  ASSUME NEW c \in BatchCalls, c.op # "get"
  PROVE  R!Wrapped(R!Command(c)) = R!Command(c)
<1>1. R!Command(c).cmd = IF "reverse" \in c.opts THEN R!Reversed[c.op]
                         ELSE IF "asFloat" \in c.opts THEN "hincrbyfloat" ELSE R!Simple(c.op)
  BY DEF R!Command
<1>2. c.op \in R!Methods /\ ("reverse" \in c.opts => c.op \in DOMAIN R!Reversed)
  BY CallsAssumption DEF Offered
<1>3. c.op \in DOMAIN R!Reversed => R!Reversed[c.op] # "get"
  BY DEF R!Reversed
<1>4. R!Simple(c.op) # "get"
  BY <1>2 DEF R!Simple, R!Methods, R!StringsAndHashes, R!SortedSetsAndLists
<1>5. R!Command(c).cmd # "get"
  BY <1>1, <1>2, <1>3, <1>4
<1> QED
  BY <1>5 DEF R!Wrapped

LEMMA Concatenated ==
  ASSUME NEW V, NEW U, NEW s \in Seq(V), NEW t \in Seq(U)
  PROVE  /\ s \o t \in Seq(ToSet(s \o t))
         /\ Len(s \o t) = Len(s) + Len(t) /\ DOMAIN (s \o t) = 1..(Len(s) + Len(t))
         /\ \A i \in 1..Len(s) : (s \o t)[i] = s[i]
         /\ \A i \in 1..Len(t) : (s \o t)[Len(s) + i] = t[i]
<1> DEFINE m == Len(s)
           n == Len(t)
           st == s \o t
<1>1. s \in Seq(V \cup U) /\ t \in Seq(V \cup U) /\ m \in Nat /\ n \in Nat
  OBVIOUS
<1>2. /\ st \in Seq(V \cup U) /\ Len(st) = m + n
      /\ \A i \in 1..(m + n) : st[i] = IF i <= m THEN s[i] ELSE t[i - m]
  BY <1>1, ConcatProperties
<1> HIDE DEF m, n, st
<1>3. \A i \in 1..m : st[i] = s[i]
  BY <1>1, <1>2
<1>4. ASSUME NEW i \in 1..n PROVE st[m + i] = t[i]
  <2>1. m + i \in 1..(m + n) /\ ~(m + i <= m) /\ (m + i) - m = i
    BY <1>1
  <2> QED
    BY <1>2, <2>1
<1>5. st \in Seq(ToSet(st)) /\ DOMAIN st = 1..Len(st)
  BY <1>2, SequenceOfItsOwn
<1> QED
  BY <1>2, <1>3, <1>4, <1>5 DEF m, n, st

\* What running the next n commands adds.
LEMMA RunAdds ==
  ASSUME NEW n \in Nat, R!BatchInv, R!Run(n)
  PROVE  LET m == Len(replies) IN
         /\ m \in Nat /\ DOMAIN replies = 1..m /\ DOMAIN found = 1..m
         /\ replies' \in Seq(ToSet(replies')) /\ found' \in Seq(ToSet(found'))
         /\ Len(replies') = m + n /\ DOMAIN replies' = 1..(m + n)
         /\ Len(found') = m + n /\ DOMAIN found' = 1..(m + n)
         /\ \A i \in 1..m : replies'[i] = replies[i] /\ found'[i] = found[i]
         /\ \A i \in (m + 1)..(m + n) :
               replies'[i] = R!Server(found'[i], R!Wrapped(R!Command(batch[i])))
         /\ \A i \in (m + 2)..(m + n) : found'[i] = replies'[i - 1].after
<1> DEFINE m == Len(replies)
           answers == R!Answers(n)
           new == [i \in 1..n |-> answers[i]]
           start == [i \in 1..n |-> answers[i - 1].after]
<1>1. replies' = replies \o new /\ found' = found \o start
  BY DEF R!Run
<1>2. /\ replies \in Seq(ToSet(replies)) /\ found \in Seq(ToSet(found))
      /\ Len(found) = m
  BY DEF R!BatchInv, R!ToSet, ToSet
<1>3. /\ m \in Nat /\ DOMAIN replies = 1..m /\ DOMAIN found = 1..m
  BY <1>2, SequenceOfItsOwn
<1> HIDE DEF m
<1>4. \A i \in 1..n :
        answers[i] = R!Server(answers[i - 1].after, R!Wrapped(R!Command(batch[m + i])))
  <2> SUFFICES ASSUME NEW i \in 1..n
               PROVE answers[i] = R!Server(answers[i - 1].after, R!Wrapped(R!Command(batch[m + i])))
    OBVIOUS
  <2>1. i \in 0..n /\ i # 0
    OBVIOUS
  <2> QED
    BY <2>1, AnswersAre, Zenon DEF m
<1> HIDE DEF answers
<1>5. /\ new \in [1..n -> {answers[i] : i \in 1..n}]
      /\ start \in [1..n -> {answers[i - 1].after : i \in 1..n}]
      /\ \A i \in 1..n : new[i] = answers[i] /\ start[i] = answers[i - 1].after
  OBVIOUS
<1>6. /\ new \in Seq({answers[i] : i \in 1..n}) /\ Len(new) = n
      /\ start \in Seq({answers[i - 1].after : i \in 1..n}) /\ Len(start) = n
  <2> HIDE DEF new, start
  <2> QED
    BY <1>5, FunctionIsSequence
<1> HIDE DEF new, start
<1>7. /\ replies' \in Seq(ToSet(replies')) /\ Len(replies') = m + n /\ DOMAIN replies' = 1..(m + n)
      /\ \A i \in 1..m : replies'[i] = replies[i]
      /\ \A i \in 1..n : replies'[m + i] = answers[i]
  <2>1. Len(replies) = m
    BY DEF m
  <2>2. /\ replies \o new \in Seq(ToSet(replies \o new))
        /\ Len(replies \o new) = Len(replies) + Len(new)
        /\ DOMAIN (replies \o new) = 1..(Len(replies) + Len(new))
        /\ \A i \in 1..Len(replies) : (replies \o new)[i] = replies[i]
        /\ \A i \in 1..Len(new) : (replies \o new)[Len(replies) + i] = new[i]
    <3> DEFINE V == ToSet(replies)
               U == {answers[i] : i \in 1..n}
    <3>1. replies \in Seq(V) /\ new \in Seq(U)
      BY <1>2, <1>6
    <3> HIDE DEF V, U
    <3> QED
      BY <3>1, Concatenated
  <2> QED
    BY <1>1, <1>2, <1>5, <1>6, <2>1, <2>2
<1>8. /\ found' \in Seq(ToSet(found')) /\ Len(found') = m + n /\ DOMAIN found' = 1..(m + n)
      /\ \A i \in 1..m : found'[i] = found[i]
      /\ \A i \in 1..n : found'[m + i] = answers[i - 1].after
  <2>1. Len(found) = m
    BY <1>2
  <2>2. /\ found \o start \in Seq(ToSet(found \o start))
        /\ Len(found \o start) = Len(found) + Len(start)
        /\ DOMAIN (found \o start) = 1..(Len(found) + Len(start))
        /\ \A i \in 1..Len(found) : (found \o start)[i] = found[i]
        /\ \A i \in 1..Len(start) : (found \o start)[Len(found) + i] = start[i]
    <3> DEFINE V == ToSet(found)
               U == {answers[i - 1].after : i \in 1..n}
    <3>1. found \in Seq(V) /\ start \in Seq(U)
      BY <1>2, <1>6
    <3> HIDE DEF V, U
    <3> QED
      BY <3>1, Concatenated
  <2> QED
    BY <1>1, <1>2, <1>5, <1>6, <2>1, <2>2
<1>9. ASSUME NEW i \in (m + 1)..(m + n)
       PROVE  replies'[i] = R!Server(found'[i], R!Wrapped(R!Command(batch[i])))
  <2>1. i - m \in 1..n /\ m + (i - m) = i
    BY <1>3
  <2>2. replies'[i] = answers[i - m] /\ found'[i] = answers[(i - m) - 1].after
    BY <1>7, <1>8, <2>1
  <2> QED
    BY <1>4, <2>1, <2>2
<1>10. ASSUME NEW i \in (m + 2)..(m + n) PROVE found'[i] = replies'[i - 1].after
  <2>1. i - m \in 1..n /\ m + (i - m) = i
    BY <1>3
  <2>2. (i - m) - 1 \in 1..n /\ m + ((i - m) - 1) = i - 1
    BY <1>3
  <2>3. found'[i] = answers[(i - m) - 1].after
    BY <1>8, <2>1
  <2>4. replies'[i - 1] = answers[(i - m) - 1]
    BY <1>7, <2>2
  <2> QED
    BY <2>3, <2>4
<1> QED
  BY <1>3, <1>7, <1>8, <1>9, <1>10 DEF m

LEMMA RedisInit == R!Init => R!IInv
<1> SUFFICES ASSUME R!Init PROVE R!IInv
  OBVIOUS
<1> USE DEF R!Init
<1>1. /\ batch \in Seq(BatchCalls) /\ promises = <<>> /\ Len(batch) = 0 /\ DOMAIN promises = {}
      /\ replies \in Seq(ToSet(replies)) /\ found \in Seq(ToSet(found))
      /\ Len(found) = 0 /\ Len(replies) = 0 /\ DOMAIN replies = {} /\ DOMAIN batch = {}
  OBVIOUS
<1>2. R!BatchInv
  BY <1>1 DEF R!BatchInv
<1>3. R!PromisesInv /\ R!AllSettled /\ R!Undisturbed
  BY <1>1 DEF R!PromisesInv, R!AllSettled, R!Undisturbed
<1> QED
  BY <1>2, <1>3 DEF R!IInv

\* Calls at once, and the steps that leave the commands and replies as they are.
LEMMA RedisCallStep ==
  ASSUME R!IInv, UNCHANGED <<mode, batch, promises, replies, found, batchPhase>>
  PROVE  R!IInv'
BY DEF R!IInv, R!BatchInv, R!PromisesInv, R!AllSettled, R!Undisturbed

LEMMA BeginStep == ASSUME R!IInv, R!Begin PROVE R!IInv'
<1>1. /\ mode = "none" /\ mode' \in {"pipeline", "transaction"} /\ batchPhase' = "collecting"
      /\ UNCHANGED <<batch, promises, replies, found>>
  BY DEF R!Begin
<1>2. R!BatchInv /\ R!PromisesInv
  BY DEF R!IInv
<1>3. batchPhase = "none" /\ replies = <<>> /\ DOMAIN replies = {}
  BY <1>1, <1>2 DEF R!BatchInv, R!PromisesInv
<1>4. R!BatchInv'
  BY <1>1, <1>2, <1>3 DEF R!BatchInv
<1>5. R!PromisesInv' /\ R!AllSettled' /\ R!Undisturbed'
  BY <1>1, <1>2, <1>3 DEF R!PromisesInv, R!AllSettled, R!Undisturbed
<1> QED
  BY <1>4, <1>5 DEF R!IInv

LEMMA RegisterStep == ASSUME R!IInv, NEW c \in BatchCalls, R!Register(c) PROVE R!IInv'
<1>1. /\ batchPhase = "collecting" /\ R!Sends(c)
      /\ batch' = Append(batch, c) /\ promises' = Append(promises, "pending")
      /\ UNCHANGED <<mode, replies, found, batchPhase>>
  BY DEF R!Register
<1>2. R!BatchInv /\ R!PromisesInv
  BY DEF R!IInv
<1>3. /\ replies = <<>> /\ DOMAIN replies = {} /\ Len(replies) = 0
      /\ \A i \in DOMAIN promises : promises[i] = "pending"
  BY <1>1, <1>2 DEF R!PromisesInv
<1>4. /\ batch' \in Seq(BatchCalls) /\ Len(batch') = Len(batch) + 1 /\ Len(batch) \in Nat
      /\ \A i \in DOMAIN batch' : R!Sends(batch'[i])
  <2>1. batch \in Seq(BatchCalls) /\ \A i \in DOMAIN batch : R!Sends(batch[i])
    BY <1>2 DEF R!BatchInv
  <2>2. /\ batch' \in Seq(BatchCalls) /\ Len(batch') = Len(batch) + 1 /\ Len(batch) \in Nat
        /\ \A i \in 1..Len(batch) : batch'[i] = batch[i]
        /\ batch'[Len(batch) + 1] = c
    BY <1>1, <2>1, AppendProperties
  <2>3. DOMAIN batch' = 1..(Len(batch) + 1) /\ DOMAIN batch = 1..Len(batch)
    BY <2>1, <2>2
  <2>4. ASSUME NEW i \in DOMAIN batch' PROVE R!Sends(batch'[i])
    <3>1. i \in 1..Len(batch) \/ i = Len(batch) + 1
      BY <2>2, <2>3
    <3> QED
      BY <1>1, <2>1, <2>2, <2>3, <3>1
  <2> QED
    BY <2>2, <2>4
<1>5. /\ promises' \in [1..Len(batch') -> {"pending", "resolved", "rejected"}]
      /\ \A i \in DOMAIN promises' : promises'[i] = "pending"
  <2>1. promises \in [1..Len(batch) -> {"pending"}]
    BY <1>2, <1>3 DEF R!BatchInv
  <2>2. promises \in Seq({"pending"}) /\ Len(promises) = Len(batch)
    BY <1>4, <2>1, FunctionIsSequence
  <2>3. promises' \in Seq({"pending"}) /\ Len(promises') = Len(batch) + 1
    BY <1>1, <2>2, AppendProperties
  <2> QED
    BY <1>4, <2>3
<1>6. R!BatchInv'
  BY <1>1, <1>2, <1>3, <1>4, <1>5 DEF R!BatchInv
<1>7. R!PromisesInv' /\ R!AllSettled' /\ R!Undisturbed'
  BY <1>1, <1>3, <1>5 DEF R!PromisesInv, R!AllSettled, R!Undisturbed
<1> QED
  BY <1>6, <1>7 DEF R!IInv

LEMMA ExecuteStep == ASSUME R!IInv, R!Execute \/ R!ExecFails PROVE R!IInv'
<1>1. R!BatchInv /\ R!PromisesInv /\ R!Undisturbed
  BY DEF R!IInv
<1>2. UNCHANGED <<mode, batch, promises, replies, found>>
  BY DEF R!Execute, R!ExecFails
<1>3. \/ /\ batchPhase = "collecting" /\ batchPhase' = "running"
      \/ batchPhase = "running" /\ mode = "transaction" /\ batchPhase' = "threw"
  BY DEF R!Execute, R!ExecFails
<1>4. R!BatchInv'
  BY <1>1, <1>2, <1>3 DEF R!BatchInv
<1>5. R!Undisturbed'
  BY <1>1, <1>2 DEF R!Undisturbed
<1>6. CASE batchPhase = "collecting" /\ batchPhase' = "running"
  <2>1. replies = <<>> /\ DOMAIN replies = {}
    BY <1>1, <1>6 DEF R!PromisesInv
  <2> QED
    BY <1>1, <1>2, <1>4, <1>5, <1>6, <2>1 DEF R!IInv, R!PromisesInv, R!AllSettled
<1>7. CASE batchPhase = "running" /\ mode = "transaction" /\ batchPhase' = "threw"
  BY <1>1, <1>2, <1>4, <1>5, <1>7 DEF R!IInv, R!PromisesInv, R!AllSettled
<1> QED
  BY <1>3, <1>6, <1>7

\* What a batch keeps when its next n commands have run.
LEMMA RunKeeps ==
  ASSUME NEW n \in Nat, R!BatchInv, R!Run(n), UNCHANGED <<mode, batch, batchPhase>>,
         Len(replies) + n <= Len(batch),
         mode = "transaction" => Len(replies) + n = Len(batch),
         promises' \in [1..Len(batch) -> {"pending", "resolved", "rejected"}]
  PROVE  R!BatchInv'
<1> DEFINE m == Len(replies)
<1>1. /\ m \in Nat /\ DOMAIN replies = 1..m /\ DOMAIN found = 1..m
      /\ replies' \in Seq(ToSet(replies')) /\ found' \in Seq(ToSet(found'))
      /\ Len(replies') = m + n /\ DOMAIN replies' = 1..(m + n)
      /\ Len(found') = m + n
      /\ \A i \in 1..m : replies'[i] = replies[i] /\ found'[i] = found[i]
      /\ \A i \in (m + 1)..(m + n) :
            replies'[i] = R!Server(found'[i], R!Wrapped(R!Command(batch[i])))
  BY RunAdds
<1>2. \A i \in 1..m : replies[i] = R!Server(found[i], R!Wrapped(R!Command(batch[i])))
  BY <1>1 DEF R!BatchInv
<1>3. ASSUME NEW i \in 1..(m + n)
      PROVE  replies'[i] = R!Server(found'[i], R!Wrapped(R!Command(batch[i])))
  <2>1. CASE i <= m
    BY <1>1, <1>2, <2>1
  <2>2. CASE ~(i <= m)
    <3>1. i \in (m + 1)..(m + n)
      BY <1>1, <2>2
    <3> QED
      BY <1>1, <3>1
  <2> QED
    BY <2>1, <2>2
<1>4. /\ mode \in {"none", "pipeline", "transaction"}
      /\ batchPhase \in {"none", "collecting", "running", "done", "threw"}
      /\ mode = "none" => batchPhase = "none"
      /\ batch \in Seq(BatchCalls) /\ \A i \in DOMAIN batch : R!Sends(batch[i])
  BY DEF R!BatchInv
<1> HIDE DEF m
<1>5. \A i \in DOMAIN replies' :
         replies'[i] = R!Server(found'[i], R!Wrapped(R!Command(batch[i])))
  BY <1>1, <1>3
<1> QED
  BY <1>1, <1>4, <1>5 DEF R!BatchInv, R!ToSet, ToSet, m

LEMMA RunPipelineStep == ASSUME R!IInv, R!RunPipeline PROVE R!IInv'
<1> DEFINE m == Len(replies)
<1>1. R!BatchInv /\ R!PromisesInv
  BY DEF R!IInv
<1>2. /\ batchPhase = "running" /\ mode = "pipeline" /\ m < Len(batch) /\ R!Run(1)
      /\ promises' = [promises EXCEPT ![Len(replies')] =
                       IF replies'[Len(replies')].ok THEN "pending" ELSE "rejected"]
      /\ UNCHANGED <<mode, batch, batchPhase>>
  BY DEF R!RunPipeline
<1>3. /\ m \in Nat /\ DOMAIN replies = 1..m
      /\ Len(replies') = m + 1 /\ DOMAIN replies' = 1..(m + 1)
      /\ \A i \in 1..m : replies'[i] = replies[i]
  BY <1>1, <1>2, RunAdds
<1>4. /\ promises \in [1..Len(batch) -> {"pending", "resolved", "rejected"}]
      /\ batch \in Seq(BatchCalls)
  BY <1>1 DEF R!BatchInv
<1>5. Len(batch) \in Nat
  BY <1>4
<1>6. /\ promises' \in [1..Len(batch) -> {"pending", "resolved", "rejected"}]
      /\ promises'[m + 1] = IF replies'[m + 1].ok THEN "pending" ELSE "rejected"
      /\ \A i \in 1..Len(batch) : i # m + 1 => promises'[i] = promises[i]
  <2> HIDE DEF m
  <2>1. m + 1 \in 1..Len(batch)
    BY <1>2, <1>3, <1>5
  <2> QED
    BY <1>2, <1>3, <1>4, <2>1
<1>7. R!BatchInv'
  <2>1. m + 1 <= Len(batch)
    BY <1>2, <1>3, <1>5
  <2> QED
    BY <1>1, <1>2, <1>6, <2>1, RunKeeps
<1>8. ASSUME NEW i \in DOMAIN promises'
      PROVE  promises'[i] = IF i \in DOMAIN replies' /\ ~replies'[i].ok
                            THEN "rejected" ELSE "pending"
  <2> HIDE DEF m
  <2>1. i \in 1..Len(batch) /\ i \in DOMAIN promises
    BY <1>4, <1>6
  <2>2. promises[i] = IF i \in DOMAIN replies /\ ~replies[i].ok THEN "rejected" ELSE "pending"
    BY <1>1, <1>2, <2>1 DEF R!PromisesInv
  <2>3. CASE i = m + 1
    BY <1>3, <1>6, <2>3
  <2>4. CASE i \in 1..m
    <3>1. i # m + 1 /\ i \in 1..(m + 1)
      BY <1>3, <2>4
    <3> QED
      BY <1>3, <1>6, <2>1, <2>2, <2>4, <3>1
  <2>5. CASE i > m + 1
    <3>1. i # m + 1 /\ i \notin 1..(m + 1) /\ i \notin 1..m
      BY <1>3, <2>5
    <3> QED
      BY <1>3, <1>6, <2>1, <2>2, <3>1
  <2> QED
    BY <1>3, <2>1, <2>3, <2>4, <2>5
<1>9. R!PromisesInv'
  BY <1>2, <1>8 DEF R!PromisesInv
<1>10. R!AllSettled' /\ R!Undisturbed'
  BY <1>2 DEF R!AllSettled, R!Undisturbed
<1> QED
  BY <1>7, <1>9, <1>10 DEF R!IInv

LEMMA RunTransactionStep == ASSUME R!IInv, R!RunTransaction PROVE R!IInv'
<1> DEFINE n == Len(batch)
<1>1. R!BatchInv /\ R!PromisesInv
  BY DEF R!IInv
<1>2. /\ batchPhase = "running" /\ mode = "transaction" /\ Len(replies) < n /\ R!Run(n)
      /\ UNCHANGED <<promises, mode, batch, batchPhase>>
  BY DEF R!RunTransaction
<1>3. /\ promises \in [1..n -> {"pending", "resolved", "rejected"}]
      /\ batch \in Seq(BatchCalls) /\ n \in Nat
  BY <1>1 DEF R!BatchInv
<1>4. replies = <<>> /\ Len(replies) = 0
  BY <1>1, <1>2, <1>3 DEF R!BatchInv
<1>5. /\ DOMAIN replies' = 1..n
      /\ \A i \in 2..n : found'[i] = replies'[i - 1].after
  <2>1. /\ DOMAIN replies' = 1..(0 + n)
        /\ \A i \in (0 + 2)..(0 + n) : found'[i] = replies'[i - 1].after
    BY <1>1, <1>2, <1>3, <1>4, RunAdds
  <2> HIDE DEF n
  <2> QED
    BY <1>3, <2>1
<1>6. R!BatchInv'
  <2>1. Len(replies) + n = Len(batch)
    BY <1>3, <1>4
  <2> QED
    BY <1>1, <1>2, <1>3, <2>1, RunKeeps
<1>7. R!Undisturbed'
  <2> HIDE DEF n
  <2>1. ASSUME NEW i \in 1..n, i > 1 PROVE i \in 2..n
    BY <1>3, <2>1
  <2> QED
    BY <1>5, <2>1 DEF R!Undisturbed
<1>8. R!PromisesInv' /\ R!AllSettled'
  BY <1>1, <1>2 DEF R!PromisesInv, R!AllSettled
<1> QED
  BY <1>6, <1>7, <1>8 DEF R!IInv

\* execute() ends: up to the first promise that was rejected before, each is
\* settled by its reply.
LEMMA SettleStep == ASSUME R!IInv, R!Settle PROVE R!IInv'
<1> DEFINE n == Len(batch)
           stops == {i \in DOMAIN promises : promises[i] = "rejected"}
           first == IF stops = {} THEN Len(promises) + 1
                    ELSE CHOOSE i \in stops : \A j \in stops : i <= j
<1>1. R!BatchInv /\ R!PromisesInv /\ R!Undisturbed
  BY DEF R!IInv
<1>2. /\ batchPhase = "running" /\ Len(replies) = n
      /\ batchPhase' = (IF \A i \in DOMAIN replies : replies[i].ok THEN "done" ELSE "threw")
      /\ UNCHANGED <<mode, batch, replies, found>>
  BY DEF R!Settle
<1>3. promises' = [i \in DOMAIN promises |->
           IF i >= first THEN promises[i] ELSE IF replies[i].ok THEN "resolved" ELSE "rejected"]
  BY DEF R!Settle, R!Settled
<1>4. /\ promises \in [1..n -> {"pending", "resolved", "rejected"}]
      /\ batch \in Seq(BatchCalls) /\ n \in Nat /\ mode \in {"pipeline", "transaction"}
  BY <1>1, <1>2 DEF R!BatchInv
<1>5. DOMAIN replies = 1..n
  <2>1. replies \in Seq(ToSet(replies))
    BY <1>1 DEF R!BatchInv, R!ToSet, ToSet
  <2> QED
    BY <1>2, <2>1, SequenceOfItsOwn
<1>6. Len(promises) = n
  BY <1>4, FunctionIsSequence
<1>7. stops \subseteq 1..n /\ \A i \in stops : ~replies[i].ok
  BY <1>1, <1>4 DEF R!PromisesInv
<1>8. /\ stops = {} => first = n + 1
      /\ stops # {} => first \in stops /\ \A j \in stops : first <= j
  <2>1. stops # {} => \E i \in stops : \A j \in stops : i <= j
    <3>1. stops \subseteq Nat
      BY <1>7
    <3> HIDE DEF stops
    <3> QED
      BY <3>1, LeastOf
  <2> HIDE DEF stops, n
  <2> QED
    BY <1>6, <2>1
<1>9. \A i \in 1..n : promises'[i] =
           IF i >= first THEN promises[i] ELSE IF replies[i].ok THEN "resolved" ELSE "rejected"
  <2> HIDE DEF first, n
  <2> QED
    BY <1>3, <1>4
<1>10. promises' \in [1..n -> {"pending", "resolved", "rejected"}]
  <2> HIDE DEF first, n
  <2> QED
    BY <1>3, <1>4
<1>11. R!BatchInv'
  BY <1>1, <1>2, <1>10 DEF R!BatchInv
<1>12. R!Undisturbed'
  BY <1>1, <1>2 DEF R!Undisturbed
<1>13. \A i \in 1..n :
          /\ promises'[i] = "resolved" => replies[i].ok
          /\ promises'[i] = "rejected" => ~replies[i].ok
  <2>1. \A i \in 1..n :
          /\ promises[i] = "resolved" => replies[i].ok
          /\ promises[i] = "rejected" => ~replies[i].ok
    BY <1>1, <1>4 DEF R!PromisesInv
  <2> HIDE DEF first, n
  <2> QED
    BY <1>9, <2>1
<1> HIDE DEF n
<1>14. R!PromisesInv'
  <2>1. batchPhase' \in {"done", "threw"}
    BY <1>2
  <2>2. DOMAIN promises' = 1..n /\ replies' = replies
    BY <1>2, <1>10
  <2> QED
    BY <1>5, <1>13, <2>1, <2>2 DEF R!PromisesInv
<1>15. CASE \A i \in DOMAIN replies : replies[i].ok
  <2>1. stops = {} /\ first = n + 1
    BY <1>5, <1>7, <1>8, <1>15
  <2>2. \A i \in 1..n : ~(i >= first)
    <3> HIDE DEF first, stops
    <3> QED
      BY <1>4, <2>1
  <2>3. \A i \in 1..n : promises'[i] = "resolved"
    <3> HIDE DEF first, stops
    <3> QED
      BY <1>5, <1>9, <1>15, <2>2
  <2>4. batchPhase' = "done"
    BY <1>2, <1>15
  <2>5. R!AllSettled'
    BY <1>10, <2>3, <2>4 DEF R!AllSettled
  <2> QED
    BY <1>11, <1>12, <1>14, <2>5 DEF R!IInv
<1>16. CASE ~ \A i \in DOMAIN replies : replies[i].ok
  <2>1. batchPhase' = "threw"
    BY <1>2, <1>16
  <2>2. ASSUME mode = "pipeline"
        PROVE  /\ first \in 1..n /\ promises'[first] = "rejected"
               /\ \A i \in 1..(first - 1) : promises'[i] = "resolved"
    <3>1. \A i \in 1..n : promises[i] = IF ~replies[i].ok THEN "rejected" ELSE "pending"
      BY <1>1, <1>2, <1>4, <1>5, <2>2 DEF R!PromisesInv
    <3>2. stops # {}
      BY <1>4, <1>5, <1>16, <3>1
    <3>3. \A i \in 1..n : ~replies[i].ok => i \in stops
      BY <1>4, <3>1
    <3>4. promises[first] = "rejected"
      BY <1>8, <3>2
    <3> HIDE DEF first, stops
    <3>5. first \in 1..n
      BY <1>7, <1>8, <3>2
    <3>6. promises'[first] = "rejected"
      BY <1>4, <1>9, <3>4, <3>5
    <3>7. ASSUME NEW i \in 1..(first - 1) PROVE promises'[i] = "resolved"
      <4>1. i \in 1..n /\ ~(i >= first) /\ ~(first <= i)
        BY <1>4, <3>5
      <4>2. replies[i].ok
        BY <1>8, <3>2, <3>3, <4>1
      <4> QED
        BY <1>9, <4>1, <4>2
    <3> QED
      BY <3>5, <3>6, <3>7
  <2> HIDE DEF first, stops
  <2>3. R!AllSettled'
    BY <1>2, <1>10, <2>1, <2>2 DEF R!AllSettled
  <2> QED
    BY <1>11, <1>12, <1>14, <2>3 DEF R!IInv
<1> QED
  BY <1>15, <1>16

LEMMA RedisStep == R!IInv /\ [R!Next]_callVars => R!IInv'
<1> SUFFICES ASSUME R!IInv, [R!Next]_callVars PROVE R!IInv'
  OBVIOUS
<1>1. ASSUME NEW c, R!Call(c) PROVE R!IInv'
  BY <1>1, RedisCallStep DEF R!Call, R!batchVars
<1>2. CASE UNCHANGED callVars
  BY <1>2, RedisCallStep DEF callVars
<1>3. CASE R!Expires
  BY <1>3, RedisCallStep DEF R!Expires, R!batchVars
<1> QED
  BY <1>1, <1>2, <1>3, BeginStep, RegisterStep, ExecuteStep, RunPipelineStep, RunTransactionStep,
     SettleStep DEF R!Next

LEMMA RedisRepliesFind == R!IInv => R!RepliesFindPromises
<1> SUFFICES ASSUME R!IInv PROVE R!RepliesFindPromises
  OBVIOUS
<1>1. R!BatchInv /\ R!PromisesInv
  BY DEF R!IInv
<1>2. /\ batch \in Seq(BatchCalls) /\ \A i \in DOMAIN batch : R!Sends(batch[i])
      /\ promises \in [1..Len(batch) -> {"pending", "resolved", "rejected"}]
      /\ replies \in Seq(ToSet(replies)) /\ Len(replies) <= Len(batch)
      /\ \A i \in DOMAIN replies :
            replies[i] = R!Server(found[i], R!Wrapped(R!Command(batch[i])))
  BY <1>1 DEF R!BatchInv, R!ToSet, ToSet
<1>3. DOMAIN replies \subseteq 1..Len(batch)
  <2>1. DOMAIN replies = 1..Len(replies) /\ Len(replies) \in Nat
    BY <1>2, SequenceOfItsOwn
  <2> QED
    BY <1>2, <2>1
<1>4. ASSUME NEW i \in DOMAIN replies, batch[i].op # "get"
      PROVE  /\ replies[i].after = R!Direct(found[i], batch[i]).after
             /\ promises[i] = "resolved" =>
                  R!Outcome(batch[i], R!Direct(found[i], batch[i]))
                    = R!Result(batch[i], replies[i].reply)
             /\ promises[i] = "rejected" => ~R!Direct(found[i], batch[i]).ok
  <2>1. batch[i] \in BatchCalls /\ R!Sends(batch[i])
    BY <1>2, <1>3
  <2>2. replies[i] = R!Direct(found[i], batch[i])
    BY <1>2, <1>4, <2>1, WrappedIsCommand DEF R!Direct
  <2>3. /\ promises[i] = "resolved" => replies[i].ok
        /\ promises[i] = "rejected" => ~replies[i].ok
    BY <1>1, <1>2, <1>3 DEF R!PromisesInv
  <2> QED
    BY <2>2, <2>3 DEF R!Outcome
<1> QED
  BY <1>4 DEF R!RepliesFindPromises, R!IInv

-----------------------------------------------------------------------------
(* TypedRedis: the order of a sorted set.                                      *)

\* Cardinality is the same in an instance.
LEMMA RedisCardinality == \A T : R!Cardinality(T) = Cardinality(T)
BY DEF R!Cardinality, Cardinality

\* Members and their scores, and those of a lower score or name.
Scores(f) == IsFiniteSet(DOMAIN f) /\ DOMAIN f \subseteq Int /\ f \in [DOMAIN f -> Int]
Below(f, m) == {n \in DOMAIN f : R!Lower(f, n, m)}

\* How many come before a member is their number, less than all.
LEMMA BeforeMeans ==
    ASSUME NEW f, Scores(f), NEW m \in DOMAIN f
    PROVE  /\ R!Before(f, m) = Cardinality(Below(f, m))
           /\ R!Before(f, m) \in 0..(Cardinality(DOMAIN f) - 1)
           /\ IsFiniteSet(Below(f, m))
<1>1. R!Before(f, m) = Cardinality(Below(f, m))
  BY RedisCardinality DEF R!Before, Below
<1>2. Below(f, m) \subseteq DOMAIN f /\ m \in DOMAIN f /\ m \notin Below(f, m)
  BY DEF Below, R!Lower, Scores
<1>3. IsFiniteSet(DOMAIN f)
  BY DEF Scores
<1>4. IsFiniteSet(Below(f, m)) /\ Cardinality(Below(f, m)) <= Cardinality(DOMAIN f)
  BY <1>2, <1>3, FS_Subset
<1>5. Cardinality(Below(f, m)) # Cardinality(DOMAIN f)
  BY <1>2, <1>3, FS_Subset
<1>6. Cardinality(Below(f, m)) \in Nat /\ Cardinality(DOMAIN f) \in Nat
  BY <1>3, <1>4, FS_CardinalityType
<1> QED
  BY <1>1, <1>4, <1>5, <1>6

\* A lower member has fewer before it.
LEMMA LowerIsBefore ==
    ASSUME NEW f, Scores(f), NEW m \in DOMAIN f, NEW k \in DOMAIN f, R!Lower(f, m, k)
    PROVE  R!Before(f, m) < R!Before(f, k)
<1>1. f[m] \in Int /\ f[k] \in Int /\ m \in Int /\ k \in Int
  BY DEF Scores
<1>2. Below(f, m) \subseteq Below(f, k)
  <2> SUFFICES ASSUME NEW n \in DOMAIN f, R!Lower(f, n, m) PROVE R!Lower(f, n, k)
    BY DEF Below
  <2>1. f[n] \in Int /\ n \in Int
    BY DEF Scores
  <2> QED
    BY <1>1, <2>1 DEF R!Lower
<1>3. m \in Below(f, k) /\ m \notin Below(f, m)
  BY <1>1 DEF Below, R!Lower
<1>4. IsFiniteSet(Below(f, k)) /\ IsFiniteSet(Below(f, m))
  BY BeforeMeans
<1>5. /\ Cardinality(Below(f, m)) <= Cardinality(Below(f, k))
      /\ Cardinality(Below(f, m)) # Cardinality(Below(f, k))
  BY <1>2, <1>3, <1>4, FS_Subset
<1>6. Cardinality(Below(f, m)) \in Nat /\ Cardinality(Below(f, k)) \in Nat
  BY <1>4, FS_CardinalityType
<1> QED
  BY <1>5, <1>6, BeforeMeans

\* Of two members one is lower.
LEMMA EitherIsLower ==
    ASSUME NEW f, Scores(f), NEW m \in DOMAIN f, NEW k \in DOMAIN f, m # k
    PROVE  R!Lower(f, m, k) \/ R!Lower(f, k, m)
<1>1. f[m] \in Int /\ f[k] \in Int /\ m \in Int /\ k \in Int
  BY DEF Scores
<1> QED
  BY <1>1 DEF R!Lower

\* s has the members in their order.
IsRanked(f, s) ==
    /\ s \in [1..Cardinality(DOMAIN f) -> DOMAIN f]
    /\ \A i, j \in DOMAIN s : i < j => R!Lower(f, s[i], s[j])

\* They can be put in order: each has as many before it as no other has.
LEMMA RankedExists ==
    ASSUME NEW f, Scores(f)
    PROVE  \E s : IsRanked(f, s)
<1> DEFINE D == DOMAIN f
           n == Cardinality(D)
           b == [m \in D |-> R!Before(f, m)]
<1>1. IsFiniteSet(D) /\ n \in Nat
  BY FS_CardinalityType DEF Scores
<1>2. b \in [D -> 0..(n - 1)]
  BY BeforeMeans
<1>3. \A m, k \in D : m # k => b[m] # b[k]
  <2> SUFFICES ASSUME NEW m \in D, NEW k \in D, m # k PROVE b[m] # b[k]
    OBVIOUS
  <2>1. b[m] \in Int /\ b[k] \in Int
    BY <1>2
  <2>2. b[m] < b[k] \/ b[k] < b[m]
    BY EitherIsLower, LowerIsBefore
  <2> HIDE DEF b
  <2> QED
    BY <2>1, <2>2
<1>4. b \in Injection(D, 0..(n - 1))
  BY <1>2, <1>3 DEF Injection, IsInjective
<1>5. IsFiniteSet(0..(n - 1)) /\ Cardinality(0..(n - 1)) = n
  BY <1>1, FS_Interval
<1>6. b \in Surjection(D, 0..(n - 1))
  BY <1>4, <1>5, FS_Injection
<1>7. \A i \in 1..n : \E m \in D : b[m] = i - 1
  <2> HIDE DEF b, n
  <2>1. \A i \in 1..n : i - 1 \in 0..(n - 1)
    BY <1>1
  <2> QED
    BY <1>6, <2>1 DEF Surjection
<1> DEFINE s == [i \in 1..n |-> CHOOSE m \in D : b[m] = i - 1]
<1>8. \A i \in 1..n : s[i] \in D /\ b[s[i]] = i - 1
  <2> HIDE DEF b
  <2> QED
    BY <1>7
<1>9. ASSUME NEW i \in 1..n, NEW j \in 1..n, i < j PROVE R!Lower(f, s[i], s[j])
  <2>1. s[i] \in D /\ s[j] \in D /\ b[s[i]] = i - 1 /\ b[s[j]] = j - 1
    BY <1>8
  <2>2. R!Before(f, s[i]) = i - 1 /\ R!Before(f, s[j]) = j - 1
    BY <2>1
  <2>3. s[i] # s[j]
    <3> HIDE DEF s, b, n
    <3> QED
      BY <2>2, <1>9, <1>1
  <2>4. ~R!Lower(f, s[j], s[i])
    <3> HIDE DEF s, b
    <3> QED
      BY <2>1, <2>2, <1>9, <1>1, LowerIsBefore
  <2> HIDE DEF s, b
  <2> QED
    BY <2>1, <2>3, <2>4, EitherIsLower
<1>10. s \in [1..n -> D]
  BY <1>8
<1>11. DOMAIN s = 1..n
  OBVIOUS
<1> HIDE DEF s, b
<1>12. IsRanked(f, s)
  BY <1>9, <1>10, <1>11 DEF IsRanked
<1> QED
  BY <1>12

\* Redis has them in that order: the place of a member is the number of those before it,
\* and every member has a place.
LEMMA RankedMeans ==
    ASSUME NEW f, Scores(f)
    PROVE  /\ IsRanked(f, R!Ranked(f))
           /\ \A i \in 1..Cardinality(DOMAIN f) : R!Before(f, R!Ranked(f)[i]) = i - 1
           /\ \A m \in DOMAIN f : \E i \in 1..Cardinality(DOMAIN f) : R!Ranked(f)[i] = m
<1> DEFINE D == DOMAIN f
           n == Cardinality(D)
           s == R!Ranked(f)
<1>1. IsFiniteSet(D) /\ n \in Nat
  BY FS_CardinalityType DEF Scores
<1>2. R!Cardinality(D) = n
  BY RedisCardinality
<1>3. IsRanked(f, s)
  BY <1>2, RankedExists DEF R!Ranked, IsRanked
<1>4. s \in [1..n -> D] /\ \A i, j \in 1..n : i < j => R!Lower(f, s[i], s[j])
  BY <1>3 DEF IsRanked
<1> HIDE DEF s
<1>5. \A i, j \in 1..n : i # j => s[i] # s[j]
  <2>1. \A i, j \in 1..n : i < j => s[i] # s[j]
    <3> SUFFICES ASSUME NEW i \in 1..n, NEW j \in 1..n, i < j, s[i] = s[j] PROVE FALSE
      OBVIOUS
    <3>1. R!Lower(f, s[i], s[i]) /\ s[i] \in D
      BY <1>4
    <3> QED
      BY <3>1 DEF R!Lower, Scores
  <2> QED
    BY <1>1, <2>1
<1>6. s \in Injection(1..n, D)
  BY <1>4, <1>5 DEF Injection, IsInjective
<1>7. Cardinality(1..n) = n
  BY <1>1, FS_Interval
<1>8. s \in Surjection(1..n, D)
  BY <1>1, <1>6, <1>7, FS_Injection
<1>9. \A m \in D : \E i \in 1..n : s[i] = m
  BY <1>8 DEF Surjection
<1>10. ASSUME NEW i \in 1..n PROVE R!Before(f, s[i]) = i - 1
  <2> DEFINE T == Below(f, s[i])
             h == [j \in 1..(i - 1) |-> s[j]]
  <2>1. \A j \in 1..n : R!Lower(f, s[j], s[i]) <=> j < i
    <3> SUFFICES ASSUME NEW j \in 1..n PROVE R!Lower(f, s[j], s[i]) <=> j < i
      OBVIOUS
    <3>1. s[i] \in D /\ s[j] \in D
      BY <1>4
    <3>2. CASE j < i
      BY <1>4, <3>2
    <3>3. CASE j = i
      BY <3>1, <3>3 DEF R!Lower, Scores
    <3>4. CASE i < j
      <4>1. R!Lower(f, s[i], s[j])
        BY <1>4, <3>4
      <4>2. R!Before(f, s[i]) < R!Before(f, s[j])
        BY <3>1, <4>1, LowerIsBefore
      <4>3. R!Before(f, s[i]) \in Int /\ R!Before(f, s[j]) \in Int
        BY <3>1, BeforeMeans
      <4>4. ~R!Lower(f, s[j], s[i])
        BY <3>1, <4>2, <4>3, LowerIsBefore
      <4> QED
        BY <3>4, <4>4
    <3> QED
      BY <3>2, <3>3, <3>4
  <2>2. h \in [1..(i - 1) -> T]
    <3> SUFFICES ASSUME NEW j \in 1..(i - 1) PROVE s[j] \in T
      OBVIOUS
    <3>1. j \in 1..n /\ j < i
      BY <1>1
    <3> QED
      BY <1>4, <2>1, <3>1 DEF Below
  <2>3. \A m \in T : \E j \in 1..(i - 1) : h[j] = m
    <3> SUFFICES ASSUME NEW m \in T PROVE \E j \in 1..(i - 1) : s[j] = m
      OBVIOUS
    <3>1. m \in D /\ R!Lower(f, m, s[i])
      BY DEF Below
    <3>2. PICK j \in 1..n : s[j] = m
      BY <1>9, <3>1
    <3>3. j < i
      BY <2>1, <3>1, <3>2
    <3> QED
      BY <1>1, <3>2, <3>3
  <2>4. h \in Surjection(1..(i - 1), T)
    <3> HIDE DEF h, T
    <3> QED
      BY <2>2, <2>3 DEF Surjection
  <2>5. \A j, k \in 1..(i - 1) : j # k => h[j] # h[k]
    BY <1>1, <1>5
  <2>6. h \in Injection(1..(i - 1), T)
    <3> HIDE DEF h, T
    <3> QED
      BY <2>2, <2>5 DEF Injection, IsInjective
  <2>7. IsFiniteSet(1..(i - 1)) /\ Cardinality(1..(i - 1)) = i - 1
    <3> HIDE DEF n
    <3>1. i \in Nat /\ i >= 1 /\ i - 1 \in Int /\ 1 \in Int
      BY <1>1
    <3>2. i - 1 - 1 + 1 = i - 1
      BY <3>1
    <3> QED
      BY <3>1, <3>2, FS_Interval
  <2>8. Cardinality(T) = i - 1
    <3> HIDE DEF h, T
    <3> QED
      BY <2>4, <2>6, <2>7, FS_Surjection
  <2>9. s[i] \in D
    BY <1>4
  <2> QED
    BY <2>8, <2>9, BeforeMeans
<1> QED
  BY <1>3, <1>9, <1>10 DEF s

-----------------------------------------------------------------------------
(* TypedRedis: a key, and the commands of the calls.                           *)

\* Fields or members with their numbers.
FieldsOK(f) == IsFiniteSet(DOMAIN f) /\ DOMAIN f \subseteq Int /\ f \in [DOMAIN f -> Amount]

\* What a key can have under it.
KeyOK(d) ==
    /\ d = [type |-> d.type, map |-> d.map]
    /\ d.type \in {"none", "string", "list", "hash", "zset"}
    /\ (d.type = "none" \/ DOMAIN d.map = {}) => d = R!Nothing
    /\ d.type \in {"hash", "zset"} => FieldsOK(d.map)
    /\ d.type = "list" => d.map \in Seq(Name)

\* The types of key that a call is for.
Asks(c) ==
    IF c.op \in {"exists", "set"} THEN {"none", "string", "list", "hash", "zset"}
    ELSE {"none", R!TypeOf(R!Simple(c.op))}

\* The command that a call sends.
LEMMA CommandOf ==
    ASSUME NEW c \in Calls
    PROVE  /\ R!Command(c).args = IF c.op = "get" THEN <<R!Undefined>> ELSE c.args
           /\ R!Command(c).opts = {R!Spelled[o] : o \in c.opts \cap DOMAIN R!Spelled}
           /\ "reverse" \notin c.opts /\ "asFloat" \notin c.opts =>
                 R!Command(c).cmd = R!Simple(c.op)
           /\ "reverse" \notin c.opts /\ "asFloat" \in c.opts =>
                 c.op = "hIncrease" /\ R!Command(c).cmd = "hincrbyfloat"
           /\ "reverse" \in c.opts =>
                 \/ c.op = "zRange" /\ R!Command(c).cmd = "zrevrange"
                 \/ c.op = "zRangeByLex" /\ R!Command(c).cmd = "zrevrangebylex"
                 \/ c.op = "zRangeByScore" /\ R!Command(c).cmd = "zrevrangebyscore"
                 \/ c.op = "zRank" /\ R!Command(c).cmd = "zrevrank"
<1>1. "reverse" \in c.opts => c.op \in {"zRange", "zRangeByLex", "zRangeByScore", "zRank"}
  BY ArgumentsAssumption DEF Offered, R!Reversed
<1>2. "asFloat" \in c.opts => c.op = "hIncrease"
  BY ArgumentsAssumption DEF Offered
<1>3. /\ R!Reversed["zRange"] = "zrevrange" /\ R!Reversed["zRank"] = "zrevrank"
      /\ R!Reversed["zRangeByLex"] = "zrevrangebylex"
      /\ R!Reversed["zRangeByScore"] = "zrevrangebyscore"
  BY DEF R!Reversed
<1> QED
  BY <1>1, <1>2, <1>3 DEF R!Command

\* It is one of the type of the method.
LEMMA TypesOfCommands ==
    ASSUME NEW c \in Calls
    PROVE  /\ c.op \notin {"exists", "set"} =>
                 /\ R!Command(c).cmd \notin {"exists", "set"}
                 /\ R!TypeOf(R!Command(c).cmd) = R!TypeOf(R!Simple(c.op))
           /\ R!TypeOf(R!Simple(c.op)) \in {"string", "hash", "list", "zset"}
<1>1. c.op \in R!Methods
  BY ArgumentsAssumption DEF Offered
<1>2. R!TypeOf(R!Simple(c.op)) \in {"string", "hash", "list", "zset"}
  BY DEF R!TypeOf
<1>3. c.op \notin {"exists", "set"} => R!Simple(c.op) \notin {"exists", "set"}
  BY <1>1 DEF R!Simple, R!Methods, R!StringsAndHashes, R!SortedSetsAndLists
<1>4. /\ R!Simple("zRange") = "zrange" /\ R!Simple("zRank") = "zrank"
      /\ R!Simple("zRangeByLex") = "zrangebylex" /\ R!Simple("zRangeByScore") = "zrangebyscore"
      /\ R!Simple("hIncrease") = "hincrby"
  BY DEF R!Simple, R!StringsAndHashes, R!SortedSetsAndLists
<1>5. /\ R!TypeOf("zrange") = "zset" /\ R!TypeOf("zrevrange") = "zset"
      /\ R!TypeOf("zrank") = "zset" /\ R!TypeOf("zrevrank") = "zset"
      /\ R!TypeOf("zrangebylex") = "zset" /\ R!TypeOf("zrevrangebylex") = "zset"
      /\ R!TypeOf("zrangebyscore") = "zset" /\ R!TypeOf("zrevrangebyscore") = "zset"
      /\ R!TypeOf("hincrby") = "hash" /\ R!TypeOf("hincrbyfloat") = "hash"
  BY DEF R!TypeOf
<1> QED
  BY <1>2, <1>3, <1>4, <1>5, CommandOf

\* On a key of another type a call throws and changes nothing, and so does one
\* that sends nothing.
LEMMA OtherType ==
    ASSUME NEW c \in Calls, NEW d, KeyOK(d), d.type \notin Asks(c) \/ ~R!Sends(c)
    PROVE  ~R!Outcome(c, R!Direct(d, c)).ok /\ R!Direct(d, c).after = d
<1>1. R!Direct(d, c) = R!Fails(d)
  <2>1. CASE ~R!Sends(c)
    BY <2>1 DEF R!Direct
  <2>2. CASE d.type \notin Asks(c)
    <3>1. c.op \notin {"exists", "set"} /\ d.type \notin {"none", R!TypeOf(R!Simple(c.op))}
      BY <2>2 DEF Asks, KeyOK
    <3>2. R!Server(d, R!Command(c)) = R!Fails(d)
      BY <3>1, TypesOfCommands DEF R!Server
    <3> QED
      BY <3>2 DEF R!Direct
  <2> QED
    BY <2>1, <2>2
<1> QED
  BY <1>1 DEF R!Fails, R!Outcome, R!Throws

\* On a key of its type the command of a call is that of the type.
LEMMA OwnType ==
    ASSUME NEW c \in Calls, NEW d, d.type \in Asks(c), c.op \notin {"exists", "set"}, R!Sends(c)
    PROVE  R!Direct(d, c) = R!TypedCommand(d, R!Command(c))
<1>1. R!Server(d, R!Command(c)) = R!TypedCommand(d, R!Command(c))
  BY TypesOfCommands DEF Asks, R!Server
<1> QED
  BY <1>1 DEF R!Direct

\* Numbers that are stored are a key again.
LEMMA WrittenOK ==
    ASSUME NEW type \in {"hash", "zset"}, NEW f, IsFiniteSet(DOMAIN f), DOMAIN f \subseteq Int,
           f = [n \in DOMAIN f |-> f[n]], R!InRange(R!Stored(type, f))
    PROVE  KeyOK(R!Stored(type, f)) /\ R!Stored(type, f).map = f
<1>1. CASE DOMAIN f = {}
  <2>1. R!Stored(type, f) = R!Nothing
    BY <1>1 DEF R!Stored
  <2>2. f = <<>>
    BY <1>1
  <2> QED
    BY <2>1, <2>2 DEF R!Nothing, KeyOK
<1>2. CASE DOMAIN f # {}
  <2>1. R!Stored(type, f) = [type |-> type, map |-> f]
    BY <1>2 DEF R!Stored
  <2>2. R!Range(f) \subseteq Amount
    BY <2>1 DEF R!InRange
  <2>3. \A n \in DOMAIN f : f[n] \in Amount
    BY <2>2 DEF R!Range
  <2>4. f \in [DOMAIN f -> Amount]
    BY <2>3
  <2>5. FieldsOK(f)
    BY <2>4 DEF FieldsOK
  <2> QED
    BY <1>2, <2>1, <2>5 DEF KeyOK
<1> QED
  BY <1>1, <1>2

\* HSET and ZADD change one field.
LEMMA PutOK ==
    ASSUME NEW f, FieldsOK(f), NEW n \in Int, NEW v
    PROVE  /\ DOMAIN R!Put(f, n, v) = DOMAIN f \cup {n}
           /\ R!Put(f, n, v)[n] = v
           /\ IsFiniteSet(DOMAIN R!Put(f, n, v)) /\ DOMAIN R!Put(f, n, v) \subseteq Int
<1>1. IsFiniteSet(DOMAIN f) /\ DOMAIN f \subseteq Int
  BY DEF FieldsOK
<1>2. DOMAIN R!Put(f, n, v) = DOMAIN f \cup {n}
  BY DEF R!Put
<1>3. IsFiniteSet(DOMAIN R!Put(f, n, v))
  BY <1>1, <1>2, FS_AddElement
<1>4. R!Put(f, n, v)[n] = v
  BY DEF R!Put
<1> QED
  BY <1>1, <1>2, <1>3, <1>4

\* To a number it leaves numbers.
LEMMA PutFields ==
    ASSUME NEW f, FieldsOK(f), NEW n \in Int, NEW v \in Amount
    PROVE  FieldsOK(R!Put(f, n, v))
<1> DEFINE g == R!Put(f, n, v)
<1>1. g \in [DOMAIN f \cup {n} -> Amount]
  BY DEF FieldsOK, R!Put
<1>2. DOMAIN g = DOMAIN f \cup {n} /\ IsFiniteSet(DOMAIN g) /\ DOMAIN g \subseteq Int
  BY PutOK
<1> HIDE DEF g
<1>3. FieldsOK(g)
  BY <1>1, <1>2 DEF FieldsOK
<1> QED
  BY <1>3 DEF g

\* What is stored then.
LEMMA StoredPut ==
    ASSUME NEW type \in {"hash", "zset"}, NEW f, FieldsOK(f), NEW n \in Int, NEW v,
           R!InRange(R!Stored(type, R!Put(f, n, v)))
    PROVE  LET after == R!Stored(type, R!Put(f, n, v)) IN
           /\ KeyOK(after) /\ after.map = R!Put(f, n, v)
           /\ DOMAIN after.map = DOMAIN f \cup {n}
           /\ after.map[n] = v
           /\ \A m \in DOMAIN f : m # n => after.map[m] = f[m]
<1> DEFINE g == R!Put(f, n, v)
<1>1. /\ DOMAIN g = DOMAIN f \cup {n} /\ IsFiniteSet(DOMAIN g) /\ DOMAIN g \subseteq Int
      /\ g[n] = v
  BY PutOK
<1>2. \A m \in DOMAIN f : m # n => g[m] = f[m]
  BY DEF R!Put
<1>3. g = [m \in DOMAIN g |-> g[m]] /\ R!InRange(R!Stored(type, g))
  BY DEF R!Put
<1> HIDE DEF g
<1>4. KeyOK(R!Stored(type, g)) /\ R!Stored(type, g).map = g
  BY <1>1, <1>3, WrittenOK
<1> QED
  BY <1>1, <1>2, <1>4 DEF g

\* HDEL and ZREM leave the others.
LEMMA WithoutOK ==
    ASSUME NEW f, IsFiniteSet(DOMAIN f), DOMAIN f \subseteq Int, NEW T
    PROVE  /\ DOMAIN R!Without(f, T) = DOMAIN f \ T
           /\ IsFiniteSet(DOMAIN R!Without(f, T)) /\ DOMAIN R!Without(f, T) \subseteq Int
           /\ R!Without(f, T) = [m \in DOMAIN R!Without(f, T) |-> R!Without(f, T)[m]]
           /\ Cardinality(DOMAIN f \ T) = Cardinality(DOMAIN f) - Cardinality(T \cap DOMAIN f)
           /\ Cardinality(DOMAIN f) \in Nat /\ Cardinality(T \cap DOMAIN f) \in Nat
<1>1. DOMAIN R!Without(f, T) = DOMAIN f \ T
  BY DEF R!Without
<1>2. IsFiniteSet(DOMAIN f \ T)
      /\ Cardinality(DOMAIN f \ T) = Cardinality(DOMAIN f) - Cardinality(DOMAIN f \cap T)
  BY FS_Difference
<1>3. DOMAIN f \cap T = T \cap DOMAIN f
  OBVIOUS
<1>4. Cardinality(DOMAIN f) \in Nat /\ Cardinality(T \cap DOMAIN f) \in Nat
  BY <1>3, FS_Intersection, FS_CardinalityType
<1>5. R!Without(f, T) = [m \in DOMAIN R!Without(f, T) |-> R!Without(f, T)[m]]
  BY DEF R!Without
<1> QED
  BY <1>1, <1>2, <1>3, <1>4, <1>5

\* Only what is there is taken away.
LEMMA SameWithout ==
    ASSUME NEW f, NEW T, NEW U, T \cap DOMAIN f = U \cap DOMAIN f
    PROVE  R!Without(f, T) = R!Without(f, U)
<1>1. DOMAIN f \ T = DOMAIN f \ U
  OBVIOUS
<1> QED
  BY <1>1 DEF R!Without

\* A key of the type of a call, or none, has fields.
LEMMA HasFields ==
    ASSUME NEW d, KeyOK(d), d.type \in {"none", "hash", "zset"}
    PROVE  FieldsOK(d.map)
<1>1. CASE d.type = "none"
  <2>1. d.map = <<>>
    BY <1>1 DEF KeyOK, R!Nothing
  <2>2. DOMAIN d.map = {}
    BY <2>1
  <2>3. d.map \in [DOMAIN d.map -> Amount]
    BY <2>1, <2>2
  <2> QED
    BY <2>2, <2>3, FS_EmptySet DEF FieldsOK
<1> QED
  BY <1>1 DEF KeyOK

\* d is a key for the methods of a type.
OfType(type, d) == type \in {"hash", "zset"} /\ KeyOK(d) /\ d.type \in {"none", type}

\* What is left is a key again,
LEMMA StoredWithout ==
    ASSUME NEW type, NEW d, OfType(type, d), NEW T
    PROVE  /\ KeyOK(R!Stored(type, R!Without(d.map, T)))
           /\ R!Stored(type, R!Without(d.map, T)).map = R!Without(d.map, T)
           /\ DOMAIN R!Stored(type, R!Without(d.map, T)).map = DOMAIN d.map \ T
<1> type \in {"hash", "zset"} /\ KeyOK(d) /\ d.type \in {"none", type}
  BY DEF OfType
<1> DEFINE f == d.map
           g == R!Without(f, T)
<1>1. FieldsOK(f)
  BY HasFields
<1>2. /\ DOMAIN g = DOMAIN f \ T /\ IsFiniteSet(DOMAIN g) /\ DOMAIN g \subseteq Int
      /\ g = [m \in DOMAIN g |-> g[m]]
  BY <1>1, WithoutOK DEF FieldsOK
<1>3. \A m \in DOMAIN g : g[m] \in Amount
  BY <1>1 DEF FieldsOK, R!Without
<1> HIDE DEF f, g
<1>6. KeyOK(R!Stored(type, g)) /\ R!Stored(type, g).map = g
  <2>1. R!Range(g) \subseteq Amount
    BY <1>3 DEF R!Range
  <2>2. R!InRange(R!Stored(type, g))
    BY <2>1 DEF R!InRange, R!Stored, R!Nothing
  <2> QED
    BY <1>2, <2>2, WrittenOK
<1> QED
  BY <1>2, <1>6 DEF f, g

\* and what was there when none is taken.
LEMMA NoneTaken ==
    ASSUME NEW type, NEW d, OfType(type, d), NEW T,
           T \cap DOMAIN d.map = {}
    PROVE  R!Stored(type, R!Without(d.map, T)) = d
<1> type \in {"hash", "zset"} /\ KeyOK(d) /\ d.type \in {"none", type}
  BY DEF OfType
<1> DEFINE f == d.map
           g == R!Without(f, T)
<1>1. FieldsOK(f)
  BY HasFields
<1>2. g = f
  BY <1>1 DEF R!Without, FieldsOK
<1>3. /\ d = [type |-> d.type, map |-> f]
      /\ (d.type = "none" \/ DOMAIN f = {}) => d = R!Nothing
  BY DEF KeyOK
<1> HIDE DEF f, g
<1>4. CASE DOMAIN f = {}
  BY <1>2, <1>3, <1>4 DEF R!Stored, f, g
<1>5. CASE DOMAIN f # {}
  <2>1. d.type # "none"
    BY <1>3, <1>5 DEF R!Nothing
  <2>2. d.type = type
    BY <2>1
  <2> QED
    BY <1>2, <1>3, <1>5, <2>2 DEF R!Stored, f, g
<1> QED
  BY <1>4, <1>5

\* HDEL and ZREM answer how many there are less.
LEMMA DeletesOK ==
    ASSUME NEW type, NEW d, OfType(type, d), NEW T
    PROVE  /\ R!Deletes(d, T).ok
           /\ KeyOK(R!Deletes(d, T).after)
           /\ R!Deletes(d, T).after = R!Stored(type, R!Without(d.map, T))
           /\ R!Deletes(d, T).reply =
                <<Cardinality(DOMAIN d.map) - Cardinality(DOMAIN R!Deletes(d, T).after.map)>>
<1> type \in {"hash", "zset"} /\ KeyOK(d) /\ d.type \in {"none", type}
  BY DEF OfType
<1>1. /\ KeyOK(R!Stored(type, R!Without(d.map, T)))
      /\ R!Stored(d.type, R!Without(d.map, T)) = R!Stored(type, R!Without(d.map, T))
      /\ DOMAIN R!Stored(type, R!Without(d.map, T)).map = DOMAIN d.map \ T
  <2>1. KeyOK(R!Stored(type, R!Without(d.map, T)))
    BY StoredWithout
  <2>2. R!Stored(d.type, R!Without(d.map, T)) = R!Stored(type, R!Without(d.map, T))
    <3>1. CASE d.type = "none"
      <4>1. d.map = <<>>
        BY <3>1 DEF KeyOK, R!Nothing
      <4>2. DOMAIN R!Without(d.map, T) = {}
        BY <4>1 DEF R!Without
      <4> QED
        BY <4>2 DEF R!Stored
    <3> QED
      BY <3>1
  <2>3. DOMAIN R!Stored(type, R!Without(d.map, T)).map = DOMAIN d.map \ T
    BY StoredWithout
  <2> QED
    BY <2>1, <2>2, <2>3
<1>2. FieldsOK(d.map)
  BY HasFields
<1>3. /\ Cardinality(DOMAIN d.map \ T) = Cardinality(DOMAIN d.map) - Cardinality(T \cap DOMAIN d.map)
      /\ Cardinality(DOMAIN d.map) \in Nat /\ Cardinality(T \cap DOMAIN d.map) \in Nat
  BY <1>2, WithoutOK DEF FieldsOK
<1>4. /\ R!Deletes(d, T).ok /\ R!Deletes(d, T).after = R!Stored(d.type, R!Without(d.map, T))
      /\ R!Deletes(d, T).reply = <<Cardinality(T \cap DOMAIN d.map)>>
  BY RedisCardinality DEF R!Deletes, R!Answer
<1> DEFINE e == R!Stored(type, R!Without(d.map, T))
           n == Cardinality(T \cap DOMAIN d.map)
           m == Cardinality(DOMAIN d.map) - Cardinality(DOMAIN e.map)
<1>5. R!Deletes(d, T).after = e /\ KeyOK(e) /\ DOMAIN e.map = DOMAIN d.map \ T
  BY <1>1, <1>4
<1> HIDE DEF e, n
<1>6. n = m
  BY <1>3, <1>5 DEF n
<1> HIDE DEF m
<1>7. R!Deletes(d, T).reply = <<m>>
  BY <1>4, <1>6 DEF n
<1> QED
  BY <1>1, <1>4, <1>5, <1>7 DEF e, m

-----------------------------------------------------------------------------
(* TypedRedis: what a method promises is kept by a call that finds d.          *)

\* That what a method promises of a call c that finds d is kept, and the key is
\* one that the next call may find.
Kept(c, d) ==
    LET a == R!Direct(d, c)
    IN  KeyOK(a.after) /\ R!Keeps(c, d, a.after, R!Outcome(c, a))

\* The methods of a hash.
HashOps == {"hExists", "hGet", "hSet", "hDelete", "hGetAll", "hIncrease", "hFields", "hValues",
            "hLength", "hGetMany", "hSetMany", "hScan"}

\* The methods that leave what they find.
Readers ==
    {"exists", "get", "hExists", "hGet", "hGetMany", "hGetAll", "hFields", "hValues", "hLength",
     "hScan", "zCard", "zCount", "zLexicalCount", "zRank", "zScore", "zRange", "zRangeByLex",
     "zRangeByScore", "zScan", "zUnion", "zIntersect"}

\* They are to leave it.
LEMMA ReadersLeave ==
    ASSUME NEW c, c.op \in Readers, NEW d
    PROVE  R!Leaves(c, d) = d
BY DEF Readers, R!Leaves, R!Takers

\* The methods of a hash, and the others, by the type that their key has.
LEMMA TypesOfMethods ==
    ASSUME NEW c \in Calls, c.op \notin {"exists", "set"}
    PROVE  /\ c.op \in HashOps => R!TypeOf(R!Simple(c.op)) = "hash"
           /\ c.op = "get" => R!TypeOf(R!Simple(c.op)) = "string"
           /\ c.op \in {"rPush", "lPush"} => R!TypeOf(R!Simple(c.op)) = "list"
           /\ c.op \notin HashOps \cup {"get", "rPush", "lPush"} =>
                 R!TypeOf(R!Simple(c.op)) = "zset"
<1>1. c.op \in R!Methods
  BY ArgumentsAssumption DEF Offered
<1> USE DEF R!TypeOf, R!Simple, R!StringsAndHashes, R!SortedSetsAndLists
<1>2. c.op \in HashOps => R!TypeOf(R!Simple(c.op)) = "hash"
  BY DEF HashOps
<1>3. /\ c.op = "get" => R!TypeOf(R!Simple(c.op)) = "string"
      /\ c.op \in {"rPush", "lPush"} => R!TypeOf(R!Simple(c.op)) = "list"
  OBVIOUS
<1>4. c.op \notin HashOps \cup {"get", "rPush", "lPush"} => R!TypeOf(R!Simple(c.op)) = "zset"
  BY <1>1 DEF HashOps, R!Methods
<1> QED
  BY <1>2, <1>3, <1>4

\* A method that is Broken keeps what it promises with what it leaves,
LEMMA BrokenKeeps ==
    ASSUME NEW c \in Calls, NEW d, KeyOK(d), d.type \in Asks(c), R!Sends(c), R!Broken(c),
           KeyOK(R!Direct(d, c).after), R!Direct(d, c).after = R!Leaves(c, d)
    PROVE  Kept(c, d)
<1>1. ~R!OfAnotherType(c, d)
  BY DEF R!OfAnotherType, Asks
<1> QED
  BY <1>1 DEF Kept, R!Keeps

\* one that does not miss what it is to find with what it gives, too,
LEMMA OutcomeKeeps ==
    ASSUME NEW c \in Calls, NEW d, KeyOK(d), d.type \in Asks(c), R!Sends(c),
           KeyOK(R!Direct(d, c).after), R!Direct(d, c).after = R!Leaves(c, d),
           R!Outcome(c, R!Direct(d, c)).ok, ~R!Misses(c, d.map),
           R!Returns(c, d, R!Direct(d, c).after, R!Outcome(c, R!Direct(d, c)).value)
    PROVE  Kept(c, d)
<1>1. ~R!OfAnotherType(c, d)
  BY DEF R!OfAnotherType, Asks
<1> QED
  BY <1>1 DEF Kept, R!Keeps

LEMMA GivingKeeps ==
    ASSUME NEW c \in Calls, NEW d, KeyOK(d), d.type \in Asks(c), R!Sends(c), NEW v,
           KeyOK(R!Direct(d, c).after), R!Direct(d, c).after = R!Leaves(c, d),
           R!Outcome(c, R!Direct(d, c)) = R!Gives(v), ~R!Misses(c, d.map),
           R!Returns(c, d, R!Direct(d, c).after, v)
    PROVE  Kept(c, d)
<1>1. R!Outcome(c, R!Direct(d, c)).ok /\ R!Outcome(c, R!Direct(d, c)).value = v
  BY DEF R!Gives
<1>2. R!Returns(c, d, R!Direct(d, c).after, R!Outcome(c, R!Direct(d, c)).value)
  BY <1>1
<1> QED
  BY <1>1, <1>2, OutcomeKeeps

\* and so one that leaves what it finds.
LEMMA ReadingKeeps ==
    ASSUME NEW c \in Calls, c.op \in Readers, NEW d, KeyOK(d), d.type \in Asks(c), R!Sends(c),
           NEW v, R!Direct(d, c).after = d, R!Outcome(c, R!Direct(d, c)) = R!Gives(v),
           ~R!Misses(c, d.map), R!Returns(c, d, d, v)
    PROVE  Kept(c, d)
<1>1. R!Direct(d, c).after = R!Leaves(c, d)
  BY ReadersLeave
<1>2. KeyOK(R!Direct(d, c).after) /\ R!Returns(c, d, R!Direct(d, c).after, v)
  BY Zenon
<1> QED
  BY <1>1, <1>2, GivingKeeps

\* Only hGet() and hGetMany() may miss what they look for.
LEMMA OthersMissNothing ==
    ASSUME NEW c, NEW f, c.op \notin {"hGet", "hGetMany"}
    PROVE  ~R!Misses(c, f)
BY DEF R!Misses

\* On a hash, or on nothing, a method of a hash runs its command.
LEMMA HashCall ==
    ASSUME NEW c \in Calls, c.op \in HashOps, NEW d, KeyOK(d), d.type \in Asks(c)
    PROVE  /\ R!Direct(d, c) = R!HashCommand(d, R!Command(c))
           /\ c.op # "hIncrease" => R!Command(c).cmd = R!Simple(c.op)
           /\ c.op = "hIncrease" =>
                 R!Command(c).cmd = IF "asFloat" \in c.opts THEN "hincrbyfloat" ELSE R!Simple(c.op)
           /\ R!Command(c).args = c.args
           /\ FieldsOK(d.map)
           /\ d.type \in {"none", "hash"} /\ OfType("hash", d)
           /\ R!TypeOf(R!Simple(c.op)) = "hash"
           /\ R!Sends(c)
<1>1. c.op \notin {"exists", "set", "get", "zRangeByScore", "zRange", "zRangeByLex", "zRank",
                   "zUnion", "zIntersect"}
  BY DEF HashOps
<1>2. R!TypeOf(R!Simple(c.op)) = "hash"
  BY <1>1, TypesOfMethods
<1>3. d.type \in {"none", "hash"}
  BY <1>1, <1>2 DEF Asks
<1>9. OfType("hash", d)
  BY <1>3 DEF OfType
<1>4. /\ R!Command(c).args = c.args
      /\ c.op # "hIncrease" => R!Command(c).cmd = R!Simple(c.op)
      /\ c.op = "hIncrease" =>
            R!Command(c).cmd = IF "asFloat" \in c.opts THEN "hincrbyfloat" ELSE R!Simple(c.op)
  BY <1>1, CommandOf
<1>5. R!Sends(c)
  BY <1>1 DEF R!Sends
<1>6. R!Direct(d, c) = R!TypedCommand(d, R!Command(c))
  BY <1>1, <1>5, OwnType
<1>7. R!TypeOf(R!Command(c).cmd) = "hash"
  BY <1>1, <1>2, TypesOfCommands
<1>8. R!Direct(d, c) = R!HashCommand(d, R!Command(c))
  BY <1>6, <1>7 DEF R!TypedCommand
<1> QED
  BY <1>2, <1>3, <1>4, <1>5, <1>8, <1>9, HasFields

\* What it is to give depends on the fields.
LEMMA HashReturns ==
    ASSUME NEW c, c.op \in HashOps, NEW d, NEW e, NEW v, R!HashGives(c, d.map, e.map, v)
    PROVE  R!Returns(c, d, e, v)
<1>1. /\ c.op \notin {"exists", "set", "rPush", "lPush"}
      /\ c.op \in DOMAIN R!StringsAndHashes \ {"exists", "set"}
  BY DEF HashOps, R!StringsAndHashes
<1> QED
  BY <1>1 DEF R!Returns

\* The result of a method that does not throw.
LEMMA GivesValue == ASSUME NEW v PROVE R!Gives(v).ok /\ R!Gives(v).value = v
BY DEF R!Gives

\* hExists() keeps what it promises.
LEMMA hExistsKept ==
    ASSUME NEW c \in Calls, c.op = "hExists", NEW d, KeyOK(d), d.type \in Asks(c)
    PROVE  Kept(c, d)
<1>1. c.op \in HashOps /\ c.op \in Readers /\ R!Simple(c.op) = "hexists"
  BY DEF HashOps, Readers, R!Simple, R!StringsAndHashes
<1> DEFINE a == R!Direct(d, c)
           o == R!Outcome(c, a)
<1>2. a = R!Answer(d, <<R!Bit(c.args[1] \in DOMAIN d.map)>>) /\ R!Sends(c)
  BY <1>1, HashCall DEF R!HashCommand
<1>3. a.ok /\ a.after = d /\ a.reply = <<R!Bit(c.args[1] \in DOMAIN d.map)>>
  BY <1>2 DEF R!Answer
<1>4. o = R!Gives(a.reply = <<1>>)
  BY <1>3 DEF R!Outcome, R!Result
<1>5. (a.reply = <<1>>) <=> c.args[1] \in DOMAIN d.map
  BY <1>3 DEF R!Bit
<1>6. o.ok /\ o.value = (a.reply = <<1>>)
  BY <1>4, GivesValue, Zenon
<1>7. o.value <=> c.args[1] \in DOMAIN d.map
  BY <1>5, <1>6, Zenon
<1>8. R!Returns(c, d, d, o.value)
  <2>1. R!HashGives(c, d.map, d.map, o.value)
    BY <1>7 DEF R!HashGives
  <2> QED
    BY <1>1, <2>1, HashReturns
<1>9. R!Returns(c, d, a.after, o.value)
  BY <1>3, <1>8, Zenon
<1>10. a.after = R!Leaves(c, d) /\ KeyOK(a.after)
  BY <1>1, <1>3, ReadersLeave
<1>11. ~R!Misses(c, d.map)
  BY OthersMissNothing
<1> QED
  BY <1>2, <1>6, <1>9, <1>10, <1>11, OutcomeKeeps

\* hGet() keeps what it promises.
LEMMA hGetKept ==
    ASSUME NEW c \in Calls, c.op = "hGet", NEW d, KeyOK(d), d.type \in Asks(c)
    PROVE  Kept(c, d)
<1>1. c.op \in HashOps /\ c.op \in Readers /\ R!Simple(c.op) = "hget"
  BY DEF HashOps, Readers, R!Simple, R!StringsAndHashes
<1> DEFINE n == c.args[1]
           a == R!Direct(d, c)
           o == R!Outcome(c, a)
<1>2. a = R!Answer(d, <<R!ValueOf(d.map, n)>>) /\ R!Sends(c)
  BY <1>1, HashCall DEF R!HashCommand
<1>3. a.ok /\ a.after = d /\ a.reply = <<R!ValueOf(d.map, n)>>
  BY <1>2 DEF R!Answer
<1>4. FieldsOK(d.map)
  BY <1>1, HashCall
<1>5. R!Range(c.args) = {n}
  <2>1. PICK name \in Name : c.args = <<name>>
    BY ArgumentsAssumption
  <2> QED
    BY <2>1 DEF R!Range
<1> HIDE DEF o
<1>6. CASE n \in DOMAIN d.map
  <2>1. d.map[n] \in Amount /\ Amount \subseteq Nat
    BY <1>4, <1>6, ArgumentsAssumption DEF FieldsOK
  <2>2. d.map[n] # R!Nil
    BY <2>1 DEF R!Nil
  <2>3. a.reply = <<d.map[n]>> /\ a.reply # <<R!Nil>>
    BY <1>3, <1>6, <2>2 DEF R!ValueOf
  <2>4. o = R!Gives(<<d.map[n]>>)
    BY <1>3, <2>3 DEF R!Outcome, R!Result, o
  <2>5. ~R!Misses(c, d.map)
    BY <1>5, <1>6 DEF R!Misses
  <2>6. R!HashGives(c, d.map, d.map, <<d.map[n]>>)
    BY <1>6 DEF R!HashGives
  <2> QED
    BY <1>1, <1>2, <1>3, <2>4, <2>5, <2>6, HashReturns, ReadingKeeps DEF o
<1>7. CASE n \notin DOMAIN d.map
  <2>1. a.reply = <<R!Nil>>
    BY <1>3, <1>7 DEF R!ValueOf
  <2>2. o = IF "throwIfNotFound" \in c.opts THEN R!Throws ELSE R!Gives(<<R!Undefined>>)
    BY <1>3, <2>1 DEF R!Outcome, R!Result, o
  <2>3. R!Misses(c, d.map) <=> "throwIfNotFound" \in c.opts
    BY <1>5, <1>7 DEF R!Misses
  <2>4. CASE "throwIfNotFound" \in c.opts
    <3>1. ~o.ok /\ R!Misses(c, d.map)
      BY <2>2, <2>3, <2>4 DEF R!Throws
    <3>2. a.after = R!Leaves(c, d) /\ KeyOK(a.after) /\ ~R!OfAnotherType(c, d)
      BY <1>1, <1>3, ReadersLeave DEF R!OfAnotherType, Asks
    <3> HIDE DEF a
    <3> QED
      BY <1>2, <3>1, <3>2 DEF Kept, R!Keeps, a, o
  <2>5. CASE "throwIfNotFound" \notin c.opts
    <3>1. o = R!Gives(<<R!Undefined>>) /\ ~R!Misses(c, d.map)
      BY <2>2, <2>3, <2>5
    <3>2. R!HashGives(c, d.map, d.map, <<R!Undefined>>)
      BY <1>7 DEF R!HashGives
    <3> QED
      BY <1>1, <1>2, <1>3, <3>1, <3>2, HashReturns, ReadingKeeps DEF o
  <2> QED
    BY <2>4, <2>5
<1> QED
  BY <1>6, <1>7

\* hGetMany() keeps what it promises.
LEMMA hGetManyKept ==
    ASSUME NEW c \in Calls, c.op = "hGetMany", NEW d, KeyOK(d), d.type \in Asks(c)
    PROVE  Kept(c, d)
<1>1. c.op \in HashOps /\ c.op \in Readers /\ R!Simple(c.op) = "hmget"
  BY DEF HashOps, Readers, R!Simple, R!StringsAndHashes
<1> DEFINE a == c.args
           r == R!Direct(d, c).reply
           o == R!Outcome(c, R!Direct(d, c))
<1>2. R!Direct(d, c) = R!Answer(d, [i \in DOMAIN a |-> R!ValueOf(d.map, a[i])]) /\ R!Sends(c)
  BY <1>1, HashCall DEF R!HashCommand
<1>3. /\ R!Direct(d, c).ok /\ R!Direct(d, c).after = d
      /\ r = [i \in DOMAIN a |-> R!ValueOf(d.map, a[i])]
  BY <1>2 DEF R!Answer
<1>4. FieldsOK(d.map)
  BY <1>1, HashCall
<1>5. o = R!hGetMany(c, r)
  BY <1>3 DEF R!Outcome, R!Result
<1>6. ASSUME NEW i \in DOMAIN a
      PROVE  /\ r[i] = (IF a[i] \in DOMAIN d.map THEN d.map[a[i]] ELSE R!Nil)
             /\ (r[i] = R!Nil <=> a[i] \notin DOMAIN d.map)
  <2>1. a[i] \in DOMAIN d.map => d.map[a[i]] \in Amount /\ Amount \subseteq Nat
    BY <1>4, ArgumentsAssumption DEF FieldsOK
  <2> QED
    BY <1>3, <2>1 DEF R!ValueOf, R!Nil
<1>7. DOMAIN r = DOMAIN a
  BY <1>3
<1>8. R!Nil \in R!Range(r) <=> R!Range(a) \ DOMAIN d.map # {}
  <2> HIDE DEF r, a
  <2>1. ASSUME NEW i \in DOMAIN a, r[i] = R!Nil PROVE a[i] \in R!Range(a) \ DOMAIN d.map
    BY <1>6, <2>1 DEF R!Range
  <2>2. ASSUME NEW n \in R!Range(a) \ DOMAIN d.map PROVE R!Nil \in R!Range(r)
    <3>1. PICK i \in DOMAIN a : a[i] = n
      BY DEF R!Range
    <3>2. r[i] = R!Nil
      BY <1>6, <3>1
    <3> QED
      BY <1>7, <3>2 DEF R!Range
  <2>3. R!Nil \in R!Range(r) => \E i \in DOMAIN a : r[i] = R!Nil
    BY <1>7 DEF R!Range
  <2> QED
    BY <2>1, <2>2, <2>3
<1>9. R!Misses(c, d.map) <=> "throwIfNotFound" \in c.opts /\ R!Nil \in R!Range(r)
  BY <1>8 DEF R!Misses
<1> HIDE DEF r, o, a
<1>10. CASE R!Misses(c, d.map)
  <2>1. ~o.ok
    BY <1>5, <1>9, <1>10 DEF R!hGetMany, R!Throws
  <2>2. /\ R!Direct(d, c).after = R!Leaves(c, d) /\ KeyOK(R!Direct(d, c).after)
        /\ ~R!OfAnotherType(c, d)
    BY <1>1, <1>3, ReadersLeave DEF R!OfAnotherType, Asks
  <2> QED
    BY <1>2, <1>10, <2>1, <2>2 DEF Kept, R!Keeps, o
<1>11. CASE ~R!Misses(c, d.map)
  <2>1. o = R!Gives({<<a[i], r[i]>> : i \in {j \in DOMAIN r : r[j] # R!Nil}})
    BY <1>5, <1>9, <1>11 DEF R!hGetMany, a
  <2> DEFINE V == {<<a[i], r[i]>> : i \in {j \in DOMAIN r : r[j] # R!Nil}}
             W == {<<n, d.map[n]>> : n \in R!Range(a) \cap DOMAIN d.map}
  <2>2. V = W
    <3>1. \A x \in V : x \in W
      <4> SUFFICES ASSUME NEW i \in DOMAIN r, r[i] # R!Nil PROVE <<a[i], r[i]>> \in W
        OBVIOUS
      <4>1. a[i] \in DOMAIN d.map /\ r[i] = d.map[a[i]] /\ a[i] \in R!Range(a)
        BY <1>6, <1>7 DEF R!Range
      <4> QED
        BY <4>1
    <3>2. \A x \in W : x \in V
      <4> SUFFICES ASSUME NEW n \in R!Range(a) \cap DOMAIN d.map PROVE <<n, d.map[n]>> \in V
        OBVIOUS
      <4>1. PICK i \in DOMAIN a : a[i] = n
        BY DEF R!Range
      <4>2. i \in DOMAIN r /\ r[i] # R!Nil /\ r[i] = d.map[n]
        BY <1>6, <1>7, <4>1
      <4> QED
        BY <4>1, <4>2
    <3> HIDE DEF V, W
    <3> QED
      BY <3>1, <3>2
  <2>3. R!HashGives(c, d.map, d.map, W)
    BY DEF R!HashGives, a
  <2>4. o = R!Gives(W)
    <3> HIDE DEF W
    <3> QED
      BY <2>1, <2>2
  <2> HIDE DEF V, W
  <2> QED
    BY <1>1, <1>2, <1>3, <1>11, <2>3, <2>4, HashReturns, ReadingKeeps DEF o
<1> QED
  BY <1>10, <1>11

\* hSet() keeps what it promises.
LEMMA hSetKept ==
    ASSUME NEW c \in Calls, c.op = "hSet", NEW d, KeyOK(d), d.type \in Asks(c),
           R!InRange(R!Direct(d, c).after)
    PROVE  Kept(c, d)
<1>1. c.op \in HashOps /\ R!Simple(c.op) = "hset"
  BY DEF HashOps, R!Simple, R!StringsAndHashes
<1>2. PICK n \in Name, v \in Amount : c.args = <<n, v>>
  <2>1. c.args \in {<<n, v>> : n \in Name, v \in Amount}
    BY ArgumentsAssumption
  <2> QED
    BY <2>1
<1> DEFINE a == R!Direct(d, c)
           reply == <<R!Bit(c.args[1] \notin DOMAIN d.map)>>
<1>3. /\ a = R!HashCommand(d, R!Command(c)) /\ R!Sends(c)
      /\ R!Command(c).args = c.args /\ R!Command(c).cmd = "hset"
      /\ FieldsOK(d.map) /\ R!TypeOf(R!Simple(c.op)) = "hash"
  BY <1>1, HashCall
<1>4. a = R!Answer(R!Stored("hash", R!Put(d.map, c.args[1], c.args[2])), reply)
  BY <1>3 DEF R!HashCommand
<1>5. c.args[1] = n /\ c.args[2] = v /\ n \in Int
  BY <1>2, ArgumentsAssumption
<1>6. a.ok /\ a.reply = reply /\ a.after = R!Stored("hash", R!Put(d.map, n, v))
  BY <1>4, <1>5 DEF R!Answer
<1>7. KeyOK(a.after)
  BY <1>3, <1>5, <1>6, StoredPut
<1>8. a.after = R!Leaves(c, d)
  BY <1>3, <1>5, <1>6 DEF R!Leaves, R!Takers
<1> HIDE DEF a, reply
<1>9. R!Outcome(c, a) = R!Gives(reply)
  BY <1>6 DEF R!Outcome, R!Result
<1>10. R!HashGives(c, d.map, a.after.map, reply)
  BY DEF R!HashGives, reply
<1>11. ~R!Misses(c, d.map)
  BY OthersMissNothing
<1> QED
  BY <1>1, <1>3, <1>7, <1>8, <1>9, <1>10, <1>11, HashReturns, GivingKeeps DEF a

\* hSetMany() keeps what it promises.
LEMMA hSetManyKept ==
    ASSUME NEW c \in Calls, c.op = "hSetMany", NEW d, KeyOK(d), d.type \in Asks(c),
           R!InRange(R!Direct(d, c).after)
    PROVE  Kept(c, d)
<1>1. c.op \in HashOps /\ R!Simple(c.op) = "hmset"
  BY DEF HashOps, R!Simple, R!StringsAndHashes
<1>2. PICK n \in Name, v \in Amount, m \in Name, w \in Amount : c.args = <<n, v, m, w>>
  BY ArgumentsAssumption
<1> DEFINE a == R!Direct(d, c)
           f == R!Put(d.map, n, v)
<1>3. /\ a = R!HashCommand(d, R!Command(c)) /\ R!Sends(c)
      /\ R!Command(c).args = c.args /\ R!Command(c).cmd = "hmset"
      /\ FieldsOK(d.map) /\ R!TypeOf(R!Simple(c.op)) = "hash"
  BY <1>1, HashCall
<1>4. a = R!Answer(R!Stored("hash", R!Put(R!Put(d.map, c.args[1], c.args[2]), c.args[3], c.args[4])),
                   <<R!OK>>)
  BY <1>3 DEF R!HashCommand
<1>5. /\ c.args[1] = n /\ c.args[2] = v /\ c.args[3] = m /\ c.args[4] = w
      /\ n \in Int /\ m \in Int
  BY <1>2, ArgumentsAssumption
<1>6. a.ok /\ a.after = R!Stored("hash", R!Put(f, m, w))
  BY <1>4, <1>5 DEF R!Answer
<1>7. FieldsOK(f)
  BY <1>3, <1>5, PutFields
<1>8. R!Put(f, m, w) = [k \in DOMAIN d.map \union {n, m} |->
                          IF k = m THEN w ELSE IF k = n THEN v ELSE d.map[k]]
  BY DEF R!Put
<1>9. R!Leaves(c, d) = R!Stored("hash", R!Put(f, m, w))
  <2> HIDE DEF f
  <2> QED
    BY <1>3, <1>5, <1>8 DEF R!Leaves, R!Takers
<1> HIDE DEF f
<1>10. KeyOK(a.after)
  BY <1>5, <1>6, <1>7, StoredPut
<1> HIDE DEF a
<1>11. R!Outcome(c, a) = R!Gives(<<>>)
  BY <1>6 DEF R!Outcome, R!Result
<1>12. R!HashGives(c, d.map, a.after.map, <<>>) /\ ~R!Misses(c, d.map)
  BY OthersMissNothing DEF R!HashGives
<1> QED
  BY <1>1, <1>3, <1>6, <1>9, <1>10, <1>11, <1>12, HashReturns, GivingKeeps DEF a

\* hIncrease() keeps what it promises.
LEMMA hIncreaseKept ==
    ASSUME NEW c \in Calls, c.op = "hIncrease", NEW d, KeyOK(d), d.type \in Asks(c),
           R!InRange(R!Direct(d, c).after)
    PROVE  Kept(c, d)
<1>1. c.op \in HashOps /\ R!Simple(c.op) = "hincrby"
  BY DEF HashOps, R!Simple, R!StringsAndHashes
<1>2. PICK n \in Name, by \in Amount : c.args = <<n, by>>
  BY ArgumentsAssumption
<1> DEFINE a == R!Direct(d, c)
           v == c.args[2] + (IF c.args[1] \in DOMAIN d.map THEN d.map[c.args[1]] ELSE 0)
           key == R!Stored("hash", R!Put(d.map, c.args[1], v))
<1>3. /\ a = R!HashCommand(d, R!Command(c)) /\ R!Sends(c)
      /\ R!Command(c).args = c.args
      /\ R!Command(c).cmd = IF "asFloat" \in c.opts THEN "hincrbyfloat" ELSE "hincrby"
      /\ FieldsOK(d.map) /\ R!TypeOf(R!Simple(c.op)) = "hash"
  BY <1>1, HashCall
<1>4. a = IF "asFloat" \in c.opts THEN R!Answer(key, <<R!Text(v)>>) ELSE R!Answer(key, <<v>>)
  BY <1>3 DEF R!HashCommand
<1>5. key = R!Leaves(c, d)
  BY <1>3 DEF R!Leaves, R!Takers
<1>6. c.args[1] = n /\ n \in Int
  BY <1>2, ArgumentsAssumption
<1> HIDE DEF v
<1>7. a.after = key /\ a.ok /\ ("asFloat" \notin c.opts => a.reply = <<v>>)
  BY <1>4 DEF R!Answer
<1>8. KeyOK(key) /\ key.map[n] = v
  BY <1>3, <1>6, <1>7, StoredPut
<1> HIDE DEF a, key
<1>9. CASE "asFloat" \in c.opts
  <2>1. R!Broken(c)
    BY <1>9 DEF R!Broken
  <2> QED
    BY <1>3, <1>5, <1>7, <1>8, <2>1, BrokenKeeps DEF a
<1>10. CASE "asFloat" \notin c.opts
  <2>1. R!Outcome(c, a) = R!Gives(<<v>>)
    BY <1>7, <1>10 DEF R!Outcome, R!Result
  <2>2. R!HashGives(c, d.map, a.after.map, <<v>>)
    BY <1>6, <1>7, <1>8 DEF R!HashGives
  <2>3. ~R!Misses(c, d.map)
    BY OthersMissNothing
  <2> QED
    BY <1>1, <1>3, <1>5, <1>7, <1>8, <2>1, <2>2, <2>3, HashReturns, GivingKeeps DEF a
<1> QED
  BY <1>9, <1>10

\* hDelete() keeps what it promises.
LEMMA hDeleteKept ==
    ASSUME NEW c \in Calls, c.op = "hDelete", NEW d, KeyOK(d), d.type \in Asks(c)
    PROVE  Kept(c, d)
<1>1. c.op \in HashOps /\ R!Simple(c.op) = "hdel"
  BY DEF HashOps, R!Simple, R!StringsAndHashes
<1> DEFINE a == R!Direct(d, c)
           T == R!Range(c.args)
           count == Cardinality(DOMAIN d.map) - Cardinality(DOMAIN a.after.map)
<1>2. a = R!Deletes(d, T)
  BY <1>1, HashCall DEF R!HashCommand
<1>3. OfType("hash", d) /\ R!Sends(c) /\ R!TypeOf(R!Simple(c.op)) = "hash"
  BY <1>1, HashCall
<1>4. /\ a.ok /\ KeyOK(a.after) /\ a.after = R!Stored("hash", R!Without(d.map, T))
      /\ a.reply = <<count>>
  <2> HIDE DEF T
  <2> QED
    BY <1>2, <1>3, DeletesOK
<1>5. a.after = R!Leaves(c, d)
  BY <1>3, <1>4 DEF R!Leaves, R!Takers, R!Taken
<1> HIDE DEF a, count
<1>6. R!Outcome(c, a) = R!Gives(<<count>>)
  BY <1>4 DEF R!Outcome, R!Result
<1>7. R!HashGives(c, d.map, a.after.map, <<count>>)
  BY RedisCardinality DEF R!HashGives, count
<1>8. ~R!Misses(c, d.map)
  BY OthersMissNothing
<1> QED
  BY <1>1, <1>3, <1>4, <1>5, <1>6, <1>7, <1>8, HashReturns, GivingKeeps DEF a

\* Names that are to be ranked have the same score.
LEMMA NamesMean ==
    ASSUME NEW T, IsFiniteSet(T), T \subseteq Int
    PROVE  /\ DOMAIN R!Names(T) = T
           /\ Scores(R!Names(T))
           /\ \A m \in T : R!Names(T)[m] = 0
<1>1. DOMAIN R!Names(T) = T /\ R!Names(T) \in [T -> Int] /\ \A m \in T : R!Names(T)[m] = 0
  BY DEF R!Names
<1> QED
  BY <1>1 DEF Scores

\* HKEYS has every field.
LEMMA FieldsInOrder ==
    ASSUME NEW f, FieldsOK(f)
    PROVE  /\ R!Ranked(R!Names(DOMAIN f)) \in [1..Cardinality(DOMAIN f) -> DOMAIN f]
           /\ R!Range(R!Ranked(R!Names(DOMAIN f))) = DOMAIN f
           /\ R!Ranked(R!Names(DOMAIN f)) \in R!Orders(DOMAIN f)
           /\ Cardinality(DOMAIN f) \in Nat
<1> DEFINE g == R!Names(DOMAIN f)
           s == R!Ranked(g)
<1>1. IsFiniteSet(DOMAIN f) /\ DOMAIN f \subseteq Int
  BY DEF FieldsOK
<1>2. Scores(g) /\ DOMAIN g = DOMAIN f
  BY <1>1, NamesMean
<1>3. Cardinality(DOMAIN f) \in Nat
  BY <1>1, FS_CardinalityType
<1> HIDE DEF g
<1>4. /\ s \in [1..Cardinality(DOMAIN f) -> DOMAIN f]
      /\ \A m \in DOMAIN f : \E i \in 1..Cardinality(DOMAIN f) : s[i] = m
  BY <1>2, RankedMeans DEF IsRanked
<1> HIDE DEF s
<1>5. R!Range(s) = DOMAIN f
  BY <1>4 DEF R!Range
<1>6. s \in R!Orders(DOMAIN f)
  BY <1>4, <1>5, RedisCardinality DEF R!Orders
<1> QED
  BY <1>3, <1>4, <1>5, <1>6 DEF s, g

\* The pairs that are read from a list of members with their numbers.
PairsOf(r) == {<<r[2 * i - 1], r[2 * i]>> : i \in 1..(Len(r) \div 2)}
LEMMA PairsOfFlat ==
    ASSUME NEW n \in Nat, NEW T, NEW s \in [1..n -> T], NEW f
    PROVE  PairsOf(R!Flat(f, s)) = {<<m, f[m]>> : m \in R!Range(s)}
<1> DEFINE r == R!Flat(f, s)
<1>1. Len(s) = n /\ DOMAIN s = 1..n
  BY FunctionIsSequence
<1>2. r = [i \in 1..(2 * n) |-> IF i % 2 = 1 THEN s[(i + 1) \div 2] ELSE f[s[i \div 2]]]
  BY <1>1 DEF R!Flat
<1>3. Len(r) = 2 * n
  BY <1>2, FunctionIsSequence
<1> HIDE DEF r
<1>4. Len(r) \div 2 = n
  BY <1>3
<1>5. ASSUME NEW i \in 1..n PROVE r[2 * i - 1] = s[i] /\ r[2 * i] = f[s[i]]
  <2>1. /\ 2 * i - 1 \in 1..(2 * n) /\ (2 * i - 1) % 2 = 1 /\ (2 * i - 1 + 1) \div 2 = i
        /\ 2 * i \in 1..(2 * n) /\ (2 * i) % 2 = 0 /\ (2 * i) \div 2 = i
    OBVIOUS
  <2> QED
    BY <1>2, <2>1
<1> DEFINE V == {<<r[2 * i - 1], r[2 * i]>> : i \in 1..(Len(r) \div 2)}
           W == {<<m, f[m]>> : m \in R!Range(s)}
<1>6. \A x \in V : x \in W
  <2> SUFFICES ASSUME NEW i \in 1..n PROVE <<r[2 * i - 1], r[2 * i]>> \in W
    BY <1>4
  <2>1. s[i] \in R!Range(s)
    BY <1>1 DEF R!Range
  <2> QED
    BY <1>5, <2>1
<1>7. \A x \in W : x \in V
  <2> SUFFICES ASSUME NEW m \in R!Range(s) PROVE <<m, f[m]>> \in V
    OBVIOUS
  <2>1. PICK i \in 1..n : s[i] = m
    BY <1>1 DEF R!Range
  <2>2. <<m, f[m]>> = <<r[2 * i - 1], r[2 * i]>>
    BY <1>5, <2>1
  <2> QED
    BY <1>4, <2>2
<1> HIDE DEF V, W
<1>8. V = W
  BY <1>6, <1>7
<1> QED
  BY <1>8 DEF V, W, r, PairsOf

\* hGetAll(), hFields(), hValues() and hLength() keep what they promise.
LEMMA HashReadsKept ==
    ASSUME NEW c \in Calls, c.op \in {"hGetAll", "hFields", "hValues", "hLength"},
           NEW d, KeyOK(d), d.type \in Asks(c)
    PROVE  Kept(c, d)
<1>1. c.op \in HashOps /\ c.op \in Readers /\ c.op # "hIncrease"
  BY DEF HashOps, Readers
<1> DEFINE a == R!Direct(d, c)
           f == d.map
           fields == R!Ranked(R!Names(DOMAIN f))
<1>2. /\ a = R!HashCommand(d, R!Command(c)) /\ R!Command(c).cmd = R!Simple(c.op)
      /\ R!Sends(c) /\ FieldsOK(f)
  BY <1>1, HashCall
<1>3. ~R!Misses(c, f)
  BY OthersMissNothing
<1>4. /\ fields \in [1..Cardinality(DOMAIN f) -> DOMAIN f] /\ R!Range(fields) = DOMAIN f
      /\ fields \in R!Orders(DOMAIN f) /\ Cardinality(DOMAIN f) \in Nat
  BY <1>2, FieldsInOrder
<1>5. ASSUME NEW v, a.ok, a.after = d, R!Outcome(c, a) = R!Gives(v), R!HashGives(c, f, f, v)
      PROVE  Kept(c, d)
  <2>1. R!Returns(c, d, d, v)
    BY <1>1, <1>5, HashReturns
  <2> QED
    BY <1>1, <1>2, <1>3, <1>5, <2>1, ReadingKeeps
<1>6. CASE c.op = "hGetAll"
  <2>1. R!Command(c).cmd = "hgetall"
    BY <1>2, <1>6 DEF R!Simple, R!StringsAndHashes
  <2>2. a = R!Answer(d, R!Flat(f, fields))
    BY <1>2, <2>1 DEF R!HashCommand
  <2> DEFINE r == R!Flat(f, fields)
             v == PairsOf(r)
  <2>3. v = {<<m, f[m]>> : m \in R!Range(fields)}
    <3> HIDE DEF f, fields
    <3> QED
      BY <1>4, PairsOfFlat
  <2>4. R!HashGives(c, f, f, v)
    <3> HIDE DEF v
    <3> QED
      BY <1>4, <1>6, <2>3 DEF R!HashGives
  <2> HIDE DEF r
  <2>5. a.ok /\ a.after = d /\ a.reply = r
    BY <2>2 DEF R!Answer, r
  <2>6. R!Outcome(c, a) = R!Gives(v)
    BY <1>6, <2>5 DEF R!Outcome, R!Result, PairsOf
  <2> HIDE DEF v
  <2> QED
    BY <1>5, <2>4, <2>5, <2>6
<1>7. CASE c.op = "hFields"
  <2>1. R!Command(c).cmd = "hkeys"
    BY <1>2, <1>7 DEF R!Simple, R!StringsAndHashes
  <2>2. a = R!Answer(d, fields)
    BY <1>2, <2>1 DEF R!HashCommand
  <2> HIDE DEF f, fields
  <2>3. a.ok /\ a.after = d /\ R!Outcome(c, a) = R!Gives(fields)
    BY <1>7, <2>2 DEF R!Answer, R!Outcome, R!Result
  <2>4. R!HashGives(c, f, f, fields)
    BY <1>4, <1>7 DEF R!HashGives
  <2> QED
    BY <1>5, <2>3, <2>4
<1>8. CASE c.op = "hValues"
  <2> DEFINE v == [i \in DOMAIN fields |-> f[fields[i]]]
  <2>1. R!Command(c).cmd = "hvals"
    BY <1>2, <1>8 DEF R!Simple, R!StringsAndHashes
  <2>2. a = R!Answer(d, v)
    BY <1>2, <2>1 DEF R!HashCommand
  <2>3. R!HashGives(c, f, f, v)
    <3> HIDE DEF f, fields
    <3> QED
      BY <1>4, <1>8 DEF R!HashGives
  <2> HIDE DEF v
  <2>4. a.ok /\ a.after = d /\ R!Outcome(c, a) = R!Gives(v)
    BY <1>8, <2>2 DEF R!Answer, R!Outcome, R!Result
  <2> QED
    BY <1>5, <2>3, <2>4
<1>9. CASE c.op = "hLength"
  <2>1. R!Command(c).cmd = "hlen"
    BY <1>2, <1>9 DEF R!Simple, R!StringsAndHashes
  <2>2. a = R!Answer(d, <<R!Cardinality(DOMAIN f)>>)
    BY <1>2, <2>1 DEF R!HashCommand
  <2>3. a.ok /\ a.after = d /\ R!Outcome(c, a) = R!Gives(<<R!Cardinality(DOMAIN f)>>)
    BY <1>9, <2>2 DEF R!Answer, R!Outcome, R!Result
  <2>4. R!HashGives(c, f, f, <<R!Cardinality(DOMAIN f)>>)
    BY <1>9 DEF R!HashGives
  <2> QED
    BY <1>5, <2>3, <2>4
<1> QED
  BY <1>6, <1>7, <1>8, <1>9

\* hScan() leaves the hash.
LEMMA hScanKept ==
    ASSUME NEW c \in Calls, c.op = "hScan", NEW d, KeyOK(d), d.type \in Asks(c)
    PROVE  Kept(c, d)
<1>1. c.op \in HashOps /\ c.op \in Readers /\ R!Simple(c.op) = "hscan" /\ R!Broken(c)
  BY DEF HashOps, Readers, R!Simple, R!StringsAndHashes, R!Broken
<1>2. R!Direct(d, c) = R!HashCommand(d, R!Command(c)) /\ R!Command(c).cmd = "hscan" /\ R!Sends(c)
  BY <1>1, HashCall
<1>3. R!Direct(d, c).after = d
  BY <1>2 DEF R!HashCommand, R!Answer, R!Fails
<1> QED
  BY <1>1, <1>2, <1>3, ReadersLeave, BrokenKeeps

-----------------------------------------------------------------------------
(* TypedRedis: the methods of a sorted set.                                    *)

\* The methods of a sorted set.
SortedSetOps == R!Methods \ (HashOps \cup {"exists", "set", "get", "rPush", "lPush"})

\* On a sorted set, or on nothing, a method of a sorted set runs its command.
LEMMA SortedSetCall ==
    ASSUME NEW c \in Calls, c.op \in SortedSetOps, NEW d, KeyOK(d), d.type \in Asks(c),
           R!Sends(c)
    PROVE  /\ R!Direct(d, c) = R!SortedSetCommand(d, R!Command(c))
           /\ R!Command(c).args = c.args
           /\ c.op \notin DOMAIN R!Reversed => R!Command(c).cmd = R!Simple(c.op)
           /\ FieldsOK(d.map) /\ Scores(d.map)
           /\ d.type \in {"none", "zset"} /\ OfType("zset", d)
           /\ R!TypeOf(R!Simple(c.op)) = "zset"
<1>1. c.op \notin HashOps \cup {"exists", "set", "get", "rPush", "lPush"}
  BY DEF SortedSetOps
<1>2. R!TypeOf(R!Simple(c.op)) = "zset"
  BY <1>1, TypesOfMethods
<1>3. d.type \in {"none", "zset"}
  BY <1>1, <1>2 DEF Asks
<1>4. R!Command(c).args = c.args /\ R!TypeOf(R!Command(c).cmd) = "zset"
  BY <1>1, <1>2, CommandOf, TypesOfCommands
<1>5. R!Direct(d, c) = R!TypedCommand(d, R!Command(c))
  BY <1>1, OwnType
<1>6. R!Direct(d, c) = R!SortedSetCommand(d, R!Command(c))
  BY <1>4, <1>5 DEF R!TypedCommand
<1>7. c.op \notin DOMAIN R!Reversed => R!Command(c).cmd = R!Simple(c.op)
  <2>1. "hIncrease" \in HashOps
    BY DEF HashOps
  <2> QED
    BY <1>1, <2>1, CommandOf DEF R!Reversed
<1>8. OfType("zset", d)
  BY <1>3 DEF OfType
<1>9. FieldsOK(d.map)
  BY <1>3, HasFields
<1>10. Scores(d.map)
  <2>1. Amount \subseteq Int
    BY ArgumentsAssumption
  <2> QED
    BY <1>9, <2>1 DEF FieldsOK, Scores
<1> QED
  BY <1>2, <1>3, <1>4, <1>6, <1>7, <1>8, <1>9, <1>10

\* What it is to give depends on the members.
LEMMA SortedSetReturns ==
    ASSUME NEW c, c.op \in SortedSetOps, NEW d, NEW e, NEW v, R!SortedSetGives(c, d.map, e.map, v)
    PROVE  R!Returns(c, d, e, v)
<1>1. /\ c.op \notin {"exists", "set", "rPush", "lPush"}
      /\ c.op \notin DOMAIN R!StringsAndHashes
  BY DEF SortedSetOps, HashOps, R!StringsAndHashes
<1> QED
  BY <1>1 DEF R!Returns

\* The members from the lowest or from the highest, and the place of one.
Order(rev, f) == IF rev THEN R!Reverse(R!Ranked(f)) ELSE R!Ranked(f)
RankIn(rev, f, m) == IF rev THEN Cardinality(DOMAIN f) - 1 - R!Before(f, m) ELSE R!Before(f, m)

\* The member at a place has that place, and every member has one.
IsOrder(rev, f, s) ==
    /\ s \in [1..Cardinality(DOMAIN f) -> DOMAIN f]
    /\ \A i \in 1..Cardinality(DOMAIN f) : RankIn(rev, f, s[i]) = i - 1
    /\ \A m \in DOMAIN f : \E i \in 1..Cardinality(DOMAIN f) : s[i] = m
LEMMA OrderMeans ==
    ASSUME NEW rev, NEW f, Scores(f)
    PROVE  Cardinality(DOMAIN f) \in Nat /\ IsOrder(rev, f, Order(rev, f))
<1> DEFINE n == Cardinality(DOMAIN f)
           s == R!Ranked(f)
           t == Order(rev, f)
<1>2. n \in Nat
  BY FS_CardinalityType DEF Scores
<1>3. /\ s \in [1..n -> DOMAIN f]
      /\ \A i \in 1..n : R!Before(f, s[i]) = i - 1
      /\ \A m \in DOMAIN f : \E i \in 1..n : s[i] = m
  BY RankedMeans DEF IsRanked
<1> HIDE DEF s
<1>4. CASE ~rev
  <2>1. t = s
    BY <1>4 DEF Order, s
  <2> QED
    BY <1>2, <1>3, <1>4, <2>1 DEF RankIn, IsOrder
<1>5. CASE rev
  <2>1. Len(s) = n
    BY <1>2, <1>3
  <2>2. t = [i \in 1..n |-> s[(n - i) + 1]]
    BY <1>5, <2>1 DEF Order, R!Reverse, s
  <2> HIDE DEF t, n
  <2>3. \A i \in 1..n : (n - i) + 1 \in 1..n
    BY <1>2
  <2>4. t \in [1..n -> DOMAIN f]
    BY <1>3, <2>2, <2>3
  <2>5. ASSUME NEW i \in 1..n PROVE RankIn(rev, f, t[i]) = i - 1
    <3>1. t[i] = s[(n - i) + 1] /\ (n - i) + 1 \in 1..n
      BY <2>2, <2>3
    <3> DEFINE j == (n - i) + 1
    <3>2. j \in 1..n /\ t[i] = s[j]
      BY <3>1
    <3> HIDE DEF j
    <3>3. R!Before(f, s[j]) = j - 1
      BY <1>3, <3>2 DEF n
    <3>4. R!Before(f, t[i]) = j - 1
      BY <3>2, <3>3
    <3>5. RankIn(rev, f, t[i]) = n - 1 - R!Before(f, t[i])
      BY <1>5 DEF RankIn, n
    <3>6. n - 1 - (j - 1) = i - 1
      BY <1>2 DEF j
    <3> QED
      BY <3>4, <3>5, <3>6
  <2>6. ASSUME NEW m \in DOMAIN f PROVE \E i \in 1..n : t[i] = m
    <3>1. PICK j \in 1..n : s[j] = m
      BY <1>3
    <3>2. (n - j) + 1 \in 1..n /\ (n - ((n - j) + 1)) + 1 = j
      BY <1>2
    <3> QED
      BY <2>2, <3>1, <3>2
  <2> QED
    BY <1>2, <2>4, <2>5, <2>6 DEF n, t, IsOrder
<1> QED
  BY <1>4, <1>5

\* The places are those from 0, each of one member.
LEMMA RanksMean ==
    ASSUME NEW rev, NEW f, Scores(f), NEW m \in DOMAIN f
    PROVE  RankIn(rev, f, m) \in 0..(Cardinality(DOMAIN f) - 1)
<1> DEFINE n == Cardinality(DOMAIN f)
<1>1. n \in Nat /\ \A i \in 1..n : RankIn(rev, f, Order(rev, f)[i]) = i - 1
  BY OrderMeans DEF IsOrder
<1>2. PICK i \in 1..n : Order(rev, f)[i] = m
  BY OrderMeans DEF IsOrder
<1>3. RankIn(rev, f, m) = i - 1
  BY <1>1, <1>2
<1> HIDE DEF n
<1>4. i - 1 \in 0..(n - 1)
  BY <1>1
<1> QED
  BY <1>3, <1>4 DEF n

\* A part of the order has the members at these places.
HasPlaces(rev, f, from, last, v) ==
    /\ R!Range(v) = {m \in DOMAIN f : RankIn(rev, f, m) \in from..last}
    /\ \A i \in DOMAIN v : RankIn(rev, f, v[i]) = from + i - 1
LEMMA PartMeans ==
    ASSUME NEW rev, NEW f, Scores(f), NEW from \in Nat, NEW last \in Int, last >= -1
    PROVE  HasPlaces(rev, f, from, last, R!Part(Order(rev, f), from, last))
<1> DEFINE n == Cardinality(DOMAIN f)
           s == Order(rev, f)
           low == from + 1
           to == IF last + 1 < Len(s) THEN last + 1 ELSE Len(s)
           v == SubSeq(s, low, to)
<1>1. /\ n \in Nat /\ s \in [1..n -> DOMAIN f]
      /\ \A i \in 1..n : RankIn(rev, f, s[i]) = i - 1
      /\ \A m \in DOMAIN f : \E i \in 1..n : s[i] = m
  BY OrderMeans DEF IsOrder
<1>2. v = R!Part(s, from, last)
  BY DEF R!Part
<1> HIDE DEF n, s
<1>3. Len(s) = n
  BY <1>1
<1>4. low \in Int /\ to \in Int /\ low >= 1 /\ to >= 0 /\ to <= n /\ to <= last + 1
  <2>1. to = IF last + 1 < n THEN last + 1 ELSE n
    BY <1>3
  <2>2. low \in Int /\ low >= 1
    OBVIOUS
  <2>3. n \in Nat
    BY <1>1
  <2> HIDE DEF low, to
  <2> QED
    BY <2>1, <2>2, <2>3
<1>5. \A i \in low..to : s[i] \in DOMAIN f
  BY <1>1, <1>4
<1> HIDE DEF to
<1>6. /\ v \in Seq(DOMAIN f)
      /\ Len(v) = IF low <= to THEN to - low + 1 ELSE 0
      /\ \A i \in 1..(to - low + 1) : v[i] = s[low + i - 1]
  BY <1>4, <1>5, SubSeqProperties
<1> HIDE DEF v
<1>7. DOMAIN v = 1..Len(v)
  BY <1>6
<1>8. ASSUME NEW i \in DOMAIN v
      PROVE  v[i] \in DOMAIN f /\ RankIn(rev, f, v[i]) = from + i - 1 /\ from + i - 1 \in from..last
  <2>1. i \in 1..(to - low + 1)
    BY <1>4, <1>6, <1>7
  <2>2. low + i - 1 \in 1..n
    BY <1>1, <1>4, <2>1
  <2>3. v[i] = s[low + i - 1]
    BY <1>6, <2>1
  <2> DEFINE k == low + i - 1
  <2>4. k - 1 = from + i - 1 /\ from + i - 1 \in from..last
    BY <1>4, <2>1, <2>2
  <2> HIDE DEF k
  <2>5. k \in 1..n /\ v[i] = s[k]
    BY <2>2, <2>3 DEF k
  <2>6. RankIn(rev, f, s[k]) = k - 1 /\ s[k] \in DOMAIN f
    BY <1>1, <2>5
  <2> QED
    BY <2>4, <2>5, <2>6
<1>9. ASSUME NEW m \in DOMAIN f, RankIn(rev, f, m) \in from..last
      PROVE  m \in R!Range(v)
  <2>1. PICK j \in 1..n : s[j] = m
    BY <1>1
  <2>2. j - 1 \in from..last
    BY <1>1, <1>9, <2>1
  <2>3. j >= low /\ j <= to
    BY <1>1, <1>3, <2>2 DEF to
  <2>4. j - low + 1 \in 1..(to - low + 1) /\ low + (j - low + 1) - 1 = j /\ low <= to
    BY <1>1, <1>4, <2>3
  <2>5. v[j - low + 1] = m /\ j - low + 1 \in DOMAIN v
    BY <1>6, <1>7, <2>1, <2>4
  <2> QED
    BY <2>5 DEF R!Range
<1>10. \A m \in R!Range(v) : m \in DOMAIN f /\ RankIn(rev, f, m) \in from..last
  BY <1>8 DEF R!Range
<1>11. R!Range(v) = {m \in DOMAIN f : RankIn(rev, f, m) \in from..last}
  BY <1>9, <1>10
<1>12. HasPlaces(rev, f, from, last, v)
  BY <1>8, <1>11 DEF HasPlaces
<1> QED
  BY <1>2, <1>12 DEF s

\* The same for the order that a call asks for.
LEMMA CallOrder ==
    ASSUME NEW c, NEW f
    PROVE  \A m : R!Rank(c, f, m) = RankIn("reverse" \in c.opts, f, m)
BY RedisCardinality DEF R!Rank, RankIn

LEMMA PartLists ==
    ASSUME NEW c, NEW f, Scores(f), NEW from \in Nat, NEW last \in Int, last >= -1
    PROVE  R!Lists(c, f, from, last, R!Part(Order("reverse" \in c.opts, f), from, last))
<1> DEFINE rev == "reverse" \in c.opts
           v == R!Part(Order(rev, f), from, last)
<1>1. \A m : R!Rank(c, f, m) = RankIn(rev, f, m)
  BY CallOrder
<1> HIDE DEF rev
<1>2. HasPlaces(rev, f, from, last, v)
  BY PartMeans
<1> HIDE DEF v
<1>3. R!Lists(c, f, from, last, v)
  BY <1>1, <1>2 DEF HasPlaces, R!Lists
<1> QED
  BY <1>3 DEF v, rev

LEMMA AllLists ==
    ASSUME NEW c, NEW f, Scores(f)
    PROVE  R!Lists(c, f, 0, Cardinality(DOMAIN f) - 1, Order("reverse" \in c.opts, f))
<1> DEFINE rev == "reverse" \in c.opts
           n == Cardinality(DOMAIN f)
           v == Order(rev, f)
<1>1. \A m : R!Rank(c, f, m) = RankIn(rev, f, m)
  BY CallOrder
<1> HIDE DEF rev
<1>2. /\ n \in Nat /\ v \in [1..n -> DOMAIN f]
      /\ \A i \in 1..n : RankIn(rev, f, v[i]) = i - 1
      /\ \A m \in DOMAIN f : \E i \in 1..n : v[i] = m
  BY OrderMeans DEF IsOrder
<1>3. \A m \in DOMAIN f : RankIn(rev, f, m) \in 0..(n - 1)
  BY RanksMean
<1> HIDE DEF n, v
<1>4. R!Range(v) = DOMAIN f
  BY <1>2 DEF R!Range
<1>5. R!Range(v) = {m \in DOMAIN f : R!Rank(c, f, m) \in 0..(n - 1)}
  BY <1>1, <1>3, <1>4
<1>6. \A i \in DOMAIN v : R!Rank(c, f, v[i]) = 0 + i - 1
  BY <1>1, <1>2
<1>7. R!Lists(c, f, 0, n - 1, v)
  BY <1>5, <1>6 DEF R!Lists
<1> QED
  BY <1>7 DEF v, n, rev

\* A method that reads a sorted set keeps what it promises with what it gives,
LEMMA SortedSetReads ==
    ASSUME NEW c \in Calls, c.op \in SortedSetOps, c.op \in Readers, NEW d, KeyOK(d),
           d.type \in Asks(c), R!Sends(c), NEW r, NEW v, R!Direct(d, c) = R!Answer(d, r),
           R!Result(c, r) = R!Gives(v), R!SortedSetGives(c, d.map, d.map, v)
    PROVE  Kept(c, d)
<1>1. c.op \notin {"hGet", "hGetMany"}
  BY DEF SortedSetOps, HashOps
<1>2. ~R!Misses(c, d.map)
  BY <1>1, OthersMissNothing
<1>3. R!Direct(d, c).ok /\ R!Direct(d, c).after = d /\ R!Direct(d, c).reply = r
  BY DEF R!Answer
<1>4. R!Outcome(c, R!Direct(d, c)) = R!Gives(v)
  BY <1>3 DEF R!Outcome
<1>5. R!Returns(c, d, d, v)
  BY SortedSetReturns
<1> QED
  BY <1>2, <1>3, <1>4, <1>5, ReadingKeeps

\* and if it is Broken by leaving what it finds.
LEMMA BrokenReads ==
    ASSUME NEW c \in Calls, c.op \in Readers, NEW d, KeyOK(d), d.type \in Asks(c), R!Sends(c),
           R!Broken(c), R!Direct(d, c).after = d
    PROVE  Kept(c, d)
BY ReadersLeave, BrokenKeeps

\* zCard(), zCount() and zLexicalCount() keep what they promise.
LEMMA zCountsKept ==
    ASSUME NEW c \in Calls, c.op \in {"zCard", "zCount", "zLexicalCount"}, NEW d, KeyOK(d),
           d.type \in Asks(c)
    PROVE  Kept(c, d)
<1>1. /\ c.op \in SortedSetOps /\ c.op \in Readers
      /\ c.op \notin DOMAIN R!Reversed /\ R!Sends(c)
  BY DEF SortedSetOps, HashOps, Readers, R!Methods, R!StringsAndHashes, R!SortedSetsAndLists,
         R!Reversed, R!Sends
<1> DEFINE a == R!Direct(d, c)
           f == d.map
           between == c.args[1]..c.args[2]
<1>2. /\ a = R!SortedSetCommand(d, R!Command(c)) /\ R!Command(c).cmd = R!Simple(c.op)
      /\ R!Command(c).args = c.args
  BY <1>1, SortedSetCall
<1>3. \A r : R!Result(c, r) = R!Gives(r)
  BY DEF R!Result
<1>4. CASE c.op = "zCard"
  <2> DEFINE v == <<R!Cardinality(DOMAIN f)>>
  <2>1. R!Command(c).cmd = "zcard"
    BY <1>2, <1>4 DEF R!Simple, R!StringsAndHashes, R!SortedSetsAndLists
  <2>2. a = R!Answer(d, v)
    BY <1>2, <2>1 DEF R!SortedSetCommand
  <2>3. R!SortedSetGives(c, f, f, v)
    BY <1>4 DEF R!SortedSetGives, R!Takers
  <2> HIDE DEF v
  <2> QED
    BY <1>1, <1>3, <2>2, <2>3, SortedSetReads
<1>5. CASE c.op = "zCount"
  <2> DEFINE v == <<R!Cardinality({m \in DOMAIN f : f[m] \in between})>>
  <2>1. R!Command(c).cmd = "zcount"
    BY <1>2, <1>5 DEF R!Simple, R!StringsAndHashes, R!SortedSetsAndLists
  <2>2. a = R!Answer(d, v)
    BY <1>2, <2>1 DEF R!SortedSetCommand
  <2>3. R!SortedSetGives(c, f, f, v)
    BY <1>5 DEF R!SortedSetGives, R!Takers
  <2> HIDE DEF v
  <2> QED
    BY <1>1, <1>3, <2>2, <2>3, SortedSetReads
<1>6. CASE c.op = "zLexicalCount"
  <2> DEFINE v == <<R!Cardinality({m \in DOMAIN f : m \in between})>>
  <2>1. R!Command(c).cmd = "zlexcount"
    BY <1>2, <1>6 DEF R!Simple, R!StringsAndHashes, R!SortedSetsAndLists
  <2>2. a = R!Answer(d, v)
    BY <1>2, <2>1 DEF R!SortedSetCommand
  <2>3. {m \in DOMAIN f : m \in between} = DOMAIN f \cap between
    OBVIOUS
  <2>4. R!SortedSetGives(c, f, f, v)
    BY <1>6, <2>3 DEF R!SortedSetGives, R!Takers
  <2> HIDE DEF v
  <2> QED
    BY <1>1, <1>3, <2>2, <2>4, SortedSetReads
<1> QED
  BY <1>4, <1>5, <1>6

\* zRank() keeps what it promises.
LEMMA zRankKept ==
    ASSUME NEW c \in Calls, c.op = "zRank", NEW d, KeyOK(d), d.type \in Asks(c)
    PROVE  Kept(c, d)
<1> DEFINE a == R!Direct(d, c)
           f == d.map
           n == Cardinality(DOMAIN f)
           rev == "reverse" \in c.opts
           s == Order(rev, f)
           member == c.args[1]
           at == CHOOSE i \in DOMAIN s : s[i] = member
           r == <<IF member \in DOMAIN f THEN at - 1 ELSE R!Nil>>
           v == <<IF member \in DOMAIN f THEN R!Rank(c, f, member) ELSE R!Undefined>>
<1>1. c.op \in SortedSetOps /\ c.op \in Readers /\ R!Sends(c) /\ R!Simple(c.op) = "zrank"
  BY DEF SortedSetOps, HashOps, Readers, R!Methods, R!Simple, R!StringsAndHashes,
         R!SortedSetsAndLists, R!Sends
<1>2. /\ a = R!SortedSetCommand(d, R!Command(c)) /\ R!Command(c).args = c.args /\ Scores(f)
  BY <1>1, SortedSetCall
<1>3. R!Command(c).cmd = IF rev THEN "zrevrank" ELSE "zrank"
  BY <1>1, CommandOf
<1>4. a = R!Answer(d, r)
  <2>1. CASE rev
    BY <1>2, <1>3, <2>1 DEF R!SortedSetCommand, R!InOrder, Order
  <2>2. CASE ~rev
    BY <1>2, <1>3, <2>2 DEF R!SortedSetCommand, R!InOrder, Order
  <2> QED
    BY <2>1, <2>2
<1>5. R!SortedSetGives(c, f, f, v)
  BY DEF R!SortedSetGives, R!Takers
<1>6. R!Rank(c, f, member) = RankIn(rev, f, member)
  BY CallOrder
<1> HIDE DEF a, f, rev, member
<1>7. /\ n \in Nat /\ s \in [1..n -> DOMAIN f]
      /\ \A i \in 1..n : RankIn(rev, f, s[i]) = i - 1
      /\ \A m \in DOMAIN f : \E i \in 1..n : s[i] = m
  <2> HIDE DEF at, r, v
  <2>1. n \in Nat /\ IsOrder(rev, f, s)
    BY <1>2, OrderMeans
  <2> HIDE DEF s
  <2> QED
    BY <2>1 DEF IsOrder
<1> HIDE DEF n, s
<1>8. member \in DOMAIN f => at \in 1..n /\ s[at] = member
  BY <1>7
<1> HIDE DEF at
<1>9. member \in DOMAIN f => r = <<R!Rank(c, f, member)>> /\ r # <<R!Nil>>
  BY <1>6, <1>7, <1>8 DEF R!Nil
<1>10. R!Result(c, r) = R!Gives(IF r = <<R!Nil>> THEN <<R!Undefined>> ELSE r)
  BY DEF R!Result
<1>11. R!Result(c, r) = R!Gives(v)
  BY <1>9, <1>10
<1> HIDE DEF r, v
<1> QED
  BY <1>1, <1>4, <1>5, <1>11, SortedSetReads DEF a, f

\* zRange() keeps what it promises.
LEMMA zRangeKept ==
    ASSUME NEW c \in Calls, c.op = "zRange", NEW d, KeyOK(d), d.type \in Asks(c)
    PROVE  Kept(c, d)
<1> DEFINE a == R!Direct(d, c)
           f == d.map
           rev == "reverse" \in c.opts
           slice == R!Part(Order(rev, f), c.args[1], c.args[2])
<1>1. c.op \in SortedSetOps /\ c.op \in Readers /\ R!Sends(c) /\ R!Simple(c.op) = "zrange"
  BY DEF SortedSetOps, HashOps, Readers, R!Methods, R!Simple, R!StringsAndHashes,
         R!SortedSetsAndLists, R!Sends
<1>2. a = R!SortedSetCommand(d, R!Command(c)) /\ R!Command(c).args = c.args /\ Scores(f)
  BY <1>1, SortedSetCall
<1>3. R!Command(c).cmd = IF rev THEN "zrevrange" ELSE "zrange"
  BY <1>1, CommandOf
<1>4. a = R!Answer(d, IF "WITHSCORES" \in R!Command(c).opts THEN R!Flat(f, slice) ELSE slice)
  <2>1. CASE rev
    BY <1>2, <1>3, <2>1 DEF R!SortedSetCommand, R!InOrder, Order
  <2>2. CASE ~rev
    BY <1>2, <1>3, <2>2 DEF R!SortedSetCommand, R!InOrder, Order
  <2> QED
    BY <2>1, <2>2
<1> HIDE DEF slice
<1>5. CASE "withScores" \in c.opts
  <2>1. R!Broken(c)
    BY <1>5 DEF R!Broken
  <2>2. a.after = d
    BY <1>4 DEF R!Answer
  <2> QED
    BY <1>1, <2>1, <2>2, BrokenReads
<1>6. CASE "withScores" \notin c.opts
  <2>1. R!Command(c).opts = {R!Spelled[o] : o \in c.opts \cap DOMAIN R!Spelled}
    BY CommandOf
  <2>2. "WITHSCORES" \notin R!Command(c).opts
    BY <1>6, <2>1 DEF R!Spelled
  <2>3. a = R!Answer(d, slice)
    BY <1>4, <2>2
  <2>4. c.args[1] \in Nat /\ c.args[2] \in Nat
    BY ArgumentsAssumption
  <2>5. c.args[2] \in Int /\ c.args[2] >= -1
    BY <2>4
  <2> HIDE DEF a, f
  <2>6. R!Lists(c, f, c.args[1], c.args[2], slice)
    BY <1>2, <2>4, <2>5, PartLists DEF slice
  <2>7. R!SortedSetGives(c, f, f, slice)
    BY <2>6 DEF R!SortedSetGives, R!Takers
  <2>8. R!Result(c, slice) = R!Gives(slice)
    BY <1>6 DEF R!Result
  <2> QED
    BY <1>1, <2>3, <2>7, <2>8, SortedSetReads DEF a, f
<1> QED
  BY <1>5, <1>6

\* zRangeByLex() keeps what it promises, or is Broken.
LEMMA zRangeByLexKept ==
    ASSUME NEW c \in Calls, c.op = "zRangeByLex", NEW d, KeyOK(d), d.type \in Asks(c)
    PROVE  Kept(c, d)
<1> DEFINE a == R!Direct(d, c)
           f == d.map
           rev == "reverse" \in c.opts
           from == c.args[1]
           to == c.args[2]
           interval == IF rev THEN to..from ELSE from..to
           g == R!Names({m \in DOMAIN f : m \in interval})
           listed == Order(rev, g)
           part == R!Part(listed, c.args[3], c.args[3] + c.args[4] - 1)
           r == IF "limit" \in c.opts THEN part ELSE listed
<1>1. c.op \in SortedSetOps /\ c.op \in Readers /\ R!Sends(c) /\ R!Simple(c.op) = "zrangebylex"
  BY DEF SortedSetOps, HashOps, Readers, R!Methods, R!Simple, R!StringsAndHashes,
         R!SortedSetsAndLists, R!Sends
<1>2. a = R!SortedSetCommand(d, R!Command(c)) /\ R!Command(c).args = c.args /\ FieldsOK(f)
  BY <1>1, SortedSetCall
<1>3. R!Command(c).cmd = IF rev THEN "zrevrangebylex" ELSE "zrangebylex"
  BY <1>1, CommandOf
<1>4. "LIMIT" \in R!Command(c).opts <=> "limit" \in c.opts
  <2>1. R!Command(c).opts = {R!Spelled[o] : o \in c.opts \cap DOMAIN R!Spelled}
    BY CommandOf
  <2> QED
    BY <2>1 DEF R!Spelled
<1>5. a = R!Answer(d, r)
  <2>1. CASE rev
    BY <1>2, <1>3, <1>4, <2>1 DEF R!SortedSetCommand, R!InOrder, Order
  <2>2. CASE ~rev
    BY <1>2, <1>3, <1>4, <2>2 DEF R!SortedSetCommand, R!InOrder, Order
  <2> QED
    BY <2>1, <2>2
<1> HIDE DEF r
<1>6. CASE rev /\ from # to
  <2>1. R!Broken(c)
    BY <1>6 DEF R!Broken
  <2>2. a.after = d
    BY <1>5 DEF R!Answer
  <2> QED
    BY <1>1, <2>1, <2>2, BrokenReads
<1>7. CASE ~rev \/ from = to
  <2> DEFINE between == DOMAIN f \cap from..to
  <2>1. {m \in DOMAIN f : m \in interval} = between
    BY <1>7
  <2>2. g = R!Names(between)
    BY <2>1
  <2>3. IsFiniteSet(between) /\ between \subseteq Int
    BY <1>2, FS_Subset DEF FieldsOK
  <2>4. Scores(g) /\ DOMAIN g = between
    <3> HIDE DEF between, g
    <3> QED
      BY <2>2, <2>3, NamesMean
  <2> HIDE DEF g, a, f
  <2>5. CASE "limit" \in c.opts
    <3>1. c.args[3] \in Nat /\ c.args[4] \in Nat
      BY <2>5, ArgumentsAssumption
    <3>2. c.args[3] + c.args[4] - 1 \in Int /\ c.args[3] + c.args[4] - 1 >= -1
      BY <3>1
    <3>3. R!Lists(c, g, c.args[3], c.args[3] + c.args[4] - 1, part)
      BY <2>4, <3>1, <3>2, PartLists
    <3>4. r = part
      BY <2>5 DEF r
    <3> HIDE DEF part
    <3>5. R!SortedSetGives(c, f, f, r)
      BY <2>2, <2>5, <3>3, <3>4 DEF R!SortedSetGives, R!Takers
    <3>6. R!Result(c, r) = R!Gives(r)
      BY DEF R!Result
    <3> QED
      BY <1>1, <1>5, <3>5, <3>6, SortedSetReads DEF a, f
  <2>6. CASE "limit" \notin c.opts
    <3>1. R!Lists(c, g, 0, Cardinality(between) - 1, listed)
      BY <2>4, AllLists
    <3>2. r = listed
      BY <2>6 DEF r
    <3> HIDE DEF listed
    <3>3. R!SortedSetGives(c, f, f, r)
      BY <2>2, <2>6, <3>1, <3>2, RedisCardinality DEF R!SortedSetGives, R!Takers
    <3>4. R!Result(c, r) = R!Gives(r)
      BY DEF R!Result
    <3> QED
      BY <1>1, <1>5, <3>3, <3>4, SortedSetReads DEF a, f
  <2> QED
    BY <2>5, <2>6
<1> QED
  BY <1>6, <1>7

\* zScore() keeps what it promises.
LEMMA zScoreKept ==
    ASSUME NEW c \in Calls, c.op = "zScore", NEW d, KeyOK(d), d.type \in Asks(c)
    PROVE  Kept(c, d)
<1> DEFINE a == R!Direct(d, c)
           f == d.map
           n == c.args[1]
           v == <<IF n \in DOMAIN f THEN f[n] ELSE R!NaN>>
<1>1. /\ c.op \in SortedSetOps /\ c.op \in Readers /\ R!Sends(c) /\ R!Simple(c.op) = "zscore"
      /\ c.op \notin DOMAIN R!Reversed
  BY DEF SortedSetOps, HashOps, Readers, R!Methods, R!Simple, R!StringsAndHashes,
         R!SortedSetsAndLists, R!Sends, R!Reversed
<1>2. /\ a = R!SortedSetCommand(d, R!Command(c)) /\ R!Command(c).args = c.args
      /\ R!Command(c).cmd = "zscore" /\ FieldsOK(f)
  BY <1>1, SortedSetCall
<1>3. a = R!Answer(d, <<R!ValueOf(f, n)>>)
  BY <1>2 DEF R!SortedSetCommand
<1>4. Amount \subseteq Nat /\ (n \in DOMAIN f => f[n] \in Amount)
  BY <1>2, ArgumentsAssumption DEF FieldsOK
<1>5. R!Result(c, <<R!ValueOf(f, n)>>) = R!Gives(<<R!parseFloat(R!ValueOf(f, n))>>)
  BY DEF R!Result
<1>6. R!parseFloat(R!ValueOf(f, n)) = IF n \in DOMAIN f THEN f[n] ELSE R!NaN
  BY <1>4 DEF R!parseFloat, R!ValueOf, R!NaN, R!Nil
<1>7. R!Result(c, <<R!ValueOf(f, n)>>) = R!Gives(v)
  BY <1>5, <1>6
<1>8. R!SortedSetGives(c, f, f, v)
  BY DEF R!SortedSetGives, R!Takers
<1> HIDE DEF v
<1> QED
  BY <1>1, <1>3, <1>7, <1>8, SortedSetReads

\* zRangeByScore(), zScan(), zUnion() and zIntersect() leave the sorted set.
LEMMA BrokenReadsKept ==
    ASSUME NEW c \in Calls, c.op \in {"zRangeByScore", "zScan", "zUnion", "zIntersect"},
           NEW d, KeyOK(d), d.type \in Asks(c), R!Sends(c)
    PROVE  Kept(c, d)
<1>1. c.op \in SortedSetOps /\ c.op \in Readers /\ R!Broken(c)
  BY DEF SortedSetOps, HashOps, Readers, R!Methods, R!StringsAndHashes, R!SortedSetsAndLists,
         R!Broken
<1>2. R!Direct(d, c) = R!SortedSetCommand(d, R!Command(c))
  BY <1>1, SortedSetCall
<1>3. /\ R!Simple("zRangeByScore") = "zrangebyscore" /\ R!Simple("zScan") = "zscan"
      /\ R!Simple("zUnion") = "zunionstore" /\ R!Simple("zIntersect") = "zinterstore"
  BY DEF R!Simple, R!StringsAndHashes, R!SortedSetsAndLists
<1>4. R!Command(c).cmd \in {"zrangebyscore", "zrevrangebyscore", "zscan", "zunionstore", "zinterstore"}
  BY <1>3, CommandOf
<1>5. R!Direct(d, c).after = d
  <2>1. CASE R!Command(c).cmd \in {"zrangebyscore", "zrevrangebyscore"}
    BY <1>2, <2>1 DEF R!SortedSetCommand, R!Answer
  <2>2. CASE R!Command(c).cmd = "zscan"
    BY <1>2, <2>2 DEF R!SortedSetCommand, R!Answer, R!Fails
  <2>3. CASE R!Command(c).cmd \in {"zunionstore", "zinterstore"}
    BY <1>2, <2>3 DEF R!SortedSetCommand, R!Fails
  <2> QED
    BY <1>4, <2>1, <2>2, <2>3
<1> QED
  BY <1>1, <1>5, BrokenReads

\* A method that takes members T away keeps what it promises with how many it gives.
LEMMA TakingKeeps ==
    ASSUME NEW c \in Calls, c.op \in SortedSetOps, c.op \in R!Takers, NEW d, KeyOK(d),
           d.type \in Asks(c), R!Sends(c), NEW T, R!Direct(d, c) = R!Deletes(d, T),
           T \cap DOMAIN d.map = R!Taken(c, d.map) \cap DOMAIN d.map,
           \A r : R!Result(c, r) = R!Gives(r)
    PROVE  Kept(c, d)
<1> DEFINE a == R!Direct(d, c)
           count == Cardinality(DOMAIN d.map) - Cardinality(DOMAIN a.after.map)
<1>1. OfType("zset", d) /\ R!TypeOf(R!Simple(c.op)) = "zset"
  BY SortedSetCall
<1>2. /\ a.ok /\ KeyOK(a.after) /\ a.after = R!Stored("zset", R!Without(d.map, T))
      /\ a.reply = <<count>>
  BY <1>1, DeletesOK
<1>3. R!Without(d.map, T) = R!Without(d.map, R!Taken(c, d.map))
  BY SameWithout
<1>4. R!Leaves(c, d) = R!Stored("zset", R!Without(d.map, R!Taken(c, d.map)))
  BY <1>1 DEF R!Leaves, R!Takers
<1> HIDE DEF a, count
<1>5. R!Outcome(c, a) = R!Gives(<<count>>)
  BY <1>2 DEF R!Outcome
<1>6. R!SortedSetGives(c, d.map, a.after.map, <<count>>)
  BY RedisCardinality DEF R!SortedSetGives, R!Takers, count
<1>7. ~R!Misses(c, d.map)
  BY OthersMissNothing DEF R!Takers
<1> QED
  BY <1>2, <1>3, <1>4, <1>5, <1>6, <1>7, SortedSetReturns, GivingKeeps DEF a

\* zRemove(), zRemoveRangeByLex(), zRemoveRangeByRank() and zRemoveRangeByScore() do.
LEMMA zRemoveKept ==
    ASSUME NEW c \in Calls, NEW d, KeyOK(d), d.type \in Asks(c),
           c.op \in {"zRemove", "zRemoveRangeByLex", "zRemoveRangeByRank", "zRemoveRangeByScore"}
    PROVE  Kept(c, d)
<1> DEFINE a == R!Direct(d, c)
           cmd == R!Command(c)
           f == d.map
           between == c.args[1]..c.args[2]
<1>1. /\ c.op \in SortedSetOps /\ c.op \in R!Takers /\ R!Sends(c)
      /\ c.op \notin DOMAIN R!Reversed
  BY DEF SortedSetOps, HashOps, R!Methods, R!StringsAndHashes, R!SortedSetsAndLists, R!Takers,
         R!Sends, R!Reversed
<1>2. /\ a = R!SortedSetCommand(d, cmd) /\ cmd.args = c.args /\ cmd.cmd = R!Simple(c.op)
      /\ Scores(f)
  BY <1>1, SortedSetCall
<1>3. \A r : R!Result(c, r) = R!Gives(r)
  BY DEF R!Result
<1> HIDE DEF cmd
<1>4. CASE c.op = "zRemove"
  <2>1. cmd.cmd = "zrem"
    BY <1>2, <1>4 DEF R!Simple, R!StringsAndHashes, R!SortedSetsAndLists
  <2>2. a = R!Deletes(d, R!Range(c.args))
    BY <1>2, <2>1 DEF R!SortedSetCommand
  <2>3. R!Taken(c, f) = R!Range(c.args)
    BY <1>4 DEF R!Taken
  <2> QED
    BY <1>1, <1>3, <2>2, <2>3, TakingKeeps
<1>5. CASE c.op = "zRemoveRangeByLex"
  <2> DEFINE T == {m \in DOMAIN f : m \in between}
  <2>1. cmd.cmd = "zremrangebylex"
    BY <1>2, <1>5 DEF R!Simple, R!StringsAndHashes, R!SortedSetsAndLists
  <2>2. a = R!Deletes(d, T)
    BY <1>2, <2>1 DEF R!SortedSetCommand
  <2>3. R!Taken(c, f) = between
    BY <1>5 DEF R!Taken
  <2>4. T \cap DOMAIN f = R!Taken(c, f) \cap DOMAIN f
    BY <2>3
  <2> HIDE DEF T
  <2> QED
    BY <1>1, <1>3, <2>2, <2>4, TakingKeeps
<1>6. CASE c.op = "zRemoveRangeByScore"
  <2> DEFINE T == {m \in DOMAIN f : f[m] \in between}
  <2>1. cmd.cmd = "zremrangebyscore"
    BY <1>2, <1>6 DEF R!Simple, R!StringsAndHashes, R!SortedSetsAndLists
  <2>2. a = R!Deletes(d, T)
    BY <1>2, <2>1 DEF R!SortedSetCommand
  <2>3. R!Taken(c, f) = T
    BY <1>6 DEF R!Taken
  <2> HIDE DEF T
  <2> QED
    BY <1>1, <1>3, <2>2, <2>3, TakingKeeps
<1>7. CASE c.op = "zRemoveRangeByRank"
  <2> DEFINE part == R!Part(Order(FALSE, f), c.args[1], c.args[2])
             T == R!Range(part)
  <2>1. cmd.cmd = "zremrangebyrank"
    BY <1>2, <1>7 DEF R!Simple, R!StringsAndHashes, R!SortedSetsAndLists
  <2>2. a = R!Deletes(d, T)
    BY <1>2, <2>1 DEF R!SortedSetCommand, R!InOrder, Order
  <2>3. c.args[1] \in Nat /\ c.args[2] \in Nat
    BY <1>7, ArgumentsAssumption
  <2>4. HasPlaces(FALSE, f, c.args[1], c.args[2], part)
    <3>1. c.args[2] \in Int /\ c.args[2] >= -1
      BY <2>3
    <3> HIDE DEF f
    <3> QED
      BY <1>2, <2>3, <3>1, PartMeans
  <2> HIDE DEF part
  <2>5. T = R!Taken(c, f)
    BY <1>7, <2>4 DEF HasPlaces, RankIn, R!Taken
  <2> HIDE DEF T
  <2> QED
    BY <1>1, <1>3, <2>2, <2>5, TakingKeeps
<1> QED
  BY <1>4, <1>5, <1>6, <1>7

\* zPopMin(), zPopMax(), zBlockPopMin() and zBlockPopMax() take what they are to take.
LEMMA PopKeeps ==
    ASSUME NEW c \in Calls, NEW d, KeyOK(d), d.type \in Asks(c), R!Sends(c),
           c.op \in {"zPopMin", "zPopMax", "zBlockPopMin", "zBlockPopMax"},
           NEW T, R!Direct(d, c).after = R!Stored("zset", R!Without(d.map, T)),
           T = R!Taken(c, d.map)
    PROVE  Kept(c, d)
<1>1. c.op \in SortedSetOps /\ c.op \in R!Takers /\ R!Broken(c)
  BY DEF SortedSetOps, HashOps, R!Methods, R!StringsAndHashes, R!SortedSetsAndLists, R!Takers,
         R!Broken
<1>2. OfType("zset", d) /\ R!TypeOf(R!Simple(c.op)) = "zset"
  BY <1>1, SortedSetCall
<1>3. KeyOK(R!Direct(d, c).after)
  <2>1. KeyOK(R!Stored("zset", R!Without(d.map, T)))
    BY <1>2, StoredWithout
  <2> QED
    BY <2>1
<1>4. R!Leaves(c, d) = R!Stored("zset", R!Without(d.map, T))
  BY <1>1, <1>2 DEF R!Leaves, R!Takers
<1> QED
  BY <1>1, <1>3, <1>4, BrokenKeeps

LEMMA zPopKept ==
    ASSUME NEW c \in Calls, NEW d, KeyOK(d), d.type \in Asks(c), c.op \in {"zPopMin", "zPopMax"}
    PROVE  Kept(c, d)
<1> DEFINE a == R!Direct(d, c)
           cmd == R!Command(c)
           f == d.map
           rev == c.op = "zPopMax"
           part == R!Part(Order(rev, f), 0, c.args[1] - 1)
           T == R!Range(part)
<1>1. c.op \in SortedSetOps /\ R!Sends(c) /\ c.op \notin DOMAIN R!Reversed
  BY DEF SortedSetOps, HashOps, R!Methods, R!StringsAndHashes, R!SortedSetsAndLists, R!Sends,
         R!Reversed
<1>2. /\ a = R!SortedSetCommand(d, cmd) /\ cmd.args = c.args /\ cmd.cmd = R!Simple(c.op)
      /\ Scores(f)
  BY <1>1, SortedSetCall
<1>3. cmd.cmd = IF rev THEN "zpopmax" ELSE "zpopmin"
  BY <1>2 DEF R!Simple, R!StringsAndHashes, R!SortedSetsAndLists
<1> HIDE DEF cmd
<1>4. a = R!Answer(R!Stored("zset", R!Without(f, T)), R!Flat(f, part))
  <2>1. CASE rev
    BY <1>2, <1>3, <2>1 DEF R!SortedSetCommand, R!InOrder, Order
  <2>2. CASE ~rev
    BY <1>2, <1>3, <2>2 DEF R!SortedSetCommand, R!InOrder, Order
  <2> QED
    BY <2>1, <2>2
<1>5. a.after = R!Stored("zset", R!Without(f, T))
  BY <1>4 DEF R!Answer
<1>6. c.args[1] \in Nat
  BY ArgumentsAssumption
<1> HIDE DEF rev
<1>7. HasPlaces(rev, f, 0, c.args[1] - 1, part)
  <2>1. c.args[1] - 1 \in Int /\ c.args[1] - 1 >= -1
    BY <1>6
  <2> HIDE DEF f
  <2> QED
    BY <1>2, <2>1, PartMeans
<1> HIDE DEF part
<1>8. \A m \in DOMAIN f : RankIn(rev, f, m) \in Int /\ RankIn(rev, f, m) >= 0
  BY <1>2, RanksMean
<1>9. T = {m \in DOMAIN f : RankIn(rev, f, m) < c.args[1]}
  BY <1>6, <1>7, <1>8 DEF HasPlaces
<1>10. T = R!Taken(c, f)
  <2> HIDE DEF T
  <2>1. CASE c.op = "zPopMin"
    BY <1>9, <2>1 DEF R!Taken, RankIn, rev
  <2>2. CASE c.op = "zPopMax"
    BY <1>9, <2>2, RedisCardinality DEF R!Taken, RankIn, rev
  <2> QED
    BY <2>1, <2>2
<1> HIDE DEF T
<1> QED
  BY <1>1, <1>5, <1>10, PopKeeps

LEMMA zBlockPopKept ==
    ASSUME NEW c \in Calls, NEW d, KeyOK(d), d.type \in Asks(c),
           c.op \in {"zBlockPopMin", "zBlockPopMax"}
    PROVE  Kept(c, d)
<1> DEFINE a == R!Direct(d, c)
           cmd == R!Command(c)
           f == d.map
           rev == c.op = "zBlockPopMax"
           s == Order(rev, f)
           n == Cardinality(DOMAIN f)
           T == {m \in DOMAIN f : RankIn(rev, f, m) = 0}
<1>1. c.op \in SortedSetOps /\ R!Sends(c) /\ c.op \notin DOMAIN R!Reversed
  BY DEF SortedSetOps, HashOps, R!Methods, R!StringsAndHashes, R!SortedSetsAndLists, R!Sends,
         R!Reversed
<1>2. /\ a = R!SortedSetCommand(d, cmd) /\ cmd.cmd = R!Simple(c.op)
      /\ Scores(f) /\ OfType("zset", d)
  BY <1>1, SortedSetCall
<1>3. cmd.cmd = IF rev THEN "bzpopmax" ELSE "bzpopmin"
  BY <1>2 DEF R!Simple, R!StringsAndHashes, R!SortedSetsAndLists
<1> HIDE DEF cmd
<1>4. a.after = IF s = <<>> THEN d ELSE R!Stored("zset", R!Without(f, {s[1]}))
  <2>1. CASE rev
    BY <1>2, <1>3, <2>1 DEF R!SortedSetCommand, R!InOrder, Order, R!Answer
  <2>2. CASE ~rev
    BY <1>2, <1>3, <2>2 DEF R!SortedSetCommand, R!InOrder, Order, R!Answer
  <2> QED
    BY <2>1, <2>2
<1>5. T = R!Taken(c, f)
  <2>1. CASE c.op = "zBlockPopMin"
    BY <2>1 DEF R!Taken, RankIn
  <2>2. CASE c.op = "zBlockPopMax"
    BY <2>2, RedisCardinality DEF R!Taken, RankIn
  <2> QED
    BY <2>1, <2>2
<1> HIDE DEF rev
<1>6. n \in Nat /\ IsOrder(rev, f, s)
  BY <1>2, OrderMeans
<1> HIDE DEF s, n, a
<1>7. /\ s \in [1..n -> DOMAIN f] /\ \A i \in 1..n : RankIn(rev, f, s[i]) = i - 1
      /\ \A m \in DOMAIN f : \E i \in 1..n : s[i] = m
  BY <1>6 DEF IsOrder, n
<1>8. a.after = R!Stored("zset", R!Without(f, T))
  <2>1. CASE s = <<>>
    <3>1. n = 0
      BY <1>6, <1>7, <2>1
    <3>2. DOMAIN f = {}
      BY <1>7, <3>1
    <3>3. T \cap DOMAIN f = {}
      BY <3>2
    <3> HIDE DEF T
    <3>4. R!Stored("zset", R!Without(f, T)) = d
      BY <1>2, <3>3, NoneTaken
    <3> QED
      BY <1>4, <2>1, <3>4
  <2>2. CASE s # <<>>
    <3>1. n > 0
      BY <1>6, <1>7, <2>2
    <3>2. s[1] \in T /\ \A m \in T : m = s[1]
      <4>1. 1 \in 1..n /\ s[1] \in DOMAIN f /\ RankIn(rev, f, s[1]) = 0
        BY <1>6, <1>7, <3>1
      <4>2. ASSUME NEW m \in T PROVE m = s[1]
        <5>1. PICK i \in 1..n : s[i] = m
          BY <1>7
        <5>2. i - 1 = 0
          BY <1>7, <5>1
        <5> QED
          BY <5>1, <5>2
      <4> QED
        BY <4>1, <4>2
    <3> HIDE DEF T
    <3>3. T = {s[1]}
      BY <3>2
    <3> QED
      BY <1>4, <2>2, <3>3
  <2> QED
    BY <2>1, <2>2
<1> HIDE DEF T
<1> QED
  BY <1>1, <1>5, <1>8, PopKeeps DEF a

\* ZADD with the options opts, of the score v of a member n that it finds in f.
BlockedBy(opts, f, n) == ("XX" \in opts /\ n \notin DOMAIN f) \/ ("NX" \in opts /\ n \in DOMAIN f)
ScoreBy(opts, f, n, v) == IF "INCR" \in opts /\ n \in DOMAIN f THEN f[n] + v ELSE v
ChangedBy(opts, f, n, score) ==
    n \notin DOMAIN f \/ ("CH" \in opts /\ f[n] # score)

\* AddScore: what it leaves and answers.
LEMMA AddScoreMeans ==
    ASSUME NEW d, NEW cmd, NEW v, NEW n, cmd.args = <<v, n>>
    PROVE  /\ R!AddScore(d, cmd).ok
           /\ BlockedBy(cmd.opts, d.map, n) =>
                 /\ R!AddScore(d, cmd).after = d
                 /\ R!AddScore(d, cmd).reply = <<IF "INCR" \in cmd.opts THEN R!Nil ELSE 0>>
           /\ ~BlockedBy(cmd.opts, d.map, n) =>
                 /\ R!AddScore(d, cmd).after =
                      R!Stored("zset", R!Put(d.map, n, ScoreBy(cmd.opts, d.map, n, v)))
                 /\ "INCR" \in cmd.opts =>
                      R!AddScore(d, cmd).reply = <<ScoreBy(cmd.opts, d.map, n, v)>>
                 /\ "INCR" \notin cmd.opts =>
                      R!AddScore(d, cmd).reply =
                        <<R!Bit(ChangedBy(cmd.opts, d.map, n, ScoreBy(cmd.opts, d.map, n, v)))>>
<1> DEFINE a == R!AddScore(d, cmd)
           f == d.map
           score == ScoreBy(cmd.opts, f, n, v)
           changed == IF "CH" \in cmd.opts THEN n \notin DOMAIN f \/ f[n] # score
                      ELSE n \notin DOMAIN f
<1>1. cmd.args[1] = v /\ cmd.args[2] = n
  OBVIOUS
<1>2. BlockedBy(cmd.opts, f, n) => a = R!Answer(d, <<IF "INCR" \in cmd.opts THEN R!Nil ELSE 0>>)
  BY <1>1 DEF R!AddScore, BlockedBy
<1>3. ~BlockedBy(cmd.opts, f, n) =>
        a = R!Answer(R!Stored("zset", R!Put(f, n, score)),
                     <<IF "INCR" \in cmd.opts THEN score ELSE R!Bit(changed)>>)
  BY <1>1 DEF R!AddScore, BlockedBy, ScoreBy
<1>4. R!Bit(changed) = R!Bit(ChangedBy(cmd.opts, f, n, score))
  BY DEF ChangedBy, R!Bit
<1> HIDE DEF a, f, score, changed
<1>5. ASSUME BlockedBy(cmd.opts, f, n)
      PROVE  a.ok /\ a.after = d /\ a.reply = <<IF "INCR" \in cmd.opts THEN R!Nil ELSE 0>>
  BY <1>2, <1>5 DEF R!Answer
<1>6. ASSUME ~BlockedBy(cmd.opts, f, n)
      PROVE  /\ a.ok /\ a.after = R!Stored("zset", R!Put(f, n, score))
             /\ "INCR" \in cmd.opts => a.reply = <<score>>
             /\ "INCR" \notin cmd.opts => a.reply = <<R!Bit(ChangedBy(cmd.opts, f, n, score))>>
  BY <1>3, <1>4, <1>6 DEF R!Answer
<1> QED
  BY <1>5, <1>6 DEF a, f, score

\* ZADD adds a score with its options.
LEMMA AddCommand ==
    ASSUME NEW d, NEW cmd, cmd.cmd = "zadd"
    PROVE  R!SortedSetCommand(d, cmd) = R!AddScore(d, cmd)
BY DEF R!SortedSetCommand

\* ZINCRBY adds one to the score that is there.
LEMMA IncrementCommand ==
    ASSUME NEW d, NEW cmd, cmd.cmd = "zincrby"
    PROVE  R!SortedSetCommand(d, cmd) = R!AddScore(d, [cmd EXCEPT !.opts = {"INCR"}])
BY DEF R!SortedSetCommand

\* A score that was added is what is to be left.
LEMMA AddingLeaves ==
    ASSUME NEW c \in Calls, c.op \in {"zAdd", "zIncrement"}, NEW d, KeyOK(d), d.type \in Asks(c),
           R!Sends(c), NEW v \in Amount, NEW n \in Name, c.args = <<v, n>>, NEW cmd,
           cmd.args = <<v, n>>, R!InRange(R!AddScore(d, cmd).after),
           "INCR" \in cmd.opts <=> c.op = "zIncrement" \/ "increment" \in c.opts,
           R!MayAdd(c, d.map) <=> ~BlockedBy(cmd.opts, d.map, n)
    PROVE  /\ KeyOK(R!AddScore(d, cmd).after)
           /\ R!AddScore(d, cmd).after = R!Leaves(c, d)
           /\ ~BlockedBy(cmd.opts, d.map, n) =>
                 /\ R!AddScore(d, cmd).after.map =
                      R!Put(d.map, n, ScoreBy(cmd.opts, d.map, n, v))
                 /\ R!AddScore(d, cmd).after.map[n] = ScoreBy(cmd.opts, d.map, n, v)
                 /\ R!AddScore(d, cmd).after.type = "zset"
<1> DEFINE a == R!AddScore(d, cmd)
           f == d.map
           score == ScoreBy(cmd.opts, f, n, v)
<1>1. c.op \in SortedSetOps /\ c.args[1] = v /\ c.args[2] = n
  BY DEF SortedSetOps, HashOps, R!Methods, R!StringsAndHashes, R!SortedSetsAndLists
<1>2. FieldsOK(f) /\ R!TypeOf(R!Simple(c.op)) = "zset"
  BY <1>1, SortedSetCall
<1>3. n \in Int /\ v \in Int /\ Amount \subseteq Int
  BY ArgumentsAssumption
<1>4. n \in DOMAIN f => f[n] \in Int
  BY <1>2, <1>3 DEF FieldsOK
<1>5. CASE BlockedBy(cmd.opts, f, n)
  <2>1. a.after = d
    BY <1>5, AddScoreMeans
  <2>2. R!Leaves(c, d) = d
    BY <1>5 DEF R!Leaves, R!Takers
  <2> QED
    BY <1>5, <2>1, <2>2
<1>6. CASE ~BlockedBy(cmd.opts, f, n)
  <2>1. a.after = R!Stored("zset", R!Put(f, n, score))
    BY <1>6, AddScoreMeans
  <2>2. KeyOK(a.after) /\ a.after.map = R!Put(f, n, score) /\ a.after.map[n] = score
    <3> HIDE DEF score
    <3> QED
      BY <1>2, <1>3, <2>1, StoredPut
  <2>3. R!NewScore(c, f) = score
    BY <1>1, <1>3, <1>4 DEF R!NewScore, ScoreBy
  <2>4. R!Leaves(c, d) = R!Stored("zset", R!Put(f, n, R!NewScore(c, f)))
    BY <1>1, <1>2, <1>6 DEF R!Leaves, R!Takers
  <2>5. a.after.type = "zset"
    <3>1. DOMAIN R!Put(f, n, score) # {}
      BY DEF R!Put
    <3> QED
      BY <2>1, <3>1 DEF R!Stored
  <2> HIDE DEF a, score
  <2> QED
    BY <1>6, <2>1, <2>2, <2>3, <2>4, <2>5 DEF a, score
<1> QED
  BY <1>5, <1>6

\* zAdd() keeps what it promises.
LEMMA zAddKept ==
    ASSUME NEW c \in Calls, c.op = "zAdd", NEW d, KeyOK(d), d.type \in Asks(c),
           R!InRange(R!Direct(d, c).after)
    PROVE  Kept(c, d)
<1>1. /\ c.op \in SortedSetOps /\ c.op \notin DOMAIN R!Reversed /\ R!Sends(c)
      /\ R!Simple(c.op) = "zadd"
  BY DEF SortedSetOps, HashOps, R!Methods, R!StringsAndHashes, R!SortedSetsAndLists, R!Simple,
         R!Reversed, R!Sends
<1> DEFINE a == R!Direct(d, c)
           cmd == R!Command(c)
           f == d.map
           g == a.after.map
<1>2. a = R!SortedSetCommand(d, cmd) /\ cmd.args = c.args /\ cmd.cmd = "zadd"
  BY <1>1, SortedSetCall
<1>3. a = R!AddScore(d, cmd)
  BY <1>2, AddCommand
<1>4. PICK v \in Amount, n \in Name : c.args = <<v, n>>
  <2>1. c.args \in {<<v, n>> : v \in Amount, n \in Name}
    BY ArgumentsAssumption
  <2> QED
    BY <2>1
<1>5. c.args[2] = n
  BY <1>4
<1>6. /\ "XX" \in cmd.opts <=> "updateOnly" \in c.opts
      /\ "NX" \in cmd.opts <=> "addOnly" \in c.opts
      /\ "INCR" \in cmd.opts <=> "increment" \in c.opts
      /\ "CH" \in cmd.opts <=> "returnChanged" \in c.opts
  <2>1. cmd.opts = {R!Spelled[o] : o \in c.opts \cap DOMAIN R!Spelled}
    BY CommandOf
  <2> HIDE DEF cmd
  <2> QED
    BY <2>1 DEF R!Spelled
<1> DEFINE blocked == BlockedBy(cmd.opts, f, n)
           score == ScoreBy(cmd.opts, f, n, v)
           changed == ChangedBy(cmd.opts, f, n, score)
<1>7. R!MayAdd(c, f) <=> ~blocked
  BY <1>5, <1>6 DEF R!MayAdd, BlockedBy
<1> HIDE DEF cmd
<1>8. /\ a.ok
      /\ blocked => a.after = d /\ a.reply = <<IF "INCR" \in cmd.opts THEN R!Nil ELSE 0>>
      /\ ~blocked /\ "INCR" \in cmd.opts => a.reply = <<score>>
      /\ ~blocked /\ "INCR" \notin cmd.opts => a.reply = <<R!Bit(changed)>>
  BY <1>2, <1>3, <1>4, AddScoreMeans
<1>9. /\ KeyOK(a.after) /\ a.after = R!Leaves(c, d)
      /\ ~blocked => g = R!Put(f, n, score) /\ g[n] = score
  <2>1. cmd.args = <<v, n>> /\ R!InRange(R!AddScore(d, cmd).after)
    BY <1>2, <1>3, <1>4
  <2>2. "INCR" \in cmd.opts <=> c.op = "zIncrement" \/ "increment" \in c.opts
    BY <1>6
  <2> HIDE DEF a, blocked, score
  <2> QED
    BY <1>1, <1>3, <1>4, <1>7, <2>1, <2>2, AddingLeaves DEF blocked, score
<1> HIDE DEF a, score
<1>10. R!Outcome(c, a) = R!Gives(a.reply)
  BY <1>8 DEF R!Outcome, R!Result
<1>11. R!SortedSetGives(c, f, g, a.reply)
  <2>1. CASE "increment" \in c.opts
    <3>1. a.reply = <<IF R!MayAdd(c, f) THEN g[n] ELSE R!Nil>>
      BY <1>6, <1>7, <1>8, <1>9, <2>1
    <3> HIDE DEF f, g
    <3> QED
      BY <1>5, <2>1, <3>1 DEF R!SortedSetGives, R!Takers
  <2>2. CASE "increment" \notin c.opts
    <3> DEFINE New(m) == m \notin DOMAIN f \/ ("returnChanged" \in c.opts /\ g[m] # f[m])
               N == {m \in DOMAIN g : New(m)}
    <3>1. a.reply = <<Cardinality(N)>>
      <4>1. CASE blocked
        <5>1. N = {}
          BY <1>8, <4>1
        <5>2. Cardinality(N) = 0
          BY <5>1, FS_EmptySet
        <5> QED
          BY <1>6, <1>8, <2>2, <4>1, <5>2
      <4>2. CASE ~blocked
        <5>1. DOMAIN g = DOMAIN f \cup {n} /\ \A m \in DOMAIN f : m # n => g[m] = f[m]
          BY <1>9, <4>2 DEF R!Put
        <5>2. n \in N <=> changed
          BY <1>6, <1>9, <4>2, <5>1 DEF ChangedBy
        <5>3. N \subseteq {n}
          BY <5>1
        <5> HIDE DEF N, changed
        <5>4. CASE changed
          <6>1. N = {n}
            BY <5>2, <5>3, <5>4
          <6>2. Cardinality(N) = 1
            BY <6>1, FS_Singleton
          <6> QED
            BY <1>6, <1>8, <2>2, <4>2, <5>4, <6>2 DEF R!Bit
        <5>5. CASE ~changed
          <6>1. N = {}
            BY <5>2, <5>3, <5>5
          <6>2. Cardinality(N) = 0
            BY <6>1, FS_EmptySet
          <6> QED
            BY <1>6, <1>8, <2>2, <4>2, <5>5, <6>2 DEF R!Bit
        <5> QED
          BY <5>4, <5>5
      <4> QED
        BY <4>1, <4>2
    <3>2. a.reply = <<R!Cardinality(N)>>
      BY <3>1, RedisCardinality
    <3> HIDE DEF f, g
    <3> QED
      BY <2>2, <3>2 DEF R!SortedSetGives, R!Takers
  <2> QED
    BY <2>1, <2>2
<1>12. ~R!Misses(c, f)
  BY OthersMissNothing
<1>13. R!Returns(c, d, a.after, a.reply)
  BY <1>1, <1>11, SortedSetReturns
<1> QED
  BY <1>1, <1>9, <1>10, <1>12, <1>13, GivingKeeps DEF a

\* zIncrement() keeps what it promises.
LEMMA zIncrementKept ==
    ASSUME NEW c \in Calls, c.op = "zIncrement", NEW d, KeyOK(d), d.type \in Asks(c),
           R!InRange(R!Direct(d, c).after)
    PROVE  Kept(c, d)
<1>1. /\ c.op \in SortedSetOps /\ c.op \notin DOMAIN R!Reversed /\ R!Sends(c)
      /\ R!Simple(c.op) = "zincrby"
  BY DEF SortedSetOps, HashOps, R!Methods, R!StringsAndHashes, R!SortedSetsAndLists, R!Simple,
         R!Reversed, R!Sends
<1> DEFINE a == R!Direct(d, c)
           cmd == [R!Command(c) EXCEPT !.opts = {"INCR"}]
           f == d.map
           g == a.after.map
<1>2. a = R!SortedSetCommand(d, R!Command(c)) /\ R!Command(c).args = c.args
      /\ R!Command(c).cmd = "zincrby"
  BY <1>1, SortedSetCall
<1>3. a = R!AddScore(d, cmd)
  BY <1>2, IncrementCommand
<1>4. PICK v \in Amount, n \in Name : c.args = <<v, n>>
  <2>1. c.args \in {<<v, n>> : v \in Amount, n \in Name}
    BY ArgumentsAssumption
  <2> QED
    BY <2>1
<1>5. c.args[2] = n /\ c.opts = {}
  BY <1>4, ArgumentsAssumption
<1>6. cmd.opts = {"INCR"} /\ cmd.args = <<v, n>>
  BY <1>2, <1>4 DEF R!Command
<1> HIDE DEF cmd
<1> DEFINE score == ScoreBy(cmd.opts, f, n, v)
<1>7. ~BlockedBy(cmd.opts, f, n) /\ R!MayAdd(c, f)
  BY <1>5, <1>6 DEF BlockedBy, R!MayAdd
<1>8. a.ok /\ a.reply = <<score>>
  <2>1. "INCR" \in cmd.opts /\ cmd.args = <<v, n>>
    BY <1>6
  <2>2. R!AddScore(d, cmd).ok /\ R!AddScore(d, cmd).reply = <<score>>
    BY <1>7, <2>1, AddScoreMeans
  <2> HIDE DEF a, score
  <2> QED
    BY <1>3, <2>2
<1>9. KeyOK(a.after) /\ a.after = R!Leaves(c, d) /\ g[n] = score /\ a.after.type = "zset"
      /\ g = R!Put(f, n, score)
  <2>1. R!InRange(R!AddScore(d, cmd).after)
    BY <1>3
  <2>2. "INCR" \in cmd.opts <=> c.op = "zIncrement" \/ "increment" \in c.opts
    BY <1>6
  <2>3. cmd.args = <<v, n>> /\ (R!MayAdd(c, f) <=> ~BlockedBy(cmd.opts, f, n))
    BY <1>6, <1>7
  <2> DEFINE b == R!AddScore(d, cmd)
  <2>4. /\ KeyOK(b.after) /\ b.after = R!Leaves(c, d) /\ b.after.type = "zset"
        /\ b.after.map = R!Put(f, n, score) /\ b.after.map[n] = score
    BY <1>1, <1>4, <1>7, <2>1, <2>2, <2>3, AddingLeaves
  <2> HIDE DEF a, score
  <2> QED
    BY <1>3, <2>4
<1> HIDE DEF a, score
<1>10. score \in Amount
  <2>1. FieldsOK(g)
    BY <1>9 DEF KeyOK
  <2>2. n \in DOMAIN g
    BY <1>9 DEF R!Put
  <2> QED
    BY <1>9, <2>1, <2>2 DEF FieldsOK
<1>11. R!Outcome(c, a) = R!Gives(<<score>>)
  <2>1. R!Outcome(c, a) = R!Gives(<<R!parseFloat(score)>>)
    BY <1>8 DEF R!Outcome, R!Result
  <2> QED
    BY <1>10, <2>1 DEF R!parseFloat
<1>12. R!SortedSetGives(c, f, g, <<score>>)
  BY <1>5, <1>7, <1>9 DEF R!SortedSetGives, R!Takers
<1>13. ~R!Misses(c, f)
  BY OthersMissNothing
<1>14. R!Returns(c, d, a.after, <<score>>)
  BY <1>1, <1>12, SortedSetReturns
<1> QED
  BY <1>1, <1>9, <1>11, <1>13, <1>14, GivingKeeps DEF a

-----------------------------------------------------------------------------
(* TypedRedis: the methods of strings and lists, and all of them.              *)

\* exists() keeps what it promises.
LEMMA existsKept ==
    ASSUME NEW c \in Calls, c.op = "exists", NEW d, KeyOK(d), d.type \in Asks(c)
    PROVE  Kept(c, d)
<1> DEFINE a == R!Direct(d, c)
           v == <<R!Bit(d # R!Nothing)>>
<1>1. R!Command(c).cmd = "exists" /\ R!Sends(c) /\ c.op \in Readers
  BY CommandOf DEF R!Simple, R!StringsAndHashes, R!Sends, Readers
<1>2. a = R!Answer(d, v)
  BY <1>1 DEF R!Direct, R!Server
<1>3. R!Returns(c, d, d, v)
  BY DEF R!Returns
<1> HIDE DEF v
<1>4. a.ok /\ a.after = d /\ a.reply = v
  BY <1>2 DEF R!Answer
<1>5. R!Outcome(c, a) = R!Gives(v)
  BY <1>4 DEF R!Outcome, R!Result
<1>6. ~R!Misses(c, d.map)
  BY OthersMissNothing
<1> QED
  BY <1>1, <1>3, <1>4, <1>5, <1>6, ReadingKeeps

\* get() leaves the string.
LEMMA getKept ==
    ASSUME NEW c \in Calls, c.op = "get", NEW d, KeyOK(d), d.type \in Asks(c)
    PROVE  Kept(c, d)
<1>1. R!Command(c).cmd = "get" /\ R!Command(c).args = <<R!Undefined>>
  BY CommandOf DEF R!Simple, R!StringsAndHashes
<1>2. R!Sends(c) /\ c.op \in Readers /\ R!Broken(c)
  BY DEF R!Sends, Readers, R!Broken
<1>3. R!Direct(d, c) = R!TypedCommand(d, R!Command(c))
  BY <1>2, OwnType
<1>4. R!TypedCommand(d, R!Command(c)) = R!Fails(d)
  BY <1>1 DEF R!TypedCommand, R!TypeOf
<1>5. R!Direct(d, c).after = d
  BY <1>3, <1>4 DEF R!Fails
<1> QED
  BY <1>2, <1>5, BrokenReads

\* set() keeps what it promises when it sends its command.
LEMMA setKept ==
    ASSUME NEW c \in Calls, c.op = "set", NEW d, KeyOK(d), d.type \in Asks(c), R!Sends(c)
    PROVE  Kept(c, d)
<1> DEFINE a == R!Direct(d, c)
           cmd == R!Command(c)
           may == R!MaySet(c, d)
<1>1. cmd.cmd = "set" /\ cmd.args = c.args
  BY CommandOf DEF R!Simple, R!StringsAndHashes
<1>2. ("nx" \in cmd.opts <=> "nx" \in c.opts) /\ ("xx" \in cmd.opts <=> "xx" \in c.opts)
  <2>1. cmd.opts = {R!Spelled[o] : o \in c.opts \cap DOMAIN R!Spelled}
    BY CommandOf
  <2> HIDE DEF cmd
  <2> QED
    BY <2>1 DEF R!Spelled
<1>3. PICK n \in Name : c.args = <<n>>
  BY ArgumentsAssumption
<1> DEFINE key == [type |-> "string", map |-> <<n>>]
<1>4. a = R!SetCommand(d, cmd)
  BY <1>1 DEF R!Direct, R!Server
<1> HIDE DEF cmd
<1>5. a = IF may THEN R!Answer(key, <<R!OK>>) ELSE R!Answer(d, <<R!Nil>>)
  BY <1>1, <1>2, <1>3, <1>4 DEF R!SetCommand, R!MaySet
<1>6. KeyOK(key)
  <2>1. DOMAIN <<n>> # {}
    OBVIOUS
  <2> QED
    BY <2>1 DEF KeyOK
<1>7. R!Leaves(c, d) = IF may THEN key ELSE d
  BY <1>3 DEF R!Leaves, R!Takers
<1> HIDE DEF key
<1>8. a.ok /\ a.after = (IF may THEN key ELSE d) /\ (a.reply # <<R!Nil>> <=> may)
  BY <1>5 DEF R!Answer, R!Nil, R!OK
<1> HIDE DEF a, may
<1>9. R!Outcome(c, a) = R!Gives(a.reply # <<R!Nil>>)
  BY <1>8 DEF R!Outcome, R!Result
<1>10. R!Outcome(c, a).ok /\ R!Outcome(c, a).value = (a.reply # <<R!Nil>>)
  BY <1>9, GivesValue, Zenon
<1>11. R!Outcome(c, a).value <=> may
  BY <1>8, <1>10, Zenon
<1>12. R!Returns(c, d, a.after, R!Outcome(c, a).value)
  BY <1>11 DEF R!Returns, may
<1>13. ~R!Misses(c, d.map)
  BY OthersMissNothing
<1> QED
  BY <1>6, <1>7, <1>8, <1>10, <1>12, <1>13, OutcomeKeeps DEF a

\* rPush() and lPush() keep what they promise.
LEMMA PushKept ==
    ASSUME NEW c \in Calls, c.op \in {"rPush", "lPush"}, NEW d, KeyOK(d), d.type \in Asks(c)
    PROVE  Kept(c, d)
<1> DEFINE a == R!Direct(d, c)
           cmd == R!Command(c)
           args == c.args
           f == d.map
           new == IF c.op = "rPush" THEN f \o args ELSE R!Reverse(args) \o f
<1>1. /\ cmd.args = args /\ R!TypeOf(cmd.cmd) = "list" /\ R!Sends(c)
      /\ cmd.cmd = (IF c.op = "rPush" THEN "rpush" ELSE "lpush")
      /\ R!TypeOf(R!Simple(c.op)) = "list"
  BY CommandOf DEF R!Simple, R!StringsAndHashes, R!SortedSetsAndLists, R!TypeOf, R!Sends
<1>2. a = R!TypedCommand(d, cmd)
  BY <1>1, OwnType
<1> HIDE DEF cmd
<1>3. a = R!ListCommand(d, cmd)
  BY <1>1, <1>2 DEF R!TypedCommand
<1>4. a = R!Answer(R!Stored("list", new), <<Len(new)>>)
  BY <1>1, <1>3 DEF R!ListCommand
<1>5. f \in Seq(Name)
  <2>1. CASE d.type = "none"
    <3>1. f = <<>>
      BY <2>1 DEF KeyOK, R!Nothing
    <3> QED
      BY <3>1
  <2>2. CASE d.type = "list"
    BY <2>2 DEF KeyOK
  <2> QED
    BY <1>1, <2>1, <2>2 DEF Asks
<1>6. args \in Seq(Name) /\ args # <<>>
  BY ArgumentsAssumption
<1>7. R!Leaves(c, d) = R!Stored("list", new)
  <2>1. c.op \notin R!Takers
    BY DEF R!Takers
  <2> HIDE DEF f, args
  <2> QED
    BY <1>1, <2>1 DEF R!Leaves, f, args
<1>8. new \in Seq(Name) /\ new # <<>>
  <2> HIDE DEF f, args
  <2>1. Len(args) \in Nat \ {0}
    BY <1>6
  <2>2. R!Reverse(args) \in Seq(Name) /\ Len(R!Reverse(args)) = Len(args)
    BY <1>6 DEF R!Reverse
  <2> QED
    BY <1>5, <1>6, <2>1, <2>2
<1> HIDE DEF new
<1>9. DOMAIN new # {}
  <2>1. Len(new) \in Nat \ {0} /\ DOMAIN new = 1..Len(new)
    BY <1>8
  <2>2. 1 \in DOMAIN new
    BY <2>1
  <2> QED
    BY <2>2
<1>10. /\ KeyOK(R!Stored("list", new))
       /\ R!Stored("list", new) = [type |-> "list", map |-> new]
  BY <1>8, <1>9 DEF KeyOK, R!Stored
<1>11. a.ok /\ a.after = R!Stored("list", new) /\ a.after.map = new /\ a.reply = <<Len(new)>>
  BY <1>4, <1>10 DEF R!Answer
<1> HIDE DEF a
<1>12. R!Outcome(c, a) = R!Gives(<<Len(new)>>)
  BY <1>11 DEF R!Outcome, R!Result
<1>13. R!Returns(c, d, a.after, <<Len(new)>>)
  <2>1. a.after.map = new
    BY <1>11
  <2>2. c.op \notin DOMAIN R!StringsAndHashes /\ c.op \notin {"exists", "set"}
    BY DEF R!StringsAndHashes
  <2>3. ASSUME NEW v, v = <<Len(new)>>
        PROVE  R!Returns(c, d, a.after, v)
    BY <2>1, <2>2, <2>3 DEF R!Returns
  <2> QED
    BY <2>3
<1>14. ~R!Misses(c, d.map)
  BY OthersMissNothing
<1> QED
  BY <1>1, <1>7, <1>10, <1>11, <1>12, <1>13, <1>14, GivingKeeps DEF a

\* A method keeps what it promises, whatever it finds.
LEMMA EveryCallKept ==
    ASSUME NEW c \in Calls, NEW d, KeyOK(d), d.type \in Asks(c), R!Sends(c),
           R!InRange(R!Direct(d, c).after)
    PROVE  Kept(c, d)
<1>1. c.op \in R!Methods
  BY ArgumentsAssumption DEF Offered
<1>2. \/ c.op \in {"hExists", "hGet", "hGetMany", "hSet", "hSetMany", "hIncrease", "hDelete"}
      \/ c.op \in {"hGetAll", "hFields", "hValues", "hLength", "hScan"}
      \/ c.op \in {"zCard", "zCount", "zLexicalCount", "zRank", "zRange", "zRangeByLex", "zScore"}
      \/ c.op \in {"zAdd", "zIncrement", "zRangeByScore", "zScan", "zUnion", "zIntersect"}
      \/ c.op \in {"zRemove", "zRemoveRangeByLex", "zRemoveRangeByRank", "zRemoveRangeByScore"}
      \/ c.op \in {"zPopMin", "zPopMax", "zBlockPopMin", "zBlockPopMax"}
      \/ c.op \in {"exists", "get", "set", "rPush", "lPush"}
  BY <1>1 DEF R!Methods, R!StringsAndHashes, R!SortedSetsAndLists
<1>3. CASE c.op \in {"hExists", "hGet", "hGetMany", "hSet", "hSetMany", "hIncrease", "hDelete"}
  BY <1>3, hExistsKept, hGetKept, hGetManyKept, hSetKept, hSetManyKept, hIncreaseKept, hDeleteKept
<1>4. CASE c.op \in {"hGetAll", "hFields", "hValues", "hLength", "hScan"}
  BY <1>4, HashReadsKept, hScanKept
<1>5. CASE c.op \in {"zCard", "zCount", "zLexicalCount", "zRank", "zRange", "zRangeByLex", "zScore"}
  BY <1>5, zCountsKept, zRankKept, zRangeKept, zRangeByLexKept, zScoreKept
<1>6. CASE c.op \in {"zAdd", "zIncrement", "zRangeByScore", "zScan", "zUnion", "zIntersect"}
  BY <1>6, zAddKept, zIncrementKept, BrokenReadsKept
<1>7. CASE c.op \in {"zPopMin", "zPopMax", "zBlockPopMin", "zBlockPopMax"}
  BY <1>7, zPopKept, zBlockPopKept
<1>8. CASE c.op \in {"exists", "get", "set", "rPush", "lPush"}
  BY <1>8, existsKept, getKept, setKept, PushKept
<1> QED
  BY <1>2, <1>3, <1>4, <1>5, <1>6, <1>7, <1>8, zRemoveKept

\* What is under the key between two calls, and what the last call found and left.
KeptInv ==
    /\ mode = "none" => KeyOK(db)
    /\ lastCall.call # <<>> =>
          LET c == lastCall.call[1]
              d == lastCall.found
              a == R!Direct(d, c)
          IN  /\ lastCall.call = <<c>> /\ c \in Calls
              /\ KeyOK(d) /\ R!InRange(a.after)
              /\ lastCall = [call |-> <<c>>, found |-> d, after |-> a.after,
                             result |-> R!Outcome(c, a)]

\* Before the first call there is nothing under the key.
LEMMA NothingIsKey == KeyOK(R!Nothing)
BY DEF KeyOK, R!Nothing

LEMMA KeptInit == R!Init => KeptInv
<1> SUFFICES ASSUME R!Init PROVE KeptInv
  OBVIOUS
<1>1. db = R!Nothing /\ lastCall.call = <<>>
  BY DEF R!Init, R!NoCall
<1> QED
  BY <1>1, NothingIsKey DEF KeptInv

\* What a call leaves is a key that the next one may find.
LEMMA CallLeavesKey ==
    ASSUME NEW c \in Calls, NEW d, KeyOK(d), R!InRange(R!Direct(d, c).after)
    PROVE  KeyOK(R!Direct(d, c).after)
<1>1. CASE d.type \in Asks(c) /\ R!Sends(c)
  BY <1>1, EveryCallKept DEF Kept
<1>2. CASE d.type \notin Asks(c) \/ ~R!Sends(c)
  BY <1>2, OtherType
<1> QED
  BY <1>1, <1>2

\* Calls at once before the batch; with the batch begun the last call is forgotten
\* with the first of the other client.
LEMMA KeptStep == KeptInv /\ R!IInv /\ [R!Next]_callVars => KeptInv'
<1> SUFFICES ASSUME KeptInv, R!IInv, [R!Next]_callVars PROVE KeptInv'
  OBVIOUS
<1>1. mode = "none" => batchPhase = "none"
  BY DEF R!IInv, R!BatchInv
<1>2. ASSUME lastCall' = lastCall, mode' = mode, mode = "none" => db' = db PROVE KeptInv'
  BY <1>2 DEF KeptInv
<1>3. ASSUME lastCall' = R!NoCall, mode' # "none" PROVE KeptInv'
  BY <1>3 DEF KeptInv, R!NoCall
<1>4. ASSUME mode = "none", NEW c \in Calls, R!Call(c) PROVE KeptInv'
  <2> DEFINE a == R!Direct(db, c)
  <2>1. /\ R!InRange(a.after) /\ db' = a.after /\ mode' = mode
        /\ lastCall' = [call |-> <<c>>, found |-> db, after |-> db', result |-> R!Outcome(c, a)]
    BY <1>4 DEF R!Call, R!batchVars
  <2>2. KeyOK(db)
    BY <1>4 DEF KeptInv
  <2>3. KeyOK(a.after)
    BY <2>1, <2>2, CallLeavesKey
  <2>4. lastCall'.call[1] = c /\ lastCall'.found = db /\ lastCall'.call = <<c>>
    BY <2>1
  <2> HIDE DEF a
  <2>5. lastCall' = [call |-> <<c>>, found |-> db, after |-> a.after, result |-> R!Outcome(c, a)]
    BY <2>1
  <2> QED
    BY <2>1, <2>2, <2>3, <2>4, <2>5 DEF KeptInv, a
<1>5. ASSUME batchPhase = "running", NEW c, R!Call(c) PROVE KeptInv'
  <2>1. mode # "none"
    BY <1>1, <1>5
  <2> QED
    BY <1>3, <1>5, <2>1 DEF R!Call, R!batchVars
<1>6. CASE R!Begin
  BY <1>3, <1>6 DEF R!Begin
<1>7. CASE \E c \in BatchCalls : R!Register(c)
  BY <1>2, <1>7 DEF R!Register
<1>8. CASE R!Execute \/ R!ExecFails \/ R!Settle
  BY <1>2, <1>8 DEF R!Execute, R!ExecFails, R!Settle
<1>9. CASE R!RunPipeline \/ R!RunTransaction
  BY <1>2, <1>9 DEF R!RunPipeline, R!RunTransaction
<1>10. CASE R!Expires
  BY <1>10, NothingIsKey DEF R!Expires, KeptInv, R!NoCall
<1>11. CASE UNCHANGED callVars
  BY <1>2, <1>11 DEF callVars
<1> QED
  BY <1>4, <1>5, <1>6, <1>7, <1>8, <1>9, <1>10, <1>11 DEF R!Next

\* What the last call did is what its method promises.
LEMMA LastIsKept == KeptInv => R!CallsAreKept
<1> SUFFICES ASSUME KeptInv, lastCall.call # <<>>
             PROVE  R!Keeps(lastCall.call[1], lastCall.found, lastCall.after, lastCall.result)
  BY DEF R!CallsAreKept
<1> DEFINE c == lastCall.call[1]
           d == lastCall.found
           a == R!Direct(d, c)
           o == R!Outcome(c, a)
<1>1. /\ c \in Calls /\ KeyOK(d) /\ R!InRange(a.after)
      /\ lastCall = [call |-> <<c>>, found |-> d, after |-> a.after, result |-> o]
  BY DEF KeptInv
<1>2. lastCall.after = a.after /\ lastCall.result = o
  BY <1>1
<1>3. R!OfAnotherType(c, d) <=> d.type \notin Asks(c)
  BY <1>1 DEF R!OfAnotherType, Asks, KeyOK
<1>4. R!Keeps(c, d, a.after, o)
  <2>1. CASE d.type \notin Asks(c) \/ ~R!Sends(c)
    BY <1>1, <1>3, <2>1, OtherType DEF R!Keeps
  <2>2. CASE d.type \in Asks(c) /\ R!Sends(c)
    BY <1>1, <2>2, EveryCallKept DEF Kept
  <2> QED
    BY <2>1, <2>2
<1> QED
  BY <1>2, <1>4

-----------------------------------------------------------------------------
(* The theorems.                                                               *)

\* The invariants of the parts, each of which takes its own steps.
DatabasesInv == RepositoryInv /\ R!IInv /\ S!IInv /\ M!IInv /\ B!IInv

\* Whatever the number of processes, indexes, entities, consumers, items, channels,
\* observers, buses and messages, and whatever the behaviour: what the starts of
\* repositories plan and what a bulk has tried, the replies that the commands of a
\* pipeline or a transaction have had, the bookkeeping of a stream's pending list,
\* of the SUBSCRIBEs and replies of the message buses and of the posts of the
\* broadcast channel is as the invariants of the modules say.
THEOREM DatabasesInvariant == MCSpec => []DatabasesInv
<1> DEFINE allVars == <<subject, vars, callVars, streamVars, busVars>>
<1>1. MCInit => DatabasesInv
  BY RepositoryInit, RedisInit, StreamInit, BusInit, BroadcastInit DEF MCInit, DatabasesInv
<1>2. DatabasesInv /\ [MCNext]_allVars => DatabasesInv'
  <2> SUFFICES ASSUME DatabasesInv, [MCNext]_allVars PROVE DatabasesInv'
    OBVIOUS
  <2>1. [Next]_vars
    BY DEF MCNext
  <2>2. [R!Next]_callVars
    BY DEF MCNext
  <2>3. [S!Next]_streamVars
    BY DEF MCNext
  <2>4. [M!Next]_messageVars
    BY DEF MCNext, busVars, messageVars
  <2>5. [B!Next]_broadcastVars
    BY DEF MCNext, busVars, broadcastVars
  <2> QED
    BY <2>1, <2>2, <2>3, <2>4, <2>5, RepositoryStep, RedisStep, StreamStep, BusStep,
       BroadcastStep
       DEF DatabasesInv
<1> QED
  BY <1>1, <1>2, PTL DEF MCSpec

\* MongoBaseRepository.initialize: when all have started, the indexes of the
\* collection are the wanted ones, whatever others dropped and created in between,
\* and no two documents break a unique one.
THEOREM StartsAgree == MCSpec => []ReadyIsUnique
<1>1. DatabasesInv => ReadyIsUnique
  BY RepositoryReady DEF DatabasesInv
<1> QED
  BY <1>1, DatabasesInvariant, PTL

\* MongoBulk.execute and the methods of several entities: what they answer is what
\* the server did, whatever the others wrote in between.
THEOREM BulksAreAccounted == MCSpec => []BulkAccounted
<1>1. DatabasesInv => BulkAccounted
  BY DEF DatabasesInv, RepositoryInv
<1> QED
  BY <1>1, DatabasesInvariant, PTL

\* RedisPipelineWrapper: each command of a pipeline or a transaction does what the
\* call does at once, and its promise is settled by its own reply.
THEOREM PromisesAreSettled == MCSpec => []RepliesFindPromises
<1>1. DatabasesInv => RepliesFindPromises
  BY RedisRepliesFind DEF DatabasesInv, RepliesFindPromises
<1> QED
  BY <1>1, DatabasesInvariant, PTL

\* TypedRedis: whatever the calls, the names and the numbers, what each method leaves
\* under the key is what its name and its options say, whatever it finds there (of
\* members with different scores those that a method of names takes are left open);
\* so is what it gives, but for the methods that are Broken; a call that is not sent,
\* or that finds a key of another type, throws and changes nothing.
THEOREM CallsDo == MCSpec => []CallsAreKept
<1> DEFINE allVars == <<subject, vars, callVars, streamVars, busVars>>
<1>1. MCInit => KeptInv
  BY KeptInit DEF MCInit
<1>2. DatabasesInv /\ KeptInv /\ [MCNext]_allVars => KeptInv'
  <2> SUFFICES ASSUME DatabasesInv, KeptInv, [MCNext]_allVars PROVE KeptInv'
    OBVIOUS
  <2>1. [R!Next]_callVars
    BY DEF MCNext
  <2> QED
    BY <2>1, KeptStep DEF DatabasesInv
<1>3. KeptInv => CallsAreKept
  BY LastIsKept DEF CallsAreKept
<1> QED
  BY <1>1, <1>2, <1>3, DatabasesInvariant, PTL DEF MCSpec

\* RedisStream: an entry that was added is still to be read, pending for one consumer,
\* or was acknowledged, read with NOACK or left out; two clients work on one entry only
\* if one of them was slow.
THEOREM StreamsAreKept == MCSpec => []StreamIsKept
<1>1. DatabasesInv => StreamIsKept
  BY StreamIsKeptInv DEF DatabasesInv, StreamIsKept
<1> QED
  BY <1>1, DatabasesInvariant, PTL

\* RedisMessageBus and BroadcastChannelMessageBus: Redis sends the channels that
\* are observed and no others, and whoever observes hears every message, once and
\* in order.
THEOREM EveryMessageArrives == MCSpec => []MessagesArrive
<1>1. DatabasesInv => MessagesArrive
  BY BusMessagesArrive, BroadcastInvArrives DEF DatabasesInv, MessagesArrive
<1> QED
  BY <1>1, DatabasesInvariant, PTL
=============================================================================
