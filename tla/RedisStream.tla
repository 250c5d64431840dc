----------------------------- MODULE RedisStream -----------------------------
(***************************************************************************)
(* RedisStream of redis: a stream with one consumer group, used by clients *)
(* that add, read, acknowledge and move entries, look for what others left *)
(* pending and claim it.  A method is one command or one transaction; what *)
(* a client does next rests on what an earlier command told it.            *)
(*                                                                         *)
(* An entry has an id, a number, and carries an item.                      *)
(***************************************************************************)
EXTENDS Integers, Sequences, FiniteSets, Functions

CONSTANTS
    Consumer,                  \* clients, each a consumer of the group
    Item,                      \* what they add, each once
    MaxId                      \* bound on the ids

VARIABLES
    exists, log, last,         \* the stream: its entries by id, the last id
    grouped, read, pending,    \* the group: the last id read, who has what pending
    late,                      \* entries that have been pending for minimumIdleTime
    got,                       \* what a client was given and has not acknowledged
    known,                     \* ids that a client knows are pending or its own
    pc,                        \* whether it claimed ids and has no entries yet
    added, finished, lost,     \* history: items added, done, told to be refused
    removed, unowned, slow     \* history: entries deleted; not pending for
                               \* anyone any more; given and then late

streamVars == <<exists, log, last>>
groupVars == <<grouped, read, pending, late>>
clientVars == <<got, known, pc>>
history == <<added, finished, lost, removed, unowned, slow>>
vars == <<streamVars, groupVars, clientVars, history>>

Ids == DOMAIN log
Without(f, S) == Restrict(f, DOMAIN f \ S)
Highest(S) == CHOOSE n \in S : \A m \in S : m <= n

Init ==
    /\ exists = FALSE /\ log = <<>> /\ last = 0
    /\ grouped = FALSE /\ read = 0 /\ pending = <<>> /\ late = {}
    /\ got = [c \in Consumer |-> {}] /\ known = [c \in Consumer |-> {}]
    /\ pc = [c \in Consumer |-> "idle"]
    /\ added = {} /\ finished = {} /\ lost = {} /\ removed = {} /\ unowned = {} /\ slow = {}

-----------------------------------------------------------------------------
(* Redis: XADD of several entries, each with an id or none (0).  One whose  *)
(* id is not above the last fails; the transaction goes on.                 *)

IdOf(entry, top) == IF entry.id = 0 THEN top + 1 ELSE entry.id
Refused(entry, top) == entry.id # 0 /\ entry.id <= top

\* The stream, the last id and the items refused so far, after one more entry.
AddOne(s, entry) ==
    IF Refused(entry, s.last)
    THEN [s EXCEPT !.refused = @ \cup {entry.item}]
    ELSE [s EXCEPT !.log = [i \in DOMAIN @ \cup {IdOf(entry, s.last)} |->
                              IF i \in DOMAIN @ THEN @[i] ELSE entry.item],
                   !.last = IdOf(entry, s.last)]

AddAll(entries, before, top) ==
    LET after[n \in 0..Len(entries)] ==
            IF n = 0 THEN [log |-> before, last |-> top, refused |-> {}]
            ELSE AddOne(after[n - 1], entries[n])
    IN  after[Len(entries)]

Added(entries, before) ==
    LET s == AddAll(entries, before, last) IN
    /\ s.last <= MaxId
    /\ log' = s.log /\ last' = s.last
    /\ exists' = (exists \/ s.last > last)
    /\ lost' = lost \cup s.refused

Entries(S) == {[id |-> n, item |-> i] : n \in 0..1, i \in S}

-----------------------------------------------------------------------------
(* The methods.                                                             *)

\* An entry that is refused rejects.
add(entry) ==
    /\ entry.item \notin added
    /\ added' = added \cup {entry.item}
    /\ Added(<<entry>>, log)
    /\ UNCHANGED <<groupVars, clientVars, finished, removed, unowned, slow>>

\* Those that are refused have no id in the result.
addMany(entries) ==
    /\ \A n \in DOMAIN entries : entries[n].item \notin added
    /\ added' = added \cup {entries[n].item : n \in DOMAIN entries}
    /\ Added(entries, log)
    /\ UNCHANGED <<groupVars, clientVars, finished, removed, unowned, slow>>

createGroup(startAtId, makeStream) ==
    /\ exists \/ makeStream
    /\ ~grouped
    /\ grouped' = TRUE
    /\ exists' = TRUE
    /\ read' = IF startAtId = "$" THEN last ELSE 0
    /\ unowned' = unowned \cup 1..read'
    /\ UNCHANGED <<log, last, pending, late, clientVars, added, finished, lost, removed, slow>>

\* An option noAck, true or false, makes it NOACK.
readGroup(c, count, noAck) ==
    LET next == {i \in Ids : i > read}
        ids == {i \in next : Cardinality({j \in next : j <= i}) <= count}
        acks == noAck # "undefined"
    IN  /\ grouped /\ ids # {}
        /\ read' = Highest(ids)
        /\ pending' = IF acks THEN pending
                      ELSE [i \in DOMAIN pending \cup ids |-> IF i \in ids THEN c ELSE pending[i]]
        /\ unowned' = IF acks THEN unowned \cup ids ELSE unowned
        /\ got' = [got EXCEPT ![c] = @ \cup ids]
        /\ UNCHANGED <<streamVars, grouped, late, known, pc, added, finished, lost, removed, slow>>

Own(c) == {i \in DOMAIN pending : pending[i] = c}

\* readGroup() with an id: what is pending for the client itself.  An entry that
\* was deleted has no data, for which it throws.
readOwn(c) ==
    /\ grouped /\ Own(c) # {}
    /\ Own(c) \subseteq Ids
    /\ got' = [got EXCEPT ![c] = @ \cup Own(c)]
    /\ UNCHANGED <<streamVars, groupVars, known, pc, history>>

Acknowledged(ids) ==
    /\ pending' = Without(pending, ids)
    /\ late' = late \ ids
Forgotten(c, ids) ==
    /\ got' = [got EXCEPT ![c] = @ \ ids]
    /\ UNCHANGED <<known, pc>>
Items(ids) == {log[i] : i \in ids \cap Ids}

acknowledge(c, ids) ==
    /\ Acknowledged(ids)
    /\ Forgotten(c, ids)
    /\ unowned' = unowned \cup ids
    /\ UNCHANGED <<streamVars, grouped, read, added, finished, lost, removed, slow>>

delete(ids) ==
    /\ log' = Without(log, ids)
    /\ removed' = removed \cup (ids \cap Ids)
    /\ finished' = finished \cup Items(ids)
    /\ UNCHANGED <<exists, last, groupVars, clientVars, added, lost, unowned, slow>>

acknowledgeDeleteTransaction(c, ids) ==
    /\ Acknowledged(ids)
    /\ Forgotten(c, ids)
    /\ log' = Without(log, ids)
    /\ finished' = finished \cup Items(ids)
    /\ UNCHANGED <<exists, last, grouped, read, added, lost, removed, unowned, slow>>

\* The items of the entries are added again, whether or not the entries were
\* still there; an add that fails does not undo the rest.
acknowledgeDeleteAddTransaction(c, ids, entries) ==
    /\ Acknowledged(ids)
    /\ Forgotten(c, ids)
    /\ Added(entries, Without(log, ids))
    /\ finished' = finished \cup (Items(ids) \ {entries[n].item : n \in DOMAIN entries})
    /\ UNCHANGED <<grouped, read, added, removed, unowned, slow>>

\* XTRIM; with '~' more than maxLength may stay.
trim(maxLength, approximate) ==
    \E n \in 0..Cardinality(Ids) :
        LET ids == {i \in Ids : Cardinality({j \in Ids : j >= i}) > n} IN
        /\ n >= maxLength /\ (~approximate => n = maxLength)
        /\ ids # {}
        /\ log' = Without(log, ids)
        /\ removed' = removed \cup ids
        /\ finished' = finished \cup Items(ids)
        /\ UNCHANGED <<exists, last, groupVars, clientVars, added, lost, unowned, slow>>

-----------------------------------------------------------------------------
(* A client looks for what others left pending, and takes it over.          *)

getPendingEntries(c, consumers) ==
    /\ grouped
    /\ known' = [known EXCEPT ![c] = UNION {Own(d) : d \in consumers}]
    /\ UNCHANGED <<streamVars, groupVars, got, pc, history>>

\* Mutant: minimumIdleTime is not passed on.
ClaimableAtOnce(ids) == ids \cap DOMAIN pending

\* XCLAIM: of the ids those that are still pending, and for long enough.
Claimable(ids) == {i \in ids \cap DOMAIN pending : i \in late}

Claimed(c, ids) ==
    /\ pending' = [i \in DOMAIN pending |-> IF i \in Claimable(ids) THEN c ELSE pending[i]]
    /\ late' = late \ Claimable(ids)

\* With their data: if one of them was deleted, it throws, and they are claimed.
claim(c, ids) ==
    /\ Claimable(ids) # {}
    /\ Claimed(c, ids)
    /\ got' = IF Claimable(ids) \subseteq Ids THEN [got EXCEPT ![c] = @ \cup Claimable(ids)] ELSE got
    /\ known' = [known EXCEPT ![c] = {}]
    /\ UNCHANGED <<streamVars, grouped, read, pc, history>>

\* Or the ids only, and the client gets the entries by getMany().
claimIds(c, ids) ==
    /\ Claimable(ids) # {}
    /\ Claimed(c, ids)
    /\ known' = [known EXCEPT ![c] = Claimable(ids)]
    /\ pc' = [pc EXCEPT ![c] = "claimed"]
    /\ UNCHANGED <<streamVars, grouped, read, got, history>>

\* Entries that have been deleted are left out; others may have claimed them.
getMany(c) ==
    /\ pc[c] = "claimed"
    /\ got' = [got EXCEPT ![c] = @ \cup (known[c] \cap Ids)]
    /\ known' = [known EXCEPT ![c] = {}]
    /\ pc' = [pc EXCEPT ![c] = "idle"]
    /\ UNCHANGED <<streamVars, groupVars, history>>

\* What a consumer that is deleted had pending is pending for nobody.
deleteConsumer(d) ==
    /\ Own(d) # {}
    /\ unowned' = unowned \cup Own(d)
    /\ pending' = Without(pending, Own(d))
    /\ late' = late \ Own(d)
    /\ UNCHANGED <<streamVars, grouped, read, clientVars, added, finished, lost, removed, slow>>

-----------------------------------------------------------------------------
(* What happens to them.                                                    *)

\* An entry has been pending for minimumIdleTime.
GrowLate(i) ==
    /\ i \in DOMAIN pending \ late
    /\ late' = late \cup {i}
    /\ slow' = slow \cup {<<pending[i], i>>}
    /\ UNCHANGED <<streamVars, grouped, read, pending, clientVars, added, finished, lost, removed,
                   unowned>>

\* A client forgets all, and starts again under its name.
Crash(c) ==
    /\ got[c] # {} \/ known[c] # {}
    /\ got' = [got EXCEPT ![c] = {}]
    /\ known' = [known EXCEPT ![c] = {}]
    /\ pc' = [pc EXCEPT ![c] = "idle"]
    /\ UNCHANGED <<streamVars, groupVars, history>>

Add ==
    \/ \E e \in Entries(Item) : add(e)
    \/ \E e, f \in Entries(Item) : e.item # f.item /\ addMany(<<e, f>>)

Finish(c) ==
    \E ids \in SUBSET got[c] \ {{}} :
        \/ acknowledge(c, ids)
        \/ acknowledgeDeleteTransaction(c, ids)
        \/ \E e \in Entries(Items(ids)) : acknowledgeDeleteAddTransaction(c, ids, <<e>>)

Shrink ==
    \/ \E i \in Ids : delete({i})
    \/ \E approximate \in BOOLEAN : trim(1, approximate)

Read(c) ==
    \/ \E count \in 1..2, noAck \in {"undefined", "true", "false"} : readGroup(c, count, noAck)
    \/ readOwn(c)

TakeOver(c) ==
    /\ pc[c] = "idle"
    /\ \/ \E consumers \in SUBSET Consumer \ {{}} : getPendingEntries(c, consumers)
       \/ claim(c, known[c])
       \/ claimIds(c, known[c])

Next ==
    \/ Add \/ Shrink
    \/ \E startAtId \in {"0", "$"}, makeStream \in BOOLEAN : createGroup(startAtId, makeStream)
    \/ \E c \in Consumer :
          Read(c) \/ Finish(c) \/ TakeOver(c) \/ getMany(c) \/ deleteConsumer(c) \/ Crash(c)
    \/ \E i \in DOMAIN pending : GrowLate(i)

Spec == Init /\ [][Next]_vars

-----------------------------------------------------------------------------
(* Properties.                                                              *)

\* Every item that was added is in the stream, done with, or known to be refused.
\* An entry is still to be read, pending for one consumer, or was acknowledged,
\* read with NOACK, or left out by the group's start or by deleteConsumer();
\* what is pending is there unless it was deleted or trimmed.
Accounted ==
    /\ added \subseteq Range(log) \cup finished \cup lost
    /\ \A i \in Ids : i > read \/ i \in DOMAIN pending \/ i \in unowned
    /\ \A i \in DOMAIN pending : i \in Ids \cup removed

\* Two clients work on one entry only if one of them took minimumIdleTime or
\* more for it, whoever looked for pending entries at the same time.
HeldByOne ==
    \A c, d \in Consumer : \A i \in got[c] \cap got[d] :
        c = d \/ <<c, i>> \in slow \/ <<d, i>> \in slow

StreamIsKept == Accounted /\ HeldByOne

-----------------------------------------------------------------------------
(* The inductive invariant, proved in DatabasesProofs.                      *)

\* The type invariant.  The group has read no further than the stream goes, and
\* only what it has read is pending.
StreamType ==
    /\ exists \in BOOLEAN
    /\ last \in Nat
    /\ Ids \subseteq 1..last
    /\ log \in [Ids -> Item]
GroupType ==
    /\ grouped \in BOOLEAN
    /\ read \in 0..last
    /\ DOMAIN pending \subseteq 1..read
    /\ pending \in [DOMAIN pending -> Consumer]
    /\ late \subseteq DOMAIN pending
ClientType ==
    /\ got \in [Consumer -> SUBSET (1..read)]
    /\ known \in [Consumer -> SUBSET (1..read)]
    /\ pc \in [Consumer -> {"idle", "claimed"}]
TypeOK == StreamType /\ GroupType /\ ClientType

\* A group that is not there has nothing.
GroupInv == grouped \/ read = 0

\* What a client works on, or will after getMany().
Held(c) == got[c] \cup (IF pc[c] = "claimed" THEN known[c] ELSE {})

\* What somebody else has pending is held too long.
PendingInv ==
    \A c \in Consumer : \A i \in Held(c) \cap DOMAIN pending :
        pending[i] = c \/ <<c, i>> \in slow
LateInv == \A i \in late : <<pending[i], i>> \in slow
HeldInv ==
    \A c, d \in Consumer : \A i \in Held(c) \cap Held(d) :
        c = d \/ <<c, i>> \in slow \/ <<d, i>> \in slow

IInv == TypeOK /\ GroupInv /\ PendingInv /\ LateInv /\ HeldInv /\ Accounted
=============================================================================
