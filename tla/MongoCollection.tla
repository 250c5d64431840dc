--------------------------- MODULE MongoCollection ---------------------------
(* A collection of MongoDB as the repositories use it: what the commands do,  *)
(* and what the methods of the repositories reply. The commands are external; *)
(* the server executes each one atomically.                                   *)
EXTENDS MongoDocument

CONSTANT UniqueField \* the property of the unique index

VARIABLES
    docs,   \* _id -> document
    indexes \* the indexes of the collection

CollectionUnique == \E index \in indexes : index.unique

-----------------------------------------------------------------------------
(* The server.                                                                *)

\* A missing property counts as null, which sorts first.
Field(document, property) ==
    IF property \in DOMAIN document THEN document[property] ELSE 0

Compare(n, operator, value) ==
    CASE operator \in {"$eq"} -> n = value.n
      [] operator = "$gt" -> n > value.n
      [] operator = "$gte" -> n >= value.n
      [] operator = "$lt" -> n # 0 /\ n < value.n
      [] operator = "$in" -> n \in Range(value.items)
      [] operator = "$nin" -> n \notin Range(value.items)

MatchesFilter(document, filter) ==
    \A p \in DOMAIN filter :
        IF filter[p].kind = "primitive" THEN Field(document, p) = filter[p].n
        ELSE \A operator \in DOMAIN filter[p].query :
                Compare(Field(document, p), operator, filter[p].query[operator])

MatchingIds(D, filter) == {id \in DOMAIN D : MatchesFilter(D[id], filter)}

\* Options of a caller: how many documents to skip, how many to return (0: no
\* limit), and what to sort by.
NoSort == [field |-> "none", order |-> 1]
NoOptions == [skip |-> 0, limit |-> 0, sort |-> NoSort]

Before(D, sort, x, y) ==
    sort.order * Field(D[x], sort.field) < sort.order * Field(D[y], sort.field)

\* The sequences of what is in S, once each.
InAnyOrder(S) == Injection(1..Cardinality(S), S)

\* The orders in which the server may return the documents of ids.
Orders(D, ids, sort) ==
    {seq \in InAnyOrder(ids) :
        \A i, j \in DOMAIN seq : i < j => ~Before(D, sort, seq[j], seq[i])}

Window(seq, options) ==
    SubSeq(seq, options.skip + 1,
           IF options.limit = 0 THEN Len(seq)
           ELSE IF options.skip + options.limit < Len(seq)
           THEN options.skip + options.limit ELSE Len(seq))

\* find: the sequences of identifiers that may be returned.
Find(D, filter, options) ==
    {Window(seq, options) : seq \in Orders(D, MatchingIds(D, filter), options.sort)}

\* findOne and the findOneAnd... commands: the identifiers that may be taken.
FindOne(D, filter, options) ==
    {seq[1] : seq \in {s \in Find(D, filter, options) : s # <<>>}}

Command(D, matched, upserted, deleted) ==
    [docs |-> D, error |-> FALSE, matched |-> matched, upserted |-> upserted,
     deleted |-> deleted]
CommandFails(D) ==
    [docs |-> D, error |-> TRUE, matched |-> 0, upserted |-> 0, deleted |-> 0]

Put(D, document) ==
    [id \in DOMAIN D \cup {document["_id"]} |->
        IF id = document["_id"] THEN document ELSE D[id]]

\* The unique index has an entry of another document than id with the value of document.
TakenByOther(D, id, document) ==
    /\ CollectionUnique
    /\ \E other \in DOMAIN D \ {id} :
          Field(D[other], UniqueField) = Field(document, UniqueField)
Taken(D, document) == TakenByOther(D, document["_id"], document)

InsertOne(D, document) ==
    {IF document["_id"] \in DOMAIN D \/ Taken(D, document)
     THEN CommandFails(D)
     ELSE Command(Put(D, document), 0, 1, 0)}

PutMatched(D, document) ==
    IF Taken(D, document) THEN CommandFails(D)
    ELSE Command(Put(D, document), 1, 0, 0)

\* An update is a record of what $set and $setOnInsert assign.
UpdateDocument(document, update) == Spread(document, update.set)

\* What an upsert inserts: the equalities of the filter and what is assigned.
UpsertDocument(filter, update) ==
    LET Equalities == {p \in DOMAIN filter : filter[p].kind = "primitive"}
    IN Spread([p \in Equalities |-> filter[p].n],
              Spread(update.setOnInsert, update.set))

UpdateOne(D, filter, update, upsert) ==
    LET ids == MatchingIds(D, filter)
    IN IF ids # {}
       THEN {PutMatched(D, UpdateDocument(D[id], update)) : id \in ids}
       ELSE IF upsert THEN InsertOne(D, UpsertDocument(filter, update))
       ELSE {Command(D, 0, 0, 0)}

\* The documents are updated one after the other; the first one that fails ends
\* the command, those before it stay updated.
UpdateManyCommand(D, filter, update) ==
    LET After(done) == [id \in DOMAIN D |-> IF id \in done
                                            THEN UpdateDocument(D[id], update) ELSE D[id]]
        ids == MatchingIds(D, filter)
        FailsAfter(done, id) == TakenByOther(After(done), id, UpdateDocument(D[id], update))
        Reached == {done \in SUBSET ids :
                       \E seq \in InAnyOrder(done) :
                           \A i \in DOMAIN seq :
                               ~FailsAfter({seq[j] : j \in 1..(i - 1)}, seq[i])}
    IN {IF done = ids THEN Command(After(done), Cardinality(ids), 0, 0)
        ELSE CommandFails(After(done)) :
            done \in {d \in Reached : d = ids \/ \E id \in ids \ d : FailsAfter(d, id)}}

\* A document keeps its identifier.
ReplaceOne(D, filter, document, upsert) ==
    LET ids == MatchingIds(D, filter)
    IN IF ids # {}
       THEN {IF document["_id"] # id THEN CommandFails(D) ELSE PutMatched(D, document) :
                id \in ids}
       ELSE IF upsert THEN InsertOne(D, document)
       ELSE {Command(D, 0, 0, 0)}

DeleteOne(D, filter) ==
    LET ids == MatchingIds(D, filter)
    IN IF ids = {} THEN {Command(D, 0, 0, 0)}
       ELSE {Command(Restrict(D, DOMAIN D \ {id}), 0, 0, 1) : id \in ids}

DeleteMany(D, filter) ==
    LET ids == MatchingIds(D, filter)
    IN {Command(Restrict(D, DOMAIN D \ ids), 0, 0, Cardinality(ids))}

-----------------------------------------------------------------------------
(* Replies of the methods.                                                    *)

One(entity) == [kind |-> "one", entity |-> entity]
Many(entities) == [kind |-> "many", entities |-> entities]
Number(n) == [kind |-> "number", n |-> n]
Undefined == [kind |-> "undefined"]
NotFound == [kind |-> "notFound"]
Rejected == [kind |-> "rejected"]

Outcome(D, reply) == [docs |-> D, reply |-> reply]

\* The reply of a command that succeeds, and Rejected if it does not.
ReplyOf(commands, Reply(_)) ==
    {Outcome(c.docs, IF c.error THEN Rejected ELSE Reply(c)) : c \in commands}
=============================================================================
