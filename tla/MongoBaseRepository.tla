------------------------- MODULE MongoBaseRepository -------------------------
(* MongoBaseRepository (mongo-base.repository.ts).                            *)
(*                                                                            *)
(* A method that sends one command is an operator: the set of what it can     *)
(* come to, each with the documents after it and the reply of the method. The *)
(* calls that send a bulk are steps of MongoEntityRepository.                 *)
EXTENDS MongoCollection

ThrowIfUndefinedElsePass(outcomes) ==
    {IF o.reply = Undefined THEN Outcome(o.docs, NotFound) ELSE o : o \in outcomes}

ById(id) == "_id" :> Primitive(id)
ByIds(ids) == "_id" :> Object("$in" :> Array(ids))

-----------------------------------------------------------------------------
(* Reading.                                                                   *)

TryLoadByFilter(filter, options) ==
    LET found == FindOne(docs, filter, options)
    IN IF found = {} THEN {Outcome(docs, Undefined)}
       ELSE {Outcome(docs, One(ToEntity(docs[id]))) : id \in found}

TryLoad(id, options) == TryLoadByFilter(ById(id), options)
LoadByFilter(filter, options) == ThrowIfUndefinedElsePass(TryLoadByFilter(filter, options))
Load(id, options) == ThrowIfUndefinedElsePass(TryLoad(id, options))

LoadManyByFilter(filter, options) ==
    {Outcome(docs, Many([i \in DOMAIN ids |-> ToEntity(docs[ids[i]])])) :
        ids \in Find(docs, filter, options)}
LoadManyById(ids, options) == LoadManyByFilter(ByIds(ids), options)

Project(document, projection) ==
    Restrict(document,
        {p \in DOMAIN document :
            IF p = "_id" THEN IF projection.mode = "include" THEN ~projection.noId
                              ELSE "_id" \notin projection.properties
            ELSE (p \in projection.properties) = (projection.mode = "include")})

TryLoadProjectedByFilter(filter, mode, projection, options) ==
    LET found == FindOne(docs, filter, options)
    IN IF found = {} THEN {Outcome(docs, Undefined)}
       ELSE {Outcome(docs, One(ToProjectedEntity(
                Project(docs[id], ToMongoProjection(mode, projection))))) : id \in found}
LoadProjectedByFilter(filter, mode, projection, options) ==
    ThrowIfUndefinedElsePass(TryLoadProjectedByFilter(filter, mode, projection, options))

LoadManyProjectedByFilter(filter, mode, projection, options) ==
    {Outcome(docs, Many([i \in DOMAIN ids |-> ToProjectedEntity(
                Project(docs[ids[i]], ToMongoProjection(mode, projection)))])) :
        ids \in Find(docs, filter, options)}
LoadManyProjectedById(ids, mode, projection, options) ==
    LoadManyProjectedByFilter(ByIds(ids), mode, projection, options)

CountByFilter(filter, options) ==
    {Outcome(docs, Number(Len(ids))) : ids \in Find(docs, filter, options)}
CountByFilterEstimated == {Outcome(docs, Number(Cardinality(DOMAIN docs)))}

Boolean(b) == Number(IF b THEN 1 ELSE 0)

HasByFilter(filter) ==
    {Outcome(docs, Boolean(o.reply.n > 0)) :
        o \in CountByFilter(filter, [NoOptions EXCEPT !.limit = 1])}
Has(id) == HasByFilter(ById(id))
\* The identifiers that are there: distinct, in any order.
HasMany(ids) == {Outcome(docs, Many(seq)) : seq \in InAnyOrder(MatchingIds(docs, ByIds(ids)))}

\* An identifier that is given twice is counted once.
HasAll(ids) ==
    {Outcome(docs, Boolean(o.reply.n = Len(ids))) : o \in CountByFilter(ByIds(ids), NoOptions)}

-----------------------------------------------------------------------------
(* Writing.                                                                   *)

Insert(entity, newId) ==
    LET document == MongoDocumentFromMaybeNewEntity(entity, newId)
        Reply(c) == One(ToEntity(document))
    IN ReplyOf(InsertOne(docs, document), Reply)

InsertIfNotExistsByFilter(filter, entity, newId) ==
    LET document == MongoDocumentFromMaybeNewEntity(entity, newId)
        Reply(c) == IF c.upserted = 0 THEN Undefined ELSE One(ToEntity(document))
    IN ReplyOf(UpdateOne(docs, filter, [set |-> <<>>, setOnInsert |-> document], TRUE), Reply)

\* The object as a filter: every property equals.
AsFilter(object) == [p \in DOMAIN object |-> Primitive(object[p])]

InsertIfNotExists(entity, newId) ==
    InsertIfNotExistsByFilter(AsFilter(ToNewEntity(entity)), entity, newId)

TryLoadByFilterAndDelete(filter, options) ==
    LET found == FindOne(docs, filter, options)
    IN IF found = {} THEN {Outcome(docs, Undefined)}
       ELSE {Outcome(Restrict(docs, DOMAIN docs \ {id}), One(ToEntity(docs[id]))) : id \in found}
LoadByFilterAndDelete(filter, options) ==
    ThrowIfUndefinedElsePass(TryLoadByFilterAndDelete(filter, options))
TryLoadAndDelete(id, options) == TryLoadByFilterAndDelete(ById(id), options)
LoadAndDelete(id, options) == ThrowIfUndefinedElsePass(TryLoadAndDelete(id, options))

TryLoadByFilterAndUpdate(filter, update, options, returnDocument) ==
    LET found == FindOne(docs, filter, options)
        After(id) == UpdateDocument(docs[id], update)
        Reply(id) == One(ToEntity(IF returnDocument = "after" THEN After(id) ELSE docs[id]))
    IN IF found = {} THEN {Outcome(docs, Undefined)}
       ELSE {IF Taken(docs, After(id)) THEN Outcome(docs, Rejected)
             ELSE Outcome(Put(docs, After(id)), Reply(id)) : id \in found}
LoadByFilterAndUpdate(filter, update, options, returnDocument) ==
    ThrowIfUndefinedElsePass(TryLoadByFilterAndUpdate(filter, update, options, returnDocument))
TryLoadAndUpdate(id, update, options, returnDocument) ==
    TryLoadByFilterAndUpdate(ById(id), update, options, returnDocument)
LoadAndUpdate(id, update, options, returnDocument) ==
    ThrowIfUndefinedElsePass(TryLoadAndUpdate(id, update, options, returnDocument))

DeleteByFilter(filter) ==
    LET Reply(c) == Boolean(c.deleted = 1) IN ReplyOf(DeleteOne(docs, filter), Reply)
DeleteById(id) == DeleteByFilter(ById(id))

DeleteManyByFilter(filter) ==
    LET Reply(c) == Number(c.deleted) IN ReplyOf(DeleteMany(docs, filter), Reply)
DeleteManyById(ids) ==
    IF ids = <<>> THEN {Outcome(docs, Number(0))} ELSE DeleteManyByFilter(ByIds(ids))

ReplaceByFilter(filter, entity, upsert) ==
    LET Reply(c) == Boolean(c.matched + c.upserted > 0)
    IN ReplyOf(ReplaceOne(docs, filter, ToMongoDocument(entity), upsert), Reply)

Replace(entity, upsert) ==
    LET document == ToMongoDocument(entity)
        Reply(c) == Boolean(c.matched + c.upserted > 0)
    IN ReplyOf(ReplaceOne(docs, ById(document["_id"]), document, upsert), Reply)

\* The driver refuses a replacement that holds $set: nothing is sent.
ReplaceByFilterOrInsert(filter, entity) == {Outcome(docs, Rejected)}

Update(filter, update, upsert) ==
    LET Reply(c) == Number(c.matched)
    IN ReplyOf(UpdateOne(docs, filter, update, upsert), Reply)

UpdateMany(filter, update) ==
    LET Reply(c) == Number(c.matched)
    IN ReplyOf(UpdateManyCommand(docs, filter, update), Reply)
-----------------------------------------------------------------------------
(* Operations of a bulk.                                                      *)

InsertOneOperation(document) == [op |-> "insertOne", document |-> document]
ReplaceOneOperation(document, upsert) ==
    [op |-> "replaceOne", filter |-> ById(document["_id"]), document |-> document,
     upsert |-> upsert]
UpdateOneOperation(filter, update, upsert) ==
    [op |-> "updateOne", filter |-> filter, update |-> update, upsert |-> upsert]
UpdateManyOperation(filter, update, upsert) ==
    [op |-> "updateMany", filter |-> filter, update |-> update, upsert |-> upsert]
DeleteOneOperation(filter) == [op |-> "deleteOne", filter |-> filter]
DeleteManyOperation(filter) == [op |-> "deleteMany", filter |-> filter]

\* What the server makes of an operation.
Execute(D, operation) ==
    CASE operation.op = "insertOne" -> InsertOne(D, operation.document)
      [] operation.op = "replaceOne" ->
            ReplaceOne(D, operation.filter, operation.document, operation.upsert)
      [] operation.op = "updateOne" ->
            UpdateOne(D, operation.filter, operation.update, operation.upsert)
      [] operation.op = "updateMany" ->
            IF operation.upsert /\ MatchingIds(D, operation.filter) = {}
            THEN UpdateOne(D, operation.filter, operation.update, TRUE)
            ELSE UpdateManyCommand(D, operation.filter, operation.update)
      [] operation.op = "deleteOne" -> DeleteOne(D, operation.filter)
      [] operation.op = "deleteMany" -> DeleteMany(D, operation.filter)
=============================================================================
