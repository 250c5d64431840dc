------------------------ MODULE MongoEntityRepository ------------------------
(* MongoEntityRepository over MongoBaseRepository, from the start of a process *)
(* (getMongoCollection, initialize) to the calls of several processes on one   *)
(* collection, with MongoBulk and MongoKeyValueStore.                         *)
(*                                                                            *)
(* A method that sends one command is one step; methods that only read change *)
(* nothing and are not part of Next, CallsAsPromised looks at what they answer *)
(* in every state. A bulk is built, and executed one operation at a time,     *)
(* while the others go on.                                                    *)
EXTENDS MongoCollection, SequencesExt

Base == INSTANCE MongoBaseRepository

CONSTANTS
    Client,    \* processes
    Wanted,    \* the indexes the repository is constructed with
    Existing,  \* sets of indexes that an earlier version may have left
    Mapping,   \* property of the entity -> key and transform in the document
    Entities,  \* what callers insert and update
    Patches,
    Queries,   \* queries that are converted to filters of the same meaning
    StepQueries,\* bound: those that the steps of several documents use
    BadQueries,\* queries of the interface that convertQuery cannot convert
    Options,
    Id,        \* the identifiers, numbers
    ValueField,\* the property that a key-value store keeps its value in
    BulkSize   \* bound: operations of a bulk

\* The names of the indexes of a collection are different, and so are those of
\* the repository's; an index is unique or not.
Named(set) ==
    /\ \A index \in set : {"name", "unique"} \subseteq DOMAIN index /\ index.unique \in BOOLEAN
    /\ \A x, y \in set : x.name = y.name => x = y
ASSUME IndexAssumption == Client # {} /\ Named(Wanted) /\ \A left \in Existing : Named(left)

VARIABLES
    exists, \* the collection was created
    phase,  \* per process: where the start is
    plan,   \* per process: the indexes to drop and to create
    bulk    \* the bulk that is built or executed

vars == <<docs, indexes, exists, phase, plan, bulk>>

NoPlan == [drop |-> {}, create |-> {}]
NoBulk == [phase |-> "idle", method |-> "none", ordered |-> FALSE, ops |-> <<>>,
           entities |-> <<>>, tried |-> {}, failed |-> {}, matched |-> {}, upserted |-> {},
           reply |-> Undefined, client |-> "none"]

Init ==
    /\ docs = <<>>
    /\ exists \in BOOLEAN
    /\ indexes \in (IF exists THEN Existing ELSE {{}})
    /\ phase = [c \in Client |-> "collection"]
    /\ plan = [c \in Client |-> NoPlan]
    /\ bulk = NoBulk

-----------------------------------------------------------------------------
(* The start: getMongoRepository of the instance provider.                    *)

Goto(c, next) == phase' = [phase EXCEPT ![c] = next]

\* The collections are listed, and the collection is created if it is missing.
FindCollection(c) ==
    /\ phase[c] = "collection"
    /\ Goto(c, IF exists THEN "initialize" ELSE "create")
    /\ UNCHANGED <<docs, indexes, exists, plan, bulk>>

\* Creating a collection that is there is an error.
CreateCollection(c) ==
    /\ phase[c] = "create"
    /\ Goto(c, IF exists THEN "failed" ELSE "initialize")
    /\ exists' = TRUE
    /\ UNCHANGED <<docs, indexes, plan, bulk>>

NormalizeIndex(index) ==
    Restrict(index, DOMAIN index \ {"v", "background", "ns"})

\* Mutant: an index is known by its name alone.
ReadIndexesByName(c) ==
    /\ phase[c] = "initialize"
    /\ LET names == {index.name : index \in indexes}
       IN plan' = [plan EXCEPT ![c] =
            [drop |-> names \ {w.name : w \in Wanted},
             create |-> {w \in Wanted : w.name \notin names}]]
    /\ Goto(c, IF exists THEN "indexes" ELSE "failed")
    /\ UNCHANGED <<docs, indexes, exists, bulk>>

\* initialize up to the first change: what is there is compared with what is
\* wanted. Listing the indexes of a collection that is gone is an error.
ReadIndexes(c) ==
    /\ phase[c] = "initialize"
    /\ LET existing == {NormalizeIndex(index) : index \in indexes}
           unwanted == {e \in existing : \A w \in Wanted : e # NormalizeIndex(w)}
           required == {w \in Wanted : \A e \in existing : NormalizeIndex(w) # e}
       IN plan' = [plan EXCEPT ![c] = [drop |-> {e.name : e \in unwanted}, create |-> required]]
    /\ Goto(c, IF exists THEN "indexes" ELSE "failed")
    /\ UNCHANGED <<docs, indexes, exists, bulk>>

\* An index is dropped by its name; one that is gone is an error.
DropIndex(c) ==
    /\ phase[c] = "indexes"
    /\ \E name \in plan[c].drop :
          /\ indexes' = {index \in indexes : index.name # name}
          /\ Goto(c, IF indexes' = indexes THEN "failed" ELSE "indexes")
          /\ plan' = [plan EXCEPT ![c].drop = @ \ {name}]
    /\ UNCHANGED <<docs, exists, bulk>>

\* Another index has the name, or the documents are not unique.
CannotCreate(create) ==
    \/ \E index \in indexes, w \in create :
          index.name = w.name /\ NormalizeIndex(index) # NormalizeIndex(w)
    \/ /\ \E w \in create : w.unique
       /\ \E x, y \in DOMAIN docs :
             x # y /\ Field(docs[x], UniqueField) = Field(docs[y], UniqueField)

\* The server adds the version to an index it creates.
Versioned(w) == [key \in DOMAIN w \cup {"v"} |-> IF key = "v" THEN 2 ELSE w[key]]

CreateIndexes(c) ==
    /\ phase[c] = "indexes"
    /\ plan[c].drop = {}
    /\ IF plan[c].create # {} /\ CannotCreate(plan[c].create)
       THEN Goto(c, "failed") /\ UNCHANGED <<indexes, exists>>
       ELSE /\ Goto(c, "ready")
            /\ indexes' = indexes \cup
                  {Versioned(w) : w \in {x \in plan[c].create :
                      \A index \in indexes : NormalizeIndex(index) # NormalizeIndex(x)}}
            /\ exists' = (exists \/ plan[c].create # {})
    /\ plan' = [plan EXCEPT ![c] = NoPlan]
    /\ UNCHANGED <<docs, bulk>>

\* A process that failed to start, or crashed, starts again. What its bulk wrote
\* stays written.
Restart(c) ==
    /\ phase[c] # "collection"
    /\ bulk.client \in {c, "none"}
    /\ Goto(c, "collection")
    /\ plan' = [plan EXCEPT ![c] = NoPlan]
    /\ bulk' = IF bulk.client = c THEN NoBulk ELSE bulk
    /\ UNCHANGED <<docs, indexes, exists>>

-----------------------------------------------------------------------------
(* transform and untransform of the application, as its mapping says.         *)

Key(p) == IF p \in DOMAIN Mapping THEN Mapping[p].key ELSE p
Plus(p) == IF p \in DOMAIN Mapping THEN Mapping[p].plus ELSE 0

Transform(entity) ==
    [key \in {Key(p) : p \in DOMAIN entity} |->
        LET p == CHOOSE q \in DOMAIN entity : Key(q) = key IN entity[p] + Plus(p)]

PropertyOf(key) ==
    IF \E p \in DOMAIN Mapping : Mapping[p].key = key
    THEN CHOOSE p \in DOMAIN Mapping : Mapping[p].key = key ELSE key

Untransform(item) ==
    [p \in {PropertyOf(key) : key \in DOMAIN item} |-> item[Key(p)] - Plus(p)]

UntransformReply(reply) ==
    CASE reply.kind = "one" -> One(Untransform(reply.entity))
      [] reply.kind = "many" ->
            Many([i \in DOMAIN reply.entities |-> Untransform(reply.entities[i])])
      [] OTHER -> reply

Untransformed(outcomes) ==
    {Outcome(o.docs, UntransformReply(o.reply)) : o \in outcomes}

TransformFilter(query) == ConvertQuery(Mapping, query, "none")

\* A query that cannot be converted rejects before anything is sent.
WithFilter(query, Method(_)) ==
    IF TransformFilter(query) = {} THEN {Outcome(docs, Rejected)}
    ELSE UNION {Method(filter) : filter \in TransformFilter(query)}

\* Mutant: the values of the patch are stored as they are.
TransformPatchNamesOnly(patch) ==
    [set |-> [key \in {Key(p) : p \in DOMAIN patch} |-> patch[PropertyOf(key)]],
     setOnInsert |-> <<>>]

TransformPatch(patch) == [set |-> Transform(patch), setOnInsert |-> <<>>]

ConvertOptions(options) ==
    IF options.sort.field = "none" THEN [options EXCEPT !.sort = NoSort]
    ELSE [options EXCEPT !.sort = ConvertSort(Mapping, options.sort)]

Options0 == [NoOptions EXCEPT !.sort.order = "asc"]

ReturnDocument(includePatch) == IF includePatch THEN "after" ELSE "before"
-----------------------------------------------------------------------------
(* Methods that read.                                                         *)

Load(id) == Untransformed(Base!Load(id, NoOptions))
TryLoad(id) == Untransformed(Base!TryLoad(id, NoOptions))
LoadMany(ids, options) == Untransformed(Base!LoadManyById(ids, ConvertOptions(options)))
LoadAll(options) == Untransformed(Base!LoadManyByFilter(<<>>, ConvertOptions(options)))

LoadByFilter(query, options) ==
    LET Method(filter) == Base!LoadByFilter(filter, ConvertOptions(options))
    IN Untransformed(WithFilter(query, Method))
TryLoadByFilter(query, options) ==
    LET Method(filter) == Base!TryLoadByFilter(filter, ConvertOptions(options))
    IN Untransformed(WithFilter(query, Method))
LoadManyByFilter(query, options) ==
    LET Method(filter) == Base!LoadManyByFilter(filter, ConvertOptions(options))
    IN Untransformed(WithFilter(query, Method))

HasByFilter(query) == WithFilter(query, Base!HasByFilter)
CountByFilter(query) ==
    LET Method(filter) == Base!CountByFilter(filter, NoOptions)
    IN WithFilter(query, Method)
Count(allowEstimation) ==
    IF allowEstimation THEN Base!CountByFilterEstimated ELSE Base!CountByFilter(<<>>, NoOptions)

-----------------------------------------------------------------------------
(* Methods that write.                                                        *)

LoadByFilterAndDelete(query, options) ==
    LET Method(filter) == Base!LoadByFilterAndDelete(filter, ConvertOptions(options))
    IN Untransformed(WithFilter(query, Method))
TryLoadByFilterAndDelete(query, options) ==
    LET Method(filter) == Base!TryLoadByFilterAndDelete(filter, ConvertOptions(options))
    IN Untransformed(WithFilter(query, Method))
LoadAndDelete(id) == LoadByFilterAndDelete("id" :> Primitive(id), Options0)
TryLoadAndDelete(id) == TryLoadByFilterAndDelete("id" :> Primitive(id), Options0)

LoadByFilterAndPatch(query, patch, includePatch, options) ==
    LET Method(filter) == Base!LoadByFilterAndUpdate(
            filter, TransformPatch(patch), ConvertOptions(options), ReturnDocument(includePatch))
    IN Untransformed(WithFilter(query, Method))
TryLoadByFilterAndPatch(query, patch, includePatch, options) ==
    LET Method(filter) == Base!TryLoadByFilterAndUpdate(
            filter, TransformPatch(patch), ConvertOptions(options), ReturnDocument(includePatch))
    IN Untransformed(WithFilter(query, Method))
LoadAndPatch(id, patch, includePatch) ==
    LoadByFilterAndPatch("id" :> Primitive(id), patch, includePatch, Options0)
TryLoadAndPatch(id, patch, includePatch) ==
    TryLoadByFilterAndPatch("id" :> Primitive(id), patch, includePatch, Options0)

\* matchedCount > 0
AnyMatched(outcomes) ==
    {IF o.reply.kind = "number" THEN Outcome(o.docs, Number(IF o.reply.n > 0 THEN 1 ELSE 0))
     ELSE o : o \in outcomes}

Patch(id, patch) == AnyMatched(Base!Update(Base!ById(id), TransformPatch(patch), FALSE))
PatchMany(ids, patch) == Base!UpdateMany(Base!ByIds(ids), TransformPatch(patch))
PatchByFilter(query, patch) ==
    LET Method(filter) == AnyMatched(Base!Update(filter, TransformPatch(patch), FALSE))
    IN WithFilter(query, Method)
PatchManyByFilter(query, patch) ==
    LET Method(filter) == Base!UpdateMany(filter, TransformPatch(patch))
    IN WithFilter(query, Method)

Insert(entity, newId) == Untransformed(Base!Insert(Transform(entity), newId))
Update(entity, upsert) == Base!Replace(Transform(entity), upsert)

DeleteById(id) == Base!DeleteById(id)
Delete(entity) == Base!DeleteById(entity["id"])
DeleteManyById(ids) == Base!DeleteManyById(ids)
DeleteByFilter(query) == WithFilter(query, Base!DeleteByFilter)
DeleteManyByFilter(query) == WithFilter(query, Base!DeleteManyByFilter)
-----------------------------------------------------------------------------
(* MongoKeyValueStore: one document per key (the scope is left out), with the *)
(* value in the property of the document that Mapping gives the value.        *)

ByKey(key) == UniqueField :> Primitive(key)

KvGet(key, defaultValue) ==
    {IF o.reply = Undefined THEN Outcome(o.docs, Number(defaultValue))
     ELSE Outcome(o.docs, Number(o.reply.entity[ValueField])) :
        o \in Base!TryLoadByFilter(ByKey(key), NoOptions)}

KvSet(key, value, newId) ==
    Base!Update(ByKey(key), [set |-> ValueField :> value, setOnInsert |-> "_id" :> newId], TRUE)

KvDelete(key) == Base!DeleteByFilter(ByKey(key))

-----------------------------------------------------------------------------
(* The calls of one command as steps.                                         *)

Ready(c) == phase[c] = "ready"

\* getNewId: an identifier that nobody has.
NewId ==
    Id \ (DOMAIN docs \cup {bulk.entities[i]["id"] : i \in DOMAIN bulk.entities})

\* Bound: others call before a bulk is made and while it is executed.
Call(c, outcomes) ==
    /\ Ready(c)
    /\ bulk.phase \in {"idle", "running"}
    /\ \E o \in outcomes : docs' = o.docs
    /\ UNCHANGED <<indexes, exists, phase, plan, bulk>>

ByAnyId == {"id" :> Primitive(id) : id \in Id}

CallInsert(c) ==
    \/ \E e \in Entities : Call(c, Insert(e, 0))
    \/ \E e \in Entities, id \in NewId : Call(c, Insert(Without(e, "id"), id))
CallInsertIfNotExists(c) ==
    \E e \in Entities, id \in NewId :
        Call(c, Base!InsertIfNotExists(Transform(Without(e, "id")), id))
CallUpdate(c) == \E e \in Entities, upsert \in BOOLEAN : Call(c, Update(e, upsert))
CallPatch(c) == \E q \in ByAnyId, p \in Patches : Call(c, PatchByFilter(q, p))
CallPatchMany(c) == \E q \in StepQueries, p \in Patches : Call(c, PatchManyByFilter(q, p))
CallLoadAndPatch(c) ==
    \E q \in StepQueries, p \in Patches :
        Call(c, TryLoadByFilterAndPatch(q, p, TRUE, Options0))
CallLoadAndDelete(c) ==
    \E q \in StepQueries : Call(c, TryLoadByFilterAndDelete(q, Options0))
CallDelete(c) == \E q \in ByAnyId : Call(c, DeleteByFilter(q))
CallDeleteMany(c) == \E q \in StepQueries : Call(c, DeleteManyByFilter(q))
CallKvSet(c) ==
    \E e \in Entities, id \in NewId :
        Call(c, KvSet(Transform(e)[UniqueField], Transform(e)[ValueField], id))
CallKvDelete(c) == \E e \in Entities : Call(c, KvDelete(Transform(e)[UniqueField]))

-----------------------------------------------------------------------------
(* MongoBulk: operations are collected, then sent with one call.              *)

\* Bound: while there is a bulk nobody else starts.
MayBulk(c) == bulk.phase = "idle" /\ \A d \in Client : Ready(d)

NewBulk(c) ==
    /\ MayBulk(c)
    /\ bulk' = [NoBulk EXCEPT !.phase = "building", !.method = "execute", !.client = c]
    /\ UNCHANGED <<docs, indexes, exists, phase, plan>>

Push(operations) ==
    /\ bulk.phase = "building"
    /\ Len(bulk.ops) + Len(operations) <= BulkSize
    /\ bulk' = [bulk EXCEPT !.ops = @ \o operations]
    /\ UNCHANGED <<docs, indexes, exists, phase, plan>>

AsDocument(entity) == MongoDocumentFromMaybeNewEntity(Transform(entity), 0)

BulkInsert == \E e \in Entities : Push(<<Base!InsertOneOperation(AsDocument(e))>>)
\* Assigns the value, and the rest if there is no document with the key.
BulkUpdate ==
    \E e \in Entities :
        Push(<<Base!UpdateOneOperation(ByKey(Transform(e)[UniqueField]),
                  [set |-> ValueField :> Transform(e)[ValueField],
                   setOnInsert |-> Without(AsDocument(e), ValueField)], TRUE)>>)
BulkUpdateMany ==
    \E p \in Patches : Push(<<Base!UpdateManyOperation(<<>>, TransformPatch(p), FALSE)>>)
BulkReplace ==
    \E e \in Entities : Push(<<Base!ReplaceOneOperation(AsDocument(e), FALSE)>>)
BulkDelete == \E e \in Entities : Push(<<Base!DeleteOneOperation(Base!ById(e["id"]))>>)
BulkDeleteMany ==
    \E e, f \in Entities :
        /\ e["id"] < f["id"]
        /\ Push(<<Base!DeleteManyOperation(Base!ByIds(<<e["id"], f["id"]>>))>>)

\* execute: a bulk is executed once, and one without operations throws.
ExecuteBulk ==
    /\ bulk.phase = "building"
    /\ bulk' = IF bulk.ops = <<>> THEN [bulk EXCEPT !.phase = "done", !.reply = Rejected]
               ELSE [bulk EXCEPT !.phase = "running"]
    /\ UNCHANGED <<docs, indexes, exists, phase, plan>>

\* The methods of several entities: the operations are made and sent at once.
Start(c, method, ordered, entities, operations) ==
    /\ MayBulk(c)
    /\ bulk' = [NoBulk EXCEPT !.phase = "running", !.method = method, !.ordered = ordered,
                              !.entities = entities, !.ops = operations, !.client = c]
    /\ UNCHANGED <<docs, indexes, exists, phase, plan>>

SeveralEntities == {seq \in [1..2 -> Entities] : seq[1]["id"] # seq[2]["id"]}

InsertMany(c) ==
    \E es \in SeveralEntities :
        Start(c, "insertMany", FALSE, es,
              [i \in DOMAIN es |-> Base!InsertOneOperation(AsDocument(es[i]))])
InsertManyIfNotExists(c) ==
    \E es \in SeveralEntities :
        LET Filter(e) == Base!AsFilter(ToNewEntity(Transform(e)))
        IN Start(c, "insertManyIfNotExists", FALSE, es,
                 [i \in DOMAIN es |-> Base!UpdateOneOperation(Filter(es[i]),
                    [set |-> <<>>, setOnInsert |-> AsDocument(es[i])], TRUE)])
\* updateMany of the entity repository
ReplaceMany(c) ==
    \E es \in SeveralEntities, upsert \in BOOLEAN :
        Start(c, "replaceMany", TRUE, es,
              [i \in DOMAIN es |-> Base!ReplaceOneOperation(
                    ToMongoDocument(Transform(es[i])), upsert)])

AddIf(condition, i, set) == IF condition THEN set \cup {i} ELSE set

\* The bulk when the outcome of its operation i is known.
Tried(i, o) ==
    [bulk EXCEPT !.tried = @ \cup {i},
                 !.failed = AddIf(o.error, i, @),
                 !.matched = AddIf(o.matched > 0, i, @),
                 !.upserted = AddIf(o.upserted > 0, i, @)]

\* An unordered bulk is executed in any order and to its end; an ordered one
\* ends at the first operation that fails.
ExecuteOperation ==
    /\ bulk.phase = "running"
    /\ \E i \in DOMAIN bulk.ops \ bulk.tried :
          /\ bulk.ordered => bulk.failed = {} /\ 1..(i - 1) \subseteq bulk.tried
          /\ \E o \in Base!Execute(docs, bulk.ops[i]) :
                /\ docs' = o.docs
                /\ bulk' = Tried(i, o)
    /\ UNCHANGED <<indexes, exists, phase, plan>>

Written == Cardinality(bulk.matched) + Cardinality(bulk.upserted)
Inserted == SetToSeq({bulk.entities[i] : i \in bulk.upserted})

\* Mutant: what could not be inserted is returned, too.
InsertManyIfNotExistsReturnsAll == Many(bulk.entities)

InsertManyIfNotExistsReply == Many(Inserted)
InsertManyReply == Many(bulk.entities)
ReplaceManyReply ==
    IF Written # Len(bulk.entities) THEN NotFound ELSE Number(Written)

FinishBulk ==
    /\ bulk.phase = "running"
    /\ bulk.tried = DOMAIN bulk.ops \/ (bulk.ordered /\ bulk.failed # {})
    /\ bulk' = [bulk EXCEPT !.phase = "done", !.reply =
          IF bulk.failed # {} THEN Rejected
          ELSE CASE bulk.method = "insertMany" -> InsertManyReply
                 [] bulk.method = "insertManyIfNotExists" -> InsertManyIfNotExistsReply
                 [] bulk.method = "replaceMany" -> ReplaceManyReply
                 [] OTHER -> Undefined]
    /\ UNCHANGED <<docs, indexes, exists, phase, plan>>

ForgetBulk ==
    /\ bulk.phase = "done"
    /\ bulk' = NoBulk
    /\ UNCHANGED <<docs, indexes, exists, phase, plan>>
-----------------------------------------------------------------------------
Next ==
    \/ \E c \in Client :
          \/ FindCollection(c) \/ CreateCollection(c) \/ ReadIndexes(c)
          \/ DropIndex(c) \/ CreateIndexes(c) \/ Restart(c)
          \/ CallInsert(c) \/ CallInsertIfNotExists(c) \/ CallUpdate(c)
          \/ CallPatch(c) \/ CallPatchMany(c) \/ CallLoadAndPatch(c)
          \/ CallLoadAndDelete(c) \/ CallDelete(c) \/ CallDeleteMany(c)
          \/ CallKvSet(c) \/ CallKvDelete(c)
          \/ NewBulk(c) \/ InsertMany(c) \/ InsertManyIfNotExists(c) \/ ReplaceMany(c)
    \/ BulkInsert \/ BulkUpdate \/ BulkUpdateMany \/ BulkReplace
    \/ BulkDelete \/ BulkDeleteMany
    \/ ExecuteBulk \/ ExecuteOperation \/ FinishBulk \/ ForgetBulk

Spec == Init /\ [][Next]_vars

-----------------------------------------------------------------------------
(* Properties.                                                                *)

\* Once every process has started, the collection has exactly the wanted
\* indexes, and no two documents break a unique one: although a start that read
\* the indexes before another one changed them drops, by its name, an index that
\* is already the right one, and although other processes write while it is gone.
NoDuplicates(D) ==
    \A x, y \in DOMAIN D : Field(D[x], UniqueField) = Field(D[y], UniqueField) => x = y
ReadyIsUnique ==
    (\A c \in Client : Ready(c))
    => /\ {NormalizeIndex(index) : index \in indexes} = {NormalizeIndex(w) : w \in Wanted}
       /\ (\E w \in Wanted : w.unique) => NoDuplicates(docs)

\* Why: an index that is not wanted is dropped by whoever starts, and a wanted
\* one that is missing is created by somebody who has not started yet, also by
\* who drops it in error: it was not there when that process looked.
IsWanted(index) == \E w \in Wanted : NormalizeIndex(index) = NormalizeIndex(w)
IsThere(w) == \E index \in indexes : NormalizeIndex(index) = NormalizeIndex(w)
PlanInv ==
    \A c \in Client : phase[c] = "indexes" =>
        /\ plan[c].create \subseteq Wanted
        /\ \A w \in Wanted : w.name \in plan[c].drop => w \in plan[c].create
UnwantedInv ==
    \A index \in indexes, c \in Client :
        /\ phase[c] = "indexes" => IsWanted(index) \/ index.name \in plan[c].drop
        /\ Ready(c) => IsWanted(index)
MissingInv ==
    \A w \in Wanted : IsThere(w) \/ \E c \in Client :
        ~Ready(c) /\ (phase[c] = "indexes" => w \in plan[c].create)

\* The server keeps the documents different while it has a unique index.
Sound(D) == IsFiniteSet(DOMAIN D) /\ (CollectionUnique => NoDuplicates(D))

Names == {index.name : index \in Wanted \cup UNION Existing}
StartInv ==
    /\ phase \in [Client -> {"collection", "create", "initialize", "indexes",
                             "ready", "failed"}]
    /\ plan \in [Client -> [drop : SUBSET Names, create : SUBSET Wanted]]
    /\ Named(indexes) /\ {index.name : index \in indexes} \subseteq Names
    /\ PlanInv /\ UnwantedInv /\ MissingInv /\ Sound(docs)

\* What a call with several entities answers is what the server did, whatever
\* the others wrote in between: all that insertMany and insertManyIfNotExists
\* return was inserted by this very call, and all it inserted is returned;
\* replaceMany returns only if every entity was written; an unordered bulk
\* that rejects was tried to its end, an ordered one to its first failure.
BulkAccounted ==
    bulk.phase = "done" =>
        LET all == DOMAIN bulk.ops
            written == bulk.matched \cup bulk.upserted
        IN CASE bulk.reply.kind = "many" ->
                    /\ bulk.failed = {}
                    /\ ToSet(bulk.reply.entities) = {bulk.entities[i] : i \in bulk.upserted}
             [] bulk.reply.kind = "number" -> written = all
             [] bulk.reply.kind = "notFound" -> bulk.tried = all /\ written # all
             [] bulk.reply.kind = "rejected" ->
                    /\ all = {} \/ bulk.failed # {}
                    /\ IF bulk.ordered THEN bulk.tried = 1..Cardinality(bulk.tried)
                                            /\ bulk.failed = {Cardinality(bulk.tried)}
                       ELSE bulk.tried = all
             [] OTHER -> bulk.failed = {} /\ bulk.tried = all

\* Why: what of a bulk was tried, failed and wrote.
OperationNames ==
    {"insertOne", "replaceOne", "updateOne", "updateMany", "deleteOne", "deleteMany"}
BulkTypeOK ==
    /\ bulk.ops \in Seq(ToSet(bulk.ops))
    /\ bulk \in [phase : {"idle", "building", "running", "done"},
                 method : {"none", "execute", "insertMany", "insertManyIfNotExists", "replaceMany"},
                 ordered : BOOLEAN, ops : {bulk.ops}, entities : Seq(Entities),
                 tried : SUBSET DOMAIN bulk.ops, failed : SUBSET bulk.tried,
                 matched : SUBSET bulk.tried, upserted : SUBSET bulk.tried,
                 reply : {bulk.reply}, client : {bulk.client}]
    /\ \A i \in DOMAIN bulk.ops : bulk.ops[i].op \in OperationNames
TriedInv ==
    /\ bulk.phase = "building" => bulk.tried = {} /\ ~bulk.ordered /\ bulk.method = "execute"
    /\ bulk.ordered =>
          \E n \in 0..Len(bulk.ops) : bulk.tried = 1..n /\ bulk.failed \subseteq {n}
MethodInv ==
    /\ bulk.method \notin {"none", "execute"} => DOMAIN bulk.entities = DOMAIN bulk.ops
    /\ bulk.method = "insertMany" =>
          /\ \A i \in DOMAIN bulk.ops : bulk.ops[i].op = "insertOne"
          /\ bulk.upserted = bulk.tried \ bulk.failed
    /\ bulk.method = "replaceMany" =>
          /\ \A i \in DOMAIN bulk.ops : bulk.ops[i].op = "replaceOne"
          /\ bulk.matched \cap bulk.upserted = {}

RepositoryInv == StartInv /\ BulkTypeOK /\ TriedInv /\ MethodInv /\ BulkAccounted

-----------------------------------------------------------------------------
(* What the methods answer, against EntityStore.                              *)

Store == INSTANCE EntityStore WITH UniqueProperty <- PropertyOf(UniqueField)

EntitiesOf(D) == {Untransform(ToEntity(D[id])) : id \in DOMAIN D}
Stored == EntitiesOf(docs)

Answers(outcomes) == {Store!Answer(EntitiesOf(o.docs), o.reply) : o \in outcomes}

AreListings(outcomes, query, options) ==
    /\ outcomes # {}
    /\ \A o \in outcomes :
          o.docs = docs /\ Store!IsListing(Stored, query, options, o.reply.entities)

HasId(id) == "id" :> Primitive(id)
HasAnyId(ids) == "id" :> Object("$in" :> Array(ids))

LoadsAsPromised(q, o) ==
    /\ Answers(LoadByFilter(q, o)) = Store!Load(Stored, q, o, "notFound")
    /\ Answers(TryLoadByFilter(q, o)) = Store!Load(Stored, q, o, "undefined")
    /\ AreListings(LoadManyByFilter(q, o), q, o)
    /\ AreListings(LoadAll(o), <<>>, o)
    /\ Answers(LoadByFilterAndDelete(q, o)) = Store!LoadAndDelete(Stored, q, o, "notFound")
    /\ Answers(TryLoadByFilterAndDelete(q, o)) = Store!LoadAndDelete(Stored, q, o, "undefined")

QueriesAsPromised(q) ==
    /\ Answers(HasByFilter(q)) = Store!Has(Stored, q)
    /\ Answers(CountByFilter(q)) = Store!Count(Stored, q)
    /\ Answers(DeleteByFilter(q)) = Store!Delete(Stored, q)
    /\ Answers(DeleteManyByFilter(q)) = Store!DeleteMany(Stored, q)

PatchesAsPromised(q, p) ==
    /\ Answers(PatchByFilter(q, p)) = Store!Patch(Stored, CollectionUnique, q, p)
    /\ Answers(PatchManyByFilter(q, p)) = Store!PatchMany(Stored, CollectionUnique, q, p)
    /\ \A o \in Options, b \in BOOLEAN :
          /\ Answers(LoadByFilterAndPatch(q, p, b, o))
                = Store!LoadAndPatch(Stored, CollectionUnique, q, o, p, b, "notFound")
          /\ Answers(TryLoadByFilterAndPatch(q, p, b, o))
                = Store!LoadAndPatch(Stored, CollectionUnique, q, o, p, b, "undefined")

IdsAsPromised(id) ==
    LET q == HasId(id) IN
    /\ Answers(Load(id)) = Store!Load(Stored, q, Options0, "notFound")
    /\ Answers(TryLoad(id)) = Store!Load(Stored, q, Options0, "undefined")
    /\ Answers(LoadAndDelete(id)) = Store!LoadAndDelete(Stored, q, Options0, "notFound")
    /\ Answers(TryLoadAndDelete(id)) = Store!LoadAndDelete(Stored, q, Options0, "undefined")
    /\ Answers(Base!Has(id)) = Store!Has(Stored, q)
    /\ Answers(DeleteById(id)) = Store!Delete(Stored, q)
    /\ \A p \in Patches, b \in BOOLEAN :
          /\ Answers(Patch(id, p)) = Store!Patch(Stored, CollectionUnique, q, p)
          /\ Answers(Untransformed(Base!LoadAndUpdate(id, TransformPatch(p), NoOptions,
                                                      ReturnDocument(b))))
                = Answers(LoadAndPatch(id, p, b))
          /\ Answers(LoadAndPatch(id, p, b))
                = Store!LoadAndPatch(Stored, CollectionUnique, q, Options0, p, b, "notFound")
          /\ Answers(TryLoadAndPatch(id, p, b))
                = Store!LoadAndPatch(Stored, CollectionUnique, q, Options0, p, b, "undefined")

\* hasAll is asked for different identifiers only: one that is given twice is
\* counted once, and the answer is no.
ManyIdsAsPromised(ids) ==
    LET q == HasAnyId(ids) IN
    /\ \A o \in Options : AreListings(LoadMany(ids, o), q, o)
    /\ Answers(DeleteManyById(ids)) = Store!DeleteMany(Stored, q)
    /\ \A p \in Patches :
          Answers(PatchMany(ids, p)) = Store!PatchMany(Stored, CollectionUnique, q, p)
    /\ {o.reply.n : o \in Base!HasAll(ids)}
          = {IF \A id \in ToSet(ids) : Store!Satisfying(Stored, HasId(id)) # {} THEN 1 ELSE 0}
    /\ \A o \in Base!HasMany(ids) :
          ToSet(o.reply.entities) = {e["id"] : e \in Store!Satisfying(Stored, q)}

EntitiesAsPromised(e) ==
    /\ Answers(Insert(e, 0)) = Store!Insert(Stored, CollectionUnique, e)
    /\ \A b \in BOOLEAN : Answers(Update(e, b)) = Store!Update(Stored, CollectionUnique, e, b)
    /\ \A b \in BOOLEAN :
          Answers(Base!ReplaceByFilter(Base!ById(e["id"]), Transform(e), b)) = Answers(Update(e, b))
    /\ Answers(Base!ReplaceByFilterOrInsert(Base!ById(e["id"]), Transform(e)))
          = {Store!Refused(Stored)}
    /\ \A id \in NewId :
          LET q == Base!AsFilter(ToNewEntity(e))
              new == [e EXCEPT !["id"] = id]
          IN Answers(Untransformed(Base!InsertIfNotExists(Transform(ToNewEntity(e)), id)))
               = IF Store!Satisfying(Stored, q) # {}
                 THEN {Store!Answer(Stored, Undefined)}
                 ELSE Store!Insert(Stored, CollectionUnique, new)
    /\ Answers(Delete(e)) = Store!Delete(Stored, HasId(e["id"]))

\* A projection gives the properties that it names and no others.
ProjectionsAsPromised(q, o) ==
    \A properties \in SUBSET {"id", Key("v")} :
        \A f \in TransformFilter(q) :
            \A x \in Base!LoadManyProjectedByFilter(f, "include", properties, ConvertOptions(o)) :
                \A i \in DOMAIN x.reply.entities : DOMAIN x.reply.entities[i] = properties

\* While a key has one document, the store of keys and values gives what is in
\* it, and a set is seen by the next get of any process.
KeysAsPromised(e) ==
    LET k == Transform(e)[UniqueField]
        v == Transform(e)[ValueField]
        Values(D) == {D[id][ValueField] : id \in {x \in DOMAIN D : D[x][UniqueField] = k}}
    IN Cardinality({id \in DOMAIN docs : docs[id][UniqueField] = k}) <= 1 =>
         /\ {o.reply.n : o \in KvGet(k, 0)} = IF Values(docs) = {} THEN {0} ELSE Values(docs)
         /\ \A id \in NewId : \A o \in KvSet(k, v, id) : Values(o.docs) = {v}

\* Once all have started: whatever documents the calls have left, every method does
\* to the entities, and answers, what EntityStore says: the conversions of
\* entities, filters, sort fields, patches and replies fit together. A query
\* that cannot be converted is refused before anything is written.
CallsAsPromised ==
    bulk.phase = "idle" /\ (\A c \in Client : Ready(c)) =>
        /\ \A q \in Queries, o \in Options : LoadsAsPromised(q, o) /\ ProjectionsAsPromised(q, o)
        /\ \A q \in Queries : QueriesAsPromised(q)
        /\ \A q \in Queries, p \in Patches : PatchesAsPromised(q, p)
        /\ \A id \in Id : IdsAsPromised(id)
        /\ \A x, y \in Id : x # y => ManyIdsAsPromised(<<x, y>>)
        /\ \A e \in Entities : EntitiesAsPromised(e) /\ KeysAsPromised(e)
        /\ \A b \in BOOLEAN : Answers(Count(b)) = Store!Count(Stored, <<>>)
        /\ \A q \in BadQueries, o \in Options :
              /\ Answers(LoadByFilter(q, o)) = {Store!Refused(Stored)}
              /\ Answers(DeleteManyByFilter(q)) = {Store!Refused(Stored)}
=============================================================================
