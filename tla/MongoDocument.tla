---------------------------- MODULE MongoDocument ----------------------------
(* The conversions between what the callers of a repository speak of and what *)
(* MongoDB is sent: entities and documents (model/document.ts), queries and   *)
(* filters, sort fields (query-converter.ts).                                 *)
(*                                                                            *)
(* Objects are functions from their property names; a property that is        *)
(* undefined is not in the domain. The values of properties are numbers. In a *)
(* query a value is tagged, as TLC cannot compare a number with an object.    *)
EXTENDS Integers, Sequences, FiniteSets, Functions, TLC

\* { [property]: _, ...rest }
Without(object, property) == Restrict(object, DOMAIN object \ {property})

\* The properties of the second object win, as in { ...first, ...second }.
Spread(first, second) == second @@ first

Optional(property, object, name) ==
    IF property \in DOMAIN object THEN name :> object[property] ELSE <<>>

-----------------------------------------------------------------------------
(* Entities and documents.                                                    *)

ToEntity(document) == Spread("id" :> document["_id"], Without(document, "_id"))

ToNewEntity(entity) == Without(entity, "id")

ToProjectedEntity(document) ==
    Spread(Optional("_id", document, "id"), Without(document, "_id"))

\* A projection names properties; mode "include" gives those, "exclude" the
\* others. MongoDB includes the identifier unless it is told not to.
ToMongoProjection(mode, projection) ==
    [mode |-> mode,
     properties |-> {p \in projection : p # "id"}
                        \cup (IF "id" \in projection THEN {"_id"} ELSE {}),
     noId |-> mode = "include" /\ "id" \notin projection]

RenameIdPropertyToUnderscoreId(object) ==
    Spread(Optional("id", object, "_id"), Without(object, "id"))

ToMongoDocument(entity) == RenameIdPropertyToUnderscoreId(entity)

\* newId is what getNewId() returns if it is called.
MongoDocumentFromMaybeNewEntity(entity, newId) ==
    Spread("_id" :> (IF "id" \in DOMAIN entity THEN entity["id"] ELSE newId),
           Without(entity, "id"))

-----------------------------------------------------------------------------
(* Mapped properties: what EntityTransformer.mapping of the application says. *)

\* Values in a query.
Primitive(n) == [kind |-> "primitive", n |-> n]
Array(items) == [kind |-> "array", items |-> items]
Object(query) == [kind |-> "object", query |-> query]

\* What a transform that computes with numbers makes of an object: a value
\* that nothing matches. A transform that returns its argument (plus = 0) does
\* so with an object, too.
Garbage == -1

\* mapping.transform(value)
TransformValue(mapping, value) ==
    IF mapping.plus = 0 THEN value
    ELSE Primitive(IF value.kind = "primitive" THEN value.n + mapping.plus ELSE Garbage)

-----------------------------------------------------------------------------
(* convertQuery returns a filter or throws: here the set of the filter, or    *)
(* the empty set.                                                             *)

GetPropertyName(property) == IF property = "id" THEN "_id" ELSE property

LogicalQueryTypes == {"$and", "$or", "$nor"}
AllComparisonQueryTypes ==
    {"$eq", "$gt", "$gte", "$in", "$lt", "$lte", "$neq", "$nin", "$regex", "$text"}

\* These read value.$and, value.$or or value.$nor of what is already the value
\* of $and, $or or $nor: of an array of queries that is undefined, and the
\* call of map throws.
ConvertLogicalQuery(type, value) == {}

\* $in and $nin of a mapped property read value.$in in the same way.
ConvertListQuery(mapping, parent, value) ==
    IF parent \in DOMAIN mapping THEN {} ELSE {value}

\* The value that is given to property, or the empty set if that throws; an
\* object is converted by Inner.
ConvertValue(Inner(_, _), mapping, property, value, rawProperty, parent) ==
    IF value.kind = "primitive" THEN {value}
    ELSE IF property \in LogicalQueryTypes THEN ConvertLogicalQuery(property, value)
    ELSE IF property \in {"$in", "$nin"} THEN ConvertListQuery(mapping, parent, value)
    ELSE IF property \in AllComparisonQueryTypes THEN {value}
    ELSE IF value.kind = "object"
         THEN {Object(filter) : filter \in Inner(value.query, rawProperty)}
    ELSE {}

ConvertProperties(Inner(_, _), mapping, query, parent) ==
    LET Property(raw) ==
            GetPropertyName(IF raw \in DOMAIN mapping THEN mapping[raw].key ELSE raw)
        Value(raw) == IF raw \in DOMAIN mapping
                      THEN TransformValue(mapping[raw], query[raw]) ELSE query[raw]
        Converted(raw) == ConvertValue(Inner, mapping, Property(raw), Value(raw), raw, parent)
        Raw(property) == CHOOSE raw \in DOMAIN query : Property(raw) = property
    IN IF \E raw \in DOMAIN query : Converted(raw) = {}
       THEN {}
       ELSE {[property \in {Property(raw) : raw \in DOMAIN query} |->
                CHOOSE value \in Converted(Raw(property)) : TRUE]}

\* convertQuery calls itself for the objects in a query. Bound: the objects in
\* these have no further ones.
ConvertQuery(mapping, query, parent) ==
    LET Innermost(object, property) == {}
        Inner(object, property) == ConvertProperties(Innermost, mapping, object, property)
        Middle(object, property) == ConvertProperties(Inner, mapping, object, property)
    IN ConvertProperties(Middle, mapping, query, parent)

\* The name of the identifier is not converted.
ConvertSort(mapping, sort) ==
    [field |-> IF sort.field \in DOMAIN mapping THEN mapping[sort.field].key
               ELSE sort.field,
     order |-> IF sort.order = "desc" THEN -1 ELSE 1]
=============================================================================
