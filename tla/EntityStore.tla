----------------------------- MODULE EntityStore -----------------------------
(* What a repository of entities promises, in terms of entities alone: a set  *)
(* of entities, queries over their properties, and what each method does to   *)
(* the set and answers (the interface EntityRepository). MongoEntityRepository *)
(* is checked against it.                                                     *)
EXTENDS Integers, Sequences, FiniteSets

CONSTANT UniqueProperty \* no two entities have the same, while that is enforced

Holds(n, operator, value) ==
    CASE operator = "$eq" -> n = value.n
      [] operator = "$gt" -> n > value.n
      [] operator = "$gte" -> n >= value.n
      [] operator = "$lt" -> n < value.n
      [] operator = "$in" -> \E i \in DOMAIN value.items : value.items[i] = n
      [] operator = "$nin" -> \A i \in DOMAIN value.items : value.items[i] # n

Satisfies(entity, query) ==
    \A p \in DOMAIN query :
        IF query[p].kind = "primitive" THEN entity[p] = query[p].n
        ELSE \A operator \in DOMAIN query[p].query :
                Holds(entity[p], operator, query[p].query[operator])

Satisfying(E, query) == {e \in E : Satisfies(e, query)}

Better(x, y, sort) ==
    /\ sort.field # "none"
    /\ IF sort.order = "desc" THEN x[sort.field] > y[sort.field]
       ELSE x[sort.field] < y[sort.field]

\* entity may be at that place (from 0) of the entities of S in their order.
MayBeAt(S, entity, place, sort) ==
    /\ entity \in S
    /\ Cardinality({x \in S : Better(x, entity, sort)}) <= place
    /\ place < Cardinality({x \in S : ~Better(entity, x, sort)})

\* What a query of one may answer.
Firsts(E, query, options) ==
    {e \in E : MayBeAt(Satisfying(E, query), e, options.skip, options.sort)}

\* What a query of many may answer.
IsListing(E, query, options, seq) ==
    LET S == Satisfying(E, query)
        left == Cardinality(S) - options.skip
    IN /\ Len(seq) = IF left <= 0 THEN 0
                     ELSE IF options.limit = 0 \/ left < options.limit THEN left
                     ELSE options.limit
       /\ \A i \in DOMAIN seq : MayBeAt(S, seq[i], options.skip + i - 1, options.sort)
       /\ \A i, j \in DOMAIN seq : seq[i] = seq[j] => i = j

-----------------------------------------------------------------------------
(* Answers: the entities afterwards and the reply.                            *)

Answer(E, reply) == [entities |-> E, reply |-> reply]
One(entity) == [kind |-> "one", entity |-> entity]
Number(n) == [kind |-> "number", n |-> n]
Boolean(b) == Number(IF b THEN 1 ELSE 0)
Refused(E) == Answer(E, [kind |-> "rejected"])

\* None of the entities that satisfies the query: none is how that is answered.
Load(E, query, options, none) ==
    LET found == Firsts(E, query, options)
    IN IF found = {} THEN {Answer(E, [kind |-> none])}
       ELSE {Answer(E, One(e)) : e \in found}

LoadAndDelete(E, query, options, none) ==
    LET found == Firsts(E, query, options)
    IN IF found = {} THEN {Answer(E, [kind |-> none])}
       ELSE {Answer(E \ {e}, One(e)) : e \in found}

Patched(entity, patch) ==
    [p \in DOMAIN entity |-> IF p \in DOMAIN patch THEN patch[p] ELSE entity[p]]

Clash(E, enforced) ==
    /\ enforced
    /\ \E x, y \in E : x # y /\ x[UniqueProperty] = y[UniqueProperty]

\* A write that would break the uniqueness is refused.
Unless(E, enforced, after, reply) ==
    IF Clash(after, enforced) THEN Refused(E) ELSE Answer(after, reply)

LoadAndPatch(E, enforced, query, options, patch, includePatch, none) ==
    LET found == Firsts(E, query, options)
        After(e) == (E \ {e}) \cup {Patched(e, patch)}
    IN IF found = {} THEN {Answer(E, [kind |-> none])}
       ELSE {Unless(E, enforced, After(e), One(IF includePatch THEN Patched(e, patch) ELSE e)) :
                e \in found}

Patch(E, enforced, query, patch) ==
    LET found == Satisfying(E, query)
    IN IF found = {} THEN {Answer(E, Boolean(FALSE))}
       ELSE {Unless(E, enforced, (E \ {e}) \cup {Patched(e, patch)}, Boolean(TRUE)) : e \in found}

\* All of them, or a refusal with some of them patched.
PatchMany(E, enforced, query, patch) ==
    LET found == Satisfying(E, query)
        After(S) == (E \ S) \cup {Patched(e, patch) : e \in S}
    IN IF ~Clash(After(found), enforced)
       THEN {Answer(After(found), Number(Cardinality(found)))}
       ELSE {Refused(After(S)) : S \in {s \in SUBSET found : ~Clash(After(s), enforced)}}

Insert(E, enforced, entity) ==
    {IF \E e \in E : e.id = entity.id THEN Refused(E)
     ELSE Unless(E, enforced, E \cup {entity}, One(entity))}

Update(E, enforced, entity, upsert) ==
    LET old == {e \in E : e.id = entity.id}
    IN {IF old = {} /\ ~upsert THEN Answer(E, Boolean(FALSE))
        ELSE Unless(E, enforced, (E \ old) \cup {entity}, Boolean(TRUE))}

DeleteMany(E, query) ==
    {Answer(E \ Satisfying(E, query), Number(Cardinality(Satisfying(E, query))))}

Delete(E, query) ==
    IF Satisfying(E, query) = {} THEN {Answer(E, Boolean(FALSE))}
    ELSE {Answer(E \ {e}, Boolean(TRUE)) : e \in Satisfying(E, query)}

Count(E, query) == {Answer(E, Number(Cardinality(Satisfying(E, query))))}
Has(E, query) == {Answer(E, Boolean(Satisfying(E, query) # {}))}
=============================================================================
