----------------------------- MODULE ScopeCache -----------------------------
(***************************************************************************)
(* The schema computed from the registered structs (meta.go) and the cache *)
(* of the entities loaded so far (scope_cache.go).                         *)
(*                                                                         *)
(* An entity is a pointer: a number.  Its row is a record of its table and *)
(* its column values; a foreign key of several columns counts as one       *)
(* column.  A relation is a field with a foreign_key tag: it belongs to    *)
(* the struct of "owner", and refers to the rows of "target" whose column  *)
(* "refe" has the value of the owner's column "fk".                        *)
(***************************************************************************)
EXTENDS Integers, Sequences, FiniteSets, SequencesExt, TLC

CONSTANTS Relations,    \* the relations of the schema
          PrimaryKey    \* the primary key column of each table

Cardinalities == {"None", "OneToMany", "ManyToOne"}

\* toCacheKey of KeyStringFromRowKey: different keys have different strings.
CacheKey(cardinality, table, column, value) == <<cardinality, table, column, value>>

\* The rows r refers to from an entity with the row v.
RefersTo(r, v) == CacheKey(r.card, r.target, r.refe, v.val[r.fk])

\* The relations of a cardinality whose fields can hold an entity of the row v.
ReferenceKeys(v, cardinality) ==
  {r \in Relations : r.target = v.table /\ r.card = cardinality}

\* The keys such relations look an entity of the row v up by.
ReferenceKeysOf(v, cardinality) ==
  {CacheKey(cardinality, v.table, r.refe, v.val[r.refe]) : r \in ReferenceKeys(v, cardinality)}

PrimaryKeyOf(v) == CacheKey("None", v.table, PrimaryKey[v.table], v.val[PrimaryKey[v.table]])

HasObject(data, key) == key \in DOMAIN data
GetObject(data, key) == IF HasObject(data, key) THEN data[key] ELSE <<>>

\* Mutants of AddObject: no lists; objects of a single reference under the
\* plain key, without the suffix of the cardinality; lists put together anew.
AddObjectNoLists(data, o, v) ==
  [k \in {PrimaryKeyOf(v)} \cup ReferenceKeysOf(v, "ManyToOne") |-> <<o>>] @@ data

AddObjectPlainKey(data, o, v) ==
  LET lists == ReferenceKeysOf(v, "OneToMany") IN
  [k \in lists |-> Append(GetObject(data, k), o)] @@ [k \in {PrimaryKeyOf(v)} |-> <<o>>] @@ data

\* The entity o of the row v joins a list for each one-to-many relation, as
\* often as there are relations with that key, and replaces the entity found
\* by its primary key and by the many-to-one relations.
AddObject(data, o, v) ==
  LET relationsOf(k) == {r \in ReferenceKeys(v, "OneToMany") :
                           CacheKey("OneToMany", v.table, r.refe, v.val[r.refe]) = k}
      lists == ReferenceKeysOf(v, "OneToMany")
      singles == {PrimaryKeyOf(v)} \cup ReferenceKeysOf(v, "ManyToOne")
  IN [k \in DOMAIN data \cup lists \cup singles |->
        CASE k \in lists -> GetObject(data, k) \o [i \in 1..Cardinality(relationsOf(k)) |-> o]
          [] k \in singles -> <<o>>
          [] OTHER -> data[k]]
=============================================================================
