------------------------------ MODULE Entities ------------------------------
(***************************************************************************)
(* Entities of the registered types: the patches the meta schema makes of  *)
(* them (meta.go), what those do to the database, and the scope cache      *)
(* (scope_cache.go) with all its operations.                               *)
(*                                                                         *)
(* An entity is a pointer to a struct, that is, to the values of its       *)
(* fields.  Its patches are executed at once here; how they wait in a      *)
(* buffer and are put together is what UnitOfWork and BulkCompiler say.    *)
(***************************************************************************)
EXTENDS MetaSchema, Patches

CONSTANTS
  Databases,   \* what the database holds at first
  TypeOf,      \* the type of each entity
  Empty,       \* the values that are zero values
  MaxOps       \* bound: operations on entities, for each member of ToRegister

\* The tables have the columns that the structs say, and a row key is not nil.
ASSUME EntitiesAssumption ==
  /\ MaxOps \in [ToRegister -> Nat] /\ Empty \subseteq Values /\ Empty # Values
  /\ NoRowKey \notin RowKeys
  /\ \A e \in DOMAIN TypeOf : TypeOf[e] \in StructTypes
  /\ \A d \in Databases : d \in Seq(ToSet(d))
  /\ \A t \in StructTypes : {m.column : m \in ToSet(ColumnsOf(t))} \subseteq Columns

VARIABLES
  value,    \* of each field of each entity
  db,       \* see Patches
  data,     \* the scope cache: entities, or lists of them, by key
  left,     \* the operations still allowed
  \* history
  added,    \* the values an entity was added to the cache with, and not yet removed
  filed,    \* the lists it was added to, and not yet removed from by itself
  orphaned  \* <<entity, key>>: removed from a list with another entity

entityVars == <<value, db, data, left, added, filed, orphaned>>
cacheVars == <<data, added, filed, orphaned>>
vars == <<schemaVars, entityVars>>

E == DOMAIN TypeOf
FieldNames(e) == {f.name : f \in {g \in ToSet(fields["reflect"][TypeOf[e]]) : IsColumn(g)}}

-----------------------------------------------------------------------------
(* Row keys and patches of an entity *)

Table(e) == built[TypeOf[e]]

\* The values of the columns cs; of two with one name, the last counts.
RowKeyOf(e, cs) ==
  [c \in {cs[i].column : i \in DOMAIN cs} |->
     value[e][cs[SelectLastInSeq(cs, LAMBDA m : m.column = c)].field]]

\* PrimaryKey of the table: its key columns.
PkColumns(e) == Kept(Table(e).columns, {c \in ToSet(Table(e).columns) : c.pk})

\* Mutant of PrimaryKeyOf: the first column is taken for the key.
PrimaryKeyOfFirst(e) ==
  RowKeyOf(e, IF PkColumns(e) = <<>> THEN <<>> ELSE <<PkColumns(e)[1]>>)

PrimaryKeyOf(e) == RowKeyOf(e, PkColumns(e))

\* The row keys of one cardinality, as often as there are relations; of all, "*".
ReferenceKeysOf(e, cardinality) ==
  {[by |-> r.by, key |-> RowKeyOf(e, r.key)] :
     r \in {x \in Table(e).references : cardinality \in {x.card, "*"}}}

\* A column that patches leave out.
Omitted(e, c) == c.omitEmpty /\ value[e][c.field] \in Empty

\* What an INSERT writes, and what an UPDATE sets.
InsertColumns(e) == Kept(Table(e).columns, {c \in ToSet(Table(e).columns) : ~Omitted(e, c)})
UpdateColumns(e) == Kept(Table(e).columns, {c \in ToSet(Table(e).columns) : ~c.pk /\ ~Omitted(e, c)})

PatchOf(kind, e, cs, key) ==
  [kind |-> kind, table |-> Table(e).name, rowKey |-> key,
   columns |-> [i \in DOMAIN cs |-> cs[i].column],
   values |-> [i \in DOMAIN cs |-> value[e][cs[i].field]]]

InsertPatchOf(e) == PatchOf("insert", e, InsertColumns(e), NoRowKey)

\* Mutant of UpdatePatchOf: what is empty is left out, be it omitempty or not.
UpdatePatchOfFull(e) ==
  PatchOf("update", e,
          Kept(UpdateColumns(e), {c \in ToSet(UpdateColumns(e)) : value[e][c.field] \notin Empty}),
          PrimaryKeyOf(e))

UpdatePatchOf(e) == PatchOf("update", e, UpdateColumns(e), PrimaryKeyOf(e))

DeletePatchOf(e) == PatchOf("delete", e, <<>>, PrimaryKeyOf(e))

\* The fields that are not exported: reflect gives their values to nobody.
Closed(e, cs) == \E i \in DOMAIN cs : cs[i].field \in Unexported

-----------------------------------------------------------------------------

Usable(e) == Loadable(TypeOf[e])

Count == left > 0 /\ left' = left - 1 /\ UNCHANGED schemaVars

Init ==
  /\ SchemaInit
  /\ value = [e \in E |-> [f \in FieldNames(e) |-> CHOOSE v \in Values : v \notin Empty]]
  /\ db \in Databases
  /\ data = <<>> /\ left = MaxOps[todo]
  /\ added = [e \in E |-> {}] /\ filed = [e \in E |-> {}] /\ orphaned = {}

\* The program assigns a field (bound: of an entity it can use).
Assigns(e, f, v) ==
  /\ Usable(e) /\ Count /\ v # value[e][f] /\ f \notin Unexported
  /\ value' = [value EXCEPT ![e][f] = v]
  /\ UNCHANGED <<db, cacheVars>>

\* Columns that are not exported make InsertPatchOf and UpdatePatchOf panic.
Insert(e) ==
  /\ Usable(e) /\ Count
  /\ ~Closed(e, InsertColumns(e))
  /\ db' = Execute(db, Compiled(InsertPatchOf(e)))
  /\ UNCHANGED <<value, cacheVars>>

\* An UPDATE that sets no column is refused by squirrel.
Update(e) ==
  /\ Usable(e) /\ Count
  /\ ~Closed(e, UpdateColumns(e)) /\ ~Closed(e, PkColumns(e))
  /\ UpdatePatchOf(e).columns # <<>>
  /\ db' = Execute(db, Compiled(UpdatePatchOf(e)))
  /\ UNCHANGED <<value, cacheVars>>

Delete(e) ==
  /\ Usable(e) /\ Count
  /\ ~Closed(e, PkColumns(e))
  /\ db' = Execute(db, Compiled(DeletePatchOf(e)))
  /\ UNCHANGED <<value, cacheVars>>

-----------------------------------------------------------------------------
(* The scope cache *)

CacheKey(e, cardinality, key) == <<cardinality, Table(e).name, key>>

\* As ReferenceKeysOf, without the multiplicity.
CacheKeysOf(e, cardinality) ==
  {CacheKey(e, cardinality, r.key) : r \in ReferenceKeysOf(e, cardinality)}

HasObject(k) == k \in DOMAIN data
GetObject(k) == IF HasObject(k) THEN data[k] ELSE <<>>

\* Mutant of AddObject: a list is begun anew.
AddObjectAlone(e) ==
  /\ Usable(e) /\ Count
  /\ data' = [k \in CacheKeysOf(e, "OneToMany") |-> <<e>>]
               @@ [k \in CacheKeysOf(e, "ManyToOne") \cup {CacheKey(e, "None", PrimaryKeyOf(e))} |-> <<e>>]
               @@ data
  /\ added' = [added EXCEPT ![e] = @ \cup {value[e]}]
  /\ filed' = [filed EXCEPT ![e] = @ \cup CacheKeysOf(e, "OneToMany")]
  /\ orphaned' = orphaned \ ({e} \X CacheKeysOf(e, "OneToMany"))
  /\ UNCHANGED <<value, db>>

\* An entity goes to the end of the list of each one-to-many relation, and takes
\* the place of another under its primary key and its many-to-one relations.
AddObject(e) ==
  /\ Usable(e) /\ Count
  /\ LET times(k) == Cardinality({r \in ReferenceKeysOf(e, "OneToMany") : CacheKey(e, "OneToMany", r.key) = k})
         ofMany == CacheKeysOf(e, "OneToMany")
         ofOne == CacheKeysOf(e, "ManyToOne") \cup {CacheKey(e, "None", PrimaryKeyOf(e))}
     IN data' = [k \in ofMany \cup ofOne \cup DOMAIN data |->
                   IF k \in ofMany THEN GetObject(k) \o [i \in 1..times(k) |-> e]
                   ELSE IF k \in ofOne THEN <<e>> ELSE data[k]]
  /\ added' = [added EXCEPT ![e] = @ \cup {value[e]}]
  /\ filed' = [filed EXCEPT ![e] = @ \cup CacheKeysOf(e, "OneToMany")]
  /\ orphaned' = orphaned \ ({e} \X CacheKeysOf(e, "OneToMany"))
  /\ UNCHANGED <<value, db>>

\* Mutant of RemovedKeys: only the entity's own key.
RemovedKeysOwn(e) == {CacheKey(e, "None", PrimaryKeyOf(e))}

\* The keys that RemoveObject deletes: each with every cardinality.
RemovedKeys(e) ==
  {CacheKey(e, c, key) : c \in {"None", "OneToMany", "ManyToOne"},
                         key \in {r.key : r \in ReferenceKeysOf(e, "*")} \cup {PrimaryKeyOf(e)}}

RemoveObject(e) ==
  /\ Usable(e) /\ Count
  /\ data' = [k \in DOMAIN data \ RemovedKeys(e) |-> data[k]]
  /\ added' = [added EXCEPT ![e] = @ \ {value[e]}]
  /\ filed' = [filed EXCEPT ![e] = @ \ RemovedKeys(e)]
  /\ orphaned' = orphaned \cup UNION {{o} \X (filed[o] \cap RemovedKeys(e)) : o \in E \ {e}}
  /\ UNCHANGED <<value, db>>

Next ==
  \/ SchemaNext /\ UNCHANGED entityVars
  \/ \E e \in E :
       \/ \E f \in FieldNames(e), v \in Values : Assigns(e, f, v)
       \/ Insert(e) \/ Update(e) \/ Delete(e)
       \/ AddObject(e) \/ RemoveObject(e)

Spec == Init /\ [][Next]_vars /\ SchemaFairness

-----------------------------------------------------------------------------
(* Properties *)

\* "A entity needs one primary key" (README.md:57 and on): then its patches leave
\* alone every row whose key is not the entity's.  Without one, an UPDATE and a
\* DELETE reach every row of every table row's table.
IsItsRow(e, row) ==
  /\ row.table = Table(e).name
  /\ \A i \in DOMAIN Table(e).columns :
       Table(e).columns[i].pk => row.cells[Table(e).columns[i].column] = value[e][Table(e).columns[i].field]

PatchesTouchTheirRow ==
  [][\A e \in E : Update(e) \/ Delete(e) =>
       \A i \in DOMAIN db : db'[i] # db[i] => IsItsRow(e, db[i])]_vars

\* An UPDATE writes what the entity holds, but for the empty fields of omitempty
\* columns: such a column keeps what it had, and cannot be emptied again
\* (meta.go:333-336; "omitting if empty", README.md:75-79, although the comment at
\* meta.go:89 speaks of "a insert statement" only).
UpdatesWriteTheEntity ==
  [][\A e \in E : Update(e) =>
       \A i \in DOMAIN db : db[i] # Deleted /\ IsItsRow(e, db[i]) =>
         \A j \in DOMAIN Table(e).columns :
           \A c \in {Table(e).columns[j]} :
             db'[i].cells[c.column] = IF Omitted(e, c) THEN db[i].cells[c.column] ELSE value[e][c.field]]_vars

\* An entity is in the lists it was added to, until it or an entity with one of
\* their keys is removed: that takes the whole list (scope_cache.go:101-113).
ListedUntilRemoved ==
  \A e \in E : \A k \in filed[e] : e \in ToSet(GetObject(k)) <=> <<e, k>> \notin orphaned

\* Nothing finds an entity that was removed as it was added: as one of a list, or
\* as the one of its primary key or of a many-to-one relation.
RemovedIsGone == \A e \in E : added[e] = {} => \A k \in DOMAIN data : e \notin ToSet(data[k])
=============================================================================
