------------------------------ MODULE Include ------------------------------
(***************************************************************************)
(* A query of the generated code with Include: the rows are scanned into   *)
(* entities, put into a new scope cache, and IncludeContext runs the       *)
(* loaders on them, then on the entities these loaded, and so on, level    *)
(* by level (db_ctx.go, generator/templates/table.tgo).                    *)
(*                                                                         *)
(* Every loader reads the database with a statement of its own, so that    *)
(* the writes of other sessions can come between.  The rows of a result    *)
(* come in one fixed order.                                                *)
(***************************************************************************)
EXTENDS ScopeCache

CONSTANTS
  Tables,
  Rows,          \* the rows that can be in the database
  Scenarios      \* the contents to start from, the arguments of Include, the
                 \* values of MaxIncludeDepth and the number of writes of other
                 \* sessions that go together

ASSUME IncludeAssumption ==
  /\ IsFiniteSet(Relations)
  /\ \A r \in Relations :
       r.owner \in Tables /\ r.target \in Tables /\ r.card \in {"OneToMany", "ManyToOne"}
  /\ \A s \in Scenarios :
       /\ \A d \in s.databases : d \subseteq Rows /\ IsFiniteSet(d)
       /\ s.loaders \subseteq Seq(Relations)
       /\ s.depths \subseteq Int
       /\ s.writes \in Nat

VARIABLES
  db,         \* the rows of the database
  loaders,    \* the loaders of the query
  MaxIncludeDepth,
  entities,   \* the row of each entity
  field,      \* the relation fields of each entity: the entities they hold
  data,       \* the scope cache
  level,      \* recordsList: lists of entities of one table each
  next,       \* nextRecordsList
  depth,
  at, turn,   \* the list, and the loader that gets it next
  pc,         \* "query", "include", then "returned" or "error"
  \* history
  left,       \* bound: writes other sessions may still make
  writes,     \* writes of other sessions
  cut,        \* a result set ended early
  by          \* the relation whose loader loaded an entity; none for the query itself

vars == <<db, loaders, MaxIncludeDepth, entities, field, data, level, next, depth, at, turn, pc, left, writes, cut, by>>

-----------------------------------------------------------------------------

Records == level[at]
Loader == loaders[turn]

\* Different rows never share a primary key.
Consistent(rows) ==
  \A v, w \in rows : PrimaryKeyOf(v) = PrimaryKeyOf(w) => v = w

NoRelations == [r \in Relations |-> <<>>]

\* The numbers of the entities that n more rows make.
NewEntities(n) == [i \in 1..n |-> Len(entities) + i]

\* sc.AddObject of each, in turn.
AddAll(cache, rows) ==
  LET added[n \in 0..Len(rows)] ==
        IF n = 0 THEN cache ELSE AddObject(added[n - 1], Len(entities) + n, rows[n])
  IN added[Len(rows)]

\* Scan makes an entity of each row.
Scanned(rows, cause) ==
  /\ entities' = entities \o rows
  /\ by' = by \o [i \in 1..Len(rows) |-> cause]
  /\ data' = AddAll(data, rows)

-----------------------------------------------------------------------------

Init ==
  /\ \E s \in Scenarios :
       /\ db \in {d \in s.databases : Consistent(d)}
       /\ loaders \in s.loaders
       /\ MaxIncludeDepth \in s.depths
       /\ left = s.writes
  /\ entities = <<>> /\ field = <<>> /\ data = <<>>
  /\ level = <<>> /\ next = <<>>
  /\ depth = 0 /\ at = 1 /\ turn = 1
  /\ pc = "query"
  /\ writes = 0 /\ cut = FALSE /\ by = <<>>

\* query(): any rows of one table, by Where, Limit and Offset.
Query(T, rows) ==
  /\ pc = "query"
  /\ rows \subseteq {v \in db : v.table = T}
  /\ Scanned(SetToSeq(rows), {})
  /\ field' = [i \in 1..Cardinality(rows) |-> NoRelations]
  /\ level' = <<[table |-> T, ids |-> NewEntities(Cardinality(rows))]>>
  /\ pc' = IF depth < MaxIncludeDepth THEN "include" ELSE "returned"
  /\ UNCHANGED <<db, loaders, MaxIncludeDepth, next, depth, at, turn, left, writes, cut>>

-----------------------------------------------------------------------------
(* A loader on a list of entities *)

LoaderCalled == pc = "include" /\ at <= Len(level) /\ turn <= Len(loaders)

NextTurn ==
  IF turn < Len(loaders) THEN turn' = turn + 1 /\ at' = at ELSE turn' = 1 /\ at' = at + 1

\* Of a list of another entity's a loader takes no notice.
NotItsEntity ==
  /\ LoaderCalled
  /\ Records.table # Loader.owner
  /\ NextTurn
  /\ UNCHANGED <<db, loaders, MaxIncludeDepth, entities, field, data, level, next, depth, pc, left, writes, cut, by>>

KeyOf(o) == RefersTo(Loader, entities[o])

\* Mutant of Uncached: the cache is not asked.
UncachedUnfiltered == {KeyOf(o) : o \in ToSet(Records.ids)}

Uncached == {KeyOf(o) : o \in {i \in ToSet(Records.ids) : ~HasObject(data, KeyOf(i))}}

\* A list is appended to the field; a single entity replaces it.
Filled(fields, cache) ==
  [o \in DOMAIN fields |->
     IF o \notin ToSet(Records.ids) \/ ~HasObject(cache, KeyOf(o)) THEN fields[o]
     ELSE [fields[o] EXCEPT ![Loader] =
             IF Loader.card = "OneToMany" THEN @ \o cache[KeyOf(o)] ELSE cache[KeyOf(o)]]]

LoadCached ==
  /\ LoaderCalled
  /\ Records.table = Loader.owner
  /\ Uncached = {}
  /\ field' = Filled(field, data)
  /\ NextTurn
  /\ UNCHANGED <<db, loaders, MaxIncludeDepth, entities, data, level, next, depth, pc, left, writes, cut, by>>

\* The rows of the loader's table that the disjunction of the keys selects.
Selected(keys) ==
  {v \in db : v.table = Loader.target
                /\ CacheKey(Loader.card, v.table, Loader.refe, v.val[Loader.refe]) \in keys}

\* Mutants of LoadUncached: only one of the keys is asked for; the entities of
\* the list, too, are to be included later.
LoadFirstUncached ==
  /\ LoaderCalled
  /\ Records.table = Loader.owner
  /\ Uncached # {}
  /\ LET rows == SetToSeq(Selected({CHOOSE k \in Uncached : TRUE}))
     IN /\ Scanned(rows, {Loader})
        /\ next' = Append(next, [table |-> Loader.target, ids |-> NewEntities(Len(rows))])
        /\ field' = Filled(field \o [i \in 1..Len(rows) |-> NoRelations], data')
  /\ NextTurn
  /\ UNCHANGED <<db, loaders, MaxIncludeDepth, level, depth, pc, left, writes, cut>>

LoadAndRepeat ==
  /\ LoaderCalled
  /\ Records.table = Loader.owner
  /\ Uncached # {}
  /\ LET rows == SetToSeq(Selected(Uncached))
     IN /\ Scanned(rows, {Loader})
        /\ next' = next \o <<[table |-> Loader.target, ids |-> NewEntities(Len(rows))], Records>>
        /\ field' = Filled(field \o [i \in 1..Len(rows) |-> NoRelations], data')
  /\ NextTurn
  /\ UNCHANGED <<db, loaders, MaxIncludeDepth, level, depth, pc, left, writes, cut>>

\* What is not cached is read and cached, and is to be included later.
\* A connection lost between two rows ends the scan without an error.
LoadUncached ==
  /\ LoaderCalled
  /\ Records.table = Loader.owner
  /\ Uncached # {}
  /\ \E found \in SUBSET Selected(Uncached) :
       LET rows == SetToSeq(found)
       IN /\ Scanned(rows, {Loader})
          /\ cut' = (cut \/ found # Selected(Uncached))
          /\ next' = Append(next, [table |-> Loader.target, ids |-> NewEntities(Len(rows))])
          /\ field' = Filled(field \o [i \in 1..Len(rows) |-> NoRelations], data')
  /\ NextTurn
  /\ UNCHANGED <<db, loaders, MaxIncludeDepth, level, depth, pc, left, writes>>

LoadFails ==
  /\ LoaderCalled
  /\ Records.table = Loader.owner
  /\ Uncached # {}
  /\ pc' = "error"
  /\ UNCHANGED <<db, loaders, MaxIncludeDepth, entities, field, data, level, next, depth, at, turn, left, writes, cut, by>>

-----------------------------------------------------------------------------
(* IncludeContext *)

LevelDone == pc = "include" /\ (at > Len(level) \/ loaders = <<>>)

\* Nothing was loaded on this level.
NothingLater ==
  /\ LevelDone
  /\ next = <<>>
  /\ pc' = "returned"
  /\ UNCHANGED <<db, loaders, MaxIncludeDepth, entities, field, data, level, next, depth, at, turn, left, writes, cut, by>>

Deeper ==
  /\ LevelDone
  /\ next # <<>>
  /\ level' = next
  /\ next' = <<>>
  /\ depth' = depth + 1
  /\ at' = 1 /\ turn' = 1
  /\ pc' = IF depth' < MaxIncludeDepth THEN "include" ELSE "returned"
  /\ UNCHANGED <<db, loaders, MaxIncludeDepth, entities, field, data, left, writes, cut, by>>

-----------------------------------------------------------------------------

\* Another session inserts, updates or deletes a row.
Write(new) ==
  /\ pc = "include"
  /\ left > 0
  /\ new # db /\ Consistent(new)
  /\ db' = new
  /\ left' = left - 1
  /\ writes' = writes + 1
  /\ UNCHANGED <<loaders, MaxIncludeDepth, entities, field, data, level, next, depth, at, turn, pc, cut, by>>

Load == NotItsEntity \/ LoadCached \/ LoadUncached \/ LoadFails

Step ==
  \/ \E T \in Tables : \E rows \in SUBSET {v \in db : v.table = T} : Query(T, rows)
  \/ Load \/ NothingLater \/ Deeper

Next == \/ Step
        \/ \E v \in db : Write(db \ {v})
        \/ \E v \in Rows : Write({w \in db : PrimaryKeyOf(w) # PrimaryKeyOf(v)} \cup {v})

Spec == Init /\ [][Next]_vars

-----------------------------------------------------------------------------
(* Properties *)

Ids == 1..Len(entities)

\* No row is loaded into two entities, whatever the loaders are, in whatever
\* order, and whatever other sessions write: a row is read again only after a
\* write (scope_cache.go:60-85, table.tgo:366-379).
OneEntityPerRow ==
  \A o, p \in Ids : entities[o] = entities[p] => o = p

\* The one-to-many relations that find an entity by the same key as r.
Sharing(r) ==
  {s \in Relations : s.card = "OneToMany" /\ s.target = r.target /\ s.refe = r.refe}

\* An entity is in a relation field once: every loader gets every entity once,
\* and an entity joins a list once.  But when relations share a key, it joins
\* their list once for each of them, and is as often in each of their fields
\* (scope_cache.go:69-78, db_ctx.go:177-190, table.tgo:409-416).
HeldOncePerRelation ==
  \A o \in Ids, r \in Relations : \A p \in ToSet(field[o][r]) :
    Cardinality({i \in DOMAIN field[o][r] : field[o][r][i] = p}) =
      IF r.card = "OneToMany" THEN Cardinality(Sharing(r)) ELSE 1

\* Relations that are each other's inverse.
Opposite(r, s) == r.card = "OneToMany" /\ s.card = "ManyToOne"
                 /\ r.owner = s.target /\ r.target = s.owner /\ r.fk = s.refe /\ r.refe = s.fk

\* When both directions of a relation were included, the child's parent is the
\* very entity whose list the child is in (example/example_test.go:91).
CyclesClose ==
  \A o \in Ids, r, s \in Relations : Opposite(r, s) =>
    \A i \in DOMAIN field[o][r] :
      field[field[o][r][i]][s] \in {<<>>, <<o>>}

\* When a query has returned, a field of an entity that was included holds all
\* the entities it refers to, and no others.  It lacks some only if a result
\* set ended early, or it is a list that was started by an entity that came
\* another way: by the query itself, or by another loader (table.tgo:366-416,
\* db_ctx.go:159-167).
OnlyStartedListsAreShort ==
  pc = "returned" /\ writes = 0 =>
    \A o \in Ids, r \in ToSet(loaders) :
      LET wanted == {v \in db : v.table = r.target /\ v.val[r.refe] = entities[o].val[r.fk]}
          held   == {entities[p] : p \in ToSet(field[o][r])}
      IN  /\ entities[o].table = r.owner
          /\ depth >= MaxIncludeDepth => \A i \in DOMAIN level : o \notin ToSet(level[i].ids)
          => /\ held \subseteq wanted
             /\ \/ held = wanted \/ cut
                \/ r.card = "OneToMany" /\ \E p \in ToSet(field[o][r]) : by[p] # {r}

\* Circular references end by themselves: there are no more levels than rows,
\* so that the depth limit is not what ends them (db_ctx.go:35, 184-187).  And
\* there are no more than the limit: "When this value is positive, Include works
\* N-times" (db_ctx.go:36).
CirclesEnd ==
  /\ writes = 0 => depth <= Cardinality(db)
  /\ MaxIncludeDepth >= 0 => depth <= MaxIncludeDepth

\* "When this value is negative, Include works unlimited" (db_ctx.go:37): what
\* the query returned has been included.
NegativeIsUnlimited ==
  MaxIncludeDepth < 0 /\ pc = "returned" => at > Len(level)
=============================================================================
