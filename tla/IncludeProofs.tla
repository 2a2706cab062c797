--------------------------- MODULE IncludeProofs ---------------------------
(***************************************************************************)
(* Theorems about queries with Include, for every schema, every contents   *)
(* of the database, every list of loaders and every write in between: what *)
(* is loaded and that it ends, and then what the relation fields hold.     *)
(***************************************************************************)
EXTENDS Include, WellFoundedInduction, SequenceTheorems, FiniteSetTheorems, TLAPS

\* Induction over the numbers: a set that has 0 and, with each number, the next, has
\* every number.
LEMMA SetInduction ==
  ASSUME NEW S, 0 \in S, \A n \in Nat : n \in S => n + 1 \in S
  PROVE  Nat \subseteq S
<1> SUFFICES ASSUME Nat \ S # {} PROVE FALSE
  OBVIOUS
<1> DEFINE T == Nat \ S
           R == OpToRel(<, Nat)
<1>1. \A y, x \in Nat : y < x => <<y, x>> \in R
  BY DEF OpToRel
<1>2. PICK x \in T : \A y \in T : ~(<<y, x>> \in R)
  <2>1. IsWellFoundedOn(R, Nat) /\ T \in SUBSET Nat /\ T # {}
    BY NatLessThanWellFounded
  <2> HIDE DEF R, T
  <2>2. QED
    BY <2>1, WFMin
<1> HIDE DEF R
<1>3. x # 0 /\ x - 1 \in Nat /\ x - 1 < x /\ (x - 1) + 1 = x
  BY <1>2
<1>4. x - 1 \in S
  BY <1>1, <1>2, <1>3
<1>5. QED
  BY <1>2, <1>3, <1>4

\* The elements of recordsList and nextRecordsList.
Lists == [table : Tables, ids : Seq(Nat)]

Types ==
  /\ db \subseteq Rows /\ IsFiniteSet(db)
  /\ loaders \in Seq(Relations) /\ MaxIncludeDepth \in Int
  /\ entities \in Seq(Rows)
  /\ level \in Seq(Lists) /\ next \in Seq(Lists)
  /\ depth \in Nat /\ at \in Nat \ {0} /\ turn \in Nat \ {0}
  /\ writes \in Nat
  /\ pc = "query" => entities = <<>> /\ next = <<>> /\ depth = 0

\* The key a relation finds an entity of the row v by.
KeyUnder(r, v) == CacheKey(r.card, r.target, r.refe, v.val[r.refe])

\* Every entity is found by every relation to its table.
FindsAll(rows, cache) ==
  \A i \in DOMAIN rows, r \in Relations :
    r.target = rows[i].table => KeyUnder(r, rows[i]) \in DOMAIN cache

Filed == FindsAll(entities, data)

\* What was read without writes in between is in the database.
FromDb == writes = 0 => \A o \in Ids : entities[o] \in db

SomeIn(lists) == \E i \in DOMAIN lists : lists[i].ids # <<>>

\* Every level has loaded an entity, or is the last one.
Levels ==
  /\ depth <= Len(entities)
  /\ SomeIn(level) => depth < Len(entities)
  /\ next # <<>> => SomeIn(level)
  /\ SomeIn(next) => depth + 1 < Len(entities)

Limit ==
  /\ MaxIncludeDepth >= 0 => depth <= MaxIncludeDepth
  /\ pc = "include" => depth < MaxIncludeDepth

IInv == Types /\ Filed /\ OneEntityPerRow /\ FromDb /\ Levels /\ Limit

-----------------------------------------------------------------------------
(* Rows and the cache *)

\* The rows of a set in some order: each once.
LEMMA SetToSeqIs ==
  ASSUME NEW S, IsFiniteSet(S)
  PROVE  /\ Cardinality(S) \in Nat
         /\ SetToSeq(S) \in [1..Cardinality(S) -> S]
         /\ \A i, j \in 1..Cardinality(S) : SetToSeq(S)[i] = SetToSeq(S)[j] => i = j
<1>1. Cardinality(S) \in Nat /\ ExistsBijection(1..Cardinality(S), S)
  BY FS_CardinalityType
<1>2. PICK f : f \in Bijection(1..Cardinality(S), S)
  BY <1>1 DEF ExistsBijection
<1>3. f \in [1..Cardinality(S) -> S] /\ IsInjective(f)
  BY <1>2 DEF Bijection, Injection
<1>4. SetToSeq(S) \in [1..Cardinality(S) -> S] /\ IsInjective(SetToSeq(S))
  BY <1>3 DEF SetToSeq
<1>5. QED
  BY <1>1, <1>4 DEF IsInjective

LEMMA SetToSeqIsSeq ==
  ASSUME NEW R, NEW S \in SUBSET R, IsFiniteSet(S)
  PROVE  /\ SetToSeq(S) \in Seq(R)
         /\ Len(SetToSeq(S)) = Cardinality(S)
         /\ Cardinality(S) \in Nat
         /\ \A i \in 1..Cardinality(S) : SetToSeq(S)[i] \in S
         /\ \A i, j \in 1..Cardinality(S) : SetToSeq(S)[i] = SetToSeq(S)[j] => i = j
<1> DEFINE s == SetToSeq(S)
           n == Cardinality(S)
<1>1. n \in Nat /\ s \in [1..n -> S] /\ \A i, j \in 1..n : s[i] = s[j] => i = j
  BY SetToSeqIs
<1> HIDE DEF s, n
<1>2. s \in Seq(S)
  BY <1>1, SeqDef
<1>3. Len(s) = n /\ \A i \in 1..n : s[i] \in S
  BY <1>1, <1>2, LenProperties
<1>4. s \in Seq(R)
  BY <1>1, SeqDef
<1>5. QED
  BY <1>1, <1>3, <1>4 DEF s, n

\* AddObject forgets no key and files the entity under its own.
LEMMA AddObjectFiles ==
  ASSUME NEW cache, NEW o, NEW v
  PROVE  /\ DOMAIN cache \subseteq DOMAIN AddObject(cache, o, v)
         /\ \A r \in Relations :
              r.target = v.table => KeyUnder(r, v) \in DOMAIN AddObject(cache, o, v)
<1> DEFINE lists == ReferenceKeysOf(v, "OneToMany")
           singles == {PrimaryKeyOf(v)} \cup ReferenceKeysOf(v, "ManyToOne")
<1>1. DOMAIN AddObject(cache, o, v) = DOMAIN cache \cup lists \cup singles
  BY DEF AddObject
<1>2. ASSUME NEW r \in Relations, r.target = v.table
      PROVE  KeyUnder(r, v) \in lists \cup singles
  <2>1. r.card \in {"OneToMany", "ManyToOne"}
    BY IncludeAssumption
  <2>2. KeyUnder(r, v) = CacheKey(r.card, v.table, r.refe, v.val[r.refe])
    BY <1>2 DEF KeyUnder
  <2>3. r \in ReferenceKeys(v, r.card)
    BY <1>2 DEF ReferenceKeys
  <2>4. KeyUnder(r, v) \in ReferenceKeysOf(v, r.card)
    BY <2>2, <2>3 DEF ReferenceKeysOf
  <2>5. QED
    BY <2>1, <2>4
<1> HIDE DEF lists, singles
<1>3. QED
  BY <1>1, <1>2

-----------------------------------------------------------------------------
(* AddAll *)

\* The function AddAll defines: the cache after the first rows.
IsAdded(f, cache, rows, e, n) ==
  f = [i \in 0..n |-> IF i = 0 THEN cache ELSE AddObject(f[i - 1], e + i, rows[i])]

LEMMA AddedExists ==
  ASSUME NEW cache, NEW rows, NEW e, NEW n \in Nat
  PROVE  \E f : IsAdded(f, cache, rows, e, n)
<1> DEFINE S == {m \in Nat : \E f : IsAdded(f, cache, rows, e, m)}
<1>1. 0 \in S
  <2> DEFINE f == [i \in 0..0 |-> cache]
  <2>1. IsAdded(f, cache, rows, e, 0)
    BY DEF IsAdded
  <2>2. QED
    BY <2>1
<1>2. ASSUME NEW m \in Nat, m \in S PROVE m + 1 \in S
  <2>1. PICK f : IsAdded(f, cache, rows, e, m)
    BY <1>2
  <2> DEFINE g == [i \in 0..m + 1 |->
                     IF i <= m THEN f[i] ELSE AddObject(f[i - 1], e + i, rows[i])]
  <2>2. \A i \in 0..m : f[i] = IF i = 0 THEN cache ELSE AddObject(f[i - 1], e + i, rows[i])
    BY <2>1 DEF IsAdded
  <2>3. \A i \in 0..m + 1 :
           g[i] = IF i = 0 THEN cache ELSE AddObject(g[i - 1], e + i, rows[i])
    <3> SUFFICES ASSUME NEW i \in 0..m + 1
                 PROVE  g[i] = IF i = 0 THEN cache ELSE AddObject(g[i - 1], e + i, rows[i])
      OBVIOUS
    <3>1. i # 0 => i - 1 \in 0..m /\ g[i - 1] = f[i - 1]
      OBVIOUS
    <3>2. g[i] = IF i <= m THEN f[i] ELSE AddObject(f[i - 1], e + i, rows[i])
      OBVIOUS
    <3>3. ~(i <= m) => i # 0
      OBVIOUS
    <3>4. i <= m => i \in 0..m
      OBVIOUS
    <3> HIDE DEF g
    <3>5. CASE i <= m
      BY <2>2, <3>1, <3>2, <3>4, <3>5
    <3>6. CASE ~(i <= m)
      BY <3>1, <3>2, <3>3, <3>6
    <3>7. QED
      BY <3>5, <3>6
  <2>4. g = [i \in 0..m + 1 |-> g[i]]
    OBVIOUS
  <2> HIDE DEF g
  <2>5. IsAdded(g, cache, rows, e, m + 1)
    BY <2>3, <2>4 DEF IsAdded
  <2>6. QED
    BY <2>5
<1> HIDE DEF S
<1>3. Nat \subseteq S
  BY <1>1, <1>2, SetInduction
<1>4. QED
  BY <1>3 DEF S

\* AddAll forgets no key, and files every row under its own.
LEMMA AddAllFiles ==
  ASSUME NEW cache, NEW rows, Len(rows) \in Nat, DOMAIN rows = 1..Len(rows)
  PROVE  DOMAIN cache \subseteq DOMAIN AddAll(cache, rows) /\ FindsAll(rows, AddAll(cache, rows))
<1> DEFINE n == Len(rows)
           e == Len(entities)
           f == CHOOSE g : IsAdded(g, cache, rows, e, n)
           Finds(i, c) == \A r \in Relations : r.target = rows[i].table => KeyUnder(r, rows[i]) \in DOMAIN c
           S == {m \in Nat : m <= n => /\ DOMAIN cache \subseteq DOMAIN f[m]
                                       /\ \A i \in 1..m : Finds(i, f[m])}
<1>1. IsAdded(f, cache, rows, e, n)
  BY AddedExists
<1>2. AddAll(cache, rows) = f[n]
  BY DEF AddAll, IsAdded
<1>3. \A i \in 0..n : f[i] = IF i = 0 THEN cache ELSE AddObject(f[i - 1], e + i, rows[i])
  BY <1>1 DEF IsAdded
<1> HIDE DEF f, e, Finds
<1>4. 0 \in S
  BY <1>3
<1>5. ASSUME NEW m \in Nat, m \in S PROVE m + 1 \in S
  <2> SUFFICES ASSUME m + 1 <= n
               PROVE  /\ DOMAIN cache \subseteq DOMAIN f[m + 1]
                      /\ \A i \in 1..m + 1 : Finds(i, f[m + 1])
    OBVIOUS
  <2>1. /\ DOMAIN cache \subseteq DOMAIN f[m]
        /\ \A i \in 1..m : Finds(i, f[m])
    BY <1>5
  <2>2. f[m + 1] = AddObject(f[m], e + (m + 1), rows[m + 1])
    <3>1. m + 1 \in 0..n /\ m + 1 # 0 /\ (m + 1) - 1 = m
      OBVIOUS
    <3>2. QED
      BY <1>3, <3>1
  <2>3. DOMAIN f[m] \subseteq DOMAIN f[m + 1] /\ Finds(m + 1, f[m + 1])
    BY <2>2, AddObjectFiles DEF Finds
  <2>4. \A i \in 1..m : Finds(i, f[m + 1])
    BY <2>1, <2>3 DEF Finds
  <2>5. \A i \in 1..m + 1 : i \in 1..m \/ i = m + 1
    OBVIOUS
  <2>6. QED
    BY <2>1, <2>3, <2>4, <2>5
<1> HIDE DEF S
<1>6. n \in S
  BY <1>4, <1>5, SetInduction
<1>7. DOMAIN cache \subseteq DOMAIN f[n] /\ \A i \in 1..n : Finds(i, f[n])
  BY <1>6 DEF S
<1>8. QED
  BY <1>2, <1>7 DEF FindsAll, Finds

-----------------------------------------------------------------------------
(* The invariant *)

LEMMA InitEstablishes == Init => IInv
<1> SUFFICES ASSUME Init PROVE IInv
  OBVIOUS
<1>1. PICK s \in Scenarios : /\ db \in {d \in s.databases : Consistent(d)}
                             /\ loaders \in s.loaders
                             /\ MaxIncludeDepth \in s.depths
  BY DEF Init
<1>2. /\ db \subseteq Rows /\ IsFiniteSet(db)
      /\ loaders \in Seq(Relations) /\ MaxIncludeDepth \in Int
  BY <1>1, IncludeAssumption
<1>3. /\ entities = <<>> /\ data = <<>> /\ level = <<>> /\ next = <<>>
      /\ depth = 0 /\ at = 1 /\ turn = 1 /\ pc = "query" /\ writes = 0
  BY DEF Init
<1>4. Types
  BY <1>2, <1>3 DEF Types
<1>5. Len(entities) = 0 /\ DOMAIN entities = {} /\ DOMAIN level = {} /\ DOMAIN next = {}
  BY <1>3
<1>6. Filed /\ OneEntityPerRow /\ FromDb
  BY <1>5 DEF Filed, FindsAll, OneEntityPerRow, FromDb, Ids
<1>7. Levels /\ Limit
  BY <1>2, <1>3, <1>5 DEF Levels, Limit, SomeIn
<1>8. QED
  BY <1>4, <1>6, <1>7 DEF IInv

\* A row that a statement found for keys that were not cached was not loaded
\* before: its entity would be found by the relation.
UnderKeys(rows, r, keys) ==
  \A i \in DOMAIN rows : rows[i].table = r.target /\ KeyUnder(r, rows[i]) \in keys

LEMMA NotLoadedBefore ==
  ASSUME Filed, entities \in Seq(Rows), NEW r \in Relations, NEW keys, NEW rows,
         keys \cap DOMAIN data = {}, UnderKeys(rows, r, keys)
  PROVE  \A o \in DOMAIN entities, i \in DOMAIN rows : entities[o] # rows[i]
<1> SUFFICES ASSUME NEW o \in DOMAIN entities, NEW i \in DOMAIN rows, entities[o] = rows[i]
             PROVE  FALSE
  OBVIOUS
<1>1. rows[i].table = r.target /\ KeyUnder(r, rows[i]) \in keys
  BY DEF UnderKeys
<1>2. KeyUnder(r, entities[o]) \in DOMAIN data
  BY <1>1 DEF Filed, FindsAll
<1>3. QED
  BY <1>1, <1>2

\* Rows that are new, and in the database, become entities.
Fresh(rows) ==
  /\ rows \in Seq(db)
  /\ \A i, j \in DOMAIN rows : rows[i] = rows[j] => i = j
  /\ \A o \in DOMAIN entities, i \in DOMAIN rows : entities[o] # rows[i]

LEMMA ScannedKeeps ==
  ASSUME Types, Filed, OneEntityPerRow, FromDb, NEW rows, Fresh(rows),
         entities' = entities \o rows, data' = AddAll(data, rows),
         UNCHANGED <<db, writes>>
  PROVE  /\ entities' \in Seq(Rows) /\ Len(entities') = Len(entities) + Len(rows)
         /\ Filed' /\ OneEntityPerRow' /\ FromDb'
<1>1. /\ rows \in Seq(Rows) /\ entities \in Seq(Rows)
      /\ Len(rows) \in Nat /\ DOMAIN rows = 1..Len(rows)
      /\ Len(entities) \in Nat /\ DOMAIN entities = 1..Len(entities)
      /\ \A i \in 1..Len(rows) : rows[i] \in db
  <2>1. rows \in Seq(db) /\ db \subseteq Rows /\ entities \in Seq(Rows)
    BY DEF Types, Fresh
  <2>2. Len(rows) \in Nat /\ rows \in [1..Len(rows) -> db]
    BY <2>1, LenProperties
  <2>3. rows \in Seq(Rows)
    BY <2>1, <2>2, SeqDef
  <2>4. Len(entities) \in Nat /\ entities \in [1..Len(entities) -> Rows]
    BY <2>1, LenProperties
  <2>5. QED
    BY <2>1, <2>2, <2>3, <2>4
<1>2. /\ entities' \in Seq(Rows) /\ Len(entities') = Len(entities) + Len(rows)
      /\ DOMAIN entities' = 1..Len(entities')
      /\ \A i \in 1..Len(entities) + Len(rows) :
           entities'[i] = IF i <= Len(entities) THEN entities[i] ELSE rows[i - Len(entities)]
  BY <1>1, ConcatProperties
<1>3. \A i \in DOMAIN entities' :
        \/ i \in DOMAIN entities /\ entities'[i] = entities[i]
        \/ i - Len(entities) \in DOMAIN rows /\ entities'[i] = rows[i - Len(entities)] /\ i \in Int
  <2> SUFFICES ASSUME NEW i \in 1..Len(entities) + Len(rows)
               PROVE  \/ i \in DOMAIN entities /\ entities'[i] = entities[i]
                      \/ i - Len(entities) \in DOMAIN rows /\ entities'[i] = rows[i - Len(entities)] /\ i \in Int
    BY <1>2
  <2>1. CASE i <= Len(entities)
    BY <1>1, <1>2, <2>1
  <2>2. CASE ~(i <= Len(entities))
    <3>1. i - Len(entities) \in 1..Len(rows) /\ i \in Int
      BY <1>1, <2>2
    <3>2. QED
      BY <1>1, <1>2, <2>2, <3>1
  <2>3. QED
    BY <2>1, <2>2
<1>4. Filed'
  <2>1. DOMAIN data \subseteq DOMAIN data' /\ FindsAll(rows, data')
    BY <1>1, AddAllFiles
  <2>2. QED
    BY <1>3, <2>1 DEF Filed, FindsAll
<1>5. OneEntityPerRow'
  <2> SUFFICES ASSUME NEW o \in DOMAIN entities', NEW p \in DOMAIN entities', entities'[o] = entities'[p]
               PROVE  o = p
    BY <1>2 DEF OneEntityPerRow, Ids
  <2>1. CASE o \in DOMAIN entities /\ entities'[o] = entities[o]
    <3>1. p \in DOMAIN entities /\ entities'[p] = entities[p]
      BY <1>3, <2>1 DEF Fresh
    <3>2. QED
      BY <1>1, <2>1, <3>1 DEF OneEntityPerRow, Ids
  <2>2. CASE o - Len(entities) \in DOMAIN rows /\ entities'[o] = rows[o - Len(entities)] /\ o \in Int
    <3>1. p - Len(entities) \in DOMAIN rows /\ entities'[p] = rows[p - Len(entities)] /\ p \in Int
      BY <1>3, <2>2 DEF Fresh
    <3>2. o - Len(entities) = p - Len(entities)
      BY <2>2, <3>1 DEF Fresh
    <3>3. QED
      BY <1>1, <2>2, <3>1, <3>2
  <2>3. QED
    BY <1>3, <2>1, <2>2
<1>6. FromDb'
  <2> SUFFICES ASSUME writes = 0, NEW o \in DOMAIN entities' PROVE entities'[o] \in db
    BY <1>2 DEF FromDb, Ids
  <2>1. CASE o \in DOMAIN entities /\ entities'[o] = entities[o]
    BY <1>1, <2>1 DEF FromDb, Ids
  <2>2. CASE o - Len(entities) \in DOMAIN rows /\ entities'[o] = rows[o - Len(entities)]
    BY <1>1, <2>2
  <2>3. QED
    BY <1>3, <2>1, <2>2
<1>7. QED
  BY <1>2, <1>4, <1>5, <1>6

\* The numbers of the new entities.
LEMMA NewEntitiesType ==
  ASSUME NEW n \in Nat, entities \in Seq(Rows)
  PROVE  NewEntities(n) \in Seq(Nat) /\ (NewEntities(n) # <<>> => n > 0)
<1>1. Len(entities) \in Nat
  BY LenProperties
<1>2. NewEntities(n) \in [1..n -> Nat]
  BY <1>1 DEF NewEntities
<1>3. NewEntities(n) \in Seq(Nat)
  BY <1>2, SeqDef
<1>4. n = 0 => NewEntities(n) = <<>>
  <2>1. n = 0 => Len(NewEntities(n)) = 0
    BY <1>2, <1>3, LenProperties
  <2>2. QED
    BY <1>3, <2>1, EmptySeq
<1>5. QED
  BY <1>3, <1>4

-----------------------------------------------------------------------------
(* The steps *)

LEMMA QueryKeeps ==
  ASSUME IInv, NEW T \in Tables, NEW found \in SUBSET {v \in db : v.table = T}, Query(T, found)
  PROVE  IInv'
<1> DEFINE rows == SetToSeq(found)
           n == Cardinality(found)
           ids == NewEntities(n)
<1>1. /\ pc = "query" /\ entities = <<>> /\ next = <<>> /\ depth = 0
      /\ Types /\ Filed /\ OneEntityPerRow /\ FromDb /\ Limit
  BY DEF IInv, Query, Types
<1>2. found \in SUBSET db /\ IsFiniteSet(found)
  BY <1>1, FS_Subset DEF Types
<1>3. /\ rows \in Seq(db) /\ Len(rows) = n /\ n \in Nat /\ DOMAIN rows = 1..n
      /\ \A i, j \in 1..n : rows[i] = rows[j] => i = j
  <2>1. /\ rows \in Seq(db) /\ Len(rows) = n /\ n \in Nat
        /\ \A i, j \in 1..n : rows[i] = rows[j] => i = j
    BY <1>2, SetToSeqIsSeq
  <2>2. DOMAIN rows = 1..Len(rows)
    BY <2>1, LenProperties
  <2>3. QED
    BY <2>1, <2>2
<1>4. ids \in Seq(Nat) /\ (ids # <<>> => n > 0)
  BY <1>1, <1>3, NewEntitiesType DEF Types
<1>5. /\ entities' = entities \o rows /\ data' = AddAll(data, rows)
      /\ level' = <<[table |-> T, ids |-> ids]>>
      /\ pc' = IF depth < MaxIncludeDepth THEN "include" ELSE "returned"
      /\ UNCHANGED <<db, loaders, MaxIncludeDepth, next, depth, at, turn, writes>>
  BY DEF Query, Scanned
<1>e. Len(entities) = 0 /\ DOMAIN entities = {}
  BY <1>1
<1> HIDE DEF rows, n, ids
<1>6. Fresh(rows)
  BY <1>3, <1>e DEF Fresh
<1>7. /\ entities' \in Seq(Rows) /\ Len(entities') = Len(entities) + Len(rows)
      /\ Filed' /\ OneEntityPerRow' /\ FromDb'
  BY <1>1, <1>5, <1>6, ScannedKeeps
<1>8. level' \in Seq(Lists) /\ DOMAIN level' = {1} /\ level'[1].ids = ids
  BY <1>4, <1>5 DEF Lists
<1>9. Types'
  BY <1>1, <1>5, <1>7, <1>8 DEF Types
<1>10. Levels'
  <2>1. SomeIn(level') => n > 0
    BY <1>4, <1>8 DEF SomeIn
  <2>2. ~SomeIn(next') /\ next' = <<>>
    BY <1>1, <1>5 DEF SomeIn
  <2>3. QED
    BY <1>1, <1>3, <1>5, <1>7, <1>e, <2>1, <2>2 DEF Levels
<1>11. Limit'
  BY <1>1, <1>5 DEF Limit
<1>12. QED
  BY <1>7, <1>9, <1>10, <1>11 DEF IInv

\* A loader on a list of the level.
LEMMA LoaderIs ==
  ASSUME Types, LoaderCalled
  PROVE  /\ at \in 1..Len(level) /\ Records \in Lists
         /\ turn \in 1..Len(loaders) /\ Loader \in Relations
         /\ (NextTurn => at' \in Nat \ {0} /\ turn' \in Nat \ {0})
<1>1. /\ level \in Seq(Lists) /\ at \in Nat \ {0} /\ loaders \in Seq(Relations) /\ turn \in Nat \ {0}
      /\ at <= Len(level) /\ turn <= Len(loaders)
  BY DEF Types, LoaderCalled
<1>2. Len(level) \in Nat /\ Len(loaders) \in Nat
  BY <1>1, LenProperties
<1>3. at \in 1..Len(level) /\ turn \in 1..Len(loaders)
  BY <1>1, <1>2
<1>4. level[at] \in Lists /\ loaders[turn] \in Relations
  BY <1>1, <1>3, ElementOfSeq
<1>5. NextTurn => at' \in Nat \ {0} /\ turn' \in Nat \ {0}
  BY <1>1, <1>2 DEF NextTurn
<1>6. QED
  BY <1>3, <1>4, <1>5 DEF Records, Loader

\* Keys are asked for only by the entities of a list.
LEMMA SomeAsked ==
  ASSUME Types, LoaderCalled, Uncached # {}
  PROVE  SomeIn(level)
<1>1. at \in 1..Len(level) /\ Records \in Lists
  BY LoaderIs
<1>2. DOMAIN level = 1..Len(level)
  BY LenProperties DEF Types
<1>3. Records.ids # <<>>
  <2>1. \E o \in ToSet(Records.ids) : TRUE
    BY DEF Uncached
  <2>2. QED
    BY <2>1 DEF ToSet
<1>4. QED
  BY <1>1, <1>2, <1>3 DEF SomeIn, Records

LEMMA LoadUncachedKeeps ==
  ASSUME IInv, LoadUncached
  PROVE  IInv'
<1>1. Types /\ Filed /\ OneEntityPerRow /\ FromDb /\ Levels /\ Limit
  BY DEF IInv
<1>2. LoaderCalled /\ Uncached # {} /\ NextTurn /\ Loader \in Relations
      /\ at' \in Nat \ {0} /\ turn' \in Nat \ {0}
  BY <1>1, LoaderIs DEF LoadUncached
<1>3. PICK found \in SUBSET Selected(Uncached) :
        /\ Scanned(SetToSeq(found), {Loader})
        /\ next' = Append(next, [table |-> Loader.target, ids |-> NewEntities(Len(SetToSeq(found)))])
  BY DEF LoadUncached
<1> DEFINE rows == SetToSeq(found)
           n == Len(rows)
           ids == NewEntities(n)
           list == [table |-> Loader.target, ids |-> ids]
<1>4. found \in SUBSET db /\ IsFiniteSet(found)
  <2>1. found \in SUBSET db
    BY DEF Selected
  <2>2. QED
    BY <1>1, <2>1, FS_Subset DEF Types
<1>5. /\ rows \in Seq(db) /\ n \in Nat /\ DOMAIN rows = 1..n
      /\ \A i \in 1..n : rows[i] \in found
      /\ \A i, j \in 1..n : rows[i] = rows[j] => i = j
  <2>1. /\ rows \in Seq(db) /\ n = Cardinality(found) /\ Cardinality(found) \in Nat
        /\ \A i \in 1..Cardinality(found) : rows[i] \in found
        /\ \A i, j \in 1..Cardinality(found) : rows[i] = rows[j] => i = j
    BY <1>4, SetToSeqIsSeq
  <2>2. DOMAIN rows = 1..Len(rows)
    BY <2>1, LenProperties
  <2>3. QED
    BY <2>1, <2>2
<1>6. ids \in Seq(Nat) /\ (ids # <<>> => n > 0)
  BY <1>1, <1>5, NewEntitiesType DEF Types
<1>7. /\ entities' = entities \o rows /\ data' = AddAll(data, rows)
      /\ next' = Append(next, list)
      /\ UNCHANGED <<db, loaders, MaxIncludeDepth, level, depth, pc, writes>>
  BY <1>3 DEF Scanned, LoadUncached
<1> HIDE DEF rows, n, ids
<1>8. UnderKeys(rows, Loader, Uncached)
  <2>1. \A v \in Selected(Uncached) : v.table = Loader.target /\ KeyUnder(Loader, v) \in Uncached
    BY DEF Selected, KeyUnder
  <2>2. QED
    BY <1>5, <2>1 DEF UnderKeys
<1>9. Uncached \cap DOMAIN data = {}
  BY DEF Uncached, HasObject
<1>10. Fresh(rows)
  <2>1. \A o \in DOMAIN entities, i \in DOMAIN rows : entities[o] # rows[i]
    BY <1>1, <1>2, <1>8, <1>9, NotLoadedBefore DEF Types
  <2>2. QED
    BY <1>5, <2>1 DEF Fresh
<1>11. /\ entities' \in Seq(Rows) /\ Len(entities') = Len(entities) + n
       /\ Filed' /\ OneEntityPerRow' /\ FromDb'
  BY <1>1, <1>7, <1>10, ScannedKeeps DEF n
<1>12. /\ next \in Seq(Lists) /\ list \in Lists /\ list.ids = ids
       /\ Len(entities) \in Nat
  <2>1. Loader.target \in Tables
    BY <1>2, IncludeAssumption
  <2>2. next \in Seq(Lists) /\ Len(entities) \in Nat
    BY <1>1, LenProperties DEF Types
  <2>3. QED
    BY <1>6, <2>1, <2>2 DEF Lists
<1> HIDE DEF list
<1>13. /\ next' \in Seq(Lists) /\ next' # <<>>
       /\ \A i \in DOMAIN next' : (i \in DOMAIN next /\ next'[i] = next[i]) \/ next'[i] = list
  <2>1. /\ Append(next, list) \in Seq(Lists) /\ Append(next, list) # <<>>
        /\ DOMAIN Append(next, list) = 1..Len(next) + 1
        /\ \A i \in 1..Len(next) : Append(next, list)[i] = next[i]
        /\ Append(next, list)[Len(next) + 1] = list
        /\ Len(next) \in Nat /\ DOMAIN next = 1..Len(next)
    <3>1. /\ Append(next, list) \in Seq(Lists) /\ Len(Append(next, list)) = Len(next) + 1
          /\ Append(next, list) # <<>>
          /\ \A i \in 1..Len(next) : Append(next, list)[i] = next[i]
          /\ Append(next, list)[Len(next) + 1] = list
      BY <1>12, AppendProperties
    <3>2. DOMAIN Append(next, list) = 1..Len(Append(next, list))
      BY <3>1, LenProperties
    <3>3. Len(next) \in Nat /\ DOMAIN next = 1..Len(next)
      BY <1>12, LenProperties
    <3>4. QED
      BY <3>1, <3>2, <3>3
  <2>2. \A i \in 1..Len(next) + 1 : i \in 1..Len(next) \/ i = Len(next) + 1
    BY <2>1
  <2>3. QED
    BY <1>7, <2>1, <2>2
<1>14. Types'
  <2>1. pc = "include"
    BY <1>2 DEF LoaderCalled
  <2>2. QED
    BY <1>1, <1>2, <1>7, <1>11, <1>13, <2>1 DEF Types
<1>15. Levels'
  <2>1. SomeIn(level) /\ depth \in Nat /\ depth < Len(entities)
    BY <1>1, <1>2, SomeAsked DEF Levels, Types
  <2>2. SomeIn(next') => SomeIn(next) \/ ids # <<>>
    BY <1>12, <1>13 DEF SomeIn
  <2>3. SomeIn(next') => depth + 1 < Len(entities')
    <3>1. CASE SomeIn(next)
      <4>1. depth + 1 < Len(entities)
        BY <1>1, <3>1 DEF Levels
      <4>2. QED
        BY <1>5, <1>11, <1>12, <2>1, <4>1
    <3>2. CASE ids # <<>>
      <4>1. n > 0
        BY <1>6, <3>2
      <4>2. QED
        BY <1>5, <1>11, <1>12, <2>1, <4>1
    <3>3. QED
      BY <2>2, <3>1, <3>2
  <2>4. depth <= Len(entities') /\ depth < Len(entities')
    BY <1>5, <1>11, <1>12, <2>1
  <2>5. level' = level /\ depth' = depth /\ SomeIn(level')
    BY <1>7, <2>1
  <2>6. QED
    BY <2>3, <2>4, <2>5 DEF Levels
<1>16. Limit'
  BY <1>1, <1>7 DEF Limit
<1>17. QED
  BY <1>11, <1>14, <1>15, <1>16 DEF IInv

LEMMA DeeperKeeps ==
  ASSUME IInv, Deeper
  PROVE  IInv'
<1>1. Types /\ Filed /\ OneEntityPerRow /\ FromDb /\ Levels /\ Limit
  BY DEF IInv
<1>2. /\ pc = "include" /\ next # <<>>
      /\ level' = next /\ next' = <<>> /\ depth' = depth + 1 /\ at' = 1 /\ turn' = 1
      /\ pc' = (IF depth' < MaxIncludeDepth THEN "include" ELSE "returned")
      /\ UNCHANGED <<db, loaders, MaxIncludeDepth, entities, data, writes>>
  BY DEF Deeper, LevelDone
<1>3. depth \in Nat /\ MaxIncludeDepth \in Int /\ Len(entities) \in Nat
  BY <1>1, LenProperties DEF Types
<1>4. Types'
  BY <1>1, <1>2, <1>3 DEF Types
<1>5. Levels'
  <2>1. SomeIn(level) /\ depth < Len(entities)
    BY <1>1, <1>2 DEF Levels
  <2>2. SomeIn(level') => depth + 1 < Len(entities)
    BY <1>1, <1>2 DEF Levels
  <2>3. ~SomeIn(next')
    BY <1>2 DEF SomeIn
  <2>4. QED
    BY <1>2, <1>3, <2>1, <2>2, <2>3 DEF Levels
<1>6. Limit'
  BY <1>1, <1>2, <1>3 DEF Limit
<1>7. Filed' /\ OneEntityPerRow' /\ FromDb'
  BY <1>1, <1>2 DEF Filed, OneEntityPerRow, FromDb, Ids
<1>8. QED
  BY <1>4, <1>5, <1>6, <1>7 DEF IInv

\* A write of another session only changes the database.
LEMMA WriteKeeps ==
  ASSUME IInv, NEW new, new \subseteq Rows, IsFiniteSet(new), Write(new)
  PROVE  IInv'
<1>1. Types /\ Filed /\ OneEntityPerRow /\ FromDb /\ Levels /\ Limit
  BY DEF IInv
<1>2. /\ pc = "include" /\ db' = new /\ writes' = writes + 1
      /\ UNCHANGED <<loaders, MaxIncludeDepth, entities, field, data, level, next, depth, at, turn, pc>>
  BY DEF Write
<1>3. Types'
  BY <1>1, <1>2 DEF Types
<1>4. Levels' /\ Limit' /\ Filed' /\ OneEntityPerRow'
  BY <1>1, <1>2 DEF Levels, Limit, Filed, OneEntityPerRow, Ids, SomeIn
<1>5. FromDb'
  <2>1. writes' # 0
    BY <1>1, <1>2 DEF Types
  <2>2. QED
    BY <2>1 DEF FromDb
<1>6. QED
  BY <1>3, <1>4, <1>5 DEF IInv

LEMMA NextKeeps == IInv /\ [Next]_vars => IInv'
<1> SUFFICES ASSUME IInv, [Next]_vars PROVE IInv'
  OBVIOUS
<1>0. Types /\ Filed /\ OneEntityPerRow /\ FromDb /\ Levels /\ Limit
  BY DEF IInv
<1>1. ASSUME NEW T \in Tables, NEW rows \in SUBSET {v \in db : v.table = T}, Query(T, rows)
      PROVE  IInv'
  BY <1>1, QueryKeeps
<1>2. ASSUME LoaderCalled, NextTurn,
             UNCHANGED <<db, loaders, MaxIncludeDepth, entities, data, level, next, depth, pc, writes>>
      PROVE  IInv'
  <2>1. at' \in Nat \ {0} /\ turn' \in Nat \ {0}
    BY <1>0, <1>2, LoaderIs
  <2>2. Types'
    BY <1>0, <1>2, <2>1 DEF Types
  <2>3. QED
    BY <1>0, <1>2, <2>2 DEF IInv, Levels, Limit, Filed, OneEntityPerRow, FromDb, Ids, SomeIn
<1>3. CASE NotItsEntity
  BY <1>2, <1>3 DEF NotItsEntity
<1>4. CASE LoadCached
  BY <1>2, <1>4 DEF LoadCached
<1>5. CASE LoadUncached
  BY <1>5, LoadUncachedKeeps
<1>6. ASSUME pc' # "query", pc' # "include",
             UNCHANGED <<db, loaders, MaxIncludeDepth, entities, data, level, next, depth, at, turn, writes>>
      PROVE  IInv'
  <2>1. Types'
    BY <1>0, <1>6 DEF Types
  <2>2. QED
    BY <1>0, <1>6, <2>1 DEF IInv, Levels, Limit, Filed, OneEntityPerRow, FromDb, Ids, SomeIn
<1>7. CASE LoadFails
  BY <1>6, <1>7 DEF LoadFails
<1>8. CASE NothingLater
  BY <1>6, <1>8 DEF NothingLater
<1>9. CASE Deeper
  BY <1>9, DeeperKeeps
<1>10. ASSUME NEW v \in db, Write(db \ {v}) PROVE IInv'
  <2>1. db \ {v} \subseteq Rows /\ IsFiniteSet(db \ {v})
    BY <1>0, FS_RemoveElement DEF Types
  <2>2. QED
    BY <1>10, <2>1, WriteKeeps
<1>11. ASSUME NEW v \in Rows, Write({w \in db : PrimaryKeyOf(w) # PrimaryKeyOf(v)} \cup {v})
       PROVE  IInv'
  <2> DEFINE others == {w \in db : PrimaryKeyOf(w) # PrimaryKeyOf(v)}
  <2>1. others \subseteq Rows /\ IsFiniteSet(others)
    BY <1>0, FS_Subset DEF Types
  <2>2. IsFiniteSet(others \cup {v})
    BY <2>1, FS_AddElement
  <2> HIDE DEF others
  <2>3. QED
    BY <1>11, <2>1, <2>2, WriteKeeps DEF others
<1>12. CASE UNCHANGED vars
  BY <1>0, <1>12 DEF vars, IInv, Types, Levels, Limit, Filed, OneEntityPerRow, FromDb, Ids, SomeIn
<1>13. QED
  BY <1>1, <1>3, <1>4, <1>5, <1>7, <1>8, <1>9, <1>10, <1>11, <1>12 DEF Next, Step, Load

LEMMA Invariant == Spec => []IInv
<1>1. Init => IInv
  BY InitEstablishes
<1>2. IInv /\ [Next]_vars => IInv'
  BY NextKeeps
<1>3. QED
  BY <1>1, <1>2, PTL DEF Spec

\* No row becomes two entities (scope_cache.go:60-85, table.tgo:366-379): what a
\* loader reads is under a key that was not cached, and everything loaded
\* before is cached under all of its keys.
THEOREM RowsAreLoadedOnce == Spec => []OneEntityPerRow
<1>1. IInv => OneEntityPerRow
  BY DEF IInv
<1>2. QED
  BY <1>1, Invariant, PTL

\* Entities are different rows of the database.
LEMMA NoMoreThanRows ==
  ASSUME IInv, writes = 0
  PROVE  Len(entities) <= Cardinality(db)
<1>1. /\ Len(entities) \in Nat /\ entities \in [1..Len(entities) -> db]
      /\ IsFiniteSet(db)
  <2>1. Len(entities) \in Nat /\ entities \in [1..Len(entities) -> Rows] /\ IsFiniteSet(db)
    BY LenProperties DEF IInv, Types
  <2>2. \A o \in 1..Len(entities) : entities[o] \in db
    BY DEF IInv, FromDb, Ids
  <2>3. QED
    BY <2>1, <2>2
<1>2. entities \in Injection(1..Len(entities), db)
  BY <1>1 DEF Injection, IsInjective, IInv, OneEntityPerRow, Ids
<1>3. Cardinality(1..Len(entities)) <= Cardinality(db)
  BY <1>1, <1>2, FS_Injection
<1>4. Cardinality(1..Len(entities)) = Len(entities)
  BY <1>1, FS_Interval
<1>5. QED
  BY <1>3, <1>4

\* Includes of circular references end after at most as many levels as there
\* are rows (db_ctx.go:35, 184-187): every level but the last loads an entity,
\* and no row is loaded twice.  The limit is kept (db_ctx.go:36).
THEOREM CircularIncludesEnd == Spec => []CirclesEnd
<1>1. IInv => CirclesEnd
  <2> SUFFICES ASSUME IInv PROVE CirclesEnd
    OBVIOUS
  <2>1. depth \in Nat /\ depth <= Len(entities) /\ Len(entities) \in Nat
    BY LenProperties DEF IInv, Types, Levels
  <2>2. writes = 0 => depth <= Cardinality(db)
    <3>1. Cardinality(db) \in Nat
      BY FS_CardinalityType DEF IInv, Types
    <3>2. QED
      BY <2>1, <3>1, NoMoreThanRows
  <2>3. QED
    BY <2>2 DEF CirclesEnd, IInv, Limit
<1>2. QED
  BY <1>1, Invariant, PTL

-----------------------------------------------------------------------------
(* What the relation fields hold *)

\* How often p is in s.
Times(s, p) == Cardinality({i \in DOMAIN s : s[i] = p})

-----------------------------------------------------------------------------
(* Sequences and their elements *)

LEMMA ToSetConcat ==
  ASSUME NEW S, NEW s \in Seq(S), NEW t \in Seq(S)
  PROVE  ToSet(s \o t) = ToSet(s) \cup ToSet(t)
<1> DEFINE u == s \o t
<1>1. /\ Len(s) \in Nat /\ Len(t) \in Nat /\ DOMAIN s = 1..Len(s) /\ DOMAIN t = 1..Len(t)
      /\ DOMAIN u = 1..Len(s) + Len(t)
      /\ \A i \in 1..Len(s) + Len(t) : u[i] = IF i <= Len(s) THEN s[i] ELSE t[i - Len(s)]
  <2>1. /\ u \in Seq(S) /\ Len(u) = Len(s) + Len(t)
        /\ \A i \in 1..Len(s) + Len(t) : u[i] = IF i <= Len(s) THEN s[i] ELSE t[i - Len(s)]
    BY ConcatProperties
  <2>2. DOMAIN u = 1..Len(u)
    BY <2>1, LenProperties
  <2>3. Len(s) \in Nat /\ Len(t) \in Nat /\ DOMAIN s = 1..Len(s) /\ DOMAIN t = 1..Len(t)
    BY LenProperties
  <2> HIDE DEF u
  <2>4. QED
    BY <2>1, <2>2, <2>3
<1> HIDE DEF u
<1>2. \A i \in 1..Len(s) : i \in 1..Len(s) + Len(t) /\ u[i] = s[i]
  BY <1>1
<1>3. \A i \in 1..Len(t) : i + Len(s) \in 1..Len(s) + Len(t) /\ u[i + Len(s)] = t[i]
  <2> SUFFICES ASSUME NEW i \in 1..Len(t)
               PROVE  i + Len(s) \in 1..Len(s) + Len(t) /\ u[i + Len(s)] = t[i]
    OBVIOUS
  <2>1. i + Len(s) \in 1..Len(s) + Len(t) /\ ~(i + Len(s) <= Len(s)) /\ (i + Len(s)) - Len(s) = i
    BY <1>1
  <2>2. QED
    BY <1>1, <2>1
<1>4. \A i \in 1..Len(s) + Len(t) : i \in 1..Len(s) \/ i - Len(s) \in 1..Len(t)
  BY <1>1
<1>5. ToSet(u) \subseteq ToSet(s) \cup ToSet(t)
  <2> SUFFICES ASSUME NEW i \in 1..Len(s) + Len(t) PROVE u[i] \in ToSet(s) \cup ToSet(t)
    BY <1>1 DEF ToSet
  <2>1. CASE i <= Len(s)
    <3>1. i \in DOMAIN s /\ u[i] = s[i]
      BY <1>1, <2>1
    <3>2. QED
      BY <3>1 DEF ToSet
  <2>2. CASE ~(i <= Len(s))
    <3>1. i - Len(s) \in DOMAIN t /\ u[i] = t[i - Len(s)]
      BY <1>1, <2>2
    <3>2. QED
      BY <3>1 DEF ToSet
  <2>3. QED
    BY <2>1, <2>2
<1>6. ToSet(s) \subseteq ToSet(u) /\ ToSet(t) \subseteq ToSet(u)
  <2>1. \A i \in DOMAIN s : s[i] \in ToSet(u)
    BY <1>1, <1>2 DEF ToSet
  <2>2. \A i \in DOMAIN t : t[i] \in ToSet(u)
    BY <1>1, <1>3 DEF ToSet
  <2>3. QED
    BY <2>1, <2>2 DEF ToSet
<1>7. QED
  BY <1>5, <1>6 DEF u

\* Elements that a second sequence brings are as often in both together.
LEMMA TimesConcat ==
  ASSUME NEW S, NEW s \in Seq(S), NEW t \in Seq(S), NEW p
  PROVE  /\ p \notin ToSet(t) => Times(s \o t, p) = Times(s, p)
         /\ p \notin ToSet(s) => Times(s \o t, p) = Times(t, p)
<1> DEFINE u == s \o t
           U == {i \in DOMAIN u : u[i] = p}
           A == {i \in DOMAIN s : s[i] = p}
           B == {i \in DOMAIN t : t[i] = p}
<1>1. /\ Len(s) \in Nat /\ Len(t) \in Nat /\ DOMAIN s = 1..Len(s) /\ DOMAIN t = 1..Len(t)
      /\ DOMAIN u = 1..Len(s) + Len(t)
      /\ \A i \in 1..Len(s) + Len(t) : u[i] = IF i <= Len(s) THEN s[i] ELSE t[i - Len(s)]
  <2>1. /\ u \in Seq(S) /\ Len(u) = Len(s) + Len(t)
        /\ \A i \in 1..Len(s) + Len(t) : u[i] = IF i <= Len(s) THEN s[i] ELSE t[i - Len(s)]
    BY ConcatProperties
  <2>2. DOMAIN u = 1..Len(u)
    BY <2>1, LenProperties
  <2>3. Len(s) \in Nat /\ Len(t) \in Nat /\ DOMAIN s = 1..Len(s) /\ DOMAIN t = 1..Len(t)
    BY LenProperties
  <2> HIDE DEF u
  <2>4. QED
    BY <2>1, <2>2, <2>3
<1>t. Times(u, p) = Cardinality(U) /\ Times(s, p) = Cardinality(A) /\ Times(t, p) = Cardinality(B)
  BY DEF Times
<1> HIDE DEF u
<1>2. ASSUME p \notin ToSet(t) PROVE U = A
  <2>1. \A i \in 1..Len(t) : t[i] # p
    BY <1>1, <1>2 DEF ToSet
  <2>2. \A i \in 1..Len(s) + Len(t) : ~(i <= Len(s)) => i - Len(s) \in 1..Len(t)
    BY <1>1
  <2>3. QED
    BY <1>1, <2>1, <2>2
<1>3. ASSUME p \notin ToSet(s) PROVE Cardinality(U) = Cardinality(B)
  <2>1. \A i \in 1..Len(s) : s[i] # p
    BY <1>1, <1>3 DEF ToSet
  <2> DEFINE f == [i \in B |-> i + Len(s)]
  <2>2. \A i \in B : i + Len(s) \in U
    <3> SUFFICES ASSUME NEW i \in 1..Len(t), t[i] = p PROVE i + Len(s) \in U
      BY <1>1
    <3>1. i + Len(s) \in 1..Len(s) + Len(t) /\ ~(i + Len(s) <= Len(s)) /\ (i + Len(s)) - Len(s) = i
      BY <1>1
    <3>2. QED
      BY <1>1, <3>1
  <2>3. \A j \in U : j - Len(s) \in B /\ (j - Len(s)) + Len(s) = j
    <3> SUFFICES ASSUME NEW j \in 1..Len(s) + Len(t), u[j] = p
                 PROVE  j - Len(s) \in B /\ (j - Len(s)) + Len(s) = j
      BY <1>1
    <3>1. ~(j <= Len(s))
      BY <1>1, <2>1
    <3>2. j - Len(s) \in 1..Len(t) /\ (j - Len(s)) + Len(s) = j
      BY <1>1, <3>1
    <3>3. QED
      BY <1>1, <3>1, <3>2
  <2>4. IsFiniteSet(B)
    <3>1. IsFiniteSet(1..Len(t)) /\ B \in SUBSET (1..Len(t))
      BY <1>1, FS_Interval
    <3>2. QED
      BY <3>1, FS_Subset
  <2>5. \A i, j \in B : i + Len(s) = j + Len(s) => i = j
    BY <1>1
  <2> HIDE DEF U, B
  <2>6. f \in Bijection(B, U)
    <3>1. f \in [B -> U]
      BY <2>2
    <3>2. \A i, j \in B : f[i] = f[j] => i = j
      BY <2>5
    <3>3. \A j \in U : \E i \in B : f[i] = j
      BY <2>3
    <3> HIDE DEF f
    <3>4. QED
      BY <3>1, <3>2, <3>3 DEF Bijection, Injection, Surjection, IsInjective
  <2>7. ExistsBijection(B, U)
    BY <2>6 DEF ExistsBijection
  <2>8. QED
    BY <2>4, <2>7, FS_Bijection
<1>4. QED
  BY <1>2, <1>3, <1>t DEF u

\* n copies of one element.
LEMMA Copies ==
  ASSUME NEW n \in Nat \ {0}, NEW S, NEW p \in S
  PROVE  LET s == [i \in 1..n |-> p]
         IN  s \in Seq(S) /\ ToSet(s) = {p} /\ Times(s, p) = n
<1> DEFINE s == [i \in 1..n |-> p]
<1>1. s \in Seq(S)
  BY SeqDef
<1>2. ToSet(s) = {p}
  <2>1. 1 \in DOMAIN s
    OBVIOUS
  <2>2. QED
    BY <2>1 DEF ToSet
<1>3. Times(s, p) = n
  <2>1. {i \in DOMAIN s : s[i] = p} = 1..n
    OBVIOUS
  <2>2. Cardinality(1..n) = n
    BY FS_Interval
  <2>3. QED
    BY <2>1, <2>2 DEF Times
<1>4. QED
  BY <1>1, <1>2, <1>3

-----------------------------------------------------------------------------
(* What AddObject and AddAll file *)

\* Keys are <<cardinality, table, column, value>>: they select this row.
Suits(v, k) == k = <<k[1], k[2], k[3], k[4]>> /\ v.table = k[2] /\ v.val[k[3]] = k[4]

\* The one-to-many relations that look entities up by such a key.
SharedBy(k) ==
  {s \in Relations : s.card = "OneToMany" /\ s.target = k[2] /\ s.refe = k[3]}

ListKeys(v) == ReferenceKeysOf(v, "OneToMany")
SingleKeys(v) == {PrimaryKeyOf(v)} \cup ReferenceKeysOf(v, "ManyToOne")

LEMMA ListKeyIs ==
  ASSUME NEW v, NEW k \in ListKeys(v)
  PROVE  /\ k[1] = "OneToMany" /\ Suits(v, k)
         /\ Cardinality(SharedBy(k)) \in Nat \ {0}
         /\ {r \in ReferenceKeys(v, "OneToMany") :
               CacheKey("OneToMany", v.table, r.refe, v.val[r.refe]) = k} = SharedBy(k)
<1>1. PICK s \in Relations : /\ s.target = v.table /\ s.card = "OneToMany"
                             /\ k = <<"OneToMany", v.table, s.refe, v.val[s.refe]>>
  BY DEF ListKeys, ReferenceKeysOf, ReferenceKeys, CacheKey
<1>2. k[1] = "OneToMany" /\ k[2] = v.table /\ k[3] = s.refe /\ k[4] = v.val[s.refe]
  BY <1>1
<1>3. s \in SharedBy(k)
  BY <1>1, <1>2 DEF SharedBy
<1>4. Cardinality(SharedBy(k)) \in Nat \ {0}
  <2>1. SharedBy(k) \in SUBSET Relations
    BY DEF SharedBy
  <2>2. IsFiniteSet(SharedBy(k))
    BY <2>1, IncludeAssumption, FS_Subset
  <2>3. QED
    BY <1>3, <2>2, FS_CardinalityType, FS_EmptySet
<1>5. ASSUME NEW r \in Relations
      PROVE  (r \in ReferenceKeys(v, "OneToMany")
                /\ CacheKey("OneToMany", v.table, r.refe, v.val[r.refe]) = k)
             <=> r \in SharedBy(k)
  <2>1. r \in ReferenceKeys(v, "OneToMany") <=> r.target = v.table /\ r.card = "OneToMany"
    BY DEF ReferenceKeys
  <2>2. r \in SharedBy(k) <=> r.card = "OneToMany" /\ r.target = v.table /\ r.refe = s.refe
    BY <1>2 DEF SharedBy
  <2>3. ASSUME r.refe = s.refe PROVE CacheKey("OneToMany", v.table, r.refe, v.val[r.refe]) = k
    BY <1>1, <2>3 DEF CacheKey
  <2>4. ASSUME CacheKey("OneToMany", v.table, r.refe, v.val[r.refe]) = k PROVE r.refe = s.refe
    BY <1>1, <2>4 DEF CacheKey
  <2>5. QED
    BY <2>1, <2>2, <2>3, <2>4
<1>6. {r \in ReferenceKeys(v, "OneToMany") :
         CacheKey("OneToMany", v.table, r.refe, v.val[r.refe]) = k} = SharedBy(k)
  <2>1. ReferenceKeys(v, "OneToMany") \subseteq Relations /\ SharedBy(k) \subseteq Relations
    BY DEF ReferenceKeys, SharedBy
  <2>2. QED
    BY <1>5, <2>1
<1>7. QED
  <2>1. k = <<k[1], k[2], k[3], k[4]>>
    BY <1>1
  <2>2. QED
    BY <1>2, <1>4, <1>6, <2>1 DEF Suits

LEMMA SingleKeyIs ==
  ASSUME NEW v, NEW k \in SingleKeys(v)
  PROVE  k[1] # "OneToMany" /\ Suits(v, k)
<1>1. CASE k = PrimaryKeyOf(v)
  BY <1>1 DEF PrimaryKeyOf, CacheKey, Suits
<1>2. CASE k \in ReferenceKeysOf(v, "ManyToOne")
  <2>1. PICK s \in Relations : k = <<"ManyToOne", v.table, s.refe, v.val[s.refe]>>
    BY <1>2 DEF ReferenceKeysOf, ReferenceKeys, CacheKey
  <2>2. QED
    BY <2>1 DEF Suits
<1>3. QED
  BY <1>1, <1>2 DEF SingleKeys

\* after is the cache c with o, the entity of the row v.
IsAfter(after, c, o, v) ==
  /\ DOMAIN after = DOMAIN c \cup ListKeys(v) \cup SingleKeys(v)
  /\ \A k \in ListKeys(v) :
       after[k] = GetObject(c, k) \o [i \in 1..Cardinality(SharedBy(k)) |-> o]
  /\ \A k \in SingleKeys(v) : after[k] = <<o>>
  /\ \A k \in DOMAIN c : k \notin ListKeys(v) /\ k \notin SingleKeys(v) => after[k] = c[k]

LEMMA AddObjectIs ==
  ASSUME NEW c, NEW o, NEW v
  PROVE  IsAfter(AddObject(c, o, v), c, o, v)
<1> DEFINE rs(k) == {r \in ReferenceKeys(v, "OneToMany") :
                       CacheKey("OneToMany", v.table, r.refe, v.val[r.refe]) = k}
           D == DOMAIN c \cup ListKeys(v) \cup SingleKeys(v)
           after == AddObject(c, o, v)
<1>1. after = [k \in D |-> CASE k \in ListKeys(v) -> GetObject(c, k) \o [i \in 1..Cardinality(rs(k)) |-> o]
                             [] k \in SingleKeys(v) -> <<o>>
                             [] OTHER -> c[k]]
  BY DEF AddObject, ListKeys, SingleKeys
<1> HIDE DEF after, rs
<1>2. DOMAIN after = D
  BY <1>1
<1>3. ASSUME NEW k \in ListKeys(v)
      PROVE  after[k] = GetObject(c, k) \o [i \in 1..Cardinality(SharedBy(k)) |-> o]
  <2>1. rs(k) = SharedBy(k)
    BY ListKeyIs DEF rs
  <2>2. k \notin SingleKeys(v)
    BY ListKeyIs, SingleKeyIs
  <2>3. after[k] = GetObject(c, k) \o [i \in 1..Cardinality(rs(k)) |-> o]
    BY <1>1, <2>2
  <2>4. QED
    BY <2>1, <2>3
<1>4. ASSUME NEW k \in SingleKeys(v) PROVE after[k] = <<o>>
  <2>1. k \notin ListKeys(v)
    BY ListKeyIs, SingleKeyIs
  <2>2. QED
    BY <1>1, <2>1
<1>5. ASSUME NEW k \in DOMAIN c, k \notin ListKeys(v), k \notin SingleKeys(v) PROVE after[k] = c[k]
  BY <1>1, <1>5
<1>6. QED
  BY <1>2, <1>3, <1>4, <1>5 DEF after, IsAfter

\* The lists of a cache: entities that are there, each as often as relations
\* share the key, and a single one under the other keys.
ListsOk(c, n) ==
  \A k \in DOMAIN c :
    /\ c[k] \in Seq(1..n)
    /\ k[1] # "OneToMany" => Len(c[k]) = 1
    /\ k[1] = "OneToMany" => \A p \in ToSet(c[k]) : Times(c[k], p) = Cardinality(SharedBy(k))

\* The entities e + 1, e + 2, .. of the first m rows were added.
AddedTo(before, after, rows, e, m) ==
  /\ \A k \in DOMAIN before :
       k \in DOMAIN after /\ (k[1] = "OneToMany" => ToSet(before[k]) \subseteq ToSet(after[k]))
  /\ \A k \in DOMAIN after, p \in Nat : p \in ToSet(after[k]) =>
       \/ k \in DOMAIN before /\ p \in ToSet(before[k])
       \/ \E i \in 1..m : p = e + i /\ Suits(rows[i], k)
  /\ \A k \in DOMAIN after : k \notin DOMAIN before => \E i \in 1..m : e + i \in ToSet(after[k])
  /\ \A i \in 1..m, r \in Relations : r.card = "OneToMany" /\ r.target = rows[i].table =>
       KeyUnder(r, rows[i]) \in DOMAIN after /\ e + i \in ToSet(after[KeyUnder(r, rows[i])])

LEMMA AddObjectKeepsLists ==
  ASSUME NEW c, NEW v, NEW n \in Nat, NEW o, o = n + 1, ListsOk(c, n),
         NEW after, IsAfter(after, c, o, v)
  PROVE  ListsOk(after, n + 1)
<1> DEFINE old(k) == GetObject(c, k)
<1>1. /\ DOMAIN after = DOMAIN c \cup ListKeys(v) \cup SingleKeys(v)
      /\ \A k \in ListKeys(v) : after[k] = old(k) \o [i \in 1..Cardinality(SharedBy(k)) |-> o]
      /\ \A k \in SingleKeys(v) : after[k] = <<o>>
      /\ \A k \in DOMAIN c : k \notin ListKeys(v) /\ k \notin SingleKeys(v) => after[k] = c[k]
  BY DEF IsAfter
<1> HIDE DEF old
<1>2. 1..n \subseteq 1..n + 1 /\ n + 1 \in 1..n + 1 /\ n + 1 \notin 1..n
  OBVIOUS
<1>3. ASSUME NEW k \in DOMAIN c
      PROVE  c[k] \in Seq(1..n + 1)
  BY <1>2, SeqMonotonic DEF ListsOk
<1>4. ASSUME NEW k \in ListKeys(v)
      PROVE  /\ after[k] \in Seq(1..n + 1)
             /\ k[1] = "OneToMany"
             /\ \A p \in ToSet(after[k]) : Times(after[k], p) = Cardinality(SharedBy(k))
  <2> DEFINE t == [i \in 1..Cardinality(SharedBy(k)) |-> o]
             q == Cardinality(SharedBy(k))
  <2>1. k[1] = "OneToMany" /\ q \in Nat \ {0}
    BY ListKeyIs
  <2>2. t \in Seq(1..n + 1) /\ ToSet(t) = {o} /\ Times(t, o) = q
    BY <1>2, <2>1, Copies, ZenonT(60)
  <2>3. /\ old(k) \in Seq(1..n + 1)
        /\ ToSet(old(k)) \subseteq 1..n
        /\ \A p \in ToSet(old(k)) : Times(old(k), p) = q
    <3>1. CASE k \in DOMAIN c
      <4>1. old(k) = c[k]
        BY <3>1 DEF old, GetObject, HasObject
      <4>2. c[k] \in Seq(1..n) /\ \A p \in ToSet(c[k]) : Times(c[k], p) = q
        BY <2>1, <3>1 DEF ListsOk
      <4>3. c[k] \in [1..Len(c[k]) -> 1..n]
        BY <4>2, LenProperties
      <4>4. ToSet(c[k]) \subseteq 1..n
        BY <4>3 DEF ToSet
      <4>5. QED
        BY <1>3, <3>1, <4>1, <4>2, <4>4
    <3>2. CASE k \notin DOMAIN c
      <4>1. old(k) = <<>>
        BY <3>2 DEF old, GetObject, HasObject
      <4>2. ToSet(<<>>) = {} /\ <<>> \in Seq(1..n + 1)
        BY DEF ToSet
      <4>3. QED
        BY <4>1, <4>2
    <3>3. QED
      BY <3>1, <3>2
  <2>4. after[k] = old(k) \o t
    BY <1>1
  <2> HIDE DEF t, q
  <2>5. after[k] \in Seq(1..n + 1)
    BY <2>2, <2>3, <2>4, ConcatProperties
  <2>6. ToSet(after[k]) = ToSet(old(k)) \cup {o}
    BY <2>2, <2>3, <2>4, ToSetConcat
  <2>7. ASSUME NEW p \in ToSet(old(k)) PROVE Times(after[k], p) = q
    <3>1. p \notin ToSet(t)
      BY <1>2, <2>2, <2>3
    <3>2. Times(old(k) \o t, p) = Times(old(k), p)
      BY <2>2, <2>3, <3>1, TimesConcat
    <3>3. QED
      BY <2>3, <2>4, <3>2
  <2>8. Times(after[k], o) = q
    <3>1. o \notin ToSet(old(k))
      BY <1>2, <2>3
    <3>2. Times(old(k) \o t, o) = Times(t, o)
      BY <2>2, <2>3, <3>1, TimesConcat
    <3>3. QED
      BY <2>2, <2>4, <3>2
  <2>9. QED
    BY <2>1, <2>5, <2>6, <2>7, <2>8 DEF q
<1>5. ASSUME NEW k \in SingleKeys(v)
      PROVE  after[k] \in Seq(1..n + 1) /\ Len(after[k]) = 1 /\ k[1] # "OneToMany"
  <2>1. k[1] # "OneToMany" /\ after[k] = <<o>>
    BY <1>1, SingleKeyIs
  <2>2. <<o>> \in Seq(1..n + 1) /\ Len(<<o>>) = 1
    BY <1>2
  <2>3. QED
    BY <2>1, <2>2
<1>6. ASSUME NEW k \in DOMAIN c, k \notin ListKeys(v), k \notin SingleKeys(v)
      PROVE  /\ after[k] \in Seq(1..n + 1)
             /\ k[1] # "OneToMany" => Len(after[k]) = 1
             /\ k[1] = "OneToMany" => \A p \in ToSet(after[k]) : Times(after[k], p) = Cardinality(SharedBy(k))
  <2>1. after[k] = c[k]
    BY <1>1, <1>6
  <2>2. QED
    BY <1>3, <2>1 DEF ListsOk
<1>7. QED
  <2> SUFFICES ASSUME NEW k \in DOMAIN after
               PROVE  /\ after[k] \in Seq(1..n + 1)
                      /\ k[1] # "OneToMany" => Len(after[k]) = 1
                      /\ k[1] = "OneToMany" =>
                           \A p \in ToSet(after[k]) : Times(after[k], p) = Cardinality(SharedBy(k))
    BY DEF ListsOk
  <2>1. CASE k \in ListKeys(v)
    BY <1>4, <2>1
  <2>2. CASE k \in SingleKeys(v)
    BY <1>5, <2>2
  <2>3. CASE k \notin ListKeys(v) /\ k \notin SingleKeys(v)
    BY <1>1, <1>6, <2>3
  <2>4. QED
    BY <2>1, <2>2, <2>3

\* o has joined the list of k.
Joined(after, c, o, v, k) ==
  /\ k \in DOMAIN after /\ k[1] = "OneToMany" /\ Suits(v, k)
  /\ k \in DOMAIN c => ToSet(after[k]) = ToSet(c[k]) \cup {o}
  /\ k \notin DOMAIN c => ToSet(after[k]) = {o}

LEMMA AfterList ==
  ASSUME NEW c, NEW v, NEW n \in Nat, NEW o, o = n + 1, ListsOk(c, n),
         NEW after, IsAfter(after, c, o, v), NEW k \in ListKeys(v)
  PROVE  Joined(after, c, o, v, k)
<1> DEFINE q == Cardinality(SharedBy(k))
           t == [i \in 1..q |-> o]
<1>1. k[1] = "OneToMany" /\ Suits(v, k) /\ q \in Nat \ {0}
  BY ListKeyIs
<1>2. o \in Nat
  OBVIOUS
<1>3. t \in Seq(Nat) /\ ToSet(t) = {o}
  BY <1>1, <1>2, Copies
<1>4. after[k] = GetObject(c, k) \o t /\ k \in DOMAIN after
  BY DEF IsAfter
<1> HIDE DEF t, q
<1>5. ASSUME k \in DOMAIN c PROVE ToSet(after[k]) = ToSet(c[k]) \cup {o}
  <2>1. GetObject(c, k) = c[k]
    BY <1>5 DEF GetObject, HasObject
  <2>2. c[k] \in Seq(1..n) /\ 1..n \subseteq Nat
    BY <1>5 DEF ListsOk
  <2>3. c[k] \in Seq(Nat)
    BY <2>2, SeqMonotonic
  <2>4. QED
    BY <1>3, <1>4, <2>1, <2>3, ToSetConcat
<1>6. ASSUME k \notin DOMAIN c PROVE ToSet(after[k]) = {o}
  <2>1. GetObject(c, k) = <<>>
    BY <1>6 DEF GetObject, HasObject
  <2>2. <<>> \o t = t
    BY <1>3, ConcatEmptySeq
  <2>3. QED
    BY <1>3, <1>4, <2>1, <2>2
<1>7. QED
  BY <1>1, <1>4, <1>5, <1>6 DEF Joined

\* Other keys: o alone, or what was there.
LEMMA AfterOther ==
  ASSUME NEW c, NEW v, NEW o, NEW after, IsAfter(after, c, o, v),
         NEW k \in DOMAIN after, k \notin ListKeys(v)
  PROVE  \/ k[1] # "OneToMany" /\ Suits(v, k) /\ ToSet(after[k]) = {o}
         \/ k \in DOMAIN c /\ after[k] = c[k]
<1>1. CASE k \in SingleKeys(v)
  <2>1. k[1] # "OneToMany" /\ Suits(v, k)
    BY <1>1, SingleKeyIs
  <2>2. after[k] = <<o>>
    BY <1>1 DEF IsAfter
  <2>3. ToSet(<<o>>) = {o}
    BY DEF ToSet
  <2>4. QED
    BY <2>1, <2>2, <2>3
<1>2. CASE k \notin SingleKeys(v)
  BY <1>2 DEF IsAfter
<1>3. QED
  BY <1>1, <1>2

\* The new object is in the lists of all one-to-many relations.
LEMMA RelationKey ==
  ASSUME NEW v, NEW r \in Relations, r.card = "OneToMany", r.target = v.table
  PROVE  KeyUnder(r, v) \in ListKeys(v)
BY DEF KeyUnder, ListKeys, ReferenceKeysOf, ReferenceKeys

LEMMA AddedOneMore ==
  ASSUME NEW before, NEW mid, NEW after, NEW rows, NEW e \in Nat, NEW m \in Nat,
         NEW o, o = e + m + 1, NEW v, v = rows[m + 1],
         ListsOk(mid, e + m), AddedTo(before, mid, rows, e, m), IsAfter(after, mid, o, v)
  PROVE  AddedTo(before, after, rows, e, m + 1)
<1>1. /\ DOMAIN mid \subseteq DOMAIN after
      /\ \A k \in ListKeys(v) : k \in DOMAIN after
  BY DEF IsAfter
<1>2. \A k \in ListKeys(v) :
        /\ k \in DOMAIN after /\ k[1] = "OneToMany" /\ Suits(v, k)
        /\ k \in DOMAIN mid => ToSet(after[k]) = ToSet(mid[k]) \cup {o}
        /\ k \notin DOMAIN mid => ToSet(after[k]) = {o}
  <2> SUFFICES ASSUME NEW k \in ListKeys(v)
               PROVE  Joined(after, mid, o, v, k)
    BY DEF Joined
  <2> DEFINE n == e + m
  <2>1. n \in Nat /\ o = n + 1 /\ ListsOk(mid, n)
    OBVIOUS
  <2> HIDE DEF n
  <2>2. QED
    BY <2>1, AfterList
<1>3. \A k \in DOMAIN after : k \notin ListKeys(v) =>
        \/ k[1] # "OneToMany" /\ Suits(v, k) /\ ToSet(after[k]) = {o}
        \/ k \in DOMAIN mid /\ after[k] = mid[k]
  BY AfterOther
<1>4. \A k \in DOMAIN mid : k[1] = "OneToMany" => ToSet(mid[k]) \subseteq ToSet(after[k])
  <2> SUFFICES ASSUME NEW k \in DOMAIN mid, k[1] = "OneToMany" PROVE ToSet(mid[k]) \subseteq ToSet(after[k])
    OBVIOUS
  <2>1. CASE k \in ListKeys(v)
    BY <1>2, <2>1
  <2>2. CASE k \notin ListKeys(v)
    BY <1>1, <1>3, <2>2
  <2>3. QED
    BY <2>1, <2>2
<1>5. m + 1 \in 1..m + 1 /\ o = e + (m + 1) /\ \A i \in 1..m : i \in 1..m + 1
  OBVIOUS
<1>6. \A k \in DOMAIN before :
        k \in DOMAIN after /\ (k[1] = "OneToMany" => ToSet(before[k]) \subseteq ToSet(after[k]))
  <2>1. \A k \in DOMAIN before :
          k \in DOMAIN mid /\ (k[1] = "OneToMany" => ToSet(before[k]) \subseteq ToSet(mid[k]))
    BY DEF AddedTo
  <2>2. QED
    BY <1>1, <1>4, <2>1
<1>7. ASSUME NEW k \in DOMAIN after, NEW p \in Nat, p \in ToSet(after[k])
      PROVE  \/ k \in DOMAIN before /\ p \in ToSet(before[k])
             \/ \E i \in 1..m + 1 : p = e + i /\ Suits(rows[i], k)
  <2>1. \/ k \in DOMAIN mid /\ p \in ToSet(mid[k])
        \/ p = o /\ Suits(v, k)
    <3>1. CASE k \in ListKeys(v)
      BY <1>2, <1>7, <3>1
    <3>2. CASE k \notin ListKeys(v)
      BY <1>3, <1>7, <3>2
    <3>3. QED
      BY <3>1, <3>2
  <2>2. CASE k \in DOMAIN mid /\ p \in ToSet(mid[k])
    <3>1. \/ k \in DOMAIN before /\ p \in ToSet(before[k])
          \/ \E i \in 1..m : p = e + i /\ Suits(rows[i], k)
      BY <2>2 DEF AddedTo
    <3>2. QED
      BY <1>5, <3>1
  <2>3. CASE p = o /\ Suits(v, k)
    BY <1>5, <2>3
  <2>4. QED
    BY <2>1, <2>2, <2>3
<1>8. ASSUME NEW k \in DOMAIN after, k \notin DOMAIN before
      PROVE  \E i \in 1..m + 1 : e + i \in ToSet(after[k])
  <2>1. o \in ToSet(after[k]) \/ (k \in DOMAIN mid /\ ToSet(mid[k]) \subseteq ToSet(after[k]))
    <3>1. CASE k \in ListKeys(v)
      BY <1>2, <3>1
    <3>2. CASE k \notin ListKeys(v)
      BY <1>3, <3>2
    <3>3. QED
      BY <3>1, <3>2
  <2>2. CASE o \in ToSet(after[k])
    BY <1>5, <2>2
  <2>3. CASE k \in DOMAIN mid /\ ToSet(mid[k]) \subseteq ToSet(after[k])
    <3>1. \E i \in 1..m : e + i \in ToSet(mid[k])
      BY <1>8, <2>3 DEF AddedTo
    <3>2. QED
      BY <1>5, <2>3, <3>1
  <2>4. QED
    BY <2>1, <2>2, <2>3
<1>9. ASSUME NEW i \in 1..m + 1, NEW r \in Relations, r.card = "OneToMany", r.target = rows[i].table
      PROVE  KeyUnder(r, rows[i]) \in DOMAIN after /\ e + i \in ToSet(after[KeyUnder(r, rows[i])])
  <2> DEFINE k == KeyUnder(r, rows[i])
  <2>1. CASE i \in 1..m
    <3>1. k \in DOMAIN mid /\ e + i \in ToSet(mid[k])
      BY <1>9, <2>1 DEF AddedTo
    <3>2. k[1] = "OneToMany"
      BY <1>9 DEF KeyUnder, CacheKey
    <3> HIDE DEF k
    <3>3. k \in DOMAIN after /\ e + i \in ToSet(after[k])
      BY <1>1, <1>4, <3>1, <3>2
    <3>4. QED
      BY <3>3 DEF k
  <2>2. CASE i = m + 1
    <3>1. KeyUnder(r, v) \in ListKeys(v)
      BY <1>9, <2>2, RelationKey
    <3>2. k \in ListKeys(v)
      BY <2>2, <3>1
    <3> HIDE DEF k
    <3>3. k \in DOMAIN after /\ o \in ToSet(after[k])
      BY <1>2, <3>2
    <3>4. QED
      BY <2>2, <3>3 DEF k
  <2>3. i \in 1..m \/ i = m + 1
    OBVIOUS
  <2>4. QED
    BY <2>1, <2>2, <2>3
<1>10. QED
  BY <1>6, <1>7, <1>8, <1>9 DEF AddedTo

\* AddAll adds all rows.
LEMMA AddAllAdds ==
  ASSUME NEW cache, NEW rows, Len(rows) \in Nat, NEW e \in Nat, e = Len(entities),
         ListsOk(cache, e)
  PROVE  /\ ListsOk(AddAll(cache, rows), e + Len(rows))
         /\ AddedTo(cache, AddAll(cache, rows), rows, e, Len(rows))
<1> DEFINE n == Len(rows)
           f == CHOOSE g : IsAdded(g, cache, rows, e, n)
           S == {m \in Nat : m <= n => ListsOk(f[m], e + m) /\ AddedTo(cache, f[m], rows, e, m)}
<1>1. IsAdded(f, cache, rows, e, n)
  BY AddedExists
<1>2. AddAll(cache, rows) = f[n]
  BY DEF AddAll, IsAdded
<1>3. \A i \in 0..n : f[i] = IF i = 0 THEN cache ELSE AddObject(f[i - 1], e + i, rows[i])
  BY <1>1 DEF IsAdded
<1> HIDE DEF f
<1>4. 0 \in S
  <2>1. f[0] = cache /\ e + 0 = e /\ 1..0 = {}
    BY <1>3
  <2>2. AddedTo(cache, cache, rows, e, 0)
    BY <2>1 DEF AddedTo
  <2>3. QED
    BY <2>1, <2>2
<1>5. ASSUME NEW m \in Nat, m \in S PROVE m + 1 \in S
  <2> SUFFICES ASSUME m + 1 <= n
               PROVE  ListsOk(f[m + 1], e + (m + 1)) /\ AddedTo(cache, f[m + 1], rows, e, m + 1)
    OBVIOUS
  <2>1. ListsOk(f[m], e + m) /\ AddedTo(cache, f[m], rows, e, m)
    BY <1>5
  <2> DEFINE o == e + m + 1
             v == rows[m + 1]
             after == f[m + 1]
             mid == f[m]
  <2>2. f[m + 1] = AddObject(f[m], e + (m + 1), rows[m + 1])
    <3>1. m + 1 \in 0..n /\ m + 1 # 0 /\ (m + 1) - 1 = m
      OBVIOUS
    <3>2. QED
      BY <1>3, <3>1
  <2>3. e + (m + 1) = o /\ o = (e + m) + 1 /\ e + m \in Nat
    OBVIOUS
  <2>4. v = rows[m + 1] /\ after = f[m + 1] /\ mid = f[m]
    OBVIOUS
  <2>o. o = e + m + 1
    OBVIOUS
  <2> HIDE DEF o, v, after, mid, S
  <2>5. after = AddObject(mid, o, v)
    BY <2>2, <2>3, <2>4
  <2>6. IsAfter(after, mid, o, v)
    BY <2>5, AddObjectIs
  <2>7. ListsOk(mid, e + m) /\ AddedTo(cache, mid, rows, e, m)
    BY <2>1, <2>4
  <2>8. ListsOk(after, (e + m) + 1)
    BY <2>3, <2>6, <2>7, AddObjectKeepsLists
  <2>9. AddedTo(cache, after, rows, e, m + 1)
    BY <2>4, <2>o, <2>6, <2>7, AddedOneMore
  <2>10. (e + m) + 1 = e + (m + 1)
    OBVIOUS
  <2>11. QED
    BY <2>4, <2>8, <2>9, <2>10
<1> HIDE DEF S
<1>6. n \in S
  BY <1>4, <1>5, SetInduction
<1>7. QED
  BY <1>2, <1>6 DEF S

-----------------------------------------------------------------------------
(* The invariant of the fields *)

\* Relations between the values of tables: the many-to-one relations refer to
\* the primary key.
ReferToKeys == \A r \in Relations : r.card = "ManyToOne" => r.refe = PrimaryKey[r.target]

FieldTypes ==
  /\ field \in Seq([Relations -> Seq(Nat)]) /\ Len(field) = Len(entities)
  /\ by \in Seq(SUBSET Relations) /\ Len(by) = Len(entities)
  /\ Consistent(db) /\ cut \in BOOLEAN
  /\ pc = "query" => DOMAIN data = {} /\ level = <<>> /\ at = 1 /\ turn = 1

\* Lists hold entities of their table.
ListsFit(lists) ==
  \A i \in DOMAIN lists : \A o \in ToSet(lists[i].ids) :
    o \in Ids /\ entities[o].table = lists[i].table

\* The entities under a key suit it.
Cached ==
  /\ ListsOk(data, Len(entities))
  /\ \A k \in DOMAIN data : \A p \in ToSet(data[k]) : Suits(entities[p], k)

Undisturbed == writes = 0 /\ cut = FALSE

\* r looks entities up by such keys.
Relates(r, k) == r.card = k[1] /\ r.target = k[2] /\ r.refe = k[3]

\* A list that was started by a loader of its relation has every row of its key.
Complete ==
  Undisturbed => \A k \in DOMAIN data, r \in Relations :
    r.card = "OneToMany" /\ Relates(r, k) /\ (\A p \in ToSet(data[k]) : by[p] = {r}) =>
      \A v \in db : Suits(v, k) => \E p \in ToSet(data[k]) : entities[p] = v

\* By r, an entity of the row u refers to the row v.
Refers(u, r, v) == v.table = r.target /\ v.val[r.refe] = u.val[r.fk]

\* Fields hold only what they refer to, and only relations of their entity do.
HoldsOnly(o, r) ==
  /\ \A p \in ToSet(field[o][r]) : p \in Ids /\ Refers(entities[o], r, entities[p])
  /\ r.card # "OneToMany" => Len(field[o][r]) <= 1
  /\ ToSet(field[o][r]) # {} => entities[o].table = r.owner

HeldRefer == \A o \in Ids, r \in Relations : HoldsOnly(o, r)

\* A field holds all of it, or a list was started elsewhere.
Full(o, r) ==
  Undisturbed =>
    \/ \A v \in db : Refers(entities[o], r, v) => \E p \in ToSet(field[o][r]) : entities[p] = v
    \/ r.card = "OneToMany" /\ \E p \in ToSet(field[o][r]) : by[p] # {r}

\* The loader of r is still to get the entity o.
Waits(o, r) ==
  \/ \E i \in DOMAIN next : o \in ToSet(next[i].ids)
  \/ \E i \in DOMAIN level : o \in ToSet(level[i].ids) /\ i > at
  \/ /\ at \in DOMAIN level /\ o \in ToSet(level[at].ids)
     /\ \E j \in DOMAIN loaders : j >= turn /\ loaders[j] = r

Progress ==
  ReferToKeys => \A o \in Ids, r \in Relations :
    r \in ToSet(loaders) /\ entities[o].table = r.owner => Full(o, r) \/ Waits(o, r)

Returned ==
  pc = "returned" =>
    next = <<>> /\ (depth >= MaxIncludeDepth \/ at > Len(level) \/ loaders = <<>>)

FInv == /\ IInv /\ FieldTypes /\ ListsFit(level) /\ ListsFit(next) /\ Cached /\ Complete
        /\ HeldRefer /\ Progress /\ Returned

-----------------------------------------------------------------------------
(* What a scan does *)

\* The entities so far stay what they are.
Grown ==
  /\ Len(entities) \in Nat /\ Len(entities') \in Nat /\ Len(entities) <= Len(entities')
  /\ \A o \in Ids : o \in Ids' /\ entities'[o] = entities[o] /\ by'[o] = by[o]

\* Entities of these rows, loaded by these relations, came after them.
Came(rows, cause) ==
  /\ Grown /\ entities' \in Seq(Rows)
  /\ by' \in Seq(SUBSET Relations) /\ Len(by') = Len(entities')
  /\ Len(rows) \in Nat /\ Len(entities') = Len(entities) + Len(rows)
  /\ \A i \in 1..Len(rows) :
       /\ Len(entities) + i \in Ids' /\ Len(entities) + i \notin Ids
       /\ entities'[Len(entities) + i] = rows[i]
       /\ by'[Len(entities) + i] = cause
  /\ \A o \in Ids' : o \notin Ids => \E i \in 1..Len(rows) : o = Len(entities) + i

LEMMA ScannedComes ==
  ASSUME Types, FieldTypes, NEW rows \in Seq(Rows), NEW cause \in SUBSET Relations,
         Scanned(rows, cause)
  PROVE  Came(rows, cause)
<1> DEFINE e == Len(entities)
           n == Len(rows)
           causes == [i \in 1..n |-> cause]
<1>1. /\ entities \in Seq(Rows) /\ by \in Seq(SUBSET Relations) /\ Len(by) = e
      /\ e \in Nat /\ n \in Nat
  BY LenProperties DEF Types, FieldTypes
<1>2. causes \in Seq(SUBSET Relations) /\ Len(causes) = n /\ \A i \in 1..n : causes[i] = cause
  <2>1. causes \in [1..n -> SUBSET Relations] /\ \A i \in 1..n : causes[i] = cause
    OBVIOUS
  <2>2. causes \in Seq(SUBSET Relations)
    BY <1>1, <2>1, SeqDef
  <2>3. QED
    BY <1>1, <2>1, <2>2, LenProperties
<1>3. entities' = entities \o rows /\ by' = by \o causes
  BY DEF Scanned
<1> HIDE DEF causes
<1>4. /\ entities' \in Seq(Rows) /\ Len(entities') = e + n
      /\ \A i \in 1..e + n : entities'[i] = IF i <= e THEN entities[i] ELSE rows[i - e]
  BY <1>1, <1>3, ConcatProperties
<1>5. /\ by' \in Seq(SUBSET Relations) /\ Len(by') = e + n
      /\ \A i \in 1..e + n : by'[i] = IF i <= e THEN by[i] ELSE causes[i - e]
  <2>1. /\ by \o causes \in Seq(SUBSET Relations)
        /\ Len(by \o causes) = Len(by) + Len(causes)
        /\ \A i \in 1..Len(by) + Len(causes) :
             (by \o causes)[i] = IF i <= Len(by) THEN by[i] ELSE causes[i - Len(by)]
    BY <1>1, <1>2, ConcatProperties
  <2>2. QED
    BY <1>1, <1>2, <1>3, <2>1
<1>i. Ids = 1..e /\ Ids' = 1..e + n
  BY <1>4 DEF Ids
<1> HIDE DEF e, n
<1>6. \A o \in 1..e : o \in 1..e + n /\ o <= e
  BY <1>1
<1>7. \A i \in 1..n : e + i \in 1..e + n /\ ~(e + i <= e) /\ (e + i) - e = i /\ e + i \notin 1..e
  BY <1>1
<1>8. \A o \in 1..e + n : o \notin 1..e => o - e \in 1..n /\ o = e + (o - e)
  BY <1>1
<1>9. Grown
  <2>1. \A o \in 1..e : o \in 1..e + n /\ entities'[o] = entities[o] /\ by'[o] = by[o]
    BY <1>4, <1>5, <1>6
  <2>2. QED
    BY <1>1, <1>4, <1>i, <2>1 DEF Grown, e
<1>10. \A i \in 1..n : /\ e + i \in Ids' /\ e + i \notin Ids
                       /\ entities'[e + i] = rows[i] /\ by'[e + i] = cause
  <2> SUFFICES ASSUME NEW i \in 1..n
               PROVE  /\ e + i \in Ids' /\ e + i \notin Ids
                      /\ entities'[e + i] = rows[i] /\ by'[e + i] = cause
    OBVIOUS
  <2>1. e + i \in 1..e + n /\ ~(e + i <= e) /\ (e + i) - e = i /\ e + i \notin 1..e
    BY <1>7
  <2>2. entities'[e + i] = rows[i]
    BY <1>4, <2>1
  <2>3. by'[e + i] = cause
    BY <1>2, <1>5, <2>1
  <2>4. QED
    BY <1>i, <2>1, <2>2, <2>3
<1>11. \A o \in Ids' : o \notin Ids => \E i \in 1..n : o = e + i
  BY <1>i, <1>8
<1>12. QED
  BY <1>1, <1>4, <1>5, <1>9, <1>10, <1>11 DEF Came, e, n

LEMMA CameCached ==
  ASSUME Types, FieldTypes, Cached, NEW rows \in Seq(Rows), NEW cause \in SUBSET Relations,
         Scanned(rows, cause)
  PROVE  Cached' /\ AddedTo(data, data', rows, Len(entities), Len(rows))
<1>1. Came(rows, cause)
  BY ScannedComes
<1> DEFINE e == Len(entities)
           n == Len(rows)
<1>2. e \in Nat /\ n \in Nat /\ Len(entities') = e + n
  BY <1>1 DEF Came, Grown
<1>3. data' = AddAll(data, rows) /\ ListsOk(data, e)
  BY DEF Scanned, Cached
<1>4. ListsOk(data', e + n) /\ AddedTo(data, data', rows, e, n)
  BY <1>2, <1>3, AddAllAdds
<1>5. ASSUME NEW k \in DOMAIN data', NEW p \in ToSet(data'[k])
      PROVE  Suits(entities'[p], k)
  <2>1. p \in Nat
    <3>1. data'[k] \in Seq(1..e + n)
      BY <1>4 DEF ListsOk
    <3>2. data'[k] \in [1..Len(data'[k]) -> 1..e + n]
      BY <3>1, LenProperties
    <3>3. QED
      BY <3>2 DEF ToSet
  <2>2. \/ k \in DOMAIN data /\ p \in ToSet(data[k])
        \/ \E i \in 1..n : p = e + i /\ Suits(rows[i], k)
    BY <1>4, <1>5, <2>1 DEF AddedTo
  <2>3. CASE k \in DOMAIN data /\ p \in ToSet(data[k])
    <3>1. Suits(entities[p], k)
      BY <2>3 DEF Cached
    <3>2. p \in Ids
      <4>1. data[k] \in Seq(1..e)
        BY <1>3, <2>3 DEF ListsOk
      <4>2. data[k] \in [1..Len(data[k]) -> 1..e]
        BY <4>1, LenProperties
      <4>3. QED
        BY <2>3, <4>2 DEF ToSet, Ids
    <3>3. QED
      BY <1>1, <3>1, <3>2 DEF Came, Grown
  <2>4. CASE \E i \in 1..n : p = e + i /\ Suits(rows[i], k)
    BY <1>1, <2>4 DEF Came
  <2>5. QED
    BY <2>2, <2>3, <2>4
<1>6. QED
  BY <1>2, <1>4, <1>5 DEF Cached

LEMMA GrownFits ==
  ASSUME Grown, NEW lists, ListsFit(lists)
  PROVE  \A i \in DOMAIN lists : \A o \in ToSet(lists[i].ids) :
           o \in Ids' /\ entities'[o].table = lists[i].table
BY DEF Grown, ListsFit

\* The entities under a key are there.
LEMMA CachedIds ==
  ASSUME Cached, NEW k \in DOMAIN data, NEW p \in ToSet(data[k])
  PROVE  p \in Ids
<1>1. data[k] \in Seq(1..Len(entities))
  BY DEF Cached, ListsOk
<1>2. data[k] \in [1..Len(data[k]) -> 1..Len(entities)]
  BY <1>1, LenProperties
<1>3. QED
  BY <1>2 DEF ToSet, Ids

\* After a loader, the keys it asked for are complete, unless it was cut off.
LEMMA LoadCompletes ==
  ASSUME Types, FieldTypes, Cached, Complete, Loader \in Relations,
         NEW found \in SUBSET Selected(Uncached), NEW rows \in Seq(Rows),
         ToSet(rows) = found, Scanned(rows, {Loader}),
         cut' = (cut \/ found # Selected(Uncached)), UNCHANGED <<db, writes>>
  PROVE  Complete'
<1>1. Came(rows, {Loader}) /\ AddedTo(data, data', rows, Len(entities), Len(rows))
  BY ScannedComes, CameCached
<1> DEFINE e == Len(entities)
           n == Len(rows)
<1>2. e \in Nat /\ n \in Nat /\ DOMAIN rows = 1..n
  BY <1>1, LenProperties DEF Came, Grown
<1> SUFFICES ASSUME Undisturbed', NEW k \in DOMAIN data', NEW r \in Relations,
                    r.card = "OneToMany", Relates(r, k), \A p \in ToSet(data'[k]) : by'[p] = {r},
                    NEW v \in db', Suits(v, k)
             PROVE  \E p \in ToSet(data'[k]) : entities'[p] = v
  BY DEF Complete
<1>3. Undisturbed /\ found = Selected(Uncached) /\ v \in db
  BY DEF Undisturbed, FieldTypes
<1>4. k[1] = "OneToMany" /\ k[2] = r.target /\ k[3] = r.refe
  BY DEF Relates
<1>5. CASE k \in DOMAIN data
  <2>1. ToSet(data[k]) \subseteq ToSet(data'[k])
    BY <1>1, <1>4, <1>5 DEF AddedTo
  <2>2. ASSUME NEW p \in ToSet(data[k]) PROVE p \in Ids /\ by[p] = {r}
    <3>1. p \in Ids
      BY <1>5, CachedIds
    <3>2. by'[p] = {r}
      BY <2>1
    <3>3. QED
      BY <1>1, <3>1, <3>2 DEF Came, Grown
  <2>3. PICK p \in ToSet(data[k]) : entities[p] = v
    BY <1>3, <1>5, <2>2 DEF Complete
  <2>4. p \in ToSet(data'[k]) /\ entities'[p] = v
    BY <1>1, <2>1, <2>2, <2>3 DEF Came, Grown
  <2>5. QED
    BY <2>4
<1>6. CASE k \notin DOMAIN data
  <2>1. PICK i \in 1..n : e + i \in ToSet(data'[k])
    BY <1>1, <1>6 DEF AddedTo
  <2>2. r = Loader
    <3>1. by'[e + i] = {Loader} /\ by'[e + i] = {r}
      BY <1>1, <2>1 DEF Came
    <3>2. QED
      BY <3>1
  <2>3. Suits(rows[i], k)
    <3>1. e + i \in Nat
      BY <1>2
    <3>2. \E j \in 1..n : e + i = e + j /\ Suits(rows[j], k)
      BY <1>1, <1>6, <2>1, <3>1 DEF AddedTo
    <3>3. \A j \in 1..n : e + i = e + j => i = j
      BY <1>2
    <3>4. QED
      BY <3>2, <3>3
  <2>4. KeyUnder(r, rows[i]) = k /\ KeyUnder(r, v) = k
    <3>1. \A u : Suits(u, k) => k = <<k[1], k[2], k[3], k[4]>> /\ u.val[k[3]] = k[4]
      BY DEF Suits
    <3>2. k = <<r.card, r.target, r.refe, rows[i].val[r.refe]>>
          /\ k = <<r.card, r.target, r.refe, v.val[r.refe]>>
      BY <1>4, <2>3, <3>1
    <3>3. QED
      BY <3>2 DEF KeyUnder, CacheKey
  <2>5. k \in Uncached
    <3>1. rows[i] \in Selected(Uncached)
      BY <1>2 DEF ToSet
    <3>2. rows[i].table = r.target /\ KeyUnder(r, rows[i]) \in Uncached
      BY <2>2, <3>1 DEF Selected, KeyUnder
    <3>3. QED
      BY <2>4, <3>2
  <2>6. v \in Selected(Uncached)
    <3>1. v.table = Loader.target
      BY <1>4, <2>2 DEF Suits
    <3>2. CacheKey(Loader.card, v.table, Loader.refe, v.val[Loader.refe]) = k
      BY <2>2, <2>4, <3>1 DEF KeyUnder
    <3>3. QED
      BY <1>3, <2>5, <3>1, <3>2 DEF Selected
  <2>7. PICK j \in 1..n : rows[j] = v
    BY <1>2, <1>3, <2>6 DEF ToSet
  <2>8. e + j \in ToSet(data'[k])
    <3>1. r.target = rows[j].table
      BY <1>4, <2>7 DEF Suits
    <3>2. e + j \in ToSet(data'[KeyUnder(r, rows[j])])
      BY <1>1, <3>1 DEF AddedTo
    <3>3. QED
      BY <2>4, <2>7, <3>2
  <2>9. entities'[e + j] = v
    BY <1>1, <2>7 DEF Came
  <2>10. QED
    BY <2>8, <2>9
<1>7. QED
  BY <1>5, <1>6

-----------------------------------------------------------------------------
(* What filling the fields does *)

\* The loader fills the fields of o.
Fills(o, r) == o \in ToSet(Records.ids) /\ r = Loader

\* Fields for all entities, those of new ones empty.
Basis(base) ==
  /\ base \in Seq([Relations -> Seq(Nat)]) /\ Len(base) = Len(entities')
  /\ \A o \in Ids : base[o] = field[o]
  /\ \A o \in Ids' : o \notin Ids => base[o] = NoRelations

LEMMA FilledIs ==
  ASSUME Loader \in Relations, Cached', NEW base, Basis(base), field' = Filled(base, data')
  PROVE  /\ field' \in Seq([Relations -> Seq(Nat)]) /\ Len(field') = Len(entities')
         /\ \A o \in Ids', r \in Relations :
              field'[o][r] = IF Fills(o, r) /\ KeyOf(o) \in DOMAIN data'
                             THEN IF r.card = "OneToMany" THEN base[o][r] \o data'[KeyOf(o)]
                                                          ELSE data'[KeyOf(o)]
                             ELSE base[o][r]
<1> DEFINE N == Len(entities')
           new(o) == IF Loader.card = "OneToMany" THEN base[o][Loader] \o data'[KeyOf(o)]
                                                  ELSE data'[KeyOf(o)]
           skips(o) == o \notin ToSet(Records.ids) \/ KeyOf(o) \notin DOMAIN data'
<1>1. base \in [1..N -> [Relations -> Seq(Nat)]] /\ N \in Nat /\ DOMAIN base = 1..N /\ Ids' = 1..N
  BY LenProperties DEF Basis, Ids
<1>2. field' = [o \in 1..N |-> IF skips(o) THEN base[o] ELSE [base[o] EXCEPT ![Loader] = new(o)]]
  BY <1>1 DEF Filled, HasObject
<1> HIDE DEF N, skips
<1>3. ASSUME NEW o \in 1..N, ~skips(o) PROVE new(o) \in Seq(Nat)
  <2>1. data'[KeyOf(o)] \in Seq(1..Len(entities'))
    BY <1>3 DEF Cached, ListsOk, skips
  <2>2. data'[KeyOf(o)] \in Seq(Nat)
    <3>1. 1..Len(entities') \subseteq Nat
      OBVIOUS
    <3>2. QED
      BY <2>1, <3>1, SeqMonotonic
  <2>3. base[o][Loader] \in Seq(Nat)
    BY <1>1
  <2> DEFINE x == base[o][Loader]
             y == data'[KeyOf(o)]
  <2>4. x \in Seq(Nat) /\ y \in Seq(Nat)
    BY <2>2, <2>3
  <2> HIDE DEF x, y
  <2>5. x \o y \in Seq(Nat)
    BY <2>4, ConcatProperties
  <2>6. QED
    BY <2>4, <2>5 DEF x, y
<1> HIDE DEF new
<1>4. \A o \in 1..N : field'[o] = IF skips(o) THEN base[o] ELSE [base[o] EXCEPT ![Loader] = new(o)]
  BY <1>2
<1>5. \A o \in 1..N : field'[o] \in [Relations -> Seq(Nat)]
  BY <1>1, <1>3, <1>4
<1>6. field' \in [1..N -> [Relations -> Seq(Nat)]]
  BY <1>2, <1>5
<1>7. field' \in Seq([Relations -> Seq(Nat)]) /\ Len(field') = N
  <2>1. field' \in Seq([Relations -> Seq(Nat)])
    BY <1>1, <1>6, SeqDef
  <2>2. DOMAIN field' = 1..N /\ DOMAIN field' = 1..Len(field') /\ Len(field') \in Nat
    BY <1>6, <2>1, LenProperties
  <2>3. QED
    BY <1>1, <2>1, <2>2, <1>6, LenProperties
<1>8. ASSUME NEW o \in 1..N, NEW r \in Relations
      PROVE  field'[o][r] = IF ~skips(o) /\ r = Loader THEN new(o) ELSE base[o][r]
  BY <1>1, <1>4
<1>9. ASSUME NEW o \in 1..N, NEW r \in Relations
      PROVE  field'[o][r] = IF Fills(o, r) /\ KeyOf(o) \in DOMAIN data'
                            THEN IF r.card = "OneToMany" THEN base[o][r] \o data'[KeyOf(o)]
                                                         ELSE data'[KeyOf(o)]
                            ELSE base[o][r]
  <2>1. (~skips(o) /\ r = Loader) <=> (Fills(o, r) /\ KeyOf(o) \in DOMAIN data')
    BY DEF skips, Fills
  <2>2. r = Loader => new(o) = IF r.card = "OneToMany" THEN base[o][r] \o data'[KeyOf(o)]
                                                       ELSE data'[KeyOf(o)]
    BY DEF new
  <2>3. QED
    BY <1>8, <2>1, <2>2
<1>10. QED
  BY <1>1, <1>7, <1>9 DEF N

\* What a loader finds under a key of an entity is what the entity refers to.
LEMMA FoundRefers ==
  ASSUME Cached', NEW o \in Ids, KeyOf(o) \in DOMAIN data', NEW p \in ToSet(data'[KeyOf(o)])
  PROVE  p \in Ids' /\ Refers(entities[o], Loader, entities'[p])
<1>1. Suits(entities'[p], KeyOf(o))
  BY DEF Cached
<1>2. /\ KeyOf(o)[2] = Loader.target /\ KeyOf(o)[3] = Loader.refe
      /\ KeyOf(o)[4] = entities[o].val[Loader.fk]
  BY DEF KeyOf, RefersTo, CacheKey
<1>3. p \in Ids'
  <2>1. data'[KeyOf(o)] \in Seq(1..Len(entities'))
    BY DEF Cached, ListsOk
  <2> DEFINE x == data'[KeyOf(o)]
  <2> HIDE DEF x
  <2>2. x \in Seq(1..Len(entities')) /\ p \in ToSet(x)
    BY <2>1 DEF x
  <2>3. x \in [1..Len(x) -> 1..Len(entities')]
    BY <2>2, LenProperties
  <2>4. QED
    BY <2>2, <2>3 DEF ToSet, Ids
<1>4. QED
  BY <1>1, <1>2, <1>3 DEF Suits, Refers

LEMMA FillHolds ==
  ASSUME Types, FieldTypes, HeldRefer, ListsFit(level), LoaderCalled, Grown,
         Records.table = Loader.owner,
         Cached', NEW base, Basis(base), field' = Filled(base, data')
  PROVE  HeldRefer'
<1>1. /\ Loader \in Relations /\ at \in 1..Len(level)
  BY LoaderIs
<1>2. \A o \in Ids', r \in Relations :
        field'[o][r] = IF Fills(o, r) /\ KeyOf(o) \in DOMAIN data'
                       THEN IF r.card = "OneToMany" THEN base[o][r] \o data'[KeyOf(o)]
                                                    ELSE data'[KeyOf(o)]
                       ELSE base[o][r]
  BY <1>1, FilledIs
<1> SUFFICES ASSUME NEW o \in Ids', NEW r \in Relations
             PROVE  /\ \A p \in ToSet(field'[o][r]) : p \in Ids' /\ Refers(entities'[o], r, entities'[p])
                    /\ r.card # "OneToMany" => Len(field'[o][r]) <= 1
                    /\ ToSet(field'[o][r]) # {} => entities'[o].table = r.owner
  BY DEF HeldRefer, HoldsOnly
<1>3. ASSUME o \in Ids
      PROVE  /\ base[o][r] = field[o][r] /\ entities'[o] = entities[o]
             /\ \A p \in ToSet(base[o][r]) : p \in Ids' /\ Refers(entities'[o], r, entities'[p])
             /\ r.card # "OneToMany" => Len(base[o][r]) <= 1
             /\ ToSet(base[o][r]) # {} => entities'[o].table = r.owner
  <2>1. base[o] = field[o] /\ entities'[o] = entities[o]
    BY <1>3 DEF Basis, Grown
  <2>2. \A p \in ToSet(field[o][r]) : p \in Ids /\ Refers(entities[o], r, entities[p])
    BY <1>3 DEF HeldRefer, HoldsOnly
  <2>3. r.card # "OneToMany" => Len(field[o][r]) <= 1
    BY <1>3 DEF HeldRefer, HoldsOnly
  <2>4. ToSet(field[o][r]) # {} => entities[o].table = r.owner
    BY <1>3 DEF HeldRefer, HoldsOnly
  <2>5. QED
    BY <2>1, <2>2, <2>3, <2>4 DEF Grown
<1>4. CASE Fills(o, r) /\ KeyOf(o) \in DOMAIN data'
  <2>1. o \in Ids /\ entities'[o].table = r.owner
    <3>1. DOMAIN level = 1..Len(level)
      BY LenProperties DEF Types
    <3>2. o \in Ids /\ entities[o].table = Records.table /\ r = Loader
      BY <1>1, <1>4, <3>1 DEF ListsFit, Fills, Records
    <3>3. QED
      BY <1>3, <3>2
  <2> DEFINE x == base[o][r]
             y == data'[KeyOf(o)]
  <2>2. x \in Seq(Nat) /\ y \in Seq(Nat)
    <3>1. base \in [1..Len(base) -> [Relations -> Seq(Nat)]] /\ Len(base) = Len(entities')
      BY LenProperties DEF Basis
    <3>2. o \in 1..Len(entities')
      BY DEF Ids
    <3>3. x \in Seq(Nat)
      BY <3>1, <3>2
    <3>4. y \in Seq(1..Len(entities')) /\ 1..Len(entities') \subseteq Nat
      BY <1>4 DEF Cached, ListsOk
    <3> HIDE DEF x, y
    <3>5. y \in Seq(Nat)
      BY <3>4, SeqMonotonic
    <3>6. QED
      BY <3>3, <3>5
  <2>3. \A p \in ToSet(y) : p \in Ids' /\ Refers(entities'[o], r, entities'[p])
    BY <1>3, <1>4, <2>1, FoundRefers DEF Fills
  <2>4. field'[o][r] = IF r.card = "OneToMany" THEN x \o y ELSE y
    BY <1>2, <1>4
  <2>5. \A p \in ToSet(x) : p \in Ids' /\ Refers(entities'[o], r, entities'[p])
    BY <1>3, <2>1
  <2>6. r.card # "OneToMany" => Len(y) = 1
    <3>1. KeyOf(o)[1] = Loader.card
      BY DEF KeyOf, RefersTo, CacheKey
    <3>2. QED
      BY <1>4, <3>1 DEF Cached, ListsOk, Fills
  <2> HIDE DEF x, y
  <2>7. CASE r.card = "OneToMany"
    <3>1. ToSet(x \o y) = ToSet(x) \cup ToSet(y)
      BY <2>2, ToSetConcat
    <3>2. QED
      BY <2>1, <2>3, <2>4, <2>5, <2>7, <3>1
  <2>8. CASE r.card # "OneToMany"
    <3>1. field'[o][r] = y
      BY <2>4, <2>8
    <3>2. \A p \in ToSet(field'[o][r]) : p \in Ids' /\ Refers(entities'[o], r, entities'[p])
      BY <2>3, <3>1
    <3>3. Len(field'[o][r]) <= 1
      <4>1. Len(field'[o][r]) = 1
        BY <2>6, <2>8, <3>1
      <4>2. 1 <= 1
        OBVIOUS
      <4>3. QED
        BY <4>1, <4>2
    <3>4. QED
      BY <2>1, <3>2, <3>3
  <2>9. QED
    BY <2>7, <2>8
<1>5. CASE ~(Fills(o, r) /\ KeyOf(o) \in DOMAIN data')
  <2>1. field'[o][r] = base[o][r]
    BY <1>2, <1>5
  <2>2. CASE o \in Ids
    BY <1>3, <2>1, <2>2
  <2>3. CASE o \notin Ids
    <3>1. base[o][r] = <<>>
      BY <2>3 DEF Basis, NoRelations
    <3>2. ToSet(<<>>) = {} /\ Len(<<>>) = 0
      BY DEF ToSet
    <3>3. QED
      BY <2>1, <3>1, <3>2
  <2>4. QED
    BY <2>2, <2>3
<1>6. QED
  BY <1>4, <1>5

\* The next turn comes for every entity and loader that wait, but this one.
LEMMA TurnPasses ==
  ASSUME Types, LoaderCalled, NextTurn, UNCHANGED <<level, loaders>>,
         NEW o, NEW r \in Relations, ~Fills(o, r), Waits(o, r), r \in ToSet(loaders),
         (\E i \in DOMAIN next : o \in ToSet(next[i].ids))
           => \E i \in DOMAIN next' : o \in ToSet(next'[i].ids)
  PROVE  Waits(o, r)'
<1>1. /\ at \in 1..Len(level) /\ turn \in 1..Len(loaders)
      /\ DOMAIN level = 1..Len(level) /\ DOMAIN loaders = 1..Len(loaders)
      /\ Len(level) \in Nat /\ Len(loaders) \in Nat
  BY LoaderIs, LenProperties DEF Types
<1>2. CASE \E i \in DOMAIN next : o \in ToSet(next[i].ids)
  BY <1>2 DEF Waits
<1>3. CASE \E i \in DOMAIN level : o \in ToSet(level[i].ids) /\ i > at
  <2>1. PICK i \in 1..Len(level) : o \in ToSet(level[i].ids) /\ i > at
    BY <1>1, <1>3
  <2>2. CASE i > at'
    BY <1>1, <2>1, <2>2 DEF Waits
  <2>3. CASE ~(i > at')
    <3>1. at' = at + 1 /\ turn' = 1 /\ i = at'
      BY <1>1, <2>1, <2>3 DEF NextTurn
    <3>2. PICK j \in DOMAIN loaders : loaders[j] = r
      BY DEF ToSet
    <3>3. j >= turn'
      BY <1>1, <3>1
    <3>4. QED
      BY <1>1, <2>1, <3>1, <3>2, <3>3 DEF Waits
  <2>4. QED
    BY <2>2, <2>3
<1>4. CASE /\ at \in DOMAIN level /\ o \in ToSet(level[at].ids)
           /\ \E j \in DOMAIN loaders : j >= turn /\ loaders[j] = r
  <2>1. PICK j \in 1..Len(loaders) : j >= turn /\ loaders[j] = r
    BY <1>1, <1>4
  <2>2. j # turn
    BY <1>4, <2>1 DEF Fills, Records, Loader
  <2>3. turn' = turn + 1 /\ at' = at /\ j >= turn'
    BY <1>1, <2>1, <2>2 DEF NextTurn
  <2>4. QED
    BY <1>1, <1>4, <2>1, <2>3 DEF Waits
<1>5. QED
  BY <1>2, <1>3, <1>4 DEF Waits

\* A field that is not filled stays as full as it was.
LEMMA FullKept ==
  ASSUME HeldRefer, Grown, db' = db, Undisturbed' => Undisturbed,
         NEW o \in Ids, NEW r \in Relations, field'[o][r] = field[o][r], Full(o, r)
  PROVE  Full(o, r)'
<1> SUFFICES ASSUME Undisturbed'
             PROVE  \/ \A v \in db : Refers(entities'[o], r, v) =>
                         \E p \in ToSet(field[o][r]) : entities'[p] = v
                    \/ r.card = "OneToMany" /\ \E p \in ToSet(field[o][r]) : by'[p] # {r}
  BY DEF Full
<1>1. \A p \in ToSet(field[o][r]) : entities'[p] = entities[p] /\ by'[p] = by[p]
  BY DEF HeldRefer, HoldsOnly, Grown
<1>2. entities'[o] = entities[o]
  BY DEF Grown
<1>3. QED
  BY <1>1, <1>2 DEF Full

\* What the loader leaves in a field is full.
LEMMA FillIsFull ==
  ASSUME ReferToKeys, Types, Types', FieldTypes', FromDb', ListsFit(level), LoaderCalled, Grown,
         Records.table = Loader.owner,
         Cached', Complete', NEW base, Basis(base), field' = Filled(base, data'),
         Undisturbed' => \A o \in ToSet(Records.ids) : KeyOf(o) \notin DOMAIN data' =>
                           \A v \in db' : ~Refers(entities[o], Loader, v),
         NEW o \in Ids, NEW r \in Relations, Fills(o, r)
  PROVE  Full(o, r)'
<1>1. r = Loader
  BY DEF Fills
<1> DEFINE k == KeyOf(o)
           x == base[o][r]
           y == data'[k]
<1>2. o \in Ids' /\ entities'[o] = entities[o] /\ o \in ToSet(Records.ids)
  BY DEF Grown, Fills
<1>3. field'[o][r] = IF k \in DOMAIN data' THEN IF r.card = "OneToMany" THEN x \o y ELSE y ELSE x
  BY <1>1, <1>2, FilledIs
<1>4. k = <<r.card, r.target, r.refe, entities[o].val[r.fk]>>
  BY <1>1 DEF KeyOf, RefersTo, CacheKey
<1> SUFFICES ASSUME Undisturbed'
             PROVE  \/ \A v \in db' : Refers(entities[o], r, v) =>
                         \E p \in ToSet(field'[o][r]) : entities'[p] = v
                    \/ r.card = "OneToMany" /\ \E p \in ToSet(field'[o][r]) : by'[p] # {r}
  BY <1>2 DEF Full
<1>5. \A v : Refers(entities[o], r, v) => Suits(v, k)
  <2> SUFFICES ASSUME NEW v, Refers(entities[o], r, v) PROVE Suits(v, k)
    OBVIOUS
  <2>1. k[1] = r.card /\ k[2] = r.target /\ k[3] = r.refe /\ k[4] = entities[o].val[r.fk]
    BY <1>4
  <2>2. k = <<k[1], k[2], k[3], k[4]>>
    BY <1>4
  <2> HIDE DEF k
  <2>3. QED
    BY <2>1, <2>2 DEF Suits, Refers
<1>6. CASE k \notin DOMAIN data'
  BY <1>1, <1>2, <1>6
<1>7. CASE k \in DOMAIN data' /\ r.card = "OneToMany"
  <2>1. x \in Seq(Nat) /\ y \in Seq(Nat)
    <3>1. base \in [1..Len(base) -> [Relations -> Seq(Nat)]] /\ Len(base) = Len(entities')
      BY LenProperties DEF Basis
    <3>2. o \in 1..Len(entities')
      BY <1>2 DEF Ids
    <3>3. x \in Seq(Nat)
      BY <1>1, <3>1, <3>2
    <3>4. y \in Seq(1..Len(entities')) /\ 1..Len(entities') \subseteq Nat
      BY <1>7 DEF Cached, ListsOk
    <3> HIDE DEF x, y
    <3>5. y \in Seq(Nat)
      BY <3>4, SeqMonotonic
    <3>6. QED
      BY <3>3, <3>5
  <2> HIDE DEF x, y
  <2>2. ToSet(field'[o][r]) = ToSet(x) \cup ToSet(y)
    BY <1>3, <1>7, <2>1, ToSetConcat
  <2>3. CASE \A p \in ToSet(y) : by'[p] = {r}
    <3>1. Relates(r, k)
      BY <1>4 DEF Relates
    <3>2. \A p \in ToSet(data'[k]) : by'[p] = {r}
      BY <2>3 DEF y
    <3>3. \A v \in db' : Suits(v, k) => \E p \in ToSet(data'[k]) : entities'[p] = v
      BY <1>1, <1>7, <3>1, <3>2 DEF Complete
    <3>4. \A v \in db' : Suits(v, k) => \E p \in ToSet(y) : entities'[p] = v
      BY <3>3 DEF y
    <3>5. QED
      BY <1>5, <2>2, <3>4
  <2>4. QED
    BY <1>7, <2>2, <2>3
<1>8. CASE k \in DOMAIN data' /\ r.card # "OneToMany"
  <2>1. r.card = "ManyToOne" /\ r.refe = PrimaryKey[r.target]
    BY <1>1, <1>8, IncludeAssumption DEF ReferToKeys
  <2>2. k[1] # "OneToMany"
    BY <1>4, <1>8
  <2>3. y \in Seq(1..Len(entities')) /\ Len(y) = 1
    BY <1>8, <2>2 DEF Cached, ListsOk
  <2>4. PICK p : p \in ToSet(y)
    <3> HIDE DEF y
    <3>1. 1 \in DOMAIN y
      BY <2>3, LenProperties
    <3>2. QED
      BY <3>1 DEF ToSet
  <2>5. p \in Ids' /\ Refers(entities[o], r, entities'[p])
    BY <1>1, <1>8, <2>4, FoundRefers
  <2>6. entities'[p] \in db'
    BY <2>5 DEF FromDb, Undisturbed
  <2>7. ASSUME NEW v \in db', Refers(entities[o], r, v) PROVE entities'[p] = v
    <3>1. PrimaryKeyOf(v) = PrimaryKeyOf(entities'[p])
      BY <2>1, <2>5, <2>7 DEF PrimaryKeyOf, Refers
    <3>2. QED
      BY <2>6, <2>7, <3>1 DEF FieldTypes, Consistent
  <2>8. field'[o][r] = y
    BY <1>3, <1>8
  <2>9. QED
    BY <2>4, <2>7, <2>8
<1>9. QED
  BY <1>6, <1>7, <1>8

\* What was to be included later still is, and so are the new entities.
LaterKept ==
  \A o \in Ids' : (o \notin Ids \/ \E i \in DOMAIN next : o \in ToSet(next[i].ids))
    => \E i \in DOMAIN next' : o \in ToSet(next'[i].ids)

\* A loader's call: its entities' fields are full then, the other ones wait on.
LEMMA FillProgresses ==
  ASSUME Types, Types', FieldTypes', FromDb', ListsFit(level), HeldRefer, Progress,
         LoaderCalled, NextTurn, Grown, Records.table = Loader.owner,
         Cached', Complete', NEW base, Basis(base), field' = Filled(base, data'),
         Undisturbed' => \A o \in ToSet(Records.ids) : KeyOf(o) \notin DOMAIN data' =>
                           \A v \in db' : ~Refers(entities[o], Loader, v),
         db' = db, Undisturbed' => Undisturbed, UNCHANGED <<level, loaders>>, LaterKept
  PROVE  Progress'
<1> SUFFICES ASSUME ReferToKeys, NEW o \in Ids', NEW r \in Relations, r \in ToSet(loaders),
                    entities'[o].table = r.owner
             PROVE  Full(o, r)' \/ Waits(o, r)'
  BY DEF Progress
<1>1. CASE o \notin Ids
  BY <1>1 DEF LaterKept, Waits
<1>2. CASE o \in Ids /\ Fills(o, r)
  BY <1>2, FillIsFull
<1>3. CASE o \in Ids /\ ~Fills(o, r)
  <2>1. entities[o].table = r.owner
    BY <1>3 DEF Grown
  <2>2. Full(o, r) \/ Waits(o, r)
    BY <1>3, <2>1 DEF Progress
  <2>3. field'[o][r] = field[o][r]
    <3>1. Loader \in Relations
      BY LoaderIs
    <3>2. field'[o][r] = base[o][r]
      BY <1>3, <3>1, FilledIs
    <3>3. QED
      BY <1>3, <3>2 DEF Basis
  <2>4. CASE Full(o, r)
    BY <1>3, <2>3, <2>4, FullKept
  <2>5. CASE Waits(o, r)
    BY <1>3, <2>5, TurnPasses DEF LaterKept
  <2>6. QED
    BY <2>2, <2>4, <2>5
<1>4. QED
  BY <1>1, <1>2, <1>3

-----------------------------------------------------------------------------
(* The steps *)

LEMMA FInitEstablishes == Init => FInv
<1> SUFFICES ASSUME Init PROVE FInv
  OBVIOUS
<1>1. IInv
  BY InitEstablishes
<1>2. /\ entities = <<>> /\ field = <<>> /\ data = <<>> /\ level = <<>> /\ next = <<>>
      /\ at = 1 /\ turn = 1 /\ pc = "query" /\ cut = FALSE /\ by = <<>> /\ Consistent(db)
  BY DEF Init
<1>3. Len(entities) = 0 /\ Len(field) = 0 /\ Len(by) = 0 /\ DOMAIN data = {} /\ DOMAIN level = {}
      /\ DOMAIN next = {} /\ Ids = {}
  BY <1>2 DEF Ids
<1>4. FieldTypes
  <2>1. /\ field \in Seq([Relations -> Seq(Nat)]) /\ by \in Seq(SUBSET Relations)
        /\ Len(field) = Len(entities) /\ Len(by) = Len(entities)
    BY <1>2
  <2>2. QED
    BY <1>2, <1>3, <2>1 DEF FieldTypes
<1>5. ListsFit(level) /\ ListsFit(next) /\ Cached /\ Complete /\ HeldRefer /\ Progress
  BY <1>3 DEF ListsFit, Cached, ListsOk, Complete, HeldRefer, Progress
<1>6. Returned
  BY <1>2 DEF Returned
<1>7. QED
  BY <1>1, <1>4, <1>5, <1>6 DEF FInv

LEMMA FLoadCached ==
  ASSUME FInv, IInv', LoadCached
  PROVE  FInv'
<1>1. /\ Types /\ Types' /\ FromDb' /\ FieldTypes /\ ListsFit(level) /\ ListsFit(next) /\ Cached
      /\ Complete /\ HeldRefer /\ Progress
  BY DEF FInv, IInv
<1>2. /\ LoaderCalled /\ Records.table = Loader.owner /\ Uncached = {} /\ NextTurn
      /\ field' = Filled(field, data')
      /\ UNCHANGED <<db, loaders, entities, data, level, next, pc, writes, cut, by>>
  BY DEF LoadCached
<1>3. /\ Len(entities) \in Nat /\ pc = "include"
  BY <1>1, <1>2, LenProperties DEF Types, LoaderCalled
<1>4. Grown /\ LaterKept
  BY <1>2, <1>3 DEF Grown, LaterKept, Ids
<1>5. Basis(field)
  BY <1>1, <1>2 DEF Basis, FieldTypes, Ids
<1>6. Cached' /\ Complete' /\ ListsFit(level)' /\ ListsFit(next)'
  BY <1>1, <1>2 DEF Cached, Complete, ListsFit, Undisturbed, Ids
<1>7. Loader \in Relations
  BY <1>1, <1>2, LoaderIs
<1>8. field' \in Seq([Relations -> Seq(Nat)]) /\ Len(field') = Len(entities')
  BY <1>2, <1>5, <1>6, <1>7, FilledIs
<1>9. FieldTypes'
  BY <1>1, <1>2, <1>3, <1>8 DEF FieldTypes, Consistent
<1>10. HeldRefer'
  BY <1>1, <1>2, <1>4, <1>5, <1>6, FillHolds
<1>11. Progress'
  <2>1. \A o \in ToSet(Records.ids) : KeyOf(o) \in DOMAIN data'
    BY <1>2 DEF Uncached, HasObject
  <2>2. Undisturbed' => Undisturbed
    BY <1>2 DEF Undisturbed
  <2>3. QED
    BY <1>1, <1>2, <1>4, <1>5, <1>6, <1>9, <2>1, <2>2, FillProgresses
<1>12. Returned'
  BY <1>2, <1>3 DEF Returned
<1>13. QED
  BY <1>6, <1>9, <1>10, <1>11, <1>12 DEF FInv

\* New entities start with empty fields.
LEMMA NewFields ==
  ASSUME FieldTypes, NEW n \in Nat, Len(entities) \in Nat, Grown, Len(entities') = Len(entities) + n
  PROVE  Basis(field \o [i \in 1..n |-> NoRelations])
<1> DEFINE new == [i \in 1..n |-> NoRelations]
           F == [Relations -> Seq(Nat)]
           base == field \o new
           e == Len(entities)
<1>1. NoRelations \in F
  BY DEF NoRelations
<1> HIDE DEF F
<1>2. new \in Seq(F) /\ Len(new) = n /\ \A i \in 1..n : new[i] = NoRelations
  <2>1. new \in [1..n -> F] /\ \A i \in 1..n : new[i] = NoRelations
    BY <1>1
  <2>2. new \in Seq(F)
    BY <2>1, SeqDef
  <2>3. QED
    BY <2>1, <2>2, LenProperties
<1>3. field \in Seq(F) /\ Len(field) = e
  BY DEF FieldTypes, F
<1> HIDE DEF new
<1>4. /\ base \in Seq(F) /\ Len(base) = Len(field) + Len(new)
      /\ \A i \in 1..Len(field) + Len(new) :
           base[i] = IF i <= Len(field) THEN field[i] ELSE new[i - Len(field)]
  BY <1>2, <1>3, ConcatProperties
<1> HIDE DEF base, e
<1>5. /\ base \in Seq(F) /\ Len(base) = e + n
      /\ \A i \in 1..e + n : base[i] = IF i <= e THEN field[i] ELSE new[i - e]
  BY <1>2, <1>3, <1>4
<1>6. e \in Nat /\ Ids = 1..e /\ Ids' = 1..e + n
  BY DEF Ids, e
<1>7. \A o \in 1..e : base[o] = field[o]
  BY <1>5, <1>6
<1>8. ASSUME NEW o \in 1..e + n, o \notin 1..e PROVE base[o] = NoRelations
  <2>1. ~(o <= e) /\ o - e \in 1..n
    BY <1>6, <1>8
  <2>2. QED
    BY <1>2, <1>5, <2>1
<1>9. QED
  BY <1>5, <1>6, <1>7, <1>8 DEF Basis, base, F, new, e

LEMMA FLoadUncached ==
  ASSUME FInv, IInv', LoadUncached
  PROVE  FInv'
<1>1. /\ Types /\ Types' /\ FromDb' /\ FieldTypes /\ ListsFit(level) /\ ListsFit(next) /\ Cached
      /\ Complete /\ HeldRefer /\ Progress
  BY DEF FInv, IInv
<1>2. /\ LoaderCalled /\ Records.table = Loader.owner /\ NextTurn
      /\ UNCHANGED <<db, loaders, level, pc, writes>>
      /\ Loader \in Relations /\ pc = "include"
  BY <1>1, LoaderIs DEF LoadUncached, LoaderCalled
<1>3. PICK found \in SUBSET Selected(Uncached) :
        /\ Scanned(SetToSeq(found), {Loader})
        /\ cut' = (cut \/ found # Selected(Uncached))
        /\ next' = Append(next, [table |-> Loader.target,
                                 ids |-> NewEntities(Len(SetToSeq(found)))])
        /\ field' = Filled(field \o [i \in 1..Len(SetToSeq(found)) |-> NoRelations], data')
  BY DEF LoadUncached
<1> DEFINE rows == SetToSeq(found)
           n == Len(rows)
           e == Len(entities)
           list == [table |-> Loader.target, ids |-> NewEntities(n)]
           base == field \o [i \in 1..n |-> NoRelations]
<1>4. rows \in Seq(Rows) /\ n \in Nat /\ DOMAIN rows = 1..n /\ ToSet(rows) = found
  <2>1. found \in SUBSET Rows /\ IsFiniteSet(found)
    <3>1. found \in SUBSET db
      BY DEF Selected
    <3>2. QED
      BY <1>1, <3>1, FS_Subset DEF Types
  <2>2. /\ rows \in Seq(Rows) /\ n = Cardinality(found) /\ n \in Nat
        /\ \A i \in 1..n : rows[i] \in found
    BY <2>1, SetToSeqIsSeq
  <2>3. DOMAIN rows = 1..n
    BY <2>2, LenProperties
  <2>4. found \subseteq ToSet(rows)
    <3>1. rows \in [1..Cardinality(found) -> found]
          /\ \A i, j \in 1..Cardinality(found) : rows[i] = rows[j] => i = j
      BY <2>1, SetToSeqIs
    <3>2. rows \in Injection(1..Cardinality(found), found)
      BY <3>1 DEF Injection, IsInjective
    <3>3. Cardinality(1..Cardinality(found)) = Cardinality(found)
      BY <2>2, FS_Interval
    <3>4. rows \in Surjection(1..Cardinality(found), found)
      BY <2>1, <3>2, <3>3, FS_Injection
    <3>5. QED
      BY <2>3, <2>2, <3>4 DEF Surjection, ToSet
  <2>5. QED
    BY <2>2, <2>3, <2>4 DEF ToSet
<1>5. /\ Scanned(rows, {Loader}) /\ cut' = (cut \/ found # Selected(Uncached))
      /\ next' = Append(next, list) /\ field' = Filled(base, data')
  BY <1>3
<1> HIDE DEF rows, list, base
<1>6. Came(rows, {Loader})
  BY <1>1, <1>2, <1>4, <1>5, ScannedComes
<1>7. Cached' /\ AddedTo(data, data', rows, e, n)
  BY <1>1, <1>2, <1>4, <1>5, CameCached
<1>8. Complete'
  BY <1>1, <1>2, <1>4, <1>5, LoadCompletes
<1>9. Grown /\ e \in Nat /\ Len(entities') = e + n
  BY <1>6 DEF Came, Grown
<1>10. Basis(base)
  BY <1>1, <1>4, <1>9, NewFields DEF base
<1>11. field' \in Seq([Relations -> Seq(Nat)]) /\ Len(field') = Len(entities')
  BY <1>2, <1>5, <1>7, <1>10, FilledIs
<1>12. FieldTypes'
  <2>1. cut' \in BOOLEAN
    BY <1>1, <1>5 DEF FieldTypes
  <2>2. QED
    BY <1>1, <1>2, <1>6, <1>11, <2>1 DEF FieldTypes, Came, Consistent
<1>13. HeldRefer'
  BY <1>1, <1>2, <1>5, <1>7, <1>9, <1>10, FillHolds
<1>14. /\ next \in Seq(Lists) /\ DOMAIN next = 1..Len(next) /\ Len(next) \in Nat
       /\ DOMAIN next' = 1..Len(next) + 1
       /\ \A i \in 1..Len(next) : next'[i] = next[i]
       /\ next'[Len(next) + 1] = list
  <2>1. next \in Seq(Lists) /\ list \in Lists
    <3>1. Loader.target \in Tables
      BY <1>2, IncludeAssumption
    <3>2. NewEntities(n) \in Seq(Nat)
      BY <1>1, <1>4, NewEntitiesType DEF Types
    <3>3. QED
      BY <1>1, <3>1, <3>2 DEF Types, Lists, list
  <2>2. /\ next' \in Seq(Lists) /\ Len(next') = Len(next) + 1
        /\ \A i \in 1..Len(next) : next'[i] = next[i]
        /\ next'[Len(next) + 1] = list
    BY <1>5, <2>1, AppendProperties
  <2>3. DOMAIN next = 1..Len(next) /\ Len(next) \in Nat /\ DOMAIN next' = 1..Len(next')
    BY <2>1, <2>2, LenProperties
  <2>4. QED
    BY <2>1, <2>2, <2>3
<1>15. list.table = Loader.target /\ ToSet(list.ids) = {e + i : i \in 1..n}
  BY DEF list, NewEntities, ToSet
<1>16. \A i \in 1..Len(next) : i \in 1..Len(next) + 1
  BY <1>14
<1>17. Len(next) + 1 \in 1..Len(next) + 1
  BY <1>14
<1>18. \A i \in 1..Len(next) + 1 : i \in 1..Len(next) \/ i = Len(next) + 1
  BY <1>14
<1>19. LaterKept
  <2> SUFFICES ASSUME NEW o \in Ids', o \notin Ids \/ \E i \in DOMAIN next : o \in ToSet(next[i].ids)
               PROVE  \E i \in DOMAIN next' : o \in ToSet(next'[i].ids)
    BY DEF LaterKept
  <2>1. CASE \E i \in DOMAIN next : o \in ToSet(next[i].ids)
    BY <1>14, <1>16, <2>1
  <2>2. CASE o \notin Ids
    <3>1. \E i \in 1..n : o = e + i
      BY <1>6, <2>2 DEF Came
    <3>2. o \in ToSet(list.ids)
      BY <1>15, <3>1
    <3>3. QED
      BY <1>14, <1>17, <3>2
  <2>3. QED
    BY <2>1, <2>2
<1>20. ListsFit(level)'
  <2>1. \A i \in DOMAIN level : \A o \in ToSet(level[i].ids) :
          o \in Ids' /\ entities'[o].table = level[i].table
    BY <1>1, <1>9, GrownFits
  <2>2. QED
    BY <1>2, <2>1 DEF ListsFit
<1>21. ListsFit(next)'
  <2>1. \A i \in DOMAIN next : \A o \in ToSet(next[i].ids) :
          o \in Ids' /\ entities'[o].table = next[i].table
    BY <1>1, <1>9, GrownFits
  <2>2. \A o \in ToSet(list.ids) : o \in Ids' /\ entities'[o].table = list.table
    <3>1. \A i \in 1..n : e + i \in Ids' /\ entities'[e + i] = rows[i]
      BY <1>6 DEF Came
    <3>2. \A i \in 1..n : rows[i].table = Loader.target
      BY <1>4 DEF ToSet, Selected
    <3>3. QED
      BY <1>15, <3>1, <3>2
  <2>3. QED
    BY <1>14, <1>18, <2>1, <2>2 DEF ListsFit
<1>22. Undisturbed' => Undisturbed /\ found = Selected(Uncached)
  BY <1>1, <1>2, <1>5 DEF Undisturbed, FieldTypes
<1>23. ASSUME Undisturbed', NEW o \in ToSet(Records.ids), KeyOf(o) \notin DOMAIN data',
              NEW v \in db', Refers(entities[o], Loader, v)
       PROVE  FALSE
  <2> DEFINE k == KeyOf(o)
  <2>1. k \in Uncached
    <3>1. k \notin DOMAIN data
      BY <1>7, <1>23 DEF AddedTo
    <3>2. QED
      BY <3>1 DEF Uncached, HasObject
  <2>2. CacheKey(Loader.card, v.table, Loader.refe, v.val[Loader.refe]) = k /\ v.table = Loader.target
    BY <1>23 DEF Refers, KeyOf, RefersTo
  <2>3. v \in Selected(Uncached)
    BY <1>2, <2>1, <2>2 DEF Selected
  <2>4. PICK i \in 1..n : rows[i] = v
    BY <1>4, <1>22, <1>23, <2>3 DEF ToSet
  <2>5. KeyUnder(Loader, v) \in DOMAIN data'
    <3>1. DOMAIN rows = 1..Len(rows) /\ Len(rows) \in Nat
      BY <1>4
    <3>2. data' = AddAll(data, rows)
      BY <1>5 DEF Scanned
    <3>3. FindsAll(rows, data')
      BY <3>1, <3>2, AddAllFiles
    <3>4. QED
      BY <1>2, <1>4, <2>2, <2>4, <3>3 DEF FindsAll
  <2>6. QED
    BY <1>23, <2>2, <2>5 DEF KeyUnder
<1>24. Progress'
  <2>1. Undisturbed' => \A o \in ToSet(Records.ids) : KeyOf(o) \notin DOMAIN data' =>
                          \A v \in db' : ~Refers(entities[o], Loader, v)
    BY <1>23
  <2>2. Undisturbed' => Undisturbed
    BY <1>22
  <2>3. QED
    BY <1>1, <1>2, <1>5, <1>7, <1>8, <1>9, <1>10, <1>12, <1>19, <2>1, <2>2, FillProgresses
<1>25. Returned'
  BY <1>2 DEF Returned
<1>26. QED
  BY <1>7, <1>8, <1>12, <1>13, <1>20, <1>21, <1>24, <1>25 DEF FInv


\* Steps that load nothing keep what is cached and held.
LEMMA NothingLoaded ==
  ASSUME Cached, HeldRefer, UNCHANGED <<entities, field, data>>
  PROVE  Cached' /\ HeldRefer'
<1>1. Ids' = Ids
  BY DEF Ids
<1>2. Cached'
  BY DEF Cached
<1>3. ASSUME NEW o \in Ids, NEW r \in Relations PROVE HoldsOnly(o, r)'
  <2>1. HoldsOnly(o, r)
    BY DEF HeldRefer
  <2>2. QED
    BY <1>1, <2>1 DEF HoldsOnly
<1>4. QED
  BY <1>1, <1>2, <1>3 DEF HeldRefer

LEMMA StillComplete ==
  ASSUME Complete, UNCHANGED <<db, entities, data, writes, cut, by>>
  PROVE  Complete'
<1>1. Undisturbed' => Undisturbed
  BY DEF Undisturbed
<1>2. QED
  BY <1>1 DEF Complete

LEMMA FQuery ==
  ASSUME FInv, IInv', NEW T \in Tables, NEW found \in SUBSET {v \in db : v.table = T},
         Query(T, found)
  PROVE  FInv'
<1> DEFINE rows == SetToSeq(found)
           n == Len(rows)
           ids == NewEntities(n)
           base == field \o [i \in 1..n |-> NoRelations]
<1>1. /\ Types /\ Types' /\ FieldTypes /\ Cached /\ pc = "query"
      /\ entities = <<>> /\ next = <<>> /\ DOMAIN data = {} /\ at = 1 /\ turn = 1
  BY DEF FInv, IInv, Query, Types, FieldTypes
<1>2. /\ rows \in Seq(Rows) /\ n = Cardinality(found) /\ n \in Nat /\ DOMAIN rows = 1..n
      /\ \A i \in 1..n : rows[i] \in found
  <2>1. found \in SUBSET Rows /\ IsFiniteSet(found)
    <3>1. found \in SUBSET db
      OBVIOUS
    <3>2. QED
      BY <1>1, <3>1, FS_Subset DEF Types
  <2>2. /\ rows \in Seq(Rows) /\ n = Cardinality(found) /\ n \in Nat
        /\ \A i \in 1..n : rows[i] \in found
    BY <2>1, SetToSeqIsSeq
  <2>3. QED
    BY <2>2, LenProperties
<1>3. /\ Scanned(rows, {})
      /\ field' = [i \in 1..n |-> NoRelations]
      /\ level' = <<[table |-> T, ids |-> ids]>>
      /\ pc' = IF depth < MaxIncludeDepth THEN "include" ELSE "returned"
      /\ UNCHANGED <<db, loaders, MaxIncludeDepth, next, depth, at, turn, writes, cut>>
  BY <1>2 DEF Query
<1>4. {} \in SUBSET Relations
  OBVIOUS
<1> HIDE DEF rows, n
<1>5. Came(rows, {})
  BY <1>1, <1>2, <1>3, <1>4, ScannedComes
<1>6. Cached' /\ AddedTo(data, data', rows, Len(entities), Len(rows))
  BY <1>1, <1>2, <1>3, <1>4, CameCached
<1>7. Len(entities) = 0 /\ Ids = {}
  BY <1>1 DEF Ids
<1>8. /\ Grown /\ Len(entities') = n /\ Ids' = 1..n
      /\ \A o \in Ids' : entities'[o] \in found /\ by'[o] = {}
  <2>1. Len(entities') = n /\ \A i \in 1..n : 0 + i = i
    BY <1>2, <1>5, <1>7 DEF Came, n
  <2>2. \A i \in 1..n : entities'[0 + i] = rows[i] /\ by'[0 + i] = {}
    BY <1>5, <1>7 DEF Came, n
  <2>3. QED
    BY <1>2, <1>5, <2>1, <2>2 DEF Came, Ids
<1>9. /\ field' \in Seq([Relations -> Seq(Nat)]) /\ Len(field') = n
      /\ \A o \in 1..n : field'[o] = NoRelations
  <2>1. NoRelations \in [Relations -> Seq(Nat)]
    BY DEF NoRelations
  <2> DEFINE F == [Relations -> Seq(Nat)]
  <2> HIDE DEF F
  <2>2. field' \in [1..n -> F] /\ \A o \in 1..n : field'[o] = NoRelations
    BY <1>3, <2>1 DEF F
  <2>3. field' \in Seq(F)
    BY <1>2, <2>2, SeqDef
  <2>4. Len(field') = n
    BY <1>2, <2>2, <2>3, LenProperties
  <2>5. QED
    BY <2>2, <2>3, <2>4 DEF F
<1>10. FieldTypes'
  <2>1. pc' # "query"
    BY <1>3
  <2>2. QED
    BY <1>1, <1>3, <1>5, <1>8, <1>9, <2>1 DEF FieldTypes, Came, Consistent
<1>11. DOMAIN level' = {1} /\ level'[1] = [table |-> T, ids |-> ids] /\ ToSet(ids) = 1..n
  <2>1. ids = [i \in 1..n |-> i]
    BY <1>2, <1>7 DEF NewEntities, n
  <2>2. ToSet(ids) = 1..n
    BY <2>1 DEF ToSet
  <2> HIDE DEF ids
  <2>3. QED
    BY <1>3, <2>2
<1> HIDE DEF ids
<1>12. ListsFit(level)' /\ ListsFit(next)'
  <2>1. \A o \in 1..n : o \in Ids' /\ entities'[o].table = T
    BY <1>8
  <2>2. DOMAIN next' = {}
    BY <1>1, <1>3
  <2>3. ListsFit(next)'
    BY <2>2 DEF ListsFit
  <2>4. ListsFit(level)'
    <3>1. level'[1].table = T /\ ToSet(level'[1].ids) = 1..n
      BY <1>11
    <3>2. QED
      BY <1>11, <2>1, <3>1 DEF ListsFit
  <2>5. QED
    BY <2>3, <2>4
<1>13. Complete'
  <2> SUFFICES ASSUME NEW k \in DOMAIN data', NEW r \in Relations,
                      \A p \in ToSet(data'[k]) : by'[p] = {r}
               PROVE  FALSE
    BY DEF Complete
  <2>1. PICK i \in 1..n : Len(entities) + i \in ToSet(data'[k])
    BY <1>1, <1>6 DEF AddedTo, n
  <2>2. by'[Len(entities) + i] = {}
    BY <1>5, <2>1 DEF Came, n
  <2>3. QED
    BY <2>1, <2>2
<1>14. HeldRefer'
  <2>1. \A o \in Ids', r \in Relations : field'[o][r] = <<>>
    BY <1>8, <1>9 DEF NoRelations
  <2>2. ToSet(<<>>) = {} /\ Len(<<>>) <= 1
    BY DEF ToSet
  <2>3. QED
    BY <2>1, <2>2 DEF HeldRefer, HoldsOnly
<1>15. Progress'
  <2> SUFFICES ASSUME NEW o \in Ids', NEW r \in Relations, r \in ToSet(loaders')
               PROVE  Waits(o, r)'
    BY DEF Progress
  <2>1. at' = 1 /\ turn' = 1 /\ o \in ToSet(level'[1].ids)
    BY <1>1, <1>3, <1>8, <1>11
  <2>2. loaders' \in Seq(Relations)
    BY <1>1 DEF Types
  <2>3. PICK j \in DOMAIN loaders' : loaders'[j] = r
    BY DEF ToSet
  <2>4. j >= turn'
    BY <2>1, <2>2, <2>3, LenProperties
  <2>5. QED
    BY <1>11, <2>1, <2>3, <2>4 DEF Waits
<1>16. Returned'
  <2>1. depth \in Int /\ MaxIncludeDepth \in Int
    BY <1>1 DEF Types
  <2>2. QED
    BY <1>1, <1>3, <2>1 DEF Returned
<1>17. QED
  BY <1>6, <1>10, <1>12, <1>13, <1>14, <1>15, <1>16 DEF FInv

\* No entity waits any more on a level that is done.
LEMMA LevelDoneWaits ==
  ASSUME Types, LevelDone, NEW o, NEW r, r \in ToSet(loaders), Waits(o, r)
  PROVE  \E i \in DOMAIN next : o \in ToSet(next[i].ids)
<1>1. loaders # <<>>
  BY DEF ToSet
<1>2. at > Len(level) /\ at \in Nat /\ Len(level) \in Nat /\ DOMAIN level = 1..Len(level)
  BY <1>1, LenProperties DEF LevelDone, Types
<1>3. \A i \in DOMAIN level : ~(i > at)
  BY <1>2
<1>4. at \notin DOMAIN level
  BY <1>2
<1>5. QED
  BY <1>3, <1>4 DEF Waits

LEMMA FDeeper ==
  ASSUME FInv, IInv', Deeper
  PROVE  FInv'
<1>1. /\ Types /\ Types' /\ FieldTypes /\ ListsFit(level) /\ ListsFit(next) /\ Cached /\ Complete
      /\ HeldRefer /\ Progress
  BY DEF FInv, IInv
<1>2. /\ LevelDone /\ level' = next /\ next' = <<>> /\ at' = 1 /\ turn' = 1
      /\ pc' = (IF depth' < MaxIncludeDepth THEN "include" ELSE "returned")
      /\ UNCHANGED <<db, loaders, MaxIncludeDepth, entities, field, data, writes, cut, by>>
  BY DEF Deeper
<1>3. FieldTypes'
  <2>1. pc' # "query"
    BY <1>2
  <2>2. QED
    BY <1>1, <1>2, <2>1 DEF FieldTypes, Consistent
<1>4. Ids' = Ids
  BY <1>2 DEF Ids
<1>5. ListsFit(level)' /\ ListsFit(next)'
  BY <1>1, <1>2, <1>4 DEF ListsFit
<1>6. Cached' /\ Complete' /\ HeldRefer'
  BY <1>1, <1>2, NothingLoaded, StillComplete
<1>7. Progress'
  <2> SUFFICES ASSUME ReferToKeys, NEW o \in Ids, NEW r \in Relations, r \in ToSet(loaders),
                      entities[o].table = r.owner
               PROVE  Full(o, r)' \/ Waits(o, r)'
    BY <1>2, <1>4 DEF Progress
  <2>1. CASE Full(o, r)
    BY <1>2, <2>1 DEF Full, Undisturbed
  <2>2. CASE Waits(o, r)
    <3>1. PICK i \in DOMAIN next : o \in ToSet(next[i].ids)
      BY <1>1, <1>2, <2>2, LevelDoneWaits
    <3>2. PICK j \in DOMAIN loaders : loaders[j] = r
      BY DEF ToSet
    <3>3. DOMAIN next \subseteq Nat \ {0} /\ DOMAIN loaders \subseteq Nat \ {0}
      <4>1. DOMAIN next = 1..Len(next) /\ DOMAIN loaders = 1..Len(loaders)
            /\ Len(next) \in Nat /\ Len(loaders) \in Nat
        BY <1>1, LenProperties DEF Types
      <4>2. QED
        BY <4>1
    <3>4. j >= 1 /\ (i = 1 \/ i > 1)
      BY <3>1, <3>2, <3>3
    <3>5. QED
      BY <1>2, <3>1, <3>2, <3>4 DEF Waits
  <2>3. QED
    BY <1>1, <2>1, <2>2 DEF Progress
<1>8. Returned'
  <2>1. depth' \in Int /\ MaxIncludeDepth' \in Int
    BY <1>1 DEF Types
  <2>2. QED
    BY <1>2, <2>1 DEF Returned
<1>9. QED
  BY <1>3, <1>5, <1>6, <1>7, <1>8 DEF FInv

LEMMA FNotItsEntity ==
  ASSUME FInv, IInv', NotItsEntity
  PROVE  FInv'
<1>1. /\ Types /\ FieldTypes /\ ListsFit(level) /\ ListsFit(next) /\ Cached /\ Complete
      /\ HeldRefer /\ Progress
  BY DEF FInv, IInv
<1>2. /\ LoaderCalled /\ Records.table # Loader.owner /\ NextTurn
      /\ UNCHANGED <<db, loaders, entities, field, data, level, next, pc, writes, cut, by>>
      /\ pc = "include" /\ at \in DOMAIN level
  <2>1. at \in 1..Len(level) /\ DOMAIN level = 1..Len(level)
    BY <1>1, LoaderIs, LenProperties DEF Types, NotItsEntity
  <2>2. QED
    BY <2>1 DEF NotItsEntity, LoaderCalled
<1>3. FieldTypes' /\ Ids' = Ids
  BY <1>1, <1>2 DEF FieldTypes, Consistent, Ids
<1>4. ListsFit(level)' /\ ListsFit(next)'
  BY <1>1, <1>2, <1>3 DEF ListsFit
<1>5. Cached' /\ Complete' /\ HeldRefer'
  BY <1>1, <1>2, NothingLoaded, StillComplete
<1>6. Progress'
  <2> SUFFICES ASSUME ReferToKeys, NEW o \in Ids, NEW r \in Relations, r \in ToSet(loaders),
                      entities[o].table = r.owner
               PROVE  Full(o, r)' \/ Waits(o, r)'
    BY <1>2, <1>3 DEF Progress
  <2>1. CASE Full(o, r)
    BY <1>2, <2>1 DEF Full, Undisturbed
  <2>2. CASE Waits(o, r)
    <3>1. ~Fills(o, r)
      BY <1>1, <1>2 DEF Fills, ListsFit, Records
    <3>2. QED
      BY <1>1, <1>2, <2>2, <3>1, TurnPasses
  <2>3. QED
    BY <1>1, <2>1, <2>2 DEF Progress
<1>7. Returned'
  BY <1>2 DEF Returned
<1>8. QED
  BY <1>3, <1>4, <1>5, <1>6, <1>7 DEF FInv

\* Returning changes no more than pc.
LEMMA FEnds ==
  ASSUME FInv, IInv', LoadFails \/ NothingLater
  PROVE  FInv'
<1>1. /\ FieldTypes /\ ListsFit(level) /\ ListsFit(next) /\ Cached /\ Complete
      /\ HeldRefer /\ Progress
  BY DEF FInv
<1>2. /\ UNCHANGED <<db, loaders, MaxIncludeDepth, entities, field, data, level, next, depth,
                     at, turn, writes, cut, by>>
      /\ pc' # "query"
      /\ pc' = "returned" => LevelDone /\ next = <<>>
  BY DEF LoadFails, NothingLater
<1>3. FieldTypes' /\ Ids' = Ids
  BY <1>1, <1>2 DEF FieldTypes, Consistent, Ids
<1>4. ListsFit(level)' /\ ListsFit(next)'
  BY <1>1, <1>2, <1>3 DEF ListsFit
<1>k. Cached' /\ Complete' /\ HeldRefer'
  BY <1>1, <1>2, NothingLoaded, StillComplete
<1>5. Progress'
  BY <1>1, <1>2, <1>3 DEF Progress, Full, Undisturbed, Waits
<1>6. Returned'
  BY <1>2 DEF Returned, LevelDone
<1>7. QED
  BY <1>3, <1>4, <1>k, <1>5, <1>6 DEF FInv

\* After a write of another session only what the fields hold is still promised.
LEMMA FWrite ==
  ASSUME FInv, IInv', NEW new, Write(new)
  PROVE  FInv'
<1>1. /\ Types /\ FieldTypes /\ ListsFit(level) /\ ListsFit(next) /\ Cached /\ HeldRefer /\ Progress
  BY DEF FInv, IInv
<1>2. /\ UNCHANGED <<loaders, MaxIncludeDepth, entities, field, data, level, next, depth,
                     at, turn, pc, cut, by>>
      /\ pc = "include" /\ db' = new /\ Consistent(new) /\ writes' = writes + 1
  BY DEF Write
<1>3. ~Undisturbed'
  BY <1>1, <1>2 DEF Undisturbed, Types
<1>4. FieldTypes' /\ Ids' = Ids
  BY <1>1, <1>2 DEF FieldTypes, Consistent, Ids
<1>5. ListsFit(level)' /\ ListsFit(next)'
  BY <1>1, <1>2, <1>4 DEF ListsFit
<1>k. Cached' /\ HeldRefer'
  BY <1>1, <1>2, NothingLoaded
<1>6. Complete' /\ Progress'
  BY <1>3 DEF Complete, Progress, Full
<1>7. Returned'
  BY <1>2 DEF Returned
<1>8. QED
  BY <1>4, <1>5, <1>k, <1>6, <1>7 DEF FInv

LEMMA FNextKeeps == FInv /\ [Next]_vars => FInv'
<1> SUFFICES ASSUME FInv, [Next]_vars PROVE FInv'
  OBVIOUS
<1>0. IInv'
  BY NextKeeps DEF FInv
<1>1. ASSUME NEW T \in Tables, NEW rows \in SUBSET {v \in db : v.table = T}, Query(T, rows)
      PROVE  FInv'
  BY <1>0, <1>1, FQuery
<1>2. CASE NotItsEntity
  BY <1>0, <1>2, FNotItsEntity
<1>3. CASE LoadCached
  BY <1>0, <1>3, FLoadCached
<1>4. CASE LoadUncached
  BY <1>0, <1>4, FLoadUncached
<1>5. CASE LoadFails \/ NothingLater
  BY <1>0, <1>5, FEnds
<1>6. CASE Deeper
  BY <1>0, <1>6, FDeeper
<1>7. ASSUME NEW new, Write(new) PROVE FInv'
  BY <1>0, <1>7, FWrite
<1>8. CASE UNCHANGED vars
  <2>1. /\ FieldTypes /\ ListsFit(level) /\ ListsFit(next) /\ Cached /\ Complete
        /\ HeldRefer /\ Progress /\ Returned
    BY DEF FInv
  <2>2. UNCHANGED <<db, loaders, MaxIncludeDepth, entities, field, data, level, next, depth,
                    at, turn, pc, writes, cut, by>>
    BY <1>8 DEF vars
  <2>3. FieldTypes' /\ Ids' = Ids
    BY <2>1, <2>2 DEF FieldTypes, Consistent, Ids
  <2>4. ListsFit(level)' /\ ListsFit(next)'
    BY <2>1, <2>2, <2>3 DEF ListsFit
  <2>k. Cached' /\ Complete' /\ HeldRefer'
    BY <2>1, <2>2, NothingLoaded, StillComplete
  <2>5. Progress' /\ Returned'
    BY <2>1, <2>2, <2>3 DEF Progress, Full, Undisturbed, Waits, Returned
  <2>6. QED
    BY <1>0, <2>3, <2>4, <2>k, <2>5 DEF FInv
<1>9. QED
  BY <1>1, <1>2, <1>3, <1>4, <1>5, <1>6, <1>7, <1>8 DEF Next, Step, Load

LEMMA FieldInvariant == Spec => []FInv
<1>1. Init => FInv
  BY FInitEstablishes
<1>2. FInv /\ [Next]_vars => FInv'
  BY FNextKeeps
<1>3. QED
  BY <1>1, <1>2, PTL DEF Spec

-----------------------------------------------------------------------------
(* What the fields hold when the query has returned *)

\* A returned query leaves no entity waiting but those below the depth limit.
LEMMA NoneWaits ==
  ASSUME Types, Returned, pc = "returned", NEW o, NEW r, r \in ToSet(loaders),
         depth >= MaxIncludeDepth => \A i \in DOMAIN level : o \notin ToSet(level[i].ids)
  PROVE  ~Waits(o, r)
<1>1. next = <<>> /\ DOMAIN next = {}
  BY DEF Returned
<1>2. CASE depth >= MaxIncludeDepth
  BY <1>1, <1>2 DEF Waits
<1>3. CASE ~(depth >= MaxIncludeDepth)
  <2>1. loaders # <<>>
    BY DEF ToSet
  <2>2. at > Len(level) /\ at \in Nat /\ Len(level) \in Nat /\ DOMAIN level = 1..Len(level)
    BY <1>3, <2>1, LenProperties DEF Returned, Types
  <2>3. (\A i \in DOMAIN level : ~(i > at)) /\ at \notin DOMAIN level
    BY <2>2
  <2>4. QED
    BY <1>1, <2>3 DEF Waits
<1>4. QED
  BY <1>2, <1>3

\* When a query has returned, every entity that was included holds exactly what
\* it refers to, except for a list that another way of loading had started and
\* for results that were cut off (table.tgo:366-416, db_ctx.go:159-167); in
\* schemas whose many-to-one relations refer to primary keys.
THEOREM ShortListsWereStarted ==
  ASSUME ReferToKeys
  PROVE  Spec => []OnlyStartedListsAreShort
<1>1. FInv => OnlyStartedListsAreShort
  <2> SUFFICES ASSUME FInv, pc = "returned", writes = 0,
                      NEW o \in Ids, NEW r \in ToSet(loaders), entities[o].table = r.owner,
                      depth >= MaxIncludeDepth =>
                        \A i \in DOMAIN level : o \notin ToSet(level[i].ids)
               PROVE  LET wanted == {v \in db : v.table = r.target
                                                  /\ v.val[r.refe] = entities[o].val[r.fk]}
                          held == {entities[p] : p \in ToSet(field[o][r])}
                      IN  /\ held \subseteq wanted
                          /\ \/ held = wanted \/ cut
                             \/ r.card = "OneToMany" /\ \E p \in ToSet(field[o][r]) : by[p] # {r}
    BY DEF OnlyStartedListsAreShort
  <2> DEFINE wanted == {v \in db : v.table = r.target /\ v.val[r.refe] = entities[o].val[r.fk]}
             held == {entities[p] : p \in ToSet(field[o][r])}
  <2>1. Types /\ FromDb /\ FieldTypes /\ HeldRefer /\ Progress /\ Returned
    BY DEF FInv, IInv
  <2>2. r \in Relations
    <3>1. loaders \in [1..Len(loaders) -> Relations]
      BY <2>1, LenProperties DEF Types
    <3>2. QED
      BY <3>1 DEF ToSet
  <2>3. held \subseteq wanted
    <3> SUFFICES ASSUME NEW p \in ToSet(field[o][r]) PROVE entities[p] \in wanted
      OBVIOUS
    <3>1. p \in Ids /\ Refers(entities[o], r, entities[p])
      BY <2>1, <2>2 DEF HeldRefer, HoldsOnly
    <3>2. entities[p] \in db
      BY <2>1, <3>1 DEF FromDb
    <3>3. QED
      BY <3>1, <3>2 DEF Refers
  <2>4. Full(o, r)
    BY <2>1, <2>2, NoneWaits DEF Progress
  <2>5. CASE cut
    BY <2>3, <2>5
  <2>6. CASE ~cut
    <3>1. Undisturbed
      BY <2>1, <2>6 DEF Undisturbed, FieldTypes
    <3>2. CASE \A v \in db : Refers(entities[o], r, v) => \E p \in ToSet(field[o][r]) : entities[p] = v
      <4>1. wanted \subseteq held
        BY <3>2 DEF Refers
      <4>2. QED
        BY <2>3, <4>1
    <3>3. CASE r.card = "OneToMany" /\ \E p \in ToSet(field[o][r]) : by[p] # {r}
      BY <2>3, <3>3
    <3>4. QED
      BY <2>4, <3>1, <3>2, <3>3 DEF Full
  <2>7. QED
    BY <2>5, <2>6
<1>2. QED
  BY <1>1, FieldInvariant, PTL

LEMMA OneOrNone ==
  ASSUME NEW s \in Seq(Nat), Len(s) <= 1, NEW o, \A q \in ToSet(s) : q = o
  PROVE  s \in {<<>>, <<o>>}
<1>1. s \in [1..Len(s) -> Nat] /\ Len(s) \in Nat
  BY LenProperties
<1>2. CASE Len(s) = 0
  BY <1>2
<1>3. CASE Len(s) = 1
  <2>1. s[1] = o
    BY <1>1, <1>3 DEF ToSet
  <2>2. QED
    BY <1>3, <2>1
<1>4. QED
  BY <1>1, <1>2, <1>3

\* Two directions of a relation agree: the parent of a child is the entity whose
\* list the child is in (example/example_test.go:91), as long as no other session
\* wrote.
THEOREM IncludedCyclesClose ==
  ASSUME ReferToKeys
  PROVE  Spec => [](writes = 0 => CyclesClose)
<1>1. FInv => (writes = 0 => CyclesClose)
  <2> SUFFICES ASSUME FInv, writes = 0, NEW o \in Ids, NEW r \in Relations, NEW s \in Relations,
                      Opposite(r, s), NEW i \in DOMAIN field[o][r]
               PROVE  field[field[o][r][i]][s] \in {<<>>, <<o>>}
    BY DEF CyclesClose
  <2> DEFINE p == field[o][r][i]
             held == field[p][s]
  <2>1. /\ Types /\ FromDb /\ OneEntityPerRow /\ FieldTypes /\ HeldRefer
    BY DEF FInv, IInv
  <2>2. s.card = "ManyToOne" /\ r.owner = s.target /\ r.target = s.owner
        /\ r.fk = s.refe /\ r.refe = s.fk /\ s.refe = PrimaryKey[s.target]
    BY DEF Opposite, ReferToKeys
  <2>3. p \in Ids /\ Refers(entities[o], r, entities[p])
    <3>1. p \in ToSet(field[o][r])
      BY DEF ToSet
    <3>2. QED
      BY <2>1, <3>1 DEF HeldRefer, HoldsOnly
  <2>4. held \in Seq(Nat) /\ Len(held) <= 1
    <3>1. field \in [1..Len(field) -> [Relations -> Seq(Nat)]] /\ p \in 1..Len(field)
      BY <2>1, <2>3, LenProperties DEF FieldTypes, Ids
    <3>2. s.card # "OneToMany"
      BY <2>2
    <3>3. QED
      BY <2>1, <2>3, <3>1, <3>2 DEF HeldRefer, HoldsOnly
  <2>5. ASSUME NEW q \in ToSet(held) PROVE q = o
    <3>1. q \in Ids /\ Refers(entities[p], s, entities[q])
      BY <2>1, <2>3, <2>5 DEF HeldRefer, HoldsOnly
    <3>t. entities[o].table = s.target /\ entities[q].table = s.target
      <4>1. ToSet(field[o][r]) # {}
        BY DEF ToSet
      <4>2. entities[o].table = r.owner
        BY <2>1, <4>1 DEF HeldRefer, HoldsOnly
      <4>3. QED
        BY <2>2, <3>1, <4>2 DEF Refers
    <3>2. PrimaryKeyOf(entities[q]) = PrimaryKeyOf(entities[o])
      BY <2>2, <2>3, <3>t, <3>1 DEF PrimaryKeyOf, Refers
    <3>3. entities[q] \in db /\ entities[o] \in db
      BY <2>1, <3>1 DEF FromDb
    <3>4. entities[q] = entities[o]
      BY <2>1, <3>2, <3>3 DEF FieldTypes, Consistent
    <3>5. QED
      BY <2>1, <3>1, <3>4 DEF OneEntityPerRow
  <2> HIDE DEF held
  <2>6. QED
    BY <2>4, <2>5, OneOrNone DEF held
<1>2. QED
  BY <1>1, FieldInvariant, PTL

-----------------------------------------------------------------------------
(* How often the fields hold an entity *)

\* The lists of a level and of the next one have no entity in common.
Apart(lists, others) ==
  \A i \in DOMAIN lists, j \in DOMAIN others :
    ToSet(lists[i].ids) \cap ToSet(others[j].ids) = {}

Different(lists) ==
  \A i, j \in DOMAIN lists : i # j => ToSet(lists[i].ids) \cap ToSet(lists[j].ids) = {}

\* No query is given the same loader twice.
LoadersDiffer(list) == \A i, j \in DOMAIN list : list[i] = list[j] => i = j

\* A field is filled by the one call that gets its entity.
Unread == \A o \in Ids, r \in Relations : Waits(o, r) => field[o][r] = <<>>

HeldEqually(o, r) ==
  r.card = "OneToMany" =>
    \A p \in ToSet(field[o][r]) : Times(field[o][r], p) = Cardinality(Sharing(r))

Counted == \A o \in Ids, r \in Relations : HeldEqually(o, r)

CInv ==
  /\ Different(level) /\ Different(next) /\ Apart(level, next)
  /\ LoadersDiffer(loaders) /\ Unread /\ Counted

\* What waits after the turn waited before, and was not filled in it.
LEMMA WaitedBefore ==
  ASSUME Types, CInv, LoaderCalled, NextTurn, UNCHANGED <<level, loaders>>,
         NEW o, NEW r \in Relations, Waits(o, r)',
         (\E i \in DOMAIN next' : o \in ToSet(next'[i].ids))
           => \E i \in DOMAIN next : o \in ToSet(next[i].ids)
  PROVE  Waits(o, r) /\ ~Fills(o, r)
<1>1. /\ at \in 1..Len(level) /\ turn \in 1..Len(loaders)
      /\ DOMAIN level = 1..Len(level) /\ DOMAIN loaders = 1..Len(loaders)
      /\ Len(level) \in Nat /\ Len(loaders) \in Nat
  BY LoaderIs, LenProperties DEF Types
<1>2. CASE \E i \in DOMAIN next' : o \in ToSet(next'[i].ids)
  <2>1. PICK i \in DOMAIN next : o \in ToSet(next[i].ids)
    BY <1>2
  <2>2. Waits(o, r)
    BY <2>1 DEF Waits
  <2>3. o \notin ToSet(level[at].ids)
    BY <1>1, <2>1 DEF CInv, Apart
  <2>4. QED
    BY <2>2, <2>3 DEF Fills, Records
<1>3. CASE \E i \in DOMAIN level : o \in ToSet(level[i].ids) /\ i > at'
  <2>1. PICK i \in 1..Len(level) : o \in ToSet(level[i].ids) /\ i > at'
    BY <1>1, <1>3
  <2>2. i > at /\ i # at
    BY <1>1, <2>1 DEF NextTurn
  <2>3. Waits(o, r)
    BY <1>1, <2>1, <2>2 DEF Waits
  <2>4. o \notin ToSet(level[at].ids)
    BY <1>1, <2>1, <2>2 DEF CInv, Different
  <2>5. QED
    BY <2>3, <2>4 DEF Fills, Records
<1>4. CASE /\ at' \in DOMAIN level /\ o \in ToSet(level[at'].ids)
           /\ \E j \in DOMAIN loaders : j >= turn' /\ loaders[j] = r
  <2>1. PICK j \in 1..Len(loaders) : j >= turn' /\ loaders[j] = r
    BY <1>1, <1>4
  <2>2. CASE turn < Len(loaders)
    <3>1. at' = at /\ j >= turn /\ j # turn
      BY <1>1, <2>1, <2>2 DEF NextTurn
    <3>2. Waits(o, r)
      BY <1>1, <1>4, <2>1, <3>1 DEF Waits
    <3>3. r # Loader
      BY <1>1, <2>1, <3>1 DEF CInv, LoadersDiffer, Loader
    <3>4. QED
      BY <3>2, <3>3 DEF Fills
  <2>3. CASE ~(turn < Len(loaders))
    <3>1. at' > at /\ at' # at
      BY <1>1, <2>3 DEF NextTurn
    <3>2. Waits(o, r)
      BY <1>1, <1>4, <3>1 DEF Waits
    <3>3. o \notin ToSet(level[at].ids)
      BY <1>1, <1>4, <3>1 DEF CInv, Different
    <3>4. QED
      BY <3>2, <3>3 DEF Fills, Records
  <2>4. QED
    BY <2>2, <2>3
<1>5. QED
  BY <1>2, <1>3, <1>4 DEF Waits

\* The lists to be included later get only new entities.
NewLater ==
  \A o \in Ids : (\E i \in DOMAIN next' : o \in ToSet(next'[i].ids))
    => \E i \in DOMAIN next : o \in ToSet(next[i].ids)

LEMMA FillCounts ==
  ASSUME Types, FieldTypes, ListsFit(level), CInv, LoaderCalled, NextTurn, Grown, Cached',
         NEW base, Basis(base), field' = Filled(base, data'),
         UNCHANGED <<level, loaders>>, NewLater
  PROVE  Unread' /\ Counted'
<1>1. /\ Loader \in Relations /\ at \in 1..Len(level) /\ turn \in DOMAIN loaders
      /\ at \in DOMAIN level /\ turn \in Nat
  BY LoaderIs, LenProperties DEF Types
<1>2. \A o \in Ids', r \in Relations :
        field'[o][r] = IF Fills(o, r) /\ KeyOf(o) \in DOMAIN data'
                       THEN IF r.card = "OneToMany" THEN base[o][r] \o data'[KeyOf(o)]
                                                    ELSE data'[KeyOf(o)]
                       ELSE base[o][r]
  BY <1>1, FilledIs
<1>3. \A o \in ToSet(Records.ids) : o \in Ids
  BY <1>1 DEF ListsFit, Records
<1>4. ASSUME NEW o \in Ids', NEW r \in Relations, o \notin Ids
      PROVE  field'[o][r] = <<>>
  <2>1. ~Fills(o, r)
    BY <1>3, <1>4 DEF Fills
  <2>2. QED
    BY <1>2, <1>4, <2>1 DEF Basis, NoRelations
<1>5. ASSUME NEW o \in Ids, NEW r \in Relations, ~Fills(o, r)
      PROVE  field'[o][r] = field[o][r]
  <2>1. o \in Ids'
    BY DEF Grown
  <2>2. QED
    BY <1>2, <1>5, <2>1 DEF Basis
<1>6. Unread'
  <2> SUFFICES ASSUME NEW o \in Ids', NEW r \in Relations, Waits(o, r)'
               PROVE  field'[o][r] = <<>>
    BY DEF Unread
  <2>1. CASE o \in Ids
    <3>1. Waits(o, r) /\ ~Fills(o, r)
      BY <2>1, WaitedBefore DEF NewLater
    <3>2. QED
      BY <1>5, <2>1, <3>1 DEF CInv, Unread
  <2>2. QED
    BY <1>4, <2>1
<1>7. Counted'
  <2> SUFFICES ASSUME NEW o \in Ids', NEW r \in Relations, r.card = "OneToMany",
                      NEW p \in ToSet(field'[o][r])
               PROVE  Times(field'[o][r], p) = Cardinality(Sharing(r))
    BY DEF Counted, HeldEqually
  <2>1. o \in Ids
    <3>1. ToSet(<<>>) = {}
      BY DEF ToSet
    <3>2. QED
      BY <1>4, <3>1
  <2>2. CASE ~Fills(o, r)
    BY <1>5, <2>1, <2>2 DEF CInv, Counted, HeldEqually
  <2>3. CASE Fills(o, r)
    <3>1. Waits(o, r)
      <4>1. turn >= turn
        BY <1>1
      <4>2. QED
        BY <1>1, <2>3, <4>1 DEF Waits, Fills, Records, Loader
    <3>2. base[o][r] = <<>>
      BY <2>1, <3>1 DEF CInv, Unread, Basis
    <3>3. KeyOf(o) \in DOMAIN data' /\ field'[o][r] = <<>> \o data'[KeyOf(o)]
      <4>1. ToSet(<<>>) = {}
        BY DEF ToSet
      <4>2. QED
        BY <1>2, <2>3, <3>2, <4>1
    <3> DEFINE k == KeyOf(o)
               y == data'[k]
    <3>4. k[1] = "OneToMany" /\ k[2] = r.target /\ k[3] = r.refe
      BY <2>3 DEF KeyOf, RefersTo, CacheKey, Fills
    <3>5. SharedBy(k) = Sharing(r)
      <4> HIDE DEF k
      <4>1. QED
        BY <3>4 DEF SharedBy, Sharing
    <3>6. y \in Seq(1..Len(entities')) /\ \A q \in ToSet(y) : Times(y, q) = Cardinality(SharedBy(k))
      BY <3>3, <3>4 DEF Cached, ListsOk
    <3> HIDE DEF k, y
    <3>7. field'[o][r] = y
      <4>1. field'[o][r] = <<>> \o y
        BY <3>3 DEF k, y
      <4>2. QED
        BY <3>6, <4>1, ConcatEmptySeq
    <3>8. QED
      BY <3>5, <3>6, <3>7
  <2>4. QED
    BY <2>2, <2>3
<1>8. QED
  BY <1>6, <1>7

-----------------------------------------------------------------------------
(* The steps *)

LEMMA CLoadCached ==
  ASSUME FInv, FInv', CInv, LoadCached
  PROVE  CInv'
<1>1. /\ Types /\ FieldTypes /\ ListsFit(level) /\ Cached'
  BY DEF FInv, IInv
<1>2. /\ LoaderCalled /\ NextTurn /\ field' = Filled(field, data')
      /\ UNCHANGED <<loaders, entities, level, next, by>>
  BY DEF LoadCached
<1>3. Grown /\ NewLater
  BY <1>1, <1>2, LenProperties DEF Types, Grown, NewLater, Ids
<1>4. Basis(field)
  BY <1>1, <1>2 DEF Basis, FieldTypes, Ids
<1>5. Unread' /\ Counted'
  BY <1>1, <1>2, <1>3, <1>4, FillCounts
<1>6. QED
  BY <1>2, <1>5 DEF CInv, Different, Apart, LoadersDiffer

LEMMA CLoadUncached ==
  ASSUME FInv, FInv', CInv, LoadUncached
  PROVE  CInv'
<1>1. /\ Types /\ Types' /\ FieldTypes /\ ListsFit(level) /\ ListsFit(next) /\ Cached'
  BY DEF FInv, IInv
<1>2. /\ LoaderCalled /\ NextTurn /\ UNCHANGED <<loaders, level>> /\ Loader \in Relations
  BY <1>1, LoaderIs DEF LoadUncached
<1>3. PICK found \in SUBSET Selected(Uncached) :
        /\ Scanned(SetToSeq(found), {Loader})
        /\ next' = Append(next, [table |-> Loader.target,
                                 ids |-> NewEntities(Len(SetToSeq(found)))])
        /\ field' = Filled(field \o [i \in 1..Len(SetToSeq(found)) |-> NoRelations], data')
  BY DEF LoadUncached
<1> DEFINE rows == SetToSeq(found)
           n == Len(rows)
           e == Len(entities)
           list == [table |-> Loader.target, ids |-> NewEntities(n)]
           base == field \o [i \in 1..n |-> NoRelations]
<1>4. rows \in Seq(Rows) /\ n \in Nat
  <2>1. found \in SUBSET db
    BY DEF Selected
  <2>2. found \in SUBSET Rows /\ IsFiniteSet(found)
    BY <1>1, <2>1, FS_Subset DEF Types
  <2>3. QED
    BY <2>2, SetToSeqIsSeq
<1>5. /\ Scanned(rows, {Loader}) /\ next' = Append(next, list) /\ field' = Filled(base, data')
  BY <1>3
<1> HIDE DEF rows, list, base
<1>6. Came(rows, {Loader})
  BY <1>1, <1>2, <1>4, <1>5, ScannedComes
<1>7. Grown /\ e \in Nat /\ Len(entities') = e + n
  BY <1>6 DEF Came, Grown
<1>8. Basis(base)
  BY <1>1, <1>4, <1>7, NewFields DEF base
<1>9. /\ next \in Seq(Lists) /\ DOMAIN next = 1..Len(next) /\ Len(next) \in Nat
      /\ DOMAIN next' = 1..Len(next) + 1
      /\ \A i \in 1..Len(next) : next'[i] = next[i]
      /\ next'[Len(next) + 1] = list
  <2>1. next \in Seq(Lists) /\ list \in Lists
    <3>1. Loader.target \in Tables
      BY <1>2, IncludeAssumption
    <3>2. NewEntities(n) \in Seq(Nat)
      BY <1>1, <1>4, NewEntitiesType DEF Types
    <3>3. QED
      BY <1>1, <3>1, <3>2 DEF Types, Lists, list
  <2>2. /\ next' \in Seq(Lists) /\ Len(next') = Len(next) + 1
        /\ \A i \in 1..Len(next) : next'[i] = next[i]
        /\ next'[Len(next) + 1] = list
    BY <1>5, <2>1, AppendProperties
  <2>3. DOMAIN next = 1..Len(next) /\ Len(next) \in Nat /\ DOMAIN next' = 1..Len(next')
    BY <2>1, <2>2, LenProperties
  <2>4. QED
    BY <2>1, <2>2, <2>3
<1>10. \A i \in DOMAIN next' : (i \in DOMAIN next /\ next'[i] = next[i]) \/ (i = Len(next) + 1 /\ next'[i] = list)
  <2>1. \A i \in 1..Len(next) + 1 : i \in 1..Len(next) \/ i = Len(next) + 1
    BY <1>9
  <2>2. QED
    BY <1>9, <2>1
<1>11. ToSet(list.ids) \cap Ids = {}
  <2>1. ToSet(list.ids) = {e + i : i \in 1..n}
    BY DEF list, NewEntities, ToSet
  <2>2. \A i \in 1..n : e + i \notin Ids
    BY <1>6 DEF Came
  <2>3. QED
    BY <2>1, <2>2
<1>12. /\ \A i \in DOMAIN level : ToSet(level[i].ids) \subseteq Ids
       /\ \A i \in DOMAIN next : ToSet(next[i].ids) \subseteq Ids
  BY <1>1 DEF ListsFit
<1>13. NewLater
  <2> SUFFICES ASSUME NEW o \in Ids, NEW i \in DOMAIN next', o \in ToSet(next'[i].ids)
               PROVE  \E j \in DOMAIN next : o \in ToSet(next[j].ids)
    BY DEF NewLater
  <2>1. QED
    BY <1>10, <1>11
<1>14. Unread' /\ Counted'
  BY <1>1, <1>2, <1>5, <1>7, <1>8, <1>13, FillCounts
<1>15. Apart(level, next)'
  <2> SUFFICES ASSUME NEW i \in DOMAIN level, NEW j \in DOMAIN next'
               PROVE  ToSet(level[i].ids) \cap ToSet(next'[j].ids) = {}
    BY <1>2 DEF Apart
  <2>1. CASE j \in DOMAIN next /\ next'[j] = next[j]
    BY <2>1 DEF CInv, Apart
  <2>2. CASE next'[j] = list
    BY <1>11, <1>12, <2>2
  <2>3. QED
    BY <1>10, <2>1, <2>2
<1>16. Different(next)'
  <2> SUFFICES ASSUME NEW i \in DOMAIN next', NEW j \in DOMAIN next', i # j
               PROVE  ToSet(next'[i].ids) \cap ToSet(next'[j].ids) = {}
    BY DEF Different
  <2>1. CASE i \in DOMAIN next /\ next'[i] = next[i] /\ j \in DOMAIN next /\ next'[j] = next[j]
    BY <2>1 DEF CInv, Different
  <2>2. CASE i \in DOMAIN next /\ next'[i] = next[i] /\ next'[j] = list
    BY <1>11, <1>12, <2>2
  <2>3. CASE j \in DOMAIN next /\ next'[j] = next[j] /\ next'[i] = list
    BY <1>11, <1>12, <2>3
  <2>4. QED
    BY <1>10, <2>1, <2>2, <2>3
<1>17. QED
  BY <1>2, <1>14, <1>15, <1>16 DEF CInv, Different, LoadersDiffer

LEMMA CQuery ==
  ASSUME FInv, FInv', CInv, NEW T \in Tables, NEW found \in SUBSET {v \in db : v.table = T},
         Query(T, found)
  PROVE  CInv'
<1>1. /\ Types /\ next = <<>>
  BY DEF FInv, IInv, Query, Types
<1>2. /\ field' = [i \in 1..Cardinality(found) |-> NoRelations]
      /\ level' = <<[table |-> T, ids |-> NewEntities(Cardinality(found))]>>
      /\ UNCHANGED <<loaders, next>>
  BY DEF Query
<1>3. \A o \in Ids', r \in Relations : field'[o][r] = <<>>
  <2> DEFINE n == Cardinality(found)
  <2>1. field' \in Seq([Relations -> Seq(Nat)]) /\ Len(field') = Len(entities')
    BY DEF FInv, FieldTypes
  <2>2. DOMAIN field' = Ids'
    BY <2>1, LenProperties DEF Ids
  <2>3. \A o \in DOMAIN field' : field'[o] = NoRelations
    BY <1>2
  <2>4. QED
    BY <2>2, <2>3 DEF NoRelations
<1>4. Unread' /\ Counted'
  <2>1. ToSet(<<>>) = {}
    BY DEF ToSet
  <2>2. QED
    BY <1>3, <2>1 DEF Unread, Counted, HeldEqually
<1>5. DOMAIN level' = {1} /\ DOMAIN next' = {}
  BY <1>1, <1>2
<1>6. Different(level)' /\ Different(next)' /\ Apart(level, next)'
  BY <1>5 DEF Different, Apart
<1>7. LoadersDiffer(loaders)'
  BY <1>2 DEF CInv
<1>8. QED
  BY <1>4, <1>6, <1>7 DEF CInv

LEMMA CDeeper ==
  ASSUME FInv, CInv, Deeper
  PROVE  CInv'
<1>1. /\ level' = next /\ next' = <<>> /\ UNCHANGED <<loaders, entities, field>>
  BY DEF Deeper
<1>2. DOMAIN next' = {}
  BY <1>1
<1>3. Different(level)' /\ Different(next)' /\ Apart(level, next)' /\ LoadersDiffer(loaders)'
  BY <1>1, <1>2 DEF CInv, Different, Apart
<1>4. Unread'
  <2> SUFFICES ASSUME NEW o \in Ids, NEW r \in Relations, Waits(o, r)'
               PROVE  field[o][r] = <<>>
    BY <1>1 DEF Unread, Ids
  <2>1. Waits(o, r)
    BY <1>1, <1>2 DEF Waits
  <2>2. QED
    BY <2>1 DEF CInv, Unread
<1>5. Counted'
  BY <1>1 DEF CInv, Counted, HeldEqually, Ids
<1>6. QED
  BY <1>3, <1>4, <1>5 DEF CInv

LEMMA CNotItsEntity ==
  ASSUME FInv, CInv, NotItsEntity
  PROVE  CInv'
<1>1. /\ LoaderCalled /\ NextTurn /\ UNCHANGED <<loaders, entities, field, level, next>> /\ Types
  BY DEF NotItsEntity, FInv, IInv
<1>2. Ids' = Ids
  BY <1>1 DEF Ids
<1>3. Unread'
  <2> SUFFICES ASSUME NEW o \in Ids, NEW r \in Relations, Waits(o, r)'
               PROVE  field[o][r] = <<>>
    BY <1>1, <1>2 DEF Unread
  <2>1. Waits(o, r)
    BY <1>1, WaitedBefore
  <2>2. QED
    BY <2>1 DEF CInv, Unread
<1>4. Counted'
  BY <1>1, <1>2 DEF CInv, Counted, HeldEqually
<1>5. QED
  BY <1>1, <1>3, <1>4 DEF CInv, Different, Apart, LoadersDiffer

LEMMA CNextKeeps == FInv /\ FInv' /\ CInv /\ [Next]_vars => CInv'
<1> SUFFICES ASSUME FInv, FInv', CInv, [Next]_vars PROVE CInv'
  OBVIOUS
<1>1. ASSUME NEW T \in Tables, NEW rows \in SUBSET {v \in db : v.table = T}, Query(T, rows)
      PROVE  CInv'
  BY <1>1, CQuery
<1>2. CASE NotItsEntity
  BY <1>2, CNotItsEntity
<1>3. CASE LoadCached
  BY <1>3, CLoadCached
<1>4. CASE LoadUncached
  BY <1>4, CLoadUncached
<1>5. CASE Deeper
  BY <1>5, CDeeper
<1>6. ASSUME UNCHANGED <<loaders, entities, field, level, next, at, turn>>
      PROVE  CInv'
  <2>1. Unread' /\ Counted'
    BY <1>6 DEF CInv, Unread, Waits, Counted, HeldEqually, Ids
  <2>2. QED
    BY <1>6, <2>1 DEF CInv, Different, Apart, LoadersDiffer
<1>7. CASE LoadFails \/ NothingLater
  BY <1>6, <1>7 DEF LoadFails, NothingLater
<1>8. ASSUME NEW new, Write(new) PROVE CInv'
  BY <1>6, <1>8 DEF Write
<1>9. CASE UNCHANGED vars
  BY <1>6, <1>9 DEF vars
<1>10. QED
  BY <1>1, <1>2, <1>3, <1>4, <1>5, <1>7, <1>8, <1>9 DEF Next, Step, Load

\* Queries name no relation twice.
NoLoaderTwice == \A s \in Scenarios : \A list \in s.loaders : LoadersDiffer(list)

LEMMA CInit ==
  ASSUME NoLoaderTwice, Init
  PROVE  CInv
<1>1. LoadersDiffer(loaders)
  BY DEF Init, NoLoaderTwice
<1>2. DOMAIN level = {} /\ DOMAIN next = {} /\ Ids = {}
  BY DEF Init, Ids
<1>3. QED
  BY <1>1, <1>2 DEF CInv, Different, Apart, Unread, Counted

\* A field holds an entity once, or, for a list, once for each relation that
\* finds it by the same key (scope_cache.go:69-78, db_ctx.go:177-190,
\* table.tgo:409-416), if the query names no relation twice: every loader gets
\* every entity once, as the lists of entities to include have none in common.
THEOREM HeldAsOftenAsFiled ==
  ASSUME NoLoaderTwice
  PROVE  Spec => []HeldOncePerRelation
<1>1. FInv /\ CInv => HeldOncePerRelation
  <2> SUFFICES ASSUME FInv, CInv, NEW o \in Ids, NEW r \in Relations, NEW p \in ToSet(field[o][r])
               PROVE  Times(field[o][r], p) =
                        IF r.card = "OneToMany" THEN Cardinality(Sharing(r)) ELSE 1
    BY DEF HeldOncePerRelation, Times
  <2>1. CASE r.card = "OneToMany"
    BY <2>1 DEF CInv, Counted, HeldEqually
  <2>2. CASE r.card # "OneToMany"
    <3> DEFINE s == field[o][r]
    <3>1. s \in Seq(Nat) /\ Len(s) <= 1
      <4>1. field \in [1..Len(field) -> [Relations -> Seq(Nat)]] /\ o \in 1..Len(field)
        BY LenProperties DEF FInv, FieldTypes, Ids
      <4>2. QED
        BY <2>2, <4>1 DEF FInv, HeldRefer, HoldsOnly
    <3>2. p \in ToSet(s)
      OBVIOUS
    <3> HIDE DEF s
    <3>3. {i \in DOMAIN s : s[i] = p} = {1}
      <4>1. DOMAIN s = 1..Len(s) /\ Len(s) \in Nat
        BY <3>1, LenProperties
      <4>2. PICK i \in 1..Len(s) : s[i] = p
        BY <3>2, <4>1 DEF ToSet
      <4>3. i = 1 /\ \A j \in 1..Len(s) : j = 1
        BY <3>1, <4>1
      <4>4. QED
        BY <4>1, <4>2, <4>3
    <3>4. QED
      BY <2>2, <3>3, FS_Singleton DEF Times, s
  <2>3. QED
    BY <2>1, <2>2
<1>2. Init => CInv
  BY CInit
<1>3. FInv /\ FInv' /\ CInv /\ [Next]_vars => CInv'
  BY CNextKeeps
<1>4. QED
  BY <1>1, <1>2, <1>3, FieldInvariant, PTL DEF Spec
=============================================================================
