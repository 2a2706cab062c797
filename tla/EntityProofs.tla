---------------------------- MODULE EntityProofs ----------------------------
(***************************************************************************)
(* Theorems about the meta schema (MetaSchema) and about what is made of   *)
(* it: the patches of entities and the scope cache (Entities).             *)
(***************************************************************************)
EXTENDS Entities, WellFoundedInduction, SequenceTheorems, FiniteSetTheorems, TLAPS

\* A set of numbers has a least one.
LEMMA LeastNumber ==
  ASSUME NEW T \in SUBSET Nat, T # {}
  PROVE  \E x \in T : \A y \in T : x <= y
<1> DEFINE R == OpToRel(<, Nat)
<1>1. IsWellFoundedOn(R, Nat)
  BY NatLessThanWellFounded
<1>2. \A y, x \in Nat : y < x => <<y, x>> \in R
  BY DEF OpToRel
<1> HIDE DEF R
<1>3. \E x \in T : \A y \in T : ~(<<y, x>> \in R)
  BY <1>1, WFMin
<1>4. PICK x \in T : \A y \in T : ~(<<y, x>> \in R)
  BY <1>3
<1>5. ASSUME NEW y \in T PROVE x <= y
  <2>1. ~(y < x)
    BY <1>2, <1>4
  <2>2. x \in Nat /\ y \in Nat
    OBVIOUS
  <2>3. QED
    BY <2>1, <2>2
<1>6. QED
  BY <1>5

\* A set that has 0 and, with each number, the next, has every number.
LEMMA SetInduction ==
  ASSUME NEW S, 0 \in S, \A n \in Nat : n \in S => n + 1 \in S
  PROVE  Nat \subseteq S
<1> SUFFICES ASSUME Nat \ S # {} PROVE FALSE
  OBVIOUS
<1> DEFINE T == Nat \ S
<1>1. T \in SUBSET Nat /\ T # {}
  OBVIOUS
<1> HIDE DEF T
<1>2. PICK x \in T : \A y \in T : x <= y
  BY <1>1, LeastNumber
<1>3. x # 0 /\ x - 1 \in Nat /\ x - 1 \in S
  BY <1>2 DEF T
<1>4. QED
  BY <1>2, <1>3 DEF T

-----------------------------------------------------------------------------
(* The meta schema *)

SchemaType ==
  /\ typlist \in Seq(StructTypes) /\ registered \in Seq(StructTypes)
  /\ todo \in [Goroutines -> Seq(StructTypes)] /\ copy \in [Goroutines -> Seq(StructTypes)]
  /\ pc \in [Goroutines -> {"ready", "append"}]
  /\ \A g \in Goroutines : pc[g] = "append" => todo[g] # <<>>
  /\ once \in {"new", "running", "done"} /\ raced \in BOOLEAN
  /\ computing \in [by : Goroutines \cup {""}, list : Seq(StructTypes), next : Nat]

\* How far the computation is: the types before computing.next have a table.
Computation ==
  /\ once = "new" => built = NotBuilt /\ computing = NotComputing
  /\ once = "running" =>
       /\ computing.by \in Goroutines
       /\ computing.list \in Seq(StructTypes) /\ computing.next \in 1..Len(computing.list) + 1
       /\ DOMAIN built = {computing.list[i] : i \in 1..computing.next - 1}
  /\ once = "done" => computing = NotComputing

\* A table is computed from some list of types.
BuiltTables ==
  once # "new" =>
    \A t \in DOMAIN built : t \in StructTypes /\ \E types \in Seq(StructTypes) : built[t] = ComputeOf(t, types)

\* As long as nobody registered beside somebody else, the list of types is what
\* was registered; and it does not change after the computation began.
Orderly ==
  ~raced =>
    /\ typlist = registered
    /\ \A g, h \in Goroutines : pc[g] = "append" /\ pc[h] = "append" => g = h
    /\ \A g \in Goroutines : pc[g] = "append" => copy[g] = typlist
    /\ once # "new" =>
         /\ \A g \in Goroutines : pc[g] = "ready"
         /\ \A t \in DOMAIN built : built[t] = ComputeOf(t, typlist)
    /\ once = "running" => computing.list = typlist
    /\ once = "done" => DOMAIN built = ToSet(typlist)

SchemaInv == SchemaType /\ Computation /\ BuiltTables /\ Orderly

LEMMA NotComputingType ==
  NotComputing \in [by : Goroutines \cup {""}, list : Seq(StructTypes), next : Nat]
<1>1. <<>> \in Seq(StructTypes) /\ 1 \in Nat
  BY EmptySeq
<1>2. QED
  BY <1>1 DEF NotComputing

LEMMA InitSchemaInv == SchemaInit => SchemaInv
<1> SUFFICES ASSUME SchemaInit PROVE SchemaInv
  OBVIOUS
<1>1. SchemaType
  <2>1. todo \in [Goroutines -> Seq(StructTypes)]
    BY MetaSchemaAssumption DEF SchemaInit
  <2>2. NotComputing \in [by : Goroutines \cup {""}, list : Seq(StructTypes), next : Nat]
    BY NotComputingType
  <2>3. <<>> \in Seq(StructTypes)
    BY EmptySeq
  <2>4. QED
    BY <2>1, <2>2, <2>3 DEF SchemaInit, SchemaType
<1>2. Computation /\ BuiltTables
  BY DEF SchemaInit, Computation, BuiltTables
<1>3. Orderly
  BY DEF SchemaInit, Orderly
<1>4. QED
  BY <1>1, <1>2, <1>3 DEF SchemaInv

\* Something was built, once the computation began.
LEMMA BuiltIsNotNil == ASSUME SchemaInv PROVE (built = NotBuilt) <=> (once = "new")
<1>1. once # "new" => <<"", "">> \notin DOMAIN built
  BY MetaSchemaAssumption DEF SchemaInv, BuiltTables, StructTypes, StructsAmong
<1>2. <<"", "">> \in DOMAIN NotBuilt
  BY DEF NotBuilt
<1>3. QED
  BY <1>1, <1>2 DEF SchemaInv, Computation

LEMMA NobodyIsNoGoroutine == \A g \in Goroutines : NotComputing.by # g
  BY MetaSchemaAssumption DEF NotComputing

LEMMA NextSchemaInv == SchemaInv /\ [SchemaNext]_schemaVars => SchemaInv'
<1> SUFFICES ASSUME SchemaInv, [SchemaNext]_schemaVars PROVE SchemaInv'
  OBVIOUS
<1> USE DEF SchemaInv
<1>1. ASSUME NEW g \in Goroutines, RegisterReads(g) PROVE SchemaInv'
  <2>1. once = "new"
    BY <1>1, BuiltIsNotNil DEF RegisterReads
  <2>2. SchemaType'
    BY <1>1 DEF SchemaType, RegisterReads
  <2>3. Computation' /\ BuiltTables'
    BY <1>1 DEF Computation, BuiltTables, RegisterReads
  <2>4. Orderly'
    BY <1>1, <2>1 DEF Orderly, SchemaType, RegisterReads, Ready
  <2>5. QED
    BY <2>2, <2>3, <2>4
<1>2. ASSUME NEW g \in Goroutines, RegisterPanics(g) PROVE SchemaInv'
  <2>1. SchemaType'
    <3>1. todo[g] \in Seq(StructTypes) /\ todo[g] # <<>> /\ pc[g] # "append"
      BY <1>2 DEF SchemaType, RegisterPanics, Ready
    <3>2. Tail(todo[g]) \in Seq(StructTypes)
      BY <3>1, HeadTailProperties
    <3>3. QED
      BY <1>2, <3>1, <3>2 DEF SchemaType, RegisterPanics
  <2>2. Computation' /\ BuiltTables' /\ Orderly'
    BY <1>2 DEF Computation, BuiltTables, Orderly, RegisterPanics
  <2>3. QED
    BY <2>1, <2>2
<1>3. ASSUME NEW g \in Goroutines, RegisterWrites(g) PROVE SchemaInv'
  <2>1. /\ todo[g] \in Seq(StructTypes) /\ todo[g] # <<>> /\ copy[g] \in Seq(StructTypes)
        /\ pc[g] = "append" /\ registered \in Seq(StructTypes)
    BY <1>3 DEF SchemaType, RegisterWrites
  <2>2. Head(todo[g]) \in StructTypes /\ Tail(todo[g]) \in Seq(StructTypes)
    BY <2>1, HeadTailProperties
  <2>3. SchemaType'
    <3>1. typlist' \in Seq(StructTypes) /\ registered' \in Seq(StructTypes)
      BY <1>3, <2>1, <2>2, AppendProperties DEF RegisterWrites
    <3>2. pc' = [pc EXCEPT ![g] = "ready"] /\ todo' = [todo EXCEPT ![g] = Tail(todo[g])]
      BY <1>3 DEF RegisterWrites
    <3>3. QED
      BY <1>3, <2>2, <3>1, <3>2 DEF SchemaType, RegisterWrites
  <2>4. Computation' /\ BuiltTables'
    BY <1>3 DEF Computation, BuiltTables, RegisterWrites
  <2>5. Orderly'
    BY <1>3, <2>1 DEF Orderly, SchemaType, RegisterWrites
  <2>6. QED
    BY <2>3, <2>4, <2>5
<1>4. ASSUME NEW g \in Goroutines, ComputeStarts(g) PROVE SchemaInv'
  <2> DEFINE started == [by |-> g, list |-> typlist, next |-> 1]
  <2>e. computing' = started /\ built' = <<>> /\ DOMAIN built' = {}
    BY <1>4 DEF ComputeStarts
  <2>t. typlist \in Seq(StructTypes) /\ Len(typlist) \in Nat
    BY LenProperties DEF SchemaType
  <2>1. SchemaType'
    <3>1. started \in [by : Goroutines \cup {""}, list : Seq(StructTypes), next : Nat]
      BY <2>t
    <3>2. raced' \in BOOLEAN
      BY <1>4 DEF ComputeStarts
    <3>3. QED
      BY <1>4, <2>e, <3>1, <3>2 DEF SchemaType, ComputeStarts
  <2>2. Computation' /\ BuiltTables'
    BY <1>4, <2>e, <2>t DEF Computation, BuiltTables, ComputeStarts
  <2>3. Orderly'
    <3> SUFFICES ASSUME ~raced' PROVE Orderly'
      BY DEF Orderly
    <3>1. ~raced /\ ~(\E h \in Goroutines : pc[h] = "append")
      BY <1>4 DEF ComputeStarts
    <3>2. \A h \in Goroutines : pc[h] = "ready"
      BY <3>1 DEF SchemaType
    <3>3. computing'.list = typlist
      BY <2>e
    <3>4. typlist = registered
      BY <3>1 DEF Orderly
    <3>5. QED
      BY <1>4, <2>e, <3>2, <3>3, <3>4 DEF Orderly, ComputeStarts
  <2>4. QED
    BY <2>1, <2>2, <2>3
<1>5. ASSUME NEW g \in Goroutines, ComputeTable(g) PROVE SchemaInv'
  <2> DEFINE n == computing.next
             t == computing.list[n]
  <2>1. once = "running"
    BY <1>5, NobodyIsNoGoroutine DEF Computation, SchemaType, ComputeTable
  <2>2. /\ computing.list \in Seq(StructTypes) /\ n \in 1..Len(computing.list) /\ t \in StructTypes
        /\ DOMAIN built = {computing.list[i] : i \in 1..n - 1}
    BY <1>5, <2>1, LenProperties, ElementOfSeq DEF Computation, ComputeTable
  <2>3. /\ DOMAIN built' = {t} \cup DOMAIN built
        /\ \A x \in DOMAIN built' : built'[x] = IF x = t THEN ComputeOf(t, typlist) ELSE built[x]
    BY <1>5 DEF ComputeTable
  <2>4. computing' = [computing EXCEPT !.next = n + 1]
    BY <1>5 DEF ComputeTable
  <2>5. SchemaType'
    <3>1. computing' \in [by : Goroutines \cup {""}, list : Seq(StructTypes), next : Nat]
      <4>1. n + 1 \in Nat
        BY <2>2, LenProperties
      <4>2. QED
        BY <2>4, <4>1 DEF SchemaType
    <3>2. QED
      BY <1>5, <3>1 DEF SchemaType, ComputeTable
  <2>6. Computation'
    <3>1. /\ computing'.by = computing.by /\ computing'.list = computing.list
          /\ computing'.next = n + 1
      BY <2>4 DEF SchemaType
    <3>2. n + 1 \in 1..Len(computing.list) + 1 /\ computing.by \in Goroutines
      BY <2>1, <2>2, LenProperties DEF Computation
    <3>3. {t} \cup {computing.list[i] : i \in 1..n - 1} = {computing.list[i] : i \in 1..(n + 1) - 1}
      BY <2>2, LenProperties
    <3>4. DOMAIN built' = {computing'.list[i] : i \in 1..computing'.next - 1}
      BY <2>2, <2>3, <3>1, <3>3
    <3>5. once' = "running"
      BY <1>5, <2>1 DEF ComputeTable
    <3>6. QED
      BY <2>2, <3>1, <3>2, <3>4, <3>5 DEF Computation
  <2>7. BuiltTables'
    <3>1. once # "new" /\ typlist \in Seq(StructTypes)
      BY <2>1 DEF SchemaType
    <3>2. ASSUME NEW x \in DOMAIN built'
          PROVE  x \in StructTypes /\ \E types \in Seq(StructTypes) : built'[x] = ComputeOf(x, types)
      <4>1. CASE x = t
        BY <2>2, <2>3, <3>1, <4>1
      <4>2. CASE x # t
        BY <2>3, <3>1, <4>2 DEF BuiltTables
      <4>3. QED
        BY <4>1, <4>2
    <3>3. QED
      BY <3>2 DEF BuiltTables
  <2>8. Orderly'
    BY <1>5, <2>1, <2>2, <2>3, <2>4 DEF Orderly, ComputeTable
  <2>9. QED
    BY <2>5, <2>6, <2>7, <2>8
<1>6. ASSUME NEW g \in Goroutines, ComputeEnds(g) PROVE SchemaInv'
  <2>1. once = "running"
    BY <1>6, NobodyIsNoGoroutine DEF Computation, SchemaType, ComputeEnds
  <2>2. SchemaType' /\ Computation' /\ BuiltTables'
    <3>1. NotComputing \in [by : Goroutines \cup {""}, list : Seq(StructTypes), next : Nat]
      BY NotComputingType
    <3>2. QED
      BY <1>6, <2>1, <3>1 DEF SchemaType, Computation, BuiltTables, ComputeEnds
  <2>3. DOMAIN built = ToSet(computing.list)
    <3>1. computing.next = Len(computing.list) + 1
      BY <1>6, <2>1, LenProperties DEF Computation, ComputeEnds
    <3>2. QED
      BY <2>1, <3>1, LenProperties DEF Computation, ToSet
  <2>4. Orderly'
    BY <1>6, <2>1, <2>3 DEF Orderly, ComputeEnds
  <2>5. QED
    BY <2>2, <2>4
<1>7. ASSUME UNCHANGED schemaVars PROVE SchemaInv'
  BY <1>7 DEF SchemaType, Computation, BuiltTables, Orderly, schemaVars
<1>8. QED
  BY <1>1, <1>2, <1>3, <1>4, <1>5, <1>6, <1>7 DEF SchemaNext


\* What is done with entities leaves the schema alone.
LEMMA NextIsSchemaNext == [Next]_vars => [SchemaNext]_schemaVars
<1> SUFFICES ASSUME [Next]_vars PROVE [SchemaNext]_schemaVars
  OBVIOUS
<1>1. ASSUME NEW e \in E,
             \/ \E f \in FieldNames(e), v \in Values : Assigns(e, f, v)
             \/ Insert(e) \/ Update(e) \/ Delete(e) \/ AddObject(e) \/ RemoveObject(e)
      PROVE  UNCHANGED schemaVars
  <2>1. Count
    BY <1>1 DEF Assigns, Insert, Update, Delete, AddObject, RemoveObject
  <2>2. QED
    BY <2>1 DEF Count
<1>2. UNCHANGED vars => UNCHANGED schemaVars
  BY DEF vars
<1>3. QED
  BY <1>1, <1>2 DEF Next

LEMMA SchemaInvariant == Spec => []SchemaInv
<1>1. Init => SchemaInv
  BY InitSchemaInv DEF Init
<1>2. SchemaInv /\ [Next]_vars => SchemaInv'
  BY NextSchemaInv, NextIsSchemaNext
<1>3. QED
  BY <1>1, <1>2, PTL DEF Spec

\* Whatever types goroutines register and in whatever order: unless they raced,
\* each type has the table that follows from all of them (meta.go:371-386).
THEOREM TablesOfRegisteredTypes == Spec => []RegisteredTypesHaveTables
<1>1. SchemaInv => RegisteredTypesHaveTables
  BY DEF SchemaInv, SchemaType, Orderly, RegisteredTypesHaveTables, ToSet
<1>2. QED
  BY <1>1, SchemaInvariant, PTL

-----------------------------------------------------------------------------
(* What Kept leaves of a sequence *)

\* f[i] is what is kept of the first i elements of s, if those in T are.
IsKept(f, s, T, n) ==
  /\ f = [i \in 0..n |-> f[i]]
  /\ \A i \in 0..n : f[i] = IF i = 0 THEN <<>> ELSE IF s[i] \in T THEN Append(f[i - 1], s[i]) ELSE f[i - 1]

LEMMA KeptExists ==
  ASSUME NEW s, NEW T, NEW n \in Nat
  PROVE  \E f : IsKept(f, s, T, n)
<1> DEFINE S == {m \in Nat : \E f : IsKept(f, s, T, m)}
<1>1. 0 \in S
  <2> DEFINE f == [i \in 0..0 |-> <<>>]
  <2>1. IsKept(f, s, T, 0)
    BY DEF IsKept
  <2>2. QED
    BY <2>1
<1>2. ASSUME NEW m \in Nat, m \in S PROVE m + 1 \in S
  <2>1. PICK f : IsKept(f, s, T, m)
    BY <1>2
  <2> DEFINE last == IF s[m + 1] \in T THEN Append(f[m], s[m + 1]) ELSE f[m]
             g == [i \in 0..m + 1 |-> IF i = m + 1 THEN last ELSE f[i]]
  <2>2. g = [i \in 0..m + 1 |-> g[i]]
    OBVIOUS
  <2>3. \A i \in 0..m : g[i] = f[i]
    OBVIOUS
  <2>4. g[m + 1] = last
    OBVIOUS
  <2> HIDE DEF g
  <2>5. ASSUME NEW i \in 0..m + 1
        PROVE  g[i] = IF i = 0 THEN <<>> ELSE IF s[i] \in T THEN Append(g[i - 1], s[i]) ELSE g[i - 1]
    <3>1. CASE i = m + 1
      <4>1. i # 0 /\ i - 1 = m /\ g[i - 1] = f[m]
        BY <2>3, <3>1
      <4>2. QED
        BY <2>4, <3>1, <4>1
    <3>2. CASE i # m + 1
      <4>1. i \in 0..m /\ (i # 0 => i - 1 \in 0..m)
        BY <3>2
      <4>2. QED
        BY <2>1, <2>3, <4>1 DEF IsKept
    <3>3. QED
      BY <3>1, <3>2
  <2>6. IsKept(g, s, T, m + 1)
    BY <2>2, <2>5 DEF IsKept
  <2>7. QED
    BY <2>6
<1> HIDE DEF S
<1>3. QED
  BY <1>1, <1>2, SetInduction DEF S

LEMMA ToSetAppend ==
  ASSUME NEW R, NEW s \in Seq(R), NEW x \in R
  PROVE  ToSet(Append(s, x)) = ToSet(s) \cup {x}
<1>1. /\ Len(s) \in Nat /\ DOMAIN s = 1..Len(s)
      /\ DOMAIN Append(s, x) = 1..Len(s) + 1
      /\ \A i \in 1..Len(s) : Append(s, x)[i] = s[i]
      /\ Append(s, x)[Len(s) + 1] = x
  BY AppendProperties, LenProperties
<1>2. QED
  BY <1>1 DEF ToSet

\* It is a sequence of just those elements of s that are in T.
LEMMA KeptElements ==
  ASSUME NEW R, NEW s \in Seq(R), NEW T, NEW f, IsKept(f, s, T, Len(s))
  PROVE  f[Len(s)] \in Seq(R) /\ ToSet(f[Len(s)]) = ToSet(s) \cap T
<1> DEFINE upTo(i) == {s[j] : j \in 1..i} \cap T
           S == {i \in Nat : i <= Len(s) => f[i] \in Seq(R) /\ ToSet(f[i]) = upTo(i)}
<1>1. 0 \in S
  <2>1. f[0] = <<>>
    BY LenProperties DEF IsKept
  <2>2. <<>> \in Seq(R) /\ ToSet(<<>>) = {}
    BY EmptySeq DEF ToSet
  <2>3. upTo(0) = {}
    OBVIOUS
  <2>4. QED
    BY <2>1, <2>2, <2>3
<1>2. ASSUME NEW i \in Nat, i \in S PROVE i + 1 \in S
  <2> SUFFICES ASSUME i + 1 <= Len(s)
               PROVE  f[i + 1] \in Seq(R) /\ ToSet(f[i + 1]) = upTo(i + 1)
    OBVIOUS
  <2>1. f[i + 1] = IF s[i + 1] \in T THEN Append(f[i], s[i + 1]) ELSE f[i]
    <3>1. i + 1 \in 0..Len(s) /\ i + 1 # 0 /\ (i + 1) - 1 = i
      BY LenProperties
    <3>2. QED
      BY <3>1 DEF IsKept
  <2>2. f[i] \in Seq(R) /\ ToSet(f[i]) = upTo(i) /\ s[i + 1] \in R
    BY <1>2, LenProperties, ElementOfSeq
  <2>3. {s[j] : j \in 1..i + 1} = {s[j] : j \in 1..i} \cup {s[i + 1]}
    OBVIOUS
  <2>4. CASE s[i + 1] \in T
    <3>1. Append(f[i], s[i + 1]) \in Seq(R)
      BY <2>2, AppendProperties
    <3>2. ToSet(Append(f[i], s[i + 1])) = ToSet(f[i]) \cup {s[i + 1]}
      BY <2>2, ToSetAppend
    <3> HIDE DEF S
    <3>3. QED
      BY <2>1, <2>2, <2>3, <2>4, <3>1, <3>2
  <2>5. CASE s[i + 1] \notin T
    BY <2>1, <2>2, <2>3, <2>5
  <2>6. QED
    BY <2>4, <2>5
<1>3. Len(s) \in S
  <2> HIDE DEF S
  <2>1. QED
    BY <1>1, <1>2, SetInduction, LenProperties
<1>4. upTo(Len(s)) = ToSet(s) \cap T
  BY LenProperties DEF ToSet
<1>5. QED
  BY <1>3, <1>4

\* What FieldsByFunc and the loops over columns leave.
LEMMA KeptIs ==
  ASSUME NEW R, NEW s \in Seq(R), NEW T
  PROVE  Kept(s, T) \in Seq(R) /\ ToSet(Kept(s, T)) = ToSet(s) \cap T
<1> DEFINE Satisfies(f) ==
             f = [i \in 0..Len(s) |->
                    IF i = 0 THEN <<>> ELSE IF s[i] \in T THEN Append(f[i - 1], s[i]) ELSE f[i - 1]]
           kept == CHOOSE f : Satisfies(f)
<1>1. \A f : Satisfies(f) <=> IsKept(f, s, T, Len(s))
  <2>1. ASSUME NEW f, Satisfies(f) PROVE IsKept(f, s, T, Len(s))
    <3>1. f = [i \in 0..Len(s) |-> f[i]]
      BY <2>1
    <3>2. \A i \in 0..Len(s) :
            f[i] = IF i = 0 THEN <<>> ELSE IF s[i] \in T THEN Append(f[i - 1], s[i]) ELSE f[i - 1]
      BY <2>1
    <3>3. QED
      BY <3>1, <3>2 DEF IsKept
  <2>2. ASSUME NEW f, IsKept(f, s, T, Len(s)) PROVE Satisfies(f)
    BY <2>2 DEF IsKept
  <2>3. QED
    BY <2>1, <2>2
<1>2. Kept(s, T) = kept[Len(s)]
  BY DEF Kept
<1> HIDE DEF Satisfies
<1>3. \E f : Satisfies(f)
  BY <1>1, KeptExists, LenProperties
<1>4. IsKept(kept, s, T, Len(s))
  BY <1>1, <1>3
<1> HIDE DEF kept
<1>5. QED
  BY <1>2, <1>4, KeptElements

-----------------------------------------------------------------------------
(* The scope cache *)

\* As RowKeyOf and RemovedKeys, if the entity had the values v.
RowKeyWith(e, v, cs) ==
  [c \in {cs[i].column : i \in DOMAIN cs} |->
     v[cs[SelectLastInSeq(cs, LAMBDA m : m.column = c)].field]]

KeysWith(e, v) ==
  {<<c, Table(e).name, key>> : c \in {"None", "OneToMany", "ManyToOne"},
     key \in {RowKeyWith(e, v, r.key) : r \in Table(e).references}
               \cup {RowKeyWith(e, v, PkColumns(e))}}

\* An entity is filed only in the lists of one-to-many relations.
FiledLists ==
  /\ DOMAIN filed = E /\ DOMAIN added = E
  /\ \A e \in E : \A k \in filed[e] : k[1] = "OneToMany"

\* What is under a key was added with values that give this key.
CachedWasAdded ==
  \A k \in DOMAIN data :
    /\ data[k] \in Seq(E)
    /\ \A e \in ToSet(data[k]) : Usable(e) /\ \E v \in added[e] : k \in KeysWith(e, v)

CacheInv == FiledLists /\ CachedWasAdded /\ ListedUntilRemoved

LEMMA FiniteImage ==
  ASSUME NEW S, IsFiniteSet(S), NEW f, DOMAIN f = S
  PROVE  IsFiniteSet({f[x] : x \in S})
<1> DEFINE T == {f[x] : x \in S}
           g == [x \in S |-> f[x]]
<1>1. g \in Surjection(S, T)
  BY DEF Surjection
<1>2. QED
  BY <1>1, FS_Surjection

\* A table has finitely many reference keys.
LEMMA ReferencesFinite ==
  ASSUME NEW t \in StructTypes, NEW types \in Seq(StructTypes)
  PROVE  IsFiniteSet(ComputeOf(t, types).references)
<1>1. "reflect" \in Modes
  BY DEF Modes, Kind
<1> DEFINE Of(i) == {[by |-> <<i, f.name>>, card |-> CardinalityOf("reflect", f), key |-> KeyColumns(t, f)] :
                       f \in ReferringFields(types[i], t)}
<1>2. ASSUME NEW i \in DOMAIN types PROVE IsFiniteSet(Of(i))
  <2>1. types[i] \in StructTypes
    BY LenProperties, ElementOfSeq
  <2> DEFINE fs == fields["reflect"][types[i]]
             all == ReferringFields(types[i], t)
             key == [f \in all |->
                       [by |-> <<i, f.name>>, card |-> CardinalityOf("reflect", f), key |-> KeyColumns(t, f)]]
  <2>2. fs \in Seq(ToSet(fs))
    BY <1>1, <2>1, EmbeddingEnds
  <2>3. all \in SUBSET {fs[j] : j \in DOMAIN fs}
    BY DEF ReferringFields, ToSet
  <2> HIDE DEF fs
  <2>4. Len(fs) \in Nat /\ DOMAIN fs = 1..Len(fs)
    BY <2>2, LenProperties
  <2>5. IsFiniteSet({fs[j] : j \in DOMAIN fs})
    <3>1. IsFiniteSet(DOMAIN fs)
      BY <2>4, FS_Interval
    <3>2. QED
      BY <3>1, FiniteImage
  <2>6. IsFiniteSet(all)
    BY <2>3, <2>5, FS_Subset
  <2>7. Of(i) = {key[f] : f \in all} /\ DOMAIN key = all
    OBVIOUS
  <2> HIDE DEF all, key
  <2>8. QED
    BY <2>6, <2>7, FiniteImage
<1>3. IsFiniteSet({Of(i) : i \in DOMAIN types})
  <2> DEFINE of == [i \in DOMAIN types |-> Of(i)]
  <2>1. IsFiniteSet(DOMAIN types)
    BY LenProperties, FS_Interval
  <2>2. {Of(i) : i \in DOMAIN types} = {of[i] : i \in DOMAIN types} /\ DOMAIN of = DOMAIN types
    OBVIOUS
  <2> HIDE DEF of, Of
  <2>3. QED
    BY <2>1, <2>2, FiniteImage
<1>4. IsFiniteSet(UNION {Of(i) : i \in DOMAIN types})
  <2> HIDE DEF Of
  <2>1. \A T \in {Of(i) : i \in DOMAIN types} : IsFiniteSet(T)
    BY <1>2
  <2>2. QED
    BY <1>3, <2>1, FS_UNION
<1>5. ComputeOf(t, types).references = UNION {Of(i) : i \in DOMAIN types}
  BY DEF ComputeOf, References
<1>6. QED
  BY <1>4, <1>5

\* Of a usable entity, a one-to-many key has at least one relation, and a number of them.
LEMMA TimesPositive ==
  ASSUME SchemaInv, NEW e \in E, Usable(e), NEW k \in CacheKeysOf(e, "OneToMany")
  PROVE  Cardinality({r \in ReferenceKeysOf(e, "OneToMany") : CacheKey(e, "OneToMany", r.key) = k}) \in Nat \ {0}
<1> DEFINE refs == {x \in Table(e).references : "OneToMany" \in {x.card, "*"}}
           key == [r \in refs |-> [by |-> r.by, key |-> RowKeyOf(e, r.key)]]
           those == {r \in ReferenceKeysOf(e, "OneToMany") : CacheKey(e, "OneToMany", r.key) = k}
<1>1. IsFiniteSet(Table(e).references)
  <2>1. TypeOf[e] \in DOMAIN built /\ once = "done"
    BY DEF Usable, Loadable
  <2>2. /\ TypeOf[e] \in StructTypes
        /\ \E types \in Seq(StructTypes) : built[TypeOf[e]] = ComputeOf(TypeOf[e], types)
    BY <2>1 DEF SchemaInv, BuiltTables
  <2>3. QED
    BY <2>2, ReferencesFinite DEF Table
<1>2. IsFiniteSet(refs)
  BY <1>1, FS_Subset
<1>3. ReferenceKeysOf(e, "OneToMany") = {key[r] : r \in refs} /\ DOMAIN key = refs
  BY DEF ReferenceKeysOf
<1>4. IsFiniteSet(ReferenceKeysOf(e, "OneToMany"))
  <2> HIDE DEF refs, key
  <2>1. QED
    BY <1>2, <1>3, FiniteImage
<1>5. IsFiniteSet(those) /\ those # {}
  BY <1>4, FS_Subset DEF CacheKeysOf
<1>6. QED
  <2> HIDE DEF those
  <2>1. Cardinality(those) \in Nat /\ Cardinality(those) # 0
    BY <1>5, FS_CardinalityType, FS_EmptySet
  <2>2. QED
    BY <2>1 DEF those

LEMMA RemovedKeysAreWith ==
  ASSUME NEW e \in E
  PROVE  RemovedKeys(e) = KeysWith(e, value[e])
<1>1. \A cs : RowKeyOf(e, cs) = RowKeyWith(e, value[e], cs)
  BY DEF RowKeyOf, RowKeyWith
<1>2. {r.key : r \in ReferenceKeysOf(e, "*")} = {RowKeyWith(e, value[e], r.key) : r \in Table(e).references}
  <2>1. ReferenceKeysOf(e, "*") = {[by |-> r.by, key |-> RowKeyOf(e, r.key)] : r \in Table(e).references}
    BY DEF ReferenceKeysOf
  <2> DEFINE key(r) == RowKeyOf(e, r.key)
             entry(r) == [by |-> r.by, key |-> key(r)]
  <2> HIDE DEF key
  <2>2. ReferenceKeysOf(e, "*") = {entry(r) : r \in Table(e).references} /\ \A r : entry(r).key = key(r)
    BY <2>1 DEF key
  <2> HIDE DEF entry
  <2>3. {r.key : r \in ReferenceKeysOf(e, "*")} = {key(r) : r \in Table(e).references}
    BY <2>2
  <2>4. QED
    BY <1>1, <2>3 DEF key
<1>3. PrimaryKeyOf(e) = RowKeyWith(e, value[e], PkColumns(e))
  BY <1>1 DEF PrimaryKeyOf
<1>4. QED
  BY <1>2, <1>3 DEF RemovedKeys, KeysWith, CacheKey

\* What an entity is added under, and removed from.
LEMMA AddedKeys ==
  ASSUME NEW e \in E
  PROVE  /\ CacheKeysOf(e, "OneToMany") \subseteq KeysWith(e, value[e])
         /\ CacheKeysOf(e, "ManyToOne") \subseteq KeysWith(e, value[e])
         /\ CacheKey(e, "None", PrimaryKeyOf(e)) \in KeysWith(e, value[e])
<1>1. \A c : \A r \in ReferenceKeysOf(e, c) : \E q \in ReferenceKeysOf(e, "*") : q.key = r.key
  BY DEF ReferenceKeysOf
<1>2. \A c \in {"OneToMany", "ManyToOne"} : CacheKeysOf(e, c) \subseteq RemovedKeys(e)
  BY <1>1 DEF CacheKeysOf, RemovedKeys
<1>3. CacheKey(e, "None", PrimaryKeyOf(e)) \in RemovedKeys(e)
  BY DEF RemovedKeys
<1>4. QED
  BY <1>2, <1>3, RemovedKeysAreWith

\* The keys of an entity that can be used do not change any more.
LEMMA UsableStays ==
  ASSUME SchemaInv, [SchemaNext]_schemaVars, NEW e \in E, Usable(e)
  PROVE  Usable(e)' /\ built' = built
<1>1. once = "done" /\ computing = NotComputing
  BY DEF Usable, Loadable, SchemaInv, Computation
<1>2. once' = "done" /\ built' = built
  BY <1>1, NobodyIsNoGoroutine
  DEF SchemaNext, RegisterReads, RegisterPanics, RegisterWrites, ComputeStarts, ComputeTable, ComputeEnds, schemaVars
<1>3. QED
  BY <1>2 DEF Usable, Loadable

LEMMA KeysStay ==
  ASSUME NEW e \in E, NEW v, built' = built
  PROVE  KeysWith(e, v)' = KeysWith(e, v)
BY DEF KeysWith, PkColumns, Table

\* The end of a list that an entity is added to.
LEMMA ListedAgain ==
  ASSUME NEW s \in Seq(E), NEW e \in E, NEW n \in Nat
  PROVE  /\ s \o [i \in 1..n |-> e] \in Seq(E)
         /\ ToSet(s \o [i \in 1..n |-> e]) = ToSet(s) \cup (IF n = 0 THEN {} ELSE {e})
<1> DEFINE t == [i \in 1..n |-> e]
<1>1. t \in Seq(E) /\ Len(t) = n /\ \A i \in 1..n : t[i] = e
  BY SeqDef
<1> HIDE DEF t
<1>2. /\ s \o t \in Seq(E) /\ Len(s \o t) = Len(s) + n
      /\ \A i \in 1..Len(s) + n : (s \o t)[i] = IF i <= Len(s) THEN s[i] ELSE t[i - Len(s)]
  BY <1>1, ConcatProperties
<1>3. Len(s) \in Nat /\ DOMAIN s = 1..Len(s) /\ DOMAIN (s \o t) = 1..Len(s) + n
  BY <1>2, LenProperties
<1>4. ASSUME NEW x \in ToSet(s \o t) PROVE x \in ToSet(s) \cup (IF n = 0 THEN {} ELSE {e})
  <2>1. PICK i \in 1..Len(s) + n : x = (s \o t)[i]
    BY <1>3 DEF ToSet
  <2>2. i <= Len(s) => x \in ToSet(s)
    BY <1>2, <1>3, <2>1 DEF ToSet
  <2>3. i > Len(s) => i - Len(s) \in 1..n /\ n # 0 /\ x = t[i - Len(s)]
    BY <1>2, <1>3, <2>1
  <2>4. QED
    BY <1>1, <1>3, <2>2, <2>3
<1>5. ToSet(s) \subseteq ToSet(s \o t)
  BY <1>2, <1>3 DEF ToSet
<1>6. ASSUME n # 0 PROVE e \in ToSet(s \o t)
  <2>1. Len(s) + 1 \in 1..Len(s) + n /\ (Len(s) + 1) - Len(s) = 1 /\ 1 \in 1..n
    BY <1>3, <1>6
  <2>2. (s \o t)[Len(s) + 1] = e
    BY <1>1, <1>2, <1>3, <2>1
  <2>3. QED
    BY <1>3, <2>1, <2>2 DEF ToSet
<1>7. QED
  BY <1>2, <1>4, <1>5, <1>6 DEF t

LEMMA InitCacheInv == Init => CacheInv
<1> SUFFICES ASSUME Init PROVE CacheInv
  OBVIOUS
<1>1. DOMAIN data = {} /\ \A e \in E : filed[e] = {}
  <2>1. DOMAIN <<>> = {}
    OBVIOUS
  <2>2. QED
    BY <2>1 DEF Init
<1>2. QED
  BY <1>1 DEF Init, CacheInv, FiledLists, CachedWasAdded, ListedUntilRemoved

LEMMA AddObjectCacheInv ==
  ASSUME SchemaInv, CacheInv, NEW e \in E, AddObject(e)
  PROVE  CacheInv'
<1> DEFINE ofMany == CacheKeysOf(e, "OneToMany")
           ofOne == CacheKeysOf(e, "ManyToOne") \cup {CacheKey(e, "None", PrimaryKeyOf(e))}
           times(k) == Cardinality({r \in ReferenceKeysOf(e, "OneToMany") : CacheKey(e, "OneToMany", r.key) = k})
           longer(k) == GetObject(k) \o [i \in 1..times(k) |-> e]
<1>1. /\ Usable(e)
      /\ added' = [added EXCEPT ![e] = @ \cup {value[e]}]
      /\ filed' = [filed EXCEPT ![e] = @ \cup ofMany]
      /\ orphaned' = orphaned \ ({e} \X ofMany)
  BY DEF AddObject
<1>2. data' = [k \in ofMany \cup ofOne \cup DOMAIN data |->
                 IF k \in ofMany THEN longer(k) ELSE IF k \in ofOne THEN <<e>> ELSE data[k]]
  BY DEF AddObject
<1>3. (\A k \in ofMany : k[1] = "OneToMany") /\ (\A k \in ofOne : k[1] # "OneToMany")
  BY DEF CacheKeysOf, CacheKey
<1>4. ofMany \cup ofOne \subseteq KeysWith(e, value[e])
  BY AddedKeys
<1>5. \A k \in ofMany : times(k) \in Nat \ {0}
  BY <1>1, TimesPositive
<1>6. UNCHANGED schemaVars
  BY DEF AddObject, Count
<1>7. /\ \A o \in E : \A v : KeysWith(o, v)' = KeysWith(o, v)
      /\ \A o \in E : Usable(o)' <=> Usable(o)
  <2>1. built' = built /\ once' = once
    BY <1>6 DEF schemaVars
  <2>2. \A o \in E : \A v : KeysWith(o, v)' = KeysWith(o, v)
    BY <2>1, KeysStay
  <2>3. QED
    BY <2>1, <2>2 DEF Usable, Loadable
<1>8. \A k : GetObject(k) \in Seq(E)
  BY EmptySeq DEF CacheInv, CachedWasAdded, GetObject, HasObject
<1>9. \A k \in ofMany : longer(k) \in Seq(E) /\ ToSet(longer(k)) = ToSet(GetObject(k)) \cup {e}
  BY <1>5, <1>8, ListedAgain
<1>10. <<e>> \in Seq(E) /\ ToSet(<<e>>) = {e}
  <2>1. <<e>> \in Seq(E) /\ DOMAIN <<e>> = 1..1 /\ <<e>>[1] = e
    OBVIOUS
  <2>2. QED
    BY <2>1 DEF ToSet
<1> HIDE DEF ofMany, ofOne, longer
<1>11. /\ \A k \in ofMany : data'[k] = longer(k)
       /\ \A k \in ofOne \ ofMany : data'[k] = <<e>>
       /\ \A k \in DOMAIN data \ (ofMany \cup ofOne) : data'[k] = data[k]
       /\ DOMAIN data' = ofMany \cup ofOne \cup DOMAIN data
  BY <1>2
<1>12. FiledLists'
  BY <1>1, <1>3 DEF CacheInv, FiledLists
<1>13. /\ value[e] \in added'[e] /\ \A o \in E : added[o] \subseteq added'[o]
       /\ \A o \in E : filed'[o] = IF o = e THEN filed[o] \cup ofMany ELSE filed[o]
  BY <1>1 DEF CacheInv, FiledLists
<1>14. CachedWasAdded'
  <2> SUFFICES ASSUME NEW k \in DOMAIN data'
               PROVE  /\ data'[k] \in Seq(E)
                      /\ \A o \in ToSet(data'[k]) : Usable(o)' /\ \E v \in added'[o] : k \in KeysWith(o, v)'
    BY DEF CachedWasAdded
  <2>1. ASSUME NEW o \in ToSet(GetObject(k))
        PROVE  o \in E /\ Usable(o)' /\ \E v \in added'[o] : k \in KeysWith(o, v)'
    <3>1. k \in DOMAIN data /\ o \in ToSet(data[k])
      BY <2>1 DEF GetObject, HasObject, ToSet
    <3>2. o \in E
      BY <1>8, <2>1, LenProperties DEF ToSet
    <3>3. PICK v \in added[o] : k \in KeysWith(o, v)
      BY <3>1 DEF CacheInv, CachedWasAdded
    <3>4. Usable(o)
      BY <3>1 DEF CacheInv, CachedWasAdded
    <3>5. QED
      BY <1>7, <1>13, <3>2, <3>3, <3>4
  <2>2. k \in ofMany \cup ofOne => Usable(e)' /\ \E v \in added'[e] : k \in KeysWith(e, v)'
    BY <1>1, <1>4, <1>7, <1>13 DEF ofMany, ofOne
  <2>3. CASE k \in ofMany
    BY <1>9, <1>11, <2>1, <2>2, <2>3
  <2>4. CASE k \in ofOne \ ofMany
    BY <1>10, <1>11, <2>2, <2>4
  <2>5. CASE k \in DOMAIN data \ (ofMany \cup ofOne)
    <3>1. data'[k] = GetObject(k)
      BY <1>11, <2>5 DEF GetObject, HasObject
    <3>2. QED
      BY <1>8, <2>1, <3>1
  <2>6. QED
    BY <1>11, <2>3, <2>4, <2>5
<1>15. ListedUntilRemoved'
  <2> SUFFICES ASSUME NEW o \in E, NEW k \in filed'[o]
               PROVE  o \in ToSet(GetObject(k))' <=> <<o, k>> \notin orphaned'
    BY DEF ListedUntilRemoved
  <2>1. k \in filed[o] => (o \in ToSet(GetObject(k)) <=> <<o, k>> \notin orphaned)
    BY DEF CacheInv, ListedUntilRemoved
  <2>2. ToSet(GetObject(k))' = ToSet(GetObject(k)')
    BY DEF ToSet
  <2>3. CASE k \in ofMany
    <3>1. GetObject(k)' = longer(k)
      BY <1>11, <2>3 DEF GetObject, HasObject
    <3>2. QED
      BY <1>1, <1>9, <1>13, <2>1, <2>2, <2>3, <3>1 DEF ofMany
  <2>4. CASE k \notin ofMany
    <3>1. k \in filed[o]
      BY <1>13, <2>4
    <3>2. k \notin ofOne
      BY <1>3, <3>1 DEF CacheInv, FiledLists, ofOne
    <3>3. GetObject(k)' = GetObject(k)
      BY <1>11, <2>4, <3>2 DEF GetObject, HasObject
    <3>4. <<o, k>> \in orphaned' <=> <<o, k>> \in orphaned
      BY <1>1, <2>4 DEF ofMany
    <3>5. QED
      BY <2>1, <2>2, <3>1, <3>3, <3>4
  <2>5. QED
    BY <2>3, <2>4
<1>16. QED
  BY <1>12, <1>14, <1>15 DEF CacheInv

LEMMA RemoveObjectCacheInv ==
  ASSUME SchemaInv, CacheInv, NEW e \in E, RemoveObject(e)
  PROVE  CacheInv'
<1> DEFINE gone == RemovedKeys(e)
<1>1. /\ added' = [added EXCEPT ![e] = @ \ {value[e]}]
      /\ filed' = [filed EXCEPT ![e] = @ \ gone]
      /\ orphaned' = orphaned \cup UNION {{o} \X (filed[o] \cap gone) : o \in E \ {e}}
      /\ data' = [k \in DOMAIN data \ gone |-> data[k]]
      /\ UNCHANGED schemaVars
  BY DEF RemoveObject, Count
<1>2. /\ \A o \in E : \A v : KeysWith(o, v)' = KeysWith(o, v)
      /\ \A o \in E : Usable(o)' <=> Usable(o)
  <2>1. built' = built /\ once' = once
    BY <1>1 DEF schemaVars
  <2>2. \A o \in E : \A v : KeysWith(o, v)' = KeysWith(o, v)
    BY <2>1, KeysStay
  <2>3. QED
    BY <2>1, <2>2 DEF Usable, Loadable
<1>3. gone = KeysWith(e, value[e])
  BY RemovedKeysAreWith
<1> HIDE DEF gone
<1>4. FiledLists'
  BY <1>1 DEF CacheInv, FiledLists
<1>5. \A o \in E : filed'[o] = (IF o = e THEN filed[o] \ gone ELSE filed[o])
                   /\ added'[o] = (IF o = e THEN added[o] \ {value[e]} ELSE added[o])
  BY <1>1 DEF CacheInv, FiledLists
<1>6. CachedWasAdded'
  <2> SUFFICES ASSUME NEW k \in DOMAIN data'
               PROVE  /\ data'[k] \in Seq(E)
                      /\ \A o \in ToSet(data'[k]) : Usable(o)' /\ \E v \in added'[o] : k \in KeysWith(o, v)'
    BY DEF CachedWasAdded
  <2>1. k \in DOMAIN data /\ k \notin gone /\ data'[k] = data[k] /\ data[k] \in Seq(E)
    BY <1>1 DEF CacheInv, CachedWasAdded
  <2>2. ASSUME NEW o \in ToSet(data[k])
        PROVE  Usable(o)' /\ \E v \in added'[o] : k \in KeysWith(o, v)'
    <3>1. o \in E
      BY <2>1, <2>2, LenProperties DEF ToSet
    <3>2. PICK v \in added[o] : k \in KeysWith(o, v)
      BY <2>1 DEF CacheInv, CachedWasAdded
    <3>3. v \in added'[o]
      BY <1>3, <1>5, <2>1, <3>1, <3>2
    <3>4. Usable(o)
      BY <2>1 DEF CacheInv, CachedWasAdded
    <3>5. QED
      BY <1>2, <3>1, <3>2, <3>3, <3>4
  <2>3. QED
    BY <2>1, <2>2
<1>7. ListedUntilRemoved'
  <2> SUFFICES ASSUME NEW o \in E, NEW k \in filed'[o]
               PROVE  o \in ToSet(GetObject(k))' <=> <<o, k>> \notin orphaned'
    BY DEF ListedUntilRemoved
  <2>1. k \in filed[o] /\ (o = e => k \notin gone)
    BY <1>5
  <2>2. o \in ToSet(GetObject(k)) <=> <<o, k>> \notin orphaned
    BY <2>1 DEF CacheInv, ListedUntilRemoved
  <2>3. ToSet(GetObject(k))' = ToSet(GetObject(k)')
    BY DEF ToSet
  <2>4. CASE k \in gone
    <3>1. GetObject(k)' = <<>>
      BY <1>1, <2>4 DEF GetObject, HasObject
    <3>2. o \notin ToSet(GetObject(k))'
      BY <2>3, <3>1 DEF ToSet
    <3>3. <<o, k>> \in orphaned'
      BY <1>1, <2>1, <2>4
    <3>4. QED
      BY <3>2, <3>3
  <2>5. CASE k \notin gone
    <3>1. GetObject(k)' = GetObject(k)
      BY <1>1, <2>5 DEF GetObject, HasObject
    <3>2. <<o, k>> \in orphaned' <=> <<o, k>> \in orphaned
      BY <1>1, <2>5
    <3>3. QED
      BY <2>2, <2>3, <3>1, <3>2
  <2>6. QED
    BY <2>4, <2>5
<1>8. QED
  BY <1>4, <1>6, <1>7 DEF CacheInv

\* What is not a step of the cache leaves it alone, and the keys of usable entities.
LEMMA OtherCacheInv ==
  ASSUME SchemaInv, CacheInv, [SchemaNext]_schemaVars, UNCHANGED cacheVars
  PROVE  CacheInv'
<1> USE DEF cacheVars
<1>1. FiledLists'
  BY DEF CacheInv, FiledLists
<1>2. CachedWasAdded'
  <2> SUFFICES ASSUME NEW k \in DOMAIN data
               PROVE  /\ data[k] \in Seq(E)
                      /\ \A o \in ToSet(data[k]) : Usable(o)' /\ \E v \in added[o] : k \in KeysWith(o, v)'
    BY DEF CachedWasAdded
  <2>1. data[k] \in Seq(E)
    BY DEF CacheInv, CachedWasAdded
  <2>2. ASSUME NEW o \in ToSet(data[k])
        PROVE  Usable(o)' /\ \E v \in added[o] : k \in KeysWith(o, v)'
    <3>1. o \in E
      BY <2>1, LenProperties DEF ToSet
    <3>2. PICK v \in added[o] : k \in KeysWith(o, v)
      BY DEF CacheInv, CachedWasAdded
    <3>3. Usable(o)
      BY DEF CacheInv, CachedWasAdded
    <3>4. Usable(o)' /\ built' = built
      BY <3>1, <3>3, UsableStays
    <3>5. KeysWith(o, v)' = KeysWith(o, v)
      BY <3>1, <3>4, KeysStay
    <3>6. QED
      BY <3>2, <3>4, <3>5
  <2>3. QED
    BY <2>1, <2>2
<1>3. ListedUntilRemoved'
  BY DEF CacheInv, ListedUntilRemoved, GetObject, HasObject, ToSet
<1>4. QED
  BY <1>1, <1>2, <1>3 DEF CacheInv

LEMMA NextCacheInv == SchemaInv /\ CacheInv /\ [Next]_vars => CacheInv'
<1> SUFFICES ASSUME SchemaInv, CacheInv, [Next]_vars PROVE CacheInv'
  OBVIOUS
<1>1. [SchemaNext]_schemaVars
  BY NextIsSchemaNext
<1>2. (\E e \in E : AddObject(e)) => CacheInv'
  BY AddObjectCacheInv
<1>3. (\E e \in E : RemoveObject(e)) => CacheInv'
  BY RemoveObjectCacheInv
<1>4. ASSUME ~(\E e \in E : AddObject(e)), ~(\E e \in E : RemoveObject(e)) PROVE UNCHANGED cacheVars
  BY <1>4 DEF Next, vars, entityVars, cacheVars, Assigns, Insert, Update, Delete
<1>5. QED
  BY <1>1, <1>2, <1>3, <1>4, OtherCacheInv

LEMMA CacheInvariant == Spec => []CacheInv
<1>1. Init => CacheInv
  BY InitCacheInv
<1>2. QED
  BY <1>1, NextCacheInv, SchemaInvariant, PTL DEF Spec

\* Whatever entities are added and removed, by whichever of their keys: each list
\* holds just those that were added to it and not taken out since (scope_cache.go:50-113).
THEOREM ListsHoldWhatWasAdded == Spec => []ListedUntilRemoved
<1>1. CacheInv => ListedUntilRemoved
  BY DEF CacheInv
<1>2. QED
  BY <1>1, CacheInvariant, PTL

\* An entity that was removed as it was added is nowhere in the cache (scope_cache.go:101-113).
THEOREM RemovedEntitiesAreGone == Spec => []RemovedIsGone
<1>1. CacheInv => RemovedIsGone
  BY DEF CacheInv, CachedWasAdded, RemovedIsGone
<1>2. QED
  BY <1>1, CacheInvariant, PTL

-----------------------------------------------------------------------------
(* The patches of an entity *)

\* No two fields of a struct are for one column.
DistinctColumns ==
  \A t \in StructTypes :
    \A i, j \in DOMAIN ColumnsOf(t) : ColumnsOf(t)[i].column = ColumnsOf(t)[j].column => i = j

\* Fields have values, and the slots of the database are numbered.
EntityInv ==
  /\ DOMAIN value = E
  /\ \A e \in E : value[e] \in [FieldNames(e) -> Values]
  /\ \E S : db \in Seq(S)

LEMMA InitEntityInv == Init => EntityInv
<1> SUFFICES ASSUME Init PROVE EntityInv
  OBVIOUS
<1> DEFINE v0 == CHOOSE v \in Values : v \notin Empty
<1>1. v0 \in Values
  BY EntitiesAssumption
<1>2. value = [e \in E |-> [f \in FieldNames(e) |-> v0]]
  BY DEF Init
<1> HIDE DEF v0
<1>3. \A e \in E : value[e] \in [FieldNames(e) -> Values]
  BY <1>1, <1>2
<1>4. db \in Seq(ToSet(db))
  BY EntitiesAssumption DEF Init
<1>5. QED
  BY <1>2, <1>3, <1>4 DEF EntityInv

\* A statement leaves the slots of the database numbered.
LEMMA ExecuteNumbered ==
  ASSUME NEW S, NEW d \in Seq(S), NEW p, p.kind \in {"insert", "update", "delete"}
  PROVE  \E T : Execute(d, Compiled(p)) \in Seq(T)
<1> DEFINE stmt == Compiled(p)
<1>1. stmt.kind = p.kind /\ Len(d) \in Nat
  BY LenProperties DEF Compiled
<1>2. CASE p.kind = "insert"
  <2>1. Len(stmt.rows) = 1
    BY <1>2 DEF Compiled
  <2> DEFINE row(i) == NewRow(stmt, stmt.rows[i])
  <2>2. Execute(d, stmt) = d \o [i \in 1..1 |-> row(i)]
    BY <1>1, <1>2, <2>1 DEF Execute, ExecInsert
  <2> HIDE DEF row, stmt
  <2>3. [i \in 1..1 |-> row(i)] \in Seq(S \cup {row(1)}) /\ d \in Seq(S \cup {row(1)})
    BY SeqDef, SeqMonotonic
  <2>4. Execute(d, stmt) \in Seq(S \cup {row(1)})
    BY <2>2, <2>3, ConcatProperties
  <2>5. QED
    BY <2>4 DEF stmt
<1>3. CASE p.kind = "update"
  <2> DEFINE slot(s) == IF Selected(stmt, d[s]) THEN UpdatedRow(stmt, d[s]) ELSE d[s]
  <2>1. Execute(d, stmt) = [s \in 1..Len(d) |-> slot(s)]
    BY <1>1, <1>3 DEF Execute, ExecUpdate
  <2> HIDE DEF slot, stmt
  <2>2. Execute(d, stmt) \in Seq({slot(s) : s \in 1..Len(d)})
    BY <1>1, <2>1, SeqDef
  <2>3. QED
    BY <2>2 DEF stmt
<1>4. CASE p.kind = "delete"
  <2> DEFINE slot(s) == IF Selected(stmt, d[s]) THEN Deleted ELSE d[s]
  <2>1. Execute(d, stmt) = [s \in 1..Len(d) |-> slot(s)]
    BY <1>1, <1>4 DEF Execute, ExecDelete
  <2> HIDE DEF slot, stmt
  <2>2. Execute(d, stmt) \in Seq({slot(s) : s \in 1..Len(d)})
    BY <1>1, <2>1, SeqDef
  <2>3. QED
    BY <2>2 DEF stmt
<1>5. QED
  BY <1>2, <1>3, <1>4

LEMMA NextEntityInv == EntityInv /\ [Next]_vars => EntityInv'
<1> SUFFICES ASSUME EntityInv, [Next]_vars PROVE EntityInv'
  OBVIOUS
<1>1. ASSUME NEW e \in E, NEW f \in FieldNames(e), NEW v \in Values, Assigns(e, f, v) PROVE EntityInv'
  <2>1. value' = [value EXCEPT ![e][f] = v] /\ db' = db
    BY <1>1 DEF Assigns
  <2>2. \A o \in E : value'[o] = IF o = e THEN [value[e] EXCEPT ![f] = v] ELSE value[o]
    BY <2>1 DEF EntityInv
  <2>3. \A o \in E : value[o] \in [FieldNames(o) -> Values]
    BY DEF EntityInv
  <2>4. \A o \in E : value'[o] \in [FieldNames(o) -> Values]
    BY <2>2, <2>3
  <2>5. DOMAIN value' = E
    BY <2>1 DEF EntityInv
  <2>6. QED
    BY <2>1, <2>4, <2>5 DEF EntityInv
<1>2. ASSUME NEW e \in E, Insert(e) \/ Update(e) \/ Delete(e) PROVE EntityInv'
  <2>1. value' = value
    BY <1>2 DEF Insert, Update, Delete
  <2>2. PICK p : p.kind \in {"insert", "update", "delete"} /\ db' = Execute(db, Compiled(p))
    <3>1. CASE Insert(e)
      <4>1. InsertPatchOf(e).kind = "insert"
        BY DEF InsertPatchOf, PatchOf
      <4>2. db' = Execute(db, Compiled(InsertPatchOf(e)))
        BY <3>1 DEF Insert
      <4>3. QED
        BY <4>1, <4>2
    <3>2. CASE Update(e)
      <4>1. UpdatePatchOf(e).kind = "update"
        BY DEF UpdatePatchOf, PatchOf
      <4>2. db' = Execute(db, Compiled(UpdatePatchOf(e)))
        BY <3>2 DEF Update
      <4>3. QED
        BY <4>1, <4>2
    <3>3. CASE Delete(e)
      BY <3>3 DEF Delete, DeletePatchOf, PatchOf
    <3>4. QED
      BY <1>2, <3>1, <3>2, <3>3
  <2>3. \E T : db' \in Seq(T)
    BY <2>2, ExecuteNumbered DEF EntityInv
  <2>4. QED
    BY <2>1, <2>3 DEF EntityInv
<1>3. ASSUME UNCHANGED <<value, db>> PROVE EntityInv'
  BY <1>3 DEF EntityInv
<1>4. QED
  BY <1>1, <1>2, <1>3 DEF Next, vars, entityVars, AddObject, RemoveObject

\* The columns of the table of an entity that can be used.
LEMMA ColumnsOfEntity ==
  ASSUME SchemaInv, NEW e \in E, Usable(e)
  PROVE  /\ Table(e).columns = ColumnsOf(TypeOf[e]) /\ TypeOf[e] \in StructTypes
         /\ Table(e).columns \in Seq(ToSet(Table(e).columns))
         /\ \A c \in ToSet(Table(e).columns) : c.column \in Columns /\ c.field \in FieldNames(e)
<1> DEFINE t == TypeOf[e]
           fs == fields["reflect"][t]
           kept == TableFields(t)
<1>1. t \in StructTypes /\ \E types \in Seq(StructTypes) : built[t] = ComputeOf(t, types)
  BY DEF Usable, Loadable, SchemaInv, BuiltTables
<1>2. Table(e).columns = ColumnsOf(t)
  BY <1>1 DEF Table, ComputeOf
<1>3. fs \in Seq(ToSet(fs))
  <2>1. "reflect" \in Modes
    BY DEF Modes, Kind
  <2>2. QED
    BY <1>1, <2>1, EmbeddingEnds
<1> DEFINE named == {x \in ToSet(fs) : IsColumn(x)}
<1>4. kept \in Seq(ToSet(fs)) /\ ToSet(kept) = named
  <2>1. kept = Kept(fs, named) /\ ToSet(fs) \cap named = named
    BY DEF TableFields
  <2> HIDE DEF fs, named, kept
  <2>2. QED
    BY <1>3, <2>1, KeptIs
<1>5. FieldNames(e) = {f.name : f \in named}
  BY DEF FieldNames
<1>6. ColumnsOf(t) = [i \in DOMAIN kept |-> MetaColumn(kept[i])]
  BY DEF ColumnsOf
<1> HIDE DEF fs, kept, named
<1>7. DOMAIN kept = 1..Len(kept) /\ Len(kept) \in Nat
  BY <1>4, LenProperties
<1>8. ColumnsOf(t) \in Seq(ToSet(ColumnsOf(t)))
  <2> DEFINE cs == ColumnsOf(t)
  <2>1. DOMAIN cs = 1..Len(kept) /\ cs = [i \in 1..Len(kept) |-> cs[i]]
    BY <1>6, <1>7
  <2> HIDE DEF cs
  <2>2. cs \in [1..Len(kept) -> ToSet(cs)]
    BY <2>1 DEF ToSet
  <2>3. cs \in Seq(ToSet(cs))
    BY <1>7, <2>2, SeqDef
  <2>4. QED
    BY <2>3 DEF cs
<1>9. ASSUME NEW c \in ToSet(ColumnsOf(t)) PROVE c.column \in Columns /\ c.field \in FieldNames(e)
  <2>1. c.column \in Columns
    BY <1>1, EntitiesAssumption
  <2>2. PICK i \in DOMAIN kept : c = MetaColumn(kept[i])
    BY <1>6 DEF ToSet
  <2>3. c.field = kept[i].name /\ kept[i] \in named
    BY <1>4, <2>2 DEF MetaColumn, ToSet
  <2>4. QED
    BY <1>5, <2>1, <2>3
<1>10. QED
  BY <1>1, <1>2, <1>8, <1>9

\* The last element that SelectLastInSeq finds.
LEMMA LastOfColumn ==
  ASSUME NEW R, NEW cs \in Seq(R), NEW c, \E i \in DOMAIN cs : cs[i].column = c
  PROVE  /\ SelectLastInSeq(cs, LAMBDA m : m.column = c) \in DOMAIN cs
         /\ cs[SelectLastInSeq(cs, LAMBDA m : m.column = c)].column = c
<1> DEFINE I == {i \in 1..Len(cs) : cs[i].column = c}
           J == {Len(cs) - i : i \in I}
<1>1. Len(cs) \in Nat /\ DOMAIN cs = 1..Len(cs)
  BY LenProperties
<1>2. I # {} /\ J # {} /\ J \in SUBSET Nat
  BY <1>1
<1>3. PICK j \in J : \A k \in J : j <= k
  <2> HIDE DEF J
  <2>1. QED
    BY <1>2, LeastNumber
<1>4. \E x \in I : \A y \in I : x >= y
  <2>1. PICK x \in I : j = Len(cs) - x
    OBVIOUS
  <2>2. ASSUME NEW y \in I PROVE x >= y
    <3>1. Len(cs) - x <= Len(cs) - y
      BY <1>3, <2>1
    <3>2. QED
      BY <1>1, <3>1
  <2>3. QED
    BY <2>2
<1>5. Max(I) \in I
  <2> HIDE DEF I
  <2>1. QED
    BY <1>4 DEF Max
<1>6. SelectLastInSeq(cs, LAMBDA m : m.column = c) = Max(I)
  BY <1>2 DEF SelectLastInSeq
<1> HIDE DEF I
<1>7. SelectLastInSeq(cs, LAMBDA m : m.column = c) \in I
  BY <1>5, <1>6
<1>8. QED
  BY <1>1, <1>7 DEF I

\* The primary key of an entity: of each key column, the value of one of the
\* columns of this name.
LEMMA PrimaryKeyOfEntity ==
  ASSUME SchemaInv, EntityInv, NEW e \in E, Usable(e)
  PROVE  /\ PrimaryKeyOf(e) \in RowKeys
         /\ DOMAIN PrimaryKeyOf(e) = {c.column : c \in {x \in ToSet(Table(e).columns) : x.pk}}
         /\ \A n \in DOMAIN PrimaryKeyOf(e) :
              \E c \in ToSet(Table(e).columns) :
                c.pk /\ c.column = n /\ PrimaryKeyOf(e)[n] = value[e][c.field]
<1> DEFINE all == Table(e).columns
           cs == PkColumns(e)
           last(n) == SelectLastInSeq(cs, LAMBDA m : m.column = n)
           key == RowKeyOf(e, cs)
           pks == {x \in ToSet(all) : x.pk}
<1>1. all \in Seq(ToSet(all)) /\ \A c \in ToSet(all) : c.column \in Columns /\ c.field \in FieldNames(e)
  BY ColumnsOfEntity
<1>2. cs \in Seq(ToSet(all)) /\ ToSet(cs) = pks
  <2>1. cs = Kept(all, pks) /\ ToSet(all) \cap pks = pks
    BY DEF PkColumns
  <2> HIDE DEF all, pks, cs
  <2>2. QED
    BY <1>1, <2>1, KeptIs
<1>3. key = [n \in {cs[i].column : i \in DOMAIN cs} |-> value[e][cs[last(n)].field]]
  BY DEF RowKeyOf
<1>4. PrimaryKeyOf(e) = key
  BY DEF PrimaryKeyOf
<1>5. \A n \in {cs[i].column : i \in DOMAIN cs} : last(n) \in DOMAIN cs /\ cs[last(n)].column = n
  <2> HIDE DEF cs
  <2>1. QED
    BY <1>2, LastOfColumn
<1> HIDE DEF all, cs, last, key
<1>6. {cs[i].column : i \in DOMAIN cs} = {c.column : c \in pks}
  BY <1>2 DEF ToSet
<1>7. ASSUME NEW n \in DOMAIN key
      PROVE  /\ key[n] \in Values /\ n \in Columns
             /\ \E c \in ToSet(all) : c.pk /\ c.column = n /\ key[n] = value[e][c.field]
  <2>1. last(n) \in DOMAIN cs /\ cs[last(n)].column = n /\ key[n] = value[e][cs[last(n)].field]
    BY <1>3, <1>5
  <2>2. cs[last(n)] \in pks
    BY <1>2, <2>1 DEF ToSet
  <2>3. cs[last(n)].field \in FieldNames(e) /\ n \in Columns
    BY <1>1, <2>1, <2>2
  <2>4. QED
    BY <2>1, <2>2, <2>3 DEF EntityInv
<1>8. key \in RowKeys
  <2>1. key \in [DOMAIN key -> Values] /\ DOMAIN key \in SUBSET Columns
    BY <1>3, <1>7
  <2>2. QED
    BY <2>1 DEF RowKeys
<1>9. QED
  BY <1>3, <1>4, <1>6, <1>7, <1>8 DEF all

\* The rows that an UPDATE or a DELETE of an entity reaches are its rows.
LEMMA ReachedRows ==
  ASSUME SchemaInv, EntityInv, DistinctColumns, NEW e \in E, Usable(e), NEW stmt, NEW row, row # Deleted,
         stmt.table = Table(e).name, stmt.cond = <<RowKeyToSqlizer(PrimaryKeyOf(e))>>
  PROVE  Selected(stmt, row) <=> IsItsRow(e, row)
<1> DEFINE all == Table(e).columns
           key == PrimaryKeyOf(e)
<1>1. /\ key \in RowKeys
      /\ DOMAIN key = {c.column : c \in {x \in ToSet(all) : x.pk}}
      /\ \A n \in DOMAIN key : \E c \in ToSet(all) : c.pk /\ c.column = n /\ key[n] = value[e][c.field]
  BY PrimaryKeyOfEntity
<1>2. \A i, j \in DOMAIN all : all[i].column = all[j].column => i = j
  BY ColumnsOfEntity DEF DistinctColumns
<1>3. RowKeyToSqlizer(key) = key
  BY <1>1, EntitiesAssumption DEF RowKeyToSqlizer
<1>4. Selected(stmt, row) <=> row.table = Table(e).name /\ Matches(key, row)
  BY <1>3 DEF Selected
<1> HIDE DEF all, key
<1>5. \A c \in ToSet(all) : c.pk => c.column \in DOMAIN key /\ key[c.column] = value[e][c.field]
  BY <1>1, <1>2 DEF ToSet
<1>6. Matches(key, row) <=> \A c \in ToSet(all) : c.pk => row.cells[c.column] = value[e][c.field]
  BY <1>1, <1>5 DEF Matches
<1>7. IsItsRow(e, row) <=>
        /\ row.table = Table(e).name
        /\ \A c \in ToSet(all) : c.pk => row.cells[c.column] = value[e][c.field]
  BY DEF IsItsRow, ToSet, all
<1>8. QED
  BY <1>4, <1>6, <1>7

\* With distinct columns, what a struct's primary key says is all that tells its
\* row: its UPDATE and DELETE change no other (meta.go:338-377).
LEMMA StepTouchesItsRow ==
  ASSUME SchemaInv, EntityInv, DistinctColumns, NEW e \in E, Update(e) \/ Delete(e),
         NEW i \in DOMAIN db, db'[i] # db[i]
  PROVE  IsItsRow(e, db[i])
<1>1. Usable(e)
  BY DEF Update, Delete
<1>2. DOMAIN db = 1..Len(db)
  BY LenProperties DEF EntityInv
<1>3. PICK stmt : /\ stmt.table = Table(e).name /\ stmt.cond = <<RowKeyToSqlizer(PrimaryKeyOf(e))>>
                  /\ Selected(stmt, db[i])
  <2>1. CASE Update(e)
    <3> DEFINE stmt == Compiled(UpdatePatchOf(e))
    <3>1. /\ stmt.kind = "update" /\ stmt.table = Table(e).name
          /\ stmt.cond = <<RowKeyToSqlizer(PrimaryKeyOf(e))>>
      BY DEF UpdatePatchOf, PatchOf, Compiled
    <3>2. db' = Execute(db, stmt)
      BY <2>1 DEF Update
    <3> HIDE DEF stmt
    <3>3. db' = ExecUpdate(db, stmt)
      BY <3>1, <3>2 DEF Execute
    <3>4. Selected(stmt, db[i])
      BY <1>2, <3>3 DEF ExecUpdate
    <3>5. QED
      BY <3>1, <3>4
  <2>2. CASE Delete(e)
    <3> DEFINE stmt == Compiled(DeletePatchOf(e))
    <3>1. /\ stmt.kind = "delete" /\ stmt.table = Table(e).name
          /\ stmt.cond = <<RowKeyToSqlizer(PrimaryKeyOf(e))>>
      BY DEF DeletePatchOf, PatchOf, Compiled
    <3>2. db' = Execute(db, stmt)
      BY <2>2 DEF Delete
    <3> HIDE DEF stmt
    <3>3. db' = ExecDelete(db, stmt)
      BY <3>1, <3>2 DEF Execute
    <3>4. Selected(stmt, db[i])
      BY <1>2, <3>3 DEF ExecDelete
    <3>5. QED
      BY <3>1, <3>4
  <2>3. QED
    BY <2>1, <2>2
<1>4. db[i] # Deleted
  BY <1>3 DEF Selected
<1>5. QED
  BY <1>1, <1>3, <1>4, ReachedRows

LEMMA StepWritesTheEntity ==
  ASSUME SchemaInv, EntityInv, DistinctColumns, NEW e \in E, Update(e),
         NEW i \in DOMAIN db, db[i] # Deleted, IsItsRow(e, db[i]), NEW c \in ToSet(Table(e).columns)
  PROVE  db'[i].cells[c.column] = IF Omitted(e, c) THEN db[i].cells[c.column] ELSE value[e][c.field]
<1> DEFINE all == Table(e).columns
           cs == UpdateColumns(e)
           names == [j \in DOMAIN cs |-> cs[j].column]
           vals == [j \in DOMAIN cs |-> value[e][cs[j].field]]
           stmt == Compiled(UpdatePatchOf(e))
           setting == {x \in ToSet(all) : ~x.pk /\ ~Omitted(e, x)}
<1>1. Usable(e)
  BY DEF Update
<1>2. /\ all \in Seq(ToSet(all)) /\ c.column \in Columns
      /\ \A x, y \in ToSet(all) : x.column = y.column => x = y
  <2>1. /\ all = ColumnsOf(TypeOf[e]) /\ TypeOf[e] \in StructTypes
        /\ all \in Seq(ToSet(all)) /\ c.column \in Columns
    BY <1>1, ColumnsOfEntity
  <2>2. \A i1, i2 \in DOMAIN all : all[i1].column = all[i2].column => i1 = i2
    BY <2>1 DEF DistinctColumns
  <2> HIDE DEF all
  <2>3. QED
    BY <2>1, <2>2 DEF ToSet
<1>3. cs \in Seq(ToSet(all)) /\ ToSet(cs) = setting
  <2>1. cs = Kept(all, setting) /\ ToSet(all) \cap setting = setting
    BY DEF UpdateColumns
  <2> HIDE DEF all, setting, cs
  <2>2. QED
    BY <1>2, <2>1, KeptIs
<1>4. /\ stmt.kind = "update" /\ stmt.table = Table(e).name
      /\ stmt.cond = <<RowKeyToSqlizer(PrimaryKeyOf(e))>>
      /\ stmt.columns = names /\ stmt.values = vals
  <2>1. UpdatePatchOf(e) = [kind |-> "update", table |-> Table(e).name, rowKey |-> PrimaryKeyOf(e),
                            columns |-> names, values |-> vals]
    BY DEF UpdatePatchOf, PatchOf
  <2> HIDE DEF names, vals
  <2>2. QED
    BY <2>1 DEF Compiled
<1>5. db' = Execute(db, stmt)
  BY DEF Update
<1> HIDE DEF stmt
<1>6. DOMAIN db = 1..Len(db)
  BY LenProperties DEF EntityInv
<1>7. Selected(stmt, db[i])
  BY <1>1, <1>4, ReachedRows
<1>8. db'[i].cells[c.column] = Assign(db[i].cells, names, vals)[c.column]
  BY <1>4, <1>5, <1>6, <1>7 DEF Execute, ExecUpdate, UpdatedRow
<1> DEFINE hits == {j \in DOMAIN cs : cs[j].column = c.column}
<1>9. Assign(db[i].cells, names, vals)[c.column] =
        IF hits # {} THEN vals[CHOOSE j \in DOMAIN names \cap DOMAIN vals : names[j] = c.column]
        ELSE db[i].cells[c.column]
  <2> HIDE DEF cs
  <2>1. DOMAIN names \cap DOMAIN vals = DOMAIN cs /\ \A j \in DOMAIN cs : names[j] = cs[j].column
    OBVIOUS
  <2>2. (\E j \in DOMAIN names \cap DOMAIN vals : names[j] = c.column) <=> hits # {}
    BY <2>1
  <2> HIDE DEF names, vals, hits
  <2>3. QED
    BY <1>2, <2>2 DEF Assign
<1> HIDE DEF cs
<1>10. \A j \in hits : cs[j] = c /\ c \in setting
  BY <1>2, <1>3 DEF ToSet
<1>11. c \in setting => hits # {}
  BY <1>3 DEF ToSet
<1>12. CASE c \in setting
  <2> DEFINE k == CHOOSE j \in DOMAIN names \cap DOMAIN vals : names[j] = c.column
  <2>1. \E j \in DOMAIN names \cap DOMAIN vals : names[j] = c.column
    BY <1>11, <1>12
  <2>2. k \in DOMAIN names \cap DOMAIN vals /\ names[k] = c.column
    BY <2>1
  <2>3. k \in hits
    <3> HIDE DEF k
    <3>1. QED
      BY <2>2
  <2>4. vals[k] = value[e][c.field]
    <3> HIDE DEF k
    <3>1. QED
      BY <1>10, <2>3
  <2>5. ~Omitted(e, c)
    BY <1>12
  <2>6. QED
    BY <1>8, <1>9, <1>11, <1>12, <2>4, <2>5
<1>13. CASE c \notin setting
  <2>1. db'[i].cells[c.column] = db[i].cells[c.column]
    BY <1>8, <1>9, <1>10, <1>13
  <2>2. CASE Omitted(e, c)
    BY <2>1, <2>2
  <2>3. CASE ~Omitted(e, c)
    <3>1. c.pk
      BY <1>13, <2>3
    <3>2. db[i].cells[c.column] = value[e][c.field]
      BY <3>1 DEF IsItsRow, ToSet
    <3>3. QED
      BY <2>1, <2>3, <3>2
  <2>4. QED
    BY <2>2, <2>3
<1>14. QED
  BY <1>12, <1>13

LEMMA EntityInvariant == Spec => [](SchemaInv /\ EntityInv)
<1>1. Init => EntityInv
  BY InitEntityInv
<1>2. QED
  BY <1>1, NextEntityInv, SchemaInvariant, PTL DEF Spec

\* Whatever a program does with its entities: an UPDATE or a DELETE changes only
\* rows that have the entity's primary key (meta.go:320-358).
THEOREM OnlyItsRow ==
  ASSUME DistinctColumns
  PROVE  Spec => PatchesTouchTheirRow
<1>1. ASSUME SchemaInv, EntityInv
      PROVE  \A e \in E : Update(e) \/ Delete(e) =>
               \A i \in DOMAIN db : db'[i] # db[i] => IsItsRow(e, db[i])
  BY <1>1, StepTouchesItsRow
<1>2. QED
  BY <1>1, EntityInvariant, PTL DEF PatchesTouchTheirRow

\* And an UPDATE writes the entity as it is, but for the empty fields of
\* omitempty columns, which it leaves (meta.go:320-348).
THEOREM WritesTheEntity ==
  ASSUME DistinctColumns
  PROVE  Spec => UpdatesWriteTheEntity
<1>1. ASSUME SchemaInv, EntityInv
      PROVE  \A e \in E : Update(e) =>
               \A i \in DOMAIN db : db[i] # Deleted /\ IsItsRow(e, db[i]) =>
                 \A j \in DOMAIN Table(e).columns :
                   \A c \in {Table(e).columns[j]} :
                     db'[i].cells[c.column] = IF Omitted(e, c) THEN db[i].cells[c.column] ELSE value[e][c.field]
  BY <1>1, StepWritesTheEntity DEF ToSet
<1>2. QED
  BY <1>1, EntityInvariant, PTL DEF UpdatesWriteTheEntity

=============================================================================
