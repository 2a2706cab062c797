----------------------------- MODULE MetaSchema -----------------------------
(***************************************************************************)
(* The meta schema (meta.go): goroutines register types while others       *)
(* already ask for tables.  Register reads and writes the list of types    *)
(* without a lock; the first call that needs a table computes them all,    *)
(* under sync.Once, and the others wait for it.                            *)
(***************************************************************************)
EXTENDS MetaTable

CONSTANTS
  Goroutines,
  ToRegister   \* what the goroutines may register: the types of each, one after the other

\* Only structs can be registered (typeOf); the empty names below stand for nobody
\* and for no type.
ASSUME MetaSchemaAssumption ==
  /\ \A r \in ToRegister : r \in [Goroutines -> Seq(StructTypes)]
  /\ "" \notin Goroutines /\ <<"", "">> \notin DOMAIN Decls

VARIABLES
  typlist, built,
  once,       \* "new", "running" or "done"
  computing,  \* [by, list, next]: the loop of Compute over the types
  todo,       \* what a goroutine has still to register
  pc,         \* of a goroutine: "ready", "append" in the middle of Register
  copy,       \* the list that Register appends to
  \* history
  registered, \* the types whose Register returned, as often as it did
  refused,    \* those whose Register panicked
  raced       \* two Registers, or a Register and Compute, were under way at once

schemaVars == <<typlist, built, once, computing, todo, pc, copy,
                registered, refused, raced>>

NotBuilt == [t \in {<<"", "">>} |-> "nil"]
NotComputing == [by |-> "", list |-> <<>>, next |-> 1]

SchemaInit ==
  /\ typlist = <<>> /\ built = NotBuilt /\ once = "new" /\ computing = NotComputing
  /\ todo \in ToRegister
  /\ pc = [g \in Goroutines |-> "ready"] /\ copy = [g \in Goroutines |-> <<>>]
  /\ registered = <<>> /\ refused = {} /\ raced = FALSE

\* What a goroutine does when it is neither in Register nor in Compute.
Ready(g) == pc[g] = "ready" /\ computing.by # g

-----------------------------------------------------------------------------

\* Mutant of RegisterReads: a type is taken after the tables were computed, too.
RegisterReadsAlways(g) ==
  /\ Ready(g) /\ todo[g] # <<>>
  /\ pc' = [pc EXCEPT ![g] = "append"]
  /\ copy' = [copy EXCEPT ![g] = typlist]
  /\ raced' = (raced \/ \E h \in Goroutines : pc[h] = "append")
  /\ UNCHANGED <<typlist, built, once, computing, todo, registered, refused>>

\* Register, up to the argument of append.
RegisterReads(g) ==
  /\ Ready(g) /\ todo[g] # <<>> /\ built = NotBuilt
  /\ pc' = [pc EXCEPT ![g] = "append"]
  /\ copy' = [copy EXCEPT ![g] = typlist]
  /\ raced' = (raced \/ \E h \in Goroutines : pc[h] = "append")
  /\ UNCHANGED <<typlist, built, once, computing, todo, registered, refused>>

RegisterPanics(g) ==
  /\ Ready(g) /\ todo[g] # <<>> /\ built # NotBuilt
  /\ refused' = refused \cup {Head(todo[g])}
  /\ todo' = [todo EXCEPT ![g] = Tail(@)]
  /\ UNCHANGED <<typlist, built, once, computing, pc, copy, registered, raced>>

\* The list of another Register may be overwritten.
RegisterWrites(g) ==
  /\ pc[g] = "append"
  /\ typlist' = Append(copy[g], Head(todo[g]))
  /\ registered' = Append(registered, Head(todo[g]))
  /\ todo' = [todo EXCEPT ![g] = Tail(@)]
  /\ pc' = [pc EXCEPT ![g] = "ready"]
  /\ UNCHANGED <<built, once, computing, copy, refused, raced>>

-----------------------------------------------------------------------------

\* Every operation but Register begins with Compute; one of them computes.
ComputeStarts(g) ==
  /\ Ready(g) /\ once = "new"
  /\ once' = "running"
  /\ built' = <<>>
  /\ computing' = [by |-> g, list |-> typlist, next |-> 1]
  /\ raced' = (raced \/ \E h \in Goroutines : pc[h] = "append")
  /\ UNCHANGED <<typlist, todo, pc, copy, registered, refused>>

\* Mutant of ComputeTable: it asks the schema for a table itself.
ComputeTableCompute(g) ==
  /\ computing.by = g /\ computing.next \in DOMAIN computing.list
  /\ once = "done"
  /\ UNCHANGED schemaVars

\* computeOf goes through the list of types as it is now.
ComputeTable(g) ==
  /\ computing.by = g /\ computing.next \in DOMAIN computing.list
  /\ \E t \in {computing.list[computing.next]} :
       built' = [s \in DOMAIN built \cup {t} |-> IF s = t THEN ComputeOf(t, typlist) ELSE built[s]]
  /\ computing' = [computing EXCEPT !.next = @ + 1]
  /\ UNCHANGED <<typlist, once, todo, pc, copy, registered, refused, raced>>

ComputeEnds(g) ==
  /\ computing.by = g /\ computing.next \notin DOMAIN computing.list
  /\ once' = "done"
  /\ computing' = NotComputing
  /\ UNCHANGED <<typlist, built, todo, pc, copy, registered, refused, raced>>

\* LoadOf finds a table; for a type that has none it panics.
Loadable(t) == once = "done" /\ t \in DOMAIN built

SchemaNext ==
  \E g \in Goroutines :
    \/ RegisterReads(g) \/ RegisterPanics(g) \/ RegisterWrites(g)
    \/ ComputeStarts(g) \/ ComputeTable(g) \/ ComputeEnds(g)

SchemaFairness ==
  \A g \in Goroutines : WF_schemaVars(ComputeTable(g)) /\ WF_schemaVars(ComputeEnds(g))

-----------------------------------------------------------------------------
(* Properties *)

\* A type whose Register returned has a table, with the keys by which every
\* registered type refers to it (meta.go:371-386).  Unless a Register was under
\* way beside another, or when the computation began: then a type, or what it
\* refers to others by, may be missing without an error.
RegisteredTypesHaveTables ==
  ~raced /\ once = "done" =>
    /\ \A t \in ToSet(registered) : t \in DOMAIN built
    /\ \A t \in DOMAIN built : built[t] = ComputeOf(t, registered)

\* Whoever needs a table gets the tables computed, for good.
ComputationEnds == [](once = "running" => <>(once = "done"))
=============================================================================
