------------------------------ MODULE Generate ------------------------------
(***************************************************************************)
(* The command and the generator together: what is to be said of the code  *)
(* that the runs of the command write.                                     *)
(***************************************************************************)
EXTENDS Command

\* The name at the bottom of a type, where the source has it.
Bottom(v) ==
  LET layer[n \in Nat] == IF n = 0 THEN v.decl ELSE layer[n - 1].of
      from[n \in Nat] == IF layer[n].k \in {"star", "array", "fixed"} THEN from[n + 1] ELSE layer[n]
  IN View(v.pkg, v.file, from[0])

\* The package the code is in: the source's own, or another that imports it.
InSource(m) == m.args.out.dir = m.args.src \/ (m.args.out = Stdout /\ m.args.p = "")

\* The declared types that a spelled type can mean in the code.
Meanings(m, s) ==
  IF s.pkg # ""
  THEN {<<i.path, s.name>> : i \in {x \in m.code.imports :
          x.name = s.pkg \/ (x.name = "" /\ PkgName[x.path] = s.pkg)}}
  ELSE IF s.name \in Primitives \cup OtherBuiltins THEN {<<"", [k |-> "ident", name |-> s.name]>>}
  ELSE IF InSource(m) \/ s.name \notin Unexported THEN {<<m.args.src, s.name>>} ELSE {}

\* What was found out about the entities of a run.
Found(m) == [t \in Entities(m.args) |-> walked[t]]

\* The members of the set that the context has of t's rows: its columns, its
\* loaders and its methods.  A view has none that writes (table.tgo:272-340).
Members(t, table) ==
  [i \in DOMAIN table.columns |-> table.columns[i].field]
  \o [i \in DOMAIN RelationFields(t) |-> "Include" \o RelationFields(t)[i].name]
  \o <<"String", "QuotedString", "Select">>
  \o (IF table.readOnly THEN <<>> ELSE <<"Insert", "Update", "Delete">>)

\* A loader appends a *T to the field, or assigns one, and looks for it with a
\* key that a map literal writes (table.tgo:352-362, 414, 434-444, 494-495).
LoaderCompiles(m, f) ==
  LET d == f.view.decl
      T == Meanings(m, [pkg |-> "", name |-> Referred(f)[2]])
      points(e) == e.k = "star" /\ {Identity(View(f.view.pkg, f.view.file, e.of))} = T
  IN /\ IF IsOneToMany("ast", f) THEN d.k = "array" /\ points(d.of) ELSE points(d)
     /\ IsInjective(ReferenceKey(f))

\* The code compiles: its columns have the types of the fields they are for, its
\* loaders those of theirs, no two members of one set and no two imports have one
\* name, every import is used, and the package neither imports itself nor has
\* another name than the directory's.
Compiles(m, found) ==
  /\ \A t \in DOMAIN found :
       /\ \A i \in DOMAIN found[t].table.columns :
            {Identity(Bottom(ColumnFields(t)[i].view))} = Meanings(m, found[t].table.columns[i].type)
       /\ \A f \in ToSet(RelationFields(t)) : LoaderCompiles(m, f)
       /\ IsInjective(Members(t, found[t].table))
  /\ \A i, j \in m.code.imports : i.name = j.name => i = j \/ i.name = ""
  /\ m.code.tables # <<>>
  /\ m.args.out.dir = m.args.src =>
       m.code.package = PkgName[m.args.src] /\ \A i \in m.code.imports : i.path # m.args.src

\* What a column's type loses on its way into the code: an alias that a required
\* import does not get; the import of a list's elements; the package of what an
\* embedded struct of another package calls by its bare name; and, in another
\* package, a name that is not exported.
Misspelled(m, f) ==
  LET v == Bottom(f.view)
      listed == f.pointee.decl.k # v.decl.k
  IN IF v.decl.k = "sel"
     THEN IF listed THEN FindPkgPath(v) \notin RequiredImports
                    ELSE FindPkgPath(v) \in RequiredImports
     ELSE /\ Declared(v.pkg, v.decl.name)
          /\ v.pkg # m.args.src \/ (~InSource(m) /\ v.decl.name \in Unexported)

\* The packages that column types are qualified with.
Qualifying(found) == (UNION {ToSet(found[t].imports) : t \in DOMAIN found}) \ RequiredImports

\* A relation that no loader compiles for: its field is neither a list of pointers
\* nor a pointer to a struct, or the struct is not the source's, or not exported
\* and the code in another package, or its tag names a referred column twice.
Unloadable(m, f) ==
  LET d == f.view.decl
  IN \/ ~ \/ d.k = "array" /\ d.of.k = "star" /\ d.of.of = f.elem.decl
          \/ d.k = "star" /\ d.of = f.pointee.decl
     \/ Referred(f)[1] # m.args.src
     \/ ~InSource(m) /\ Referred(f)[2] \in Unexported
     \/ Cardinality(ToSet(ReferenceKey(f))) < Len(ReferenceKey(f))

\* A column whose field has the name of a method of the set, of a loader in it,
\* or of another field, of which one is from an embedded struct.
Clashes(t, i) ==
  LET name == ColumnFields(t)[i].name
  IN \/ name \in {"String", "QuotedString", "Select"}
     \/ name \in {"Insert", "Update", "Delete"} /\ ~IsView("ast", t)
     \/ \E f \in ToSet(RelationFields(t)) : name = "Include" \o f.name
     \/ \E j \in DOMAIN ColumnFields(t) \ {i} : name = ColumnFields(t)[j].name

\* The code compiles, except in these cases and in no other.
CompilesUnless(m, found) ==
  Compiles(m, found) <=>
    /\ \A t \in DOMAIN found :
         /\ \A f \in ToSet(ColumnFields(t)) : ~Misspelled(m, f)
         /\ \A f \in ToSet(RelationFields(t)) : ~Unloadable(m, f)
         /\ \A i \in DOMAIN ColumnFields(t) : ~Clashes(t, i)
    /\ \A i, j \in Qualifying(found) : SafeName[i] = SafeName[j] => i = j
    /\ DOMAIN found # {}
    /\ ~(m.args.p # "" /\ m.args.out.dir = m.args.src)


\* The first field for a column of t is not the one the generator took.
Hidden(t, c) ==
  LET g == fields["reflect"][t][ColumnAt(t, c)] IN IsForeignKey(g) \/ g.name \in Unexported

\* A loader finds the entities it asks the scope cache for: the key of a
\* generated relation is one of those AddObject files them under, with the
\* values of the same fields (table.tgo:352-362, meta.go:419-468).  The code of
\* a run registers its entities.
Filed(r, entities) ==
  /\ r.type \in entities
  /\ \E ref \in References(r.type, SetToSeq(entities)) :
       /\ ref.card = r.card
       /\ [i \in DOMAIN ref.key |-> [column |-> ref.key[i].column, field |-> ref.key[i].field]] = r.references

\* ... except when the other struct is no entity, when the field is an array,
\* and when an earlier field of it goes by the column's name: a relation field,
\* or one that is not exported, which the generator passes over and the meta
\* schema does not.
FiledUnless(found) ==
  \A t \in DOMAIN found : \A r \in found[t].table.relations :
    \/ Filed(r, DOMAIN found)
    \/ r.type \notin DOMAIN found
    \/ \E f \in ToSet(RelationFields(t)) : f.name = r.field /\ f.view.decl.k = "fixed"
    \/ \E c \in {r.references[i].column : i \in DOMAIN r.references} : Hidden(r.type, c)

\* Each loader that goen writes finds them, except in the cases of FiledUnless.
LoaderKeysAreFiled == \A m \in made : FiledUnless(Found(m))
=============================================================================
