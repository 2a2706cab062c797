------------------------------ MODULE Generator ------------------------------
(***************************************************************************)
(* What the generator makes of one struct (generator/generator.go): a      *)
(* table with its columns and relations, and the packages to import.       *)
(***************************************************************************)
EXTENDS MetaTable

CONSTANT SafeName   \* of a package path: its letters and digits, "_" for the rest; "" of ""


\* safePkgImport, the path; its name is the SafeName of that.  Pointers are
\* looked through, slices are not.
SafePkgImport(f) ==
  LET v == f.pointee IN IF v.decl.k = "sel" THEN FindPkgPath(v) ELSE ""

\* StringWithPkgName: stars and brackets, then a name with or without its
\* package, which goes by the name given, or else by the one in the source.
Spelled(d, alias) ==
  LET layer[n \in Nat] == IF n = 0 THEN d ELSE layer[n - 1].of
      from[n \in Nat] ==
        CASE layer[n].k \in {"star", "array", "fixed"} ->
               [from[n + 1] EXCEPT !.form = <<IF layer[n].k = "star" THEN "*" ELSE "[]">> \o @]
          [] layer[n].k = "sel" ->
               [form |-> <<>>, pkg |-> IF alias = "" THEN layer[n].pkg ELSE alias, name |-> layer[n].name]
          [] layer[n].k = "ident" -> [form |-> <<>>, pkg |-> "", name |-> layer[n].name]
          [] OTHER -> [form |-> <<>>, pkg |-> "", name |-> ""]
  IN from[0]

ColumnOf(f) ==
  [column |-> ColumnName(f), field |-> f.name, omitEmpty |-> OmitEmpty(f),
   pk |-> IsPrimaryKey(f), type |-> Spelled(f.view.decl, SafeName[SafePkgImport(f)])]

ColumnFields(t) == SelectSeq(fields["ast"][t], IsColumn)
RelationFields(t) == SelectSeq(fields["ast"][t], LAMBDA f : ~Ignored(f) /\ IsForeignKey(f))

\* The type a relation refers to.  NewStruct looks a type of another package up
\* in this one, as "pkg.Type", and only takes a type declared as a struct.
RelatedType(f) == IF IsOneToMany("ast", f) THEN f.elem ELSE f.pointee

Referred(f) ==
  LET found == {t \in DOMAIN Decls : IsStruct(t) /\ \E v \in {RelatedType(f)} :
                  v.decl.k = "ident" /\ t = <<v.pkg, v.decl.name>>}
  IN IF found = {} THEN <<"", "">> ELSE CHOOSE t \in found : TRUE

\* The fields of the columns cs.
RelationalColumns(fs, cs) ==
  [i \in DOMAIN cs |-> [column |-> cs[i], field |-> fs[FieldOfColumn(fs, cs[i])].name]]

\* What is neither a list of structs nor a struct makes NewStruct panic, so that
\* OneToOneRelations stays empty.
Relation(t, f, to) ==
  [field |-> f.name, card |-> CardinalityOf("ast", f), type |-> to,
   foreignKeys |-> RelationalColumns(ColumnFields(t), ForeignKey(f)),
   references |-> RelationalColumns(ColumnFields(to), ReferenceKey(f))]

\* The packages that the fields of columns need.
ImportsOf(fs) == SelectSeq([i \in DOMAIN fs |-> SafePkgImport(fs[i])], LAMBDA path : path # "")

ColumnsFrom(fs) == [i \in DOMAIN fs |-> ColumnOf(fs[i])]

\* walkStruct.
TableOf(t) ==
  [name |-> TableName("ast", t), readOnly |-> IsView("ast", t),
   columns |-> ColumnsFrom(ColumnFields(t)),
   relations |-> {Relation(t, f, Referred(f)) : f \in ToSet(RelationFields(t))}]

\* A type that a field's kind cannot be told of: no declaration, no import, or a
\* kind of expression the visitor does not know.
KindPanics(f) == KindOf("ast", f.pointee) = "panic"

RelationPanics(t, f) ==
  \/ KindPanics(f) \/ KindOf("ast", f.elem) = "panic"
  \/ \E r \in {Referred(f)} :
       \/ r = <<"", "">>
       \/ FieldsPanic[r]
       \/ \E c \in ToSet(ReferenceKey(f)) : FieldOfColumn(ColumnFields(r), c) = 0
  \/ \E c \in ToSet(ForeignKey(f)) : FieldOfColumn(ColumnFields(t), c) = 0

WalkStructPanics(t) ==
  \/ \E f \in ToSet(ColumnFields(t)) : KindPanics(f)
  \/ \E f \in ToSet(RelationFields(t)) : RelationPanics(t, f)

\* Of what is not an exported struct, walkFile takes no notice; it lists the
\* fields of every exported struct, and looks for a goen tag among them.
Walkable(t) == t[2] \notin Unexported /\ IsStruct(t)
IsEntity(t) == Walkable(t) /\ \E f \in ToSet(fields["ast"][t]) : Tagged(f, {"goen"})

\* What comes of looking at each object.
Looked(t, entity, panics) ==
  [entity |-> entity, panics |-> panics,
   imports |-> IF entity /\ ~panics THEN ImportsOf(ColumnFields(t)) ELSE <<>>,
   table |-> IF entity /\ ~panics THEN TableOf(t) ELSE <<>>]

walked ==
  [t \in DOMAIN Decls |->
     Looked(t, IsEntity(t), Walkable(t) /\ (FieldsPanic[t] \/ (IsEntity(t) /\ WalkStructPanics(t))))]
=============================================================================
