------------------------------- MODULE Structs -------------------------------
(***************************************************************************)
(* What goen sees of a Go struct: its fields and their tags                *)
(* (internal/structs.go, struct_tag.go).  It looks at the same struct in   *)
(* two ways, and mode says in which: "ast", the syntax trees the generator *)
(* parses (structs_a.go, asts), or "reflect", the types of the running     *)
(* program (structs_r.go).                                                 *)
(*                                                                         *)
(* A type is written as an expression, in a file of a package:             *)
(*   [k |-> "ident", name]        string, Blog                             *)
(*   [k |-> "sel", pkg, name]     uuid.UUID                                *)
(*   [k |-> "star" or "array" or "fixed", of]   *T, []T, [n]T              *)
(*   [k |-> "struct", fields], [k |-> "map"], [k |-> "interface"]          *)
(* A field has a name, "" if it is embedded, a type, and a tag: a function *)
(* from tag names to values.                                               *)
(***************************************************************************)
EXTENDS Integers, Sequences, FiniteSets, SequencesExt, TLC

CONSTANTS
  Decls,     \* the declared types: <<directory, name>> -> [file, type]
  Imports,   \* the imports of a file: <<directory, file>> -> set of [name, path]
  PkgName,   \* the package clause of each directory
  Snake,     \* strcase.SnakeCase of the names that occur
  Unexported \* the names that begin with a small letter

\* An expression where it is written; what a panic leaves behind.
View(p, where, d) == [pkg |-> p, file |-> where, decl |-> d]
PanicView == View("", "", [k |-> "panic"])

Declared(pkg, name) == <<pkg, name>> \in DOMAIN Decls
ViewsOf(decls) == [t \in DOMAIN decls |-> View(t[1], decls[t].file, decls[t].type)]
DeclViews == ViewsOf(Decls)

-----------------------------------------------------------------------------
(* Types *)

Primitives == {"string", "bool", "int", "int64", "float64"}
\* Predeclared types the table aPrimitiveKinds does not have.
OtherBuiltins == {"byte", "rune", "error"}

\* The import that a package name stands for in a file.
PathOf(found) == IF found = {} THEN "" ELSE (CHOOSE i \in found : TRUE).path
FindPkgPath(v) ==
  PathOf({i \in Imports[v.pkg, v.file] :
            i.name = v.decl.pkg \/ (i.name = "" /\ PkgName[i.path] = v.decl.pkg)})

\* What a name stands for.
TypeNamed(v) == <<IF v.decl.k = "sel" THEN FindPkgPath(v) ELSE v.pkg, v.decl.name>>

\* The type a name is declared to be, given what the declared types are in the end.
Known(known, t) == IF t \in DOMAIN known THEN known[t] ELSE PanicView
Resolved(v, known) ==
  CASE v.decl.k \notin {"ident", "sel"} -> v
    [] v.decl.k = "ident" /\ v.decl.name \in Primitives -> View("", "", [k |-> "basic"])
    [] v.decl.k = "ident" /\ v.decl.name \in OtherBuiltins -> View("", "", [k |-> "builtin"])
    [] OTHER -> Known(known, TypeNamed(v))

Resolve(views) == LET known[t \in DOMAIN views] == Resolved(views[t], known) IN known
DeclaredAs == Resolve(DeclViews)

Underlying(v) == Resolved(v, DeclaredAs)

\* By syntax, a [n]T is a slice, and what else there is makes Kind panic.
Kind ==
  [ast |-> [basic |-> "basic", star |-> "ptr", array |-> "slice", fixed |-> "slice", struct |-> "struct",
            builtin |-> "panic", map |-> "panic", interface |-> "panic", panic |-> "panic"],
   reflect |-> [basic |-> "basic", star |-> "ptr", array |-> "slice", fixed |-> "array", struct |-> "struct",
                builtin |-> "basic", map |-> "map", interface |-> "interface", panic |-> "panic"]]
Modes == DOMAIN Kind

KindOf(mode, v) == Kind[mode][Underlying(v).decl.k]

\* By syntax, a name has no element, whatever it stands for.
ElemOf(u) ==
  IF u.decl.k \in {"star", "array", "fixed"} THEN View(u.pkg, u.file, u.decl.of) ELSE PanicView
Elem(mode, v) == ElemOf(IF mode = "reflect" THEN Underlying(v) ELSE v)

Unless(mode, v, kinds, inner) == IF KindOf(mode, v) \in kinds THEN inner ELSE v

\* v, or the first of its element, the element of that and so on, whose kind is
\* none of these.
Stripped(mode, v, kinds) ==
  LET layer[n \in Nat] == IF n = 0 THEN v ELSE Elem(mode, layer[n - 1])
      from[n \in Nat] == Unless(mode, layer[n], kinds, from[n + 1])
  IN from[0]

\* reflect.Type: a declared type is where it is declared, not what it is made of.
Identity(v) ==
  IF v.decl.k = "sel" \/ (v.decl.k = "ident" /\ Declared(v.pkg, v.decl.name))
  THEN TypeNamed(v) ELSE <<"", v.decl>>

-----------------------------------------------------------------------------
(* Fields *)

\* A field of the struct that is declared by the view v.
FieldOf(v, f) == [name |-> f.name, tag |-> f.tag, view |-> View(v.pkg, v.file, f.type)]

\* With its kind, what a pointer points at, and the elements of a list.
Typed(mode, f) ==
  [name |-> f.name, tag |-> f.tag, view |-> f.view, kind |-> KindOf(mode, f.view),
   pointee |-> Stripped(mode, f.view, {"ptr"}), elem |-> Stripped(mode, f.view, {"ptr", "slice"})]

TypedFields(mode, fs) == [i \in DOMAIN fs |-> Typed(mode, fs[i])]

\* The declared type that an embedded field names, through a pointer or not.
Embedded(v, f) == TypeNamed(View(v.pkg, v.file, IF f.type.k = "star" THEN f.type.of ELSE f.type))

StructsAmong(decls) == {t \in DOMAIN decls : decls[t].type.k = "struct"}
StructTypes == StructsAmong(Decls)
IsStruct(t) == t \in StructTypes

\* aStruct.Fields leaves unexported fields out and rStruct.Fields does not; an
\* embedded type that is no struct is left out by the second.
FieldsFrom(known, t) == IF t \in DOMAIN known THEN known[t] ELSE <<>>
Flattened(mode, v, f, known) ==
  IF f.name = "" THEN FieldsFrom(known, Embedded(v, f))
  ELSE IF mode = "ast" /\ f.name \in Unexported THEN <<>> ELSE <<FieldOf(v, f)>>
Flatten(mode, v, known) ==
  FlattenSeq([i \in DOMAIN v.decl.fields |-> Flattened(mode, v, v.decl.fields[i], known)])

FlatFields(mode) == LET flat[t \in StructTypes] == Flatten(mode, DeclViews[t], flat) IN flat

\* Fields() of each struct in each mode.
fields == [mode \in Modes |-> [t \in StructTypes |-> TypedFields(mode, FlatFields(mode)[t])]]

\* No struct embeds itself: Fields would not return.
ASSUME EmbeddingEnds ==
  \A mode \in Modes, t \in StructTypes : fields[mode][t] \in Seq(ToSet(fields[mode][t]))

\* A relation is to many, if its field is a list, and to the rows of a struct.
IsOneToMany(mode, f) == f.kind = "slice" /\ KindOf(mode, f.elem) = "struct"
IsManyToOne(mode, f) == KindOf(mode, f.pointee) = "struct"

\* NewStructFromAST takes an embedded type for a struct and panics if it is not.
FieldsPanic[t \in StructTypes] ==
  \E f \in ToSet(Decls[t].type.fields) :
    f.name = "" /\ \E e \in {Embedded(DeclViews[t], f)} : ~IsStruct(e) \/ FieldsPanic[e]

-----------------------------------------------------------------------------
(* Tags *)

\* FieldsByFunc: the elements of s that are in T, in their order.
Kept(s, T) ==
  LET kept[i \in 0..Len(s)] ==
        IF i = 0 THEN <<>> ELSE IF s[i] \in T THEN Append(kept[i - 1], s[i]) ELSE kept[i - 1]
  IN kept[Len(s)]

Tagged(f, names) == DOMAIN f.tag \cap names # {}
Ignored(f) == Tagged(f, {"ignore"})
IsForeignKey(f) == Tagged(f, {"foreign_key"})
IsColumn(f) == ~Ignored(f) /\ ~IsForeignKey(f)
IsPrimaryKey(f) == Tagged(f, {"primary_key"})

\* ColumnSpec: the tag primary_key goes before column.
ColumnSpec(f) ==
  IF IsPrimaryKey(f) THEN f.tag["primary_key"]
  ELSE IF Tagged(f, {"column"}) THEN f.tag["column"] ELSE [name |-> "", omitempty |-> FALSE]

ColumnName(f) == IF ColumnSpec(f).name = "" THEN Snake[f.name] ELSE ColumnSpec(f).name
OmitEmpty(f) == ColumnSpec(f).omitempty

\* Pairs of columns; "" is "the same name as here".
ForeignKey(f) == [i \in DOMAIN f.tag["foreign_key"] |-> f.tag["foreign_key"][i][1]]
ReferenceKey(f) ==
  [i \in DOMAIN f.tag["foreign_key"] |->
     LET pair == f.tag["foreign_key"][i] IN IF pair[2] = "" THEN pair[1] ELSE pair[2]]

\* The first field with a table or a view tag names the table, unless it is "".
NamesTable(f) == ~Ignored(f) /\ Tagged(f, {"table", "view"})
NameIn(tag) == IF "table" \in DOMAIN tag THEN tag["table"] ELSE tag["view"]
FirstName(fs, otherwise) ==
  IF fs = <<>> \/ NameIn(fs[1].tag) = "" THEN otherwise ELSE NameIn(fs[1].tag)

TableName(mode, t) == FirstName(SelectSeq(fields[mode][t], NamesTable), Snake[t[2]])

IsView(mode, t) == \E f \in ToSet(fields[mode][t]) : Tagged(f, {"view"})

\* FieldByFunc of EqColumnName: the first field for a column, 0 if there is none.
FieldOfColumn(fs, c) ==
  SelectInSeq(fs, LAMBDA f : ~Ignored(f) /\ ColumnName(f) = c)
=============================================================================
