------------------------------ MODULE MetaTable ------------------------------
(***************************************************************************)
(* computeOf of the meta schema (meta.go): the table of a struct type, and *)
(* the keys by which the other registered types refer to its rows.         *)
(***************************************************************************)
EXTENDS Structs

\* metaColumn.
MetaColumn(f) == [column |-> ColumnName(f), field |-> f.name, type |-> Identity(f.view),
                  omitEmpty |-> OmitEmpty(f), pk |-> IsPrimaryKey(f)]

\* The columns that the fields of each struct would be.
AllColumns ==
  [t \in StructTypes |->
     [i \in DOMAIN fields["reflect"][t] |-> MetaColumn(fields["reflect"][t][i])]]

\* The fields of t that are columns.
TableFields(t) ==
  Kept(fields["reflect"][t], {f \in ToSet(fields["reflect"][t]) : IsColumn(f)})

ColumnsOf(t) == [i \in DOMAIN TableFields(t) |-> MetaColumn(TableFields(t)[i])]

\* The relation fields of the type other that hold rows of the type t.
ReferringFields(other, t) ==
  {f \in ToSet(fields["reflect"][other]) :
     ~Ignored(f) /\ IsForeignKey(f) /\ Identity(f.elem) = t}

\* The first column of that name: 0 if t has no such field.  All fields are
\* looked at, relation fields included.
ColumnAt(t, c) == FieldOfColumn(fields["reflect"][t], c)

\* Mutant of KeyColumns: the columns of the other side of the relation.
KeyColumnsSwapped(t, f) ==
  LET known == Kept(ForeignKey(f), {c \in ToSet(ForeignKey(f)) : ColumnAt(t, c) # 0})
  IN [i \in DOMAIN known |-> AllColumns[t][ColumnAt(t, known[i])]]

\* The columns of t that the tag of the relation field f names.  A name that no
\* field has is skipped.
KeyColumns(t, f) ==
  LET known == Kept(ReferenceKey(f), {c \in ToSet(ReferenceKey(f)) : ColumnAt(t, c) # 0})
  IN [i \in DOMAIN known |-> AllColumns[t][ColumnAt(t, known[i])]]

CardinalityOf(mode, f) ==
  IF IsOneToMany(mode, f) THEN "OneToMany" ELSE IF IsManyToOne(mode, f) THEN "ManyToOne" ELSE "None"

\* The keys of t: one for each relation of each registration of a type.
References(t, types) ==
  UNION {{[by |-> <<i, f.name>>, card |-> CardinalityOf("reflect", f), key |-> KeyColumns(t, f)] :
            f \in ReferringFields(types[i], t)} : i \in DOMAIN types}

\* referenceKeys, and of each cardinality oneToManyReferenceKeys and manyToOneReferenceKeys.
ComputeOf(t, types) ==
  [name |-> TableName("reflect", t), columns |-> ColumnsOf(t), references |-> References(t, types)]
=============================================================================
