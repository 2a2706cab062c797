------------------------------ MODULE Patches ------------------------------
(***************************************************************************)
(* Patches, statements and what they do to a database.                     *)
(*                                                                         *)
(* A Patch (patch.go) is a pending row change.  A patch compiler turns the *)
(* patches of a DBContext into squirrel statements (compiler.go), and the  *)
(* database executes those one after the other.  Identifiers and values    *)
(* are opaque; their quoting and formatting are not modelled.              *)
(***************************************************************************)
EXTENDS Integers, Sequences

CONSTANTS
  Tables,      \* table names (never the empty string)
  Columns,     \* column names
  Values,      \* plain SQL values a patch or a row key can carry
  NoRowKey,    \* the nil RowKey
  Null,        \* the value of a column an INSERT does not mention
  Deleted      \* what is left in the slot of a deleted row

ASSUME DataAssumption ==
  Deleted \notin [table : Tables, cells : [Columns -> Values \cup {Null}]]

-----------------------------------------------------------------------------
(* Patches *)

\* MapRowKey.Key: a condition col = val for each of its columns.
RowKeys == UNION {[S -> Values] : S \in SUBSET Columns}

\* PatchKind; "unknown" is any other int, which only a hand-made Patch has.
Kinds == {"insert", "update", "delete"}

Patch == [kind    : Kinds \cup {"unknown"},
          table   : Tables,
          columns : Seq(Columns),
          values  : Seq(Values),
          rowKey  : RowKeys \cup {NoRowKey}]

\* The check both compilers make before they translate a patch.
WellFormed(p) == Len(p.columns) = Len(p.values)

\* The patches InsertPatch, UpdatePatch and DeletePatch return: they panic
\* on every other argument.
InsertPatch(p) == /\ p.kind = "insert" /\ p.rowKey = NoRowKey
                  /\ p.columns # <<>> /\ WellFormed(p)
UpdatePatch(p) == p.kind = "update" /\ p.columns # <<>> /\ WellFormed(p)
DeletePatch(p) == p.kind = "delete" /\ p.columns = <<>> /\ p.values = <<>>

Constructed(p) == InsertPatch(p) \/ UpdatePatch(p) \/ DeletePatch(p)

-----------------------------------------------------------------------------
(* Statements *)

\* The squirrel builders' state: an INSERT has rows, an UPDATE sets columns
\* to values, and UPDATE and DELETE have a WHERE: the disjunction of cond.
Statement == [kind    : Kinds,
              table   : Tables,
              columns : Seq(Columns),
              values  : Seq(Values),
              rows    : Seq(Seq(Values)),
              cond    : Seq(RowKeys)]

\* A nil row key compiles to squirrel.Eq{}, which is true of every row.
RowKeyToSqlizer(k) == IF k = NoRowKey THEN [c \in {} |-> Null] ELSE k

\* The statement one patch is translated to.
Compiled(p) ==
  [kind    |-> p.kind,
   table   |-> p.table,
   columns |-> IF p.kind = "delete" THEN <<>> ELSE p.columns,
   values  |-> IF p.kind = "update" THEN p.values ELSE <<>>,
   rows    |-> IF p.kind = "insert" THEN <<p.values>> ELSE <<>>,
   cond    |-> IF p.kind = "insert" THEN <<>>
                                    ELSE <<RowKeyToSqlizer(p.rowKey)>>]

\* A statement whose every INSERT row has a value for each of its columns.
RowsMatchColumns(stmt) ==
  stmt.kind = "insert" =>
    \A i \in DOMAIN stmt.rows : Len(stmt.rows[i]) = Len(stmt.columns)

-----------------------------------------------------------------------------
(* The database: a heap of slots, each holding a row or Deleted.           *)

Row == [table : Tables, cells : [Columns -> Values \cup {Null}]]
Database == Seq(Row \cup {Deleted})

\* SET columns = values (the first of two assignments to a column counts;
\* a column without a value keeps what it has).
Assign(cells, columns, values) ==
  [c \in Columns |->
     IF \E i \in DOMAIN columns \cap DOMAIN values : columns[i] = c
       THEN values[CHOOSE i \in DOMAIN columns \cap DOMAIN values : columns[i] = c]
       ELSE cells[c]]

Matches(key, row) == \A c \in DOMAIN key : row.cells[c] = key[c]

Selected(stmt, row) ==
  /\ row # Deleted
  /\ row.table = stmt.table
  /\ \E i \in DOMAIN stmt.cond : Matches(stmt.cond[i], row)

NewRow(stmt, values) ==
  [table |-> stmt.table,
   cells |-> Assign([c \in Columns |-> Null], stmt.columns, values)]

UpdatedRow(stmt, row) ==
  [table |-> row.table, cells |-> Assign(row.cells, stmt.columns, stmt.values)]

ExecInsert(db, stmt) ==
  db \o [i \in 1..Len(stmt.rows) |-> NewRow(stmt, stmt.rows[i])]

ExecUpdate(db, stmt) ==
  [s \in 1..Len(db) |->
     IF Selected(stmt, db[s]) THEN UpdatedRow(stmt, db[s]) ELSE db[s]]

ExecDelete(db, stmt) ==
  [s \in 1..Len(db) |-> IF Selected(stmt, db[s]) THEN Deleted ELSE db[s]]

\* A successful execution of a statement.
Execute(db, stmt) ==
  CASE stmt.kind = "insert" -> ExecInsert(db, stmt)
    [] stmt.kind = "update" -> ExecUpdate(db, stmt)
    [] stmt.kind = "delete" -> ExecDelete(db, stmt)
=============================================================================
