----------------------------- MODULE BulkProofs -----------------------------
(***************************************************************************)
(* Theorems about BulkCompiler and BulkEffect, for every list of patches,  *)
(* all limits and every database: what the statements do, and what they    *)
(* are made of, all of the patches, in their order, in chunks that are as  *)
(* large as they can be.                                                   *)
(***************************************************************************)
EXTENDS BulkEffect, WellFoundedInduction, SequenceTheorems, TLAPS

\* Induction over the numbers: a set that has 0 and, with each number, the next, has
\* every number.
LEMMA SetInduction ==
  ASSUME NEW S, 0 \in S, \A n \in Nat : n \in S => n + 1 \in S
  PROVE  Nat \subseteq S
<1> SUFFICES ASSUME Nat \ S # {} PROVE FALSE
  OBVIOUS
<1> DEFINE T == Nat \ S
           R == OpToRel(<, Nat)
<1>1. \A y, x \in Nat : y < x => <<y, x>> \in R
  BY DEF OpToRel
<1>2. PICK x \in T : \A y \in T : ~(<<y, x>> \in R)
  <2>1. IsWellFoundedOn(R, Nat) /\ T \in SUBSET Nat /\ T # {}
    BY NatLessThanWellFounded
  <2> HIDE DEF R, T
  <2>2. QED
    BY <2>1, WFMin
<1> HIDE DEF R
<1>3. x # 0 /\ x - 1 \in Nat /\ x - 1 < x /\ (x - 1) + 1 = x
  BY <1>2
<1>4. x - 1 \in S
  BY <1>1, <1>2, <1>3
<1>5. QED
  BY <1>2, <1>3, <1>4

-----------------------------------------------------------------------------
(* Statements *)

LEMMA RowKeyType ==
  ASSUME NEW k \in RowKeys \cup {NoRowKey}
  PROVE  RowKeyToSqlizer(k) \in RowKeys
<1>1. [c \in {} |-> Null] \in [{} -> Values]
  OBVIOUS
<1>2. [{} -> Values] \in {[S -> Values] : S \in SUBSET Columns}
  OBVIOUS
<1>3. QED
  BY <1>1, <1>2 DEF RowKeyToSqlizer, RowKeys

LEMMA CompiledType ==
  ASSUME NEW p \in Patch, p.kind \in Kinds
  PROVE  Compiled(p) \in Statement
<1>1. RowKeyToSqlizer(p.rowKey) \in RowKeys
  BY RowKeyType DEF Patch
<1>2. /\ p.table \in Tables /\ p.columns \in Seq(Columns)
      /\ p.values \in Seq(Values)
  BY DEF Patch
<1>3. /\ <<p.values>> \in Seq(Seq(Values))
      /\ <<RowKeyToSqlizer(p.rowKey)>> \in Seq(RowKeys)
  BY <1>1, <1>2
<1>4. QED
  BY <1>2, <1>3 DEF Compiled, Statement

LEMMA ExtendedType ==
  ASSUME NEW st \in Statement, NEW p \in Patch
  PROVE  /\ Extended(st, p) \in Statement
         /\ Extended(st, p).kind = st.kind
         /\ Extended(st, p).table = st.table
         /\ Extended(st, p).columns = st.columns
         /\ Extended(st, p).values = st.values
         /\ Size(Extended(st, p)) = Size(st) + 1
<1>1. RowKeyToSqlizer(p.rowKey) \in RowKeys /\ p.values \in Seq(Values)
  BY RowKeyType DEF Patch
<1>2. st.rows \in Seq(Seq(Values)) /\ st.cond \in Seq(RowKeys)
  BY DEF Statement
<1>3. /\ Append(st.rows, p.values) \in Seq(Seq(Values))
      /\ Len(Append(st.rows, p.values)) = Len(st.rows) + 1
      /\ Append(st.cond, RowKeyToSqlizer(p.rowKey)) \in Seq(RowKeys)
      /\ Len(Append(st.cond, RowKeyToSqlizer(p.rowKey))) = Len(st.cond) + 1
  BY <1>1, <1>2, AppendProperties
<1>4. CASE st.kind = "insert"
  BY <1>3, <1>4 DEF Extended, Statement, Size
<1>5. CASE st.kind # "insert"
  BY <1>3, <1>5 DEF Extended, Statement, Size
<1>6. QED
  BY <1>4, <1>5

-----------------------------------------------------------------------------
(* The type invariant, strengthened by what an open chunk looks like.      *)

\* Every member of an open chunk is compatible with its head.
Chunk ==
  pc = "merge" =>
    /\ curr \in 1..Len(patches)
    /\ head \in 1..curr
    /\ patches[head].kind \in Kinds
    /\ stmt \in Statement
    /\ chunks \in 1..curr
    /\ LET c == Compiled(patches[head])
       IN /\ stmt.kind = c.kind
          /\ stmt.table = c.table
          /\ stmt.columns = c.columns
          /\ stmt.values = c.values

\* Between chunks the counter is reset and the builder is gone.
Closed == pc # "merge" => chunks = 0 /\ head = 0 /\ stmt = NoStatement

Inv == TypeOK /\ Chunk /\ Closed

LEMMA InitInv == Init => Inv
<1>1. ASSUME Init PROVE Inv
  <2>1. patches \in Seq(Patch)
    BY <1>1, BulkAssumption DEF Init
  <2>2. QED
    BY <1>1, <2>1, LenProperties, EmptySeq DEF Init, Inv, TypeOK, Chunk, Closed
<1>2. QED
  BY <1>1

LEMMA NextInv == Inv /\ [Next]_vars => Inv'
<1> SUFFICES ASSUME Inv, [Next]_vars PROVE Inv'
  OBVIOUS
<1> USE DEF Inv, TypeOK, Chunk, Closed
<1>0. patches \in Seq(Patch) /\ Len(patches) \in Nat
  BY BulkAssumption
<1>1. CASE PanicMismatched \/ PanicUnknownKind \/ Return
  BY <1>0, <1>1 DEF PanicMismatched, PanicUnknownKind, Return, AtPatch
<1>2. CASE OpenChunk
  <2>1. curr \in 1..Len(patches) /\ patches[curr] \in Patch
    BY <1>0, <1>2 DEF OpenChunk, AtPatch
  <2>2. Compiled(patches[curr]) \in Statement
    BY <1>2, <2>1, CompiledType DEF OpenChunk
  <2>3. QED
    BY <1>0, <1>2, <2>1, <2>2 DEF OpenChunk
<1>3. CASE MergeNext
  <2>1. curr + 1 \in 1..Len(patches) /\ patches[curr + 1] \in Patch
    BY <1>0, <1>3 DEF MergeNext, TakesNext
  <2>2. /\ stmt' \in Statement
        /\ stmt'.kind = stmt.kind /\ stmt'.table = stmt.table
        /\ stmt'.columns = stmt.columns /\ stmt'.values = stmt.values
    BY <1>3, <2>1, ExtendedType DEF MergeNext
  <2>3. QED
    BY <1>0, <1>3, <2>1, <2>2 DEF MergeNext
<1>4. CASE CloseChunk
  <2>1. sqlizers' \in Seq(Statement)
    BY <1>4, AppendProperties DEF CloseChunk
  <2>2. QED
    BY <1>0, <1>4, <2>1 DEF CloseChunk
<1>5. CASE UNCHANGED vars
  BY <1>5 DEF vars
<1>6. QED
  BY <1>1, <1>2, <1>3, <1>4, <1>5 DEF Next

\* The variables of Compile keep their types, and the cursor stays within the
\* list or one past its end (compiler.go:149-208).
THEOREM TypeCorrect == Spec => []TypeOK
<1>1. Inv => TypeOK
  BY DEF Inv
<1>2. QED
  BY InitInv, NextInv, <1>1, PTL DEF Spec
-----------------------------------------------------------------------------
(* Chunk sizes *)

\* The inner loop's counter is the size of the open statement.
SizeInv ==
  /\ pc = "merge" => Size(stmt) = chunks /\ (MaxPatches > 0 => chunks <= MaxPatches)
  /\ MaxPatches > 0 =>
       \A i \in DOMAIN sqlizers : Size(sqlizers[i]) <= MaxPatches

LEMMA CompiledSize ==
  ASSUME NEW p \in Patch
  PROVE  Size(Compiled(p)) = 1
BY DEF Size, Compiled

LEMMA NextSizeInv == Inv /\ SizeInv /\ [Next]_vars => SizeInv'
<1> SUFFICES ASSUME Inv, SizeInv, [Next]_vars PROVE SizeInv'
  OBVIOUS
<1>0. patches \in Seq(Patch) /\ MaxPatches \in Int /\ MaxPatches' = MaxPatches
  BY BulkAssumption DEF Inv, TypeOK, Next, vars, PanicMismatched, PanicUnknownKind,
     OpenChunk, MergeNext, CloseChunk, Return
<1>1. CASE PanicMismatched \/ PanicUnknownKind \/ Return
  BY <1>0, <1>1 DEF PanicMismatched, PanicUnknownKind, Return, AtPatch, SizeInv
<1>2. CASE OpenChunk
  <2>1. patches[curr] \in Patch
    BY <1>0, <1>2 DEF OpenChunk, AtPatch, Inv, TypeOK
  <2>2. Size(stmt') = 1
    BY <1>2, <2>1, CompiledSize DEF OpenChunk
  <2>3. QED
    BY <1>0, <1>2, <2>2 DEF OpenChunk, SizeInv
<1>3. CASE MergeNext
  <2>1. patches[curr + 1] \in Patch
    BY <1>0, <1>3 DEF MergeNext, TakesNext, Inv, TypeOK
  <2>2. Size(stmt') = Size(stmt) + 1
    BY <1>3, <2>1, ExtendedType DEF MergeNext, Inv, Chunk
  <2>3. chunks \in Int /\ (MaxPatches <= 0 \/ chunks < MaxPatches)
    BY <1>3 DEF MergeNext, TakesNext, CanTakeMoreChunks, Inv, TypeOK
  <2>4. QED
    BY <1>0, <1>3, <2>2, <2>3 DEF MergeNext, SizeInv
<1>4. CASE CloseChunk
  <2>1. stmt \in Statement /\ sqlizers \in Seq(Statement)
    BY <1>4 DEF CloseChunk, Inv, TypeOK, Chunk
  <2>2. /\ Len(sqlizers') = Len(sqlizers) + 1
        /\ \A i \in 1..Len(sqlizers) : sqlizers'[i] = sqlizers[i]
        /\ sqlizers'[Len(sqlizers) + 1] = stmt
        /\ DOMAIN sqlizers' = 1..Len(sqlizers) + 1
    BY <1>4, <2>1, AppendProperties DEF CloseChunk
  <2>3. MaxPatches > 0 => Size(stmt) <= MaxPatches
    BY <1>4 DEF CloseChunk, SizeInv
  <2>4. MaxPatches > 0 =>
          \A i \in 1..Len(sqlizers) : Size(sqlizers[i]) <= MaxPatches
    BY <2>1 DEF SizeInv
  <2>5. MaxPatches > 0 =>
          \A i \in DOMAIN sqlizers' : Size(sqlizers'[i]) <= MaxPatches
    <3> SUFFICES ASSUME MaxPatches > 0, NEW i \in 1..Len(sqlizers) + 1
                 PROVE  Size(sqlizers'[i]) <= MaxPatches
      BY <2>2
    <3>1. CASE i \in 1..Len(sqlizers)
      BY <2>2, <2>4, <3>1
    <3>2. CASE i = Len(sqlizers) + 1
      BY <2>2, <2>3, <3>2
    <3>3. QED
      BY <2>1, <3>1, <3>2
  <2>6. QED
    BY <1>4, <2>5 DEF CloseChunk, SizeInv
<1>5. CASE UNCHANGED vars
  BY <1>5 DEF vars, SizeInv
<1>6. QED
  BY <1>1, <1>2, <1>3, <1>4, <1>5 DEF Next

\* "MaxPatches limits values per bulk operations" (compiler.go:144): for every
\* positive limit, no statement stands for more patches than that.
THEOREM ChunksWithinLimit == Spec => []WithinMaxPatches
<1>1. Init => SizeInv
  BY DEF Init, SizeInv
<1>2. Inv /\ SizeInv => WithinMaxPatches
  <2> SUFFICES ASSUME Inv, SizeInv, MaxPatches > 0, NEW i \in DOMAIN Statements
               PROVE  Size(Statements[i]) <= MaxPatches
    BY DEF WithinMaxPatches
  <2>1. CASE pc # "merge"
    BY <2>1 DEF Statements, SizeInv
  <2>2. CASE pc = "merge"
    <3>1. stmt \in Statement /\ sqlizers \in Seq(Statement)
      BY <2>2 DEF Inv, TypeOK, Chunk
    <3>2. /\ Statements = Append(sqlizers, stmt)
          /\ DOMAIN Statements = 1..Len(sqlizers) + 1
          /\ \A j \in 1..Len(sqlizers) : Statements[j] = sqlizers[j]
          /\ Statements[Len(sqlizers) + 1] = stmt
      BY <2>2, <3>1, AppendProperties DEF Statements
    <3>3. CASE i = Len(sqlizers) + 1
      BY <2>2, <3>2, <3>3, BulkAssumption DEF SizeInv, Inv, TypeOK
    <3>4. CASE i # Len(sqlizers) + 1
      <4>1. i \in 1..Len(sqlizers)
        BY <3>1, <3>2, <3>4
      <4>2. QED
        BY <3>1, <3>2, <4>1 DEF SizeInv
    <3>5. QED
      BY <3>3, <3>4
  <2>3. QED
    BY <2>1, <2>2
<1>3. QED
  BY InitInv, NextInv, NextSizeInv, <1>1, <1>2, PTL DEF Spec

-----------------------------------------------------------------------------
(* Executing a merged statement *)

LEMMA AssignType ==
  ASSUME NEW cells \in [Columns -> Values \cup {Null}],
         NEW columns \in Seq(Columns), NEW values \in Seq(Values)
  PROVE  Assign(cells, columns, values) \in [Columns -> Values \cup {Null}]
<1> SUFFICES ASSUME NEW c \in Columns
             PROVE  Assign(cells, columns, values)[c] \in Values \cup {Null}
  BY DEF Assign
<1> DEFINE I == DOMAIN columns \cap DOMAIN values
<1>1. CASE \E i \in I : columns[i] = c
  <2>1. (CHOOSE i \in I : columns[i] = c) \in I
    BY <1>1
  <2>2. values[CHOOSE i \in I : columns[i] = c] \in Values
    BY <2>1
  <2>3. QED
    BY <1>1, <2>2 DEF Assign
<1>2. CASE ~\E i \in I : columns[i] = c
  BY <1>2 DEF Assign
<1>3. QED
  BY <1>1, <1>2

\* Setting the same columns to the same values twice sets them once.
LEMMA AssignTwice ==
  ASSUME NEW cells \in [Columns -> Values \cup {Null}], NEW columns, NEW values
  PROVE  Assign(Assign(cells, columns, values), columns, values)
           = Assign(cells, columns, values)
BY DEF Assign

LEMMA NewRowType ==
  ASSUME NEW st, st.table \in Tables, st.columns \in Seq(Columns),
         NEW values \in Seq(Values)
  PROVE  NewRow(st, values) \in Row
<1> DEFINE none == [c \in Columns |-> Null]
<1>1. none \in [Columns -> Values \cup {Null}]
  OBVIOUS
<1>2. Assign(none, st.columns, values) \in [Columns -> Values \cup {Null}]
  BY <1>1, AssignType
<1>3. QED
  BY <1>2 DEF NewRow, Row

LEMMA ExecuteType ==
  ASSUME NEW d \in Database, NEW st \in Statement
  PROVE  Execute(d, st) \in Database
<1> DEFINE Slots == Row \cup {Deleted}
<1>0. /\ st.table \in Tables /\ st.columns \in Seq(Columns)
      /\ st.values \in Seq(Values) /\ st.rows \in Seq(Seq(Values))
      /\ st.kind \in Kinds /\ d \in Seq(Slots)
  BY DEF Statement, Database
<1>1. CASE st.kind = "insert"
  <2>1. \A i \in 1..Len(st.rows) : NewRow(st, st.rows[i]) \in Slots
    <3> SUFFICES ASSUME NEW i \in 1..Len(st.rows)
                 PROVE  NewRow(st, st.rows[i]) \in Row
      OBVIOUS
    <3>1. st.rows[i] \in Seq(Values)
      BY <1>0
    <3>2. QED
      BY <1>0, <3>1, NewRowType
  <2>2. [i \in 1..Len(st.rows) |-> NewRow(st, st.rows[i])] \in Seq(Slots)
    BY <1>0, <2>1, IsASeq
  <2>3. QED
    BY <1>0, <1>1, <2>2, ConcatProperties DEF Execute, ExecInsert, Database
<1>2. CASE st.kind = "update"
  <2>1. \A s \in 1..Len(d) :
          (IF Selected(st, d[s]) THEN UpdatedRow(st, d[s]) ELSE d[s]) \in Slots
    <3> SUFFICES ASSUME NEW s \in 1..Len(d), Selected(st, d[s])
                 PROVE  UpdatedRow(st, d[s]) \in Row
      BY <1>0
    <3>1. d[s] \in Row
      BY <1>0 DEF Selected
    <3>2. QED
      BY <1>0, <3>1, AssignType DEF UpdatedRow, Row
  <2>2. ExecUpdate(d, st) \in Seq(Slots)
    BY <1>0, <2>1, IsASeq DEF ExecUpdate
  <2>3. QED
    BY <1>2, <2>2 DEF Execute, Database
<1>3. CASE st.kind = "delete"
  <2>1. ExecDelete(d, st) \in Seq(Slots)
    BY <1>0, IsASeq DEF ExecDelete
  <2>2. QED
    BY <1>3, <2>1 DEF Execute, Database
<1>4. QED
  BY <1>0, <1>1, <1>2, <1>3 DEF Kinds

LEMMA MergeInsert ==
  ASSUME NEW d \in Database, NEW st \in Statement, NEW p \in Patch,
         st.kind = "insert", p.kind = "insert",
         p.table = st.table, p.columns = st.columns
  PROVE  ExecInsert(d, Extended(st, p))
           = ExecInsert(ExecInsert(d, st), Compiled(p))
<1> DEFINE Slots == Row \cup {Deleted}
           R(x) == [i \in 1..Len(x.rows) |-> NewRow(x, x.rows[i])]
           ext == Extended(st, p)
           new == NewRow(st, p.values)
<1>1. /\ st.table \in Tables /\ st.columns \in Seq(Columns)
      /\ st.rows \in Seq(Seq(Values)) /\ p.values \in Seq(Values)
      /\ d \in Seq(Slots)
  BY DEF Statement, Patch, Database
<1>2. /\ ext.table = st.table /\ ext.columns = st.columns
      /\ ext.rows = Append(st.rows, p.values)
  BY DEF Extended, Statement
<1>3. new \in Slots /\ <<new>> \in Seq(Slots)
  BY <1>1, NewRowType
<1>4. R(st) \in Seq(Slots) /\ Len(R(st)) = Len(st.rows)
  <2>1. \A i \in 1..Len(st.rows) : NewRow(st, st.rows[i]) \in Slots
    <3> SUFFICES ASSUME NEW i \in 1..Len(st.rows)
                 PROVE  NewRow(st, st.rows[i]) \in Slots
      OBVIOUS
    <3>1. st.rows[i] \in Seq(Values)
      BY <1>1
    <3>2. QED
      BY <1>1, <3>1, NewRowType
  <2>2. QED
    BY <1>1, <2>1
<1>5. R(ext) = R(st) \o <<new>>
  <2>1. /\ ext.rows \in Seq(Seq(Values))
        /\ Len(ext.rows) = Len(st.rows) + 1
        /\ \A i \in 1..Len(st.rows) : ext.rows[i] = st.rows[i]
        /\ ext.rows[Len(st.rows) + 1] = p.values
        /\ Len(st.rows) \in Nat
    BY <1>1, <1>2, AppendProperties
  <2>2. \A v : NewRow(ext, v) = NewRow(st, v)
    BY <1>2 DEF NewRow
  <2>3. R(ext) \in Seq(Slots) /\ Len(R(ext)) = Len(st.rows) + 1
    <3>1. \A i \in 1..Len(st.rows) + 1 : NewRow(ext, ext.rows[i]) \in Slots
      <4> SUFFICES ASSUME NEW i \in 1..Len(st.rows) + 1
                   PROVE  NewRow(st, ext.rows[i]) \in Slots
        BY <2>2
      <4>1. ext.rows[i] \in Seq(Values)
        BY <2>1, ElementOfSeq
      <4>2. QED
        BY <1>1, <4>1, NewRowType
    <3>2. QED
      BY <2>1, <3>1
  <2>4. /\ R(st) \o <<new>> \in Seq(Slots)
        /\ Len(R(st) \o <<new>>) = Len(st.rows) + 1
        /\ \A i \in 1..Len(st.rows) : (R(st) \o <<new>>)[i] = R(st)[i]
        /\ (R(st) \o <<new>>)[Len(st.rows) + 1] = new
    BY <1>3, <1>4, <2>1, ConcatProperties
  <2>5. \A i \in 1..Len(st.rows) + 1 : R(ext)[i] = (R(st) \o <<new>>)[i]
    <3> SUFFICES ASSUME NEW i \in 1..Len(st.rows) + 1
                 PROVE  NewRow(st, ext.rows[i]) = (R(st) \o <<new>>)[i]
      BY <2>1, <2>2
    <3>1. CASE i = Len(st.rows) + 1
      BY <2>1, <2>4, <3>1
    <3>2. CASE i # Len(st.rows) + 1
      <4>1. i \in 1..Len(st.rows)
        BY <2>1, <3>2
      <4>2. QED
        BY <2>1, <2>4, <4>1
    <3>3. QED
      BY <3>1, <3>2
  <2>6. QED
    BY <2>3, <2>4, <2>5, SeqEqual
<1>6. R(Compiled(p)) = <<new>>
  <2>1. /\ Compiled(p).rows = <<p.values>> /\ Compiled(p).table = st.table
        /\ Compiled(p).columns = st.columns
    BY DEF Compiled
  <2>2. NewRow(Compiled(p), p.values) = new
    BY <2>1 DEF NewRow
  <2>3. QED
    BY <2>1, <2>2
<1>7. d \o (R(st) \o <<new>>) = (d \o R(st)) \o <<new>>
  <2>1. \A x, y, z \in Seq(Slots) : x \o (y \o z) = (x \o y) \o z
    BY ConcatAssociative, SMTT(20)
  <2> HIDE DEF R, new, Slots
  <2>2. QED
    BY <1>1, <1>3, <1>4, <2>1
<1>8. QED
  BY <1>5, <1>6, <1>7 DEF ExecInsert

\* The WHERE of a merged statement is the disjunction of the patches' WHEREs.
LEMMA SelectedExtended ==
  ASSUME NEW st \in Statement, NEW p \in Patch, NEW row,
         st.kind # "insert", p.kind # "insert", p.table = st.table
  PROVE  Selected(Extended(st, p), row)
           <=> Selected(st, row) \/ Selected(Compiled(p), row)
<1> DEFINE k == RowKeyToSqlizer(p.rowKey)
           ext == Extended(st, p)
<1>1. st.cond \in Seq(RowKeys) /\ k \in RowKeys
  BY RowKeyType DEF Statement, Patch
<1>2. ext.table = st.table /\ ext.cond = Append(st.cond, k)
  BY DEF Extended, Statement
<1>3. /\ DOMAIN st.cond = 1..Len(st.cond) /\ Len(st.cond) \in Nat
      /\ DOMAIN ext.cond = 1..Len(st.cond) + 1
      /\ \A i \in 1..Len(st.cond) : ext.cond[i] = st.cond[i]
      /\ ext.cond[Len(st.cond) + 1] = k
  BY <1>1, <1>2, AppendProperties
<1>4. (\E i \in DOMAIN ext.cond : Matches(ext.cond[i], row))
        <=> (\E i \in DOMAIN st.cond : Matches(st.cond[i], row)) \/ Matches(k, row)
  BY <1>3, SMTT(20)
<1>5. Compiled(p).cond = <<k>> /\ Compiled(p).table = st.table
  BY DEF Compiled
<1>6. (\E i \in DOMAIN Compiled(p).cond : Matches(Compiled(p).cond[i], row))
        <=> Matches(k, row)
  BY <1>5
<1>7. QED
  BY <1>2, <1>4, <1>5, <1>6 DEF Selected

LEMMA MergeDelete ==
  ASSUME NEW d \in Database, NEW st \in Statement, NEW p \in Patch,
         st.kind = "delete", p.kind = "delete", p.table = st.table
  PROVE  ExecDelete(d, Extended(st, p))
           = ExecDelete(ExecDelete(d, st), Compiled(p))
<1>1. \A row : Selected(Extended(st, p), row)
                 <=> Selected(st, row) \/ Selected(Compiled(p), row)
  BY SelectedExtended
<1>2. Len(d) \in Nat /\ Len(ExecDelete(d, st)) = Len(d)
  BY DEF Database, ExecDelete
<1>3. ~Selected(Compiled(p), Deleted)
  BY DEF Selected
<1>4. QED
  BY <1>1, <1>2, <1>3 DEF ExecDelete

LEMMA MergeUpdate ==
  ASSUME NEW d \in Database, NEW st \in Statement, NEW p \in Patch,
         st.kind = "update", p.kind = "update", p.table = st.table,
         p.columns = st.columns, p.values = st.values
  PROVE  ExecUpdate(d, Extended(st, p))
           = ExecUpdate(ExecUpdate(d, st), Compiled(p))
<1> DEFINE ext == Extended(st, p)
           c == Compiled(p)
<1>1. \A row : Selected(ext, row) <=> Selected(st, row) \/ Selected(c, row)
  BY SelectedExtended
<1>2. /\ ext.columns = st.columns /\ ext.values = st.values
      /\ c.columns = st.columns /\ c.values = st.values
  BY DEF Extended, Compiled, Statement
<1>3. \A row : UpdatedRow(ext, row) = UpdatedRow(st, row)
               /\ UpdatedRow(c, row) = UpdatedRow(st, row)
  BY <1>2 DEF UpdatedRow
<1>4. \A row \in Row : UpdatedRow(st, UpdatedRow(st, row)) = UpdatedRow(st, row)
  BY AssignTwice DEF UpdatedRow, Row
<1>5. Len(d) \in Nat /\ Len(ExecUpdate(d, st)) = Len(d)
  BY DEF Database, ExecUpdate
<1>6. \A s \in 1..Len(d) :
        ExecUpdate(d, ext)[s] = ExecUpdate(ExecUpdate(d, st), c)[s]
  <2> SUFFICES ASSUME NEW s \in 1..Len(d)
               PROVE  ExecUpdate(d, ext)[s] = ExecUpdate(ExecUpdate(d, st), c)[s]
    OBVIOUS
  <2> DEFINE r == ExecUpdate(d, st)[s]
  <2>1. ExecUpdate(ExecUpdate(d, st), c)[s]
          = IF Selected(c, r) THEN UpdatedRow(st, r) ELSE r
    BY <1>3, <1>5 DEF ExecUpdate
  <2>2. ExecUpdate(d, ext)[s]
          = IF Selected(ext, d[s]) THEN UpdatedRow(st, d[s]) ELSE d[s]
    BY <1>3 DEF ExecUpdate
  <2>3. CASE Selected(st, d[s])
    <3>1. r = UpdatedRow(st, d[s])
      BY <2>3 DEF ExecUpdate
    <3>2. d[s] \in Row
      BY <2>3 DEF Selected, Database
    <3>3. UpdatedRow(st, r) = r
      BY <1>4, <3>1, <3>2
    <3>4. QED
      BY <1>1, <2>1, <2>2, <2>3, <3>1, <3>3
  <2>4. CASE ~Selected(st, d[s])
    <3>1. r = d[s]
      BY <2>4 DEF ExecUpdate
    <3>2. QED
      BY <1>1, <2>1, <2>2, <2>4, <3>1
  <2>5. QED
    BY <2>3, <2>4
<1>7. QED
  BY <1>5, <1>6 DEF ExecUpdate
-----------------------------------------------------------------------------
(* The refinement *)

LEMMA MergeEffect ==
  ASSUME NEW d \in Database, NEW st \in Statement, NEW p \in Patch,
         p.kind = st.kind, p.table = st.table,
         p.kind # "delete" => p.columns = st.columns,
         p.kind = "update" => p.values = st.values
  PROVE  Execute(d, Extended(st, p)) = Execute(Execute(d, st), Compiled(p))
<1>1. /\ Extended(st, p).kind = st.kind /\ Compiled(p).kind = st.kind
      /\ st.kind \in Kinds
  BY ExtendedType DEF Compiled, Statement
<1>2. CASE st.kind = "insert"
  BY <1>1, <1>2, MergeInsert DEF Execute
<1>3. CASE st.kind = "update"
  BY <1>1, <1>3, MergeUpdate DEF Execute
<1>4. CASE st.kind = "delete"
  BY <1>1, <1>4, MergeDelete DEF Execute
<1>5. QED
  BY <1>1, <1>2, <1>3, <1>4 DEF Kinds

LEMMA AppendCompiled ==
  ASSUME NEW l, NEW m \in Nat
  PROVE  [i \in 1..m + 1 |-> Compiled(l[i])]
           = Append([i \in 1..m |-> Compiled(l[i])], Compiled(l[m + 1]))
<1> DEFINE C(i) == Compiled(l[i])
           S == {C(i) : i \in 1..m + 1}
           f == [i \in 1..m |-> C(i)]
           g == [i \in 1..m + 1 |-> C(i)]
<1>1. \A i \in 1..m + 1 : C(i) \in S
  OBVIOUS
<1> HIDE DEF C, S
<1>2. f \in Seq(S) /\ Len(f) = m /\ g \in Seq(S) /\ Len(g) = m + 1
  BY <1>1
<1>3. /\ Append(f, C(m + 1)) \in Seq(S) /\ Len(Append(f, C(m + 1))) = m + 1
      /\ \A i \in 1..m : Append(f, C(m + 1))[i] = f[i]
      /\ Append(f, C(m + 1))[m + 1] = C(m + 1)
  BY <1>1, <1>2, AppendProperties
<1>4. \A i \in 1..m + 1 : g[i] = Append(f, C(m + 1))[i]
  <2> SUFFICES ASSUME NEW i \in 1..m + 1 PROVE C(i) = Append(f, C(m + 1))[i]
    OBVIOUS
  <2>1. CASE i = m + 1
    BY <1>3, <2>1
  <2>2. CASE i \in 1..m
    BY <1>3, <2>2
  <2>3. QED
    BY <2>1, <2>2
<1>5. g = Append(f, C(m + 1))
  BY <1>2, <1>3, <1>4, SeqEqual
<1>6. QED
  BY <1>5 DEF C

\* The abstract module's copies of the data operators are the same operators.
LEMMA SameOperators ==
  /\ \A p : /\ PatchByPatch!WellFormed(p) <=> WellFormed(p)
            /\ PatchByPatch!Compiled(p) = Compiled(p)
  /\ \A d, st : PatchByPatch!Execute(d, st) = Execute(d, st)
  /\ PatchByPatch!Kinds = Kinds
<1>1. \A k : PatchByPatch!RowKeyToSqlizer(k) = RowKeyToSqlizer(k)
  BY DEF RowKeyToSqlizer, PatchByPatch!RowKeyToSqlizer
<1>2. \A st, row : PatchByPatch!Selected(st, row) <=> Selected(st, row)
  BY DEF Selected, Matches, PatchByPatch!Selected, PatchByPatch!Matches
<1>3. \A x, y, z : PatchByPatch!Assign(x, y, z) = Assign(x, y, z)
  BY DEF Assign, PatchByPatch!Assign
<1>4. \A st, x : /\ PatchByPatch!NewRow(st, x) = NewRow(st, x)
                 /\ PatchByPatch!UpdatedRow(st, x) = UpdatedRow(st, x)
  BY <1>3 DEF NewRow, UpdatedRow, PatchByPatch!NewRow, PatchByPatch!UpdatedRow
<1>5. \A d, st : /\ PatchByPatch!ExecInsert(d, st) = ExecInsert(d, st)
                 /\ PatchByPatch!ExecUpdate(d, st) = ExecUpdate(d, st)
                 /\ PatchByPatch!ExecDelete(d, st) = ExecDelete(d, st)
  BY <1>2, <1>4 DEF ExecInsert, ExecUpdate, ExecDelete,
     PatchByPatch!ExecInsert, PatchByPatch!ExecUpdate, PatchByPatch!ExecDelete
<1>6. QED
  BY <1>1, <1>5 DEF WellFormed, PatchByPatch!WellFormed, Compiled,
     PatchByPatch!Compiled, Execute, PatchByPatch!Execute, Kinds, PatchByPatch!Kinds

EffectInv == Inv /\ db \in Database

LEMMA NextEffectInv == EffectInv /\ [ENext]_evars => EffectInv'
<1> SUFFICES ASSUME EffectInv, [ENext]_evars PROVE EffectInv'
  OBVIOUS
<1>1. [Next]_vars
  BY DEF ENext, EOther, EClose, Next, evars
<1>2. Inv'
  BY <1>1, NextInv DEF EffectInv
<1>3. CASE EClose
  <2>1. stmt \in Statement
    BY <1>3 DEF EClose, CloseChunk, EffectInv, Inv, Chunk
  <2>2. QED
    BY <1>2, <1>3, <2>1, ExecuteType DEF EClose, EffectInv
<1>4. CASE EOther \/ UNCHANGED evars
  BY <1>2, <1>4 DEF EOther, evars, EffectInv
<1>5. QED
  BY <1>3, <1>4 DEF ENext

\* The lists the theorem is about: no patch has more or fewer values than
\* columns, which holds of the patches the constructors of patch.go return.
AllWellFormed == \A l \in PatchLists : \A i \in DOMAIN l : WellFormed(l[i])

LEMMA StepImplements ==
  ASSUME AllWellFormed, EffectInv, [ENext]_evars
  PROVE  [PatchByPatch!Next]_(PatchByPatch!vars)
<1> DEFINE aSqlizers == [i \in 1..Taken |-> Compiled(patches[i])]
           aPc == IF pc = "merge" THEN "loop" ELSE pc
           aDb == IF pc = "merge" THEN Execute(db, stmt) ELSE db
<1>0. /\ patches \in Seq(Patch) /\ Len(patches) \in Nat
      /\ curr \in 1..Len(patches) + 1 /\ db \in Database
  BY BulkAssumption DEF EffectInv, Inv, TypeOK
<1>1. CASE PanicMismatched /\ UNCHANGED db
  BY <1>0, <1>1, SameOperators DEF PanicMismatched, AtPatch, Taken,
     PatchByPatch!Next, PatchByPatch!PanicMismatched, PatchByPatch!AtPatch
<1>2. CASE PanicUnknownKind /\ UNCHANGED db
  BY <1>0, <1>2, SameOperators DEF PanicUnknownKind, AtPatch, Taken,
     PatchByPatch!Next, PatchByPatch!PanicUnknownKind, PatchByPatch!AtPatch
<1>3. CASE Return /\ UNCHANGED db
  BY <1>0, <1>3 DEF Return, Taken, PatchByPatch!Next, PatchByPatch!Return
<1>4. CASE OpenChunk /\ UNCHANGED db
  <2>1. Taken = curr - 1 /\ Taken' = curr /\ patches' = patches
    BY <1>4 DEF OpenChunk, AtPatch, Taken
  <2>2. aSqlizers' = Append(aSqlizers, Compiled(patches[curr]))
    <3>1. curr - 1 \in Nat /\ (curr - 1) + 1 = curr
      BY <1>0
    <3>2. QED
      BY <2>1, <3>1, AppendCompiled
  <2>3. aDb' = Execute(aDb, Compiled(patches[curr])) /\ aPc = "loop" /\ aPc' = "loop"
    BY <1>4 DEF OpenChunk, AtPatch
  <2>4. PatchByPatch!Translate
    BY <1>0, <1>4, <2>1, <2>2, <2>3, SameOperators
       DEF OpenChunk, AtPatch, PatchByPatch!Translate, PatchByPatch!AtPatch
  <2>5. QED
    BY <2>4 DEF PatchByPatch!Next
<1>5. CASE MergeNext /\ UNCHANGED db
  <2>1. Taken = curr /\ Taken' = curr + 1 /\ patches' = patches
    BY <1>5 DEF MergeNext, Taken
  <2>2. aSqlizers' = Append(aSqlizers, Compiled(patches[curr + 1]))
    BY <1>0, <2>1, AppendCompiled
  <2>3. aDb' = Execute(aDb, Compiled(patches[curr + 1]))
    <3>1. patches[curr + 1] \in Patch /\ stmt \in Statement
      BY <1>0, <1>5 DEF MergeNext, TakesNext, EffectInv, Inv, Chunk
    <3>2. /\ patches[curr + 1].kind = stmt.kind
          /\ patches[curr + 1].table = stmt.table
          /\ patches[curr + 1].kind # "delete" => patches[curr + 1].columns = stmt.columns
          /\ patches[curr + 1].kind = "update" => patches[curr + 1].values = stmt.values
      BY <1>5 DEF MergeNext, TakesNext, IsCompat, EffectInv, Inv, Chunk, Compiled
    <3>3. Execute(db, Extended(stmt, patches[curr + 1]))
            = Execute(Execute(db, stmt), Compiled(patches[curr + 1]))
      BY <1>0, <3>1, <3>2, MergeEffect
    <3>4. QED
      BY <1>5, <3>3 DEF MergeNext
  <2>4. WellFormed(patches[curr + 1]) /\ patches[curr + 1].kind \in Kinds
    <3>1. WellFormed(patches[curr + 1])
      BY <1>0, <1>5 DEF AllWellFormed, EffectInv, Inv, TypeOK, MergeNext, TakesNext
    <3>2. QED
      BY <1>5, <3>1 DEF MergeNext, TakesNext, IsCompat, EffectInv, Inv, Chunk
  <2>5. PatchByPatch!Translate
    BY <1>0, <1>5, <2>1, <2>2, <2>3, <2>4, SameOperators
       DEF MergeNext, TakesNext, PatchByPatch!Translate, PatchByPatch!AtPatch
  <2>6. QED
    BY <2>5 DEF PatchByPatch!Next
<1>6. CASE EClose
  <2>1. Taken' = Taken /\ patches' = patches
    BY <1>0, <1>6 DEF EClose, CloseChunk, Taken
  <2>2. aSqlizers' = aSqlizers /\ aDb' = aDb /\ aPc' = aPc
    BY <1>6, <2>1 DEF EClose, CloseChunk
  <2>3. QED
    BY <2>1, <2>2 DEF PatchByPatch!vars
<1>7. CASE UNCHANGED evars
  BY <1>7 DEF evars, vars, Taken, PatchByPatch!vars
<1>8. QED
  BY <1>1, <1>2, <1>3, <1>4, <1>5, <1>6, <1>7 DEF ENext, EOther

\* On well-formed patches the bulk compiler implements the default compiler:
\* after each patch it takes, the statements it has built do to any database
\* what one statement per patch does, whatever the limit on the chunks.
THEOREM BulkImplementsDefault ==
  ASSUME AllWellFormed
  PROVE  ESpec => ImplementsDefaultCompiler
<1>1. EInit => EffectInv
  BY InitInv, EffectAssumption DEF EInit, EffectInv
<1>2. EInit => PatchByPatch!Init
  BY DEF EInit, Init, Taken, PatchByPatch!Init
<1>3. EffectInv /\ [ENext]_evars => [PatchByPatch!Next]_(PatchByPatch!vars)
  BY StepImplements
<1>4. QED
  BY <1>1, <1>2, <1>3, NextEffectInv, PTL
     DEF ESpec, ImplementsDefaultCompiler, PatchByPatch!Spec

-----------------------------------------------------------------------------
(* What the statements are made of: FlattenSeq joins the chunks *)

\* The function FlattenSeq defines: its value at i flattens the first i.
IsFlat(f, ss, n) ==
  f = [i \in 1..n |-> IF i = 1 THEN ss[i] ELSE f[i - 1] \o ss[i]]

LEMMA FlatExists ==
  ASSUME NEW ss, NEW n \in Nat
  PROVE  \E f : IsFlat(f, ss, n)
<1> DEFINE S == {m \in Nat : \E f : IsFlat(f, ss, m)}
<1>1. 0 \in S
  <2> DEFINE f == [i \in 1..0 |-> 0]
  <2>1. IsFlat(f, ss, 0)
    BY DEF IsFlat
  <2>2. QED
    BY <2>1
<1>2. ASSUME NEW m \in Nat, m \in S PROVE m + 1 \in S
  <2>1. PICK f : IsFlat(f, ss, m)
    BY <1>2
  <2> DEFINE g == [i \in 1..m + 1 |->
                     IF i <= m THEN f[i] ELSE IF i = 1 THEN ss[i] ELSE f[i - 1] \o ss[i]]
  <2>2. \A i \in 1..m : f[i] = IF i = 1 THEN ss[i] ELSE f[i - 1] \o ss[i]
    BY <2>1 DEF IsFlat
  <2>3. \A i \in 1..m + 1 : g[i] = IF i = 1 THEN ss[i] ELSE g[i - 1] \o ss[i]
    <3> SUFFICES ASSUME NEW i \in 1..m + 1
                 PROVE  g[i] = IF i = 1 THEN ss[i] ELSE g[i - 1] \o ss[i]
      OBVIOUS
    <3>1. i # 1 => i - 1 \in 1..m /\ g[i - 1] = f[i - 1]
      OBVIOUS
    <3>2. g[i] = IF i <= m THEN f[i] ELSE IF i = 1 THEN ss[i] ELSE f[i - 1] \o ss[i]
      OBVIOUS
    <3> HIDE DEF g
    <3>3. CASE i <= m
      BY <2>2, <3>1, <3>2, <3>3
    <3>4. CASE ~(i <= m)
      BY <3>1, <3>2, <3>4
    <3>5. QED
      BY <3>3, <3>4
  <2>4. g = [i \in 1..m + 1 |-> g[i]]
    OBVIOUS
  <2> HIDE DEF g
  <2>5. IsFlat(g, ss, m + 1)
    BY <2>3, <2>4 DEF IsFlat
  <2>6. QED
    BY <2>5
<1> HIDE DEF S
<1>3. Nat \subseteq S
  BY <1>1, <1>2, SetInduction
<1>4. QED
  BY <1>3 DEF S

SameUpTo(f, g, n) == \A i \in 1..n : f[i] = g[i]

\* It does not depend on what follows the first elements.
LEMMA FlatAgree ==
  ASSUME NEW n \in Nat, NEW m \in Nat, n <= m, NEW ss, NEW tt, SameUpTo(ss, tt, n),
         NEW f, NEW g, IsFlat(f, ss, n), IsFlat(g, tt, m)
  PROVE  SameUpTo(f, g, n)
<1> DEFINE S == {k \in Nat : k + 1 \in 1..n => f[k + 1] = g[k + 1]}
<1>1. /\ \A i \in 1..n : f[i] = IF i = 1 THEN ss[i] ELSE f[i - 1] \o ss[i]
      /\ \A i \in 1..n : g[i] = IF i = 1 THEN tt[i] ELSE g[i - 1] \o tt[i]
  <2>1. \A i \in 1..n : i \in 1..m
    OBVIOUS
  <2>2. QED
    BY <2>1 DEF IsFlat
<1>s. \A i \in 1..n : ss[i] = tt[i]
  BY DEF SameUpTo
<1>2. 0 \in S
  BY <1>1, <1>s
<1>3. ASSUME NEW k \in Nat, k \in S PROVE k + 1 \in S
  <2> SUFFICES ASSUME (k + 1) + 1 \in 1..n PROVE f[(k + 1) + 1] = g[(k + 1) + 1]
    OBVIOUS
  <2>1. k + 1 \in 1..n /\ (k + 1) + 1 # 1 /\ ((k + 1) + 1) - 1 = k + 1
    OBVIOUS
  <2>2. f[k + 1] = g[k + 1]
    BY <1>3, <2>1
  <2>3. QED
    BY <1>1, <1>s, <2>1, <2>2
<1> HIDE DEF S
<1>4. Nat \subseteq S
  BY <1>2, <1>3, SetInduction
<1>5. ASSUME NEW i \in 1..n PROVE f[i] = g[i]
  <2>1. i - 1 \in S /\ (i - 1) + 1 = i
    BY <1>4
  <2>2. QED
    BY <2>1 DEF S
<1>6. QED
  BY <1>5 DEF SameUpTo

LEMMA FlattenIs ==
  ASSUME NEW ss, Len(ss) \in Nat \ {0}
  PROVE  \E f : IsFlat(f, ss, Len(ss)) /\ FlattenSeq(ss) = f[Len(ss)]
<1> DEFINE f == CHOOSE f : IsFlat(f, ss, Len(ss))
<1>1. IsFlat(f, ss, Len(ss))
  BY FlatExists
<1>2. FlattenSeq(ss) = f[Len(ss)]
  BY DEF FlattenSeq, IsFlat
<1>3. QED
  BY <1>1, <1>2

LEMMA FlattenAppend ==
  ASSUME NEW S, NEW ss \in Seq(Seq(S)), NEW s \in Seq(S)
  PROVE  FlattenSeq(Append(ss, s)) = FlattenSeq(ss) \o s
<1> DEFINE tt == Append(ss, s)
           n == Len(ss)
<1>1. /\ n \in Nat /\ tt \in Seq(Seq(S)) /\ Len(tt) = n + 1
      /\ \A i \in 1..n : tt[i] = ss[i]
      /\ tt[n + 1] = s
  BY AppendProperties
<1> HIDE DEF tt
<1>2. PICK g : IsFlat(g, tt, n + 1) /\ FlattenSeq(tt) = g[n + 1]
  BY <1>1, FlattenIs
<1>3. g[n + 1] = IF n + 1 = 1 THEN tt[n + 1] ELSE g[n] \o tt[n + 1]
  <2>1. n + 1 \in 1..n + 1 /\ (n + 1) - 1 = n
    BY <1>1
  <2>2. QED
    BY <1>2, <2>1 DEF IsFlat
<1>4. CASE n = 0
  <2>1. ss = <<>> /\ FlattenSeq(ss) = <<>>
    BY <1>4, EmptySeq DEF FlattenSeq
  <2>2. <<>> \o s = s
    BY ConcatEmptySeq
  <2>3. QED
    BY <1>1, <1>2, <1>3, <1>4, <2>1, <2>2 DEF tt
<1>5. CASE n # 0
  <2>1. PICK f : IsFlat(f, ss, n) /\ FlattenSeq(ss) = f[n]
    BY <1>1, <1>5, FlattenIs
  <2>2. f[n] = g[n]
    <3>1. SameUpTo(f, g, n)
      <4>1. SameUpTo(ss, tt, n) /\ n \in Nat /\ n + 1 \in Nat /\ n <= n + 1
        BY <1>1 DEF SameUpTo
      <4>2. IsFlat(f, ss, n) /\ IsFlat(g, tt, n + 1)
        BY <1>2, <2>1
      <4> HIDE DEF n
      <4>3. QED
        BY <4>1, <4>2, FlatAgree
    <3>2. n \in 1..n
      BY <1>1, <1>5
    <3>3. QED
      BY <3>1, <3>2 DEF SameUpTo
  <2>3. QED
    BY <1>1, <1>2, <1>3, <1>5, <2>1, <2>2 DEF tt
<1>6. QED
  BY <1>4, <1>5

-----------------------------------------------------------------------------
(* The patches of a statement                                              *)

\* An INSERT has no condition, and nothing else has rows.
Shaped(st) == IF st.kind = "insert" THEN st.cond = <<>> ELSE st.rows = <<>>

\* p has what the other patches of st have in common.
Joins(st, p) ==
  /\ st.kind = p.kind
  /\ st.table = Compiled(p).table
  /\ st.columns = Compiled(p).columns
  /\ st.values = Compiled(p).values

LEMMA SizeType == ASSUME NEW st \in Statement PROVE Size(st) \in Nat
BY DEF Size, Statement

LEMMA SplitType ==
  ASSUME NEW st \in Statement
  PROVE  Split(st) \in Seq(Statement) /\ Len(Split(st)) = Size(st)
<1> DEFINE e(i) == IF st.kind = "insert" THEN [st EXCEPT !.rows = <<st.rows[i]>>]
                                         ELSE [st EXCEPT !.cond = <<st.cond[i]>>]
<1>0. st.rows \in Seq(Seq(Values)) /\ st.cond \in Seq(RowKeys)
  BY DEF Statement
<1>1. \A i \in 1..Size(st) : e(i) \in Statement
  <2> SUFFICES ASSUME NEW i \in 1..Size(st) PROVE e(i) \in Statement
    OBVIOUS
  <2>1. CASE st.kind = "insert"
    <3>1. <<st.rows[i]>> \in Seq(Seq(Values))
      <4>1. st.rows[i] \in Seq(Values)
        BY <1>0, <2>1, ElementOfSeq DEF Size
      <4>2. QED
        BY <4>1
    <3>2. QED
      BY <2>1, <3>1 DEF Statement
  <2>2. CASE st.kind # "insert"
    <3>1. <<st.cond[i]>> \in Seq(RowKeys)
      <4>1. st.cond[i] \in RowKeys
        BY <1>0, <2>2, ElementOfSeq DEF Size
      <4>2. QED
        BY <4>1
    <3>2. QED
      BY <2>2, <3>1 DEF Statement
  <2>3. QED
    BY <2>1, <2>2
<1>2. Split(st) = [i \in 1..Size(st) |-> e(i)]
  BY DEF Split
<1> HIDE DEF e
<1>3. QED
  BY <1>1, <1>2, SizeType

LEMMA SplitCompiled ==
  ASSUME NEW p \in Patch, p.kind \in Kinds
  PROVE  Split(Compiled(p)) = <<Compiled(p)>>
<1> DEFINE c == Compiled(p)
<1>1. Size(c) = 1
  BY CompiledSize
<1>2. (IF c.kind = "insert" THEN [c EXCEPT !.rows = <<c.rows[1]>>]
                            ELSE [c EXCEPT !.cond = <<c.cond[1]>>]) = c
  <2>1. CASE p.kind = "insert"
    BY <2>1 DEF Compiled
  <2>2. CASE p.kind # "insert"
    BY <2>2 DEF Compiled
  <2>3. QED
    BY <2>1, <2>2
<1>3. Split(c) = [i \in 1..1 |-> IF c.kind = "insert" THEN [c EXCEPT !.rows = <<c.rows[i]>>]
                                                   ELSE [c EXCEPT !.cond = <<c.cond[i]>>]]
  BY <1>1 DEF Split
<1> HIDE DEF c
<1>4. Split(c) = [i \in 1..1 |-> c]
  BY <1>2, <1>3
<1>5. QED
  BY <1>4 DEF c

LEMMA SplitExtended ==
  ASSUME NEW st \in Statement, NEW p \in Patch, Shaped(st), Joins(st, p)
  PROVE  Split(Extended(st, p)) = Append(Split(st), Compiled(p))
<1> DEFINE ext == Extended(st, p)
           n == Size(st)
<1>0. /\ n \in Nat /\ ext \in Statement /\ ext.kind = st.kind /\ Size(ext) = n + 1
      /\ p.kind \in Kinds /\ Compiled(p) \in Statement
      /\ st.rows \in Seq(Seq(Values)) /\ st.cond \in Seq(RowKeys)
      /\ p.values \in Seq(Values) /\ RowKeyToSqlizer(p.rowKey) \in RowKeys
  <2>1. p.kind \in Kinds
    BY DEF Joins, Statement
  <2>2. QED
    BY <2>1, SizeType, ExtendedType, CompiledType, RowKeyType DEF Statement, Patch
<1>1. /\ Split(st) \in Seq(Statement) /\ Len(Split(st)) = n
      /\ Split(ext) \in Seq(Statement) /\ Len(Split(ext)) = n + 1
  BY <1>0, SplitType
<1>2. /\ Append(Split(st), Compiled(p)) \in Seq(Statement)
      /\ Len(Append(Split(st), Compiled(p))) = n + 1
      /\ \A i \in 1..n : Append(Split(st), Compiled(p))[i] = Split(st)[i]
      /\ Append(Split(st), Compiled(p))[n + 1] = Compiled(p)
  BY <1>0, <1>1, AppendProperties
<1>3. \A i \in 1..n : Split(ext)[i] = Split(st)[i]
  <2> SUFFICES ASSUME NEW i \in 1..n PROVE Split(ext)[i] = Split(st)[i]
    OBVIOUS
  <2>0. i \in 1..n + 1
    BY <1>0
  <2>1. CASE st.kind = "insert"
    <3>1. ext = [st EXCEPT !.rows = Append(st.rows, p.values)] /\ n = Len(st.rows)
      BY <2>1 DEF Extended, Size
    <3>2. ext.rows[i] = st.rows[i]
      <4>1. ext.rows = Append(st.rows, p.values)
        BY <3>1 DEF Statement
      <4>2. QED
        BY <1>0, <3>1, <4>1, AppendProperties
    <3>3. [ext EXCEPT !.rows = <<ext.rows[i]>>] = [st EXCEPT !.rows = <<st.rows[i]>>]
      BY <3>1, <3>2 DEF Statement
    <3>4. QED
      BY <1>0, <2>0, <2>1, <3>3 DEF Split
  <2>2. CASE st.kind # "insert"
    <3> DEFINE k == RowKeyToSqlizer(p.rowKey)
    <3>1. ext = [st EXCEPT !.cond = Append(st.cond, k)] /\ n = Len(st.cond)
      BY <2>2 DEF Extended, Size
    <3>2. ext.cond[i] = st.cond[i]
      <4>1. ext.cond = Append(st.cond, k)
        BY <3>1 DEF Statement
      <4>2. QED
        BY <1>0, <3>1, <4>1, AppendProperties
    <3>3. [ext EXCEPT !.cond = <<ext.cond[i]>>] = [st EXCEPT !.cond = <<st.cond[i]>>]
      BY <3>1, <3>2 DEF Statement
    <3>4. QED
      BY <1>0, <2>0, <2>2, <3>3 DEF Split
  <2>3. QED
    BY <2>1, <2>2
<1>4. Split(ext)[n + 1] = Compiled(p)
  <2>0. n + 1 \in 1..n + 1
    BY <1>0
  <2>1. CASE st.kind = "insert"
    <3>1. ext = [st EXCEPT !.rows = Append(st.rows, p.values)] /\ n = Len(st.rows)
      BY <2>1 DEF Extended, Size
    <3>2. ext.rows[n + 1] = p.values
      <4>1. ext.rows = Append(st.rows, p.values)
        BY <3>1 DEF Statement
      <4>2. QED
        BY <1>0, <3>1, <4>1, AppendProperties
    <3>3. [ext EXCEPT !.rows = <<ext.rows[n + 1]>>] = [st EXCEPT !.rows = <<p.values>>]
      BY <3>1, <3>2 DEF Statement
    <3>4. [st EXCEPT !.rows = <<p.values>>] = Compiled(p)
      <4>1. /\ st.kind = p.kind /\ st.table = p.table /\ st.columns = p.columns
            /\ st.values = <<>> /\ st.cond = <<>>
        BY <2>1 DEF Shaped, Joins, Compiled
      <4>2. st = [kind |-> st.kind, table |-> st.table, columns |-> st.columns,
                  values |-> st.values, rows |-> st.rows, cond |-> st.cond]
        BY DEF Statement
      <4>3. [st EXCEPT !.rows = <<p.values>>]
              = [kind |-> st.kind, table |-> st.table, columns |-> st.columns,
                 values |-> st.values, rows |-> <<p.values>>, cond |-> st.cond]
        BY <4>2
      <4>4. QED
        BY <2>1, <4>1, <4>3 DEF Compiled
    <3>5. QED
      BY <1>0, <2>0, <2>1, <3>3, <3>4 DEF Split
  <2>2. CASE st.kind # "insert"
    <3> DEFINE k == RowKeyToSqlizer(p.rowKey)
    <3>1. ext = [st EXCEPT !.cond = Append(st.cond, k)] /\ n = Len(st.cond)
      BY <2>2 DEF Extended, Size
    <3>2. ext.cond[n + 1] = k
      <4>1. ext.cond = Append(st.cond, k)
        BY <3>1 DEF Statement
      <4>2. QED
        BY <1>0, <3>1, <4>1, AppendProperties
    <3>3. [ext EXCEPT !.cond = <<ext.cond[n + 1]>>] = [st EXCEPT !.cond = <<k>>]
      BY <3>1, <3>2 DEF Statement
    <3>4. [st EXCEPT !.cond = <<k>>] = Compiled(p)
      <4>1. /\ st.kind = p.kind /\ st.table = p.table /\ st.columns = Compiled(p).columns
            /\ st.values = Compiled(p).values /\ st.rows = <<>>
        BY <2>2 DEF Shaped, Joins, Compiled
      <4>2. st = [kind |-> st.kind, table |-> st.table, columns |-> st.columns,
                  values |-> st.values, rows |-> st.rows, cond |-> st.cond]
        BY DEF Statement
      <4>3. [st EXCEPT !.cond = <<k>>]
              = [kind |-> st.kind, table |-> st.table, columns |-> st.columns,
                 values |-> st.values, rows |-> st.rows, cond |-> <<k>>]
        BY <4>2
      <4>4. QED
        BY <2>2, <4>1, <4>3 DEF Compiled
    <3>5. QED
      BY <1>0, <2>0, <2>2, <3>3, <3>4 DEF Split
  <2>3. QED
    BY <2>1, <2>2
<1>5. \A i \in 1..n + 1 : Split(ext)[i] = Append(Split(st), Compiled(p))[i]
  <2> SUFFICES ASSUME NEW i \in 1..n + 1
               PROVE  Split(ext)[i] = Append(Split(st), Compiled(p))[i]
    OBVIOUS
  <2>1. i \in 1..n \/ i = n + 1
    BY <1>0
  <2>2. QED
    BY <1>2, <1>3, <1>4, <2>1
<1>6. QED
  BY <1>1, <1>2, <1>5, SeqEqual

LEMMA FlattenType ==
  ASSUME NEW S, NEW ss \in Seq(Seq(S))
  PROVE  FlattenSeq(ss) \in Seq(S)
<1> DEFINE n == Len(ss)
<1>0. n \in Nat
  OBVIOUS
<1>1. CASE n = 0
  BY <1>1 DEF FlattenSeq
<1>2. CASE n # 0
  <2>1. PICK f : IsFlat(f, ss, n) /\ FlattenSeq(ss) = f[n]
    BY <1>0, <1>2, FlattenIs
  <2>2. \A i \in 1..n : f[i] = IF i = 1 THEN ss[i] ELSE f[i - 1] \o ss[i]
    BY <2>1 DEF IsFlat
  <2> DEFINE T == {k \in Nat : k + 1 \in 1..n => f[k + 1] \in Seq(S)}
  <2>3. 0 \in T
    BY <2>2
  <2>4. ASSUME NEW k \in Nat, k \in T PROVE k + 1 \in T
    <3> SUFFICES ASSUME (k + 1) + 1 \in 1..n PROVE f[(k + 1) + 1] \in Seq(S)
      OBVIOUS
    <3>1. k + 1 \in 1..n /\ (k + 1) + 1 # 1 /\ ((k + 1) + 1) - 1 = k + 1
      BY <1>0
    <3>2. f[k + 1] \in Seq(S) /\ ss[(k + 1) + 1] \in Seq(S)
      BY <2>4, <3>1
    <3>3. f[(k + 1) + 1] = f[k + 1] \o ss[(k + 1) + 1]
      BY <2>2, <3>1
    <3>4. QED
      BY <3>2, <3>3, ConcatProperties
  <2> HIDE DEF T
  <2>5. Nat \subseteq T
    BY <2>3, <2>4, SetInduction
  <2>6. n - 1 \in T /\ (n - 1) + 1 = n
    BY <1>0, <1>2, <2>5
  <2>7. QED
    BY <1>0, <1>2, <2>1, <2>6 DEF T
<1>3. QED
  BY <1>1, <1>2

\* What a statement built by the inner loop is like.
Grown == pc = "merge" => Shaped(stmt)

Pieces(ss) == [i \in DOMAIN ss |-> Split(ss[i])]

LEMMA PiecesType ==
  ASSUME NEW ss \in Seq(Statement)
  PROVE  Pieces(ss) \in Seq(Seq(Statement)) /\ Len(Pieces(ss)) = Len(ss)
<1>1. \A i \in 1..Len(ss) : Split(ss[i]) \in Seq(Statement)
  BY SplitType
<1>2. Pieces(ss) = [i \in 1..Len(ss) |-> Split(ss[i])] /\ Len(ss) \in Nat
  BY DEF Pieces
<1>3. QED
  BY <1>1, <1>2

LEMMA PiecesAppend ==
  ASSUME NEW ss \in Seq(Statement), NEW st \in Statement
  PROVE  Pieces(Append(ss, st)) = Append(Pieces(ss), Split(st))
<1> DEFINE n == Len(ss)
           tt == Append(ss, st)
<1>1. /\ n \in Nat /\ tt \in Seq(Statement) /\ Len(tt) = n + 1
      /\ \A i \in 1..n : tt[i] = ss[i]
      /\ tt[n + 1] = st
  BY AppendProperties
<1> HIDE DEF tt
<1>2. /\ Pieces(tt) \in Seq(Seq(Statement)) /\ Len(Pieces(tt)) = n + 1
      /\ Pieces(ss) \in Seq(Seq(Statement)) /\ Len(Pieces(ss)) = n
      /\ Split(st) \in Seq(Statement)
  BY <1>1, PiecesType, SplitType
<1>3. /\ Append(Pieces(ss), Split(st)) \in Seq(Seq(Statement))
      /\ Len(Append(Pieces(ss), Split(st))) = n + 1
      /\ \A i \in 1..n : Append(Pieces(ss), Split(st))[i] = Pieces(ss)[i]
      /\ Append(Pieces(ss), Split(st))[n + 1] = Split(st)
  BY <1>2, AppendProperties
<1>4. /\ \A i \in 1..n : Pieces(ss)[i] = Split(ss[i])
      /\ \A i \in 1..n + 1 : Pieces(tt)[i] = Split(tt[i])
  BY <1>1 DEF Pieces
<1>5. \A i \in 1..n + 1 : Pieces(tt)[i] = Append(Pieces(ss), Split(st))[i]
  <2> SUFFICES ASSUME NEW i \in 1..n + 1
               PROVE  Pieces(tt)[i] = Append(Pieces(ss), Split(st))[i]
    OBVIOUS
  <2>1. i \in 1..n \/ i = n + 1
    BY <1>1
  <2>2. QED
    BY <1>1, <1>3, <1>4, <2>1
<1>6. QED
  BY <1>2, <1>3, <1>5, SeqEqual DEF tt

\* What the single patches up to the nth are compiled to.
Singles(n) == [i \in 1..n |-> Compiled(patches[i])]

LEMMA SinglesType ==
  ASSUME NEW n \in 0..Len(patches), patches \in Seq(Patch),
         \A i \in 1..n : patches[i].kind \in Kinds
  PROVE  Singles(n) \in Seq(Statement)
<1>1. \A i \in 1..n : Compiled(patches[i]) \in Statement
  <2> SUFFICES ASSUME NEW i \in 1..n PROVE Compiled(patches[i]) \in Statement
    OBVIOUS
  <2>1. patches[i] \in Patch /\ patches[i].kind \in Kinds
    BY ElementOfSeq
  <2>2. QED
    BY <2>1, CompiledType
<1>2. QED
  BY <1>1 DEF Singles

\* The patches read so far are of a kind the compiler knows.
KnownSoFar ==
  \A i \in DOMAIN patches :
    i < curr \/ (i = curr /\ pc = "merge") => patches[i].kind \in Kinds

JInv == Inv /\ Grown /\ KnownSoFar /\ SplitsIntoPatches

LEMMA InitJInv == Init => JInv
<1> SUFFICES ASSUME Init PROVE JInv
  OBVIOUS
<1>1. Inv
  BY InitInv
<1>2. patches \in Seq(Patch)
  BY BulkAssumption DEF Init
<1>3. Grown /\ KnownSoFar
  BY <1>2 DEF Init, Grown, KnownSoFar
<1>4. SplitsIntoPatches
  <2>1. Statements = <<>> /\ pc # "merge" /\ curr - 1 = 0
    BY DEF Init, Statements
  <2>2. Pieces(<<>>) = <<>>
    BY PiecesType, EmptySeq DEF Pieces
  <2>3. FlattenSeq(<<>>) = <<>>
    BY EmptySeq DEF FlattenSeq
  <2>4. [i \in 1..0 |-> Compiled(patches[i])] = <<>>
    OBVIOUS
  <2>5. QED
    BY <2>1, <2>2, <2>3, <2>4 DEF SplitsIntoPatches, Pieces
<1>5. QED
  BY <1>1, <1>3, <1>4 DEF JInv

LEMMA SplitsAre ==
  SplitsIntoPatches
    <=> FlattenSeq(Pieces(Statements)) = Singles(IF pc = "merge" THEN curr ELSE curr - 1)
BY DEF SplitsIntoPatches, Pieces, Singles

LEMMA SplitsWillBe ==
  SplitsIntoPatches'
    <=> FlattenSeq(Pieces(Statements'))
          = [i \in 1..IF pc' = "merge" THEN curr' ELSE curr' - 1 |-> Compiled(patches'[i])]
BY DEF SplitsIntoPatches, Pieces

LEMMA Associative ==
  ASSUME NEW S
  PROVE  \A x, y, z \in Seq(S) : x \o (y \o z) = (x \o y) \o z
<1> SUFFICES ASSUME NEW x \in Seq(S), NEW y \in Seq(S), NEW z \in Seq(S)
             PROVE  (x \o y) \o z = x \o (y \o z)
  OBVIOUS
<1>1. QED
  BY ConcatAssociative

\* One more patch translated: the flat list of statements has one more.
LEMMA OneMore ==
  ASSUME NEW n \in Nat, NEW ss \in Seq(Statement), NEW a \in Seq(Statement),
         NEW b \in Seq(Statement), patches[n + 1] \in Patch, patches[n + 1].kind \in Kinds,
         Singles(n) \in Seq(Statement), b = Append(a, Compiled(patches[n + 1])),
         FlattenSeq(Pieces(ss)) \in Seq(Statement),
         FlattenSeq(Pieces(ss)) \o a = Singles(n)
  PROVE  FlattenSeq(Pieces(ss)) \o b = Singles(n + 1)
<1> DEFINE c == Compiled(patches[n + 1])
           flat == FlattenSeq(Pieces(ss))
<1>1. c \in Statement /\ <<c>> \in Seq(Statement)
  BY CompiledType
<1>2. Append(a, c) = a \o <<c>> /\ Append(Singles(n), c) = Singles(n) \o <<c>>
  BY <1>1, AppendIsConcat
<1>3. flat \o (a \o <<c>>) = (flat \o a) \o <<c>>
  <2>1. flat \in Seq(Statement)
    OBVIOUS
  <2> HIDE DEF c, flat
  <2>2. QED
    BY <1>1, <2>1, Associative
<1>4. Singles(n + 1) = Append(Singles(n), c)
  BY AppendCompiled DEF Singles
<1>5. QED
  BY <1>2, <1>3, <1>4

LEMMA NextKnown ==
  ASSUME Inv, Grown, KnownSoFar, [Next]_vars
  PROVE  Grown' /\ KnownSoFar'
<1> USE DEF Inv, TypeOK, Chunk
<1>0. patches \in Seq(Patch) /\ DOMAIN patches = 1..Len(patches) /\ Len(patches) \in Nat
  BY BulkAssumption
<1>1. CASE PanicMismatched \/ PanicUnknownKind \/ Return
  BY <1>0, <1>1 DEF PanicMismatched, PanicUnknownKind, Return, AtPatch, Grown, KnownSoFar
<1>2. CASE OpenChunk
  <2>1. Grown'
    BY <1>2 DEF OpenChunk, Grown, Shaped, Compiled
  <2>2. KnownSoFar'
    BY <1>0, <1>2 DEF OpenChunk, AtPatch, KnownSoFar
  <2>3. QED
    BY <2>1, <2>2
<1>3. CASE MergeNext
  <2>1. Grown'
    <3>1. stmt \in Statement /\ Shaped(stmt)
      BY <1>3 DEF MergeNext, Grown
    <3>2. Shaped(Extended(stmt, patches[curr + 1]))
      BY <3>1 DEF Extended, Shaped, Statement
    <3>3. QED
      BY <1>3, <3>2 DEF MergeNext, Grown
  <2>2. patches[curr + 1].kind \in Kinds
    BY <1>3 DEF MergeNext, TakesNext, IsCompat
  <2>3. KnownSoFar'
    <3> SUFFICES ASSUME NEW i \in DOMAIN patches, i <= curr + 1 PROVE patches[i].kind \in Kinds
      BY <1>0, <1>3 DEF MergeNext, KnownSoFar
    <3>1. i < curr \/ i = curr \/ i = curr + 1
      BY <1>0
    <3>2. QED
      BY <1>3, <2>2, <3>1 DEF MergeNext, KnownSoFar
  <2>4. QED
    BY <2>1, <2>3
<1>4. CASE CloseChunk
  BY <1>0, <1>4 DEF CloseChunk, Grown, KnownSoFar
<1>5. CASE UNCHANGED vars
  BY <1>5 DEF vars, Grown, KnownSoFar
<1>6. QED
  BY <1>1, <1>2, <1>3, <1>4, <1>5 DEF Next

LEMMA NextSplits ==
  ASSUME JInv, [Next]_vars
  PROVE  SplitsIntoPatches'
<1> DEFINE n == IF pc = "merge" THEN curr ELSE curr - 1
<1>0. /\ patches \in Seq(Patch) /\ DOMAIN patches = 1..Len(patches) /\ Len(patches) \in Nat
      /\ sqlizers \in Seq(Statement) /\ curr \in 1..Len(patches) + 1
  BY BulkAssumption DEF JInv, Inv, TypeOK
<1>1. FlattenSeq(Pieces(Statements)) = Singles(n)
  BY SplitsAre DEF JInv
<1>2. n \in 0..Len(patches) /\ Singles(n) \in Seq(Statement)
  <2>1. n \in 0..Len(patches)
    BY <1>0 DEF JInv, Inv, Chunk
  <2>2. \A i \in 1..n : patches[i].kind \in Kinds
    BY <1>0, <2>1 DEF JInv, KnownSoFar
  <2>3. QED
    BY <1>0, <2>1, <2>2, SinglesType
<1>3. CASE UNCHANGED <<patches, curr, sqlizers, stmt>> /\ pc # "merge" /\ pc' # "merge"
  BY <1>1, <1>3, SplitsWillBe DEF Statements, Singles
<1>4. CASE OpenChunk
  <2> DEFINE c == Compiled(patches[curr])
  <2>1. /\ pc = "loop" /\ pc' = "merge" /\ patches' = patches /\ curr' = curr
        /\ patches[curr] \in Patch /\ patches[curr].kind \in Kinds
        /\ n = curr - 1 /\ Statements = sqlizers /\ Statements' = Append(sqlizers, c)
    BY <1>0, <1>4 DEF OpenChunk, AtPatch, Statements
  <2>2. c \in Statement /\ Split(c) = <<c>> /\ <<c>> \in Seq(Statement)
    BY <2>1, CompiledType, SplitCompiled
  <2>3. /\ Pieces(sqlizers) \in Seq(Seq(Statement))
        /\ FlattenSeq(Pieces(sqlizers)) \in Seq(Statement)
    BY <1>0, PiecesType, FlattenType
  <2>4. Pieces(Statements') = Append(Pieces(sqlizers), <<c>>)
    BY <1>0, <2>1, <2>2, PiecesAppend
  <2>5. FlattenSeq(Pieces(Statements')) = FlattenSeq(Pieces(sqlizers)) \o <<c>>
    BY <2>2, <2>3, <2>4, FlattenAppend
  <2>6. FlattenSeq(Pieces(sqlizers)) = Singles(n)
    BY <1>1, <2>1
  <2>7. Singles(n) \o <<c>> = Append(Singles(n), c)
    <3> HIDE DEF c, n
    <3>1. QED
      BY <1>2, <2>2, AppendIsConcat
  <2>8. Append(Singles(n), c) = Singles(curr)
    <3>1. n \in Nat /\ n + 1 = curr
      BY <1>0, <1>2, <2>1
    <3>2. [i \in 1..n + 1 |-> Compiled(patches[i])]
            = Append([i \in 1..n |-> Compiled(patches[i])], Compiled(patches[n + 1]))
      BY <3>1, AppendCompiled
    <3>3. QED
      BY <3>1, <3>2 DEF Singles
  <2>9. QED
    BY <2>1, <2>5, <2>6, <2>7, <2>8, SplitsWillBe DEF Singles
<1>5. CASE MergeNext
  <2> DEFINE p == patches[curr + 1]
             st == Extended(stmt, p)
  <2>1. /\ pc = "merge" /\ pc' = "merge" /\ patches' = patches /\ curr' = curr + 1
        /\ n = curr /\ curr \in Nat /\ curr + 1 \in 1..Len(patches)
        /\ stmt \in Statement /\ Shaped(stmt)
        /\ Statements = Append(sqlizers, stmt) /\ Statements' = Append(sqlizers, st)
    BY <1>0, <1>5 DEF MergeNext, TakesNext, Statements, JInv, Inv, Chunk, Grown
  <2>2. p \in Patch /\ p.kind \in Kinds /\ Joins(stmt, p)
    <3>1. p \in Patch
      BY <1>0, <2>1, ElementOfSeq
    <3>2. IsCompat(patches[head], p) /\ patches[head].kind \in Kinds
      BY <1>5 DEF MergeNext, TakesNext, JInv, Inv, Chunk
    <3>3. QED
      BY <2>1, <3>1, <3>2 DEF JInv, Inv, Chunk, IsCompat, Joins, Compiled
  <2>3. /\ st \in Statement /\ Split(st) = Append(Split(stmt), Compiled(p))
        /\ Split(stmt) \in Seq(Statement) /\ Split(st) \in Seq(Statement)
    BY <2>1, <2>2, ExtendedType, SplitExtended, SplitType
  <2>4. /\ Pieces(sqlizers) \in Seq(Seq(Statement))
        /\ FlattenSeq(Pieces(sqlizers)) \in Seq(Statement)
    BY <1>0, PiecesType, FlattenType
  <2>5. /\ Pieces(Statements) = Append(Pieces(sqlizers), Split(stmt))
        /\ Pieces(Statements') = Append(Pieces(sqlizers), Split(st))
    BY <1>0, <2>1, <2>3, PiecesAppend
  <2>6. /\ FlattenSeq(Pieces(Statements)) = FlattenSeq(Pieces(sqlizers)) \o Split(stmt)
        /\ FlattenSeq(Pieces(Statements')) = FlattenSeq(Pieces(sqlizers)) \o Split(st)
    BY <2>3, <2>4, <2>5, FlattenAppend
  <2>7. FlattenSeq(Pieces(sqlizers)) \o Split(stmt) = Singles(curr)
    BY <1>1, <2>1, <2>6
  <2>8. FlattenSeq(Pieces(sqlizers)) \o Split(st) = Singles(curr + 1)
    <3>1. Singles(curr) \in Seq(Statement)
      BY <1>2, <2>1
    <3> HIDE DEF st
    <3>2. QED
      BY <1>0, <2>1, <2>2, <2>3, <2>4, <2>7, <3>1, OneMore
  <2>9. QED
    BY <2>1, <2>6, <2>8, SplitsWillBe DEF Singles
<1>6. CASE CloseChunk
  <2>1. /\ pc = "merge" /\ pc' = "loop" /\ patches' = patches /\ curr' = curr + 1
        /\ Statements' = Statements
    BY <1>6 DEF CloseChunk, Statements
  <2>2. curr' - 1 = curr
    BY <1>0, <2>1
  <2>3. QED
    BY <1>1, <2>1, <2>2, SplitsWillBe DEF Singles
<1>7. CASE UNCHANGED vars
  BY <1>1, <1>7, SplitsWillBe DEF vars, Statements, Singles
<1>8. CASE PanicMismatched \/ PanicUnknownKind \/ Return
  BY <1>3, <1>8 DEF PanicMismatched, PanicUnknownKind, Return, AtPatch
<1>9. QED
  BY <1>4, <1>5, <1>6, <1>7, <1>8 DEF Next

\* Whatever the patches and the limit, nothing is lost, translated twice or
\* reordered: the statements, split into single patches, are what the patches
\* read so far are translated to one by one (compiler.go:149-208).
THEOREM EveryPatchOnceInOrder == Spec => []SplitsIntoPatches
<1>1. JInv /\ [Next]_vars => JInv'
  BY NextInv, NextKnown, NextSplits DEF JInv
<1>2. JInv => SplitsIntoPatches
  BY DEF JInv
<1>3. QED
  BY InitJInv, <1>1, <1>2, PTL DEF Spec

-----------------------------------------------------------------------------
(* Patches of the constructors                                             *)

AllConstructed == \A i \in DOMAIN patches : Constructed(patches[i])

RowsInv ==
  AllConstructed =>
    /\ pc # "panicked"
    /\ pc = "merge" => RowsMatchColumns(stmt)
    /\ \A i \in DOMAIN sqlizers : RowsMatchColumns(sqlizers[i])

LEMMA ConstructedIs ==
  ASSUME NEW p, Constructed(p)
  PROVE  WellFormed(p) /\ p.kind \in Kinds
BY DEF Constructed, InsertPatch, UpdatePatch, DeletePatch, WellFormed, Kinds

LEMMA ExtendedRows ==
  ASSUME NEW st \in Statement, NEW p \in Patch, RowsMatchColumns(st),
         st.kind = "insert" => Len(p.values) = Len(st.columns)
  PROVE  RowsMatchColumns(Extended(st, p))
<1> SUFFICES ASSUME st.kind = "insert" PROVE RowsMatchColumns(Extended(st, p))
  BY ExtendedType DEF RowsMatchColumns
<1> DEFINE ext == Extended(st, p)
<1>1. st.rows \in Seq(Seq(Values)) /\ p.values \in Seq(Values)
  BY DEF Statement, Patch
<1>2. ext.columns = st.columns /\ ext.rows = Append(st.rows, p.values)
  BY DEF Extended, Statement
<1>3. \A i \in DOMAIN ext.rows : i \in DOMAIN st.rows \/ ext.rows[i] = p.values
  BY <1>1, <1>2, AppendProperties
<1>4. \A i \in DOMAIN st.rows : ext.rows[i] = st.rows[i]
  BY <1>1, <1>2, AppendProperties
<1>5. \A i \in DOMAIN st.rows : Len(st.rows[i]) = Len(st.columns)
  BY DEF RowsMatchColumns
<1> HIDE DEF ext
<1>6. \A i \in DOMAIN ext.rows : Len(ext.rows[i]) = Len(ext.columns)
  BY <1>2, <1>3, <1>4, <1>5
<1>7. QED
  BY <1>6 DEF ext, RowsMatchColumns

LEMMA NextRows ==
  ASSUME Inv, RowsInv, [Next]_vars
  PROVE  RowsInv'
<1>0. /\ patches \in Seq(Patch) /\ DOMAIN patches = 1..Len(patches) /\ Len(patches) \in Nat
      /\ sqlizers \in Seq(Statement) /\ curr \in 1..Len(patches) + 1 /\ patches' = patches
  BY BulkAssumption DEF Inv, TypeOK, Next, vars, PanicMismatched, PanicUnknownKind,
     OpenChunk, MergeNext, CloseChunk, Return
<1> SUFFICES ASSUME AllConstructed
             PROVE  /\ pc' # "panicked"
                    /\ pc' = "merge" => RowsMatchColumns(stmt')
                    /\ \A i \in DOMAIN sqlizers' : RowsMatchColumns(sqlizers'[i])
  BY <1>0 DEF RowsInv, AllConstructed
<1>1. /\ pc # "panicked"
      /\ pc = "merge" => RowsMatchColumns(stmt)
      /\ \A i \in DOMAIN sqlizers : RowsMatchColumns(sqlizers[i])
  BY DEF RowsInv
<1>2. \A i \in 1..Len(patches) :
        WellFormed(patches[i]) /\ patches[i].kind \in Kinds /\ patches[i] \in Patch
  BY <1>0, ConstructedIs DEF AllConstructed
<1>3. ASSUME PanicMismatched \/ PanicUnknownKind PROVE FALSE
  BY <1>0, <1>2, <1>3 DEF PanicMismatched, PanicUnknownKind, AtPatch
<1>4. CASE Return \/ UNCHANGED vars
  BY <1>1, <1>4 DEF Return, vars
<1>5. CASE OpenChunk
  <2>1. Compiled(patches[curr]).kind = "insert" => Len(patches[curr].values) = Len(patches[curr].columns)
    BY <1>0, <1>2, <1>5 DEF OpenChunk, AtPatch, WellFormed
  <2>2. RowsMatchColumns(Compiled(patches[curr]))
    BY <2>1 DEF RowsMatchColumns, Compiled
  <2>3. QED
    BY <1>1, <1>5, <2>2 DEF OpenChunk
<1>6. CASE MergeNext
  <2> DEFINE p == patches[curr + 1]
  <2>1. /\ curr + 1 \in 1..Len(patches) /\ IsCompat(patches[head], p)
        /\ stmt \in Statement /\ stmt.kind = patches[head].kind
        /\ stmt.columns = Compiled(patches[head]).columns
        /\ pc = "merge"
    BY <1>0, <1>6 DEF MergeNext, TakesNext, Inv, Chunk, Compiled
  <2>2. p \in Patch /\ WellFormed(p)
    BY <1>2, <2>1
  <2>3. stmt.kind = "insert" => Len(p.values) = Len(stmt.columns)
    BY <2>1, <2>2 DEF IsCompat, Compiled, WellFormed
  <2>4. RowsMatchColumns(Extended(stmt, p))
    BY <1>1, <2>1, <2>2, <2>3, ExtendedRows
  <2>5. QED
    BY <1>1, <1>6, <2>4 DEF MergeNext
<1>7. CASE CloseChunk
  <2>1. stmt \in Statement /\ RowsMatchColumns(stmt) /\ pc' = "loop"
        /\ sqlizers' = Append(sqlizers, stmt)
    BY <1>1, <1>7 DEF CloseChunk, Inv, Chunk
  <2>2. \A i \in DOMAIN sqlizers' : sqlizers'[i] = stmt \/ (i \in DOMAIN sqlizers /\ sqlizers'[i] = sqlizers[i])
    BY <1>0, <2>1, AppendProperties
  <2>3. QED
    BY <1>1, <2>1, <2>2
<1>8. QED
  BY <1>3, <1>4, <1>5, <1>6, <1>7 DEF Next

\* Patches made by the constructors of patch.go never make Compile panic, and
\* merging them never makes a ragged INSERT (compiler.go:155-168).
THEOREM ConstructedNeverPanic == Spec => []ConstructedPatchesCompile
<1>1. Init => RowsInv
  BY DEF Init, RowsInv
<1>2. RowsInv => ConstructedPatchesCompile
  BY DEF RowsInv, AllConstructed, ConstructedPatchesCompile
<1>3. Inv /\ RowsInv /\ [Next]_vars => RowsInv'
  BY NextRows
<1>4. QED
  BY InitInv, NextInv, <1>1, <1>2, <1>3, PTL DEF Spec

-----------------------------------------------------------------------------
(* Chunks are as large as they can be                                      *)

\* Nothing in what a DELETE patch carries, beyond its table, keeps it out of a
\* chunk.  A patch that was not made by DeletePatch may have columns, which
\* isCompat compares and the statement does not have.
PlainDeletes ==
  \A l \in PatchLists : \A i \in DOMAIN l : l[i].kind = "delete" => l[i].columns = <<>>

Full(st) == MaxPatches > 0 /\ Size(st) = MaxPatches

Same(s1, s2) == /\ s1.kind = s2.kind /\ s1.table = s2.table
                /\ s1.columns = s2.columns /\ s1.values = s2.values

\* The last statement pushed could not take the patch the loop is at, nor, when
\* a chunk is open, the chunk that begins there.
LastIsFull ==
  sqlizers # <<>> =>
    LET last == sqlizers[Len(sqlizers)]
    IN  /\ pc = "loop" /\ curr <= Len(patches) /\ patches[curr].kind \in Kinds
             => (Same(last, Compiled(patches[curr])) => Full(last))
        /\ pc = "merge" => (Same(last, stmt) => Full(last))

LEMMA Incompatible ==
  ASSUME NEW p1, NEW p2, ~IsCompat(p1, p2),
         p1.kind = "delete" => p1.columns = <<>>,
         p2.kind = "delete" => p2.columns = <<>>
  PROVE  ~Same(Compiled(p1), Compiled(p2))
<1> SUFFICES ASSUME Same(Compiled(p1), Compiled(p2)) PROVE IsCompat(p1, p2)
  OBVIOUS
<1>1. p1.kind = p2.kind /\ p1.table = p2.table
  BY DEF Same, Compiled
<1>2. CASE p1.kind = "delete"
  BY <1>1, <1>2 DEF IsCompat
<1>3. CASE p1.kind # "delete"
  BY <1>1, <1>3 DEF IsCompat, Same, Compiled
<1>4. QED
  BY <1>2, <1>3

LEMMA NextGreedy ==
  ASSUME PlainDeletes, Inv, SizeInv, LastIsFull, GreedyChunks, [Next]_vars
  PROVE  LastIsFull' /\ GreedyChunks'
<1>0. /\ patches \in Seq(Patch) /\ DOMAIN patches = 1..Len(patches) /\ Len(patches) \in Nat
      /\ sqlizers \in Seq(Statement) /\ curr \in 1..Len(patches) + 1 /\ patches' = patches
      /\ MaxPatches \in Int /\ MaxPatches' = MaxPatches /\ patches \in PatchLists
  BY BulkAssumption DEF Inv, TypeOK, Next, vars, PanicMismatched, PanicUnknownKind,
     OpenChunk, MergeNext, CloseChunk, Return
<1>1. CASE PanicMismatched \/ PanicUnknownKind \/ Return
  BY <1>1 DEF PanicMismatched, PanicUnknownKind, Return, AtPatch, LastIsFull, GreedyChunks,
     Full
<1>2. CASE UNCHANGED vars
  BY <1>2 DEF vars, LastIsFull, GreedyChunks, Full
<1>3. CASE OpenChunk
  <2>1. GreedyChunks'
    BY <1>3 DEF OpenChunk, GreedyChunks
  <2>2. LastIsFull'
    BY <1>0, <1>3 DEF OpenChunk, AtPatch, LastIsFull, Full
  <2>3. QED
    BY <2>1, <2>2
<1>4. CASE MergeNext
  <2>1. GreedyChunks'
    BY <1>4 DEF MergeNext, GreedyChunks
  <2>2. patches[curr + 1] \in Patch /\ stmt \in Statement
    BY <1>0, <1>4 DEF MergeNext, TakesNext, Inv, Chunk
  <2>3. \A st : Same(st, stmt') <=> Same(st, stmt)
    BY <1>4, <2>2, ExtendedType DEF MergeNext, Same
  <2>4. LastIsFull'
    BY <1>0, <1>4, <2>3 DEF MergeNext, LastIsFull, Full
  <2>5. QED
    BY <2>1, <2>4
<1>5. CASE CloseChunk
  <2> DEFINE n == Len(sqlizers)
             h == patches[head]
  <2>1. /\ pc = "merge" /\ pc' = "loop" /\ curr' = curr + 1
        /\ stmt \in Statement /\ sqlizers' = Append(sqlizers, stmt)
        /\ head \in 1..Len(patches) /\ Same(stmt, Compiled(h)) /\ ~TakesNext
        /\ Size(stmt) = chunks /\ chunks \in Int /\ (MaxPatches > 0 => chunks <= MaxPatches)
    BY <1>0, <1>5 DEF CloseChunk, Inv, TypeOK, Chunk, SizeInv, Same
  <2>2. /\ n \in Nat /\ Len(sqlizers') = n + 1 /\ sqlizers'[n + 1] = stmt
        /\ \A i \in 1..n : sqlizers'[i] = sqlizers[i]
    BY <1>0, <2>1, AppendProperties
  <2>3. ASSUME curr + 1 <= Len(patches), ~Full(stmt)
        PROVE  ~Same(stmt, Compiled(patches[curr + 1]))
    <3>1. CanTakeMoreChunks(chunks)
      BY <1>0, <2>1, <2>3 DEF CanTakeMoreChunks, Full
    <3>2. ~IsCompat(h, patches[curr + 1])
      BY <2>1, <2>3, <3>1 DEF TakesNext
    <3>3. \A i \in 1..Len(patches) : patches[i].kind = "delete" => patches[i].columns = <<>>
      BY <1>0 DEF PlainDeletes
    <3>4. ~Same(Compiled(h), Compiled(patches[curr + 1]))
      BY <1>0, <2>1, <2>3, <3>2, <3>3, Incompatible
    <3>5. QED
      BY <2>1, <3>4 DEF Same
  <2>4. LastIsFull'
    BY <1>0, <2>1, <2>2, <2>3 DEF LastIsFull, Full
  <2>5. GreedyChunks'
    <3> SUFFICES ASSUME NEW i \in 1..n, Same(sqlizers'[i], sqlizers'[i + 1])
                 PROVE  Full(sqlizers'[i])
      BY <1>0, <2>2 DEF GreedyChunks, Same, Full
    <3>1. CASE i = n
      <4>1. sqlizers # <<>> /\ sqlizers'[i] = sqlizers[n] /\ sqlizers'[i + 1] = stmt
        BY <1>0, <2>2, <3>1
      <4>2. QED
        BY <2>1, <3>1, <4>1 DEF LastIsFull
    <3>2. CASE i # n
      <4>1. i \in 1..n - 1 /\ i + 1 \in 1..n /\ i \in 1..n
        BY <2>2, <3>2
      <4>2. sqlizers'[i] = sqlizers[i] /\ sqlizers'[i + 1] = sqlizers[i + 1]
        BY <2>2, <4>1
      <4>3. QED
        BY <4>1, <4>2 DEF GreedyChunks, Same, Full
    <3>3. QED
      BY <3>1, <3>2
  <2>6. QED
    BY <2>4, <2>5
<1>6. QED
  BY <1>1, <1>2, <1>3, <1>4, <1>5 DEF Next

\* A statement is followed by one it could have absorbed only when it is full,
\* for every limit, of patches whose DELETEs carry nothing but a row key, as
\* those of DeletePatch do (compiler.go:160-196, 256-261, patch.go:56-66).
THEOREM ChunksAreGreedy ==
  ASSUME PlainDeletes
  PROVE  Spec => []GreedyChunks
<1>1. Init => SizeInv /\ LastIsFull /\ GreedyChunks
  BY EmptySeq DEF Init, SizeInv, LastIsFull, GreedyChunks
<1>2. Inv /\ SizeInv /\ LastIsFull /\ GreedyChunks /\ [Next]_vars => LastIsFull' /\ GreedyChunks'
  BY NextGreedy
<1>3. QED
  BY InitInv, NextInv, NextSizeInv, <1>1, <1>2, PTL DEF Spec
=============================================================================
