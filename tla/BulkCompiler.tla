---------------------------- MODULE BulkCompiler ----------------------------
(***************************************************************************)
(* BulkCompilerOptions.Compile (compiler.go): neighbouring patches that    *)
(* are compatible with the first of their chunk become one statement.      *)
(* One call of Compile is a behaviour; pc is where it is:                  *)
(*   "loop"      at the head of the outer for loop                         *)
(*   "merge"     at the head of the inner for loop of a case               *)
(*   "done"      returned,  "panicked"  left by a panic.                   *)
(***************************************************************************)
EXTENDS Patches, SequencesExt

CONSTANTS
  PatchLists,   \* the patch lists Compile may be called with
  Limits,       \* the values BulkCompilerOptions.MaxPatches may have
  NoStatement   \* no chunk is open

ASSUME BulkAssumption ==
  /\ PatchLists \subseteq Seq(Patch)
  /\ Limits \subseteq Int
  /\ NoStatement \notin Statement

VARIABLES
  patches,      \* opts.Patches; Compile only reads it
  MaxPatches,   \* the compiler's own options; Compile only reads them
  curr,         \* position of the list element curr points at; past the end: nil
  head,         \* position of patch, the first of the open chunk
  chunks,       \* the counter of the inner loop
  stmt,         \* the builder of the open chunk (stmt and cond of the code)
  sqlizers,     \* the result
  pc

vars == <<patches, MaxPatches, curr, head, chunks, stmt, sqlizers, pc>>

-----------------------------------------------------------------------------

\* Mutants of CanTakeMoreChunks: one more patch than the limit; no limit is
\* taken for a limit of none.
CanTakeOneMore(n) == MaxPatches <= 0 \/ n <= MaxPatches
CanTakeNoneUnlimited(n) == n < MaxPatches

CanTakeMoreChunks(n) == MaxPatches <= 0 \/ n < MaxPatches

\* Mutants of IsCompat: the columns, or an UPDATE's values, are not compared.
IsCompatAnyColumns(p1, p2) ==
  /\ p1.kind = p2.kind
  /\ p1.table = p2.table
  /\ p1.kind = "update" => p1.columns = p2.columns /\ p1.values = p2.values

IsCompatAnyValues(p1, p2) ==
  /\ p1.kind = p2.kind
  /\ p1.table = p2.table
  /\ p1.columns = p2.columns

IsCompat(p1, p2) ==
  /\ p1.kind = p2.kind
  /\ p1.table = p2.table
  /\ p1.columns = p2.columns
  /\ p1.kind = "update" => p1.values = p2.values

\* The builder after one more patch of the chunk.
Extended(st, p) ==
  IF st.kind = "insert"
    THEN [st EXCEPT !.rows = Append(@, p.values)]
    ELSE [st EXCEPT !.cond = Append(@, RowKeyToSqlizer(p.rowKey))]

-----------------------------------------------------------------------------

Init ==
  /\ patches \in PatchLists
  /\ MaxPatches \in Limits
  /\ curr = 1
  /\ head = 0
  /\ chunks = 0
  /\ stmt = NoStatement
  /\ sqlizers = <<>>
  /\ pc = "loop"

AtPatch == pc = "loop" /\ curr <= Len(patches)

\* panic("goen: number of columns and values are mismatched")
PanicMismatched ==
  /\ AtPatch
  /\ ~WellFormed(patches[curr])
  /\ pc' = "panicked"
  /\ UNCHANGED <<patches, MaxPatches, curr, head, chunks, stmt, sqlizers>>

\* The default case: DefaultCompiler gets the patch alone, and panics too.
PanicUnknownKind ==
  /\ AtPatch
  /\ WellFormed(patches[curr])
  /\ patches[curr].kind \notin Kinds
  /\ pc' = "panicked"
  /\ UNCHANGED <<patches, MaxPatches, curr, head, chunks, stmt, sqlizers>>

\* case PatchInsert, PatchDelete, PatchUpdate up to the inner loop.
OpenChunk ==
  /\ AtPatch
  /\ WellFormed(patches[curr])
  /\ patches[curr].kind \in Kinds
  /\ head' = curr
  /\ chunks' = 1
  /\ stmt' = Compiled(patches[curr])
  /\ pc' = "merge"
  /\ UNCHANGED <<patches, MaxPatches, curr, sqlizers>>

TakesNext ==
  /\ CanTakeMoreChunks(chunks)
  /\ curr + 1 <= Len(patches)
  /\ IsCompat(patches[head], patches[curr + 1])

\* Mutant of MergeNext: the inner loop appends patch, the head of the chunk,
\* instead of the patch of the element it moved to.
MergeHeadAgain ==
  /\ pc = "merge"
  /\ TakesNext
  /\ curr' = curr + 1
  /\ chunks' = chunks + 1
  /\ stmt' = Extended(stmt, patches[head])
  /\ UNCHANGED <<patches, MaxPatches, head, sqlizers, pc>>

\* The body of the inner loop.
MergeNext ==
  /\ pc = "merge"
  /\ TakesNext
  /\ curr' = curr + 1
  /\ chunks' = chunks + 1
  /\ stmt' = Extended(stmt, patches[curr + 1])
  /\ UNCHANGED <<patches, MaxPatches, head, sqlizers, pc>>

\* Mutant of CloseChunk: curr is moved on twice after a chunk.
CloseChunkSkips ==
  /\ pc = "merge"
  /\ ~TakesNext
  /\ sqlizers' = Append(sqlizers, stmt)
  /\ curr' = curr + 2
  /\ head' = 0
  /\ chunks' = 0
  /\ stmt' = NoStatement
  /\ pc' = "loop"
  /\ UNCHANGED <<patches, MaxPatches>>

\* The inner loop ends: the statement is pushed, and curr moves on.
CloseChunk ==
  /\ pc = "merge"
  /\ ~TakesNext
  /\ sqlizers' = Append(sqlizers, stmt)
  /\ curr' = curr + 1
  /\ head' = 0
  /\ chunks' = 0
  /\ stmt' = NoStatement
  /\ pc' = "loop"
  /\ UNCHANGED <<patches, MaxPatches>>

Return ==
  /\ pc = "loop"
  /\ curr > Len(patches)
  /\ pc' = "done"
  /\ UNCHANGED <<patches, MaxPatches, curr, head, chunks, stmt, sqlizers>>

Next == \/ PanicMismatched \/ PanicUnknownKind
        \/ OpenChunk \/ MergeNext \/ CloseChunk \/ Return

Spec == Init /\ [][Next]_vars
-----------------------------------------------------------------------------
(* Properties *)

TypeOK ==
  /\ patches \in PatchLists
  /\ MaxPatches \in Limits
  /\ curr \in 1..Len(patches) + 1
  /\ head \in 0..Len(patches)
  /\ chunks \in 0..Len(patches)
  /\ stmt \in Statement \cup {NoStatement}
  /\ sqlizers \in Seq(Statement)
  /\ pc \in {"loop", "merge", "done", "panicked"}

\* How many patches a statement stands for.
Size(st) == IF st.kind = "insert" THEN Len(st.rows) ELSE Len(st.cond)

\* The statements of the patches a statement was merged from.
Split(st) ==
  [i \in 1..Size(st) |->
     IF st.kind = "insert" THEN [st EXCEPT !.rows = <<st.rows[i]>>]
                           ELSE [st EXCEPT !.cond = <<st.cond[i]>>]]

Statements == IF pc = "merge" THEN Append(sqlizers, stmt) ELSE sqlizers

\* No patch is lost, translated twice or moved before another one: split into
\* single patches, the statements are what a patch-by-patch translation of the
\* patches read so far gives, in the order of the list ("for keeping its
\* order", compiler.go:202).
SplitsIntoPatches ==
  LET n == IF pc = "merge" THEN curr ELSE curr - 1
  IN FlattenSeq([i \in DOMAIN Statements |-> Split(Statements[i])])
       = [i \in 1..n |-> Compiled(patches[i])]

\* "MaxPatches limits values per bulk operations. MaxPatches<=0 means
\* unlimited." (compiler.go:144): no statement, not even an unfinished one,
\* stands for more patches.
WithinMaxPatches ==
  MaxPatches > 0 => \A i \in DOMAIN Statements : Size(Statements[i]) <= MaxPatches

\* Chunks are as large as they can be: a statement is followed by one it could
\* have absorbed only when it is full.
GreedyChunks ==
  \A i \in 1..Len(sqlizers) - 1 :
    LET s1 == sqlizers[i]
        s2 == sqlizers[i + 1]
    IN (/\ s1.kind = s2.kind /\ s1.table = s2.table
        /\ s1.columns = s2.columns /\ s1.values = s2.values)
         => MaxPatches > 0 /\ Size(s1) = MaxPatches

\* Patches made by InsertPatch, UpdatePatch and DeletePatch are always
\* compiled, and every row of every INSERT has a value per column.
ConstructedPatchesCompile ==
  (\A i \in DOMAIN patches : Constructed(patches[i])) =>
    /\ pc # "panicked"
    /\ \A i \in DOMAIN sqlizers : RowsMatchColumns(sqlizers[i])

\* The assertion of compiler.go:155-157, "number of columns and values are
\* mismatched": Compile does not return statements for such a patch.
MismatchPanics ==
  pc = "done" => \A i \in DOMAIN patches : WellFormed(patches[i])
=============================================================================
