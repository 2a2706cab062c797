----------------------------- MODULE BulkEffect -----------------------------
(***************************************************************************)
(* BulkCompiler with the history variable db: what the statements pushed   *)
(* so far do to a database when they are executed in order.  The open      *)
(* chunk counts as executed in the refinement mapping, so that merging one *)
(* more patch into it is one step of the patch-by-patch compiler.          *)
(***************************************************************************)
EXTENDS BulkCompiler

CONSTANT Databases      \* the databases the statements may find

ASSUME EffectAssumption == Databases \subseteq Database

VARIABLE db

evars == <<vars, db>>

EInit == Init /\ db \in Databases

EOther == /\ \/ PanicMismatched \/ PanicUnknownKind
             \/ OpenChunk \/ MergeNext \/ Return
          /\ UNCHANGED db

EClose == CloseChunk /\ db' = Execute(db, stmt)

ENext == EOther \/ EClose

ESpec == EInit /\ [][ENext]_evars

\* Number of patches that went into sqlizers and the open chunk.
Taken == IF pc = "merge" THEN curr ELSE curr - 1

PatchByPatch ==
  INSTANCE DefaultCompiler WITH
    curr     <- Taken + 1,
    sqlizers <- [i \in 1..Taken |-> Compiled(patches[i])],
    pc       <- IF pc = "merge" THEN "loop" ELSE pc,
    db       <- IF pc = "merge" THEN Execute(db, stmt) ELSE db

\* The bulk compiler does to the database, after each patch it takes, what the
\* default compiler does with the statements it makes of the same patches; it
\* returns and panics where that one does (compiler.go:149-208 and 112-141).
ImplementsDefaultCompiler == PatchByPatch!Spec
=============================================================================
