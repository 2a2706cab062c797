-------------------------- MODULE DefaultCompiler --------------------------
(***************************************************************************)
(* defaultCompiler.Compile (compiler.go): one statement per patch, and a   *)
(* panic at the first patch it cannot translate.  One call of Compile is a *)
(* behaviour.  db is not a variable of the program: it is what the         *)
(* statements produced so far do to a database when they are executed in   *)
(* order, the meaning of the result that the callers of Compile rely on.   *)
(***************************************************************************)
EXTENDS Patches

CONSTANTS
  PatchLists,   \* the patch lists Compile may be called with
  Databases     \* the databases the statements may find

VARIABLES
  patches,      \* opts.Patches
  curr,         \* position of the list element curr points at; past the end: nil
  sqlizers,     \* the result
  pc,           \* "loop", "done" (returned) or "panicked"
  db            \* the effect of sqlizers

vars == <<patches, curr, sqlizers, pc, db>>

Init ==
  /\ patches \in PatchLists
  /\ curr = 1
  /\ sqlizers = <<>>
  /\ pc = "loop"
  /\ db \in Databases

AtPatch == pc = "loop" /\ curr <= Len(patches)

PanicMismatched ==
  /\ AtPatch
  /\ ~WellFormed(patches[curr])
  /\ pc' = "panicked"
  /\ UNCHANGED <<patches, curr, sqlizers, db>>

PanicUnknownKind ==
  /\ AtPatch
  /\ WellFormed(patches[curr])
  /\ patches[curr].kind \notin Kinds
  /\ pc' = "panicked"
  /\ UNCHANGED <<patches, curr, sqlizers, db>>

\* The three cases of the switch: build the statement and push it.
Translate ==
  /\ AtPatch
  /\ WellFormed(patches[curr])
  /\ patches[curr].kind \in Kinds
  /\ sqlizers' = Append(sqlizers, Compiled(patches[curr]))
  /\ db' = Execute(db, Compiled(patches[curr]))
  /\ curr' = curr + 1
  /\ UNCHANGED <<patches, pc>>

Return ==
  /\ pc = "loop"
  /\ curr > Len(patches)
  /\ pc' = "done"
  /\ UNCHANGED <<patches, curr, sqlizers, db>>

Next == PanicMismatched \/ PanicUnknownKind \/ Translate \/ Return

Spec == Init /\ [][Next]_vars

=============================================================================
