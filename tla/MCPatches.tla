----------------------------- MODULE MCPatches -----------------------------
(***************************************************************************)
(* The patches and databases of the small instances.  Two columns: an id   *)
(* that row keys select by and a cell n, which one key selects by too, so  *)
(* that an UPDATE can move rows in and out of the reach of a later key.    *)
(***************************************************************************)
EXTENDS Patches, SequencesExt, TLC

CONSTANTS t, u, colId, colN, a, b, MaxPatchCount

Id(v) == colId :> v

MCInsert(tab, v, w) ==
  [kind |-> "insert", table |-> tab, columns |-> <<colId, colN>>, values |-> <<v, w>>,
   rowKey |-> NoRowKey]
MCUpdate(tab, v, key) ==
  [kind |-> "update", table |-> tab, columns |-> <<colN>>, values |-> <<v>>,
   rowKey |-> key]
MCDelete(tab, key) ==
  [kind |-> "delete", table |-> tab, columns |-> <<>>, values |-> <<>>,
   rowKey |-> key]

\* What the constructors of patch.go make; one INSERT leaves colN out.
MCConstructed ==
  {MCInsert(t, a, a), [MCInsert(t, b, a) EXCEPT !.columns = <<colId>>, !.values = <<b>>],
   MCInsert(u, a, b),
   MCUpdate(t, a, Id(a)), MCUpdate(t, a, colN :> b), MCUpdate(t, b, Id(b)),
   MCUpdate(t, b, NoRowKey),
   MCDelete(t, Id(a)), MCDelete(t, colN :> b)}

Unknown == [MCDelete(t, Id(b)) EXCEPT !.kind = "unknown"]
Malformed == [MCDelete(t, Id(a)) EXCEPT !.columns = <<colId>>]

\* With hand-made patches: a row too short, a DELETE with a column name and no
\* value, a kind outside the enumeration; the others are well formed.
MCRaw ==
  {MCInsert(t, a, a), MCUpdate(t, a, Id(a)), MCUpdate(t, a, colN :> b),
   [MCInsert(t, b, a) EXCEPT !.values = <<b>>],
   MCDelete(t, Id(a)),
   Malformed, Unknown}

\* What the constructors make, with an unknown kind or one malformed patch
\* anywhere: no patch before the malformed one can be merged with it.
MCLists ==
  LET any == BoundedSeq(MCConstructed \cup {Unknown, Malformed}, MaxPatchCount)
  IN {l \in any : Cardinality({i \in DOMAIN l : l[i] \in {Unknown, Malformed}}) <= 1}
MCRawLists == BoundedSeq(MCRaw, MaxPatchCount)

\* A table with two rows, and a row of another table.
MCRow(tab, v, w) == [table |-> tab, cells |-> (colId :> v @@ colN :> w)]
MCDatabases == {<<MCRow(t, a, b), MCRow(t, b, b), MCRow(u, a, a)>>}
=============================================================================
