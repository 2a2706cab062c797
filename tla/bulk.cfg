\* BulkCompiler, with and without a limit, against the patch-by-patch compiler.
CONSTANTS
  t = t
  u = u
  colId = colId
  colN = colN
  a = a
  b = b
  MaxPatchCount = 4
  Tables = {t, u}
  Columns = {colId, colN}
  Values = {a, b}
  NoRowKey = NoRowKey
  Null = Null
  Deleted = Deleted
  NoStatement = NoStatement
  PatchLists <- MCLists
  Databases <- MCDatabases
  Limits = {0, 2}
SPECIFICATION ESpec
INVARIANTS
  TypeOK
  SplitsIntoPatches
  GreedyChunks
  ConstructedPatchesCompile
  WithinMaxPatches
PROPERTIES
  ImplementsDefaultCompiler
CHECK_DEADLOCK FALSE
