\* A malformed patch behind a compatible one is merged, not refused.
CONSTANTS
  t = t
  u = u
  colId = colId
  colN = colN
  a = a
  b = b
  MaxPatchCount = 4
  Tables = {t, u}
  Columns = {colId, colN}
  Values = {a, b}
  NoRowKey = NoRowKey
  Null = Null
  Deleted = Deleted
  NoStatement = NoStatement
  PatchLists <- MCRawLists
  Databases <- MCDatabases
  Limits = {0}
SPECIFICATION ESpec
INVARIANTS
  MismatchPanics
CHECK_DEADLOCK FALSE
