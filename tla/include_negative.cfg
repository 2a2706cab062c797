\* What db_ctx.go:37 says of a negative limit.
CONSTANTS
  Relations <- MCRelations
  PrimaryKey <- MCPrimaryKey
  Tables <- MCTables
  Rows <- MCRows
  Scenarios <- MCNegative
SPECIFICATION Spec
INVARIANTS
  NegativeIsUnlimited
CHECK_DEADLOCK FALSE
