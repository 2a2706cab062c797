\* Queries with Include, alone and with one write of another session.
CONSTANTS
  Relations <- MCRelations
  PrimaryKey <- MCPrimaryKey
  Tables <- MCTables
  Rows <- MCRows
  Scenarios <- MCScenarios
SPECIFICATION Spec
INVARIANTS
  OnlyStartedListsAreShort
  CirclesEnd
  OneEntityPerRow
  HeldOncePerRelation
  CyclesClose
CHECK_DEADLOCK FALSE
