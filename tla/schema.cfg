\* Types registered by two goroutines; entities of registered types.
CONSTANTS
  zero = zero
  x = x
  Values = {zero, x}
  Empty = {zero}
  NoRowKey = NoRowKey
  Null = Null
  Deleted = Deleted
  Decls <- MCDecls
  Imports <- MCImports
  PkgName <- MCPkgName
  Snake <- MCSnake
  Unexported = {"cache"}
  Tables <- MCTables
  Columns <- MCColumns
  Goroutines <- MCGoroutines
  ToRegister <- MCToRegister
  MaxOps <- MCMaxOps
  TypeOf <- MCTypeOf
  Databases <- MCDatabases
SPECIFICATION Spec
INVARIANTS
  RegisteredTypesHaveTables
  ListedUntilRemoved
  RemovedIsGone
PROPERTIES
  ComputationEnds
  PatchesTouchTheirRow
  UpdatesWriteTheEntity
CHECK_DEADLOCK FALSE
