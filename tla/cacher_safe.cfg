\* Two goroutines without a transaction and one with; any context may end.
CONSTANTS
  Goroutines = {g1, g2, g3}
  TxGoroutines = {g3}
  Queries = {q1, q2}
  PoolSizes = {2}
  CallDeadlines = {{g1, g2, g3}}
  TxDeadlines = {{g3}}
  NoOne = NoOne
  MaxCalls = 2
SYMMETRY Symmetry
SPECIFICATION Spec
INVARIANTS
  CacheHoldsOpenStmts
  UsesItsOwnStmt
CHECK_DEADLOCK FALSE
