\* One transaction at a time, and one connection or two.  Nobody has a context that
\* ends, or a call outside of the transaction has one, or one inside of it, or the
\* transaction has one.
CONSTANTS
  Goroutines = {g1, g2, g3}
  TxGoroutines = {g3}
  Queries = {q1}
  PoolSizes = {1, 2}
  CallDeadlines = {{}, {g1}, {g3}, {g1, g2, g3}}
  TxDeadlines = {{}, {g3}}
  NoOne = NoOne
  MaxCalls = 1
SPECIFICATION FairSpec
PROPERTIES
  CallEnds
  PoolDeadlockIsForever
CHECK_DEADLOCK FALSE
