SPECIFICATION Spec
CONSTANTS
  l1 = l1
  l2 = l2
  l3 = l3
  Null = Null
  NoValue = NoValue
  NoLoader = NoLoader
  Loaders <- MCLoaders
  Rows <- MCRows
  Plans <- MCPlans
INVARIANTS
  TypeOK
  LoadersLostOnlyByForks
  CallsAgree
  NegationsSplitTheRows
CHECK_DEADLOCK FALSE
