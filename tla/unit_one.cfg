\* One client: three patches, two transactions.
CONSTANTS
  Clients = {c1}
  MaxPatch = 3
  MaxTx = 2
SPECIFICATION FairSpec
INVARIANTS
  TypeOK
  Accounted
  NilMeansSaved
  PatchOrder
PROPERTIES
  TxEnds
CHECK_DEADLOCK FALSE
