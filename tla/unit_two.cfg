\* Two clients, two patches and two transactions between them.
CONSTANTS
  Clients = {c1, c2}
  MaxPatch = 2
  MaxTx = 2
SYMMETRY Symmetry
SPECIFICATION Spec
INVARIANTS
  NotNilMeansNothing
  NoOpenTxOutside
PROPERTIES
  FinishedIsFinal
CHECK_DEADLOCK FALSE
