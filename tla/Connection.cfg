SPECIFICATION MCSpec

CONSTANTS
  Drivers = {d1, d2}
  StmtObjects = {s1, s2}
  MaxId = 3
  MaxHandles = 2
  Batches <- MCBatches
  MaxScope = 4
  MaxTransactions = 2
  ServerRefuses = TRUE

SYMMETRY MCSymmetry

INVARIANTS
  ConnectionTypeOK
  IdsAreIdentities
  OneOwner
  ClosedOnce
  StatementsFollow
  NeverTerminates
  OnlyLastForgotten

PROPERTIES
  ImplementsContract
