SPECIFICATION Spec

CONSTANTS
  Users = {u1, u2}
  Resources = {r1, r2}
  PopulationIds = {0}
  Invalidate = TRUE
  FactoryMayFail = TRUE
  Breakable = {r1}
  MinSpare = 1
  MaxSpare = 1
  TerminateOnKeeperFailure = FALSE
  BatchSize = 2
  CheckMayThrow = TRUE
  TerminateOnHealthFailure = TRUE
  EnableResourceCountKeeper = TRUE
  EnableHealthCareJob = TRUE
  None = None

SYMMETRY Symmetry

INVARIANTS
  TypeOK
  PoolIndexInRange
  ExclusiveUse
  ValidMeansChecked

PROPERTIES
  KeepsContract
