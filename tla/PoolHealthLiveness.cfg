SPECIFICATION FairSpec

CONSTANTS
  Users = {u1}
  Resources = {r1, r2}
  PopulationIds = {0}
  Invalidate = TRUE
  FactoryMayFail = FALSE
  Breakable = {r1}
  MinSpare = 1
  MaxSpare = 1
  TerminateOnKeeperFailure = FALSE
  BatchSize = 1
  CheckMayThrow = FALSE
  TerminateOnHealthFailure = FALSE
  EnableResourceCountKeeper = TRUE
  EnableHealthCareJob = TRUE
  None = None

PROPERTIES
  BrokenIsErased
  InvalidIsRevalidated
