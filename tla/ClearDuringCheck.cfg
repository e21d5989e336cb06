SPECIFICATION Spec

CONSTANTS
  Users = {u1}
  Resources = {r1}
  PopulationIds = {0}
  Invalidate = FALSE
  FactoryMayFail = FALSE
  Breakable = {r1}
  MinSpare = 1
  MaxSpare = 1
  TerminateOnKeeperFailure = FALSE
  BatchSize = 1
  CheckMayThrow = FALSE
  TerminateOnHealthFailure = FALSE
  EnableResourceCountKeeper = FALSE
  EnableHealthCareJob = TRUE
  None = None

INVARIANTS
  ClearDuringCheckIsDefined
