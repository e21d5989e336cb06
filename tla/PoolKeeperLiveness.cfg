SPECIFICATION FairSpec

CONSTANTS
  Users = {u1, u2}
  Resources = {r1, r2, r3}
  PopulationIds = {0}
  Invalidate = FALSE
  FactoryMayFail = FALSE
  Breakable = {}
  MinSpare = 1
  MaxSpare = 1
  TerminateOnKeeperFailure = FALSE
  BatchSize = 1
  CheckMayThrow = FALSE
  TerminateOnHealthFailure = FALSE
  EnableResourceCountKeeper = TRUE
  EnableHealthCareJob = FALSE
  None = None

PROPERTIES
  UsedStaysPooled
  GetReturns
  KeeperSettles
