SPECIFICATION Spec

CONSTANTS
  Users = {u1, u2}
  Resources = {r1, r2}
  PopulationIds = {0}
  Invalidate = FALSE
  FactoryMayFail = FALSE
  Breakable = {}
  MinSpare = 1
  MaxSpare = 1
  TerminateOnKeeperFailure = FALSE
  BatchSize = 1
  CheckMayThrow = FALSE
  TerminateOnHealthFailure = FALSE
  EnableResourceCountKeeper = FALSE
  EnableHealthCareJob = FALSE
  None = None

SYMMETRY Symmetry

PROPERTIES
  EmergencyOnlyWhenEmpty
