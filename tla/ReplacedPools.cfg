SPECIFICATION MCFairSpec

CONSTANTS
  Users = {u1}
  Resources = {r1, r2}
  PopulationIds = {0, 1, 2}
  Invalidate = FALSE
  FactoryMayFail = TRUE
  Breakable = {}
  MinSpare = 1
  MaxSpare = 1
  TerminateOnKeeperFailure = TRUE
  BatchSize = 1
  CheckMayThrow = FALSE
  TerminateOnHealthFailure = FALSE
  EnableResourceCountKeeper = TRUE
  EnableHealthCareJob = FALSE
  Addresses = {a1, a2}
  NoAddress = NoAddress
  None = None

INVARIANTS
  StaleOnlyIfOutside
  PopulationsDoNotMix

PROPERTIES
  DnsFollowed
