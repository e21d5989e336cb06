SPECIFICATION MasterSlaveSpec

CONSTANTS
  Objects = {m, a, b, c}
  Master = m
  SlaveIds = {1, 2}
  Free = Free
  MaxOwn = 1
  MaxJobs = 1
  MaxChosen = 1

SYMMETRY MCSymmetry

INVARIANTS
  MasterSlaveTypeOK
  NeverTerminates
  JobsHaveABase
  JobsAsAsked
  SettingsSurvive
  IterationVisitsAll
