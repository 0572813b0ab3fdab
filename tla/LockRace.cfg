SPECIFICATION Spec
CONSTANTS
  m1 = m1
  m2 = m2
  r1 = r1
  r2 = r2
  a1 = a1
  Nobody = Nobody
  NoMsg = NoMsg
  Msg <- MC_OneMsg
  Runners <- MC_TwoRunners
  Apps <- MC_OneApp
  Faults <- MC_NoFaults
  MaxFaults = 0
  MaxFailures = 0
  MayDiscard = FALSE
  LargeFiles = FALSE
  CrashPoints <- MC_Nowhere
PROPERTY
  LockSurvivesDeletion
