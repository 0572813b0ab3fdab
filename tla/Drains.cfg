SPECIFICATION FairSpec
CONSTANTS
  m1 = m1
  m2 = m2
  r1 = r1
  r2 = r2
  a1 = a1
  Nobody = Nobody
  NoMsg = NoMsg
  Msg <- MC_OneMsg
  Runners <- MC_TwoRunners
  Apps <- MC_OneApp
  Faults <- MC_Interrupted
  MaxFaults = 2
  MaxFailures = 1
  MayDiscard = TRUE
  LargeFiles = TRUE
  CrashPoints <- MC_NotInMove
INVARIANTS
  InBothOnlyWhileMoved
  StoredWhole
PROPERTY
  QueueDrains
