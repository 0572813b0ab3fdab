SPECIFICATION Spec
CONSTANTS
  m1 = m1
  m2 = m2
  r1 = r1
  r2 = r2
  a1 = a1
  Nobody = Nobody
  NoMsg = NoMsg
  Msg <- MC_TwoMsgs
  Runners <- MC_TwoRunners
  Apps <- MC_OneApp
  Faults <- MC_Crash
  MaxFaults = 1
  MaxFailures = 1
  MayDiscard = FALSE
  LargeFiles = FALSE
  CrashPoints <- MC_InDelivery
SYMMETRY MC_Symmetry
INVARIANTS
  NoUnexplainedDuplicate
  NeverLost
