SPECIFICATION Spec
CONSTANTS
  m1 = m1
  f1 = f1
  f2 = f2
  f3 = f3
  f4 = f4
  w1 = w1
  w2 = w2
  NoMsg = NoMsg
  NoFile = NoFile
  NoLimit = NoLimit
  Msg <- MC_OneMsg
  File <- MC_Files
  Worker <- MC_OneWorker
  CallerLists <- MC_Fallback
  Configs <- MC_NoMessageId
  Faults <- MC_NoFaults
  MaxFaults = 2
  MaxRefusals = 2
PROPERTIES
  TrueIfAccepted
CHECK_DEADLOCK FALSE
