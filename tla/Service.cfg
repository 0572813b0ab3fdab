SPECIFICATION FairSpec
CONSTANTS
  m1 = m1
  f1 = f1
  f2 = f2
  f3 = f3
  f4 = f4
  w1 = w1
  w2 = w2
  NoMsg = NoMsg
  NoFile = NoFile
  NoLimit = NoLimit
  Msg <- MC_OneMsg
  File <- MC_Files
  Worker <- MC_TwoWorkers
  CallerLists <- MC_CallerLists
  Configs <- MC_Configs
  Faults <- MC_All
  MaxFaults = 2
  MaxRefusals = 2
INVARIANTS
  TypeOK
  NoSurplus
  AnswersTrue
  QueueKeeps
  NotDiscardedEarly
PROPERTIES
  PluginsToldTheSame
  Implements
  LeavesQueue
CHECK_DEADLOCK FALSE
