SPECIFICATION Spec
CONSTANTS
  n1 = n1
  n2 = n2
  a = a
  b = b
  odd = odd
  ab = ab
  None = None
  NullSender = NullSender
  GtSender = GtSender
  Name <- MC_Names
  Address <- MC_Addresses
  Files <- MC_Files
  SystemFiles <- MC_System
  MaxDepth = 3
  Calls <- MC_Calls
  HeaderCases <- MC_HeaderCases
  Configs <- MC_Configs
  Parts <- MC_Parts
  NotAscii = {odd}
  MaxAttempts = 2
  MaxTime = 2
INVARIANTS
  TypeOK
  LookupComplete
  GivesUpOnlyOnCycle
  Addressed
  MetaKept
  ExitTruthful
  HeadersComplete
PROPERTIES
  Ends
CHECK_DEADLOCK FALSE
