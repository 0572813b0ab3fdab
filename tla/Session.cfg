SPECIFICATION Spec
CONSTANTS
  m1 = m1
  m2 = m2
  m3 = m3
  m4 = m4
  x = x
  y = y
  z = z
  NoMsg = NoMsg
  Msg <- MC_FourMsgs
  Rcpt <- MC_Rcpt
  Recipients <- MC_Recipients
  Unencodable <- MC_Odd
  Clients <- MC_All
  Login = TRUE
  MaxAuths = 2
  MaxRefusals = 2
  MaxFaults = 2
INVARIANTS
  TypeOK
  AllOrNothing
  Truthful
  Protected
PROPERTIES
  CleanSendSucceeds
  Implements
