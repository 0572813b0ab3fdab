SPECIFICATION Spec
CONSTANTS
  m1 = m1
  m2 = m2
  m3 = m3
  m4 = m4
  x = x
  y = y
  z = z
  NoMsg = NoMsg
  Msg <- MC_TwoMsgs
  Rcpt <- MC_Rcpt
  Recipients <- MC_Recipients
  Unencodable <- MC_Plain
  Clients <- MC_New
  Login = FALSE
  MaxAuths = 2
  MaxRefusals = 1
  MaxFaults = 0
INVARIANTS
  HelloBeforeMail
