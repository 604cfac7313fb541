CONSTANTS
  CallId = {k1, k2}
  Dialog = {d1, d2}
  NoDialog = NoDialog
  MaxResend = 1
  AcceptReInvite = TRUE
  Backend = {b1, b2, b3}
  NoBackend = NoBackend
  Mode = "slmodemd-pjsip"
  SetupMayFail = FALSE
  SipOverTcp = FALSE
SPECIFICATION Spec
INVARIANTS LeaseReturned
CHECK_DEADLOCK FALSE
