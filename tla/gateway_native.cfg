CONSTANTS
  CallId = {k1, k2}
  Dialog = {d1, d2, d3}
  NoDialog = NoDialog
  MaxResend = 1
  AcceptReInvite = TRUE
  Backend = {b1, b2, b3}
  NoBackend = NoBackend
  Mode = "native"
  SetupMayFail = TRUE
  SipOverTcp = FALSE
SPECIFICATION Spec
INVARIANT CallSafe
SYMMETRY Symmetry
CHECK_DEADLOCK FALSE
