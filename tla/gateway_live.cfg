CONSTANTS
  CallId = {k1, k2}
  Dialog = {d1, d2}
  NoDialog = NoDialog
  MaxResend = 1
  AcceptReInvite = TRUE
  Backend = {b1, b2}
  NoBackend = NoBackend
  Mode = "auto"
  SetupMayFail = FALSE
  SipOverTcp = FALSE
SPECIFICATION FairSpec
INVARIANTS ExitLeavesNoVm
PROPERTIES CallsSettle ShutdownExits
CHECK_DEADLOCK FALSE
