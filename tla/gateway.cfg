CONSTANTS
  CallId = {k1, k2}
  Dialog = {d1, d2}
  NoDialog = NoDialog
  MaxResend = 1
  AcceptReInvite = TRUE
  Backend = {b1, b2, b3}
  NoBackend = NoBackend
  Mode = "auto"
  SetupMayFail = TRUE
  SipOverTcp = TRUE
SPECIFICATION Spec
INVARIANTS TypeOK ActiveIsReachable LeaseMatches EndsOnce
PROPERTIES TeardownReturnsLease PartsSpec
SYMMETRY Symmetry
CHECK_DEADLOCK FALSE
