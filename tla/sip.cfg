CONSTANTS
  CallId = {k1, k2}
  Dialog = {d1, d2, d3}
  NoDialog = NoDialog
  MaxResend = 2
  AcceptReInvite = TRUE
SPECIFICATION FairSpec
INVARIANTS TypeOK LiveDialogReachable TimerOnlyWhileUnacked
PROPERTIES AnswerSettles
CHECK_DEADLOCK FALSE
