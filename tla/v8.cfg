SPECIFICATION MCSpec
CONSTANTS
  Protocols = {"V22bis", "V21"}
  Ansam = 2
  Wait1s = 1
  Te = 1
  CiOff = 1
  MaxCi = 1
  PostSig = 1
  CmWait = 8
  JmWait = 6
  Foreign = "none"
  Noise = TRUE
  Bytes = {"zero", "sync", "callfn", "modn0", "ext"}
  MaxLen = 7
  MaxPiece = 3
INVARIANTS V8Safe
PROPERTIES NegotiationHolds NegotiationEnds
CHECK_DEADLOCK FALSE
