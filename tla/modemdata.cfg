SPECIFICATION MCSpec
CONSTANTS
  CallerBytes = {"d", "NO"}
  Codes = {"BUSY"}
  DataMax = 1
  CodeMax = 1
  Writes = 1
  Prompt = TRUE
  Chunks <- OneLine
  Heartbeat = 1
  IdleTimeout = TRUE
  Connections = 3
  MaxBeats = 1
INVARIANTS ControlSafe TelnetSafe
PROPERTIES CallerIsServed
CHECK_DEADLOCK FALSE
