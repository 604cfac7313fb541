SPECIFICATION MCSpec
CONSTANTS
  Roles = {"answer", "originate"}
  Forceds = {"null", "V22", "V21"}
  Callers = {"V22bis", "V21", "Bell103"}
  SkipV8 = {TRUE, FALSE}
  AnswerDelay = 1
  AnsQueue = 1
  V8Time = 2
  V22Time = 3
  Configured = 0
  DefaultTraining = 1
  WindowV21 = 2
  WindowBell103 = 3
  Stable = 1
  SilentMax = 4
  Kinds = {"V22", "V22bis"}
  Silence = 2
  S1 = 1
  S11at2400 = 3
  S11at1200 = 4
  S1111 = 1
  SB1 = 4
  Acquire = 2
  Scrambled = 4
  Sustain = 4
  Sixteen = 5
  Detect = 3
  S1Run = 1
  Timeout = 12
INVARIANTS HandshakeSafe V22Safe
PROPERTIES StartupEnds
