SPECIFICATION MCSpec
CONSTANTS
  Callers = {sdp, nat}
  Modems = {tunnel, stranger}
  Null = null
  MaxPackets = 4
  \* One channel; payloads of one cell at most, and one longer; two frames
  \* without a payload fit into the stage.
  Channels = {"sip"}
  VmPort = "other"
  MaxPayload = 1
  StageSize = 6
  HostFrames = 2
  VmFrames = 1
  \* Six packets across a wrap of the numbers, two neighbours lost, one late
  \* copy.
  Modes = {"buffered", "immediate", "fixed-buffered"}
  Width = 14
  First = 13
  InitDepth = 2
  MaxDepth = 3
  MissSkip = 2
  SkipDepth = 2
  MaxGap = 3
  Packets = 6
  Lost = {2, 3}
  Late = 6
  Twice = 1
  \* A known and an unknown type, payloads up to one above the maximum, and a
  \* header no frame may have.
  Types = {17, 99}
  Bytes = {65}
  Sizes = {0, 3, 4}
  WirePayload = 3
  ToVmFrames = 2
  ToHostFrames = 2
  BadHeaders = 1
INVARIANTS BridgeSafe TunnelSafe
PROPERTIES FramesInOrder PlayoutHolds WireHolds DatagramsArrive
CHECK_DEADLOCK FALSE
