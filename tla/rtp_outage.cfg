SPECIFICATION FairSpec
CONSTANTS
  Modes = {"fixed-buffered"}
  Width = 12
  First = 11
  InitDepth = 1
  MaxDepth = 4
  MissSkip = 1
  SkipDepth = 2
  MaxGap = 1
  Packets = 4
  Lost = {1, 2}
  Late = 4
  Twice = 0
PROPERTY NeverStalls
CHECK_DEADLOCK FALSE
