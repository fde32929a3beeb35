CONSTANTS
  N = 4
  Self = 0
  Primary = 1
  Quorum = 3
  NumBlocks = 3
  Children = 2
  QueueMax = 6
  CheckpointInterval = 4
  WindowSize = 8
  MaxSeqno = 4
  Effect <- WritesApart
  Value = {0, 1, 2}
  Blank = 0
  Unhashed = Unhashed
  Start <- Positions
  Announcers = {2}
  MaxMishaps = 0
  MaxRepeated = 0
SPECIFICATION Spec
CHECK_DEADLOCK FALSE
PROPERTIES FetchEndsWhole
