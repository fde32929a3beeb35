CONSTANTS
  N = 4
  Self = 0
  Primary = 1
  Quorum = 3
  NumBlocks = 2
  Children = 2
  QueueMax = 4
  CheckpointInterval = 2
  WindowSize = 4
  MaxSeqno = 4
  Effect <- Writes
  Value = {0, 1, 2}
  Blank = 0
  Unhashed = Unhashed
  Start <- Positions
  Announcers = {2}
  MaxMishaps = 1
  MaxRepeated = 0
SPECIFICATION Spec
CHECK_DEADLOCK FALSE
INVARIANTS TypeOK CleanBlocksHashed
PROPERTIES CatchesUp
